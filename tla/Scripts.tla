------------------------------ MODULE Scripts -------------------------------
(***************************************************************************)
(* The script files: the directory scripts/ of the node server (main.js),  *)
(* which every page lists, saves to, deletes from and loads into its       *)
(* editor, and the table of scripts on a page (js/index.js).               *)
(*                                                                         *)
(* The server lists and deletes synchronously, but writes through a stream *)
(* that opens (creates or truncates) the file later, and reads in the      *)
(* background: readers and writers of a file interleave, and answers to    *)
(* one page may overtake each other.  What a file holds is named after the *)
(* script it was written as; NoText is an empty text.  In which order the  *)
(* file system lists a directory is a parameter.                           *)
(***************************************************************************)
EXTENDS Integers, FiniteSets, SequencesExt, Selection

CONSTANTS
  Pages,
  Names,       \* script names that occur
  NoText,
  Listing,     \* Listing[dir]: what readdirSync returns for the scripts dir
  Patterns,    \* what a search may match: sets of names
  itemNumber,  \* rows of a page of the table: 11 in the code
  MaxClicks    \* bound: clicks, on all pages

ASSUME BoundAssumption   == MaxClicks \in Nat
ASSUME NamesAssumption   == NoText \notin Names
ASSUME ListingAssumption ==
  /\ Listing \in [SUBSET Names -> Seq(Names)]
  /\ \A dir \in SUBSET Names : Range(Listing[dir]) = dir /\ IsInjective(Listing[dir])
ASSUME ScriptsAssumption == itemNumber \in Nat \ {0} /\ Patterns \subseteq SUBSET Names

Texts == Names \union {NoText}

VARIABLES
  up,        \* the node server runs
  files,     \* files[n]: what script n holds, for the names in the directory
  streams,   \* write streams: [id, file, text, open]
  reads,     \* readFile calls under way: [id, page, file]
  request,   \* request[p]: socket.io messages from the page to the server
  response,  \* response[p]: messages to the page
  table,     \* table[p]: scripts, current and total page number, rows shown
  editor,    \* editor[p]: selectedScript and the text
  clicks,
  (* observed only *)
  fresh,     \* pages sent a listing since a file was deleted last
  careful    \* no click so far was made while something was under way, or on
             \* a row that is not in a listing which is fresh

vars == <<up, files, streams, reads, request, response, table, editor, clicks, fresh, careful>>

Dir == DOMAIN files

\* nothing is under way between the pages and the server
Idle ==
  /\ streams = {} /\ reads = {}
  /\ \A p \in Pages : request[p] = <<>> /\ response[p] = <<>>

-----------------------------------------------------------------------------
(* The table of scripts.                                                   *)

PageCount(list) == (Len(list) + itemNumber - 1) \div itemNumber

\* a slip: the last page is always taken for a full one
LastRowOfFullPages(list, current, total) == current * itemNumber

\* indexes count from 1: "min" + 1
LastRow(list, current, total) ==
  IF current = total /\ Len(list) % itemNumber # 0 THEN Len(list) ELSE current * itemNumber

\* scripts[i].substring throws on an index outside the list; the table is set
\* at the end only, so it keeps its rows
showScripts(list, current, total, rows) ==
  LET from == (current - 1) * itemNumber + 1
      to   == LastRow(list, current, total)
  IN IF from..to \subseteq DOMAIN list THEN SubSeq(list, from, to) ELSE rows

\* socket.on('scriptNames')
Listed(t, list) ==
  LET total   == PageCount(list)
      current == IF t.current > total THEN 1 ELSE t.current
  IN [scripts |-> list, current |-> current, total |-> total, view |-> "all",
      rows |-> showScripts(list, current, total, t.rows)]

\* keyup in the search field: the scripts found, on page 1
Searched(t, found) ==
  IF found = <<>>
    THEN [t EXCEPT !.current = 0, !.total = 0, !.view = "search", !.rows = <<>>]
    ELSE [t EXCEPT !.current = 1, !.total = PageCount(found), !.view = "search",
                   !.rows = showScripts(found, 1, PageCount(found), t.rows)]

Turned(t, current) ==
  [t EXCEPT !.current = current, !.rows = showScripts(t.scripts, current, t.total, t.rows)]

\* a page before it was sent a listing: totalPageNumber is undefined
Empty == [scripts |-> <<>>, current |-> 1, total |-> 0, view |-> "all", rows |-> <<>>]

-----------------------------------------------------------------------------
\* The server runs, its directory holds some scripts, and a connection sends
\* each page the listing.
Init ==
  /\ up = TRUE
  /\ \E dir \in SUBSET Names :
       /\ files = [n \in dir |-> n]
       /\ response = [p \in Pages |-> << [kind |-> "scriptNames", data |-> Listing[dir] ] >>]
  /\ streams = {} /\ reads = {}
  /\ request = [p \in Pages |-> <<>>]
  /\ table = [p \in Pages |-> Empty]
  /\ editor = [p \in Pages |-> [selected |-> NoText, text |-> NoText]]
  /\ clicks = 0 /\ fresh = Pages /\ careful = TRUE

-----------------------------------------------------------------------------
(* Clicks.                                                                 *)

Click == clicks < MaxClicks /\ clicks' = clicks + 1

ServerUnchanged == UNCHANGED <<up, files, streams, reads>>

Emit(p, kind, file, text) ==
  /\ request' = [request EXCEPT ![p] =
       Append(@, [kind |-> kind, file |-> file, text |-> text, id |-> clicks])]
  /\ UNCHANGED <<response, table, fresh>> /\ ServerUnchanged

\* the user types a text and a name that may exist
createScript(p, name) ==
  /\ Click /\ Emit(p, "saveFile", name, name)
  /\ editor' = [editor EXCEPT ![p] = [selected |-> name, text |-> name]]
  /\ careful' = (careful /\ Idle)

saveScript(p) ==
  /\ editor[p].selected # NoText
  /\ Click /\ Emit(p, "saveFile", editor[p].selected, editor[p].text)
  /\ careful' = (careful /\ Idle)
  /\ UNCHANGED editor

RowIsCurrent(p, name) == Idle /\ p \in fresh /\ name \in Range(table[p].scripts)

deleteScript(p, name) ==
  /\ name \in Range(table[p].rows)
  /\ Click /\ Emit(p, "deleteFile", name, NoText)
  /\ careful' = (careful /\ RowIsCurrent(p, name))
  /\ UNCHANGED editor

selectScript(p, name) ==
  /\ name \in Range(table[p].rows)
  /\ Click /\ Emit(p, "selectFile", name, NoText)
  /\ editor' = [editor EXCEPT ![p].selected = name]
  /\ careful' = (careful /\ RowIsCurrent(p, name))

View(p, t) ==
  /\ Click /\ table' = [table EXCEPT ![p] = t]
  /\ UNCHANGED <<request, response, editor, fresh, careful>> /\ ServerUnchanged

Search(p, pattern) ==
  View(p, Searched(table[p], Only(table[p].scripts, pattern)))

nextPage(p) ==
  /\ table[p].current # table[p].total
  /\ View(p, Turned(table[p], table[p].current + 1))

\* a slip: not refused on the first page
LastPageUnguarded(p) == View(p, Turned(table[p], table[p].current - 1))

lastPage(p) ==
  /\ table[p].current \notin {0, 1}
  /\ View(p, Turned(table[p], table[p].current - 1))

-----------------------------------------------------------------------------
(* The server.                                                             *)

Handling(p, kind) ==
  /\ up /\ request[p] # <<>> /\ Head(request[p]).kind = kind
  /\ request' = [request EXCEPT ![p] = Tail(@)]
  /\ UNCHANGED <<table, editor, clicks, careful>>

Truncated(name) == [n \in Dir \union {name} |-> IF n = name THEN NoText ELSE files[n]]

SendListing(p) ==
  response' = [response EXCEPT ![p] = Append(@, [kind |-> "scriptNames", data |-> Listing[Dir']])]

\* createWriteStream opens the file in another thread, possibly before
\* readdirSync lists the directory; write and end wait for it
OnSaveFile(p) ==
  LET m == Head(request[p]) IN
  /\ Handling(p, "saveFile")
  /\ \E opened \in BOOLEAN :
       /\ streams' = streams \union {[id |-> m.id, file |-> m.file, text |-> m.text, open |-> opened]}
       /\ files' = IF opened THEN Truncated(m.file) ELSE files
  /\ SendListing(p)
  /\ fresh' = fresh \union {p}
  /\ UNCHANGED <<up, reads>>

\* a slip: the directory is listed before the file is removed
OnDeleteListsFirst(p) ==
  LET m == Head(request[p]) IN
  /\ Handling(p, "deleteFile") /\ m.file \in Dir
  /\ files' = Restrict(files, Dir \ {m.file})
  /\ streams' = {s \in streams : ~s.open \/ s.file # m.file}
  /\ response' = [response EXCEPT ![p] = Append(@, [kind |-> "scriptNames", data |-> Listing[Dir]])]
  /\ fresh' = {p}
  /\ UNCHANGED <<up, reads>>

\* a stream that is open goes on writing to the removed file
OnDeleteFile(p) ==
  LET m == Head(request[p]) IN
  /\ Handling(p, "deleteFile") /\ m.file \in Dir
  /\ files' = Restrict(files, Dir \ {m.file})
  /\ streams' = {s \in streams : ~s.open \/ s.file # m.file}
  /\ SendListing(p)
  /\ fresh' = {p}
  /\ UNCHANGED <<up, reads>>

\* unlinkSync throws, and nothing catches it
OnDeleteThrows(p) ==
  /\ Handling(p, "deleteFile") /\ Head(request[p]).file \notin Dir
  /\ up' = FALSE
  /\ UNCHANGED <<files, streams, reads, response, fresh>>

OnSelectFile(p) ==
  LET m == Head(request[p]) IN
  /\ Handling(p, "selectFile")
  /\ reads' = reads \union {[id |-> m.id, page |-> p, file |-> m.file]}
  /\ UNCHANGED <<up, files, streams, response, fresh>>

BackgroundUnchanged == UNCHANGED <<request, table, editor, clicks, fresh, careful>>

\* a slip: the stream is ended before its text is written
StreamOpensAndEnds(s) ==
  /\ up /\ ~s.open
  /\ streams' = streams \ {s}
  /\ files' = Truncated(s.file)
  /\ UNCHANGED <<up, reads, response>> /\ BackgroundUnchanged

StreamOpens(s) ==
  /\ up /\ ~s.open
  /\ streams' = (streams \ {s}) \union {[s EXCEPT !.open = TRUE]}
  /\ files' = Truncated(s.file)
  /\ UNCHANGED <<up, reads, response>> /\ BackgroundUnchanged

StreamWrites(s) ==
  /\ up /\ s.open
  /\ streams' = streams \ {s}
  /\ files' = [files EXCEPT ![s.file] = s.text]
  /\ UNCHANGED <<up, reads, response>> /\ BackgroundUnchanged

ReadFile(r) ==
  /\ up /\ r.file \in Dir
  /\ reads' = reads \ {r}
  /\ response' = [response EXCEPT ![r.page] =
       Append(@, [kind |-> "scriptContent", data |-> files[r.file]])]
  /\ UNCHANGED <<up, files, streams>> /\ BackgroundUnchanged

\* content is undefined, and content.toString() throws
ReadFileThrows(r) ==
  /\ up /\ r.file \notin Dir
  /\ up' = FALSE
  /\ UNCHANGED <<files, streams, reads, response>> /\ BackgroundUnchanged

Received(p, kind) ==
  /\ response[p] # <<>> /\ Head(response[p]).kind = kind
  /\ response' = [response EXCEPT ![p] = Tail(@)]
  /\ UNCHANGED <<request, clicks, fresh, careful>> /\ ServerUnchanged

OnScriptNames(p) ==
  /\ Received(p, "scriptNames")
  /\ table' = [table EXCEPT ![p] = Listed(@, Head(response[p]).data)]
  /\ UNCHANGED editor

OnScriptContent(p) ==
  /\ Received(p, "scriptContent")
  /\ editor' = [editor EXCEPT ![p].text = Head(response[p]).data]
  /\ UNCHANGED table

-----------------------------------------------------------------------------
User(p) ==
  \/ \E n \in Names : createScript(p, n) \/ deleteScript(p, n) \/ selectScript(p, n)
  \/ saveScript(p) \/ nextPage(p) \/ lastPage(p)
  \/ \E pattern \in Patterns : Search(p, pattern)

Server ==
  \/ \E p \in Pages : \/ OnSaveFile(p) \/ OnDeleteFile(p) \/ OnDeleteThrows(p)
                      \/ OnSelectFile(p)
  \/ \E s \in streams : StreamOpens(s) \/ StreamWrites(s)
  \/ \E r \in reads : ReadFile(r) \/ ReadFileThrows(r)

Next == Server \/ \E p \in Pages : User(p) \/ OnScriptNames(p) \/ OnScriptContent(p)

Spec == Init /\ [][Next]_vars

-----------------------------------------------------------------------------
(* Properties.                                                             *)

Table == [scripts : Seq(Names), current : Nat, total : Nat, view : {"all", "search"},
          rows : Seq(Names)]

Requests ==
  [kind : {"saveFile", "deleteFile", "selectFile"}, file : Names, text : Texts, id : Nat]

Responses ==
  [kind : {"scriptNames"}, data : Seq(Names)] \union [kind : {"scriptContent"}, data : Texts]

\* The type of every variable; a stream that is open has created its file.
TypeOK ==
  /\ up \in BOOLEAN /\ careful \in BOOLEAN /\ clicks \in Nat /\ fresh \subseteq Pages
  /\ Dir \subseteq Names /\ files \in [Dir -> Texts]
  /\ streams \subseteq [id : Nat, file : Names, text : Texts, open : BOOLEAN]
  /\ reads \subseteq [id : Nat, page : Pages, file : Names]
  /\ request \in [Pages -> Seq(Requests)] /\ response \in [Pages -> Seq(Responses)]
  /\ table \in [Pages -> Table] /\ editor \in [Pages -> [selected : Texts, text : Texts]]
  /\ \A s \in streams : s.open => s.file \in Dir

\* Once everything has been answered, a page that was sent a listing since the
\* last deletion lists only scripts that exist: the race of saveFile's stream
\* with readdirSync can leave a script out, never add one.
ListingIsTrue == Idle => \A p \in fresh : Range(table[p].scripts) \subseteq Dir

\* Users who wait for answers and click on rows of a current listing cannot end
\* the server: unlinkSync and readFile find their file.
StaysUpWhenCareful == careful => up

\* For such users a script holds what was written as that script, whatever they
\* select and save on several pages; while it is saved it may be empty.
OwnText ==
  careful => \A n \in Dir : files[n] = n \/ (files[n] = NoText /\ \E s \in streams : s.file = n)

\* Outside of a search, paging shows each script of the listing exactly once:
\* page k holds the k-th itemNumber scripts, and the last page the rest.
PagingIsComplete ==
  \A p \in Pages :
    LET t == table[p] IN
    t.view = "all" /\ t.scripts # <<>> /\ t.current # 0 =>
      /\ t.current <= t.total
      /\ t.current < t.total <=> t.current * itemNumber < Len(t.scripts)
      /\ Len(t.rows) = (IF t.current < t.total THEN itemNumber
                                               ELSE Len(t.scripts) - (t.current - 1) * itemNumber)
      /\ \A i \in DOMAIN t.rows : t.rows[i] = t.scripts[(t.current - 1) * itemNumber + i]
=============================================================================
