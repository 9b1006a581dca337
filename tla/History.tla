------------------------------- MODULE History ------------------------------
(***************************************************************************)
(* What is left of a run: the rows that its JVM stored, the history page   *)
(* (html/history.html) that turns the pages of table output, and the       *)
(* downloads of a console page (js/index.js) and of the history page.      *)
(*                                                                         *)
(* A download passes through two globals of the node server (main.js): a   *)
(* request sets uuid, the query it starts sets output, and the window that *)
(* the page opens next is served whatever the globals hold by then.        *)
(* Queries run on a pool of connections and end in any order.  A text is   *)
(* named after what it is of: [kind, run].                                 *)
(***************************************************************************)
EXTENDS Integers, Sequences, FiniteSets, Functions

CONSTANTS
  Consoles, Histories,  \* pages of either kind
  NoPage,
  MaxRuns,              \* bound: launched scripts; the number of a run is its uuid
  RowsPerPage,          \* historyRecordPerPage and historynumberPerPage: 11
  Downloads,            \* buttons that are used, of AllDownloads
  MaxClicks             \* bound: clicks, on all pages

AllDownloads == {"output", "progress", "explain", "error"}

ASSUME PagesAssumption == Consoles \intersect Histories = {} /\ NoPage \notin Consoles \union Histories
ASSUME BoundAssumption ==
  /\ MaxRuns \in Nat /\ MaxClicks \in Nat /\ RowsPerPage \in Nat \ {0}
  /\ Downloads \subseteq AllDownloads

Pages == Consoles \union Histories
Runs  == 1..MaxRuns

Text   == [kind : AllDownloads, run : Runs]
NoText == [kind |-> "none", run |-> 0]

VARIABLES
  killer,      \* the page whose request ended the server, or NoPage
  output, uuid,
  queries,     \* queries under way: [id, page, kind, run, items]
  request, response,
  windows,     \* GETs of download.html under way: [id, page]
  rows,        \* table output: the run of each row; the position is the id
  console,     \* console[p]: [run, buttons]: currentScriptUUID, download buttons
  history,     \* history[p]: current page, total, items (ids)
  started, ended,  \* number of the last run, the runs that are over
  clicks,
  (* observed only *)
  wanted,      \* wanted[p]: the text that p asked for last
  served,      \* what the last window was served, and what its page had asked for
  orderly,     \* so far, every download was queried and no two overlapped
  patient,     \* so far, no page of the history was turned before it was shown
  seen         \* seen[p]: [upto, ids]: rows there when p was loaded, rows shown

serverVars  == <<killer, output, uuid, queries>>
runVars     == <<rows, started, ended>>
observed    == <<wanted, served, orderly, patient, seen>>
vars == <<serverVars, request, response, windows, runVars, console, history, clicks, observed>>

Up == killer = NoPage

PageRequest(number, id) == [kind |-> "page", run |-> number, id |-> id]

\* Earlier runs have left rows; each history page asks for page 1.
Init ==
  /\ killer = NoPage /\ output = NoText /\ uuid = 0 /\ queries = {} /\ windows = {}
  /\ started \in 0..MaxRuns /\ ended = 1..started /\ rows = [r \in 1..started |-> r]
  /\ request = [p \in Pages |-> IF p \in Histories THEN << PageRequest(1, 0) >> ELSE <<>>]
  /\ response = [p \in Pages |-> <<>>]
  /\ console = [p \in Consoles |-> [run |-> 0, buttons |-> FALSE]]
  /\ history = [p \in Histories |-> [current |-> 1, total |-> 1, items |-> <<>>]]
  /\ clicks = 0
  /\ wanted = [p \in Pages |-> NoText]
  /\ served = [name |-> 0, text |-> NoText, wanted |-> NoText]
  /\ orderly = TRUE /\ patient = TRUE
  /\ seen = [p \in Histories |-> [upto |-> Len(rows), ids |-> {}]]

-----------------------------------------------------------------------------
(* Runs: what JVMs store (PigRun) and consoles are told.                   *)

RunUnchanged == UNCHANGED <<serverVars, request, response, windows, history, observed>>

Start(p) ==
  /\ Up /\ started < MaxRuns /\ started' = started + 1
  /\ console' = [console EXCEPT ![p].run = started']
  /\ UNCHANGED <<rows, ended, clicks>> /\ RunUnchanged

\* a row only for a failure: the constructor of a success's Output throws
RowFor(r, state) == IF state = "Fail" THEN << r >> ELSE <<>>

\* a run that was not stored failed with a null message, or was killed
Ends(r, state) ==
  /\ r \in (1..started) \ ended /\ ended' = ended \union {r}
  /\ rows' = rows \o RowFor(r, state)
  /\ console' = [p \in Consoles |->
       IF state = "Success" /\ console[p].run = r THEN [run |-> r, buttons |-> TRUE] ELSE console[p]]
  /\ UNCHANGED <<started, clicks>> /\ RunUnchanged

-----------------------------------------------------------------------------
(* Clicks.                                                                 *)

Click(p, message) ==
  /\ Up /\ clicks < MaxClicks /\ clicks' = clicks + 1
  /\ request' = [request EXCEPT ![p] = Append(@, message)]
  /\ UNCHANGED <<serverVars, response, runVars, console, served, seen>>

DownloadsIdle ==
  /\ windows = {} /\ \A q \in queries : q.kind = "page"
  /\ \A p \in Pages : /\ \A i \in DOMAIN request[p] : request[p][i].kind = "page"
                      /\ \A i \in DOMAIN response[p] : response[p][i].kind = "page"

Ask(p, kind, run) ==
  /\ kind \in Downloads
  /\ Click(p, [kind |-> kind, run |-> run, id |-> clicks + 1])
  /\ wanted' = [wanted EXCEPT ![p] = [kind |-> kind, run |-> run]]
  /\ orderly' = (orderly /\ DownloadsIdle /\ kind # "explain")
  /\ UNCHANGED <<history, patient>>

downloadOutput(p) ==
  console[p].buttons /\ Ask(p, "output", console[p].run) /\ UNCHANGED windows

downloadProgressLog(p) ==
  console[p].buttons /\ Ask(p, "progress", console[p].run) /\ UNCHANGED windows

\* the window is opened at once, and may overtake the message
downloadExplainLog(p) ==
  /\ console[p].run # 0
  /\ Ask(p, "explain", console[p].run)
  /\ windows' = windows \union {[id |-> clicks + 1, page |-> p]}

\* the ErrorLog button of a row
downloadHistoryOutput(p, id) ==
  id \in Range(history[p].items) /\ Ask(p, "error", rows[id]) /\ UNCHANGED windows

HistoryIdle(p) ==
  /\ request[p] = <<>> /\ response[p] = <<>> /\ \A q \in queries : q.page # p

Turn(p, current) ==
  /\ history' = [history EXCEPT ![p].current = current]
  /\ Click(p, PageRequest(current, clicks + 1))
  /\ patient' = (patient /\ HistoryIdle(p))
  /\ UNCHANGED <<windows, wanted, orderly>>

historyNextPage(p) ==
  history[p].current # history[p].total /\ Turn(p, history[p].current + 1)

\* a slip: not refused on the first page
LastPageUnguarded(p) == Turn(p, history[p].current - 1)

historyLastPage(p) ==
  history[p].current \notin {0, 1} /\ Turn(p, history[p].current - 1)

-----------------------------------------------------------------------------
(* The server.                                                             *)

Handling(p, kinds) ==
  /\ Up /\ request[p] # <<>> /\ Head(request[p]).kind \in kinds
  /\ request' = [request EXCEPT ![p] = Tail(@)]
  /\ UNCHANGED <<killer, response, windows, runVars, console, history, clicks, observed>>

\* pool.getConnection and connection.query
Query(p) ==
  LET m == Head(request[p]) IN
  queries' = queries \union { [id |-> m.id, page |-> p, kind |-> m.kind, run |-> m.run,
                               items |-> <<>>, counting |-> FALSE] }

OnDownloadHistoryOutput(p) ==
  /\ Handling(p, {"output", "error"}) /\ Query(p)
  /\ uuid' = Head(request[p]).run
  /\ UNCHANGED output

OnDownloadProgressLog(p) ==
  /\ Handling(p, {"progress"}) /\ Query(p)
  /\ uuid' = Head(request[p]).run
  /\ UNCHANGED output

OnDownloadExplainLog(p) ==
  /\ Handling(p, {"explain"})
  /\ output' = [kind |-> "explain", run |-> Head(request[p]).run]
  /\ uuid' = Head(request[p]).run
  /\ UNCHANGED queries

OnHistorycurrentPage(p) ==
  Handling(p, {"page"}) /\ Query(p) /\ UNCHANGED <<output, uuid>>

QueryUnchanged == UNCHANGED <<uuid, request, windows, runVars, console, history, clicks, observed>>

Answer(q, message) ==
  /\ queries' = queries \ {q}
  /\ response' = [response EXCEPT ![q.page] = Append(@, message)]

\* a slip: only the rows of successes
StoredSuccesses(run) == FALSE

\* SELECT output FROM output WHERE script_uuid = run
Stored(run) == run \in Range(rows)

GetHistoryOutput(q) ==
  /\ Up /\ q.kind \in {"output", "error"} /\ Stored(q.run)
  /\ output' = [kind |-> q.kind, run |-> q.run]
  /\ Answer(q, [kind |-> "done", id |-> q.id])
  /\ UNCHANGED killer /\ QueryUnchanged

\* rows[0] is undefined
GetHistoryOutputThrows(q) ==
  /\ Up /\ q.kind \in {"output", "error"} /\ ~Stored(q.run)
  /\ killer' = q.page
  /\ UNCHANGED <<output, queries, response>> /\ QueryUnchanged

\* a slip: a shared log grows from download to download
GetProgressLogAppends(q) ==
  /\ Up /\ q.kind = "progress"
  /\ output' = IF output = NoText THEN [kind |-> "progress", run |-> q.run] ELSE output
  /\ Answer(q, [kind |-> "done", id |-> q.id])
  /\ UNCHANGED killer /\ QueryUnchanged

\* the rows of table job, none included
GetProgressLog(q) ==
  /\ Up /\ q.kind = "progress"
  /\ output' = [kind |-> "progress", run |-> q.run]
  /\ Answer(q, [kind |-> "done", id |-> q.id])
  /\ UNCHANGED killer /\ QueryUnchanged

\* a slip: the offset of the next page
NextPageIds(number) ==
  LET newest == Len(rows) - number * RowsPerPage
  IN [i \in 1..(IF newest < RowsPerPage THEN (IF newest < 0 THEN 0 ELSE newest) ELSE RowsPerPage)
        |-> newest - i + 1]

\* ORDER BY id DESC LIMIT RowsPerPage OFFSET (number - 1) * RowsPerPage
PageIds(number) ==
  LET newest == Len(rows) - (number - 1) * RowsPerPage
  IN [i \in 1..(IF newest < RowsPerPage THEN (IF newest < 0 THEN 0 ELSE newest) ELSE RowsPerPage)
        |-> newest - i + 1]

\* two statements and no transaction: a row may come in between
SelectPage(q) ==
  /\ Up /\ q.kind = "page" /\ ~q.counting
  /\ queries' = (queries \ {q}) \union {[q EXCEPT !.items = PageIds(q.run), !.counting = TRUE]}
  /\ UNCHANGED <<killer, output, response>> /\ QueryUnchanged

SelectCount(q) ==
  /\ Up /\ q.kind = "page" /\ q.counting
  /\ Answer(q, [kind |-> "page", items |-> q.items, number |-> Len(rows)])
  /\ UNCHANGED <<killer, output>> /\ QueryUnchanged

\* GET /download.html; res.write(undefined) throws
Download(w) ==
  /\ Up /\ windows' = windows \ {w}
  /\ IF output = NoText
       THEN killer' = w.page /\ UNCHANGED served
       ELSE /\ served' = [name |-> uuid, text |-> output, wanted |-> wanted[w.page]]
            /\ UNCHANGED killer
  /\ UNCHANGED <<output, uuid, queries, request, response, runVars, console, history, clicks,
                 wanted, orderly, patient, seen>>

-----------------------------------------------------------------------------
(* Answers.                                                                *)

Received(p, kind) ==
  /\ response[p] # <<>> /\ Head(response[p]).kind = kind
  /\ response' = [response EXCEPT ![p] = Tail(@)]
  /\ UNCHANGED <<serverVars, request, runVars, console, clicks, wanted, served, orderly, patient>>

\* window.open('download.html')
OnResultFromDb(p) ==
  /\ Received(p, "done")
  /\ windows' = windows \union {[id |-> Head(response[p]).id, page |-> p]}
  /\ UNCHANGED <<history, seen>>

\* showHistory
OnResult(p) ==
  LET data  == Head(response[p])
      total == (data.number + RowsPerPage - 1) \div RowsPerPage
  IN /\ Received(p, "page")
     /\ history' = [history EXCEPT ![p].total = total, ![p].items = data.items,
                                   ![p].current = IF total = 0 THEN 0 ELSE @]
     /\ seen' = [seen EXCEPT ![p].ids = @ \union Range(data.items)]
     /\ UNCHANGED windows

-----------------------------------------------------------------------------
User ==
  \/ \E p \in Consoles : \/ Start(p) \/ downloadOutput(p) \/ downloadProgressLog(p)
                         \/ downloadExplainLog(p)
  \/ \E p \in Histories : \/ historyNextPage(p) \/ historyLastPage(p)
                          \/ \E id \in DOMAIN rows : downloadHistoryOutput(p, id)

Server ==
  \/ \E p \in Pages : \/ OnDownloadHistoryOutput(p) \/ OnDownloadProgressLog(p)
                      \/ OnDownloadExplainLog(p) \/ OnHistorycurrentPage(p)
  \/ \E q \in queries : \/ GetHistoryOutput(q) \/ GetHistoryOutputThrows(q) \/ GetProgressLog(q)
                        \/ SelectPage(q) \/ SelectCount(q)
  \/ \E w \in windows : Download(w)

Next ==
  \/ User \/ Server
  \/ \E r \in Runs, state \in {"Fail", "Success", "unstored"} : Ends(r, state)
  \/ \E p \in Pages : OnResultFromDb(p) \/ OnResult(p)

Spec == Init /\ [][Next]_vars

-----------------------------------------------------------------------------
(* Properties.                                                             *)

Message ==
  {m \in [kind : AllDownloads \union {"page"}, run : Nat, id : Nat] : m.kind # "page" => m.run \in Runs}

Answers ==
  [kind : {"done"}, id : Nat] \union [kind : {"page"}, items : Seq(Nat \ {0}), number : Nat]

QueryType ==
  {q \in [id : Nat, page : Pages, kind : AllDownloads \union {"page"}, run : Nat,
          items : Seq(Nat \ {0}), counting : BOOLEAN] : q.kind # "page" => q.run \in Runs}

\* The type of every variable; the rows a page shows are rows of the table, and
\* download buttons belong to a run.
TypeOK ==
  /\ killer \in Pages \union {NoPage} /\ output \in Text \union {NoText} /\ uuid \in Nat
  /\ queries \subseteq QueryType /\ windows \subseteq [id : Nat, page : Pages]
  /\ request \in [Pages -> Seq(Message)] /\ response \in [Pages -> Seq(Answers)]
  /\ rows \in Seq(Runs) /\ started \in 0..MaxRuns /\ ended \subseteq 1..started
  /\ console \in [Consoles -> [run : 0..MaxRuns, buttons : BOOLEAN]]
  /\ history \in [Histories -> [current : Nat, total : Nat, items : Seq(Nat \ {0})]]
  /\ clicks \in Nat /\ orderly \in BOOLEAN /\ patient \in BOOLEAN
  /\ wanted \in [Pages -> Text \union {NoText}]
  /\ served \in [name : Nat, text : Text \union {NoText}, wanted : Text \union {NoText}]
  /\ seen \in [Histories -> [upto : Nat, ids : SUBSET Nat]]
  /\ \A p \in Consoles : console[p].buttons => console[p].run # 0
  /\ \A p \in Histories : Range(history[p].items) \subseteq DOMAIN rows

\* When queried downloads do not overlap, a page is served the text it asked
\* for under the uuid of the run it is of, although both pass through globals
\* that every page sets and nothing ties the window to the request.
OwnDownload ==
  orderly => served.text = served.wanted /\ served.name = served.wanted.run

\* No click on a history page ends the server, whatever consoles download: each
\* button belongs to a row that getHistoryOutput finds, and its window is
\* opened only when there is an output.
HistoryIsHarmless == killer \notin Histories

\* A user who turns the history to its last page, waiting for each page to be
\* shown, has seen every row there was when the history was loaded, although
\* runs that end meanwhile shift the rows from page to page.
HistoryIsComplete ==
  \A p \in Histories :
    patient /\ HistoryIdle(p) /\ history[p].current = history[p].total =>
      1..seen[p].upto \subseteq seen[p].ids

\* Downloading what a run has left behind does not end the server.
ServerStaysUp == Up
=============================================================================
