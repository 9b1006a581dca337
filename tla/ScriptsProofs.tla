---------------------------- MODULE ScriptsProofs ---------------------------
(***************************************************************************)
(* For any pages and names, in whichever order directories are listed:     *)
(* listings are true, users who wait do not end the server, and their      *)
(* scripts hold what they wrote (CoreOK types what these three need); and  *)
(* the pages of a table show its whole listing (TablesInv).                *)
(***************************************************************************)
EXTENDS Scripts, Hdfs, SelectionProofs

-----------------------------------------------------------------------------
(* Invariants.                                                             *)

Streams == [id : Nat, file : Names, text : Texts, open : BOOLEAN]
Reads   == [id : Nat, page : Pages, file : Names]
Columns == {"scripts", "current", "total", "view", "rows"}

CoreOK ==
  /\ clicks \in Nat /\ Dir \subseteq Names /\ files \in [Dir -> Texts]
  /\ streams \subseteq Streams /\ reads \subseteq Reads
  /\ request \in [Pages -> Seq(Requests)] /\ response \in [Pages -> Seq(Responses)]
  /\ table = [p \in Pages |-> table[p]]
  /\ \A p \in Pages : /\ table[p] = [c \in Columns |-> table[p][c]]
                      /\ table[p].scripts \in Seq(Names)
  /\ editor \in [Pages -> [selected : Texts, text : Texts]]

\* The last listing of s, or else list, holds only what dir holds.
IsTrue(s, list, dir) ==
  /\ (\A i \in DOMAIN s : s[i].kind # "scriptNames") => Range(list) \subseteq dir
  /\ \A i \in DOMAIN s :
       s[i].kind = "scriptNames" /\ (\A j \in DOMAIN s : j > i => s[j].kind # "scriptNames")
         => Range(s[i].data) \subseteq dir

FreshInv == fresh \subseteq Pages /\ \A p \in fresh : IsTrue(response[p], table[p].scripts, Dir)

NoRequests == \A p \in Pages : request[p] = <<>>

\* The only message on its way to the server; its file is there to be found.
OneRequest(p, m) ==
  /\ request[p] = << m >> /\ \A o \in Pages \ {p} : request[o] = <<>>
  /\ m.kind # "saveFile" => m.file \in Dir
  /\ m.kind = "saveFile" => m.text = m.file
  /\ m.kind = "selectFile" => m.file = editor[p].selected
  /\ streams = {} /\ reads = {}

OneRead(r) ==
  /\ NoRequests /\ streams = {} /\ reads = {r}
  /\ r.file \in Dir /\ r.file = editor[r.page].selected

Written == \A s \in streams : s.text = s.file

Quiet ==
  \/ NoRequests /\ reads = {} /\ Written
  \/ \E p \in Pages : request[p] # <<>> /\ OneRequest(p, Head(request[p]))
  \/ \E r \in reads : OneRead(r)

Kept(n) == files[n] = n \/ (files[n] = NoText /\ \E s \in streams : s.file = n)

\* A content that is on its way is that of the selected script.
IsOfSelected(s, script) == \A i \in DOMAIN s : s[i].kind = "scriptContent" => s[i].data = script

Pending(p) ==
  \/ \E i \in DOMAIN request[p] : request[p][i].kind = "selectFile"
  \/ \E r \in reads : r.page = p
  \/ \E i \in DOMAIN response[p] : response[p][i].kind = "scriptContent"

EditorKept(p) ==
  /\ IsOfSelected(response[p], editor[p].selected)
  /\ Pending(p) \/ editor[p].selected \in {NoText, editor[p].text}

CarefulInv ==
  careful => up /\ Quiet /\ (\A n \in Dir : Kept(n)) /\ (\A p \in Pages : EditorKept(p))

-----------------------------------------------------------------------------
(* Listings in a queue of answers.                                         *)

\* What readdirSync returns is typed, and names the directory's files.
LEMMA ListingFacts ==
  ASSUME NEW dir, dir \subseteq Names
  PROVE  Listing[dir] \in Seq(Names) /\ Range(Listing[dir]) = dir
  BY ListingAssumption

LEMMA TrueGrows ==
  ASSUME NEW s, NEW list, NEW dir, NEW more, IsTrue(s, list, dir), dir \subseteq more
  PROVE  IsTrue(s, list, more)
  BY DEF IsTrue

LEMMA TrueWhenListed ==
  ASSUME NEW s \in Seq(Responses), NEW list, NEW dir,
         NEW m \in Responses, m.kind = "scriptNames", Range(m.data) \subseteq dir
  PROVE  IsTrue(Append(s, m), list, dir)
<1> DEFINE t == Append(s, m)
<1>1. /\ Len(t) = Len(s) + 1 /\ DOMAIN t = 1..(Len(s) + 1) /\ Len(s) \in Nat
      /\ t[Len(s) + 1] = m
  OBVIOUS
<1>2. ASSUME NEW i \in DOMAIN t, \A j \in DOMAIN t : j > i => t[j].kind # "scriptNames"
      PROVE  i = Len(s) + 1
  BY <1>1, <1>2
<1> HIDE DEF t
<1>3. IsTrue(t, list, dir)
  BY <1>1, <1>2 DEF IsTrue
<1> QED BY <1>3 DEF t

LEMMA TrueWhenOther ==
  ASSUME NEW s \in Seq(Responses), NEW list, NEW dir, IsTrue(s, list, dir),
         NEW m \in Responses, m.kind # "scriptNames"
  PROVE  IsTrue(Append(s, m), list, dir)
<1> DEFINE t == Append(s, m)
<1>1. /\ DOMAIN t = 1..(Len(s) + 1) /\ Len(s) \in Nat /\ DOMAIN s = 1..Len(s)
      /\ t[Len(s) + 1] = m /\ \A i \in DOMAIN s : t[i] = s[i]
  OBVIOUS
<1> HIDE DEF t
<1>2. ASSUME \A i \in DOMAIN t : t[i].kind # "scriptNames"
      PROVE  Range(list) \subseteq dir
  <2>1. DOMAIN s \subseteq DOMAIN t
    BY <1>1
  <2> QED BY <1>1, <1>2, <2>1 DEF IsTrue
<1>3. ASSUME NEW i \in DOMAIN t, t[i].kind = "scriptNames",
             \A j \in DOMAIN t : j > i => t[j].kind # "scriptNames"
      PROVE  Range(t[i].data) \subseteq dir
  <2>1. i \in DOMAIN s /\ t[i] = s[i]
    BY <1>1, <1>3
  <2>2. \A j \in DOMAIN s : j > i => s[j].kind # "scriptNames"
    BY <1>1, <1>3
  <2> QED BY <1>3, <2>1, <2>2 DEF IsTrue
<1>4. IsTrue(t, list, dir)
  BY <1>2, <1>3 DEF IsTrue
<1> QED BY <1>4 DEF t

LEMMA TailFacts ==
  ASSUME NEW s \in Seq(Responses), s # <<>>
  PROVE  /\ Tail(s) \in Seq(Responses) /\ Head(s) = s[1] /\ Head(s) \in Responses
         /\ Len(s) \in Nat /\ Len(s) >= 1
         /\ DOMAIN s = 1..Len(s) /\ DOMAIN Tail(s) = 1..(Len(s) - 1)
         /\ \A i \in 1..(Len(s) - 1) : Tail(s)[i] = s[i + 1]
  OBVIOUS

LEMMA TrueWhenTaken ==
  ASSUME NEW s \in Seq(Responses), s # <<>>, NEW list, NEW dir, IsTrue(s, list, dir)
  PROVE  IsTrue(Tail(s), IF Head(s).kind = "scriptNames" THEN Head(s).data ELSE list, dir)
<1>1. PICK t : t = Tail(s)
  OBVIOUS
<1>2. /\ Head(s) = s[1] /\ Len(s) \in Nat /\ Len(s) >= 1 /\ DOMAIN s = 1..Len(s)
      /\ DOMAIN t = 1..(Len(s) - 1) /\ \A i \in 1..(Len(s) - 1) : t[i] = s[i + 1]
  BY <1>1, TailFacts
<1>3. ASSUME NEW i \in DOMAIN t, t[i].kind = "scriptNames",
             \A j \in DOMAIN t : j > i => t[j].kind # "scriptNames"
      PROVE  Range(t[i].data) \subseteq dir
  <2>1. i + 1 \in DOMAIN s /\ s[i + 1] = t[i]
    BY <1>2
  <2>2. ASSUME NEW j \in DOMAIN s, j > i + 1
        PROVE  s[j].kind # "scriptNames"
    <3>1. j - 1 \in DOMAIN t /\ j - 1 > i /\ t[j - 1] = s[j]
      BY <1>2, <2>2
    <3> QED BY <1>3, <3>1
  <2> QED BY <1>3, <2>1, <2>2 DEF IsTrue
<1>4. ASSUME \A i \in DOMAIN t : t[i].kind # "scriptNames"
      PROVE  /\ s[1].kind = "scriptNames" => Range(s[1].data) \subseteq dir
             /\ s[1].kind # "scriptNames" => Range(list) \subseteq dir
  <2>1. ASSUME NEW j \in DOMAIN s, j > 1
        PROVE  s[j].kind # "scriptNames"
    <3>1. j - 1 \in DOMAIN t /\ t[j - 1] = s[j]
      BY <1>2, <2>1
    <3> QED BY <1>4, <3>1
  <2>2. 1 \in DOMAIN s /\ \A j \in DOMAIN s : j = 1 \/ j > 1
    BY <1>2
  <2> QED BY <2>1, <2>2 DEF IsTrue
<1>5. IsTrue(t, IF s[1].kind = "scriptNames" THEN s[1].data ELSE list, dir)
  BY <1>3, <1>4 DEF IsTrue
<1> QED BY <1>1, <1>2, <1>5

LEMMA TrueWhenAnswered ==
  ASSUME NEW list, NEW dir, IsTrue(<<>>, list, dir)
  PROVE  Range(list) \subseteq dir
  BY DEF IsTrue

-----------------------------------------------------------------------------
(* CoreOK, one lemma per kind of action.                                   *)

LEMMA InitCoreOK == Init => CoreOK
<1> SUFFICES ASSUME Init PROVE CoreOK
  OBVIOUS
<1>1. PICK dir \in SUBSET Names :
        /\ files = [n \in dir |-> n]
        /\ response = [p \in Pages |-> << [kind |-> "scriptNames", data |-> Listing[dir] ] >>]
  BY DEF Init
<1>2. Listing[dir] \in Seq(Names)
  BY ListingFacts
<1>3. Dir \subseteq Names /\ files \in [Dir -> Texts]
  BY <1>1 DEF Dir, Texts
<1>4. PICK m : m = [kind |-> "scriptNames", data |-> Listing[dir] ]
  OBVIOUS
<1>5. response \in [Pages -> Seq(Responses)]
  <2>1. m \in Responses
    BY <1>2, <1>4 DEF Responses
  <2>2. << m >> \in Seq(Responses)
    BY <2>1
  <2>3. response = [p \in Pages |-> << m >>]
    BY <1>1, <1>4
  <2> QED BY <2>2, <2>3
<1>6. request \in [Pages -> Seq(Requests)]
  BY DEF Init
<1>7. /\ table = [p \in Pages |-> table[p]]
      /\ \A p \in Pages : /\ table[p] = [c \in Columns |-> table[p][c]]
                          /\ table[p].scripts \in Seq(Names)
  <2>1. PICK e : e = Empty
    OBVIOUS
  <2>2. e = [c \in Columns |-> e[c] ]
    BY <2>1 DEF Empty, Columns
  <2>3. e.scripts \in Seq(Names)
    BY <2>1 DEF Empty
  <2>4. table = [p \in Pages |-> e]
    BY <2>1 DEF Init
  <2> QED BY <2>2, <2>3, <2>4
<1>8. /\ editor \in [Pages -> [selected : Texts, text : Texts]]
      /\ clicks \in Nat /\ streams \subseteq Streams /\ reads \subseteq Reads
  BY DEF Init, Texts
<1> QED BY <1>3, <1>5, <1>6, <1>7, <1>8 DEF CoreOK

\* Creating, saving, deleting and selecting send a request.
LEMMA CoreWhenSent ==
  ASSUME CoreOK, NEW p \in Pages, Click,
         NEW kind \in {"saveFile", "deleteFile", "selectFile"}, NEW file \in Names, NEW text \in Texts,
         Emit(p, kind, file, text), editor' \in [Pages -> [selected : Texts, text : Texts]]
  PROVE  CoreOK'
<1>1. [kind |-> kind, file |-> file, text |-> text, id |-> clicks] \in Requests
  BY DEF CoreOK, Requests
<1>2. request' \in [Pages -> Seq(Requests)]
  BY <1>1 DEF CoreOK, Emit
<1>3. clicks' \in Nat
  BY DEF CoreOK, Click
<1> QED BY <1>2, <1>3 DEF CoreOK, Emit, ServerUnchanged, Dir

\* Searching and turning pages leave the scripts of a table alone.
LEMMA CoreWhenViewed ==
  ASSUME CoreOK, NEW p \in Pages, NEW t, View(p, t), t = [c \in Columns |-> t[c]],
         t.scripts = table[p].scripts
  PROVE  CoreOK' /\ \A o \in Pages : table'[o].scripts = table[o].scripts
<1>1. table' = [table EXCEPT ![p] = t]
  BY DEF View
<1>2. table' = [o \in Pages |-> IF o = p THEN t ELSE table[o] ]
  BY <1>1 DEF CoreOK
<1> HIDE DEF View
<1>3. \A o \in Pages : table'[o].scripts = table[o].scripts /\ table'[o].scripts \in Seq(Names)
  BY <1>2 DEF CoreOK
<1>4. \A o \in Pages : table'[o] = [c \in Columns |-> table'[o][c] ]
  BY <1>2 DEF CoreOK
<1>5. clicks' \in Nat
  BY DEF CoreOK, Click, View
<1>6. table' = [o \in Pages |-> table'[o] ]
  BY <1>2
<1> QED BY <1>3, <1>4, <1>5, <1>6 DEF CoreOK, View, ServerUnchanged, Dir

LEMMA SearchedFacts ==
  ASSUME NEW t, t = [c \in Columns |-> t[c] ], NEW found
  PROVE  /\ Searched(t, found) = [c \in Columns |-> Searched(t, found)[c] ]
         /\ Searched(t, found).scripts = t.scripts
<1>1. CASE found = <<>>
  BY <1>1 DEF Searched, Columns
<1>2. CASE found # <<>>
  BY <1>2 DEF Searched, Columns
<1> QED BY <1>1, <1>2

LEMMA TurnedFacts ==
  ASSUME NEW t, t = [c \in Columns |-> t[c] ], NEW current
  PROVE  /\ Turned(t, current) = [c \in Columns |-> Turned(t, current)[c] ]
         /\ Turned(t, current).scripts = t.scripts
  BY DEF Turned, Columns

\* What the head of a queue of requests is, and what is left of the queues.
LEMMA HandlingFacts ==
  ASSUME CoreOK, NEW p \in Pages, NEW kind, Handling(p, kind)
  PROVE  /\ Head(request[p]) \in Requests /\ Head(request[p]).kind = kind
         /\ Head(request[p]).file \in Names /\ Head(request[p]).text \in Texts
         /\ Head(request[p]).id \in Nat
         /\ request' \in [Pages -> Seq(Requests)]
         /\ request'[p] = Tail(request[p]) /\ \A o \in Pages \ {p} : request'[o] = request[o]
<1>1. request[p] \in Seq(Requests) /\ request[p] # <<>> /\ Head(request[p]).kind = kind
  BY DEF CoreOK, Handling
<1>2. Head(request[p]) \in Requests /\ Tail(request[p]) \in Seq(Requests)
  BY <1>1
<1>3. request' = [request EXCEPT ![p] = Tail(request[p])]
  BY DEF Handling
<1> QED BY <1>1, <1>2, <1>3 DEF CoreOK, Requests

\* A file that is opened is empty, and all others are as they were.
LEMMA TruncatedFacts ==
  ASSUME CoreOK, NEW name \in Names
  PROVE  /\ Truncated(name) \in [Dir \union {name} -> Texts] /\ Truncated(name)[name] = NoText
         /\ DOMAIN Truncated(name) = Dir \union {name}
         /\ \A n \in Dir \ {name} : Truncated(name)[n] = files[n]
  BY DEF CoreOK, Truncated, Texts

\* A listing is appended to the answers, and is true of the directory.
LEMMA ListingSent ==
  ASSUME CoreOK, NEW p \in Pages, NEW dir, dir \subseteq Names,
         response' = [response EXCEPT ![p] =
                        Append(@, [kind |-> "scriptNames", data |-> Listing[dir] ])]
  PROVE  /\ response' \in [Pages -> Seq(Responses)]
         /\ \A o \in Pages \ {p} : response'[o] = response[o]
         /\ \A list : IsTrue(response'[p], list, dir)
         /\ \E m \in Responses : m.kind = "scriptNames" /\ response'[p] = Append(response[p], m)
<1>1. PICK m : m = [kind |-> "scriptNames", data |-> Listing[dir] ]
  OBVIOUS
<1>2. m \in Responses /\ m.kind = "scriptNames" /\ Range(m.data) \subseteq dir
  BY <1>1, ListingFacts DEF Responses
<1>3. response' = [response EXCEPT ![p] = Append(response[p], m)]
  BY <1>1
<1>4. response[p] \in Seq(Responses)
  BY DEF CoreOK
<1>5. response'[p] = Append(response[p], m)
  BY <1>3 DEF CoreOK
<1>6. \A list : IsTrue(response'[p], list, dir)
  BY <1>2, <1>4, <1>5, TrueWhenListed
<1>7. response' \in [Pages -> Seq(Responses)] /\ \A o \in Pages \ {p} : response'[o] = response[o]
  BY <1>2, <1>3 DEF CoreOK
<1> QED BY <1>2, <1>5, <1>6, <1>7

\* The directory grows by the name of the file, or stays as it is.
LEMMA SavedFacts ==
  ASSUME CoreOK, NEW p \in Pages, OnSaveFile(p)
  PROVE  /\ CoreOK' /\ Dir \subseteq Dir'
         /\ \A o \in Pages \ {p} : response'[o] = response[o]
         /\ \A list : IsTrue(response'[p], list, Dir')
         /\ \E m \in Responses : m.kind = "scriptNames" /\ response'[p] = Append(response[p], m)
<1>1. Handling(p, "saveFile")
  BY DEF OnSaveFile
<1>2. PICK opened \in BOOLEAN :
        /\ streams' = streams \union
             {[id |-> Head(request[p]).id, file |-> Head(request[p]).file,
               text |-> Head(request[p]).text, open |-> opened]}
        /\ files' = IF opened THEN Truncated(Head(request[p]).file) ELSE files
  BY DEF OnSaveFile
<1>3. /\ Head(request[p]).file \in Names /\ Head(request[p]).text \in Texts
      /\ Head(request[p]).id \in Nat /\ request' \in [Pages -> Seq(Requests)]
  BY <1>1, HandlingFacts
<1>4. streams' \subseteq Streams
  BY <1>2, <1>3 DEF CoreOK, Streams
<1>5. files' \in [Dir' -> Texts] /\ Dir' \subseteq Names /\ Dir \subseteq Dir'
  <2>0. PICK name \in Names : name = Head(request[p]).file
    BY <1>3
  <2>1. CASE opened
    <3>1. files' = Truncated(name)
      BY <1>2, <2>0, <2>1
    <3>2. DOMAIN files' = Dir \union {name} /\ files' \in [Dir \union {name} -> Texts]
      BY <3>1, TruncatedFacts
    <3>3. Dir' = Dir \union {name}
      BY <3>2 DEF Dir
    <3> QED BY <3>2, <3>3 DEF CoreOK
  <2>2. CASE ~opened
    BY <1>2, <2>2 DEF CoreOK, Dir
  <2> QED BY <2>1, <2>2
<1>6. response' = [response EXCEPT ![p] =
                     Append(@, [kind |-> "scriptNames", data |-> Listing[Dir'] ])]
  BY DEF OnSaveFile, SendListing
<1>7. PICK dir : dir = Dir'
  OBVIOUS
<1>8. /\ response' \in [Pages -> Seq(Responses)]
      /\ \A o \in Pages \ {p} : response'[o] = response[o]
      /\ \A list : IsTrue(response'[p], list, Dir')
      /\ \E m \in Responses : m.kind = "scriptNames" /\ response'[p] = Append(response[p], m)
  BY <1>5, <1>6, <1>7, ListingSent
<1>9. UNCHANGED <<clicks, table, editor, reads>>
  BY <1>1 DEF OnSaveFile, Handling
<1>10. CoreOK'
  BY <1>3, <1>4, <1>5, <1>8, <1>9 DEF CoreOK
<1> QED BY <1>5, <1>8, <1>10

LEMMA DeletedFacts ==
  ASSUME CoreOK, NEW p \in Pages, OnDeleteFile(p)
  PROVE  /\ CoreOK' /\ Dir' \subseteq Dir
         /\ \A n \in Dir' : files'[n] = files[n]
         /\ \A o \in Pages \ {p} : response'[o] = response[o]
         /\ \A list : IsTrue(response'[p], list, Dir')
         /\ \E m \in Responses : m.kind = "scriptNames" /\ response'[p] = Append(response[p], m)
<1>1. Handling(p, "deleteFile")
  BY DEF OnDeleteFile
<1>2. files' = [n \in Dir \ {Head(request[p]).file} |-> files[n] ]
  BY DEF OnDeleteFile, Restrict
<1>3. request' \in [Pages -> Seq(Requests)]
  BY <1>1, HandlingFacts
<1>4. streams' \subseteq streams
  BY DEF OnDeleteFile
<1>5. /\ files' \in [Dir' -> Texts] /\ Dir' \subseteq Names /\ Dir' \subseteq Dir
      /\ \A n \in Dir' : files'[n] = files[n]
  BY <1>2 DEF CoreOK, Dir
<1>6. response' = [response EXCEPT ![p] =
                     Append(@, [kind |-> "scriptNames", data |-> Listing[Dir'] ])]
  BY DEF OnDeleteFile, SendListing
<1>7. PICK dir : dir = Dir'
  OBVIOUS
<1>8. /\ response' \in [Pages -> Seq(Responses)]
      /\ \A o \in Pages \ {p} : response'[o] = response[o]
      /\ \A list : IsTrue(response'[p], list, Dir')
      /\ \E m \in Responses : m.kind = "scriptNames" /\ response'[p] = Append(response[p], m)
  BY <1>5, <1>6, <1>7, ListingSent
<1>9. UNCHANGED <<clicks, table, editor, reads>>
  BY <1>1 DEF OnDeleteFile, Handling
<1>10. CoreOK'
  BY <1>3, <1>4, <1>5, <1>8, <1>9 DEF CoreOK
<1> QED BY <1>5, <1>8, <1>10

LEMMA ThrownFacts ==
  ASSUME CoreOK, NEW p \in Pages, OnDeleteThrows(p)
  PROVE  CoreOK'
<1>1. request' \in [Pages -> Seq(Requests)]
  BY HandlingFacts DEF OnDeleteThrows
<1> QED BY <1>1 DEF CoreOK, OnDeleteThrows, Handling, Dir

LEMMA SelectedFacts ==
  ASSUME CoreOK, NEW p \in Pages, OnSelectFile(p)
  PROVE  CoreOK'
<1>1. Handling(p, "selectFile")
  BY DEF OnSelectFile
<1>2. /\ Head(request[p]).file \in Names /\ Head(request[p]).id \in Nat
      /\ request' \in [Pages -> Seq(Requests)]
  BY <1>1, HandlingFacts
<1>3. reads' \subseteq Reads
  BY <1>2 DEF CoreOK, OnSelectFile, Reads
<1> QED BY <1>1, <1>2, <1>3 DEF CoreOK, OnSelectFile, Handling, Dir

LEMMA OpenedFacts ==
  ASSUME CoreOK, NEW s \in streams, StreamOpens(s)
  PROVE  CoreOK' /\ Dir' = Dir \union {s.file}
<1>1. s \in Streams
  BY DEF CoreOK
<1>2. s.file \in Names /\ [s EXCEPT !.open = TRUE] \in Streams
  BY <1>1 DEF Streams
<1>3. streams' \subseteq Streams
  BY <1>2 DEF CoreOK, StreamOpens
<1>4. files' \in [Dir \union {s.file} -> Texts] /\ DOMAIN files' = Dir \union {s.file}
  BY <1>2, TruncatedFacts DEF StreamOpens
<1>5. Dir' = Dir \union {s.file}
  BY <1>4 DEF Dir
<1> QED BY <1>2, <1>3, <1>4, <1>5 DEF CoreOK, StreamOpens, BackgroundUnchanged

LEMMA WrittenFacts ==
  ASSUME CoreOK, NEW s \in streams, StreamWrites(s)
  PROVE  /\ CoreOK' /\ Dir' = Dir
         /\ \A n \in Dir : files'[n] = IF n = s.file THEN s.text ELSE files[n]
<1>1. s \in Streams
  BY DEF CoreOK
<1>2. s.text \in Texts
  BY <1>1 DEF Streams
<1>3. files' = [files EXCEPT ![s.file] = s.text]
  BY DEF StreamWrites
<1>4. /\ files' \in [Dir -> Texts] /\ Dir' = Dir
      /\ \A n \in Dir : files'[n] = IF n = s.file THEN s.text ELSE files[n]
  BY <1>2, <1>3 DEF CoreOK, Dir
<1>5. streams' \subseteq Streams
  BY DEF CoreOK, StreamWrites
<1> QED BY <1>4, <1>5 DEF CoreOK, StreamWrites, BackgroundUnchanged

LEMMA ReadFacts ==
  ASSUME CoreOK, NEW r \in reads, ReadFile(r)
  PROVE  /\ CoreOK' /\ r \in Reads /\ r.page \in Pages
         /\ \A o \in Pages \ {r.page} : response'[o] = response[o]
         /\ \E m \in Responses : /\ m.kind = "scriptContent" /\ m.data = files[r.file]
                                 /\ response'[r.page] = Append(response[r.page], m)
<1>1. r \in Reads /\ r.page \in Pages /\ r.file \in Dir
  BY DEF CoreOK, Reads, ReadFile
<1>2. PICK m : m = [kind |-> "scriptContent", data |-> files[r.file] ]
  OBVIOUS
<1>3. m \in Responses /\ m.kind = "scriptContent" /\ m.data = files[r.file]
  BY <1>1, <1>2 DEF CoreOK, Responses
<1>4. response' = [response EXCEPT ![r.page] = Append(response[r.page], m)]
  BY <1>2 DEF ReadFile
<1>5. /\ response' \in [Pages -> Seq(Responses)]
      /\ response'[r.page] = Append(response[r.page], m)
      /\ \A o \in Pages \ {r.page} : response'[o] = response[o]
  BY <1>1, <1>3, <1>4 DEF CoreOK
<1>6. reads' \subseteq Reads
  BY DEF CoreOK, ReadFile
<1>7. CoreOK'
  BY <1>5, <1>6 DEF CoreOK, ReadFile, BackgroundUnchanged, Dir
<1> QED BY <1>1, <1>3, <1>5, <1>7

LEMMA ReceivedFacts ==
  ASSUME CoreOK, NEW p \in Pages, NEW kind, Received(p, kind)
  PROVE  /\ response[p] \in Seq(Responses) /\ response[p] # <<>>
         /\ Head(response[p]) \in Responses /\ Head(response[p]).kind = kind
         /\ kind = "scriptNames" => Head(response[p]).data \in Seq(Names)
         /\ kind = "scriptContent" => Head(response[p]).data \in Texts
         /\ response' \in [Pages -> Seq(Responses)] /\ response'[p] = Tail(response[p])
         /\ \A o \in Pages \ {p} : response'[o] = response[o]
<1>1. response[p] \in Seq(Responses) /\ response[p] # <<>> /\ Head(response[p]).kind = kind
  BY DEF CoreOK, Received
<1>2. Head(response[p]) \in Responses /\ Tail(response[p]) \in Seq(Responses)
  BY <1>1
<1>3. response' = [response EXCEPT ![p] = Tail(response[p])]
  BY DEF Received
<1>4. /\ response' \in [Pages -> Seq(Responses)] /\ response'[p] = Tail(response[p])
      /\ \A o \in Pages \ {p} : response'[o] = response[o]
  BY <1>2, <1>3 DEF CoreOK
<1>5. /\ kind = "scriptNames" => Head(response[p]).data \in Seq(Names)
      /\ kind = "scriptContent" => Head(response[p]).data \in Texts
  BY <1>1, <1>2 DEF Responses
<1> QED BY <1>1, <1>2, <1>4, <1>5

LEMMA ListedFacts ==
  ASSUME NEW t, t = [c \in Columns |-> t[c] ], NEW list
  PROVE  /\ Listed(t, list) = [c \in Columns |-> Listed(t, list)[c] ]
         /\ Listed(t, list).scripts = list
  BY DEF Listed, Columns

LEMMA NamesReceived ==
  ASSUME CoreOK, NEW p \in Pages, OnScriptNames(p)
  PROVE  /\ CoreOK' /\ table'[p].scripts = Head(response[p]).data
         /\ \A o \in Pages \ {p} : table'[o] = table[o]
<1>1. Received(p, "scriptNames")
  BY DEF OnScriptNames
<1>2. Head(response[p]).data \in Seq(Names) /\ response' \in [Pages -> Seq(Responses)]
  BY <1>1, ReceivedFacts
<1>3. PICK t : t = Listed(table[p], Head(response[p]).data)
  OBVIOUS
<1>4. table' = [o \in Pages |-> IF o = p THEN t ELSE table[o] ]
  BY <1>3 DEF CoreOK, OnScriptNames
<1>5. t = [c \in Columns |-> t[c] ] /\ t.scripts = Head(response[p]).data
  <2>1. PICK row : row = table[p] /\ row = [c \in Columns |-> row[c] ]
    BY DEF CoreOK
  <2>2. PICK list : list = Head(response[p]).data
    OBVIOUS
  <2>3. t = Listed(row, list)
    BY <1>3, <2>1, <2>2
  <2> QED BY <2>1, <2>2, <2>3, ListedFacts
<1>6. /\ table' = [o \in Pages |-> table'[o] ]
      /\ \A o \in Pages : /\ table'[o] = [c \in Columns |-> table'[o][c] ]
                          /\ table'[o].scripts \in Seq(Names)
  BY <1>2, <1>4, <1>5 DEF CoreOK
<1>7. CoreOK'
  BY <1>1, <1>2, <1>6 DEF CoreOK, OnScriptNames, Received, ServerUnchanged, Dir
<1> QED BY <1>4, <1>5, <1>7

LEMMA ContentReceived ==
  ASSUME CoreOK, NEW p \in Pages, OnScriptContent(p)
  PROVE  /\ CoreOK' /\ editor'[p].selected = editor[p].selected
         /\ editor'[p].text = Head(response[p]).data
         /\ \A o \in Pages \ {p} : editor'[o] = editor[o]
<1>1. Received(p, "scriptContent")
  BY DEF OnScriptContent
<1>2. Head(response[p]).data \in Texts /\ response' \in [Pages -> Seq(Responses)]
  BY <1>1, ReceivedFacts
<1>3. PICK text \in Texts : text = Head(response[p]).data
  BY <1>2
<1>4. editor' = [editor EXCEPT ![p].text = text]
  BY <1>3 DEF OnScriptContent
<1>5. /\ editor' \in [Pages -> [selected : Texts, text : Texts]]
      /\ editor'[p].selected = editor[p].selected /\ editor'[p].text = text
      /\ \A o \in Pages \ {p} : editor'[o] = editor[o]
  BY <1>4 DEF CoreOK
<1>6. CoreOK'
  BY <1>1, <1>2, <1>5 DEF CoreOK, OnScriptContent, Received, ServerUnchanged, Dir
<1> QED BY <1>3, <1>5, <1>6

\* The three kinds of clicks that view the table.
Views(p) == nextPage(p) \/ lastPage(p) \/ \E pattern \in Patterns : Search(p, pattern)

LEMMA ViewFacts ==
  ASSUME CoreOK, NEW p \in Pages, Views(p)
  PROVE  /\ CoreOK' /\ \A o \in Pages : table'[o].scripts = table[o].scripts
         /\ UNCHANGED <<request, response, editor, fresh, careful, up, files, streams, reads>>
<1>1. PICK t : t = table[p] /\ t = [c \in Columns |-> t[c] ]
  BY DEF CoreOK
<1>2. PICK u : View(p, u) /\ u = [c \in Columns |-> u[c] ] /\ u.scripts = table[p].scripts
  <2>1. CASE nextPage(p)
    <3>1. View(p, Turned(t, t.current + 1))
      BY <1>1, <2>1 DEF nextPage
    <3> QED BY <1>1, <3>1, TurnedFacts
  <2>2. CASE lastPage(p)
    <3>1. View(p, Turned(t, t.current - 1))
      BY <1>1, <2>2 DEF lastPage
    <3> QED BY <1>1, <3>1, TurnedFacts
  <2>3. CASE \E pattern \in Patterns : Search(p, pattern)
    <3>1. PICK found : View(p, Searched(t, found))
      BY <1>1, <2>3 DEF Search
    <3> QED BY <1>1, <3>1, SearchedFacts
  <2> QED BY <2>1, <2>2, <2>3 DEF Views
<1>3. CoreOK' /\ \A o \in Pages : table'[o].scripts = table[o].scripts
  BY <1>2, CoreWhenViewed
<1> QED BY <1>2, <1>3 DEF View, ServerUnchanged

\* The four kinds of clicks that send a request.
Sends(p) ==
  \/ \E n \in Names : createScript(p, n) \/ deleteScript(p, n) \/ selectScript(p, n)
  \/ saveScript(p)

LEMMA SendFacts ==
  ASSUME CoreOK, NEW p \in Pages, Sends(p)
  PROVE  CoreOK' /\ UNCHANGED <<response, table, fresh, up, files, streams, reads>>
<1>1. ASSUME NEW n \in Names, createScript(p, n)
      PROVE  CoreOK' /\ UNCHANGED <<response, table, fresh, up, files, streams, reads>>
  <2>1. Click /\ Emit(p, "saveFile", n, n) /\ n \in Texts
    BY <1>1 DEF createScript, Texts
  <2>2. editor' \in [Pages -> [selected : Texts, text : Texts]]
    BY <1>1, <2>1 DEF createScript, CoreOK
  <2> QED BY <2>1, <2>2, CoreWhenSent DEF Emit, ServerUnchanged
<1>2. ASSUME NEW n \in Names, deleteScript(p, n)
      PROVE  CoreOK' /\ UNCHANGED <<response, table, fresh, up, files, streams, reads>>
  <2>1. Click /\ Emit(p, "deleteFile", n, NoText) /\ NoText \in Texts
    BY <1>2 DEF deleteScript, Texts
  <2>2. editor' \in [Pages -> [selected : Texts, text : Texts]]
    BY <1>2 DEF deleteScript, CoreOK
  <2> QED BY <2>1, <2>2, CoreWhenSent DEF Emit, ServerUnchanged
<1>3. ASSUME NEW n \in Names, selectScript(p, n)
      PROVE  CoreOK' /\ UNCHANGED <<response, table, fresh, up, files, streams, reads>>
  <2>1. Click /\ Emit(p, "selectFile", n, NoText) /\ NoText \in Texts /\ n \in Texts
    BY <1>3 DEF selectScript, Texts
  <2>2. editor' \in [Pages -> [selected : Texts, text : Texts]]
    BY <1>3, <2>1 DEF selectScript, CoreOK
  <2> QED BY <2>1, <2>2, CoreWhenSent DEF Emit, ServerUnchanged
<1>4. CASE saveScript(p)
  <2>1. /\ Click /\ Emit(p, "saveFile", editor[p].selected, editor[p].text)
        /\ editor[p].selected # NoText /\ UNCHANGED editor
    BY <1>4 DEF saveScript
  <2>2. editor[p].selected \in Names /\ editor[p].text \in Texts
    BY <2>1 DEF CoreOK, Texts
  <2>3. editor' \in [Pages -> [selected : Texts, text : Texts]]
    BY <2>1 DEF CoreOK
  <2> QED BY <2>1, <2>2, <2>3, CoreWhenSent DEF Emit, ServerUnchanged
<1> QED BY <1>1, <1>2, <1>3, <1>4 DEF Sends

\* Every step is one of these.
LEMMA Steps ==
  ASSUME Next
  PROVE  \/ \E p \in Pages : \/ Views(p) \/ Sends(p)
                             \/ OnSaveFile(p) \/ OnDeleteFile(p) \/ OnDeleteThrows(p)
                             \/ OnSelectFile(p) \/ OnScriptNames(p) \/ OnScriptContent(p)
         \/ \E s \in streams : StreamOpens(s) \/ StreamWrites(s)
         \/ \E r \in reads : ReadFile(r) \/ ReadFileThrows(r)
  BY DEF Next, Server, User, Views, Sends

-----------------------------------------------------------------------------
(* The listings.                                                           *)

LEMMA FreshStep == CoreOK /\ FreshInv /\ [Next]_vars => CoreOK' /\ FreshInv'
<1> SUFFICES ASSUME CoreOK, FreshInv, [Next]_vars PROVE CoreOK' /\ FreshInv'
  OBVIOUS
<1>1. CASE UNCHANGED vars
  BY <1>1 DEF vars, CoreOK, FreshInv, Dir
<1>2. ASSUME NEW p \in Pages, Views(p) PROVE CoreOK' /\ FreshInv'
  BY <1>2, ViewFacts DEF FreshInv, Dir
<1>3. ASSUME NEW p \in Pages, Sends(p) PROVE CoreOK' /\ FreshInv'
  BY <1>3, SendFacts DEF FreshInv, Dir
<1>4. ASSUME NEW p \in Pages, OnSaveFile(p) PROVE CoreOK' /\ FreshInv'
  <2>1. /\ CoreOK' /\ Dir \subseteq Dir'
        /\ \A o \in Pages \ {p} : response'[o] = response[o]
        /\ \A list : IsTrue(response'[p], list, Dir')
    BY <1>4, SavedFacts
  <2>2. fresh' = fresh \union {p} /\ table' = table
    BY <1>4 DEF OnSaveFile, Handling
  <2>3. PICK dir : dir = Dir'
    OBVIOUS
  <2>4. ASSUME NEW o \in fresh', o # p PROVE IsTrue(response'[o], table'[o].scripts, dir)
    BY <2>1, <2>2, <2>3, <2>4, TrueGrows DEF FreshInv
  <2> QED BY <2>1, <2>2, <2>3, <2>4 DEF FreshInv
<1>5. ASSUME NEW p \in Pages, OnDeleteFile(p) PROVE CoreOK' /\ FreshInv'
  <2>1. CoreOK' /\ \A list : IsTrue(response'[p], list, Dir')
    BY <1>5, DeletedFacts
  <2>2. fresh' = {p}
    BY <1>5 DEF OnDeleteFile
  <2> QED BY <2>1, <2>2 DEF FreshInv
<1>6. ASSUME NEW p \in Pages, OnDeleteThrows(p) PROVE CoreOK' /\ FreshInv'
  BY <1>6, ThrownFacts DEF OnDeleteThrows, Handling, FreshInv, Dir
<1>7. ASSUME NEW p \in Pages, OnSelectFile(p) PROVE CoreOK' /\ FreshInv'
  BY <1>7, SelectedFacts DEF OnSelectFile, Handling, FreshInv, Dir
<1>8. ASSUME NEW p \in Pages, OnScriptNames(p) PROVE CoreOK' /\ FreshInv'
  <2>1. /\ CoreOK' /\ table'[p].scripts = Head(response[p]).data
        /\ \A o \in Pages \ {p} : table'[o] = table[o]
    BY <1>8, NamesReceived
  <2>2. Received(p, "scriptNames") /\ UNCHANGED <<fresh, files>>
    BY <1>8 DEF OnScriptNames, Received, ServerUnchanged
  <2>3. /\ response[p] \in Seq(Responses) /\ response[p] # <<>>
        /\ Head(response[p]).kind = "scriptNames" /\ response'[p] = Tail(response[p])
        /\ \A o \in Pages \ {p} : response'[o] = response[o]
    BY <2>2, ReceivedFacts
  <2>4. ASSUME p \in fresh PROVE IsTrue(Tail(response[p]), Head(response[p]).data, Dir)
    <3>1. IsTrue(response[p], table[p].scripts, Dir)
      BY <2>4 DEF FreshInv
    <3> QED BY <2>3, <3>1, TrueWhenTaken
  <2> QED BY <2>1, <2>2, <2>3, <2>4 DEF FreshInv, Dir
<1>9. ASSUME NEW p \in Pages, OnScriptContent(p) PROVE CoreOK' /\ FreshInv'
  <2>1. CoreOK'
    BY <1>9, ContentReceived
  <2>2. Received(p, "scriptContent") /\ UNCHANGED <<fresh, files, table>>
    BY <1>9 DEF OnScriptContent, Received, ServerUnchanged
  <2>3. /\ response[p] \in Seq(Responses) /\ response[p] # <<>>
        /\ Head(response[p]).kind = "scriptContent" /\ response'[p] = Tail(response[p])
        /\ \A o \in Pages \ {p} : response'[o] = response[o]
    BY <2>2, ReceivedFacts
  <2>4. ASSUME p \in fresh PROVE IsTrue(Tail(response[p]), table[p].scripts, Dir)
    <3>1. IsTrue(response[p], table[p].scripts, Dir)
      BY <2>4 DEF FreshInv
    <3> QED BY <2>3, <3>1, TrueWhenTaken
  <2> QED BY <2>1, <2>2, <2>3, <2>4 DEF FreshInv, Dir
<1>10. ASSUME NEW s \in streams, StreamOpens(s) PROVE CoreOK' /\ FreshInv'
  <2>1. CoreOK' /\ Dir' = Dir \union {s.file}
    BY <1>10, OpenedFacts
  <2>2. PICK dir : dir = Dir'
    OBVIOUS
  <2>3. UNCHANGED <<fresh, response, table>>
    BY <1>10 DEF StreamOpens, BackgroundUnchanged
  <2>4. \A o \in fresh : IsTrue(response[o], table[o].scripts, dir)
    BY <2>1, <2>2, TrueGrows DEF FreshInv
  <2> QED BY <2>1, <2>2, <2>3, <2>4 DEF FreshInv
<1>11. ASSUME NEW s \in streams, StreamWrites(s) PROVE CoreOK' /\ FreshInv'
  <2>1. CoreOK' /\ Dir' = Dir
    BY <1>11, WrittenFacts
  <2> QED BY <1>11, <2>1 DEF StreamWrites, BackgroundUnchanged, FreshInv
<1>12. ASSUME NEW r \in reads, ReadFile(r) PROVE CoreOK' /\ FreshInv'
  <2>1. /\ CoreOK' /\ r.page \in Pages
        /\ \A o \in Pages \ {r.page} : response'[o] = response[o]
    BY <1>12, ReadFacts
  <2>2. PICK m \in Responses : /\ m.kind = "scriptContent"
                               /\ response'[r.page] = Append(response[r.page], m)
    BY <1>12, ReadFacts
  <2>3. UNCHANGED <<fresh, files, table>>
    BY <1>12 DEF ReadFile, BackgroundUnchanged
  <2>4. ASSUME r.page \in fresh
        PROVE  IsTrue(Append(response[r.page], m), table[r.page].scripts, Dir)
    <3>1. IsTrue(response[r.page], table[r.page].scripts, Dir)
      BY <2>4 DEF FreshInv
    <3>2. response[r.page] \in Seq(Responses)
      BY <2>1 DEF CoreOK
    <3> QED BY <2>2, <3>1, <3>2, TrueWhenOther
  <2> QED BY <2>1, <2>2, <2>3, <2>4 DEF FreshInv, Dir
<1>13. ASSUME NEW r \in reads, ReadFileThrows(r) PROVE CoreOK' /\ FreshInv'
  BY <1>13 DEF ReadFileThrows, BackgroundUnchanged, CoreOK, FreshInv, Dir
<1> QED BY <1>1, <1>2, <1>3, <1>4, <1>5, <1>6, <1>7, <1>8, <1>9, <1>10, <1>11, <1>12, <1>13, Steps

-----------------------------------------------------------------------------
(* Users who wait.                                                         *)

\* Nothing is under way and no content is awaited: every editor holds the text
\* of its script.
LEMMA IdleEditors ==
  ASSUME CoreOK, CarefulInv, careful, Idle, NEW p \in Pages
  PROVE  editor[p].selected \in {NoText, editor[p].text}
<1>1. ~Pending(p)
  BY DEF Idle, Pending
<1> QED BY <1>1 DEF CarefulInv, EditorKept

\* A careful user's request is the only message there is.
LEMMA CarefulWhenSent ==
  ASSUME CoreOK, CarefulInv, careful, Idle, NEW p \in Pages,
         NEW m \in Requests, m.kind # "saveFile" => m.file \in Dir,
         m.kind = "saveFile" => m.text = m.file,
         m.kind = "selectFile" => m.file = editor'[p].selected,
         request' = [request EXCEPT ![p] = Append(@, m)],
         \A o \in Pages \ {p} : editor'[o] = editor[o],
         \/ editor'[p].selected \in {NoText, editor'[p].text}
         \/ m.kind = "selectFile",
         UNCHANGED <<up, files, streams, reads, response>>
  PROVE  CarefulInv'
<1>1. request'[p] = << m >> /\ \A o \in Pages \ {p} : request'[o] = <<>> /\ request[o] = <<>>
  <2>1. request[p] = <<>>
    BY DEF Idle
  <2>2. Append(<<>>, m) = << m >>
    OBVIOUS
  <2>3. request'[p] = Append(<<>>, m) /\ \A o \in Pages \ {p} : request'[o] = request[o]
    BY <2>1 DEF CoreOK
  <2> QED BY <2>2, <2>3 DEF Idle
<1>2. request'[p] # <<>> /\ Head(request'[p]) = m /\ request'[p][1] = m /\ 1 \in DOMAIN request'[p]
  BY <1>1
<1>3. Quiet'
  BY <1>1, <1>2 DEF Quiet, OneRequest, Idle, Dir
<1>4. \A n \in Dir' : Kept(n)'
  BY DEF CarefulInv, Kept, Dir
<1>5. ASSUME NEW o \in Pages PROVE EditorKept(o)'
  <2>1. response'[o] = <<>>
    BY DEF Idle
  <2>2. IsOfSelected(response[o], editor[o].selected)' 
    BY <2>1 DEF IsOfSelected
  <2>3. CASE o = p
    BY <1>2, <2>2, <2>3 DEF EditorKept, Pending
  <2>4. CASE o # p
    <3>1. editor'[o].selected \in {NoText, editor'[o].text}
      BY <2>4, IdleEditors
    <3> QED BY <2>2, <3>1 DEF EditorKept
  <2> QED BY <2>3, <2>4
<1>6. up'
  BY DEF CarefulInv
<1> QED BY <1>3, <1>4, <1>5, <1>6 DEF CarefulInv

\* The rows of a current listing name files.
LEMMA CurrentRows ==
  ASSUME FreshInv, NEW p, NEW name, RowIsCurrent(p, name)
  PROVE  name \in Dir /\ Idle
<1>1. p \in Pages /\ response[p] = <<>> /\ name \in Range(table[p].scripts)
  BY DEF RowIsCurrent, FreshInv, Idle
<1>2. IsTrue(<<>>, table[p].scripts, Dir)
  BY <1>1 DEF FreshInv, RowIsCurrent
<1> QED BY <1>1, <1>2, TrueWhenAnswered DEF RowIsCurrent

LEMMA CarefulSends ==
  ASSUME CoreOK, FreshInv, CarefulInv, careful', NEW p \in Pages, Sends(p)
  PROVE  CarefulInv'
<1>1. UNCHANGED <<up, files, streams, reads, response>>
  BY SendFacts
<1>2. ASSUME NEW n \in Names, createScript(p, n) PROVE CarefulInv'
  <2>1. PICK m \in Requests : m = [kind |-> "saveFile", file |-> n, text |-> n, id |-> clicks]
    BY DEF CoreOK, Requests, Texts
  <2>2. careful /\ Idle /\ request' = [request EXCEPT ![p] = Append(@, m)]
    BY <1>2, <2>1 DEF createScript, Emit
  <2>3. /\ editor'[p].selected = n /\ editor'[p].text = n
        /\ \A o \in Pages \ {p} : editor'[o] = editor[o]
    BY <1>2 DEF createScript, CoreOK
  <2> QED BY <1>1, <2>1, <2>2, <2>3, CarefulWhenSent
<1>3. ASSUME NEW n \in Names, deleteScript(p, n) PROVE CarefulInv'
  <2>1. PICK m \in Requests : m = [kind |-> "deleteFile", file |-> n, text |-> NoText, id |-> clicks]
    BY DEF CoreOK, Requests, Texts
  <2>2. /\ careful /\ RowIsCurrent(p, n) /\ UNCHANGED editor
        /\ request' = [request EXCEPT ![p] = Append(@, m)]
    BY <1>3, <2>1 DEF deleteScript, Emit
  <2>3. n \in Dir /\ Idle
    BY <2>2, CurrentRows
  <2>4. editor[p].selected \in {NoText, editor[p].text}
    BY <2>2, <2>3, IdleEditors
  <2> QED BY <1>1, <2>1, <2>2, <2>3, <2>4, CarefulWhenSent
<1>4. ASSUME NEW n \in Names, selectScript(p, n) PROVE CarefulInv'
  <2>1. PICK m \in Requests : m = [kind |-> "selectFile", file |-> n, text |-> NoText, id |-> clicks]
    BY DEF CoreOK, Requests, Texts
  <2>2. /\ careful /\ RowIsCurrent(p, n)
        /\ request' = [request EXCEPT ![p] = Append(@, m)]
    BY <1>4, <2>1 DEF selectScript, Emit
  <2>3. n \in Dir /\ Idle
    BY <2>2, CurrentRows
  <2>4. editor'[p].selected = n /\ \A o \in Pages \ {p} : editor'[o] = editor[o]
    BY <1>4 DEF selectScript, CoreOK
  <2> QED BY <1>1, <2>1, <2>2, <2>3, <2>4, CarefulWhenSent
<1>5. CASE saveScript(p)
  <2>0. editor[p].selected \in Names /\ editor[p].text \in Texts
    BY <1>5 DEF saveScript, CoreOK, Texts
  <2>1. PICK m \in Requests : m = [kind |-> "saveFile", file |-> editor[p].selected,
                                  text |-> editor[p].text, id |-> clicks]
    BY <2>0 DEF CoreOK, Requests
  <2>2. /\ careful /\ Idle /\ UNCHANGED editor /\ editor[p].selected # NoText
        /\ request' = [request EXCEPT ![p] = Append(@, m)]
    BY <1>5, <2>1 DEF saveScript, Emit
  <2>3. editor[p].selected = editor[p].text
    BY <2>2, IdleEditors
  <2> QED BY <1>1, <2>1, <2>2, <2>3, CarefulWhenSent
<1> QED BY <1>2, <1>3, <1>4, <1>5 DEF Sends

\* The request that the server handles is the only one, and leaves none.
LEMMA OnlyRequest ==
  ASSUME CoreOK, CarefulInv, careful, NEW p \in Pages, NEW kind, Handling(p, kind)
  PROVE  /\ OneRequest(p, Head(request[p])) /\ NoRequests'
         /\ ~(\E i \in DOMAIN request[p] : request[p][i].kind = "selectFile") \/ kind = "selectFile"
         /\ \A o \in Pages \ {p} : request'[o] = request[o]
<1>1. request[p] # <<>> /\ Head(request[p]).kind = kind
  BY DEF Handling
<1>2. OneRequest(p, Head(request[p]))
  <2>1. Quiet /\ ~NoRequests
    BY <1>1 DEF CarefulInv, NoRequests
  <2>2. PICK o \in Pages : request[o] # <<>> /\ OneRequest(o, Head(request[o]))
    BY <2>1 DEF Quiet, OneRead
  <2>3. o = p
    BY <1>1, <2>2 DEF OneRequest
  <2> QED BY <2>2, <2>3
<1>3. PICK m : m = Head(request[p])
  OBVIOUS
<1>4. request[p] = << m >> /\ \A o \in Pages \ {p} : request[o] = <<>>
  BY <1>2, <1>3 DEF OneRequest
<1>5. Tail(request[p]) = <<>> /\ \A i \in DOMAIN request[p] : request[p][i] = m
  BY <1>4
<1>6. request'[p] = Tail(request[p]) /\ \A o \in Pages \ {p} : request'[o] = request[o]
  BY HandlingFacts
<1>7. NoRequests'
  BY <1>4, <1>5, <1>6 DEF NoRequests
<1> QED BY <1>1, <1>2, <1>3, <1>5, <1>6, <1>7

\* An editor is not disturbed by a listing behind the answers to its page.
LEMMA EditorWhenListed ==
  ASSUME CoreOK, NEW p \in Pages, EditorKept(p),
         ~(\E i \in DOMAIN request[p] : request[p][i].kind = "selectFile"),
         UNCHANGED editor, reads \subseteq reads',
         NEW m \in Responses, m.kind = "scriptNames", response'[p] = Append(response[p], m)
  PROVE  EditorKept(p)'
<1>1. PICK s \in Seq(Responses) : s = response[p]
  BY DEF CoreOK
<1>2. PICK t : t = Append(s, m)
  OBVIOUS
<1>3. /\ DOMAIN s = 1..Len(s) /\ Len(s) \in Nat /\ DOMAIN t = 1..(Len(s) + 1)
      /\ t[Len(s) + 1] = m /\ \A i \in DOMAIN s : i \in DOMAIN t /\ t[i] = s[i]
  BY <1>2
<1>4. \A i \in DOMAIN t : i \in DOMAIN s \/ t[i].kind # "scriptContent"
  BY <1>3
<1>5. response'[p] = t
  BY <1>1, <1>2
<1>6. IsOfSelected(t, editor[p].selected)
  BY <1>1, <1>3, <1>4 DEF EditorKept, IsOfSelected
<1>7. Pending(p) => Pending(p)'
  BY <1>1, <1>3, <1>5 DEF Pending
<1> QED BY <1>5, <1>6, <1>7 DEF EditorKept

LEMMA EditorUnchanged ==
  ASSUME NEW o, EditorKept(o), editor'[o] = editor[o], request'[o] = request[o],
         response'[o] = response[o], reads \subseteq reads'
  PROVE  EditorKept(o)'
  BY DEF EditorKept, Pending

LEMMA CarefulSaved ==
  ASSUME CoreOK, CarefulInv, careful, NEW p \in Pages, OnSaveFile(p)
  PROVE  CarefulInv'
<1>1. Handling(p, "saveFile") /\ UNCHANGED <<editor, reads, up>>
  BY DEF OnSaveFile, Handling
<1>2. /\ OneRequest(p, Head(request[p])) /\ NoRequests'
      /\ ~(\E i \in DOMAIN request[p] : request[p][i].kind = "selectFile")
      /\ \A o \in Pages \ {p} : request'[o] = request[o]
  BY <1>1, OnlyRequest
<1>3. PICK m \in Requests : m = Head(request[p]) /\ m.file \in Names
  BY <1>1, HandlingFacts
<1>4. m.kind = "saveFile" /\ m.text = m.file /\ streams = {} /\ reads = {}
  BY <1>1, <1>2, <1>3 DEF OneRequest, Handling
<1>5. PICK opened \in BOOLEAN :
        /\ streams' = {[id |-> m.id, file |-> m.file, text |-> m.text, open |-> opened]}
        /\ files' = IF opened THEN Truncated(m.file) ELSE files
  BY <1>3, <1>4 DEF OnSaveFile
<1>6. PICK s : s = [id |-> m.id, file |-> m.file, text |-> m.text, open |-> opened]
  OBVIOUS
<1>7. streams' = {s} /\ s.file = m.file /\ s.text = m.file
  BY <1>4, <1>5, <1>6
<1>8. Quiet'
  BY <1>1, <1>2, <1>4, <1>7 DEF Quiet, Written
<1>9. ASSUME NEW n \in Dir' PROVE Kept(n)'
  <2>1. \A o \in Dir : files[o] = o
    BY <1>4 DEF CarefulInv, Kept
  <2>2. CASE opened
    <3>1. files' = Truncated(m.file)
      BY <1>5, <2>2
    <3>2. /\ DOMAIN files' = Dir \union {m.file} /\ files'[m.file] = NoText
          /\ \A o \in Dir \ {m.file} : files'[o] = files[o]
      BY <1>3, <3>1, TruncatedFacts
    <3>3. CASE n = m.file
      BY <1>7, <3>2, <3>3 DEF Kept
    <3>4. CASE n # m.file
      BY <2>1, <3>2, <3>4, <1>9 DEF Kept, Dir
    <3> QED BY <3>3, <3>4
  <2>3. CASE ~opened
    BY <1>5, <1>9, <2>1, <2>3 DEF Kept, Dir
  <2> QED BY <2>2, <2>3
<1>10. ASSUME NEW o \in Pages PROVE EditorKept(o)'
  <2>1. /\ \A q \in Pages \ {p} : response'[q] = response[q]
        /\ \E a \in Responses : a.kind = "scriptNames" /\ response'[p] = Append(response[p], a)
    BY SavedFacts
  <2>2. EditorKept(o)
    BY DEF CarefulInv
  <2>3. CASE o = p
    BY <1>1, <1>2, <2>1, <2>2, <2>3, EditorWhenListed
  <2>4. CASE o # p
    BY <1>1, <1>2, <2>1, <2>2, <2>4, EditorUnchanged
  <2> QED BY <2>3, <2>4
<1> QED BY <1>1, <1>8, <1>9, <1>10 DEF CarefulInv

LEMMA CarefulDeleted ==
  ASSUME CoreOK, CarefulInv, careful, NEW p \in Pages, OnDeleteFile(p)
  PROVE  CarefulInv'
<1>1. Handling(p, "deleteFile") /\ UNCHANGED <<editor, reads, up>>
  BY DEF OnDeleteFile, Handling
<1>2. /\ OneRequest(p, Head(request[p])) /\ NoRequests'
      /\ ~(\E i \in DOMAIN request[p] : request[p][i].kind = "selectFile")
      /\ \A o \in Pages \ {p} : request'[o] = request[o]
  BY <1>1, OnlyRequest
<1>3. streams = {} /\ reads = {} /\ streams' = {}
  BY <1>2 DEF OneRequest, OnDeleteFile
<1>4. Quiet'
  BY <1>1, <1>2, <1>3 DEF Quiet, Written
<1>5. /\ Dir' \subseteq Dir /\ \A n \in Dir' : files'[n] = files[n]
      /\ \A q \in Pages \ {p} : response'[q] = response[q]
      /\ \E a \in Responses : a.kind = "scriptNames" /\ response'[p] = Append(response[p], a)
  BY DeletedFacts
<1>6. \A n \in Dir' : Kept(n)'
  BY <1>3, <1>5 DEF CarefulInv, Kept
<1>7. ASSUME NEW o \in Pages PROVE EditorKept(o)'
  <2>1. EditorKept(o)
    BY DEF CarefulInv
  <2>2. CASE o = p
    BY <1>1, <1>2, <1>5, <2>1, <2>2, EditorWhenListed
  <2>3. CASE o # p
    BY <1>1, <1>2, <1>5, <2>1, <2>3, EditorUnchanged
  <2> QED BY <2>2, <2>3
<1> QED BY <1>1, <1>4, <1>6, <1>7 DEF CarefulInv

LEMMA CarefulSelected ==
  ASSUME CoreOK, CarefulInv, careful, NEW p \in Pages, OnSelectFile(p)
  PROVE  CarefulInv'
<1>1. Handling(p, "selectFile") /\ UNCHANGED <<editor, streams, response, files, up>>
  BY DEF OnSelectFile, Handling
<1>2. /\ OneRequest(p, Head(request[p])) /\ NoRequests'
      /\ \A o \in Pages \ {p} : request'[o] = request[o]
  BY <1>1, OnlyRequest
<1>3. PICK m \in Requests : m = Head(request[p]) /\ m.kind = "selectFile"
  BY <1>1, HandlingFacts
<1>4. PICK r : r = [id |-> m.id, page |-> p, file |-> m.file]
  OBVIOUS
<1>5. r.page = p /\ r.file = m.file
  BY <1>4
<1>6. streams = {} /\ reads' = {r} /\ m.file \in Dir /\ m.file = editor[p].selected
  BY <1>2, <1>3, <1>4 DEF OneRequest, OnSelectFile
<1>7. Quiet'
  BY <1>1, <1>2, <1>5, <1>6 DEF Quiet, OneRead, Dir, NoRequests
<1>8. \A n \in Dir' : Kept(n)'
  BY <1>1 DEF CarefulInv, Kept, Dir
<1>9. ASSUME NEW o \in Pages PROVE EditorKept(o)'
  <2>1. EditorKept(o)
    BY DEF CarefulInv
  <2>2. CASE o = p
    BY <1>1, <1>5, <1>6, <2>1, <2>2 DEF EditorKept, Pending
  <2>3. CASE o # p
    <3>1. reads \subseteq reads'
      BY <1>2 DEF OneRequest
    <3> QED BY <1>1, <1>2, <2>1, <2>3, <3>1, EditorUnchanged
  <2> QED BY <2>2, <2>3
<1> QED BY <1>1, <1>7, <1>8, <1>9 DEF CarefulInv

\* A stream is under way: nothing else is.
LEMMA OnlyStreams ==
  ASSUME CarefulInv, careful, NEW s \in streams
  PROVE  NoRequests /\ reads = {} /\ Written
  BY DEF CarefulInv, Quiet, OneRequest, OneRead

LEMMA CarefulOpened ==
  ASSUME CoreOK, CarefulInv, careful, NEW s \in streams, StreamOpens(s)
  PROVE  CarefulInv'
<1>1. PICK t : t = [s EXCEPT !.open = TRUE]
  OBVIOUS
<1>2. s \in Streams /\ s.file \in Names
  BY DEF CoreOK, Streams
<1>3. t.file = s.file /\ t.text = s.text
  BY <1>1, <1>2 DEF Streams
<1>4. /\ streams' = (streams \ {s}) \union {t} /\ files' = Truncated(s.file)
      /\ UNCHANGED <<up, reads, response, request, editor>>
  BY <1>1 DEF StreamOpens, BackgroundUnchanged
<1>5. Quiet'
  BY <1>3, <1>4, OnlyStreams DEF Quiet, NoRequests, Written
<1>6. /\ DOMAIN files' = Dir \union {s.file} /\ files'[s.file] = NoText
      /\ \A n \in Dir \ {s.file} : files'[n] = files[n]
  BY <1>2, <1>4, TruncatedFacts
<1>7. ASSUME NEW n \in Dir' PROVE Kept(n)'
  <2>1. CASE n = s.file
    BY <1>3, <1>4, <1>6, <2>1 DEF Kept
  <2>2. CASE n # s.file
    <3>1. n \in Dir /\ Kept(n) /\ files'[n] = files[n]
      BY <1>6, <1>7, <2>2 DEF CarefulInv, Dir
    <3>2. \A w \in streams : w.file = n => w \in streams'
      BY <1>4, <2>2
    <3> QED BY <3>1, <3>2 DEF Kept
  <2> QED BY <2>1, <2>2
<1>8. \A o \in Pages : EditorKept(o)'
  BY <1>4 DEF CarefulInv, EditorKept, Pending
<1> QED BY <1>4, <1>5, <1>7, <1>8 DEF CarefulInv

LEMMA CarefulWritten ==
  ASSUME CoreOK, CarefulInv, careful, NEW s \in streams, StreamWrites(s)
  PROVE  CarefulInv'
<1>1. /\ streams' = streams \ {s} /\ UNCHANGED <<up, reads, response, request, editor>>
  BY DEF StreamWrites, BackgroundUnchanged
<1>2. Quiet' /\ s.text = s.file
  BY <1>1, OnlyStreams DEF Quiet, NoRequests, Written
<1>3. Dir' = Dir /\ \A n \in Dir : files'[n] = IF n = s.file THEN s.text ELSE files[n]
  BY WrittenFacts
<1>4. ASSUME NEW n \in Dir' PROVE Kept(n)'
  <2>1. CASE n = s.file
    BY <1>2, <1>3, <1>4, <2>1 DEF Kept
  <2>2. CASE n # s.file
    <3>1. n \in Dir /\ Kept(n) /\ files'[n] = files[n]
      BY <1>3, <1>4, <2>2 DEF CarefulInv
    <3>2. \A w \in streams : w.file = n => w \in streams'
      BY <1>1, <2>2
    <3> QED BY <3>1, <3>2 DEF Kept
  <2> QED BY <2>1, <2>2
<1>5. \A o \in Pages : EditorKept(o)'
  BY <1>1 DEF CarefulInv, EditorKept, Pending
<1> QED BY <1>1, <1>2, <1>4, <1>5 DEF CarefulInv

LEMMA OnlyReader ==
  ASSUME CoreOK, CarefulInv, careful, NEW r \in reads
  PROVE  OneRead(r)
  BY DEF CarefulInv, Quiet, OneRequest, OneRead

LEMMA CarefulRead ==
  ASSUME CoreOK, CarefulInv, careful, NEW r \in reads, ReadFile(r)
  PROVE  CarefulInv'
<1>1. OneRead(r)
  BY OnlyReader
<1>2. /\ reads' = {} /\ UNCHANGED <<up, files, streams, request, editor>>
  BY <1>1 DEF ReadFile, BackgroundUnchanged, OneRead
<1>3. Quiet'
  BY <1>1, <1>2 DEF Quiet, OneRead, NoRequests, Written
<1>4. \A n \in Dir' : Kept(n)'
  BY <1>2 DEF CarefulInv, Kept, Dir
<1>5. r.page \in Pages /\ \A o \in Pages \ {r.page} : response'[o] = response[o]
  BY ReadFacts
<1>6. PICK m \in Responses : /\ m.kind = "scriptContent" /\ m.data = files[r.file]
                             /\ response'[r.page] = Append(response[r.page], m)
  BY ReadFacts
<1>7. m.data = editor[r.page].selected
  <2>1. Kept(r.file) /\ streams = {} /\ r.file = editor[r.page].selected
    BY <1>1 DEF OneRead, CarefulInv
  <2> QED BY <1>6, <2>1 DEF Kept
<1>8. ASSUME NEW o \in Pages PROVE EditorKept(o)'
  <2>1. EditorKept(o)
    BY DEF CarefulInv
  <2>2. CASE o = r.page
    <3>1. PICK s \in Seq(Responses) : s = response[o]
      BY DEF CoreOK
    <3>2. PICK t : t = Append(s, m)
      OBVIOUS
    <3>3. /\ DOMAIN s = 1..Len(s) /\ Len(s) \in Nat /\ DOMAIN t = 1..(Len(s) + 1)
          /\ t[Len(s) + 1] = m /\ \A i \in DOMAIN s : t[i] = s[i]
      BY <3>2
    <3>4. IsOfSelected(t, editor[o].selected)
      BY <1>6, <1>7, <2>1, <2>2, <3>1, <3>3 DEF EditorKept, IsOfSelected
    <3>5. \E i \in DOMAIN t : t[i].kind = "scriptContent"
      BY <1>6, <3>3
    <3>6. response'[o] = t
      BY <1>6, <2>2, <3>1, <3>2
    <3> QED BY <1>2, <3>4, <3>5, <3>6 DEF EditorKept, Pending
  <2>3. CASE o # r.page
    <3>1. ~ \E w \in reads : w.page = o
      BY <1>1, <2>3 DEF OneRead
    <3> QED BY <1>2, <1>5, <2>1, <2>3, <3>1 DEF EditorKept, Pending
  <2> QED BY <2>2, <2>3
<1> QED BY <1>2, <1>3, <1>4, <1>8 DEF CarefulInv

\* A page takes an answer: only its own editor depends on that.
LEMMA CarefulNames ==
  ASSUME CoreOK, CarefulInv, careful, NEW p \in Pages, OnScriptNames(p)
  PROVE  CarefulInv'
<1>1. Received(p, "scriptNames") /\ UNCHANGED <<up, files, streams, reads, request, editor>>
  BY DEF OnScriptNames, Received, ServerUnchanged
<1>2. /\ response[p] \in Seq(Responses) /\ response[p] # <<>>
      /\ Head(response[p]).kind = "scriptNames" /\ response'[p] = Tail(response[p])
      /\ \A o \in Pages \ {p} : response'[o] = response[o]
  BY <1>1, ReceivedFacts
<1>3. PICK s \in Seq(Responses) : s = response[p] /\ s # <<>>
  BY <1>2
<1>4. PICK t : t = Tail(s)
  OBVIOUS
<1>5. /\ Head(s) = s[1] /\ Len(s) \in Nat /\ DOMAIN s = 1..Len(s)
      /\ DOMAIN t = 1..(Len(s) - 1) /\ \A i \in 1..(Len(s) - 1) : t[i] = s[i + 1]
  BY <1>3, <1>4, TailFacts
<1>6. ASSUME NEW i \in DOMAIN s, s[i].kind = "scriptContent"
      PROVE  \E j \in DOMAIN t : t[j].kind = "scriptContent"
  <2>1. i # 1
    BY <1>2, <1>3, <1>5, <1>6
  <2>2. i - 1 \in DOMAIN t /\ t[i - 1] = s[i]
    BY <1>5, <1>6, <2>1
  <2> QED BY <1>6, <2>2
<1>7. \A script : IsOfSelected(s, script) => IsOfSelected(t, script)
  <2>1. \A i \in DOMAIN t : i + 1 \in DOMAIN s /\ t[i] = s[i + 1]
    BY <1>5
  <2> QED BY <2>1 DEF IsOfSelected
<1>8. response'[p] = t
  BY <1>2, <1>3, <1>4
<1>9. ASSUME NEW o \in Pages PROVE EditorKept(o)'
  <2>1. EditorKept(o)
    BY DEF CarefulInv
  <2>2. CASE o = p
    <3>1. Pending(p) => Pending(p)'
      BY <1>1, <1>3, <1>6, <1>8 DEF Pending
    <3> QED BY <1>1, <1>3, <1>7, <1>8, <2>1, <2>2, <3>1 DEF EditorKept
  <2>3. CASE o # p
    BY <1>1, <1>2, <2>1, <2>3, EditorUnchanged
  <2> QED BY <2>2, <2>3
<1>10. Quiet' /\ \A n \in Dir' : Kept(n)'
  BY <1>1 DEF CarefulInv, Quiet, NoRequests, OneRequest, OneRead, Written, Kept, Dir
<1> QED BY <1>1, <1>9, <1>10 DEF CarefulInv

LEMMA CarefulContent ==
  ASSUME CoreOK, CarefulInv, careful, NEW p \in Pages, OnScriptContent(p)
  PROVE  CarefulInv'
<1>1. Received(p, "scriptContent") /\ UNCHANGED <<up, files, streams, reads, request>>
  BY DEF OnScriptContent, Received, ServerUnchanged
<1>2. /\ response[p] \in Seq(Responses) /\ response[p] # <<>>
      /\ Head(response[p]).kind = "scriptContent" /\ response'[p] = Tail(response[p])
      /\ \A o \in Pages \ {p} : response'[o] = response[o]
  BY <1>1, ReceivedFacts
<1>3. /\ editor'[p].selected = editor[p].selected /\ editor'[p].text = Head(response[p]).data
      /\ \A o \in Pages \ {p} : editor'[o] = editor[o]
  BY ContentReceived
<1>4. PICK s \in Seq(Responses) : s = response[p] /\ s # <<>>
  BY <1>2
<1>5. PICK t : t = Tail(s)
  OBVIOUS
<1>6. /\ Head(s) = s[1] /\ Len(s) \in Nat /\ Len(s) >= 1 /\ DOMAIN s = 1..Len(s)
      /\ DOMAIN t = 1..(Len(s) - 1) /\ \A i \in 1..(Len(s) - 1) : t[i] = s[i + 1]
  BY <1>4, <1>5, TailFacts
<1>7. EditorKept(p)'
  <2>1. IsOfSelected(s, editor[p].selected)
    BY <1>4 DEF CarefulInv, EditorKept
  <2>2. s[1].data = editor[p].selected
    BY <1>2, <1>4, <1>6, <2>1 DEF IsOfSelected
  <2>3. \A i \in DOMAIN t : i + 1 \in DOMAIN s /\ t[i] = s[i + 1]
    BY <1>6
  <2>4. IsOfSelected(t, editor[p].selected)
    BY <2>1, <2>3 DEF IsOfSelected
  <2> QED BY <1>2, <1>3, <1>4, <1>5, <1>6, <2>2, <2>4 DEF EditorKept
<1>8. ASSUME NEW o \in Pages, o # p PROVE EditorKept(o)'
  <2>1. EditorKept(o)
    BY DEF CarefulInv
  <2> QED BY <1>1, <1>2, <1>3, <1>8, <2>1, EditorUnchanged
<1>9. \A o \in Pages : editor'[o].selected = editor[o].selected
  BY <1>3
<1>10. (\A n \in Dir' : Kept(n)') /\ Dir' = Dir
  BY <1>1 DEF CarefulInv, Kept, Dir
<1>11. Quiet'
  <2>1. CASE NoRequests /\ reads = {} /\ Written
    BY <1>1, <2>1 DEF Quiet, NoRequests, Written
  <2>2. CASE \E q \in Pages : request[q] # <<>> /\ OneRequest(q, Head(request[q]))
    BY <1>1, <1>9, <1>10, <2>2 DEF Quiet, OneRequest
  <2>3. CASE \E r \in reads : OneRead(r)
    <3>1. PICK r \in reads : OneRead(r)
      BY <2>3
    <3>2. r.page \in Pages
      BY DEF CoreOK, Reads
    <3> QED BY <1>1, <1>9, <1>10, <3>1, <3>2 DEF Quiet, OneRead, NoRequests
  <2> QED BY <2>1, <2>2, <2>3 DEF CarefulInv, Quiet
<1> QED BY <1>1, <1>7, <1>8, <1>10, <1>11 DEF CarefulInv

LEMMA CarefulStep == CoreOK /\ FreshInv /\ CarefulInv /\ [Next]_vars => CarefulInv'
<1> SUFFICES ASSUME CoreOK, FreshInv, CarefulInv, [Next]_vars, careful' PROVE CarefulInv'
  BY DEF CarefulInv
<1>1. CASE UNCHANGED vars
  BY <1>1 DEF vars, CarefulInv, Quiet, NoRequests, OneRequest, OneRead, Written, Kept,
              EditorKept, Pending, Dir
<1>2. ASSUME NEW p \in Pages, Views(p) PROVE CarefulInv'
  <2>1. UNCHANGED <<request, response, editor, fresh, careful, up, files, streams, reads>>
    BY <1>2, ViewFacts
  <2> QED BY <2>1 DEF CarefulInv, Quiet, NoRequests, OneRequest, OneRead, Written, Kept,
                      EditorKept, Pending, Dir
<1>3. ASSUME NEW p \in Pages, Sends(p) PROVE CarefulInv'
  BY <1>3, CarefulSends
<1>4. ASSUME NEW p \in Pages, OnSaveFile(p) PROVE CarefulInv'
  <2>1. careful
    BY <1>4 DEF OnSaveFile, Handling
  <2> QED BY <1>4, <2>1, CarefulSaved
<1>5. ASSUME NEW p \in Pages, OnDeleteFile(p) PROVE CarefulInv'
  <2>1. careful
    BY <1>5 DEF OnDeleteFile, Handling
  <2> QED BY <1>5, <2>1, CarefulDeleted
<1>6. ASSUME NEW p \in Pages, OnDeleteThrows(p) PROVE CarefulInv'
  <2>1. careful /\ Handling(p, "deleteFile")
    BY <1>6 DEF OnDeleteThrows, Handling
  <2>2. OneRequest(p, Head(request[p])) /\ Head(request[p]).kind = "deleteFile"
    BY <2>1, OnlyRequest DEF Handling
  <2> QED BY <1>6, <2>2 DEF OneRequest, OnDeleteThrows
<1>7. ASSUME NEW p \in Pages, OnSelectFile(p) PROVE CarefulInv'
  <2>1. careful
    BY <1>7 DEF OnSelectFile, Handling
  <2> QED BY <1>7, <2>1, CarefulSelected
<1>8. ASSUME NEW p \in Pages, OnScriptNames(p) PROVE CarefulInv'
  <2>1. careful
    BY <1>8 DEF OnScriptNames, Received
  <2> QED BY <1>8, <2>1, CarefulNames
<1>9. ASSUME NEW p \in Pages, OnScriptContent(p) PROVE CarefulInv'
  <2>1. careful
    BY <1>9 DEF OnScriptContent, Received
  <2> QED BY <1>9, <2>1, CarefulContent
<1>10. ASSUME NEW s \in streams, StreamOpens(s) PROVE CarefulInv'
  <2>1. careful
    BY <1>10 DEF StreamOpens, BackgroundUnchanged
  <2> QED BY <1>10, <2>1, CarefulOpened
<1>11. ASSUME NEW s \in streams, StreamWrites(s) PROVE CarefulInv'
  <2>1. careful
    BY <1>11 DEF StreamWrites, BackgroundUnchanged
  <2> QED BY <1>11, <2>1, CarefulWritten
<1>12. ASSUME NEW r \in reads, ReadFile(r) PROVE CarefulInv'
  <2>1. careful
    BY <1>12 DEF ReadFile, BackgroundUnchanged
  <2> QED BY <1>12, <2>1, CarefulRead
<1>13. ASSUME NEW r \in reads, ReadFileThrows(r) PROVE CarefulInv'
  <2>1. careful
    BY <1>13 DEF ReadFileThrows, BackgroundUnchanged
  <2> QED BY <1>13, <2>1, OnlyReader DEF OneRead, ReadFileThrows
<1> QED BY <1>1, <1>2, <1>3, <1>4, <1>5, <1>6, <1>7, <1>8, <1>9, <1>10, <1>11, <1>12, <1>13, Steps

LEMMA InitFresh == Init => FreshInv
<1> SUFFICES ASSUME Init PROVE FreshInv
  OBVIOUS
<1>1. PICK dir \in SUBSET Names :
        /\ files = [n \in dir |-> n]
        /\ response = [p \in Pages |-> << [kind |-> "scriptNames", data |-> Listing[dir] ] >>]
  BY DEF Init
<1>2. PICK m : m = [kind |-> "scriptNames", data |-> Listing[dir] ]
  OBVIOUS
<1>3. m.kind = "scriptNames" /\ Range(m.data) = dir /\ Dir = dir
  BY <1>1, <1>2, ListingFacts DEF Dir
<1>4. ASSUME NEW p \in Pages PROVE IsTrue(response[p], table[p].scripts, Dir)
  <2>1. response[p] = << m >>
    BY <1>1, <1>2
  <2>2. DOMAIN response[p] = {1} /\ response[p][1] = m
    BY <2>1
  <2> QED BY <1>3, <2>2 DEF IsTrue
<1> QED BY <1>4 DEF FreshInv, Init

LEMMA InitCareful == Init => CarefulInv
<1> SUFFICES ASSUME Init PROVE CarefulInv
  OBVIOUS
<1>1. PICK dir \in SUBSET Names :
        /\ files = [n \in dir |-> n]
        /\ response = [p \in Pages |-> << [kind |-> "scriptNames", data |-> Listing[dir] ] >>]
  BY DEF Init
<1>2. PICK m : m = [kind |-> "scriptNames", data |-> Listing[dir] ]
  OBVIOUS
<1>3. \A n \in Dir : Kept(n)
  BY <1>1 DEF Dir, Kept
<1>4. up /\ Quiet
  BY DEF Init, Quiet, NoRequests, Written
<1>5. ASSUME NEW p \in Pages PROVE EditorKept(p)
  <2>1. response[p] = << m >>
    BY <1>1, <1>2
  <2>2. DOMAIN response[p] = {1} /\ response[p][1].kind = "scriptNames"
    BY <1>2, <2>1
  <2>3. editor[p].selected = NoText
    BY DEF Init
  <2> QED BY <2>2, <2>3 DEF EditorKept, IsOfSelected
<1> QED BY <1>3, <1>4, <1>5 DEF CarefulInv

LEMMA ScriptsInvariant == Spec => [](CoreOK /\ FreshInv /\ CarefulInv)
<1>1. Init => CoreOK /\ FreshInv /\ CarefulInv
  BY InitCoreOK, InitFresh, InitCareful
<1>2. CoreOK /\ FreshInv /\ CarefulInv /\ [Next]_vars => (CoreOK /\ FreshInv /\ CarefulInv)'
  BY FreshStep, CarefulStep
<1> QED BY <1>1, <1>2, PTL DEF Spec

-----------------------------------------------------------------------------
(* The table.                                                              *)

\* what showScripts puts into the table for a page of a list
PageRows(list, current) ==
  SubSeq(list, (current - 1) * itemNumber + 1, LastRow(list, current, PageCount(list)))

\* Outside of a search the table is on a page of its scripts.
OnPage(t) ==
  t.view = "all" /\ t.scripts # <<>> =>
    /\ t.total = PageCount(t.scripts) /\ t.current <= t.total
    /\ t.current # 0 => t.rows = PageRows(t.scripts, t.current)

TablesInv ==
  /\ up \in BOOLEAN /\ careful \in BOOLEAN
  /\ \A s \in streams : s.open => s.file \in Dir
  /\ table \in [Pages -> Table] /\ \A p \in Pages : OnPage(table[p])

LEMMA PageCountFacts ==
  ASSUME NEW list \in Seq(Names), NEW q, q = PageCount(list), NEW L, L = Len(list)
  PROVE  /\ q \in Nat /\ L \in Nat /\ L <= q * itemNumber
         /\ L > 0 => q >= 1 /\ (q - 1) * itemNumber < L
         /\ L % itemNumber = 0 => L = q * itemNumber
<1>1. itemNumber \in Nat \ {0} /\ L \in Nat
  BY ScriptsAssumption
<1>2. q = (L + itemNumber - 1) \div itemNumber
  BY DEF PageCount
<1> QED BY <1>1, <1>2, PagesOfRows

\* The rows of a page are those from the row after the page before.
LEMMA LastRowFacts ==
  ASSUME NEW list \in Seq(Names), list # <<>>, NEW q, q = PageCount(list), NEW c \in 1..q,
         NEW to, to = LastRow(list, c, q), NEW from, from = (c - 1) * itemNumber + 1
  PROVE  /\ from \in Nat /\ to \in Nat /\ 1 <= from /\ to <= Len(list)
         /\ c < q <=> c * itemNumber < Len(list)
         /\ to - from + 1 = IF c < q THEN itemNumber ELSE Len(list) - (c - 1) * itemNumber
         /\ to - from + 1 \in Nat
<1>1. PICK N \in Nat : N = itemNumber /\ N > 0
  BY ScriptsAssumption
<1>2. PICK L \in Nat : L = Len(list) /\ L > 0
  OBVIOUS
<1>3. /\ q \in Nat /\ q >= 1 /\ L <= q * N /\ (q - 1) * N < L
      /\ L % N = 0 => L = q * N
  BY <1>1, <1>2, PageCountFacts
<1>4. PICK m \in Nat : m = (c - 1) * N /\ c * N = m + N
  <2>1. PICK b \in Nat : c = b + 1
    BY <1>3
  <2>2. (b + 1) * N = b * N + N /\ b * N \in Nat
    BY <1>1
  <2> QED BY <1>1, <2>1, <2>2
<1>5. from = m + 1
  BY <1>1, <1>4
<1>6. to = IF c = q /\ L % N # 0 THEN L ELSE m + N
  BY <1>1, <1>2, <1>4 DEF LastRow
<1>7. CASE c < q
  <2>1. m + N <= (q - 1) * N
    <3>1. PICK d \in Nat : q - 1 = c + d
      BY <1>3, <1>7
    <3>2. (c + d) * N = c * N + d * N /\ d * N \in Nat
      BY <1>1, <1>3
    <3> QED BY <1>1, <1>4, <3>1, <3>2
  <2>2. to = m + N
    BY <1>6, <1>7
  <2>3. m + N < L
    BY <1>1, <1>2, <1>3, <1>4, <2>1
  <2>4. to - from + 1 = N /\ to \in Nat /\ to <= L
    BY <1>1, <1>2, <1>4, <1>5, <2>2, <2>3
  <2> QED BY <1>1, <1>2, <1>4, <1>5, <1>7, <2>3, <2>4
<1>8. CASE c = q
  <2>1. m < L /\ L <= m + N /\ (L % N = 0 => L = m + N)
    BY <1>3, <1>4, <1>8
  <2>2. to = L
    BY <1>6, <1>8, <2>1
  <2>3. to - from + 1 = L - m /\ L - m \in Nat /\ to \in Nat /\ to <= L /\ 1 <= from /\ from \in Nat
    BY <1>1, <1>2, <1>4, <1>5, <2>1, <2>2
  <2>4. ~(c < q) /\ (c < q <=> m + N < L)
    <3>1. ~(c < q)
      BY <1>3, <1>8
    <3> QED BY <2>1, <3>1
  <2>5. (c - 1) * itemNumber = m /\ c * itemNumber = m + N
    BY <1>1, <1>4
  <2>6. L - m = IF c < q THEN itemNumber ELSE Len(list) - (c - 1) * itemNumber
    BY ONLY <1>2, <2>4, <2>5
  <2>7. c < q <=> c * itemNumber < Len(list)
    BY ONLY <1>2, <2>4, <2>5
  <2> QED BY ONLY <1>2, <2>3, <2>6, <2>7
<1> QED BY <1>3, <1>7, <1>8

LEMMA ShowsPage ==
  ASSUME NEW list \in Seq(Names), list # <<>>, NEW q, q = PageCount(list), NEW c \in 1..q, NEW rows
  PROVE  showScripts(list, c, q, rows) = PageRows(list, c)
<1>1. PICK from, to : from = (c - 1) * itemNumber + 1 /\ to = LastRow(list, c, q)
  OBVIOUS
<1>2. from \in Nat /\ to \in Nat /\ 1 <= from /\ to <= Len(list)
  BY <1>1, LastRowFacts
<1>3. from..to \subseteq DOMAIN list
  BY <1>2
<1> QED BY <1>1, <1>3, Zenon DEF showScripts, PageRows

LEMMA ShownTyped ==
  ASSUME NEW list \in Seq(Names), NEW c \in Nat, NEW total \in Nat, NEW rows \in Seq(Names)
  PROVE  showScripts(list, c, total, rows) \in Seq(Names)
<1>1. PICK from, to : from = (c - 1) * itemNumber + 1 /\ to = LastRow(list, c, total)
  OBVIOUS
<1>2. PICK N \in Nat : N = itemNumber
  BY ScriptsAssumption
<1>3. from \in Int /\ to \in Int
  <2>1. (c - 1) * N \in Int /\ c * N \in Int /\ Len(list) \in Int
    BY <1>2
  <2> QED BY <1>1, <1>2, <2>1 DEF LastRow
<1>4. ASSUME from..to \subseteq DOMAIN list PROVE SubSeq(list, from, to) \in Seq(Names)
  <2>1. \A i \in from..to : list[i] \in Names
    BY <1>4
  <2> QED BY <1>3, <2>1, SubSeqProperties
<1>5. showScripts(list, c, total, rows) =
        IF from..to \subseteq DOMAIN list THEN SubSeq(list, from, to) ELSE rows
  BY <1>1, Zenon DEF showScripts
<1> QED BY <1>4, <1>5

\* A table for a list that has just arrived.
LEMMA ListedOnPage ==
  ASSUME NEW t \in Table, NEW list \in Seq(Names)
  PROVE  Listed(t, list) \in Table /\ OnPage(Listed(t, list))
<1>1. PICK q \in Nat : q = PageCount(list)
  BY PageCountFacts
<1>2. PICK c \in Nat : c = IF t.current > q THEN 1 ELSE t.current
  BY DEF Table
<1>3. PICK rows \in Seq(Names) : rows = showScripts(list, c, q, t.rows)
  BY ShownTyped DEF Table
<1>4. PICK u : u = [scripts |-> list, current |-> c, total |-> q, view |-> "all", rows |-> rows]
  OBVIOUS
<1>5. Listed(t, list) = u
  BY <1>1, <1>2, <1>3, <1>4, Zenon DEF Listed
<1>6. u \in Table
  BY <1>4 DEF Table
<1>7. OnPage(u)
  <2> SUFFICES ASSUME list # <<>>
               PROVE  c <= q /\ (c # 0 => rows = PageRows(list, c))
    BY <1>1, <1>4 DEF OnPage
  <2>1. q >= 1
    <3>1. Len(list) > 0
      OBVIOUS
    <3> QED BY <1>1, <3>1, PageCountFacts
  <2>2. c <= q
    BY <1>2, <2>1 DEF Table
  <2>3. c # 0 => c \in 1..q
    BY <2>2
  <2> QED BY <1>1, <1>3, <2>2, <2>3, ShowsPage
<1> QED BY <1>5, <1>6, <1>7

LEMMA SearchedOnPage ==
  ASSUME NEW t \in Table, NEW found \in Seq(Names)
  PROVE  Searched(t, found) \in Table /\ OnPage(Searched(t, found))
<1>1. CASE found = <<>>
  <2>1. PICK u : u = [t EXCEPT !.current = 0, !.total = 0, !.view = "search", !.rows = found]
    OBVIOUS
  <2>2. u \in Table /\ u.view = "search"
    BY <2>1 DEF Table
  <2>3. Searched(t, found) = u
    BY <1>1, <2>1, Zenon DEF Searched
  <2> QED BY <2>2, <2>3 DEF OnPage
<1>2. CASE found # <<>>
  <2>1. PICK q \in Nat : q = PageCount(found)
    BY PageCountFacts
  <2>2. PICK rows \in Seq(Names) : rows = showScripts(found, 1, q, t.rows)
    BY ShownTyped DEF Table
  <2>3. PICK u : u = [t EXCEPT !.current = 1, !.total = q, !.view = "search", !.rows = rows]
    OBVIOUS
  <2>4. Searched(t, found) = u
    BY <1>2, <2>1, <2>2, <2>3, Zenon DEF Searched
  <2>5. u \in Table /\ u.view = "search"
    BY <2>3 DEF Table
  <2> QED BY <2>4, <2>5 DEF OnPage
<1> QED BY <1>1, <1>2

LEMMA TurnedOnPage ==
  ASSUME NEW t \in Table, OnPage(t), NEW c \in Nat,
         t.view = "all" /\ t.scripts # <<>> => c \in 1..t.total
  PROVE  Turned(t, c) \in Table /\ OnPage(Turned(t, c))
<1>1. /\ t.scripts \in Seq(Names) /\ t.total \in Nat /\ t.rows \in Seq(Names)
  BY DEF Table
<1>2. PICK rows \in Seq(Names) : rows = showScripts(t.scripts, c, t.total, t.rows)
  BY <1>1, ShownTyped
<1>3. PICK u : u = [t EXCEPT !.current = c, !.rows = rows]
  OBVIOUS
<1>4. Turned(t, c) = u
  BY <1>2, <1>3, Zenon DEF Turned
<1>5. u \in Table /\ u.scripts = t.scripts /\ u.total = t.total /\ u.view = t.view
      /\ u.current = c /\ u.rows = rows
  BY <1>3 DEF Table
<1>6. ASSUME t.view = "all", t.scripts # <<>>
      PROVE  t.total = PageCount(t.scripts) /\ c <= t.total /\ rows = PageRows(t.scripts, c)
  <2>1. t.total = PageCount(t.scripts) /\ c \in 1..t.total
    BY <1>6 DEF OnPage
  <2>2. c <= t.total
    BY <1>1, <2>1
  <2> QED BY <1>1, <1>2, <1>6, <2>1, <2>2, ShowsPage
<1> QED BY <1>4, <1>5, <1>6 DEF OnPage

LEMMA InitTables == Init => TablesInv
<1> SUFFICES ASSUME Init PROVE TablesInv
  OBVIOUS
<1>0. PICK none : none = <<>>
  OBVIOUS
<1>1. none = <<>> /\ none \in Seq(Names)
  BY <1>0
<1>2. PICK e : e = [scripts |-> none, current |-> 1, total |-> 0, view |-> "all", rows |-> none]
  OBVIOUS
<1>3. e \in Table /\ OnPage(e)
  BY <1>1, <1>2 DEF Table, OnPage
<1>4. table = [p \in Pages |-> e]
  BY <1>1, <1>2 DEF Init, Empty
<1>5. table \in [Pages -> Table] /\ \A p \in Pages : OnPage(table[p])
  BY <1>3, <1>4
<1> QED BY <1>5 DEF Init, TablesInv

\* Clicks that view the table.
LEMMA TablesViewed ==
  ASSUME TablesInv, NEW p \in Pages, Views(p)
  PROVE  table' \in [Pages -> Table] /\ \A o \in Pages : OnPage(table'[o])
<1>1. PICK t \in Table : t = table[p] /\ OnPage(t)
  BY DEF TablesInv
<1>2. /\ t.scripts \in Seq(Names) /\ t.current \in Nat /\ t.total \in Nat
  BY DEF Table
<1>3. PICK u : View(p, u) /\ u \in Table /\ OnPage(u)
  <2>1. CASE nextPage(p)
    <3>1. View(p, Turned(t, t.current + 1)) /\ t.current # t.total
      BY <1>1, <2>1 DEF nextPage
    <3>2. t.view = "all" /\ t.scripts # <<>> => t.current + 1 \in 1..t.total
      <4>1. t.view = "all" /\ t.scripts # <<>> => t.current <= t.total
        BY <1>1 DEF OnPage
      <4> QED BY <1>2, <3>1, <4>1
    <3>3. t.current + 1 \in Nat
      BY <1>2
    <3> QED BY <1>1, <3>1, <3>2, <3>3, TurnedOnPage
  <2>2. CASE lastPage(p)
    <3>1. View(p, Turned(t, t.current - 1)) /\ t.current \notin {0, 1}
      BY <1>1, <2>2 DEF lastPage
    <3>2. t.view = "all" /\ t.scripts # <<>> => t.current - 1 \in 1..t.total
      <4>1. t.view = "all" /\ t.scripts # <<>> => t.current <= t.total
        BY <1>1 DEF OnPage
      <4> QED BY <1>2, <3>1, <4>1
    <3>3. t.current - 1 \in Nat
      BY <1>2, <3>1
    <3> QED BY <1>1, <3>1, <3>2, <3>3, TurnedOnPage
  <2>3. CASE \E pattern \in Patterns : Search(p, pattern)
    <3>1. PICK pattern \in Patterns : View(p, Searched(t, Only(t.scripts, pattern)))
      BY <1>1, <2>3 DEF Search
    <3>2. Only(t.scripts, pattern) \in Seq(Names)
      BY <1>2, OnlyElements
    <3> QED BY <3>1, <3>2, SearchedOnPage
  <2> QED BY <2>1, <2>2, <2>3 DEF Views
<1>4. table' = [table EXCEPT ![p] = u]
  BY <1>3 DEF View
<1> QED BY <1>3, <1>4 DEF TablesInv

LEMMA TablesStep == CoreOK /\ TablesInv /\ [Next]_vars => TablesInv'
<1> SUFFICES ASSUME CoreOK, TablesInv, [Next]_vars PROVE TablesInv'
  OBVIOUS
<1>1. CASE UNCHANGED vars
  BY <1>1 DEF vars, TablesInv, Dir
<1> DEFINE Opened == \A s \in streams : s.open => s.file \in Dir
           Shown  == table \in [Pages -> Table] /\ \A p \in Pages : OnPage(table[p])
<1>2. Opened /\ Shown /\ up \in BOOLEAN /\ careful \in BOOLEAN
  BY DEF TablesInv
<1>3. ASSUME table' = table PROVE Shown'
  BY <1>2, <1>3
<1>4. ASSUME UNCHANGED <<streams, files>> PROVE Opened'
  BY <1>2, <1>4 DEF Dir
<1>5. ASSUME Opened', Shown', up' \in BOOLEAN, careful' \in BOOLEAN PROVE TablesInv'
  BY <1>5 DEF TablesInv
<1> HIDE DEF Opened, Shown
<1>6. ASSUME NEW p \in Pages, Views(p) PROVE TablesInv'
  <2>1. UNCHANGED <<careful, up, files, streams>>
    BY <1>6, ViewFacts
  <2>2. Shown'
    BY <1>6, TablesViewed DEF Shown
  <2> QED BY <1>2, <1>4, <1>5, <2>1, <2>2
<1>7. ASSUME NEW p \in Pages, Sends(p) PROVE TablesInv'
  <2>1. UNCHANGED <<table, up, files, streams>>
    BY <1>7, SendFacts
  <2>2. careful' \in BOOLEAN
    BY <1>2, <1>7 DEF Sends, createScript, saveScript, deleteScript, selectScript
  <2> QED BY <1>2, <1>3, <1>4, <1>5, <2>1, <2>2
<1>8. ASSUME NEW p \in Pages, OnSaveFile(p) PROVE TablesInv'
  <2>1. UNCHANGED <<table, up, careful>>
    BY <1>8 DEF OnSaveFile, Handling
  <2>2. Opened'
    <3>1. PICK m : m = Head(request[p]) /\ m.file \in Names
      BY <1>8, HandlingFacts DEF OnSaveFile
    <3>2. PICK opened \in BOOLEAN :
            /\ streams' = streams \union
                 {[id |-> m.id, file |-> m.file, text |-> m.text, open |-> opened]}
            /\ files' = IF opened THEN Truncated(m.file) ELSE files
      BY <1>8, <3>1 DEF OnSaveFile
    <3>3. Dir \subseteq Dir'
      BY <1>8, SavedFacts
    <3>4. opened => m.file \in Dir'
      <4>1. ASSUME opened PROVE DOMAIN files' = Dir \union {m.file}
        BY <3>1, <3>2, <4>1, TruncatedFacts
      <4> QED BY <4>1 DEF Dir
    <3> QED BY <1>2, <3>2, <3>3, <3>4 DEF Opened
  <2> QED BY <1>2, <1>3, <1>5, <2>1, <2>2
<1>9. ASSUME NEW p \in Pages, OnDeleteFile(p) PROVE TablesInv'
  <2>1. UNCHANGED <<table, up, careful>>
    BY <1>9 DEF OnDeleteFile, Handling
  <2>2. PICK m : m = Head(request[p])
    OBVIOUS
  <2>3. files' = [n \in Dir \ {m.file} |-> files[n] ]
    BY <1>9, <2>2 DEF OnDeleteFile, Restrict
  <2>4. streams' = {s \in streams : ~s.open \/ s.file # m.file} /\ Dir' = Dir \ {m.file}
    BY <1>9, <2>2, <2>3 DEF OnDeleteFile, Dir
  <2>5. Opened'
    BY <1>2, <2>4 DEF Opened
  <2> QED BY <1>2, <1>3, <1>5, <2>1, <2>5
<1>10. ASSUME NEW p \in Pages, OnDeleteThrows(p) PROVE TablesInv'
  BY <1>2, <1>3, <1>4, <1>5, <1>10 DEF OnDeleteThrows, Handling
<1>11. ASSUME NEW p \in Pages, OnSelectFile(p) PROVE TablesInv'
  BY <1>2, <1>3, <1>4, <1>5, <1>11 DEF OnSelectFile, Handling
<1>12. ASSUME NEW p \in Pages, OnScriptNames(p) PROVE TablesInv'
  <2>1. UNCHANGED <<careful, up, files, streams>>
    BY <1>12 DEF OnScriptNames, Received, ServerUnchanged
  <2>2. PICK list \in Seq(Names) : list = Head(response[p]).data
    BY <1>12, ReceivedFacts DEF OnScriptNames
  <2>3. PICK t \in Table : t = table[p]
    BY <1>2 DEF Shown
  <2>4. PICK u : u = Listed(t, list) /\ u \in Table /\ OnPage(u)
    BY ListedOnPage
  <2>5. table' = [table EXCEPT ![p] = u]
    BY <1>12, <2>2, <2>3, <2>4 DEF OnScriptNames
  <2>6. Shown'
    BY <1>2, <2>4, <2>5 DEF Shown
  <2> QED BY <1>2, <1>4, <1>5, <2>1, <2>6
<1>13. ASSUME NEW p \in Pages, OnScriptContent(p) PROVE TablesInv'
  BY <1>2, <1>3, <1>4, <1>5, <1>13 DEF OnScriptContent, Received, ServerUnchanged
<1>14. ASSUME NEW s \in streams, StreamOpens(s) PROVE TablesInv'
  <2>1. UNCHANGED <<table, up, careful>>
    BY <1>14 DEF StreamOpens, BackgroundUnchanged
  <2>2. Dir' = Dir \union {s.file}
    BY <1>14, OpenedFacts
  <2>3. streams' = (streams \ {s}) \union {[s EXCEPT !.open = TRUE]}
    BY <1>14 DEF StreamOpens
  <2>4. s \in Streams /\ [s EXCEPT !.open = TRUE].file = s.file
    BY DEF CoreOK, Streams
  <2>5. Opened'
    BY <1>2, <2>2, <2>3, <2>4 DEF Opened
  <2> QED BY <1>2, <1>3, <1>5, <2>1, <2>5
<1>15. ASSUME NEW s \in streams, StreamWrites(s) PROVE TablesInv'
  <2>1. UNCHANGED <<table, up, careful>>
    BY <1>15 DEF StreamWrites, BackgroundUnchanged
  <2>2. Dir' = Dir /\ streams' \subseteq streams
    BY <1>15, WrittenFacts DEF StreamWrites
  <2>3. Opened'
    BY <1>2, <2>2 DEF Opened
  <2> QED BY <1>2, <1>3, <1>5, <2>1, <2>3
<1>16. ASSUME NEW r \in reads, ReadFile(r) PROVE TablesInv'
  BY <1>2, <1>3, <1>4, <1>5, <1>16 DEF ReadFile, BackgroundUnchanged
<1>17. ASSUME NEW r \in reads, ReadFileThrows(r) PROVE TablesInv'
  BY <1>2, <1>3, <1>4, <1>5, <1>17 DEF ReadFileThrows, BackgroundUnchanged
<1> QED BY <1>1, <1>6, <1>7, <1>8, <1>9, <1>10, <1>11, <1>12, <1>13, <1>14, <1>15, <1>16, <1>17, Steps

LEMMA TablesInvariant == Spec => [](CoreOK /\ FreshInv /\ TablesInv)
<1>1. Init => CoreOK /\ FreshInv /\ TablesInv
  BY InitCoreOK, InitFresh, InitTables
<1>2. CoreOK /\ FreshInv /\ TablesInv /\ [Next]_vars => (CoreOK /\ FreshInv /\ TablesInv)'
  BY FreshStep, TablesStep
<1> QED BY <1>1, <1>2, PTL DEF Spec

-----------------------------------------------------------------------------
(* The theorems.                                                           *)

\* However saves and deletions of several pages interleave with the streams
\* behind them (main.js: saveFile, deleteFile), a page that was sent a listing
\* since the last deletion lists only scripts that exist.
THEOREM ListingsAreTrue == Spec => []ListingIsTrue
<1>1. FreshInv => ListingIsTrue
  <2> SUFFICES ASSUME FreshInv, Idle, NEW p \in fresh PROVE Range(table[p].scripts) \subseteq Dir
    BY DEF ListingIsTrue
  <2>1. IsTrue(<<>>, table[p].scripts, Dir)
    BY DEF FreshInv, Idle
  <2> QED BY <2>1, TrueWhenAnswered
<1> QED BY <1>1, ScriptsInvariant, PTL

\* unlinkSync and readFile find their file, and do not end the server, while
\* users wait for answers and click on rows of current listings.
THEOREM StaysUp == Spec => []StaysUpWhenCareful
<1>1. CarefulInv => StaysUpWhenCareful
  BY DEF CarefulInv, StaysUpWhenCareful
<1> QED BY <1>1, ScriptsInvariant, PTL

\* For such users a script holds what was written as that script: the answer to
\* selectFile reaches the editor before it can be saved under another name.
THEOREM OwnTexts == Spec => []OwnText
<1>1. CarefulInv => OwnText
  BY DEF CarefulInv, OwnText, Kept
<1> QED BY <1>1, ScriptsInvariant, PTL

\* The type of every variable, in particular the rows of tables that are
\* searched and turned while listings arrive; an open stream has its file.
THEOREM ScriptTypes == Spec => []TypeOK
<1>1. CoreOK /\ FreshInv /\ TablesInv => TypeOK
  BY DEF CoreOK, FreshInv, TablesInv, TypeOK, Streams, Reads
<1> QED BY <1>1, TablesInvariant, PTL

\* Outside of a search the pages of a table (js/index.js: showScripts,
\* nextPage, lastPage) show each script of its listing exactly once, for any
\* number of rows on a page, however listings arrive between the clicks.
THEOREM PagingCompletes == Spec => []PagingIsComplete
<1>1. CoreOK /\ FreshInv /\ TablesInv => PagingIsComplete
  <2> SUFFICES ASSUME TablesInv, NEW p \in Pages, NEW t, t = table[p],
                      t.view = "all", t.scripts # <<>>, t.current # 0
               PROVE  /\ t.current <= t.total
                      /\ t.current < t.total <=> t.current * itemNumber < Len(t.scripts)
                      /\ Len(t.rows) = (IF t.current < t.total THEN itemNumber
                           ELSE Len(t.scripts) - (t.current - 1) * itemNumber)
                      /\ \A i \in DOMAIN t.rows :
                           t.rows[i] = t.scripts[(t.current - 1) * itemNumber + i]
    BY DEF PagingIsComplete
  <2>1. t \in Table /\ OnPage(t)
    BY DEF TablesInv
  <2>2. PICK list \in Seq(Names) : list = t.scripts
    BY <2>1 DEF Table
  <2>3. PICK q : q = t.total
    OBVIOUS
  <2>4. PICK c \in 1..q : c = t.current
    BY <2>1, <2>3 DEF Table, OnPage
  <2>5. list # <<>> /\ q = PageCount(list) /\ t.rows = PageRows(list, c)
    BY <2>1, <2>2, <2>3, <2>4 DEF OnPage
  <2>6. PICK from, to : from = (c - 1) * itemNumber + 1 /\ to = LastRow(list, c, q)
    OBVIOUS
  <2>7. /\ from \in Nat /\ to \in Nat /\ 1 <= from /\ to <= Len(list)
        /\ c < q <=> c * itemNumber < Len(list)
        /\ to - from + 1 = IF c < q THEN itemNumber ELSE Len(list) - (c - 1) * itemNumber
        /\ to - from + 1 \in Nat
    BY <2>5, <2>6, LastRowFacts
  <2>8. t.rows = SubSeq(list, from, to)
    BY <2>5, <2>6, Zenon DEF PageRows
  <2>9. \A i \in from..to : list[i] \in Names
    BY <2>7
  <2>10. /\ t.rows \in Seq(Names) /\ Len(t.rows) = to - from + 1
         /\ \A i \in 1..(to - from + 1) : t.rows[i] = list[from + i - 1]
    BY <2>7, <2>8, <2>9, SubSeqProperties
  <2>11. ASSUME NEW i \in DOMAIN t.rows
         PROVE  t.rows[i] = list[(c - 1) * itemNumber + i]
    <3>1. i \in Nat /\ i \in 1..(to - from + 1) /\ from + i - 1 = (c - 1) * itemNumber + i
      <4>1. (c - 1) * itemNumber = from - 1 /\ from \in Nat
        <5>1. (c - 1) * itemNumber \in Int
          <6>1. c - 1 \in Int /\ itemNumber \in Int
            BY ScriptsAssumption
          <6> QED BY <6>1
        <5> QED BY <2>6, <2>7, <5>1
      <4>2. i \in 1..(to - from + 1)
        BY <2>7, <2>10
      <4> QED BY <2>7, <4>1, <4>2
    <3> QED BY <2>10, <3>1
  <2>12. c <= q
    BY <2>1, <2>3, <2>4 DEF OnPage
  <2> QED BY <2>2, <2>3, <2>4, <2>7, <2>10, <2>11, <2>12
<1> QED BY <1>1, TablesInvariant, PTL

-----------------------------------------------------------------------------
(* The HDFS page: what is under way, when buttons are clicked one at a     *)
(* time, is one deletion or answers that hold only files of HDFS.          *)

\* no row twice
Rows == {data \in Seq(Files) : IsInjective(data)}

Answers  == [kind : {"listing", "delete"}, data : Rows]
Commands == [id : Nat, what : {"lsr", "rm", "copy"}, file : Files \union {NoFile}, lost : BOOLEAN]

HdfsTypes ==
  /\ hdfs \subseteq Files /\ requests \in Nat /\ patient \in BOOLEAN
  /\ commands \subseteq Commands
  /\ \A c \in commands : c.what # "lsr" => c.file \in Files
  /\ stdout \in Seq(Answers)
  /\ view \in [data : Rows, current : Int, total : Int, rows : Seq(Files)]

Deletion == [kind |-> "delete", data |-> <<>>]

Removing ==
  /\ \E id \in Nat : commands = { Shell(id, "rm", deleteFile) }
  /\ stdout = <<>> /\ Range(view.data) \subseteq hdfs

Removed ==
  /\ commands = {} /\ stdout = << Deletion >>
  /\ Range(view.data) \subseteq hdfs \union {deleteFile}

NothingRemoved ==
  /\ Range(view.data) \subseteq hdfs
  /\ \A c \in commands : c.what # "rm"
  /\ \A i \in DOMAIN stdout : stdout[i].kind = "listing" /\ Range(stdout[i].data) \subseteq hdfs

GoneInv == patient => Removing \/ Removed \/ NothingRemoved

HdfsInv == HdfsTypes /\ GoneInv

LEMMA NoRows == <<>> \in Rows /\ Range(<<>>) = {}
<1>1. PICK s : s = <<>>
  OBVIOUS
<1>2. s \in Seq(Files) /\ DOMAIN s = {}
  BY <1>1
<1> QED BY <1>1, <1>2 DEF Rows, IsInjective, Range

\* The first row with that name goes, and no other has it.
LEMMA RemoveRowFacts ==
  ASSUME NEW data \in Rows, NEW file
  PROVE  /\ RemoveRow(data, file) \in Rows
         /\ Range(RemoveRow(data, file)) \subseteq Range(data) \ {file}
<1>1. data \in Seq(Files) /\ IsInjective(data)
  BY DEF Rows
<1>2. CASE file \notin Range(data)
  BY <1>2 DEF RemoveRow
<1>3. CASE file \in Range(data)
  <2>1. PICK n \in Nat : n = Len(data)
    BY <1>1
  <2>2. DOMAIN data = 1..n
    BY <1>1, <2>1
  <2>3. PICK i \in 1..n : data[i] = file
    BY <1>3, <2>2 DEF Range
  <2>4. {k \in 1..Len(data) : data[k] = file} = {i}
    BY <1>1, <2>1, <2>2, <2>3 DEF IsInjective
  <2>5. SelectInSeq(data, LAMBDA v : v = file) = i
    <3>1. Min({i}) = i
      BY <2>3 DEF Min
    <3> QED BY <2>4, <3>1 DEF SelectInSeq
  <2>6. PICK a : a = SubSeq(data, 1, i - 1)
    OBVIOUS
  <2>7. PICK b : b = SubSeq(data, i + 1, n)
    OBVIOUS
  <2>8. RemoveRow(data, file) = a \o b
    BY <1>3, <2>1, <2>3, <2>5, <2>6, <2>7 DEF RemoveRow, RemoveFirst, RemoveAt
  <2>9. a \in Seq(Files) /\ Len(a) = i - 1 /\ \A k \in 1..(i - 1) : a[k] = data[k]
    BY <1>1, <2>1, <2>3, <2>6
  <2>10. b \in Seq(Files) /\ Len(b) = n - i /\ \A k \in 1..(n - i) : b[k] = data[i + k]
    BY <1>1, <2>1, <2>3, <2>7
  <2>11. PICK r : r = a \o b
    OBVIOUS
  <2>12. /\ r \in Seq(Files) /\ Len(r) = n - 1
         /\ \A k \in 1..(n - 1) : r[k] = IF k < i THEN data[k] ELSE data[k + 1]
    <3>1. r \in Seq(Files) /\ Len(r) = (i - 1) + (n - i)
      <4>1. r \in Seq(Files) /\ Len(r) = Len(a) + Len(b)
        BY <2>9, <2>10, <2>11, ConcatProperties
      <4> QED BY <2>9, <2>10, <4>1
    <3>2. ASSUME NEW k \in 1..(n - 1) PROVE r[k] = IF k < i THEN data[k] ELSE data[k + 1]
      <4>1. CASE k < i
        <5>1. k \in 1..(i - 1)
          BY <4>1
        <5>2. r[k] = a[k]
          BY <2>9, <2>10, <2>11, <5>1
        <5> QED BY <2>9, <4>1, <5>1, <5>2
      <4>2. CASE ~(k < i)
        <5>1. k - (i - 1) \in 1..(n - i) /\ i + (k - (i - 1)) = k + 1
          BY <2>3, <4>2
        <5>2. r[k] = b[k - (i - 1)]
          BY <2>9, <2>10, <2>11, <4>2, <5>1
        <5> QED BY <2>10, <4>2, <5>1, <5>2
      <4> QED BY <4>1, <4>2
    <3> QED BY <2>3, <3>1, <3>2
  <2>13. DOMAIN r = 1..(n - 1)
    BY <2>12
  <2>14. ASSUME NEW k \in 1..(n - 1)
         PROVE  /\ (IF k < i THEN k ELSE k + 1) \in (1..n) \ {i}
                /\ r[k] = data[IF k < i THEN k ELSE k + 1]
    BY <2>3, <2>12
  <2>15. IsInjective(r)
    <3> SUFFICES ASSUME NEW k \in 1..(n - 1), NEW m \in 1..(n - 1), r[k] = r[m]
                 PROVE  k = m
      BY <2>13 DEF IsInjective
    <3>1. (IF k < i THEN k ELSE k + 1) = (IF m < i THEN m ELSE m + 1)
      BY <1>1, <2>2, <2>14 DEF IsInjective
    <3> QED BY <2>3, <3>1
  <2>16. Range(r) \subseteq Range(data) \ {file}
    <3> SUFFICES ASSUME NEW k \in 1..(n - 1) PROVE r[k] \in Range(data) /\ r[k] # file
      BY <2>13 DEF Range
    <3>1. PICK m \in (1..n) \ {i} : r[k] = data[m]
      BY <2>14
    <3>2. data[m] # data[i]
      BY <1>1, <2>2, <2>3, <3>1 DEF IsInjective
    <3> QED BY <2>2, <2>3, <3>1, <3>2 DEF Range
  <2> QED BY <2>8, <2>11, <2>12, <2>15, <2>16 DEF Rows
<1> QED BY <1>2, <1>3

LEMMA ShownView ==
  ASSUME NEW v \in [data : Rows, current : Int, total : Int, rows : Seq(Files)]
  PROVE  /\ showHDFS(v) \in [data : Rows, current : Int, total : Int, rows : Seq(Files)]
         /\ showHDFS(v).data = v.data /\ showHDFS(v).current = v.current
<1>1. PICK data : data = v.data /\ data \in Seq(Files)
  BY DEF Rows
<1>2. PICK from, to : from = (v.current - 1) * numberPerPage + 1 /\ to = LastShown(v.data, v.current)
  OBVIOUS
<1>3. PICK total : total = totalPageNumber(data)
  OBVIOUS
<1>4. total \in Int
  BY <1>1, <1>3, FilesAssumption DEF totalPageNumber
<1>5. PICK rows : rows = Only(SubSeq(data, from, to), Files \ ZeroSize)
  OBVIOUS
<1>6. showHDFS(v) = IF from..to \subseteq DOMAIN data
                      THEN [v EXCEPT !.total = total, !.rows = rows]
                      ELSE [v EXCEPT !.total = total]
  BY <1>1, <1>2, <1>3, <1>5, Zenon DEF showHDFS
<1>7. from \in Int /\ to \in Int
  <2>1. v.current \in Int /\ numberPerPage \in Int
    BY FilesAssumption
  <2>2. (v.current - 1) * numberPerPage \in Int /\ v.current * numberPerPage \in Int
    BY <2>1
  <2> QED BY <1>1, <1>2, <2>1, <2>2 DEF LastShown
<1>8. ASSUME from..to \subseteq DOMAIN data PROVE rows \in Seq(Files)
  <2>1. \A k \in from..to : data[k] \in Files
    BY <1>1, <1>8
  <2>2. SubSeq(data, from, to) \in Seq(Files)
    BY <1>7, <2>1, SubSeqProperties
  <2> QED BY <1>5, <2>2, OnlyElements
<1> QED BY <1>4, <1>6, <1>8

LEMMA LostTyped ==
  ASSUME NEW c \in Commands
  PROVE  [c EXCEPT !.lost = TRUE] \in Commands /\ [c EXCEPT !.lost = TRUE].what = c.what
         /\ [c EXCEPT !.lost = TRUE].file = c.file
BY DEF Commands

LEMMA AnswersAdded ==
  ASSUME NEW s \in Seq(Answers), NEW e \in Answers
  PROVE  /\ s \o <<e>> \in Seq(Answers)
         /\ \A i \in DOMAIN (s \o <<e>>) : (s \o <<e>>)[i] = e \/ \E j \in DOMAIN s : (s \o <<e>>)[i] = s[j]
<1>1. PICK t : t = s \o <<e>>
  OBVIOUS
<1>2. PICK one : one = <<e>>
  OBVIOUS
<1> one \in Seq(Answers) /\ Len(one) = 1 /\ one[1] = e
  BY <1>2
<1>3. t \in Seq(Answers) /\ Len(t) = Len(s) + 1
      /\ \A i \in 1..(Len(s) + 1) : t[i] = IF i <= Len(s) THEN s[i] ELSE one[i - Len(s)]
  BY <1>1, <1>2, ConcatProperties
<1>4. ASSUME NEW i \in DOMAIN t PROVE t[i] = e \/ \E j \in DOMAIN s : t[i] = s[j]
  <2>1. i \in 1..(Len(s) + 1) /\ Len(s) \in Nat
    BY <1>3
  <2>2. CASE i <= Len(s)
    <3>1. i \in DOMAIN s /\ t[i] = s[i]
      BY <1>3, <2>1, <2>2
    <3> QED BY <3>1
  <2>3. CASE ~(i <= Len(s))
    <3>1. i - Len(s) = 1
      BY <2>1, <2>3
    <3> QED BY <1>2, <1>3, <2>1, <2>3, <3>1
  <2> QED BY <2>2, <2>3
<1> QED BY <1>1, <1>3, <1>4

\* When a button is clicked patiently, nothing is being removed.
LEMMA PatientClick ==
  ASSUME HdfsInv, patient, HdfsIdle
  PROVE  NothingRemoved /\ commands = {} /\ stdout = <<>>
<1>1. commands = {} /\ stdout = <<>>
  BY DEF HdfsIdle
<1>2. ~Removing
  BY <1>1 DEF Removing
<1>3. ~Removed
  <2>1. <<>> # << Deletion >>
    OBVIOUS
  <2> QED BY <1>1, <2>1 DEF Removed
<1> QED BY <1>1, <1>2, <1>3 DEF HdfsInv, GoneInv

LEMMA InitHdfs == HdfsInit => HdfsInv
<1> SUFFICES ASSUME HdfsInit PROVE HdfsInv
  OBVIOUS
<1>1. Shell(0, "lsr", NoFile) \in Commands /\ Shell(0, "lsr", NoFile).what = "lsr"
  BY DEF Shell, Commands
<1>2. PICK none : none = <<>>
  OBVIOUS
<1>3. none \in Rows /\ none \in Seq(Files) /\ none \in Seq(Answers) /\ Range(none) = {}
      /\ DOMAIN none = {}
  BY <1>2, NoRows
<1>4. Loaded = [data |-> none, current |-> 1, total |-> 0, rows |-> none]
  BY <1>2 DEF Loaded
<1>5. /\ Loaded \in [data : Rows, current : Int, total : Int, rows : Seq(Files)]
      /\ Loaded.data = none
  BY <1>3, <1>4
<1>6. /\ hdfs \subseteq Files /\ requests = 0 /\ patient = TRUE
      /\ commands = { Shell(0, "lsr", NoFile) } /\ stdout = none /\ view = Loaded
  BY <1>2 DEF HdfsInit
<1>7. HdfsTypes
  BY <1>1, <1>3, <1>5, <1>6 DEF HdfsTypes
<1>8. NothingRemoved
  BY <1>1, <1>3, <1>5, <1>6 DEF NothingRemoved
<1> QED BY <1>7, <1>8 DEF HdfsInv, GoneInv

LEMMA DeleteGone ==
  ASSUME HdfsInv, NEW file, deleteHDFSFile(file)
  PROVE  HdfsInv'
<1>1. file \in Files
  BY DEF HdfsInv, HdfsTypes, deleteHDFSFile, Range
<1>2. requests' \in Nat
  BY DEF HdfsInv, HdfsTypes, deleteHDFSFile, Request
<1>3. /\ commands' = commands \union { Shell(requests', "rm", file) } /\ deleteFile' = file
      /\ patient' = (patient /\ HdfsIdle) /\ UNCHANGED <<hdfs, stdout, view>>
  BY DEF deleteHDFSFile
<1>4. Shell(requests', "rm", file) \in Commands /\ Shell(requests', "rm", file).file = file
  <2>1. PICK id \in Nat : id = requests'
    BY <1>2
  <2>2. Shell(id, "rm", file) \in Commands /\ Shell(id, "rm", file).file = file
    BY <1>1 DEF Shell, Commands
  <2> QED BY <2>1, <2>2
<1>5. HdfsTypes'
  BY <1>1, <1>2, <1>3, <1>4 DEF HdfsInv, HdfsTypes
<1>6. ASSUME patient' PROVE Removing'
  <2>1. NothingRemoved /\ commands = {} /\ stdout = <<>>
    BY <1>3, <1>6, PatientClick
  <2>2. commands' = { Shell(requests', "rm", deleteFile') }
    BY <1>3, <2>1
  <2> QED BY <1>2, <1>3, <2>1, <2>2 DEF Removing, NothingRemoved
<1> QED BY <1>5, <1>6 DEF HdfsInv, GoneInv

LEMMA UploadGone ==
  ASSUME HdfsInv, NEW file \in Files, Upload(file)
  PROVE  HdfsInv'
<1>1. requests' \in Nat
  BY DEF HdfsInv, HdfsTypes, Upload, Request
<1>2. PICK taken \in { {}, { Shell(requests', "copy", file) } } :
        commands' = {[c EXCEPT !.lost = TRUE] : c \in commands} \union taken
                      \union { Shell(requests', "lsr", NoFile) }
  BY DEF Upload
<1>3. /\ patient' = (patient /\ HdfsIdle) /\ stdout' = <<>> /\ view' = Loaded /\ hdfs' = hdfs
  BY DEF Upload
<1>4. /\ Shell(requests', "copy", file) \in Commands /\ Shell(requests', "copy", file).what = "copy"
      /\ Shell(requests', "copy", file).file = file
      /\ Shell(requests', "lsr", NoFile) \in Commands /\ Shell(requests', "lsr", NoFile).what = "lsr"
  <2>1. PICK id \in Nat : id = requests'
    BY <1>1
  <2>2. /\ Shell(id, "copy", file) \in Commands /\ Shell(id, "copy", file).what = "copy"
        /\ Shell(id, "copy", file).file = file
        /\ Shell(id, "lsr", NoFile) \in Commands /\ Shell(id, "lsr", NoFile).what = "lsr"
    BY DEF Shell, Commands
  <2> QED BY <2>1, <2>2
<1>5. /\ commands' \subseteq Commands /\ \A c \in commands' : c.what # "lsr" => c.file \in Files
      /\ commands = {} => \A c \in commands' : c.what # "rm"
  <2>1. \A c \in commands : c \in Commands /\ (c.what # "lsr" => c.file \in Files)
    BY DEF HdfsInv, HdfsTypes
  <2>2. ASSUME NEW d \in {[c EXCEPT !.lost = TRUE] : c \in commands}
        PROVE  d \in Commands /\ (d.what # "lsr" => d.file \in Files) /\ commands # {}
    <3>1. PICK c \in commands : d = [c EXCEPT !.lost = TRUE]
      OBVIOUS
    <3> QED BY <2>1, <3>1, LostTyped
  <2>3. ASSUME NEW d \in taken \union { Shell(requests', "lsr", NoFile) }
        PROVE  d \in Commands /\ (d.what # "lsr" => d.file \in Files) /\ d.what # "rm"
    BY <1>4
  <2> QED BY <1>2, <2>2, <2>3
<1>6. PICK none : none = <<>>
  OBVIOUS
<1>7. none \in Rows /\ none \in Seq(Files) /\ none \in Seq(Answers) /\ Range(none) = {}
      /\ DOMAIN none = {}
  BY <1>6, NoRows
<1>8. Loaded = [data |-> none, current |-> 1, total |-> 0, rows |-> none]
  BY <1>6 DEF Loaded
<1>9. /\ Loaded \in [data : Rows, current : Int, total : Int, rows : Seq(Files)]
      /\ Loaded.data = none
  BY <1>7, <1>8
<1>10. stdout' = none
  BY <1>3, <1>6
<1>11. patient' \in BOOLEAN /\ hdfs' \subseteq Files
  BY <1>3 DEF HdfsInv, HdfsTypes
<1>12. HdfsTypes'
  BY <1>1, <1>3, <1>5, <1>7, <1>9, <1>10, <1>11 DEF HdfsTypes
<1>13. ASSUME patient' PROVE NothingRemoved'
  <2>1. commands = {}
    BY <1>3, <1>13, PatientClick
  <2> QED BY <1>3, <1>5, <1>7, <1>9, <1>10, <2>1 DEF NothingRemoved
<1> QED BY <1>12, <1>13 DEF HdfsInv, GoneInv

LEMMA TurnGone ==
  ASSUME HdfsInv, NEW current \in Int, Turn(current)
  PROVE  HdfsInv'
<1>1. PICK v : v = [view EXCEPT !.current = current]
  OBVIOUS
<1>2. /\ v \in [data : Rows, current : Int, total : Int, rows : Seq(Files)] /\ v.data = view.data
  BY <1>1 DEF HdfsInv, HdfsTypes
<1>3. view' = showHDFS(v) /\ requests' = requests + 1
      /\ UNCHANGED <<hdfs, commands, stdout, deleteFile, patient>>
  BY <1>1 DEF Turn, Request
<1>4. /\ view' \in [data : Rows, current : Int, total : Int, rows : Seq(Files)]
      /\ view'.data = view.data
  BY <1>2, <1>3, ShownView
<1>5. HdfsTypes'
  BY <1>3, <1>4 DEF HdfsInv, HdfsTypes
<1>6. GoneInv'
  BY <1>3, <1>4 DEF HdfsInv, GoneInv, Removing, Removed, NothingRemoved
<1> QED BY <1>5, <1>6 DEF HdfsInv

LEMMA StoredGone ==
  ASSUME HdfsInv, NEW file \in Files, StoredByOthers(file)
  PROVE  HdfsInv'
<1>1. /\ hdfs' = hdfs \union {file} /\ requests' = requests + 1
      /\ UNCHANGED <<commands, stdout, view, deleteFile, patient>>
  BY DEF StoredByOthers, Request
<1>2. HdfsTypes'
  BY <1>1 DEF HdfsInv, HdfsTypes
<1>3. GoneInv'
  BY <1>1 DEF HdfsInv, GoneInv, Removing, Removed, NothingRemoved
<1> QED BY <1>2, <1>3 DEF HdfsInv

\* A shell that ends when something is not being removed.
LEMMA EndsTyped ==
  ASSUME HdfsInv, NEW c \in commands, NEW answer, Ends(c, answer), hdfs' \subseteq Files,
         answer = <<>> \/ \E e \in Answers : answer = <<e>>
  PROVE  HdfsTypes'
<1>1. /\ commands' = commands \ {c} /\ stdout' = IF c.lost THEN stdout ELSE stdout \o answer
      /\ UNCHANGED <<view, deleteFile, requests, patient>>
  BY DEF Ends
<1>2. stdout \in Seq(Answers)
  BY DEF HdfsInv, HdfsTypes
<1>3. stdout' \in Seq(Answers)
  <2>1. CASE answer = <<>>
    <3>1. stdout \o <<>> = stdout
      BY <1>2, ConcatEmptySeq
    <3> QED BY <1>1, <1>2, <2>1, <3>1
  <2>2. CASE \E e \in Answers : answer = <<e>>
    BY <1>1, <1>2, <2>2, AnswersAdded
  <2> QED BY <2>1, <2>2
<1> QED BY <1>1, <1>3 DEF HdfsInv, HdfsTypes

LEMMA LsrGone ==
  ASSUME HdfsInv, NEW c \in commands, Lsr(c)
  PROVE  HdfsInv'
<1>1. PICK data : data = Printed[hdfs]
  OBVIOUS
<1>2. data \in Rows /\ Range(data) = hdfs
  BY <1>1, FilesAssumption DEF HdfsInv, HdfsTypes, Rows
<1>3. PICK e : e = [kind |-> "listing", data |-> data]
  OBVIOUS
<1>4. e \in Answers /\ e.kind = "listing" /\ e.data = data
  BY <1>2, <1>3 DEF Answers
<1>5. Ends(c, <<e>>) /\ hdfs' = hdfs /\ c.what = "lsr"
  BY <1>1, <1>3 DEF Lsr
<1>6. HdfsTypes'
  <2>1. hdfs' \subseteq Files
    BY <1>5 DEF HdfsInv, HdfsTypes
  <2> QED BY <1>4, <1>5, <2>1, EndsTyped
<1>7. /\ commands' = commands \ {c} /\ stdout' = IF c.lost THEN stdout ELSE stdout \o <<e>>
      /\ UNCHANGED <<view, deleteFile, requests, patient>>
  BY <1>5 DEF Ends
<1>8. ASSUME patient PROVE NothingRemoved'
  <2>1. ~Removed
    BY DEF Removed
  <2>2. ~Removing
    <3> SUFFICES ASSUME NEW id \in Nat, commands = { Shell(id, "rm", deleteFile) } PROVE FALSE
      BY DEF Removing
    <3> QED BY <1>5 DEF Shell
  <2>3. NothingRemoved
    BY <1>8, <2>1, <2>2 DEF HdfsInv, GoneInv
  <2>4. \A i \in DOMAIN stdout' : stdout'[i] = e \/ \E j \in DOMAIN stdout : stdout'[i] = stdout[j]
    BY <1>4, <1>7, AnswersAdded DEF HdfsInv, HdfsTypes
  <2>5. \A i \in DOMAIN stdout' : stdout'[i].kind = "listing" /\ Range(stdout'[i].data) \subseteq hdfs
    BY <1>2, <1>4, <2>3, <2>4 DEF NothingRemoved
  <2> QED BY <1>5, <1>7, <2>3, <2>5 DEF NothingRemoved
<1> QED BY <1>6, <1>7, <1>8 DEF HdfsInv, GoneInv

LEMMA CopyGone ==
  ASSUME HdfsInv, NEW c \in commands, CopyFromLocal(c)
  PROVE  HdfsInv'
<1>1. Ends(c, <<>>) /\ hdfs' = hdfs \union {c.file} /\ c.what = "copy"
  BY DEF CopyFromLocal
<1>2. HdfsTypes'
  <2>1. hdfs' \subseteq Files
    BY <1>1 DEF HdfsInv, HdfsTypes
  <2> QED BY <1>1, <2>1, EndsTyped
<1>3. /\ commands' = commands \ {c} /\ UNCHANGED <<view, deleteFile, requests, patient>>
      /\ stdout' = stdout
  <2>1. stdout \o <<>> = stdout
    BY ConcatEmptySeq DEF HdfsInv, HdfsTypes
  <2> QED BY <1>1, <2>1 DEF Ends
<1>4. ASSUME patient PROVE NothingRemoved'
  <2>1. ~Removed
    BY DEF Removed
  <2>2. ~Removing
    <3> SUFFICES ASSUME NEW id \in Nat, commands = { Shell(id, "rm", deleteFile) } PROVE FALSE
      BY DEF Removing
    <3> QED BY <1>1 DEF Shell
  <2> QED BY <1>1, <1>3, <1>4, <2>1, <2>2 DEF HdfsInv, GoneInv, NothingRemoved
<1> QED BY <1>2, <1>3, <1>4 DEF HdfsInv, GoneInv

LEMMA RmGone ==
  ASSUME HdfsInv, NEW c \in commands, Rm(c)
  PROVE  HdfsInv'
<1>1. Ends(c, << Deletion >>) /\ hdfs' = hdfs \ {c.file} /\ c.what = "rm"
  BY DEF Rm, Deletion
<1>2. Deletion \in Answers
  BY NoRows DEF Deletion, Answers
<1>3. HdfsTypes'
  <2>1. hdfs' \subseteq Files
    BY <1>1 DEF HdfsInv, HdfsTypes
  <2> QED BY <1>1, <1>2, <2>1, EndsTyped
<1>4. /\ commands' = commands \ {c} /\ UNCHANGED <<view, deleteFile, requests, patient>>
      /\ stdout' = IF c.lost THEN stdout ELSE stdout \o << Deletion >>
  BY <1>1 DEF Ends
<1>5. ASSUME patient PROVE Removed'
  <2>1. ~Removed
    BY DEF Removed
  <2>2. Removing
    BY <1>1, <1>5, <2>1 DEF HdfsInv, GoneInv, NothingRemoved
  <2>3. PICK id \in Nat : commands = { Shell(id, "rm", deleteFile) }
    BY <2>2 DEF Removing
  <2>4. c.file = deleteFile /\ c.lost = FALSE /\ commands' = {}
    <3>1. c = Shell(id, "rm", deleteFile)
      BY <2>3
    <3>2. c.file = deleteFile /\ c.lost = FALSE
      BY <3>1 DEF Shell
    <3> QED BY <1>4, <2>3, <3>1, <3>2
  <2>5. stdout' = << Deletion >>
    <3>1. << Deletion >> \in Seq(Answers)
      BY <1>2
    <3>2. <<>> \o << Deletion >> = << Deletion >>
      BY <3>1, ConcatEmptySeq
    <3> QED BY <1>4, <2>2, <2>4, <3>2 DEF Removing
  <2>6. Range(view.data) \subseteq hdfs
    BY <2>2 DEF Removing
  <2> QED BY <1>1, <1>4, <2>4, <2>5, <2>6 DEF Removed
<1> QED BY <1>3, <1>4, <1>5 DEF HdfsInv, GoneInv

LEMMA OnStdoutGone ==
  ASSUME HdfsInv, OnStdout
  PROVE  HdfsInv'
<1>1. PICK e : e = Head(stdout)
  OBVIOUS
<1>2. PICK data : data = IF e.kind = "delete" THEN RemoveRow(view.data, deleteFile) ELSE e.data
  OBVIOUS
<1>3. PICK v : v = [view EXCEPT !.data = data]
  OBVIOUS
<1>4. /\ stdout # <<>> /\ stdout' = Tail(stdout) /\ view' = showHDFS(v)
      /\ UNCHANGED <<hdfs, commands, deleteFile, requests, patient>>
  BY <1>1, <1>2, <1>3 DEF OnStdout
<1>5. stdout \in Seq(Answers)
  BY DEF HdfsInv, HdfsTypes
<1>6. /\ stdout' \in Seq(Answers) /\ e \in Answers /\ e = stdout[1] /\ 1 \in DOMAIN stdout
      /\ \A i \in DOMAIN stdout' : i + 1 \in DOMAIN stdout /\ stdout'[i] = stdout[i + 1]
  BY <1>1, <1>4, <1>5
<1>7. view.data \in Rows /\ e.data \in Rows
  BY <1>6 DEF HdfsInv, HdfsTypes, Answers
<1>8. data \in Rows
  BY <1>2, <1>7, RemoveRowFacts
<1>9. v \in [data : Rows, current : Int, total : Int, rows : Seq(Files)] /\ v.data = data
  BY <1>3, <1>8 DEF HdfsInv, HdfsTypes
<1>10. view' \in [data : Rows, current : Int, total : Int, rows : Seq(Files)] /\ view'.data = data
  BY <1>4, <1>9, ShownView
<1>11. HdfsTypes'
  BY <1>4, <1>6, <1>10 DEF HdfsInv, HdfsTypes
<1>12. ASSUME patient PROVE NothingRemoved'
  <2>1. ~Removing
    BY <1>4 DEF Removing
  <2>2. CASE Removed
    <3>1. stdout = << Deletion >> /\ commands = {} /\ Range(view.data) \subseteq hdfs \union {deleteFile}
      BY <2>2 DEF Removed
    <3>2. e.kind = "delete"
      BY <1>1, <3>1 DEF Deletion
    <3>3. Range(data) \subseteq Range(view.data) \ {deleteFile}
      BY <1>2, <1>7, <3>2, RemoveRowFacts
    <3>4. DOMAIN stdout' = {}
      <4>1. Len(stdout) = 1
        BY <3>1
      <4> QED BY <1>4, <1>5, <4>1
    <3> QED BY <1>4, <1>10, <3>1, <3>3, <3>4 DEF NothingRemoved
  <2>3. CASE NothingRemoved
    <3>1. e.kind = "listing" /\ Range(e.data) \subseteq hdfs
      BY <1>6, <2>3 DEF NothingRemoved
    <3>2. data = e.data
      BY <1>2, <3>1
    <3> QED BY <1>4, <1>6, <1>10, <2>3, <3>1, <3>2 DEF NothingRemoved
  <2> QED BY <1>12, <2>1, <2>2, <2>3 DEF HdfsInv, GoneInv
<1> QED BY <1>4, <1>11, <1>12 DEF HdfsInv, GoneInv

LEMMA NextGone == HdfsInv /\ [HdfsNext]_hdfsVars => HdfsInv'
<1> SUFFICES ASSUME HdfsInv, [HdfsNext]_hdfsVars PROVE HdfsInv'
  OBVIOUS
<1>1. CASE UNCHANGED hdfsVars
  <2>1. UNCHANGED <<hdfs, commands, stdout, view, deleteFile, requests, patient>>
    BY <1>1 DEF hdfsVars
  <2>2. HdfsTypes'
    BY <2>1 DEF HdfsInv, HdfsTypes
  <2>3. GoneInv'
    BY <2>1 DEF HdfsInv, GoneInv, Removing, Removed, NothingRemoved
  <2> QED BY <2>2, <2>3 DEF HdfsInv
<1>2. CASE \E f \in Files : deleteHDFSFile(f) \/ Upload(f) \/ StoredByOthers(f)
  BY <1>2, DeleteGone, UploadGone, StoredGone
<1>3. CASE hdfsLastPage \/ hdfsNextPage
  <2>1. view.current - 1 \in Int /\ view.current + 1 \in Int
    BY DEF HdfsInv, HdfsTypes
  <2> QED BY <1>3, <2>1, TurnGone DEF hdfsLastPage, hdfsNextPage
<1>4. CASE OnStdout
  BY <1>4, OnStdoutGone
<1>5. CASE \E c \in commands : Lsr(c) \/ Rm(c) \/ CopyFromLocal(c)
  BY <1>5, LsrGone, RmGone, CopyGone
<1> QED BY <1>1, <1>2, <1>3, <1>4, <1>5 DEF HdfsNext

LEMMA HdfsInvariant == HdfsSpec => []HdfsInv
BY InitHdfs, NextGone, PTL DEF HdfsSpec

\* For any files, whatever others store meanwhile: a file that a patient user
\* deleted is gone from the listing the page works on (main.js 'delete' and
\* hdfs.html).
THEOREM DeletedFileIsGone == HdfsSpec => []DeletedIsGone
<1>1. HdfsInv => DeletedIsGone
  <2> SUFFICES ASSUME HdfsInv, patient, HdfsIdle PROVE Range(view.data) \subseteq hdfs
    BY DEF DeletedIsGone
  <2> QED BY PatientClick DEF NothingRemoved
<1> QED BY <1>1, HdfsInvariant, PTL

-----------------------------------------------------------------------------
(* The HDFS page: which rows are on a page of the table.                   *)

\* The page of row i, of N rows each, and when it is the last row of its page.
LEMMA PageOfRow ==
  ASSUME NEW N \in Nat \ {0}, NEW i \in Nat \ {0}, NEW c \in Nat
  PROVE  /\ c = (i + N - 1) \div N <=> (c - 1) * N < i /\ i <= c * N
         /\ (c - 1) * N < i /\ i <= c * N => (i % N = 0 <=> i = c * N)
<1>1. PICK p : p = (i + N - 1) \div N
  OBVIOUS
<1>2. p \in Nat /\ i <= p * N /\ (p - 1) * N < i /\ (i % N = 0 => i = p * N)
  <2>1. i \in Nat /\ i > 0
    OBVIOUS
  <2>2. /\ p \in Nat /\ i <= p * N
        /\ i > 0 => p >= 1 /\ (p - 1) * N < i
        /\ i % N = 0 => i = p * N
    BY <1>1, <2>1, PagesOfRows
  <2> QED BY <2>1, <2>2
<1>3. ASSUME (c - 1) * N < i, i <= c * N PROVE c = p
  <2>1. ASSUME NEW a \in Nat, NEW b \in Nat, a < b, (b - 1) * N < i, i <= a * N PROVE FALSE
    <3>1. PICK d \in Nat : b - 1 = a + d
      BY <2>1
    <3>2. (a + d) * N = a * N + d * N /\ d * N \in Nat /\ a * N \in Nat
      OBVIOUS
    <3> QED BY <2>1, <3>1, <3>2
  <2> QED BY <1>2, <1>3, <2>1
<1>4. ASSUME i = c * N PROVE i % N = 0
  <2>0. PICK d, r : d = i \div N /\ r = i % N
    OBVIOUS
  <2>1. d \in Nat /\ r \in Nat /\ i = N * d + r /\ r < N /\ r = i % N
    <3>1. i \div N \in Nat /\ i % N \in Nat /\ i = N * (i \div N) + (i % N) /\ i % N < N
      OBVIOUS
    <3> QED BY <2>0, <3>1
  <2> SUFFICES ASSUME r > 0 PROVE FALSE
    BY <2>1
  <2>2. c * N = d * N + r
    BY <1>4, <2>1
  <2>3. ASSUME d < c PROVE FALSE
    <3>1. PICK m \in Nat : c = d + 1 + m
      <4>1. c - (d + 1) \in Nat /\ c = d + 1 + (c - (d + 1))
        BY <2>3, <2>1
      <4> QED BY <4>1
    <3>2. (d + 1 + m) * N = d * N + N + m * N /\ m * N \in Nat /\ d * N \in Nat
      BY <2>1
    <3> QED BY <2>1, <2>2, <3>1, <3>2
  <2>4. ASSUME c <= d PROVE FALSE
    <3>1. PICK m \in Nat : d = c + m
      <4>1. d - c \in Nat /\ d = c + (d - c)
        BY <2>4, <2>1
      <4> QED BY <4>1
    <3>2. (c + m) * N = c * N + m * N /\ m * N \in Nat /\ c * N \in Nat
      BY <2>1
    <3> QED BY <2>1, <2>2, <3>1, <3>2
  <2> QED BY <2>1, <2>3, <2>4
<1> QED BY <1>1, <1>2, <1>3, <1>4

\* The rows between the first and the last that a page shows.
LEMMA RowsOnPage ==
  ASSUME NEW data \in Seq(Files), NEW c \in 1..totalPageNumber(data),
         NEW from, from = (c - 1) * numberPerPage + 1, NEW to, to = LastShown(data, c)
  PROVE  /\ from \in Nat /\ 1 <= from /\ to \in Int /\ to <= Len(data)
         /\ \A i \in 1..Len(data) :
              i \in from..to <=> i % numberPerPage # 0
                                   /\ c = (i + numberPerPage - 1) \div numberPerPage
<1>1. PICK N \in Nat \ {0} : N = numberPerPage
  BY FilesAssumption
<1>2. PICK L \in Nat : L = Len(data)
  OBVIOUS
<1>3. PICK q \in Nat : /\ q = totalPageNumber(data) /\ L <= q * N
                       /\ L > 0 => q >= 1 /\ (q - 1) * N < L
                       /\ L % N = 0 => L = q * N
  <2>1. totalPageNumber(data) = (L + N - 1) \div N
    BY <1>1, <1>2 DEF totalPageNumber
  <2> QED BY <2>1, PagesOfRows
<1>4. c \in Nat /\ 1 <= c /\ c <= q
  BY <1>3
<1>5. PICK m \in Nat : m = (c - 1) * N /\ c * N = m + N
  <2>1. PICK b \in Nat : c = b + 1
    BY <1>4
  <2>2. (b + 1) * N = b * N + N /\ b * N \in Nat
    OBVIOUS
  <2> QED BY <2>1, <2>2
<1>6. from = m + 1 /\ to = IF c = q /\ L % N # 0 THEN L ELSE m + N - 1
  BY <1>1, <1>2, <1>3, <1>5 DEF LastShown
<1>7. c < q => m + N <= (q - 1) * N
  <2> SUFFICES ASSUME c < q PROVE m + N <= (q - 1) * N
    OBVIOUS
  <2>1. PICK d \in Nat : q - 1 = c + d
    <3>1. (q - 1) - c \in Nat /\ q - 1 = c + ((q - 1) - c)
      BY <1>4
    <3> QED BY <3>1
  <2>2. (c + d) * N = c * N + d * N /\ d * N \in Nat
    BY <1>4
  <2> QED BY <1>5, <2>1, <2>2
<1>8. L > 0
  <2>1. ASSUME L = 0 PROVE FALSE
    <3>1. L % N = 0
      BY <2>1
    <3>2. q * N = 0
      BY <1>3, <2>1, <3>1
    <3>3. q * N >= N
      <4>1. PICK d \in Nat : q = d + 1
        BY <1>3, <1>4
      <4>2. (d + 1) * N = d * N + N /\ d * N \in Nat
        OBVIOUS
      <4> QED BY <4>1, <4>2
    <3> QED BY <3>2, <3>3
  <2> QED BY <2>1
<1>9. m < L /\ (c < q => m + N < L)
  <2>1. (q - 1) * N < L /\ (q - 1) * N \in Int
    BY <1>3, <1>8
  <2>2. c < q => m + N < L
    BY <1>7, <2>1, <1>3
  <2>3. c = q => m < L
    BY <1>5, <2>1
  <2> QED BY <1>3, <1>4, <2>2, <2>3
<1>10. c = q => L <= m + N /\ (L % N = 0 <=> L = m + N)
  <2> SUFFICES ASSUME c = q PROVE L <= m + N /\ (L % N = 0 <=> L = m + N)
    OBVIOUS
  <2>1. L <= m + N /\ (c - 1) * N < L /\ L <= c * N
    BY <1>3, <1>5, <1>9
  <2>2. L % N = 0 <=> L = c * N
    <3>1. L \in Nat \ {0}
      BY <1>8
    <3>2. (c - 1) * N < L /\ L <= c * N => (L % N = 0 <=> L = c * N)
      BY <1>4, <3>1, PageOfRow
    <3> QED BY <2>1, <3>2
  <2> QED BY <1>5, <2>1, <2>2
<1>11. to <= L
  BY <1>4, <1>6, <1>9, <1>10
<1>12. ASSUME NEW i \in 1..L
       PROVE  i \in from..to <=> i % N # 0 /\ c = (i + N - 1) \div N
  <2>1. PICK p : p = ((i + N - 1) \div N)
    OBVIOUS
  <2>2. /\ c = p <=> m < i /\ i <= m + N
        /\ m < i /\ i <= m + N => (i % N = 0 <=> i = m + N)
    <3>1. i \in Nat \ {0}
      OBVIOUS
    <3>2. /\ c = (i + N - 1) \div N <=> (c - 1) * N < i /\ i <= c * N
          /\ (c - 1) * N < i /\ i <= c * N => (i % N = 0 <=> i = c * N)
      BY <1>4, <3>1, PageOfRow
    <3> QED BY <1>5, <2>1, <3>2
  <2>3. i \in from..to <=> m < i /\ i < m + N
    BY <1>4, <1>6, <1>10, <1>11
  <2>4. (i % N # 0 /\ c = p) <=> m < i /\ i < m + N
    BY <2>2
  <2> QED BY <2>1, <2>3, <2>4
<1> QED BY <1>1, <1>2, <1>6, <1>11, <1>12

\* What the table shows on one of its pages.
LEMMA PageShows ==
  ASSUME HdfsTypes, NEW data, data = view.data, NEW c \in 1..totalPageNumber(data), NEW i \in DOMAIN data
  PROVE  data[i] \in Range(showHDFS([view EXCEPT !.current = c, !.rows = <<>>]).rows)
           <=> /\ data[i] \notin ZeroSize /\ i % numberPerPage # 0
               /\ c = (i + numberPerPage - 1) \div numberPerPage
<1>1. data \in Seq(Files) /\ IsInjective(data)
  BY DEF HdfsTypes, Rows
<1>2. PICK from : from = (c - 1) * numberPerPage + 1
  OBVIOUS
<1>3. PICK to : to = LastShown(data, c)
  OBVIOUS
<1>4. /\ from \in Nat /\ 1 <= from /\ to \in Int /\ to <= Len(data)
      /\ \A k \in 1..Len(data) :
           k \in from..to <=> k % numberPerPage # 0
                                /\ c = (k + numberPerPage - 1) \div numberPerPage
  BY <1>1, <1>2, <1>3, RowsOnPage
<1>5. from..to \subseteq DOMAIN data
  BY <1>1, <1>4
<1>6. PICK part : part = SubSeq(data, from, to)
  OBVIOUS
<1>7. PICK none : none = <<>>
  OBVIOUS
<1>8. PICK v : v = [view EXCEPT !.current = c, !.rows = none]
  OBVIOUS
<1>9. v.data = data /\ v.current = c /\ v \in [data : Rows, current : {c}, total : Int, rows : {none}]
  BY <1>8 DEF HdfsTypes
<1>10. PICK rows : rows = Only(part, Files \ ZeroSize)
  OBVIOUS
<1>11. showHDFS(v).rows = rows
  <2>1. showHDFS(v) = [v EXCEPT !.total = totalPageNumber(data), !.rows = rows]
    BY <1>2, <1>3, <1>5, <1>6, <1>9, <1>10, Zenon DEF showHDFS
  <2>2. PICK total : total = totalPageNumber(data)
    OBVIOUS
  <2>3. [v EXCEPT !.total = total, !.rows = rows].rows = rows
    BY <1>9
  <2> QED BY <2>1, <2>2, <2>3
<1>12. \A k \in from..to : data[k] \in Files
  BY <1>1, <1>5
<1>13. /\ part \in Seq(Files) /\ Len(part) = IF from <= to THEN to - from + 1 ELSE 0
       /\ \A k \in 1..(to - from + 1) : part[k] = data[from + k - 1]
  BY <1>4, <1>6, <1>12, SubSeqProperties
<1>14. \A e : (\E k \in DOMAIN part : part[k] = e) <=> \E k \in from..to : data[k] = e
  <2> SUFFICES ASSUME NEW e
               PROVE  (\E k \in DOMAIN part : part[k] = e) <=> \E k \in from..to : data[k] = e
    OBVIOUS
  <2>1. DOMAIN part = 1..Len(part)
    BY <1>13
  <2>2. ASSUME NEW k \in DOMAIN part PROVE from + k - 1 \in from..to /\ part[k] = data[from + k - 1]
    BY <1>4, <1>13, <2>1
  <2>3. ASSUME NEW k \in from..to
        PROVE  k - from + 1 \in DOMAIN part /\ part[k - from + 1] = data[k]
    <3>1. k - from + 1 \in 1..(to - from + 1) /\ from + (k - from + 1) - 1 = k /\ from <= to
      BY <1>4
    <3> QED BY <1>13, <2>1, <3>1
  <2> QED BY <2>2, <2>3
<1>15. data[i] \in Range(rows) <=> data[i] \in Files \ ZeroSize /\ \E k \in DOMAIN part : part[k] = data[i]
  <2>1. data[i] \in Range(rows) <=> \E k \in DOMAIN rows : rows[k] = data[i]
    BY DEF Range
  <2>2. PICK set : set = Files \ ZeroSize
    OBVIOUS
  <2>3. \A e : (\E k \in DOMAIN Only(part, set) : Only(part, set)[k] = e)
                 <=> e \in set /\ \E k \in DOMAIN part : part[k] = e
    <3>1. part \in Seq(Files)
      BY <1>13
    <3>2. /\ Only(part, set) \in Seq(Files)
          /\ \A e : (\E k \in DOMAIN Only(part, set) : Only(part, set)[k] = e)
                    <=> e \in set /\ \E k \in DOMAIN part : part[k] = e
      BY <3>1, OnlyElements, SMTT(60)
    <3> QED BY <3>2
  <2> QED BY <1>10, <2>1, <2>2, <2>3
<1>16. (\E k \in from..to : data[k] = data[i]) <=> i \in from..to
  BY <1>1, <1>5 DEF IsInjective
<1>17. data[i] \in Files /\ i \in 1..Len(data)
  BY <1>1
<1> QED BY <1>4, <1>7, <1>8, <1>11, <1>14, <1>15, <1>16, <1>17

\* For any listing and page size: turning the pages shows each file on one
\* page, but for the last one of a full page (showHDFS, hdfs.html).
THEOREM FilesShownOnce == HdfsSpec => []ShownOnce
<1>1. HdfsTypes => ShownOnce
  <2> SUFFICES ASSUME HdfsTypes PROVE ShownOnce
    OBVIOUS
  <2>1. PICK data \in Seq(Files) : data = view.data
    BY DEF HdfsTypes, Rows
  <2>2. PICK q : q = totalPageNumber(data)
    OBVIOUS
  <2>3. PICK N \in Nat \ {0} : N = numberPerPage
    BY FilesAssumption
  <2>4. ASSUME NEW i \in DOMAIN data PROVE ((i + N - 1) \div N) \in 1..q
    <3>0. PICK p : p = (i + N - 1) \div N
      OBVIOUS
    <3>1. p \in Nat /\ p >= 1 /\ (p - 1) * N < i
      <4>1. i \in Nat /\ i > 0
        BY <2>1
      <4>2. /\ p \in Nat /\ i <= p * N
            /\ i > 0 => p >= 1 /\ (p - 1) * N < i
            /\ i % N = 0 => i = p * N
        BY <3>0, <4>1, PagesOfRows
      <4> QED BY <4>1, <4>2
    <3>2. q \in Nat /\ i <= q * N
      <4>1. q = ((Len(data) + N - 1) \div N) /\ Len(data) \in Nat /\ i <= Len(data)
        BY <2>2, <2>3 DEF totalPageNumber
      <4>2. q \in Nat /\ Len(data) <= q * N
        BY <4>1, PagesOfRows
      <4> QED BY <4>1, <4>2
    <3>3. ASSUME q < p PROVE FALSE
      <4>1. PICK d \in Nat : p - 1 = q + d
        <5>1. (p - 1) - q \in Nat /\ p - 1 = q + ((p - 1) - q)
          BY <3>1, <3>2, <3>3
        <5> QED BY <5>1
      <4>2. (q + d) * N = q * N + d * N /\ d * N \in Nat /\ q * N \in Nat
        BY <3>2
      <4> QED BY <3>1, <3>2, <4>1, <4>2
    <3> QED BY <3>0, <3>1, <3>2, <3>3
  <2>5. ASSUME NEW i \in DOMAIN data, NEW on,
               on = {k \in 1..q :
                       data[i] \in Range(showHDFS([view EXCEPT !.current = k, !.rows = <<>>]).rows)}
        PROVE  on = IF data[i] \in ZeroSize \/ i % N = 0 THEN {} ELSE {(i + N - 1) \div N}
    <3>1. \A k \in 1..q : k \in on <=> /\ data[i] \notin ZeroSize /\ i % N # 0
                                       /\ k = ((i + N - 1) \div N)
      BY <2>1, <2>2, <2>3, <2>5, PageShows
    <3> QED BY <2>4, <2>5, <3>1
  <2>6. ASSUME NEW i \in DOMAIN view.data
        PROVE  LET on == {k \in 1..totalPageNumber(view.data) :
                            view.data[i] \in Range(showHDFS([view EXCEPT !.current = k, !.rows = <<>>]).rows)}
               IN IF view.data[i] \in ZeroSize \/ i % numberPerPage = 0
                    THEN on = {}
                    ELSE on = {(i + numberPerPage - 1) \div numberPerPage}
    <3>1. PICK on : on = {k \in 1..totalPageNumber(view.data) :
                            view.data[i] \in Range(showHDFS([view EXCEPT !.current = k, !.rows = <<>>]).rows)}
      OBVIOUS
    <3>2. on = IF data[i] \in ZeroSize \/ i % N = 0 THEN {} ELSE {(i + N - 1) \div N}
      <4>1. on = {k \in 1..q :
                    data[i] \in Range(showHDFS([view EXCEPT !.current = k, !.rows = <<>>]).rows)}
        BY <2>1, <2>2, <3>1
      <4>2. i \in DOMAIN data
        BY <2>1, <2>6
      <4> QED BY <2>5, <4>1, <4>2
    <3> QED BY <2>1, <2>3, <3>1, <3>2
  <2> QED BY <2>6, Zenon DEF ShownOnce
<1>2. HdfsInv => HdfsTypes
  BY DEF HdfsInv
<1> QED BY <1>1, <1>2, HdfsInvariant, PTL
=============================================================================
