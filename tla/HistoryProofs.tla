---------------------------- MODULE HistoryProofs ---------------------------
(***************************************************************************)
(* The server survives its history page, a download that overlaps no other *)
(* serves what was asked for, and the last page has shown every row.       *)
(***************************************************************************)
EXTENDS History, SelectionProofs

-----------------------------------------------------------------------------
(* Invariants.                                                             *)

\* What a history page has asked for is there to be found.
Asked(m, table) ==
  \/ m.kind = "page" /\ m.run > 0
  \/ m.kind = "error" /\ m.run \in Range(table)

Found(a, table, text) ==
  \/ a.kind = "page" /\ Range(a.items) \subseteq DOMAIN table
  \/ a.kind = "done" /\ text # NoText

RequestsAsked == \A p \in Histories : \A i \in DOMAIN request[p] : Asked(request[p][i], rows)
AnswersFound  == \A p \in Histories : \A i \in DOMAIN response[p] : Found(response[p][i], rows, output)
QueriesAsked  ==
  \A q \in queries : q.page \in Histories => Asked(q, rows) /\ Range(q.items) \subseteq DOMAIN rows
WindowsServed == \A w \in windows : w.page \in Histories => output # NoText

HarmlessInv ==
  /\ killer \notin Histories
  /\ RequestsAsked /\ AnswersFound /\ QueriesAsked /\ WindowsServed

-----------------------------------------------------------------------------
(* A download is one message, query, answer or window.                     *)

Plain(s)       == \A i \in DOMAIN s : s[i].kind = "page"
OnlyDownload(s, i) == i \in DOMAIN s /\ s[i].kind # "page" /\ \A j \in DOMAIN s \ {i} : s[j].kind = "page"

NoRequests  == \A p \in Pages : Plain(request[p])
NoQueries   == \A q \in queries : q.kind = "page"
NoAnswers   == \A p \in Pages : Plain(response[p])

WantedBy(p, kind, run) == kind \in AllDownloads \ {"explain"} /\ wanted[p] = [kind |-> kind, run |-> run]
Held(p)                == output = wanted[p] /\ uuid = wanted[p].run

Requested(p, i) ==
  /\ OnlyDownload(request[p], i) /\ WantedBy(p, request[p][i].kind, request[p][i].run)
  /\ \A o \in Pages \ {p} : Plain(request[o])
  /\ NoQueries /\ NoAnswers /\ windows = {}

Queried(q) ==
  /\ q.kind # "page" /\ WantedBy(q.page, q.kind, q.run) /\ uuid = q.run
  /\ \A o \in queries \ {q} : o.kind = "page"
  /\ NoRequests /\ NoAnswers /\ windows = {}

Answered(p, i) ==
  /\ OnlyDownload(response[p], i) /\ Held(p)
  /\ \A o \in Pages \ {p} : Plain(response[o])
  /\ NoRequests /\ NoQueries /\ windows = {}

Opened(w) ==
  /\ windows = {w} /\ Held(w.page)
  /\ NoRequests /\ NoQueries /\ NoAnswers

OneDownload ==
  \/ DownloadsIdle
  \/ \E p \in Pages : \E i \in DOMAIN request[p] : Requested(p, i)
  \/ \E q \in queries : Queried(q)
  \/ \E p \in Pages : \E i \in DOMAIN response[p] : Answered(p, i)
  \/ \E w \in windows : Opened(w)

OwnInv == orderly => OneDownload /\ served.text = served.wanted /\ served.name = served.wanted.run

-----------------------------------------------------------------------------
(* Sequences of messages.                                                  *)

LEMMA Appended ==
  ASSUME NEW S, NEW P, NEW f \in [P -> Seq(S)], NEW p \in P, NEW m \in S
  PROVE  [f EXCEPT ![p] = Append(@, m)] \in [P -> Seq(S)]
  OBVIOUS

LEMMA Removed ==
  ASSUME NEW S, NEW P, NEW f \in [P -> Seq(S)], NEW p \in P, f[p] # <<>>
  PROVE  [f EXCEPT ![p] = Tail(@)] \in [P -> Seq(S)] /\ Head(f[p]) \in S
  OBVIOUS

LEMMA AppendElements ==
  ASSUME NEW S, NEW s \in Seq(S), NEW m \in S
  PROVE  /\ Append(s, m) \in Seq(S) /\ DOMAIN Append(s, m) = DOMAIN s \union {Len(s) + 1}
         /\ Len(s) + 1 \notin DOMAIN s
         /\ Append(s, m)[Len(s) + 1] = m
         /\ \A i \in DOMAIN s : Append(s, m)[i] = s[i]
  OBVIOUS

LEMMA TailElements ==
  ASSUME NEW S, NEW s \in Seq(S), s # <<>>
  PROVE  /\ 1 \in DOMAIN s /\ s[1] = Head(s) /\ Tail(s) \in Seq(S)
         /\ \A i \in DOMAIN Tail(s) : i + 1 \in DOMAIN s /\ i + 1 # 1 /\ Tail(s)[i] = s[i + 1]
         /\ \A i \in DOMAIN s \ {1} : i - 1 \in DOMAIN Tail(s) /\ Tail(s)[i - 1] = s[i]
  OBVIOUS

LEMMA ElementsAppended ==
  ASSUME NEW S, NEW P, NEW f \in [P -> Seq(S)], NEW p \in P, NEW m \in S,
         NEW g, g = [f EXCEPT ![p] = Append(@, m)]
  PROVE  \A o \in P : \A i \in DOMAIN g[o] :
           (\E j \in DOMAIN f[o] : g[o][i] = f[o][j]) \/ (o = p /\ g[o][i] = m)
<1> SUFFICES ASSUME NEW o \in P, NEW i \in DOMAIN g[o]
             PROVE  (\E j \in DOMAIN f[o] : g[o][i] = f[o][j]) \/ (o = p /\ g[o][i] = m)
  OBVIOUS
<1>1. CASE o = p
  <2>1. g[o] = Append(f[o], m) /\ f[o] \in Seq(S)
    BY <1>1
  <2> QED
    BY <1>1, <2>1, AppendElements
<1>2. CASE o # p
  BY <1>2
<1> QED
  BY <1>1, <1>2

LEMMA ElementsRemoved ==
  ASSUME NEW S, NEW P, NEW f \in [P -> Seq(S)], NEW p \in P, f[p] # <<>>,
         NEW g, g = [f EXCEPT ![p] = Tail(@)]
  PROVE  \A o \in P : \A i \in DOMAIN g[o] : \E j \in DOMAIN f[o] : g[o][i] = f[o][j]
<1> SUFFICES ASSUME NEW o \in P, NEW i \in DOMAIN g[o]
             PROVE  \E j \in DOMAIN f[o] : g[o][i] = f[o][j]
  OBVIOUS
<1>1. CASE o = p
  <2>1. g[o] = Tail(f[o]) /\ f[o] \in Seq(S) /\ f[o] # <<>>
    BY <1>1
  <2> QED
    BY <2>1, TailElements
<1>2. CASE o # p
  BY <1>2
<1> QED
  BY <1>1, <1>2

LEMMA RowsGrow ==
  ASSUME NEW S, NEW s \in Seq(S), NEW t \in Seq(S)
  PROVE  /\ s \o t \in Seq(S)
         /\ DOMAIN s \subseteq DOMAIN (s \o t) /\ Range(s) \subseteq Range(s \o t)
<1>1. s \o t \in Seq(S) /\ DOMAIN s \subseteq DOMAIN (s \o t) /\ \A i \in DOMAIN s : (s \o t)[i] = s[i]
  OBVIOUS
<1> QED
  BY <1>1 DEF Range

\* A page of the history holds rows of the table.
LEMMA PageOfRows ==
  ASSUME NEW number \in Nat, rows \in Seq(Runs)
  PROVE  /\ PageIds(number) \in Seq(Nat \ {0})
         /\ number > 0 => Range(PageIds(number)) \subseteq DOMAIN rows
<1> DEFINE newest == Len(rows) - (number - 1) * RowsPerPage
           size   == IF newest < RowsPerPage THEN (IF newest < 0 THEN 0 ELSE newest) ELSE RowsPerPage
<1>1. RowsPerPage \in Nat
  BY BoundAssumption
<1>2. (number - 1) * RowsPerPage \in Int /\ (number > 0 => (number - 1) * RowsPerPage >= 0)
  <2>1. CASE number = 0
    BY <1>1, <2>1
  <2>2. CASE number > 0
    <3>1. number - 1 \in Nat
      BY <2>2
    <3> QED
      BY <1>1, <3>1
  <2> QED
    BY <2>1, <2>2
<1>3. Len(rows) \in Nat /\ newest \in Int /\ (number > 0 => newest <= Len(rows)) /\ DOMAIN rows = 1..Len(rows)
  BY <1>2
<1> HIDE DEF newest
<1>4. (size \in Nat /\ size <= newest) \/ size = 0
  BY <1>1, <1>3
<1>5. size \in Nat
  BY <1>1, <1>3
<1> HIDE DEF size
<1>6. PageIds(number) = [i \in 1..size |-> newest - i + 1]
  BY DEF PageIds, newest, size
<1>7. \A i \in 1..size : newest - i + 1 \in Nat \ {0} /\ newest - i + 1 <= newest
  BY <1>3, <1>4, <1>5
<1> QED
  BY <1>3, <1>5, <1>6, <1>7 DEF Range

-----------------------------------------------------------------------------
(* Types.                                                                  *)

LEMMA TypeInit == Init => TypeOK
<1> SUFFICES ASSUME Init PROVE TypeOK
  OBVIOUS
<1>1. MaxRuns \in Nat /\ started \in 0..MaxRuns
  BY BoundAssumption DEF Init
<1>2. rows \in Seq(Runs) /\ Len(rows) \in Nat
  BY <1>1 DEF Init, Runs
<1>3. PageRequest(1, 0) \in Message
  BY DEF PageRequest, Message
<1>4. << PageRequest(1, 0) >> \in Seq(Message) /\ <<>> \in Seq(Message)
  BY <1>3
<1>5. request \in [Pages -> Seq(Message)] /\ response \in [Pages -> Seq(Answers)]
  BY <1>4 DEF Init
<1>6. /\ console \in [Consoles -> [run : 0..MaxRuns, buttons : BOOLEAN]]
      /\ \A p \in Consoles : ~console[p].buttons
  BY <1>1 DEF Init
<1>7. /\ history \in [Histories -> [current : Nat, total : Nat, items : Seq(Nat \ {0})]]
      /\ \A p \in Histories : Range(history[p].items) \subseteq DOMAIN rows
  BY DEF Init, Range
<1>8. served \in [name : Nat, text : Text \union {NoText}, wanted : Text \union {NoText}]
  BY DEF Init
<1>9. seen \in [Histories -> [upto : Nat, ids : SUBSET Nat]]
  BY <1>2 DEF Init
<1> QED
  BY <1>1, <1>2, <1>5, <1>6, <1>7, <1>8, <1>9 DEF Init, TypeOK

LEMMA TypeStart ==
  ASSUME TypeOK, NEW p \in Consoles, Start(p)
  PROVE  TypeOK'
<1>1. started' \in 0..MaxRuns /\ ended \subseteq 1..started'
  BY BoundAssumption DEF TypeOK, Start
<1>2. console' \in [Consoles -> [run : 0..MaxRuns, buttons : BOOLEAN]]
  BY <1>1 DEF TypeOK, Start
<1>3. \A o \in Consoles : console'[o].buttons => console'[o].run # 0
  <2>1. started' # 0
    BY DEF TypeOK, Start
  <2>2. \A o \in Consoles : console'[o] = IF o = p THEN [console[o] EXCEPT !.run = started'] ELSE console[o]
    BY DEF TypeOK, Start
  <2>3. \A o \in Consoles : console'[o].run = (IF o = p THEN started' ELSE console[o].run)
                             /\ console'[o].buttons = console[o].buttons
    BY <2>2 DEF TypeOK
  <2> QED
    BY <2>1, <2>3 DEF TypeOK
<1> QED
  BY <1>1, <1>2, <1>3 DEF TypeOK, Start, RunUnchanged, serverVars, observed

LEMMA RunEnds ==
  ASSUME TypeOK, NEW r \in Runs, NEW state, Ends(r, state)
  PROVE  /\ rows' \in Seq(Runs)
         /\ DOMAIN rows \subseteq DOMAIN rows' /\ Range(rows) \subseteq Range(rows')
<1>1. RowFor(r, state) \in Seq(Runs)
  BY DEF RowFor
<1> QED
  BY <1>1, RowsGrow DEF Ends, TypeOK

LEMMA TypeEnds ==
  ASSUME TypeOK, NEW r \in Runs, NEW state, Ends(r, state)
  PROVE  TypeOK'
<1>1. ended' \subseteq 1..started
  BY DEF TypeOK, Ends
<1>2. /\ console' \in [Consoles -> [run : 0..MaxRuns, buttons : BOOLEAN]]
      /\ \A o \in Consoles : console'[o].buttons => console'[o].run # 0
  <2>1. [run |-> r, buttons |-> TRUE] \in [run : 0..MaxRuns, buttons : BOOLEAN] /\ r # 0
    BY BoundAssumption DEF Runs
  <2> QED
    BY <2>1 DEF TypeOK, Ends
<1>3. rows' \in Seq(Runs) /\ DOMAIN rows \subseteq DOMAIN rows'
  BY RunEnds
<1> QED
  BY <1>1, <1>2, <1>3 DEF TypeOK, Ends, RunUnchanged, serverVars, observed

LEMMA TypeClick ==
  ASSUME TypeOK, NEW p \in Pages, NEW m \in Message, Click(p, m)
  PROVE  request' \in [Pages -> Seq(Message)] /\ clicks' \in Nat
  BY Appended DEF TypeOK, Click

LEMMA TypeAsk ==
  ASSUME TypeOK, NEW p \in Pages, NEW kind, NEW run \in Runs, Ask(p, kind, run),
         windows' \subseteq [id : Nat, page : Pages]
  PROVE  TypeOK'
<1>1. kind \in AllDownloads /\ clicks + 1 \in Nat /\ run \in Nat
  BY BoundAssumption DEF Ask, Runs, TypeOK
<1>2. [kind |-> kind, run |-> run, id |-> clicks + 1] \in Message
  BY <1>1 DEF Message
<1>3. request' \in [Pages -> Seq(Message)] /\ clicks' \in Nat
  BY <1>2, TypeClick DEF Ask
<1>4. wanted' \in [Pages -> Text \union {NoText}]
  <2>1. [kind |-> kind, run |-> run] \in Text
    BY <1>1 DEF Text
  <2> QED
    BY <2>1 DEF TypeOK, Ask
<1>5. orderly' \in BOOLEAN
  BY Zenon DEF TypeOK, Ask
<1> QED
  BY <1>3, <1>4, <1>5 DEF TypeOK, Ask, Click, serverVars, runVars

LEMMA TypeTurn ==
  ASSUME TypeOK, NEW p \in Histories, NEW current \in Nat, Turn(p, current)
  PROVE  TypeOK'
<1>1. PageRequest(current, clicks + 1) \in Message
  BY DEF PageRequest, Message, TypeOK
<1>2. request' \in [Pages -> Seq(Message)] /\ clicks' \in Nat
  BY <1>1, TypeClick DEF Turn, Pages
<1>3. /\ history' \in [Histories -> [current : Nat, total : Nat, items : Seq(Nat \ {0})]]
      /\ \A o \in Histories : history'[o].items = history[o].items
  BY DEF TypeOK, Turn
<1>4. patient' \in BOOLEAN
  BY Zenon DEF TypeOK, Turn
<1> QED
  BY <1>2, <1>3, <1>4 DEF TypeOK, Turn, Click, serverVars, runVars

LEMMA TypeHandling ==
  ASSUME TypeOK, NEW p \in Pages, NEW kinds, Handling(p, kinds)
  PROVE  /\ request' \in [Pages -> Seq(Message)] /\ Head(request[p]) \in Message
         /\ Head(request[p]).run \in Nat
<1>1. Head(request[p]) \in Message
  BY Removed DEF TypeOK, Handling
<1>2. \A m \in Message : m.run \in Nat
  BY DEF Message
<1> QED
  BY <1>1, <1>2, Removed DEF TypeOK, Handling

LEMMA TypeQuery ==
  ASSUME TypeOK, NEW p \in Pages, Query(p), Head(request[p]) \in Message
  PROVE  queries' \subseteq QueryType
<1> DEFINE m == Head(request[p])
<1>1. [id |-> m.id, page |-> p, kind |-> m.kind, run |-> m.run, items |-> <<>>, counting |-> FALSE]
        \in QueryType
  BY DEF Message, QueryType
<1> QED
  BY <1>1 DEF Query, TypeOK

LEMMA TypeServer ==
  ASSUME TypeOK, NEW p \in Pages,
         \/ OnDownloadHistoryOutput(p) \/ OnDownloadProgressLog(p) \/ OnHistorycurrentPage(p)
  PROVE  TypeOK'
<1>1. PICK kinds : Handling(p, kinds)
  BY DEF OnDownloadHistoryOutput, OnDownloadProgressLog, OnHistorycurrentPage
<1>2. request' \in [Pages -> Seq(Message)] /\ Head(request[p]) \in Message /\ uuid' \in Nat
  BY <1>1, TypeHandling DEF OnDownloadHistoryOutput, OnDownloadProgressLog, OnHistorycurrentPage, TypeOK
<1>3. queries' \subseteq QueryType /\ output' = output
  BY <1>2, TypeQuery DEF OnDownloadHistoryOutput, OnDownloadProgressLog, OnHistorycurrentPage
<1> QED
  BY <1>1, <1>2, <1>3 DEF TypeOK, Handling, runVars, observed

LEMMA TypeExplain ==
  ASSUME TypeOK, NEW p \in Pages, OnDownloadExplainLog(p)
  PROVE  TypeOK'
<1>1. request' \in [Pages -> Seq(Message)] /\ uuid' \in Nat
  BY TypeHandling DEF OnDownloadExplainLog
<1>2. output' \in Text
  <2>1. Head(request[p]).run \in Runs
    BY TypeHandling DEF OnDownloadExplainLog, Handling, Message
  <2> QED
    BY <2>1 DEF OnDownloadExplainLog, Text, AllDownloads
<1> QED
  BY <1>1, <1>2 DEF OnDownloadExplainLog, TypeOK, Handling, runVars, observed

LEMMA TypeAnswer ==
  ASSUME TypeOK, NEW q \in queries, NEW m \in Answers, Answer(q, m)
  PROVE  /\ response' \in [Pages -> Seq(Answers)] /\ queries' \subseteq QueryType
         /\ q.page \in Pages
<1>1. q.page \in Pages
  BY DEF TypeOK, QueryType
<1> QED
  BY <1>1, Appended DEF Answer, TypeOK

LEMMA TypeDone ==
  ASSUME TypeOK, NEW q \in queries,
         \/ GetHistoryOutput(q) \/ GetProgressLog(q)
  PROVE  TypeOK' /\ output' \in Text
<1>1. /\ Answer(q, [kind |-> "done", id |-> q.id])
      /\ output' = [kind |-> q.kind, run |-> q.run] /\ q.kind \in AllDownloads
  BY DEF GetHistoryOutput, GetProgressLog, AllDownloads
<1>2. q.id \in Nat /\ q.run \in Runs
  BY <1>1 DEF TypeOK, QueryType, AllDownloads
<1>3. [kind |-> "done", id |-> q.id] \in Answers
  BY <1>2 DEF Answers
<1>4. response' \in [Pages -> Seq(Answers)] /\ queries' \subseteq QueryType
  BY <1>1, <1>3, TypeAnswer
<1>5. output' \in Text
  BY <1>1, <1>2 DEF Text
<1> QED
  BY <1>4, <1>5 DEF GetHistoryOutput, GetProgressLog, TypeOK, QueryUnchanged, runVars, observed

LEMMA TypeSelectPage ==
  ASSUME TypeOK, NEW q \in queries, SelectPage(q)
  PROVE  TypeOK'
<1>1. q \in QueryType /\ q.run \in Nat
  BY DEF TypeOK, QueryType
<1>2. PageIds(q.run) \in Seq(Nat \ {0})
  BY <1>1, PageOfRows DEF TypeOK
<1>3. [q EXCEPT !.items = PageIds(q.run), !.counting = TRUE] \in QueryType
  BY <1>1, <1>2 DEF QueryType
<1>4. queries' \subseteq QueryType
  BY <1>3 DEF SelectPage, TypeOK
<1> QED
  BY <1>4 DEF SelectPage, TypeOK, QueryUnchanged, runVars, observed

LEMMA TypeSelectCount ==
  ASSUME TypeOK, NEW q \in queries, SelectCount(q)
  PROVE  TypeOK'
<1>1. q.items \in Seq(Nat \ {0}) /\ Len(rows) \in Nat
  BY DEF TypeOK, QueryType
<1>2. [kind |-> "page", items |-> q.items, number |-> Len(rows)] \in Answers
  BY <1>1 DEF Answers
<1>3. response' \in [Pages -> Seq(Answers)] /\ queries' \subseteq QueryType
  BY <1>2, TypeAnswer DEF SelectCount
<1> QED
  BY <1>3 DEF SelectCount, TypeOK, QueryUnchanged, runVars, observed

LEMMA TypeThrows ==
  ASSUME TypeOK, NEW q \in queries, GetHistoryOutputThrows(q)
  PROVE  TypeOK'
<1>1. killer' \in Pages \union {NoPage}
  BY DEF TypeOK, QueryType, GetHistoryOutputThrows
<1> QED
  BY <1>1 DEF GetHistoryOutputThrows, TypeOK, QueryUnchanged, runVars, observed

LEMMA TypeDownload ==
  ASSUME TypeOK, NEW w \in windows, Download(w)
  PROVE  TypeOK'
<1>1. w.page \in Pages /\ windows' \subseteq [id : Nat, page : Pages]
  BY DEF TypeOK, Download
<1>2. CASE output = NoText
  BY <1>1, <1>2 DEF TypeOK, Download, runVars
<1>3. CASE output # NoText
  <2>1. [name |-> uuid, text |-> output, wanted |-> wanted[w.page]]
          \in [name : Nat, text : Text \union {NoText}, wanted : Text \union {NoText}]
    BY <1>1 DEF TypeOK
  <2> QED
    BY <1>1, <1>3, <2>1 DEF TypeOK, Download, runVars
<1> QED
  BY <1>2, <1>3

LEMMA TypeReceived ==
  ASSUME TypeOK, NEW p \in Pages, NEW kind, Received(p, kind)
  PROVE  /\ response' \in [Pages -> Seq(Answers)]
         /\ Head(response[p]) \in Answers /\ Head(response[p]).kind = kind
         /\ 1 \in DOMAIN response[p] /\ response[p][1] = Head(response[p])
<1>1. response[p] \in Seq(Answers) /\ response[p] # <<>>
  BY DEF TypeOK, Received
<1> QED
  BY <1>1, Removed, TailElements DEF TypeOK, Received

LEMMA TypeWindow ==
  ASSUME TypeOK, NEW p \in Pages, OnResultFromDb(p)
  PROVE  TypeOK'
<1>1. /\ response' \in [Pages -> Seq(Answers)]
      /\ Head(response[p]) \in Answers /\ Head(response[p]).kind = "done"
  BY TypeReceived DEF OnResultFromDb
<1>2. Head(response[p]).id \in Nat
  BY <1>1 DEF Answers
<1>3. windows' \subseteq [id : Nat, page : Pages]
  BY <1>2 DEF OnResultFromDb, TypeOK
<1> QED
  BY <1>1, <1>3 DEF OnResultFromDb, Received, TypeOK, serverVars, runVars

LEMMA DivNat ==
  ASSUME NEW a \in Nat, NEW b \in Nat, b > 0
  PROVE  a \div b \in Nat
  OBVIOUS

\* A page that arrives at a history page holds rows of the table.
LEMMA TypeShown ==
  ASSUME TypeOK, HarmlessInv, NEW p \in Pages, OnResult(p)
  PROVE  TypeOK'
<1> DEFINE data  == Head(response[p])
           total == (data.number + RowsPerPage - 1) \div RowsPerPage
<1>1. /\ response' \in [Pages -> Seq(Answers)] /\ data \in Answers /\ data.kind = "page"
      /\ 1 \in DOMAIN response[p] /\ response[p][1] = data
  BY TypeReceived DEF OnResult
<1>2. data.items \in Seq(Nat \ {0}) /\ data.number \in Nat
  BY <1>1 DEF Answers
<1>3. total \in Nat
  <2>1. RowsPerPage \in Nat /\ RowsPerPage > 0 /\ data.number + RowsPerPage - 1 \in Nat
    BY <1>2, BoundAssumption
  <2> QED
    BY <2>1, DivNat
<1>4. Range(data.items) \subseteq Nat
  BY <1>2 DEF Range
<1>5. p \in Histories => Range(data.items) \subseteq DOMAIN rows
  BY <1>1 DEF HarmlessInv, AnswersFound, Found
<1>6. /\ history' = [history EXCEPT ![p].total = total, ![p].items = data.items,
                                    ![p].current = IF total = 0 THEN 0 ELSE @]
      /\ seen' = [seen EXCEPT ![p].ids = @ \union Range(data.items)]
  BY DEF OnResult
<1> HIDE DEF data, total
<1>7. /\ history' \in [Histories -> [current : Nat, total : Nat, items : Seq(Nat \ {0})]]
      /\ \A o \in Histories : Range(history'[o].items) \subseteq DOMAIN rows
  <2>1. \A o \in Histories : history'[o].items = IF o = p THEN data.items ELSE history[o].items
    BY <1>6 DEF TypeOK
  <2>2. \A o \in Histories : Range(history'[o].items) \subseteq DOMAIN rows
    BY <1>5, <2>1 DEF TypeOK
  <2>3. history' \in [Histories -> [current : Nat, total : Nat, items : Seq(Nat \ {0})]]
    <3> DEFINE items == data.items
    <3>1. items \in Seq(Nat \ {0}) /\ history \in [Histories -> [current : Nat, total : Nat, items : Seq(Nat \ {0})]]
      BY <1>2 DEF TypeOK
    <3>2. history' = [history EXCEPT ![p].total = total, ![p].items = items,
                                     ![p].current = IF total = 0 THEN 0 ELSE @]
      BY <1>6
    <3> HIDE DEF items
    <3>3. [history EXCEPT ![p].total = total, ![p].items = items,
                          ![p].current = IF total = 0 THEN 0 ELSE @]
             \in [Histories -> [current : Nat, total : Nat, items : Seq(Nat \ {0})]]
      <4>1. CASE total = 0
        <5>1. [history EXCEPT ![p].total = total, ![p].items = items, ![p].current = 0]
                \in [Histories -> [current : Nat, total : Nat, items : Seq(Nat \ {0})]]
          BY <1>3, <3>1
        <5> QED
          BY <4>1, <5>1
      <4>2. CASE total # 0
        <5>1. [history EXCEPT ![p].total = total, ![p].items = items, ![p].current = @]
                \in [Histories -> [current : Nat, total : Nat, items : Seq(Nat \ {0})]]
          BY <1>3, <3>1
        <5> QED
          BY <4>2, <5>1
      <4> QED
        BY <4>1, <4>2
    <3> QED
      BY <3>2, <3>3
  <2> QED
    BY <2>2, <2>3
<1>8. seen' \in [Histories -> [upto : Nat, ids : SUBSET Nat]]
  BY <1>4, <1>6 DEF TypeOK
<1> QED
  BY <1>1, <1>7, <1>8 DEF OnResult, Received, TypeOK, serverVars, runVars

-----------------------------------------------------------------------------
(* What history pages ask for is found.                                    *)

LEMMA HarmlessInit == Init => HarmlessInv
<1> SUFFICES ASSUME Init PROVE HarmlessInv
  OBVIOUS
<1>1. killer \notin Histories /\ queries = {} /\ windows = {}
  BY PagesAssumption DEF Init
<1>2. RequestsAsked
  <2> SUFFICES ASSUME NEW p \in Histories, NEW i \in DOMAIN request[p]
               PROVE  Asked(request[p][i], rows)
    BY DEF RequestsAsked
  <2>1. request[p] = << PageRequest(1, 0) >>
    BY DEF Init, Pages
  <2> QED
    BY <2>1 DEF Asked, PageRequest
<1>3. AnswersFound
  BY DEF Init, AnswersFound, Pages
<1> QED
  BY <1>1, <1>2, <1>3 DEF HarmlessInv, QueriesAsked, WindowsServed

\* What was asked for or found stays so while rows are added and there is an
\* output.
LEMMA Kept ==
  ASSUME DOMAIN rows \subseteq DOMAIN rows', Range(rows) \subseteq Range(rows'),
         output # NoText => output' # NoText
  PROVE  /\ \A x : Asked(x, rows) => Asked(x, rows')
         /\ \A x : Found(x, rows, output) => Found(x, rows', output')
  BY DEF Asked, Found

LEMMA HarmlessRuns ==
  ASSUME TypeOK, HarmlessInv,
         \/ \E p \in Consoles : Start(p)
         \/ \E r \in Runs, state \in {"Fail", "Success", "unstored"} : Ends(r, state)
  PROVE  HarmlessInv'
<1>1. DOMAIN rows \subseteq DOMAIN rows' /\ Range(rows) \subseteq Range(rows')
  BY RunEnds DEF Start
<1>2. UNCHANGED <<killer, output, queries, request, response, windows>>
  BY DEF Start, Ends, RunUnchanged, serverVars
<1>3. /\ \A x : Asked(x, rows) => Asked(x, rows')
      /\ \A x : Found(x, rows, output) => Found(x, rows', output')
  BY <1>1, <1>2, Kept
<1>4. RequestsAsked'
  BY <1>2, <1>3 DEF HarmlessInv, RequestsAsked
<1>5. AnswersFound'
  BY <1>2, <1>3 DEF HarmlessInv, AnswersFound
<1>6. QueriesAsked'
  BY <1>1, <1>2, <1>3 DEF HarmlessInv, QueriesAsked
<1>7. WindowsServed'
  BY <1>2 DEF HarmlessInv, WindowsServed
<1> QED
  BY <1>2, <1>4, <1>5, <1>6, <1>7 DEF HarmlessInv

\* A click adds a message that is asked for, or one of a console.
LEMMA HarmlessClick ==
  ASSUME TypeOK, HarmlessInv, NEW p \in Pages, NEW m \in Message, Click(p, m),
         p \in Histories => Asked(m, rows) /\ UNCHANGED windows,
         \A w \in windows' \ windows : w.page = p
  PROVE  HarmlessInv'
<1>1. /\ request' = [request EXCEPT ![p] = Append(@, m)]
      /\ UNCHANGED <<killer, output, queries, response, rows>>
  BY DEF Click, serverVars, runVars
<1>2. /\ \A x : Asked(x, rows) => Asked(x, rows')
      /\ \A x : Found(x, rows, output) => Found(x, rows', output')
  BY <1>1, Kept
<1>3. RequestsAsked'
  <2> SUFFICES ASSUME NEW o \in Histories, NEW i \in DOMAIN request'[o]
               PROVE  Asked(request'[o][i], rows')
    BY DEF RequestsAsked
  <2>1. (\E j \in DOMAIN request[o] : request'[o][i] = request[o][j]) \/ (o = p /\ request'[o][i] = m)
    BY <1>1, ElementsAppended DEF TypeOK, Pages
  <2> QED
    BY <1>2, <2>1 DEF HarmlessInv, RequestsAsked
<1>4. AnswersFound' /\ QueriesAsked'
  BY <1>1, <1>2 DEF HarmlessInv, AnswersFound, QueriesAsked
<1>5. WindowsServed'
  BY <1>1 DEF HarmlessInv, WindowsServed
<1> QED
  BY <1>1, <1>3, <1>4, <1>5 DEF HarmlessInv

LEMMA HarmlessClicks ==
  ASSUME TypeOK, HarmlessInv, User
  PROVE  HarmlessInv'
<1>1. ASSUME NEW p \in Consoles, Start(p)
      PROVE  HarmlessInv'
  BY <1>1, HarmlessRuns
<1>2. ASSUME NEW p \in Consoles, NEW kind, Ask(p, kind, console[p].run), console[p].run # 0,
             \A w \in windows' \ windows : w.page = p
      PROVE  HarmlessInv'
  <2>1. kind \in AllDownloads /\ console[p].run \in Runs /\ clicks + 1 \in Nat /\ p \in Pages \ Histories
    BY <1>2, BoundAssumption, PagesAssumption DEF Ask, Runs, TypeOK, Pages
  <2> DEFINE m == [kind |-> kind, run |-> console[p].run, id |-> clicks + 1]
  <2>2. m \in Message
    BY <2>1 DEF Message, Runs
  <2>3. Click(p, m)
    BY <1>2 DEF Ask
  <2> HIDE DEF m
  <2> QED
    BY <1>2, <2>1, <2>2, <2>3, HarmlessClick
<1>3. ASSUME NEW p \in Histories, NEW id \in DOMAIN rows, downloadHistoryOutput(p, id)
      PROVE  HarmlessInv'
  <2>1. Ask(p, "error", rows[id]) /\ UNCHANGED windows
    BY <1>3 DEF downloadHistoryOutput
  <2>2. rows[id] \in Runs /\ rows[id] \in Range(rows) /\ clicks + 1 \in Nat /\ p \in Pages
    BY DEF TypeOK, Range, Pages
  <2> DEFINE m == [kind |-> "error", run |-> rows[id], id |-> clicks + 1]
  <2>3. m \in Message /\ Asked(m, rows)
    BY <2>2 DEF Message, Runs, Asked, AllDownloads
  <2>4. Click(p, m)
    BY <2>1 DEF Ask
  <2> HIDE DEF m
  <2> QED
    BY <2>1, <2>2, <2>3, <2>4, HarmlessClick
<1>4. ASSUME NEW p \in Histories, NEW current \in Nat, current > 0, Turn(p, current)
      PROVE  HarmlessInv'
  <2> DEFINE m == PageRequest(current, clicks + 1)
  <2>1. m \in Message /\ Asked(m, rows) /\ p \in Pages
    BY <1>4 DEF Message, Asked, PageRequest, TypeOK, Pages
  <2>2. Click(p, m) /\ UNCHANGED windows
    BY <1>4 DEF Turn
  <2> HIDE DEF m
  <2> QED
    BY <2>1, <2>2, HarmlessClick
<1>5. ASSUME NEW p \in Consoles, downloadOutput(p) \/ downloadProgressLog(p)
      PROVE  HarmlessInv'
  <2>1. console[p].run # 0 /\ UNCHANGED windows
    BY <1>5 DEF TypeOK, downloadOutput, downloadProgressLog
  <2>2. PICK kind : Ask(p, kind, console[p].run)
    BY <1>5 DEF downloadOutput, downloadProgressLog
  <2> QED
    BY <1>2, <2>1, <2>2
<1>6. ASSUME NEW p \in Consoles, downloadExplainLog(p)
      PROVE  HarmlessInv'
  <2>1. /\ Ask(p, "explain", console[p].run) /\ console[p].run # 0
        /\ \A w \in windows' \ windows : w.page = p
    BY <1>6 DEF downloadExplainLog
  <2> QED
    BY <1>2, <2>1
<1>7. ASSUME NEW p \in Histories, historyNextPage(p) \/ historyLastPage(p)
      PROVE  HarmlessInv'
  <2>1. history[p].current \in Nat
    BY DEF TypeOK
  <2>2. CASE historyNextPage(p)
    BY <1>4, <2>1, <2>2 DEF historyNextPage
  <2>3. CASE historyLastPage(p)
    <3>1. history[p].current - 1 \in Nat /\ history[p].current - 1 > 0
      BY <2>1, <2>3 DEF historyLastPage
    <3> QED
      BY <1>4, <2>3, <3>1 DEF historyLastPage
  <2> QED
    BY <1>7, <2>2, <2>3
<1> QED
  BY <1>1, <1>3, <1>5, <1>6, <1>7 DEF User

\* The head of a request queue is taken off.
LEMMA RequestsHandled ==
  ASSUME TypeOK, HarmlessInv, NEW p \in Pages, NEW kinds, Handling(p, kinds)
  PROVE  /\ RequestsAsked'
         /\ p \in Histories => Asked(Head(request[p]), rows)
         /\ Head(request[p]).kind \in kinds /\ Head(request[p]) \in Message
<1>1. /\ request' = [request EXCEPT ![p] = Tail(@)] /\ rows' = rows
      /\ request[p] # <<>> /\ request[p] \in Seq(Message) /\ request \in [Pages -> Seq(Message)]
  BY DEF Handling, runVars, TypeOK
<1>2. \A o \in Pages : \A i \in DOMAIN request'[o] : \E j \in DOMAIN request[o] : request'[o][i] = request[o][j]
  BY <1>1, ElementsRemoved
<1>3. RequestsAsked'
  <2> SUFFICES ASSUME NEW o \in Histories, NEW i \in DOMAIN request'[o]
               PROVE  Asked(request'[o][i], rows')
    BY DEF RequestsAsked
  <2>1. PICK j \in DOMAIN request[o] : request'[o][i] = request[o][j]
    BY <1>2 DEF Pages
  <2> QED
    BY <1>1, <2>1 DEF HarmlessInv, RequestsAsked
<1>4. 1 \in DOMAIN request[p] /\ request[p][1] = Head(request[p])
  BY <1>1, TailElements
<1>5. p \in Histories => Asked(Head(request[p]), rows)
  BY <1>4 DEF HarmlessInv, RequestsAsked
<1>6. Head(request[p]) \in Message
  BY <1>1, Removed
<1> QED
  BY <1>3, <1>5, <1>6 DEF Handling

LEMMA HarmlessQuery ==
  ASSUME TypeOK, HarmlessInv, NEW p \in Pages, NEW kinds, Handling(p, kinds), Query(p), output' = output
  PROVE  HarmlessInv'
<1>1. UNCHANGED <<killer, response, windows, rows, output>>
  BY DEF Handling, runVars
<1>2. RequestsAsked' /\ (p \in Histories => Asked(Head(request[p]), rows))
  BY RequestsHandled
<1>3. AnswersFound' /\ WindowsServed'
  BY <1>1 DEF HarmlessInv, AnswersFound, WindowsServed
<1>4. QueriesAsked'
  <2> DEFINE m == Head(request[p])
             new == [id |-> m.id, page |-> p, kind |-> m.kind, run |-> m.run, items |-> <<>>,
                     counting |-> FALSE]
  <2>1. p \in Histories => Asked(new, rows) /\ Range(new.items) \subseteq DOMAIN rows
    BY <1>2 DEF Asked, Range
  <2>2. queries' = queries \union {new} /\ new.page = p
    BY DEF Query
  <2> HIDE DEF new
  <2> QED
    BY <1>1, <2>1, <2>2 DEF HarmlessInv, QueriesAsked
<1> QED
  BY <1>1, <1>2, <1>3, <1>4 DEF HarmlessInv

LEMMA HarmlessExplain ==
  ASSUME TypeOK, HarmlessInv, NEW p \in Pages, OnDownloadExplainLog(p)
  PROVE  HarmlessInv'
<1>1. UNCHANGED <<killer, response, windows, rows, queries>> /\ RequestsAsked'
  BY RequestsHandled DEF OnDownloadExplainLog, Handling, runVars
<1>2. output' # NoText
  BY DEF OnDownloadExplainLog, NoText
<1>3. \A x : Found(x, rows, output) => Found(x, rows', output')
  BY <1>1, <1>2 DEF Found
<1>4. AnswersFound'
  BY <1>1, <1>3 DEF HarmlessInv, AnswersFound
<1>5. WindowsServed' /\ QueriesAsked'
  BY <1>1, <1>2 DEF HarmlessInv, WindowsServed, QueriesAsked
<1> QED
  BY <1>1, <1>4, <1>5 DEF HarmlessInv

\* An answer that is found may be sent.
LEMMA HarmlessAnswer ==
  ASSUME TypeOK, HarmlessInv, NEW q \in queries, NEW m \in Answers, Answer(q, m),
         UNCHANGED <<killer, request, windows, rows>>, output # NoText => output' # NoText,
         q.page \in Histories => Found(m, rows, output')
  PROVE  HarmlessInv'
<1>1. q.page \in Pages /\ queries' \subseteq queries
  BY TypeAnswer DEF Answer
<1>2. RequestsAsked' /\ QueriesAsked' /\ WindowsServed'
  BY <1>1 DEF HarmlessInv, RequestsAsked, QueriesAsked, WindowsServed
<1>3. \A x : Found(x, rows, output) => Found(x, rows', output')
  BY Kept
<1>4. AnswersFound'
  <2> SUFFICES ASSUME NEW o \in Histories, NEW i \in DOMAIN response'[o]
               PROVE  Found(response'[o][i], rows', output')
    BY DEF AnswersFound
  <2>1. /\ response' = [response EXCEPT ![q.page] = Append(@, m)]
        /\ response \in [Pages -> Seq(Answers)] /\ o \in Pages
    BY DEF Answer, TypeOK, Pages
  <2>2. (\E j \in DOMAIN response[o] : response'[o][i] = response[o][j])
          \/ (o = q.page /\ response'[o][i] = m)
    BY <1>1, <2>1, ElementsAppended
  <2> QED
    BY <1>3, <2>2 DEF HarmlessInv, AnswersFound
<1> QED
  BY <1>2, <1>4 DEF HarmlessInv

LEMMA HarmlessDone ==
  ASSUME TypeOK, HarmlessInv, NEW q \in queries, GetHistoryOutput(q) \/ GetProgressLog(q)
  PROVE  HarmlessInv'
<1>1. output' # NoText
  <2>1. \A text \in Text : text # NoText
    BY DEF Text, NoText, AllDownloads
  <2> QED
    BY <2>1, TypeDone
<1> DEFINE m == [kind |-> "done", id |-> q.id]
<1>2. m \in Answers /\ Found(m, rows, output')
  BY <1>1 DEF Answers, Found, TypeOK, QueryType
<1>3. Answer(q, m) /\ UNCHANGED <<killer, request, windows, rows>>
  BY DEF GetHistoryOutput, GetProgressLog, QueryUnchanged, runVars
<1> HIDE DEF m
<1> QED
  BY <1>1, <1>2, <1>3, HarmlessAnswer

LEMMA HarmlessSelectCount ==
  ASSUME TypeOK, HarmlessInv, NEW q \in queries, SelectCount(q)
  PROVE  HarmlessInv'
<1> DEFINE m == [kind |-> "page", items |-> q.items, number |-> Len(rows)]
<1>1. q.items \in Seq(Nat \ {0}) /\ Len(rows) \in Nat
  BY DEF TypeOK, QueryType
<1>2. m \in Answers
  BY <1>1 DEF Answers
<1>3. q.page \in Histories => Found(m, rows, output)
  BY DEF HarmlessInv, QueriesAsked, Found
<1>4. Answer(q, m) /\ UNCHANGED <<killer, request, windows, rows, output>>
  BY DEF SelectCount, QueryUnchanged, runVars
<1> HIDE DEF m
<1> QED
  BY <1>2, <1>3, <1>4, HarmlessAnswer

LEMMA HarmlessSelectPage ==
  ASSUME TypeOK, HarmlessInv, NEW q \in queries, SelectPage(q)
  PROVE  HarmlessInv'
<1>1. UNCHANGED <<killer, request, response, windows, rows, output>>
  BY DEF SelectPage, QueryUnchanged, runVars
<1>2. RequestsAsked' /\ AnswersFound' /\ WindowsServed'
  BY <1>1 DEF HarmlessInv, RequestsAsked, AnswersFound, WindowsServed
<1>3. QueriesAsked'
  <2> DEFINE new == [q EXCEPT !.items = PageIds(q.run), !.counting = TRUE]
  <2>1. q \in QueryType /\ q.run \in Nat /\ q.kind = "page"
    BY DEF TypeOK, QueryType, SelectPage
  <2>2. new.page = q.page /\ new.kind = q.kind /\ new.run = q.run /\ new.items = PageIds(q.run)
    BY <2>1 DEF QueryType
  <2>3. q.page \in Histories => Asked(q, rows) /\ q.run > 0
    BY <2>1 DEF HarmlessInv, QueriesAsked, Asked
  <2>4. q.page \in Histories => Asked(new, rows) /\ Range(new.items) \subseteq DOMAIN rows
    BY <2>1, <2>2, <2>3, PageOfRows DEF Asked, TypeOK
  <2>5. queries' = (queries \ {q}) \union {new}
    BY DEF SelectPage
  <2> HIDE DEF new
  <2> QED
    BY <1>1, <2>2, <2>4, <2>5 DEF HarmlessInv, QueriesAsked
<1> QED
  BY <1>1, <1>2, <1>3 DEF HarmlessInv

\* Only a console asks for the text of a run that was not stored.
LEMMA HarmlessThrows ==
  ASSUME TypeOK, HarmlessInv, NEW q \in queries, GetHistoryOutputThrows(q)
  PROVE  HarmlessInv'
<1>1. UNCHANGED <<request, response, windows, rows, output, queries>>
  BY DEF GetHistoryOutputThrows, QueryUnchanged, runVars
<1>2. killer' \notin Histories
  BY DEF GetHistoryOutputThrows, HarmlessInv, QueriesAsked, Asked, Stored
<1> QED
  BY <1>1, <1>2 DEF HarmlessInv, RequestsAsked, AnswersFound, QueriesAsked, WindowsServed

LEMMA HarmlessDownload ==
  ASSUME TypeOK, HarmlessInv, NEW w \in windows, Download(w)
  PROVE  HarmlessInv'
<1>1. UNCHANGED <<request, response, rows, output, queries>> /\ windows' \subseteq windows
  BY DEF Download, runVars
<1>2. killer' \notin Histories
  BY DEF Download, HarmlessInv, WindowsServed
<1> QED
  BY <1>1, <1>2 DEF HarmlessInv, RequestsAsked, AnswersFound, QueriesAsked, WindowsServed

LEMMA AnswersReceived ==
  ASSUME TypeOK, HarmlessInv, NEW p \in Pages, NEW kind, Received(p, kind)
  PROVE  /\ AnswersFound' /\ RequestsAsked' /\ QueriesAsked' /\ killer' \notin Histories
         /\ p \in Histories => Found(Head(response[p]), rows, output)
         /\ Head(response[p]).kind = kind /\ output' = output
<1>1. /\ response' = [response EXCEPT ![p] = Tail(@)]
      /\ response[p] # <<>> /\ response \in [Pages -> Seq(Answers)] /\ response[p] \in Seq(Answers)
      /\ UNCHANGED <<killer, output, queries, request, rows>>
  BY DEF Received, serverVars, runVars, TypeOK
<1>2. \A o \in Pages : \A i \in DOMAIN response'[o] :
        \E j \in DOMAIN response[o] : response'[o][i] = response[o][j]
  BY <1>1, ElementsRemoved
<1>3. AnswersFound'
  <2> SUFFICES ASSUME NEW o \in Histories, NEW i \in DOMAIN response'[o]
               PROVE  Found(response'[o][i], rows', output')
    BY DEF AnswersFound
  <2>1. PICK j \in DOMAIN response[o] : response'[o][i] = response[o][j]
    BY <1>2 DEF Pages
  <2> QED
    BY <1>1, <2>1 DEF HarmlessInv, AnswersFound
<1>4. 1 \in DOMAIN response[p] /\ response[p][1] = Head(response[p])
  BY <1>1, TailElements
<1>5. p \in Histories => Found(Head(response[p]), rows, output)
  BY <1>4 DEF HarmlessInv, AnswersFound
<1> QED
  BY <1>1, <1>3, <1>5 DEF HarmlessInv, RequestsAsked, QueriesAsked, Received

LEMMA HarmlessReceived ==
  ASSUME TypeOK, HarmlessInv, NEW p \in Pages, OnResultFromDb(p) \/ OnResult(p)
  PROVE  HarmlessInv'
<1>1. CASE OnResultFromDb(p)
  <2>1. p \in Histories => output # NoText
    BY <1>1, AnswersReceived DEF OnResultFromDb, Found
  <2>2. output' = output /\ \A w \in windows' \ windows : w.page = p
    BY <1>1, AnswersReceived DEF OnResultFromDb
  <2> QED
    BY <1>1, <2>1, <2>2, AnswersReceived DEF OnResultFromDb, HarmlessInv, WindowsServed
<1>2. CASE OnResult(p)
  BY <1>2, AnswersReceived DEF OnResult, HarmlessInv, WindowsServed
<1> QED
  BY <1>1, <1>2

-----------------------------------------------------------------------------
(* Every step.                                                             *)

HistoryInv == TypeOK /\ HarmlessInv

LEMMA HistoryInvUser ==
  ASSUME HistoryInv, User
  PROVE  HistoryInv'
<1>1. HarmlessInv'
  BY HarmlessClicks DEF HistoryInv
<1>2. TypeOK'
  <2>1. ASSUME NEW p \in Consoles, Start(p)
        PROVE  TypeOK'
    BY <2>1, TypeStart DEF HistoryInv
  <2>2. ASSUME NEW p \in Consoles, NEW kind, Ask(p, kind, console[p].run), console[p].run # 0,
               windows' \subseteq [id : Nat, page : Pages]
        PROVE  TypeOK'
    <3>1. console[p].run \in Runs /\ p \in Pages
      BY <2>2, BoundAssumption DEF HistoryInv, TypeOK, Runs, Pages
    <3> QED
      BY <2>2, <3>1, TypeAsk DEF HistoryInv
  <2>3. ASSUME NEW p \in Consoles, downloadOutput(p) \/ downloadProgressLog(p)
        PROVE  TypeOK'
    <3>1. console[p].run # 0 /\ windows' \subseteq [id : Nat, page : Pages]
      BY <2>3 DEF HistoryInv, TypeOK, downloadOutput, downloadProgressLog
    <3>2. PICK kind : Ask(p, kind, console[p].run)
      BY <2>3 DEF downloadOutput, downloadProgressLog
    <3> QED
      BY <2>2, <3>1, <3>2
  <2>4. ASSUME NEW p \in Consoles, downloadExplainLog(p)
        PROVE  TypeOK'
    <3>1. Ask(p, "explain", console[p].run) /\ console[p].run # 0
      BY <2>4 DEF downloadExplainLog
    <3>2. windows' \subseteq [id : Nat, page : Pages]
      BY <2>4 DEF HistoryInv, TypeOK, downloadExplainLog, Pages
    <3> QED
      BY <2>2, <3>1, <3>2
  <2>5. ASSUME NEW p \in Histories, NEW id \in DOMAIN rows, downloadHistoryOutput(p, id)
        PROVE  TypeOK'
    <3>1. Ask(p, "error", rows[id]) /\ rows[id] \in Runs /\ p \in Pages
            /\ windows' \subseteq [id : Nat, page : Pages]
      BY <2>5 DEF HistoryInv, TypeOK, downloadHistoryOutput, Pages
    <3> QED
      BY <3>1, TypeAsk DEF HistoryInv
  <2>6. ASSUME NEW p \in Histories, historyNextPage(p) \/ historyLastPage(p)
        PROVE  TypeOK'
    <3>1. PICK current \in Nat : Turn(p, current)
      <4>1. history[p].current \in Nat
        BY DEF HistoryInv, TypeOK
      <4> QED
        BY <2>6, <4>1 DEF historyNextPage, historyLastPage
    <3> QED
      BY <3>1, TypeTurn DEF HistoryInv
  <2> QED
    BY <2>1, <2>3, <2>4, <2>5, <2>6 DEF User
<1> QED
  BY <1>1, <1>2 DEF HistoryInv

LEMMA HistoryInvServer ==
  ASSUME HistoryInv, Server
  PROVE  HistoryInv'
<1> USE DEF HistoryInv
<1>1. ASSUME NEW p \in Pages,
             OnDownloadHistoryOutput(p) \/ OnDownloadProgressLog(p) \/ OnHistorycurrentPage(p)
      PROVE  HistoryInv'
  <2>1. PICK kinds : Handling(p, kinds) /\ Query(p) /\ output' = output
    BY <1>1 DEF OnDownloadHistoryOutput, OnDownloadProgressLog, OnHistorycurrentPage
  <2> QED
    BY <1>1, <2>1, TypeServer, HarmlessQuery
<1>2. ASSUME NEW p \in Pages, OnDownloadExplainLog(p)
      PROVE  HistoryInv'
  BY <1>2, TypeExplain, HarmlessExplain
<1>3. ASSUME NEW q \in queries, GetHistoryOutput(q) \/ GetProgressLog(q)
      PROVE  HistoryInv'
  BY <1>3, TypeDone, HarmlessDone
<1>4. ASSUME NEW q \in queries, GetHistoryOutputThrows(q)
      PROVE  HistoryInv'
  BY <1>4, TypeThrows, HarmlessThrows
<1>5. ASSUME NEW q \in queries, SelectPage(q)
      PROVE  HistoryInv'
  BY <1>5, TypeSelectPage, HarmlessSelectPage
<1>6. ASSUME NEW q \in queries, SelectCount(q)
      PROVE  HistoryInv'
  BY <1>6, TypeSelectCount, HarmlessSelectCount
<1>7. ASSUME NEW w \in windows, Download(w)
      PROVE  HistoryInv'
  BY <1>7, TypeDownload, HarmlessDownload
<1> QED
  BY <1>1, <1>2, <1>3, <1>4, <1>5, <1>6, <1>7 DEF Server

LEMMA HistoryInvNext ==
  ASSUME HistoryInv, [Next]_vars
  PROVE  HistoryInv'
<1>1. CASE User
  BY <1>1, HistoryInvUser
<1>2. CASE Server
  BY <1>2, HistoryInvServer
<1>3. ASSUME NEW r \in Runs, NEW state \in {"Fail", "Success", "unstored"}, Ends(r, state)
      PROVE  HistoryInv'
  BY <1>3, TypeEnds, HarmlessRuns DEF HistoryInv
<1>4. ASSUME NEW p \in Pages, OnResultFromDb(p)
      PROVE  HistoryInv'
  BY <1>4, TypeWindow, HarmlessReceived DEF HistoryInv
<1>5. ASSUME NEW p \in Pages, OnResult(p)
      PROVE  HistoryInv'
  BY <1>5, TypeShown, HarmlessReceived DEF HistoryInv
<1>6. CASE UNCHANGED vars
  BY <1>6 DEF HistoryInv, TypeOK, HarmlessInv, RequestsAsked, AnswersFound, QueriesAsked,
              WindowsServed, vars, serverVars, runVars, observed
<1> QED
  BY <1>1, <1>2, <1>3, <1>4, <1>5, <1>6 DEF Next

LEMMA HistoryInvariant == Spec => []HistoryInv
<1>1. Init => HistoryInv
  BY TypeInit, HarmlessInit DEF HistoryInv
<1>2. HistoryInv /\ [Next]_vars => HistoryInv'
  BY HistoryInvNext
<1> QED
  BY <1>1, <1>2, PTL DEF Spec

\* For any number of pages, runs, rows and clicks every variable keeps its type,
\* and what a history page shows are rows of the table.
THEOREM HistoryTypes == Spec => []TypeOK
<1>1. HistoryInv => TypeOK
  BY DEF HistoryInv
<1> QED
  BY <1>1, HistoryInvariant, PTL

\* For any number of pages, runs, rows and clicks: no click on a history page
\* ends the server.
THEOREM HistoryPagesAreHarmless == Spec => []HistoryIsHarmless
<1>1. HistoryInv => HistoryIsHarmless
  BY DEF HistoryInv, HarmlessInv, HistoryIsHarmless
<1> QED
  BY <1>1, HistoryInvariant, PTL

-----------------------------------------------------------------------------
(* At most one download is under way, and it is what its page wants.       *)

\* t holds the same download as s, or none as s does.
Same(s, t) ==
  /\ Plain(s) => Plain(t)
  /\ \A i \in DOMAIN s : OnlyDownload(s, i) => \E j \in DOMAIN t : OnlyDownload(t, j) /\ t[j] = s[i]

LEMMA SameAppended ==
  ASSUME NEW S, NEW s \in Seq(S), NEW m \in S, m.kind = "page"
  PROVE  Same(s, Append(s, m))
<1> DEFINE t == Append(s, m)
           n == Len(s) + 1
<1>1. DOMAIN t = DOMAIN s \union {n} /\ t[n] = m /\ n \notin DOMAIN s /\ \A i \in DOMAIN s : t[i] = s[i]
  BY AppendElements
<1> HIDE DEF t, n
<1>2. Plain(s) => Plain(t)
  BY <1>1 DEF Plain
<1>3. ASSUME NEW i \in DOMAIN s, OnlyDownload(s, i)
      PROVE  OnlyDownload(t, i) /\ t[i] = s[i] /\ i \in DOMAIN t
  BY <1>1, <1>3 DEF OnlyDownload
<1> QED
  BY <1>2, <1>3 DEF Same, t

LEMMA SameTail ==
  ASSUME NEW S, NEW s \in Seq(S), s # <<>>, Head(s).kind = "page"
  PROVE  Same(s, Tail(s))
<1> DEFINE t == Tail(s)
<1>1. /\ 1 \in DOMAIN s /\ s[1].kind = "page"
      /\ \A i \in DOMAIN t : i + 1 \in DOMAIN s /\ i + 1 # 1 /\ t[i] = s[i + 1]
      /\ \A i \in DOMAIN s \ {1} : i - 1 \in DOMAIN t /\ t[i - 1] = s[i]
  BY TailElements
<1>2. DOMAIN s \subseteq Int /\ DOMAIN t \subseteq Int
  <2>1. t \in Seq(S)
    BY TailElements
  <2> QED
    BY <2>1
<1> HIDE DEF t
<1>3. Plain(s) => Plain(t)
  BY <1>1 DEF Plain
<1>4. ASSUME NEW i \in DOMAIN s, OnlyDownload(s, i)
      PROVE  \E j \in DOMAIN t : OnlyDownload(t, j) /\ t[j] = s[i]
  <2>1. i # 1 /\ i - 1 \in DOMAIN t /\ t[i - 1] = s[i] /\ s[i].kind # "page"
    BY <1>1, <1>4 DEF OnlyDownload
  <2>2. ASSUME NEW j \in DOMAIN t \ {i - 1}
        PROVE  t[j].kind = "page"
    <3>1. j + 1 \in DOMAIN s \ {i} /\ t[j] = s[j + 1]
      BY <1>1, <1>2
    <3> QED
      BY <1>4, <3>1 DEF OnlyDownload
  <2>3. OnlyDownload(t, i - 1)
    BY <2>1, <2>2 DEF OnlyDownload
  <2> QED
    BY <2>1, <2>3
<1> QED
  BY <1>3, <1>4 DEF Same, t

LEMMA DownloadAppended ==
  ASSUME NEW S, NEW s \in Seq(S), NEW m \in S, m.kind # "page", Plain(s)
  PROVE  \E i \in DOMAIN Append(s, m) : OnlyDownload(Append(s, m), i) /\ Append(s, m)[i] = m
<1> DEFINE t == Append(s, m)
           n == Len(s) + 1
<1>1. DOMAIN t = DOMAIN s \union {n} /\ t[n] = m /\ \A i \in DOMAIN s : t[i] = s[i]
  BY AppendElements
<1> HIDE DEF t, n
<1>2. n \in DOMAIN t /\ OnlyDownload(t, n) /\ t[n] = m
  BY <1>1 DEF Plain, OnlyDownload
<1> QED
  BY <1>2 DEF t

\* The download that is taken off a sequence is the only one.
LEMMA DownloadTaken ==
  ASSUME NEW S, NEW s \in Seq(S), s # <<>>, Head(s).kind # "page"
  PROVE  ~Plain(s) /\ \A i \in DOMAIN s : OnlyDownload(s, i) => s[i] = Head(s) /\ Plain(Tail(s))
<1> DEFINE t == Tail(s)
<1>1. /\ 1 \in DOMAIN s /\ s[1] = Head(s)
      /\ \A i \in DOMAIN t : i + 1 \in DOMAIN s /\ i + 1 # 1 /\ t[i] = s[i + 1]
  BY TailElements
<1>2. \A i \in DOMAIN s : OnlyDownload(s, i) => i = 1
  BY <1>1 DEF OnlyDownload
<1> HIDE DEF t
<1>3. OnlyDownload(s, 1) => Plain(t)
  BY <1>1 DEF OnlyDownload, Plain
<1> QED
  BY <1>1, <1>2, <1>3 DEF Plain, t

\* A step that moves pages of the history only.
LEMMA PagesMove ==
  ASSUME OneDownload,
         \A p \in Pages : Same(request[p], request'[p]) /\ Same(response[p], response'[p]),
         \A q : q.kind # "page" => (q \in queries <=> q \in queries'),
         UNCHANGED <<windows, output, uuid, wanted>>
  PROVE  OneDownload'
<1>1. NoRequests => NoRequests'
  BY DEF NoRequests, Same
<1>2. NoAnswers => NoAnswers'
  BY DEF NoAnswers, Same
<1>3. NoQueries => NoQueries'
  BY DEF NoQueries
<1>4. CASE DownloadsIdle
  BY <1>1, <1>2, <1>3, <1>4 DEF DownloadsIdle, NoRequests, NoAnswers, NoQueries, Plain, OneDownload
<1>5. ASSUME NEW p \in Pages, NEW i \in DOMAIN request[p], Requested(p, i)
      PROVE  OneDownload'
  <2>1. PICK j \in DOMAIN request'[p] : OnlyDownload(request'[p], j) /\ request'[p][j] = request[p][i]
    BY <1>5 DEF Requested, Same
  <2>2. \A o \in Pages \ {p} : Plain(request'[o])
    BY <1>5 DEF Requested, Same
  <2>3. Requested(p, j)'
    BY <1>2, <1>3, <1>5, <2>1, <2>2 DEF Requested, WantedBy
  <2> QED
    BY <2>1, <2>3 DEF OneDownload
<1>6. ASSUME NEW q \in queries, Queried(q)
      PROVE  OneDownload'
  <2>1. q \in queries' /\ \A o \in queries' \ {q} : o.kind = "page"
    BY <1>6 DEF Queried
  <2>2. Queried(q)'
    BY <1>1, <1>2, <1>6, <2>1 DEF Queried, WantedBy
  <2> QED
    BY <2>1, <2>2 DEF OneDownload
<1>7. ASSUME NEW p \in Pages, NEW i \in DOMAIN response[p], Answered(p, i)
      PROVE  OneDownload'
  <2>1. PICK j \in DOMAIN response'[p] : OnlyDownload(response'[p], j) /\ response'[p][j] = response[p][i]
    BY <1>7 DEF Answered, Same
  <2>2. \A o \in Pages \ {p} : Plain(response'[o])
    BY <1>7 DEF Answered, Same
  <2>3. Answered(p, j)'
    BY <1>1, <1>3, <1>7, <2>1, <2>2 DEF Answered, Held
  <2> QED
    BY <2>1, <2>3 DEF OneDownload
<1>8. ASSUME NEW w \in windows, Opened(w)
      PROVE  OneDownload'
  BY <1>1, <1>2, <1>3, <1>8 DEF Opened, Held, OneDownload
<1> QED
  BY <1>4, <1>5, <1>6, <1>7, <1>8 DEF OneDownload

LEMMA SameItself == \A s : Same(s, s)
  BY DEF Same

LEMMA RequestAppended ==
  ASSUME TypeOK, NEW p \in Pages, NEW m \in Message, Click(p, m)
  PROVE  /\ request'[p] = Append(request[p], m) /\ request[p] \in Seq(Message)
         /\ \A o \in Pages \ {p} : request'[o] = request[o]
  BY DEF TypeOK, Click

LEMMA RequestTaken ==
  ASSUME TypeOK, NEW p \in Pages, NEW kinds, Handling(p, kinds)
  PROVE  /\ request'[p] = Tail(request[p]) /\ request[p] \in Seq(Message) /\ request[p] # <<>>
         /\ Head(request[p]).kind \in kinds
         /\ \A o \in Pages \ {p} : request'[o] = request[o]
  BY DEF TypeOK, Handling

LEMMA ResponseTaken ==
  ASSUME TypeOK, NEW p \in Pages, NEW kind, Received(p, kind)
  PROVE  /\ response'[p] = Tail(response[p]) /\ response[p] \in Seq(Answers) /\ response[p] # <<>>
         /\ Head(response[p]).kind = kind
         /\ \A o \in Pages \ {p} : response'[o] = response[o]
  BY DEF TypeOK, Received

LEMMA ResponseAppended ==
  ASSUME TypeOK, NEW q \in queries, NEW m \in Answers, Answer(q, m)
  PROVE  /\ q.page \in Pages
         /\ response'[q.page] = Append(response[q.page], m) /\ response[q.page] \in Seq(Answers)
         /\ \A o \in Pages \ {q.page} : response'[o] = response[o]
<1>1. q.page \in Pages
  BY DEF TypeOK, QueryType
<1> QED
  BY <1>1 DEF TypeOK, Answer

LEMMA OwnInit == Init => OwnInv
<1> SUFFICES ASSUME Init PROVE OwnInv
  OBVIOUS
<1>1. \A p \in Pages : /\ \A i \in DOMAIN request[p] : request[p][i].kind = "page"
                       /\ response[p] = <<>>
  BY DEF Init, PageRequest
<1>2. DownloadsIdle
  BY <1>1 DEF Init, DownloadsIdle
<1> QED
  BY <1>2 DEF Init, OwnInv, OneDownload, NoText

LEMMA OwnAsk ==
  ASSUME TypeOK, OwnInv, NEW p \in Pages, NEW kind, NEW run \in Runs, Ask(p, kind, run),
         kind # "explain" => UNCHANGED windows
  PROVE  OwnInv'
<1> SUFFICES ASSUME orderly' PROVE OwnInv'
  BY DEF OwnInv
<1>1. orderly /\ DownloadsIdle /\ kind # "explain" /\ kind \in AllDownloads
  BY BoundAssumption DEF Ask
<1> DEFINE m == [kind |-> kind, run |-> run, id |-> clicks + 1]
<1>2. m \in Message /\ m.kind = kind /\ m.run = run /\ m.kind # "page"
  BY <1>1 DEF Message, TypeOK, AllDownloads, Runs
<1>3. Click(p, m)
  BY DEF Ask
<1> HIDE DEF m
<1>4. /\ request'[p] = Append(request[p], m) /\ request[p] \in Seq(Message)
      /\ \A o \in Pages \ {p} : request'[o] = request[o]
  BY <1>2, <1>3, RequestAppended
<1>5. NoQueries /\ NoAnswers /\ windows = {} /\ \A o \in Pages : Plain(request[o])
  BY <1>1 DEF DownloadsIdle, NoQueries, NoAnswers, Plain
<1>6. UNCHANGED <<queries, response, served>> /\ windows' = {}
  BY <1>1, <1>3, <1>5 DEF Click, serverVars
<1>7. PICK i \in DOMAIN request'[p] : OnlyDownload(request'[p], i) /\ request'[p][i] = m
  BY <1>2, <1>4, <1>5, DownloadAppended
<1>8. wanted'[p] = [kind |-> kind, run |-> run]
  BY DEF Ask, TypeOK
<1>9. Requested(p, i)'
  BY <1>1, <1>2, <1>4, <1>5, <1>6, <1>7, <1>8 DEF Requested, WantedBy, NoQueries, NoAnswers
<1> QED
  BY <1>1, <1>6, <1>7, <1>9 DEF OwnInv, OneDownload

LEMMA OwnTurn ==
  ASSUME TypeOK, OwnInv, NEW p \in Histories, NEW current \in Nat, Turn(p, current)
  PROVE  OwnInv'
<1> DEFINE m == PageRequest(current, clicks + 1)
<1>1. m \in Message /\ m.kind = "page" /\ p \in Pages
  BY DEF PageRequest, Message, TypeOK, Pages
<1>2. Click(p, m) /\ UNCHANGED <<windows, wanted, orderly>>
  BY DEF Turn
<1> HIDE DEF m
<1>3. \A o \in Pages : Same(request[o], request'[o])
  <2>1. /\ request'[p] = Append(request[p], m) /\ request[p] \in Seq(Message)
        /\ \A o \in Pages \ {p} : request'[o] = request[o]
    BY <1>1, <1>2, RequestAppended
  <2>2. Same(request[p], request'[p])
    BY <1>1, <2>1, SameAppended
  <2> QED
    BY <2>1, <2>2, SameItself
<1>4. UNCHANGED <<queries, response, served, output, uuid>>
  BY <1>2 DEF Click, serverVars
<1>5. OneDownload => OneDownload'
  BY <1>2, <1>3, <1>4, PagesMove, SameItself
<1> QED
  BY <1>2, <1>4, <1>5 DEF OwnInv

LEMMA OwnPageQuery ==
  ASSUME TypeOK, OwnInv, NEW p \in Pages, OnHistorycurrentPage(p)
  PROVE  OwnInv'
<1>1. Handling(p, {"page"}) /\ Query(p) /\ UNCHANGED <<output, uuid>>
  BY DEF OnHistorycurrentPage
<1>2. Head(request[p]).kind = "page"
  BY <1>1, RequestTaken
<1>3. \A o \in Pages : Same(request[o], request'[o])
  BY <1>1, <1>2, RequestTaken, SameTail, SameItself
<1>4. \A q : q.kind # "page" => (q \in queries <=> q \in queries')
  BY <1>1, <1>2 DEF Query
<1>5. UNCHANGED <<response, windows, wanted, served, orderly>>
  BY <1>1 DEF Handling, observed
<1>6. OneDownload => OneDownload'
  BY <1>1, <1>3, <1>4, <1>5, PagesMove, SameItself
<1> QED
  BY <1>5, <1>6 DEF OwnInv

LEMMA OwnSelect ==
  ASSUME TypeOK, OwnInv, NEW q \in queries, SelectPage(q) \/ SelectCount(q)
  PROVE  OwnInv'
<1>1. q.kind = "page" /\ UNCHANGED <<output, uuid, request, windows, wanted, served, orderly>>
  BY DEF SelectPage, SelectCount, QueryUnchanged, observed
<1>2. \A o : o.kind # "page" => (o \in queries <=> o \in queries')
  <2>1. CASE SelectPage(q)
    <3>1. [q EXCEPT !.items = PageIds(q.run), !.counting = TRUE].kind = "page"
      BY <1>1 DEF TypeOK, QueryType
    <3> QED
      BY <1>1, <2>1, <3>1 DEF SelectPage
  <2>2. CASE SelectCount(q)
    BY <1>1, <2>2 DEF SelectCount, Answer
  <2> QED
    BY <2>1, <2>2
<1>3. \A o \in Pages : Same(response[o], response'[o])
  <2>1. CASE SelectPage(q)
    BY <2>1, SameItself DEF SelectPage
  <2>2. CASE SelectCount(q)
    <3> DEFINE m == [kind |-> "page", items |-> q.items, number |-> Len(rows)]
    <3>1. q.items \in Seq(Nat \ {0}) /\ Len(rows) \in Nat
      BY DEF TypeOK, QueryType
    <3>2. m \in Answers /\ m.kind = "page"
      BY <3>1 DEF Answers
    <3>3. Answer(q, m)
      BY <2>2 DEF SelectCount
    <3> HIDE DEF m
    <3>4. /\ response'[q.page] = Append(response[q.page], m) /\ response[q.page] \in Seq(Answers)
          /\ \A o \in Pages \ {q.page} : response'[o] = response[o]
      BY <3>2, <3>3, ResponseAppended
    <3>5. Same(response[q.page], response'[q.page])
      BY <3>2, <3>4, SameAppended
    <3> QED
      BY <3>4, <3>5, SameItself
  <2> QED
    BY <2>1, <2>2
<1>4. OneDownload => OneDownload'
  BY <1>1, <1>2, <1>3, PagesMove, SameItself
<1> QED
  BY <1>1, <1>4 DEF OwnInv

LEMMA OwnShown ==
  ASSUME TypeOK, OwnInv, NEW p \in Pages, OnResult(p)
  PROVE  OwnInv'
<1>1. Received(p, "page") /\ UNCHANGED windows
  BY DEF OnResult
<1>2. UNCHANGED <<queries, output, uuid, request, wanted, served, orderly>>
  BY <1>1 DEF Received, serverVars
<1>3. \A o \in Pages : Same(response[o], response'[o])
  BY <1>1, ResponseTaken, SameTail, SameItself
<1>4. OneDownload => OneDownload'
  BY <1>1, <1>2, <1>3, PagesMove, SameItself
<1> QED
  BY <1>2, <1>4 DEF OwnInv

LEMMA OwnOthers ==
  ASSUME TypeOK, OwnInv,
         UNCHANGED <<queries, output, uuid, request, response, windows, wanted, served, orderly>>
  PROVE  OwnInv'
<1>1. OneDownload => OneDownload'
  BY PagesMove, SameItself
<1> QED
  BY <1>1 DEF OwnInv

\* A download that is seen on its way is the one that is under way.
LEMMA RequestIsOne ==
  ASSUME OneDownload, NEW p \in Pages, ~Plain(request[p])
  PROVE  \E i \in DOMAIN request[p] : Requested(p, i)
<1>1. ~DownloadsIdle /\ ~NoRequests
  BY DEF DownloadsIdle, NoRequests, Plain
<1>2. ASSUME NEW o \in Pages, NEW i \in DOMAIN request[o], Requested(o, i)
      PROVE  o = p
  BY <1>2 DEF Requested
<1> QED
  BY <1>1, <1>2 DEF OneDownload, Queried, Answered, Opened

LEMMA QueryIsOne ==
  ASSUME OneDownload, NEW q \in queries, q.kind # "page"
  PROVE  Queried(q)
<1>1. ~DownloadsIdle /\ ~NoQueries
  BY DEF DownloadsIdle, NoQueries
<1>2. ASSUME NEW o \in queries, Queried(o)
      PROVE  o = q
  BY <1>2 DEF Queried
<1> QED
  BY <1>1, <1>2 DEF OneDownload, Requested, Answered, Opened

LEMMA AnswerIsOne ==
  ASSUME OneDownload, NEW p \in Pages, ~Plain(response[p])
  PROVE  \E i \in DOMAIN response[p] : Answered(p, i)
<1>1. ~DownloadsIdle /\ ~NoAnswers
  BY DEF DownloadsIdle, NoAnswers, Plain
<1>2. ASSUME NEW o \in Pages, NEW i \in DOMAIN response[o], Answered(o, i)
      PROVE  o = p
  BY <1>2 DEF Answered
<1> QED
  BY <1>1, <1>2 DEF OneDownload, Requested, Queried, Opened

LEMMA WindowIsOne ==
  ASSUME OneDownload, NEW w \in windows
  PROVE  Opened(w)
<1>1. ~DownloadsIdle /\ windows # {}
  BY DEF DownloadsIdle
<1>2. ASSUME NEW o \in windows, Opened(o)
      PROVE  o = w
  BY <1>2 DEF Opened
<1> QED
  BY <1>1, <1>2 DEF OneDownload, Requested, Queried, Answered

\* From the message to its query.
LEMMA OwnQuery ==
  ASSUME TypeOK, OwnInv, NEW p \in Pages, OnDownloadHistoryOutput(p) \/ OnDownloadProgressLog(p)
  PROVE  OwnInv'
<1> SUFFICES ASSUME orderly' PROVE OwnInv'
  BY DEF OwnInv
<1> DEFINE m == Head(request[p])
<1>1. PICK kinds \in {{"output", "error"}, {"progress"}} :
        Handling(p, kinds) /\ Query(p) /\ uuid' = m.run
  BY DEF OnDownloadHistoryOutput, OnDownloadProgressLog
<1>2. /\ request'[p] = Tail(request[p]) /\ request[p] \in Seq(Message) /\ request[p] # <<>>
      /\ \A o \in Pages \ {p} : request'[o] = request[o]
      /\ m.kind # "page"
  BY <1>1, RequestTaken
<1>3. orderly /\ UNCHANGED <<response, windows, wanted, served>>
  BY <1>1 DEF Handling, observed
<1>4. /\ ~Plain(request[p])
      /\ \A i \in DOMAIN request[p] :
           OnlyDownload(request[p], i) => request[p][i] = m /\ Plain(Tail(request[p]))
  BY <1>2, DownloadTaken
<1>5. PICK i \in DOMAIN request[p] : Requested(p, i)
  BY <1>3, <1>4, RequestIsOne DEF OwnInv
<1>6. request[p][i] = m /\ Plain(Tail(request[p]))
  BY <1>4, <1>5 DEF Requested
<1>7. WantedBy(p, m.kind, m.run)
  BY <1>5, <1>6 DEF Requested
<1>8. PICK q : q = [id |-> m.id, page |-> p, kind |-> m.kind, run |-> m.run, items |-> <<>>,
                    counting |-> FALSE]
  OBVIOUS
<1>9. queries' = queries \union {q} /\ q.kind = m.kind /\ q.run = m.run /\ q.page = p
  BY <1>1, <1>8 DEF Query
<1> HIDE DEF m
<1>10. NoRequests'
  BY <1>2, <1>5, <1>6 DEF Requested, NoRequests
<1>11. NoAnswers' /\ windows' = {} /\ \A o \in queries' \ {q} : o.kind = "page"
  BY <1>3, <1>5, <1>9 DEF Requested, NoAnswers, NoQueries
<1>12. Queried(q)' /\ q \in queries'
  BY <1>1, <1>2, <1>3, <1>7, <1>9, <1>10, <1>11 DEF Queried, WantedBy
<1> QED
  BY <1>3, <1>12 DEF OwnInv, OneDownload

\* A download of an explain is not orderly.
LEMMA OwnExplain ==
  ASSUME TypeOK, OwnInv, NEW p \in Pages, OnDownloadExplainLog(p)
  PROVE  OwnInv'
<1> SUFFICES ASSUME orderly PROVE FALSE
  BY DEF OwnInv, OnDownloadExplainLog, Handling, observed
<1> DEFINE m == Head(request[p])
<1>1. request[p] \in Seq(Message) /\ request[p] # <<>> /\ m.kind = "explain"
  BY RequestTaken DEF OnDownloadExplainLog
<1>2. /\ ~Plain(request[p])
      /\ \A i \in DOMAIN request[p] : OnlyDownload(request[p], i) => request[p][i] = m
  BY <1>1, DownloadTaken
<1>3. PICK i \in DOMAIN request[p] : Requested(p, i)
  BY <1>2, RequestIsOne DEF OwnInv
<1> QED
  BY <1>1, <1>2, <1>3 DEF Requested, WantedBy

\* From the query to its answer.
LEMMA OwnDone ==
  ASSUME TypeOK, OwnInv, NEW q \in queries, GetHistoryOutput(q) \/ GetProgressLog(q)
  PROVE  OwnInv'
<1> SUFFICES ASSUME orderly' PROVE OwnInv'
  BY DEF OwnInv
<1> DEFINE m == [kind |-> "done", id |-> q.id]
<1>1. /\ Answer(q, m) /\ output' = [kind |-> q.kind, run |-> q.run] /\ q.kind # "page"
      /\ UNCHANGED <<uuid, request, windows, wanted, served>> /\ orderly
  BY DEF GetHistoryOutput, GetProgressLog, QueryUnchanged, observed
<1>2. m \in Answers /\ m.kind # "page"
  BY DEF Answers, TypeOK, QueryType
<1>3. Queried(q)
  BY <1>1, QueryIsOne DEF OwnInv
<1> HIDE DEF m
<1>4. /\ q.page \in Pages
      /\ response'[q.page] = Append(response[q.page], m) /\ response[q.page] \in Seq(Answers)
      /\ \A o \in Pages \ {q.page} : response'[o] = response[o]
  BY <1>1, <1>2, ResponseAppended
<1>5. \A o \in Pages : Plain(response[o])
  BY <1>3 DEF Queried, NoAnswers
<1>6. PICK i \in DOMAIN response'[q.page] : OnlyDownload(response'[q.page], i)
  BY <1>2, <1>4, <1>5, DownloadAppended
<1>7. NoRequests' /\ NoQueries' /\ windows' = {}
  BY <1>1, <1>3 DEF Queried, NoRequests, NoQueries, Answer
<1>8. Held(q.page)'
  <2>1. wanted[q.page] = [kind |-> q.kind, run |-> q.run] /\ uuid = q.run
    BY <1>3 DEF Queried, WantedBy
  <2> QED
    BY <1>1, <2>1 DEF Held
<1>9. Answered(q.page, i)'
  BY <1>4, <1>5, <1>6, <1>7, <1>8 DEF Answered
<1> QED
  BY <1>1, <1>4, <1>6, <1>9 DEF OwnInv, OneDownload

\* From the answer to its window.
LEMMA OwnWindow ==
  ASSUME TypeOK, OwnInv, NEW p \in Pages, OnResultFromDb(p)
  PROVE  OwnInv'
<1> SUFFICES ASSUME orderly' PROVE OwnInv'
  BY DEF OwnInv
<1>0. PICK w : w = [id |-> Head(response[p]).id, page |-> p]
  OBVIOUS
<1>1. Received(p, "done") /\ windows' = windows \union {w} /\ w.page = p
  BY <1>0 DEF OnResultFromDb
<1>2. UNCHANGED <<queries, output, uuid, request, wanted, served>> /\ orderly
  BY <1>1 DEF Received, serverVars
<1>3. /\ response'[p] = Tail(response[p]) /\ response[p] \in Seq(Answers) /\ response[p] # <<>>
      /\ Head(response[p]).kind # "page"
      /\ \A o \in Pages \ {p} : response'[o] = response[o]
  BY <1>1, ResponseTaken
<1>4. /\ ~Plain(response[p])
      /\ \A i \in DOMAIN response[p] : OnlyDownload(response[p], i) => Plain(Tail(response[p]))
  BY <1>3, DownloadTaken
<1>5. PICK i \in DOMAIN response[p] : Answered(p, i)
  BY <1>2, <1>4, AnswerIsOne DEF OwnInv
<1>6. NoAnswers'
  BY <1>3, <1>4, <1>5 DEF Answered, NoAnswers
<1>7. NoRequests' /\ NoQueries' /\ windows' = {w}
  BY <1>1, <1>2, <1>5 DEF Answered, NoRequests, NoQueries
<1>8. Held(p)'
  BY <1>2, <1>5 DEF Answered, Held
<1>9. Opened(w)' /\ w \in windows'
  BY <1>1, <1>6, <1>7, <1>8 DEF Opened
<1> QED
  BY <1>2, <1>9 DEF OwnInv, OneDownload

\* The window is served what its page wants.
LEMMA OwnServed ==
  ASSUME TypeOK, OwnInv, NEW w \in windows, Download(w)
  PROVE  OwnInv'
<1> SUFFICES ASSUME orderly' PROVE OwnInv'
  BY DEF OwnInv
<1>1. orderly /\ UNCHANGED <<request, response, queries>> /\ windows' = windows \ {w}
  BY DEF Download
<1>2. Opened(w)
  BY <1>1, WindowIsOne DEF OwnInv
<1>3. DownloadsIdle'
  BY <1>1, <1>2 DEF Opened, DownloadsIdle, NoRequests, NoQueries, NoAnswers, Plain
<1>4. served'.text = served'.wanted /\ served'.name = served'.wanted.run
  <2>1. CASE output = NoText
    BY <1>1, <2>1 DEF Download, OwnInv
  <2>2. CASE output # NoText
    <3>1. served' = [name |-> uuid, text |-> output, wanted |-> wanted[w.page]]
      BY <2>2 DEF Download
    <3>2. output = wanted[w.page] /\ uuid = wanted[w.page].run
      BY <1>2 DEF Opened, Held
    <3> QED
      BY <3>1, <3>2
  <2> QED
    BY <2>1, <2>2
<1> QED
  BY <1>3, <1>4 DEF OwnInv, OneDownload

LEMMA OwnUser ==
  ASSUME HistoryInv, OwnInv, User
  PROVE  OwnInv'
<1>1. ASSUME NEW p \in Consoles, Start(p)
      PROVE  OwnInv'
  BY <1>1, OwnOthers DEF HistoryInv, Start, RunUnchanged, serverVars, observed
<1>2. ASSUME NEW p \in Consoles, NEW kind, Ask(p, kind, console[p].run), console[p].run # 0,
             kind # "explain" => UNCHANGED windows
      PROVE  OwnInv'
  <2>1. console[p].run \in Runs /\ p \in Pages
    BY <1>2, BoundAssumption DEF HistoryInv, TypeOK, Runs, Pages
  <2> QED
    BY <1>2, <2>1, OwnAsk DEF HistoryInv
<1>3. ASSUME NEW p \in Consoles, downloadOutput(p) \/ downloadProgressLog(p)
      PROVE  OwnInv'
  <2>1. console[p].run # 0 /\ UNCHANGED windows
    BY <1>3 DEF HistoryInv, TypeOK, downloadOutput, downloadProgressLog
  <2>2. PICK kind : Ask(p, kind, console[p].run)
    BY <1>3 DEF downloadOutput, downloadProgressLog
  <2> QED
    BY <1>2, <2>1, <2>2
<1>4. ASSUME NEW p \in Consoles, downloadExplainLog(p)
      PROVE  OwnInv'
  BY <1>2, <1>4 DEF downloadExplainLog
<1>5. ASSUME NEW p \in Histories, NEW id \in DOMAIN rows, downloadHistoryOutput(p, id)
      PROVE  OwnInv'
  <2>1. Ask(p, "error", rows[id]) /\ rows[id] \in Runs /\ p \in Pages /\ UNCHANGED windows
    BY <1>5 DEF HistoryInv, TypeOK, downloadHistoryOutput, Pages
  <2> QED
    BY <2>1, OwnAsk DEF HistoryInv
<1>6. ASSUME NEW p \in Histories, historyNextPage(p) \/ historyLastPage(p)
      PROVE  OwnInv'
  <2>1. PICK current \in Nat : Turn(p, current)
    <3>1. history[p].current \in Nat
      BY DEF HistoryInv, TypeOK
    <3> QED
      BY <1>6, <3>1 DEF historyNextPage, historyLastPage
  <2> QED
    BY <2>1, OwnTurn DEF HistoryInv
<1> QED
  BY <1>1, <1>3, <1>4, <1>5, <1>6 DEF User

LEMMA OwnServer ==
  ASSUME HistoryInv, OwnInv, Server
  PROVE  OwnInv'
<1> USE DEF HistoryInv
<1>1. ASSUME NEW p \in Pages, OnDownloadHistoryOutput(p) \/ OnDownloadProgressLog(p)
      PROVE  OwnInv'
  BY <1>1, OwnQuery
<1>2. ASSUME NEW p \in Pages, OnDownloadExplainLog(p)
      PROVE  OwnInv'
  BY <1>2, OwnExplain
<1>3. ASSUME NEW p \in Pages, OnHistorycurrentPage(p)
      PROVE  OwnInv'
  BY <1>3, OwnPageQuery
<1>4. ASSUME NEW q \in queries, GetHistoryOutput(q) \/ GetProgressLog(q)
      PROVE  OwnInv'
  BY <1>4, OwnDone
<1>5. ASSUME NEW q \in queries, GetHistoryOutputThrows(q)
      PROVE  OwnInv'
  BY <1>5, OwnOthers DEF GetHistoryOutputThrows, QueryUnchanged, observed
<1>6. ASSUME NEW q \in queries, SelectPage(q) \/ SelectCount(q)
      PROVE  OwnInv'
  BY <1>6, OwnSelect
<1>7. ASSUME NEW w \in windows, Download(w)
      PROVE  OwnInv'
  BY <1>7, OwnServed
<1> QED
  BY <1>1, <1>2, <1>3, <1>4, <1>5, <1>6, <1>7 DEF Server

LEMMA OwnNext ==
  ASSUME HistoryInv, OwnInv, [Next]_vars
  PROVE  OwnInv'
<1>1. CASE User
  BY <1>1, OwnUser
<1>2. CASE Server
  BY <1>2, OwnServer
<1>3. ASSUME NEW r \in Runs, NEW state, Ends(r, state)
      PROVE  OwnInv'
  BY <1>3, OwnOthers DEF HistoryInv, Ends, RunUnchanged, serverVars, observed
<1>4. ASSUME NEW p \in Pages, OnResultFromDb(p)
      PROVE  OwnInv'
  BY <1>4, OwnWindow DEF HistoryInv
<1>5. ASSUME NEW p \in Pages, OnResult(p)
      PROVE  OwnInv'
  BY <1>5, OwnShown DEF HistoryInv
<1>6. CASE UNCHANGED vars
  BY <1>6, OwnOthers DEF HistoryInv, vars, serverVars, runVars, observed
<1> QED
  BY <1>1, <1>2, <1>3, <1>4, <1>5, <1>6 DEF Next

\* For any number of pages, runs and clicks: as long as downloads that need a
\* query do not overlap, every window is served the text its page asked for,
\* under the uuid of its run, although two globals of the server carry both.
THEOREM OwnDownloads == Spec => []OwnDownload
<1>1. Init => OwnInv
  BY OwnInit
<1>2. HistoryInv /\ OwnInv /\ [Next]_vars => OwnInv'
  BY OwnNext
<1>3. OwnInv => OwnDownload
  BY DEF OwnInv, OwnDownload
<1> QED
  BY <1>1, <1>2, <1>3, HistoryInvariant, PTL DEF Spec

-----------------------------------------------------------------------------
(* The pages of the history.                                               *)

\* Nothing of s is about pages; or one element is.
Free(s)        == \A i \in DOMAIN s : s[i].kind # "page"
OnlyPage(s, i) == i \in DOMAIN s /\ s[i].kind = "page" /\ \A j \in DOMAIN s \ {i} : s[j].kind # "page"

Selects(p) == {q \in queries : q.page = p /\ q.kind = "page"}

\* The rows that were there at first and are newer than row low were shown, or
\* are among ids.
SeenAbove(p, ids, low) == \A id \in 1..seen[p].upto : id > low => id \in seen[p].ids \union ids

\* When there were m rows, the pages before the current one, or all up to it,
\* had been shown.
Before(p)   == \E m \in 0..Len(rows) : SeenAbove(p, {}, m - (history[p].current - 1) * RowsPerPage)
UpTo(p, ids, m) == SeenAbove(p, ids, m - history[p].current * RowsPerPage)

PageAsked(p) ==
  /\ Free(response[p]) /\ Selects(p) = {} /\ Before(p)
  /\ \E i \in DOMAIN request[p] :
       OnlyPage(request[p], i) /\ request[p][i].run = history[p].current

PageSelected(p) ==
  /\ Free(request[p]) /\ Free(response[p])
  /\ \E q \in queries :
       /\ Selects(p) = {q} /\ q.run = history[p].current
       /\ IF q.counting THEN \E m \in 0..Len(rows) : UpTo(p, Range(q.items), m) ELSE Before(p)

PageAnswered(p) ==
  /\ Free(request[p]) /\ Selects(p) = {}
  /\ \E i \in DOMAIN response[p] :
       LET a == response[p][i] IN
       /\ OnlyPage(response[p], i) /\ a.number <= Len(rows)
       /\ \E m \in 0..a.number : UpTo(p, Range(a.items), m)

PageShown(p) ==
  /\ Free(request[p]) /\ Free(response[p]) /\ Selects(p) = {}
  /\ \E m \in 0..Len(rows) : m <= history[p].total * RowsPerPage /\ UpTo(p, {}, m)

Paging(p) == PageAsked(p) \/ PageSelected(p) \/ PageAnswered(p) \/ PageShown(p)

CompleteInv == patient => \A p \in Histories : Paging(p)

\* t holds the same request or answer about a page as s, or none as s does.
SamePage(s, t) ==
  /\ Free(s) => Free(t)
  /\ \A i \in DOMAIN s : OnlyPage(s, i) => \E j \in DOMAIN t : OnlyPage(t, j) /\ t[j] = s[i]

LEMMA SamePageItself == \A s : SamePage(s, s)
  BY DEF SamePage

LEMMA SamePageAppended ==
  ASSUME NEW S, NEW s \in Seq(S), NEW m \in S, m.kind # "page"
  PROVE  SamePage(s, Append(s, m))
<1> DEFINE t == Append(s, m)
           n == Len(s) + 1
<1>1. DOMAIN t = DOMAIN s \union {n} /\ t[n] = m /\ n \notin DOMAIN s /\ \A i \in DOMAIN s : t[i] = s[i]
  BY AppendElements
<1> HIDE DEF t, n
<1>2. Free(s) => Free(t)
  BY <1>1 DEF Free
<1>3. ASSUME NEW i \in DOMAIN s, OnlyPage(s, i)
      PROVE  OnlyPage(t, i) /\ t[i] = s[i] /\ i \in DOMAIN t
  BY <1>1, <1>3 DEF OnlyPage
<1> QED
  BY <1>2, <1>3 DEF SamePage, t

LEMMA SamePageTail ==
  ASSUME NEW S, NEW s \in Seq(S), s # <<>>, Head(s).kind # "page"
  PROVE  SamePage(s, Tail(s))
<1> DEFINE t == Tail(s)
<1>1. /\ 1 \in DOMAIN s /\ s[1].kind # "page"
      /\ \A i \in DOMAIN t : i + 1 \in DOMAIN s /\ i + 1 # 1 /\ t[i] = s[i + 1]
      /\ \A i \in DOMAIN s \ {1} : i - 1 \in DOMAIN t /\ t[i - 1] = s[i]
  BY TailElements
<1>2. DOMAIN s \subseteq Int /\ DOMAIN t \subseteq Int
  <2>1. t \in Seq(S)
    BY TailElements
  <2> QED
    BY <2>1
<1> HIDE DEF t
<1>3. Free(s) => Free(t)
  BY <1>1 DEF Free
<1>4. ASSUME NEW i \in DOMAIN s, OnlyPage(s, i)
      PROVE  \E j \in DOMAIN t : OnlyPage(t, j) /\ t[j] = s[i]
  <2>1. i # 1 /\ i - 1 \in DOMAIN t /\ t[i - 1] = s[i] /\ s[i].kind = "page"
    BY <1>1, <1>4 DEF OnlyPage
  <2>2. ASSUME NEW j \in DOMAIN t \ {i - 1}
        PROVE  t[j].kind # "page"
    <3>1. j + 1 \in DOMAIN s \ {i} /\ t[j] = s[j + 1]
      BY <1>1, <1>2
    <3> QED
      BY <1>4, <3>1 DEF OnlyPage
  <2>3. OnlyPage(t, i - 1)
    BY <2>1, <2>2 DEF OnlyPage
  <2> QED
    BY <2>1, <2>3
<1> QED
  BY <1>3, <1>4 DEF SamePage, t

\* A message about a page that is appended is the only one.
LEMMA PageAppended ==
  ASSUME NEW S, NEW s \in Seq(S), NEW m \in S, m.kind = "page", Free(s)
  PROVE  \E i \in DOMAIN Append(s, m) : OnlyPage(Append(s, m), i) /\ Append(s, m)[i] = m
<1> DEFINE t == Append(s, m)
           n == Len(s) + 1
<1>1. DOMAIN t = DOMAIN s \union {n} /\ t[n] = m /\ \A i \in DOMAIN s : t[i] = s[i]
  BY AppendElements
<1> HIDE DEF t, n
<1>2. n \in DOMAIN t /\ OnlyPage(t, n) /\ t[n] = m
  BY <1>1 DEF Free, OnlyPage
<1> QED
  BY <1>2 DEF t

\* The message about a page that is taken off a sequence is the only one.
LEMMA PageTaken ==
  ASSUME NEW S, NEW s \in Seq(S), s # <<>>, Head(s).kind = "page"
  PROVE  ~Free(s) /\ \A i \in DOMAIN s : OnlyPage(s, i) => s[i] = Head(s) /\ Free(Tail(s))
<1> DEFINE t == Tail(s)
<1>1. /\ 1 \in DOMAIN s /\ s[1] = Head(s)
      /\ \A i \in DOMAIN t : i + 1 \in DOMAIN s /\ i + 1 # 1 /\ t[i] = s[i + 1]
  BY TailElements
<1>2. \A i \in DOMAIN s : OnlyPage(s, i) => i = 1
  BY <1>1 DEF OnlyPage
<1> HIDE DEF t
<1>3. OnlyPage(s, 1) => Free(t)
  BY <1>1 DEF OnlyPage, Free
<1> QED
  BY <1>1, <1>2, <1>3 DEF Free, t

\* A step that is not about the page which p shows.
LEMMA PagingKept ==
  ASSUME TypeOK, NEW p \in Histories, Paging(p),
         SamePage(request[p], request'[p]), SamePage(response[p], response'[p]),
         Selects(p)' = Selects(p), history'[p] = history[p], seen'[p] = seen[p],
         Len(rows) \in Nat, Len(rows') \in Nat, Len(rows) <= Len(rows')
  PROVE  Paging(p)'
<1>1. Before(p) => Before(p)'
  BY DEF Before, SeenAbove
<1>2. \A m, ids : UpTo(p, ids, m) => UpTo(p, ids, m)'
  BY DEF UpTo, SeenAbove
<1>3. CASE PageAsked(p)
  <2>1. PICK i \in DOMAIN request[p] :
          OnlyPage(request[p], i) /\ request[p][i].run = history[p].current
    BY <1>3 DEF PageAsked
  <2>2. PICK j \in DOMAIN request'[p] : OnlyPage(request'[p], j) /\ request'[p][j] = request[p][i]
    BY <2>1 DEF SamePage
  <2>3. Free(response'[p]) /\ Selects(p)' = {} /\ Before(p)'
    BY <1>1, <1>3 DEF PageAsked, SamePage
  <2>4. PageAsked(p)'
    BY <2>1, <2>2, <2>3 DEF PageAsked
  <2> QED
    BY <2>4 DEF Paging
<1>4. CASE PageSelected(p)
  <2>1. PICK q \in queries :
          /\ Selects(p) = {q} /\ q.run = history[p].current
          /\ IF q.counting THEN \E m \in 0..Len(rows) : UpTo(p, Range(q.items), m) ELSE Before(p)
    BY <1>4 DEF PageSelected
  <2>2. q \in queries'
    BY <2>1 DEF Selects
  <2>3. q.counting => \E m \in 0..Len(rows') : UpTo(p, Range(q.items), m)'
    BY <1>2, <2>1
  <2>4. IF q.counting THEN \E m \in 0..Len(rows') : UpTo(p, Range(q.items), m)' ELSE Before(p)'
    BY <1>1, <2>1, <2>3
  <2>5. Free(request'[p]) /\ Free(response'[p])
    BY <1>4 DEF PageSelected, SamePage
  <2>6. PageSelected(p)'
    BY <2>1, <2>2, <2>4, <2>5 DEF PageSelected
  <2> QED
    BY <2>6 DEF Paging
<1>5. CASE PageAnswered(p)
  <2>1. PICK i \in DOMAIN response[p] :
          /\ OnlyPage(response[p], i) /\ response[p][i].number <= Len(rows)
          /\ \E m \in 0..response[p][i].number : UpTo(p, Range(response[p][i].items), m)
    BY <1>5 DEF PageAnswered
  <2>2. PICK j \in DOMAIN response'[p] : OnlyPage(response'[p], j) /\ response'[p][j] = response[p][i]
    BY <2>1 DEF SamePage
  <2>3. PICK a : a = response[p][i]
    OBVIOUS
  <2>4. PICK m \in 0..a.number : UpTo(p, Range(a.items), m)
    BY <2>1, <2>3
  <2>5. a.number <= Len(rows')
    <3>1. a \in Answers /\ a.kind = "page"
      <4>1. response[p] \in Seq(Answers)
        BY DEF TypeOK, Pages
      <4> QED
        BY <2>1, <2>3, <4>1 DEF OnlyPage
    <3>2. a.number \in Nat
      BY <3>1 DEF Answers
    <3> QED
      BY <2>1, <2>3, <3>2
  <2>6. UpTo(p, Range(a.items), m)'
    BY <1>2, <2>4
  <2>7. Free(request'[p]) /\ Selects(p)' = {}
    BY <1>5 DEF PageAnswered, SamePage
  <2>8. PageAnswered(p)'
    BY <2>2, <2>3, <2>4, <2>5, <2>6, <2>7 DEF PageAnswered
  <2> QED
    BY <2>8 DEF Paging
<1>6. CASE PageShown(p)
  <2>1. PICK m \in 0..Len(rows) : m <= history[p].total * RowsPerPage /\ UpTo(p, {}, m)
    BY <1>6 DEF PageShown
  <2>2. m \in 0..Len(rows') /\ m <= history'[p].total * RowsPerPage /\ UpTo(p, {}, m)'
    BY <1>2, <2>1
  <2>3. Free(request'[p]) /\ Free(response'[p]) /\ Selects(p)' = {}
    BY <1>6 DEF PageShown, SamePage
  <2>4. PageShown(p)'
    BY <2>2, <2>3 DEF PageShown
  <2> QED
    BY <2>4 DEF Paging
<1> QED
  BY <1>3, <1>4, <1>5, <1>6 DEF Paging

\* Rows are only added, and those of a page are numbered from the newest down.
LEMMA PageIdsFacts ==
  ASSUME rows \in Seq(Runs), NEW c \in Nat, NEW id \in Nat \ {0},
         id > Len(rows) - c * RowsPerPage, id <= Len(rows) - (c - 1) * RowsPerPage
  PROVE  id \in Range(PageIds(c))
<1>1. PICK R \in Nat : R = RowsPerPage
  BY BoundAssumption
<1>2. PICK newest \in Int : newest = Len(rows) - (c - 1) * R /\ newest - R = Len(rows) - c * R
  <2>1. PICK n \in Nat : n = Len(rows)
    OBVIOUS
  <2>2. (c - 1) * R = c * R - R /\ c * R \in Int
    BY <1>1
  <2>3. PICK k \in Int : k = c * R
    BY <2>2
  <2>4. n - (k - R) \in Int /\ (n - (k - R)) - R = n - k
    BY <1>1
  <2> QED
    BY <2>1, <2>2, <2>3, <2>4
<1>3. PICK size : size = IF newest < R THEN (IF newest < 0 THEN 0 ELSE newest) ELSE R
  OBVIOUS
<1>4. PageIds(c) = [i \in 1..size |-> newest - i + 1]
  BY <1>1, <1>2, <1>3 DEF PageIds
<1>5. newest - id + 1 \in 1..size /\ newest - (newest - id + 1) + 1 = id
  <2>1. id <= newest /\ id > newest - R
    BY <1>1, <1>2
  <2> QED
    BY <1>1, <1>3, <2>1
<1> QED
  BY <1>4, <1>5 DEF Range

\* A page that is selected after those before it were shown leaves no gap.
LEMMA PageContinues ==
  ASSUME TypeOK, NEW p \in Histories, Before(p)
  PROVE  UpTo(p, Range(PageIds(history[p].current)), Len(rows))
<1>1. rows \in Seq(Runs) /\ history[p].current \in Nat /\ RowsPerPage \in Nat
  BY BoundAssumption DEF TypeOK
<1>2. PICK c, R, n : c = history[p].current /\ R = RowsPerPage /\ n = Len(rows)
  OBVIOUS
<1> c \in Nat /\ R \in Nat /\ n \in Nat
  BY <1>1, <1>2
<1>3. PICK m \in 0..n : SeenAbove(p, {}, m - (c - 1) * R)
  BY <1>2 DEF Before
<1>4. (c - 1) * R \in Int /\ c * R \in Int
  BY <1>2
<1>5. ASSUME NEW id \in 1..seen[p].upto, id > n - c * R
      PROVE  id \in seen[p].ids \union Range(PageIds(c))
  <2>1. seen[p].upto \in Nat
    BY DEF TypeOK
  <2>2. id \in Nat \ {0}
    BY <2>1
  <2>3. CASE id <= n - (c - 1) * R
    BY <1>1, <1>2, <1>5, <2>2, <2>3, PageIdsFacts
  <2>4. CASE ~(id <= n - (c - 1) * R)
    <3>1. id > m - (c - 1) * R
      BY <1>2, <1>3, <1>4, <2>2, <2>4
    <3> QED
      BY <1>3, <3>1 DEF SeenAbove
  <2> QED
    BY <2>3, <2>4
<1> QED
  BY <1>2, <1>5 DEF UpTo, SeenAbove

\* Actions that add a request or take one that is not about a page.
LEMMA PagingAsk ==
  ASSUME TypeOK, CompleteInv, NEW p \in Pages, NEW kind \in AllDownloads, NEW run \in Runs,
         Ask(p, kind, run)
  PROVE  CompleteInv'
<1> SUFFICES ASSUME patient', NEW o \in Histories PROVE Paging(o)'
  BY DEF CompleteInv
<1>1. Click(p, [kind |-> kind, run |-> run, id |-> clicks + 1]) /\ UNCHANGED <<history, patient>>
  BY DEF Ask
<1>2. PICK m : m = [kind |-> kind, run |-> run, id |-> clicks + 1]
  OBVIOUS
<1>3. m \in Message /\ m.kind # "page"
  BY <1>2 DEF TypeOK, Message, AllDownloads, Runs
<1>4. /\ request'[p] = Append(request[p], m) /\ request[p] \in Seq(Message)
      /\ \A q \in Pages \ {p} : request'[q] = request[q]
  BY <1>1, <1>2, <1>3, RequestAppended
<1>5. SamePage(request[o], request'[o])
  BY <1>3, <1>4, SamePageAppended, SamePageItself DEF Pages
<1>6. /\ Paging(o) /\ o \in Pages /\ response' = response /\ queries' = queries
      /\ seen' = seen /\ rows' = rows /\ history' = history
  BY <1>1 DEF CompleteInv, Click, Pages, serverVars, runVars
<1>7. Selects(o)' = Selects(o)
  BY <1>6 DEF Selects
<1>8. Len(rows) \in Nat
  BY DEF TypeOK
<1> QED
  BY <1>5, <1>6, <1>7, <1>8, PagingKept, SamePageItself

\* Turning a page that is shown asks for one that continues it.
LEMMA PagingTurn ==
  ASSUME TypeOK, CompleteInv, NEW p \in Histories, historyNextPage(p) \/ historyLastPage(p)
  PROVE  CompleteInv'
<1> SUFFICES ASSUME patient', NEW o \in Histories PROVE Paging(o)'
  BY DEF CompleteInv
<1>1. PICK c : c = history[p].current
  OBVIOUS
<1>2. c \in Nat
  BY <1>1 DEF TypeOK
<1>3. PICK d \in Nat : Turn(p, d) /\ (d = c + 1 \/ d = c - 1)
  BY <1>1, <1>2 DEF historyNextPage, historyLastPage
<1>4. patient /\ HistoryIdle(p) /\ Click(p, PageRequest(d, clicks + 1))
  BY <1>3 DEF Turn
<1>5. PICK m : m = PageRequest(d, clicks + 1)
  OBVIOUS
<1>6. m \in Message /\ m.kind = "page" /\ m.run = d
  BY <1>5 DEF TypeOK, Message, PageRequest
<1>7. /\ request'[p] = Append(request[p], m) /\ request[p] \in Seq(Message) /\ p \in Pages
      /\ \A q \in Pages \ {p} : request'[q] = request[q]
  BY <1>4, <1>5, <1>6, RequestAppended DEF Pages
<1>8. /\ response' = response /\ queries' = queries /\ seen' = seen /\ rows' = rows
      /\ history' = [history EXCEPT ![p].current = d]
  BY <1>3, <1>4 DEF Turn, Click, serverVars, runVars
<1>9. CASE o # p
  <2>1. /\ Paging(o) /\ o \in Pages /\ request'[o] = request[o] /\ Selects(o)' = Selects(o)
        /\ history'[o] = history[o]
    BY <1>4, <1>7, <1>8, <1>9 DEF CompleteInv, Pages, Selects, TypeOK
  <2>2. Len(rows) \in Nat
    BY DEF TypeOK
  <2> QED
    BY <1>8, <2>1, <2>2, PagingKept, SamePageItself
<1>10. CASE o = p
  <2>1. request[p] = <<>> /\ response[p] = <<>> /\ Selects(p) = {}
    BY <1>4 DEF HistoryIdle, Selects
  <2>2. Free(request[p]) /\ Free(response[p])
    BY <2>1 DEF Free
  <2>3. Paging(p)
    BY <1>4 DEF CompleteInv
  <2>4. PageShown(p)
    BY <2>1, <2>3 DEF Paging, PageAsked, PageSelected, PageAnswered
  <2>5. PICK k \in 0..Len(rows) : UpTo(p, {}, k)
    BY <2>4 DEF PageShown
  <2>6. history'[p].current = d
    BY <1>8, <1>10 DEF TypeOK
  <2>7. SeenAbove(p, {}, k - (d - 1) * RowsPerPage)
    <3>1. PICK R \in Nat : R = RowsPerPage
      BY BoundAssumption
    <3>2. k \in Int
      BY DEF TypeOK
    <3>3. k - c * R <= k - (d - 1) * R
      <4>1. CASE d = c + 1
        <5>1. d - 1 = c
          BY <1>2, <4>1
        <5> QED
          BY <1>2, <3>1, <3>2, <5>1
      <4>2. CASE d = c - 1
        <5>1. (d - 1) * R = c * R - 2 * R
          BY <1>2, <3>1, <4>2
        <5> QED
          BY <1>2, <3>1, <3>2, <5>1
      <4> QED
        BY <1>3, <4>1, <4>2
    <3>4. k - c * R \in Int /\ k - (d - 1) * R \in Int
      <4>1. c * R \in Int /\ (d - 1) * R \in Int
        BY <1>2, <1>3, <3>1
      <4> QED
        BY <3>2, <4>1
    <3>5. SeenAbove(p, {}, k - c * R)
      BY <1>1, <2>5, <3>1 DEF UpTo
    <3>6. seen[p].upto \in Nat
      BY DEF TypeOK
    <3>7. \A id \in 1..seen[p].upto : id > k - (d - 1) * R => id > k - c * R
      BY <3>3, <3>4, <3>6
    <3> QED
      BY <3>1, <3>5, <3>7 DEF SeenAbove
  <2>8. Before(p)'
    BY <1>8, <2>5, <2>6, <2>7 DEF Before, SeenAbove
  <2>9. \E i \in DOMAIN request'[p] : OnlyPage(request'[p], i) /\ request'[p][i] = m
    BY <1>6, <1>7, <2>2, PageAppended
  <2>10. Free(response'[p]) /\ Selects(p)' = {}
    BY <1>8, <2>1, <2>2 DEF Selects
  <2>11. PageAsked(p)'
    BY <1>6, <2>6, <2>8, <2>9, <2>10 DEF PageAsked
  <2> QED
    BY <1>10, <2>11 DEF Paging
<1> QED
  BY <1>9, <1>10

\* Actions that change no message about a page and nothing that was shown.
LEMMA PagingOthers ==
  ASSUME TypeOK, CompleteInv, patient' = patient,
         \A p \in Histories : /\ SamePage(request[p], request'[p])
                              /\ SamePage(response[p], response'[p]),
         \A q : q.kind = "page" => (q \in queries <=> q \in queries'),
         UNCHANGED <<history, seen>>, Len(rows') \in Nat, Len(rows) <= Len(rows')
  PROVE  CompleteInv'
<1> SUFFICES ASSUME patient', NEW o \in Histories PROVE Paging(o)'
  BY DEF CompleteInv
<1>1. Paging(o) /\ Len(rows) \in Nat
  BY DEF CompleteInv, TypeOK
<1>2. Selects(o)' = Selects(o)
  BY DEF Selects
<1> QED
  BY <1>1, <1>2, PagingKept

LEMMA SamePageTaken ==
  ASSUME TypeOK, NEW p \in Pages, NEW kinds, Handling(p, kinds), "page" \notin kinds
  PROVE  \A o \in Histories : SamePage(request[o], request'[o])
<1>1. /\ request'[p] = Tail(request[p]) /\ request[p] \in Seq(Message) /\ request[p] # <<>>
      /\ Head(request[p]).kind \in kinds
      /\ \A o \in Pages \ {p} : request'[o] = request[o]
  BY RequestTaken
<1>2. SamePage(request[p], request'[p])
  BY <1>1, SamePageTail
<1> QED
  BY <1>1, <1>2, SamePageItself DEF Pages

LEMMA PagingDownload ==
  ASSUME TypeOK, CompleteInv, NEW p \in Pages,
         OnDownloadHistoryOutput(p) \/ OnDownloadProgressLog(p) \/ OnDownloadExplainLog(p)
  PROVE  CompleteInv'
<1>1. PICK kinds : Handling(p, kinds) /\ "page" \notin kinds
  <2>1. "page" \notin {"output", "error"} /\ "page" \notin {"progress"} /\ "page" \notin {"explain"}
    OBVIOUS
  <2> QED
    BY <2>1 DEF OnDownloadHistoryOutput, OnDownloadProgressLog, OnDownloadExplainLog
<1>2. \A q : q.kind = "page" => (q \in queries <=> q \in queries')
  <2>1. CASE OnDownloadExplainLog(p)
    BY <2>1 DEF OnDownloadExplainLog
  <2>2. CASE OnDownloadHistoryOutput(p) \/ OnDownloadProgressLog(p)
    <3>1. PICK m : m = Head(request[p])
      OBVIOUS
    <3>2. m.kind # "page" /\ Query(p)
      BY <1>1, <2>2, <3>1 DEF OnDownloadHistoryOutput, OnDownloadProgressLog, Handling
    <3>3. PICK q : /\ q = [id |-> m.id, page |-> p, kind |-> m.kind, run |-> m.run,
                           items |-> <<>>, counting |-> FALSE]
                   /\ queries' = queries \union {q}
      BY <3>1, <3>2 DEF Query
    <3>4. q.kind # "page"
      BY <3>2, <3>3
    <3> QED
      BY <3>3, <3>4
  <2> QED
    BY <2>1, <2>2
<1>3. UNCHANGED <<response, history, seen, rows, patient>>
  BY <1>1 DEF Handling, runVars, observed
<1>4. \A o \in Histories : SamePage(request[o], request'[o])
  BY <1>1, SamePageTaken
<1>5. Len(rows) \in Nat
  BY DEF TypeOK
<1> QED
  BY <1>2, <1>3, <1>4, <1>5, PagingOthers, SamePageItself

\* The server takes a request for a page.
LEMMA PagingQuery ==
  ASSUME TypeOK, CompleteInv, NEW p \in Pages, OnHistorycurrentPage(p)
  PROVE  CompleteInv'
<1> SUFFICES ASSUME patient', NEW o \in Histories PROVE Paging(o)'
  BY DEF CompleteInv
<1>1. PICK m : m = Head(request[p])
  OBVIOUS
<1>2. /\ request'[p] = Tail(request[p]) /\ request[p] \in Seq(Message) /\ request[p] # <<>>
      /\ m.kind = "page" /\ \A q \in Pages \ {p} : request'[q] = request[q]
  BY <1>1, RequestTaken DEF OnHistorycurrentPage
<1>3. PICK q : /\ q = [id |-> m.id, page |-> p, kind |-> m.kind, run |-> m.run,
                       items |-> <<>>, counting |-> FALSE]
               /\ queries' = queries \union {q}
  BY <1>1 DEF OnHistorycurrentPage, Query
<1>4. q.page = p /\ q.kind = "page" /\ q.run = m.run /\ ~q.counting
  BY <1>2, <1>3
<1>5. UNCHANGED <<response, history, seen, rows, patient>>
  BY DEF OnHistorycurrentPage, Handling, runVars, observed
<1>6. Paging(o) /\ Len(rows) \in Nat
  BY <1>5 DEF CompleteInv, TypeOK
<1>7. CASE o # p
  <2>1. request'[o] = request[o] /\ Selects(o)' = Selects(o)
    BY <1>2, <1>3, <1>4, <1>7 DEF Selects, Pages
  <2> QED
    BY <1>5, <1>6, <2>1, PagingKept, SamePageItself
<1>8. CASE o = p
  <2>1. PageAsked(p)
    <3>1. ~Free(request[p])
      BY <1>1, <1>2, PageTaken
    <3> QED
      BY <1>6, <1>8, <3>1 DEF Paging, PageSelected, PageAnswered, PageShown
  <2>2. PICK i \in DOMAIN request[p] :
          OnlyPage(request[p], i) /\ request[p][i].run = history[p].current
    BY <2>1 DEF PageAsked
  <2>3. request[p][i] = m /\ Free(request'[p])
    BY <1>1, <1>2, <2>2, PageTaken
  <2>4. Selects(p)' = {q}
    BY <1>3, <1>4, <2>1 DEF PageAsked, Selects
  <2>5. Before(p)' /\ Free(response'[p])
    BY <1>5, <2>1 DEF PageAsked, Before, SeenAbove
  <2>6. q \in queries' /\ q.run = history'[p].current
    BY <1>3, <1>4, <1>5, <2>2, <2>3
  <2>7. PageSelected(p)'
    BY <1>4, <2>3, <2>4, <2>5, <2>6 DEF PageSelected
  <2> QED
    BY <1>8, <2>7 DEF Paging
<1> QED
  BY <1>7, <1>8

\* A download's query ends.
LEMMA PagingDone ==
  ASSUME TypeOK, CompleteInv, NEW q \in queries, GetHistoryOutput(q) \/ GetProgressLog(q)
  PROVE  CompleteInv'
<1>1. PICK m : m = [kind |-> "done", id |-> q.id]
  OBVIOUS
<1>2. m \in Answers /\ m.kind # "page"
  <2>1. q.id \in Nat
    BY DEF TypeOK, QueryType
  <2> QED
    BY <1>1, <2>1 DEF Answers
<1>3. Answer(q, m) /\ q.kind # "page"
  BY <1>1 DEF GetHistoryOutput, GetProgressLog
<1>4. /\ q.page \in Pages
      /\ response'[q.page] = Append(response[q.page], m) /\ response[q.page] \in Seq(Answers)
      /\ \A o \in Pages \ {q.page} : response'[o] = response[o]
  BY <1>2, <1>3, ResponseAppended
<1>5. \A o \in Histories : SamePage(response[o], response'[o])
  <2>1. SamePage(response[q.page], response'[q.page])
    BY <1>2, <1>4, SamePageAppended
  <2> QED
    BY <1>4, <2>1, SamePageItself DEF Pages
<1>6. UNCHANGED <<request, history, seen, rows, patient>>
  BY DEF GetHistoryOutput, GetProgressLog, QueryUnchanged, runVars, observed
<1>7. \A r : r.kind = "page" => (r \in queries <=> r \in queries')
  BY <1>3 DEF Answer
<1>8. Len(rows) \in Nat
  BY DEF TypeOK
<1> QED
  BY <1>5, <1>6, <1>7, <1>8, PagingOthers, SamePageItself

\* The query that selects a page of p is its only one.
LEMMA OnlySelect ==
  ASSUME CompleteInv, patient, NEW q \in queries, q.page \in Histories, q.kind = "page"
  PROVE  /\ PageSelected(q.page) /\ Selects(q.page) = {q} /\ q.run = history[q.page].current
         /\ q.counting => \E m \in 0..Len(rows) : UpTo(q.page, Range(q.items), m)
         /\ ~q.counting => Before(q.page)
<1>1. q \in Selects(q.page) /\ Paging(q.page)
  BY DEF Selects, CompleteInv
<1>2. PageSelected(q.page)
  BY <1>1 DEF Paging, PageAsked, PageAnswered, PageShown
<1>3. PICK r \in queries :
        /\ Selects(q.page) = {r} /\ r.run = history[q.page].current
        /\ IF r.counting THEN \E m \in 0..Len(rows) : UpTo(q.page, Range(r.items), m)
                         ELSE Before(q.page)
  BY <1>2 DEF PageSelected
<1>4. r = q
  BY <1>1, <1>3
<1> QED
  BY <1>2, <1>3, <1>4

LEMMA PagingSelect ==
  ASSUME TypeOK, CompleteInv, NEW q \in queries, SelectPage(q)
  PROVE  CompleteInv'
<1> SUFFICES ASSUME patient', NEW o \in Histories PROVE Paging(o)'
  BY DEF CompleteInv
<1>1. PICK r : /\ r = [q EXCEPT !.items = PageIds(q.run), !.counting = TRUE]
               /\ queries' = (queries \ {q}) \union {r}
  BY DEF SelectPage
<1>2. q.kind = "page" /\ ~q.counting
  BY DEF SelectPage
<1>3. r.page = q.page /\ r.kind = "page" /\ r.run = q.run /\ r.items = PageIds(q.run) /\ r.counting
  BY <1>1, <1>2 DEF TypeOK, QueryType
<1>4. UNCHANGED <<request, response, history, seen, rows, patient>>
  BY DEF SelectPage, QueryUnchanged, runVars, observed
<1>5. Paging(o) /\ Len(rows) \in Nat
  BY <1>4 DEF CompleteInv, TypeOK
<1>6. CASE o # q.page
  <2>1. Selects(o)' = Selects(o)
    BY <1>1, <1>3, <1>6 DEF Selects
  <2> QED
    BY <1>4, <1>5, <2>1, PagingKept, SamePageItself
<1>7. CASE o = q.page
  <2>1. PageSelected(o) /\ Selects(o) = {q} /\ q.run = history[o].current /\ Before(o)
    BY <1>2, <1>4, <1>7, OnlySelect
  <2>2. Selects(o)' = {r}
    BY <1>1, <1>3, <1>7, <2>1 DEF Selects
  <2>3. UpTo(o, Range(PageIds(history[o].current)), Len(rows))
    BY <2>1, PageContinues
  <2>4. UpTo(o, Range(r.items), Len(rows))'
    BY <1>3, <1>4, <2>1, <2>3 DEF UpTo, SeenAbove
  <2>5. \E m \in 0..Len(rows') : UpTo(o, Range(r.items), m)'
    <3>1. Len(rows) \in 0..Len(rows')
      BY <1>4, <1>5
    <3>2. PICK n : n = Len(rows)
      OBVIOUS
    <3>3. UpTo(o, Range(r.items), n)'
      BY <1>4, <2>4, <3>2 DEF UpTo
    <3> QED
      BY <3>1, <3>2, <3>3
  <2>6. Free(request'[o]) /\ Free(response'[o]) /\ r \in queries' /\ r.run = history'[o].current
    BY <1>1, <1>3, <1>4, <2>1 DEF PageSelected
  <2>7. PageSelected(o)'
    BY <1>3, <2>2, <2>5, <2>6 DEF PageSelected
  <2> QED
    BY <2>7 DEF Paging
<1> QED
  BY <1>6, <1>7

LEMMA PagingCount ==
  ASSUME TypeOK, CompleteInv, NEW q \in queries, SelectCount(q)
  PROVE  CompleteInv'
<1> SUFFICES ASSUME patient', NEW o \in Histories PROVE Paging(o)'
  BY DEF CompleteInv
<1>1. PICK m : m = [kind |-> "page", items |-> q.items, number |-> Len(rows)]
  OBVIOUS
<1>2. Answer(q, m) /\ q.kind = "page" /\ q.counting
  BY <1>1 DEF SelectCount
<1>3. m \in Answers /\ m.kind = "page" /\ m.items = q.items /\ m.number = Len(rows)
      /\ Len(rows) \in Nat
  <2>1. q.items \in Seq(Nat \ {0}) /\ Len(rows) \in Nat
    BY DEF TypeOK, QueryType
  <2> QED
    BY <1>1, <2>1 DEF Answers
<1>4. /\ q.page \in Pages
      /\ response'[q.page] = Append(response[q.page], m) /\ response[q.page] \in Seq(Answers)
      /\ \A p \in Pages \ {q.page} : response'[p] = response[p]
  BY <1>2, <1>3, ResponseAppended
<1>5. UNCHANGED <<request, history, seen, rows, patient>> /\ queries' = queries \ {q}
  BY <1>2 DEF SelectCount, QueryUnchanged, runVars, observed, Answer
<1>6. Paging(o)
  BY <1>5 DEF CompleteInv
<1>7. CASE o # q.page
  <2>1. Selects(o)' = Selects(o) /\ response'[o] = response[o]
    BY <1>4, <1>5, <1>7 DEF Selects, Pages
  <2> QED
    BY <1>3, <1>5, <1>6, <2>1, PagingKept, SamePageItself
<1>8. CASE o = q.page
  <2>1. /\ PageSelected(o) /\ Selects(o) = {q}
        /\ \E n \in 0..Len(rows) : UpTo(o, Range(q.items), n)
    BY <1>2, <1>5, <1>8, OnlySelect
  <2>2. Selects(o)' = {}
    BY <1>5, <2>1 DEF Selects
  <2>3. PICK n \in 0..Len(rows) : UpTo(o, Range(q.items), n)
    BY <2>1
  <2>4. UpTo(o, Range(m.items), n)'
    BY <1>3, <1>5, <2>3 DEF UpTo, SeenAbove
  <2>5. Free(request'[o]) /\ Free(response[o])
    BY <1>5, <2>1 DEF PageSelected
  <2>6. PICK i \in DOMAIN response'[o] : OnlyPage(response'[o], i) /\ response'[o][i] = m
    <3>1. PICK s : s = response[o] /\ s \in Seq(Answers) /\ response'[o] = Append(s, m)
      BY <1>4, <1>8
    <3>2. \E i \in DOMAIN Append(s, m) : OnlyPage(Append(s, m), i) /\ Append(s, m)[i] = m
      BY <1>3, <2>5, <3>1, PageAppended
    <3> QED
      BY <3>1, <3>2
  <2>7. m.number <= Len(rows') /\ n \in 0..m.number
    BY <1>3, <1>5
  <2>8. PageAnswered(o)'
    BY <2>2, <2>4, <2>5, <2>6, <2>7 DEF PageAnswered
  <2> QED
    BY <2>8 DEF Paging
<1> QED
  BY <1>7, <1>8

\* The page arrives: all that was selected is shown.
LEMMA PagingResult ==
  ASSUME TypeOK, CompleteInv, NEW p \in Pages, OnResult(p)
  PROVE  CompleteInv'
<1> SUFFICES ASSUME patient', NEW o \in Histories PROVE Paging(o)'
  BY DEF CompleteInv
<1>1. PICK a : a = Head(response[p])
  OBVIOUS
<1>2. /\ response'[p] = Tail(response[p]) /\ response[p] \in Seq(Answers) /\ response[p] # <<>>
      /\ a.kind = "page" /\ \A q \in Pages \ {p} : response'[q] = response[q]
  BY <1>1, ResponseTaken DEF OnResult
<1>3. a \in Answers
  BY <1>1, <1>2
<1>4. a.number \in Nat /\ a.items \in Seq(Nat \ {0})
  BY <1>2, <1>3 DEF Answers
<1>5. PICK total : total = (a.number + RowsPerPage - 1) \div RowsPerPage
  OBVIOUS
<1>6. /\ history' = [history EXCEPT ![p].total = total, ![p].items = a.items,
                                    ![p].current = IF total = 0 THEN 0 ELSE @]
      /\ seen' = [seen EXCEPT ![p].ids = @ \union Range(a.items)]
  BY <1>1, <1>5 DEF OnResult
<1>7. UNCHANGED <<request, queries, rows, patient>>
  BY DEF OnResult, Received, serverVars, runVars
<1>8. Paging(o) /\ Len(rows) \in Nat
  BY <1>7 DEF CompleteInv, TypeOK
<1>9. Selects(o)' = Selects(o)
  BY <1>7 DEF Selects
<1>10. CASE o # p
  <2>1. response'[o] = response[o] /\ history'[o] = history[o] /\ seen'[o] = seen[o]
    BY <1>2, <1>6, <1>10 DEF Pages, TypeOK
  <2> QED
    BY <1>7, <1>8, <1>9, <2>1, PagingKept, SamePageItself
<1>11. CASE o = p
  <2>1. PageAnswered(p)
    <3>1. ~Free(response[p])
      BY <1>1, <1>2, PageTaken
    <3> QED
      BY <1>8, <1>11, <3>1 DEF Paging, PageAsked, PageSelected, PageShown
  <2>2. PICK i \in DOMAIN response[p] :
          /\ OnlyPage(response[p], i) /\ response[p][i].number <= Len(rows)
          /\ \E n \in 0..response[p][i].number : UpTo(p, Range(response[p][i].items), n)
    BY <2>1 DEF PageAnswered
  <2>3. response[p][i] = a /\ Free(response'[p])
    BY <1>1, <1>2, <2>2, PageTaken
  <2>4. PICK n \in 0..a.number : UpTo(p, Range(a.items), n) /\ a.number <= Len(rows)
    BY <2>2, <2>3
  <2>5. /\ history'[p].total = total
        /\ history'[p].current = IF total = 0 THEN 0 ELSE history[p].current
        /\ seen'[p].upto = seen[p].upto /\ seen'[p].ids = seen[p].ids \union Range(a.items)
        /\ history[p].current \in Nat /\ seen[p].upto \in Nat
    BY <1>6, <1>11 DEF TypeOK
  <2>6. PICK R \in Nat \ {0} : R = RowsPerPage
    BY BoundAssumption
  <2>7. total \in Nat /\ a.number <= total * R
    BY <1>4, <1>5, <2>6, PagesOfRows
  <2>8. PICK c \in Nat : c = history[p].current
    BY <2>5
  <2>9. \A id \in 1..seen[p].upto : id > n - c * R => id \in seen'[p].ids
    BY <2>4, <2>5, <2>6, <2>8 DEF UpTo, SeenAbove
  <2>10. PICK d \in Nat : d = history'[p].current /\ (d = c \/ (d = 0 /\ total = 0))
    BY <2>5, <2>8
  <2>11. n \in Nat /\ n <= total * R /\ n \in 0..Len(rows')
    <3>1. total * R \in Nat
      BY <2>7
    <3> QED
      BY <1>4, <1>7, <1>8, <2>4, <2>7, <3>1
  <2>12. \A id \in 1..seen[p].upto : id > n - d * R => id \in seen'[p].ids
    <3>1. CASE d = c
      BY <2>9, <3>1
    <3>2. CASE d = 0 /\ total = 0
      <4>1. d * R = 0 /\ total * R = 0
        BY <3>2
      <4>2. n = 0
        BY <2>11, <4>1
      <4>3. c * R \in Nat
        OBVIOUS
      <4> QED
        BY <2>5, <2>9, <4>1, <4>2, <4>3
    <3> QED
      BY <2>10, <3>1, <3>2
  <2>13. UpTo(p, {}, n)'
    BY <2>5, <2>6, <2>10, <2>12 DEF UpTo, SeenAbove
  <2>14. Free(request'[p]) /\ Selects(p)' = {}
    BY <1>7, <1>9, <1>11, <2>1 DEF PageAnswered
  <2>15. PageShown(p)'
    BY <2>3, <2>5, <2>6, <2>11, <2>13, <2>14 DEF PageShown
  <2> QED
    BY <1>11, <2>15 DEF Paging
<1> QED
  BY <1>10, <1>11

LEMMA PagingWindow ==
  ASSUME TypeOK, CompleteInv, NEW p \in Pages, OnResultFromDb(p)
  PROVE  CompleteInv'
<1>1. /\ response'[p] = Tail(response[p]) /\ response[p] \in Seq(Answers) /\ response[p] # <<>>
      /\ Head(response[p]).kind = "done" /\ \A q \in Pages \ {p} : response'[q] = response[q]
  BY ResponseTaken DEF OnResultFromDb
<1>2. SamePage(response[p], response'[p])
  BY <1>1, SamePageTail
<1>3. \A o \in Histories : SamePage(response[o], response'[o])
  BY <1>1, <1>2, SamePageItself DEF Pages
<1>4. UNCHANGED <<request, queries, history, seen, rows, patient>> /\ Len(rows) \in Nat
  BY DEF OnResultFromDb, Received, serverVars, runVars, TypeOK
<1> QED
  BY <1>3, <1>4, PagingOthers, SamePageItself

LEMMA CompleteInit == Init => CompleteInv
<1> SUFFICES ASSUME Init, NEW p \in Histories PROVE Paging(p)
  BY DEF CompleteInv
<1>1. PICK m : m = PageRequest(1, 0)
  OBVIOUS
<1>2. request[p] = <<m>> /\ response[p] = <<>> /\ queries = {} /\ history[p].current = 1
      /\ seen[p].upto = Len(rows)
  BY <1>1 DEF Init, Pages
<1>3. m.kind = "page" /\ m.run = 1
  BY <1>1 DEF PageRequest
<1>4. DOMAIN request[p] = {1} /\ request[p][1] = m
  BY <1>2
<1>5. OnlyPage(request[p], 1)
  BY <1>3, <1>4 DEF OnlyPage
<1>6. Before(p)
  <2>1. rows \in Seq(Runs)
    BY TypeInit DEF TypeOK
  <2>2. PICK n \in Nat : n = Len(rows)
    BY <2>1
  <2>3. (1 - 1) * RowsPerPage = 0
    BY BoundAssumption
  <2>4. SeenAbove(p, {}, n - (history[p].current - 1) * RowsPerPage)
    BY <1>2, <2>2, <2>3 DEF SeenAbove
  <2>5. n \in 0..Len(rows)
    BY <2>2
  <2> QED
    BY <2>4, <2>5 DEF Before
<1>7. Free(response[p]) /\ Selects(p) = {}
  BY <1>2 DEF Free, Selects
<1>8. PageAsked(p)
  BY <1>2, <1>3, <1>4, <1>5, <1>6, <1>7 DEF PageAsked
<1> QED
  BY <1>8 DEF Paging

LEMMA CompleteUser ==
  ASSUME TypeOK, CompleteInv, User
  PROVE  CompleteInv'
<1>1. ASSUME NEW p \in Consoles, Start(p)
      PROVE  CompleteInv'
  <2>1. UNCHANGED <<request, response, queries, history, seen, rows, patient>> /\ Len(rows) \in Nat
    BY <1>1 DEF Start, RunUnchanged, serverVars, observed, TypeOK
  <2> QED
    BY <2>1, PagingOthers, SamePageItself
<1>2. ASSUME NEW p \in Consoles, NEW kind, Ask(p, kind, console[p].run), console[p].run # 0
      PROVE  CompleteInv'
  <2>1. console[p].run \in Runs /\ p \in Pages /\ kind \in AllDownloads
    BY <1>2, BoundAssumption DEF TypeOK, Runs, Pages, Ask
  <2> QED
    BY <1>2, <2>1, PagingAsk
<1>3. ASSUME NEW p \in Consoles, downloadOutput(p) \/ downloadProgressLog(p) \/ downloadExplainLog(p)
      PROVE  CompleteInv'
  <2>1. console[p].run # 0
    BY <1>3 DEF TypeOK, downloadOutput, downloadProgressLog, downloadExplainLog
  <2>2. PICK kind : Ask(p, kind, console[p].run)
    BY <1>3 DEF downloadOutput, downloadProgressLog, downloadExplainLog
  <2> QED
    BY <1>2, <2>1, <2>2
<1>4. ASSUME NEW p \in Histories, NEW id \in DOMAIN rows, downloadHistoryOutput(p, id)
      PROVE  CompleteInv'
  <2>1. Ask(p, "error", rows[id]) /\ rows[id] \in Runs /\ p \in Pages /\ "error" \in AllDownloads
    BY <1>4 DEF TypeOK, downloadHistoryOutput, Pages, AllDownloads
  <2> QED
    BY <2>1, PagingAsk
<1> QED
  BY <1>1, <1>3, <1>4, PagingTurn DEF User

LEMMA CompleteServer ==
  ASSUME TypeOK, CompleteInv, Server
  PROVE  CompleteInv'
<1>1. Len(rows) \in Nat
  BY DEF TypeOK
<1>2. ASSUME NEW q \in queries, GetHistoryOutputThrows(q)
      PROVE  CompleteInv'
  <2>1. UNCHANGED <<request, response, queries, history, seen, rows, patient>>
    BY <1>2 DEF GetHistoryOutputThrows, QueryUnchanged, runVars, observed
  <2> QED
    BY <1>1, <2>1, PagingOthers, SamePageItself
<1>3. ASSUME NEW w \in windows, Download(w)
      PROVE  CompleteInv'
  <2>1. UNCHANGED <<request, response, queries, history, seen, rows, patient>>
    BY <1>3 DEF Download, runVars
  <2> QED
    BY <1>1, <2>1, PagingOthers, SamePageItself
<1> QED
  BY <1>2, <1>3, PagingDownload, PagingQuery, PagingDone, PagingSelect, PagingCount DEF Server

LEMMA CompleteNext ==
  ASSUME TypeOK, CompleteInv, [Next]_vars
  PROVE  CompleteInv'
<1>1. ASSUME NEW r \in Runs, NEW state \in {"Fail", "Success", "unstored"}, Ends(r, state)
      PROVE  CompleteInv'
  <2>1. UNCHANGED <<request, response, queries, history, seen, patient>>
    BY <1>1 DEF Ends, RunUnchanged, serverVars, observed
  <2>2. Len(rows') \in Nat /\ Len(rows) <= Len(rows')
    <3>1. PICK more : more = RowFor(r, state)
      OBVIOUS
    <3>2. more \in Seq(Runs)
      BY <3>1 DEF RowFor
    <3>3. rows' = rows \o more /\ rows \in Seq(Runs)
      BY <1>1, <3>1 DEF Ends, TypeOK
    <3>4. rows' \in Seq(Runs) /\ Len(rows') = Len(rows) + Len(more) /\ Len(more) \in Nat
      BY <3>2, <3>3, ConcatProperties
    <3> QED
      BY <3>3, <3>4
  <2> QED
    BY <2>1, <2>2, PagingOthers, SamePageItself
<1>2. CASE UNCHANGED vars
  <2>1. UNCHANGED <<request, response, queries, history, seen, rows, patient>> /\ Len(rows) \in Nat
    BY <1>2 DEF vars, serverVars, runVars, observed, TypeOK
  <2> QED
    BY <2>1, PagingOthers, SamePageItself
<1> QED
  BY <1>1, <1>2, CompleteUser, CompleteServer, PagingWindow, PagingResult DEF Next

\* For any number of rows on a page, of rows, of runs that end meanwhile and of
\* pages: a user who waits for each page to be shown (html/history.html:
\* showHistory) and turns to the last one has missed no row, because the rows
\* that runs add shift the others to later pages only.
THEOREM HistoriesComplete == Spec => []HistoryIsComplete
<1>1. Init => CompleteInv
  BY CompleteInit
<1>2. HistoryInv /\ CompleteInv /\ [Next]_vars => CompleteInv'
  BY CompleteNext DEF HistoryInv
<1>3. HistoryInv /\ CompleteInv => HistoryIsComplete
  <2> SUFFICES ASSUME TypeOK, CompleteInv, NEW p \in Histories, patient, HistoryIdle(p),
                      history[p].current = history[p].total
               PROVE  1..seen[p].upto \subseteq seen[p].ids
    BY DEF HistoryIsComplete, HistoryInv
  <2>1. request[p] = <<>> /\ response[p] = <<>> /\ Selects(p) = {}
    BY DEF HistoryIdle, Selects
  <2>2. PageShown(p)
    BY <2>1 DEF CompleteInv, Paging, PageAsked, PageSelected, PageAnswered
  <2>3. PICK m \in 0..Len(rows) : m <= history[p].total * RowsPerPage /\ UpTo(p, {}, m)
    BY <2>2 DEF PageShown
  <2>4. PICK k : k = history[p].total * RowsPerPage
    OBVIOUS
  <2>5. k \in Int /\ m \in Int /\ seen[p].upto \in Nat
    <3>1. history[p].total \in Nat /\ RowsPerPage \in Nat
      BY BoundAssumption DEF TypeOK
    <3> QED
      BY <2>4, <3>1 DEF TypeOK
  <2>6. \A id \in 1..seen[p].upto : id > m - k => id \in seen[p].ids
    BY <2>3, <2>4 DEF UpTo, SeenAbove
  <2>7. m - k <= 0
    BY <2>3, <2>4, <2>5
  <2> QED
    BY <2>5, <2>6, <2>7
<1> QED
  BY <1>1, <1>2, <1>3, HistoryInvariant, PTL DEF Spec
=============================================================================
