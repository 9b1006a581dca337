------------------------------ MODULE Console -------------------------------
(***************************************************************************)
(* The console: pages (js/index.js) on which a user executes, explains and *)
(* kills scripts, and the node server (main.js) that launches a JVM for    *)
(* each request and relays what the JVM writes on its TCP link.            *)
(*                                                                         *)
(* The server keeps one httpSocket, the page that launched something last, *)
(* and one exec, the process it started last.  Clicks travel to the server *)
(* and notifications to the page in order (socket.io); a data event holds  *)
(* any piece of what a JVM has sent (TCP).  What a JVM writes is one of    *)
(* the Feeds, the sequences of messages that PigRun's runs send.  Of the   *)
(* page, the log, the label, the progress and the buttons are kept; the    *)
(* bars of the single jobs, highlighting and areas of text are not.        *)
(***************************************************************************)
EXTENDS Integers, Sequences, SequencesExt

CONSTANTS
  Pages,
  NoPage,       \* httpSocket before any page launched anything: undefined
  Feeds,        \* what a script may write: a set of sequences of [kind, job];
                \* the job of a "start" is the number of jobs, that of a
                \* "progress" the percentage
  Clicks,       \* what users do, of AllClicks
  MaxClicks,    \* bound: clicks, on all pages
  Split         \* may a data event end inside a message?

Launches == {"execute", "explain", "optimize", "chart"}
Requests == Launches \union {"kill"}

AllClicks == {"execute", "explain", "optimize", "kill", "chart", "select", "refused"}

\* notifications: of a run, of an explain and of a prediction
Kinds == {"launch", "start", "jobsubmit", "jobstart", "jobfinish", "jobfail", "progress",
          "mapsdone", "reducesdone", "outputcomplete", "complete", "success", "fail",
          "explain", "Optimization"}

ASSUME ClicksAssumption == Clicks \subseteq AllClicks /\ MaxClicks \in Nat
ASSUME FeedsAssumption  == Feeds \subseteq Seq([kind : Kinds, job : Nat])
ASSUME PagesAssumption  == NoPage \notin Pages /\ Split \in BOOLEAN

VARIABLES
  page,        \* page[p]: the variables and the document of page p
  request,     \* request[p]: socket.io messages from the page to the server
  response,    \* response[p]: notifications on their way to the page
  server,      \* "up", or what it died of: "kill" or "data"
  httpSocket,  \* the page that data is relayed to
  exec,        \* the process the server started last, 0: undefined
  process,     \* process[i]: shell and java pid, what it writes, how far it is
  signals,     \* pids that a kill -9 is under way to
  lastPid,     \* of the operating system
  clicks

vars == <<page, request, response, server, httpSocket, exec, process, signals, lastPid, clicks>>

serverVars == <<server, httpSocket, exec, process, signals, lastPid>>

\* a slip: the kill button is not disabled when the page is loaded
BlankKillOn ==
  [type |-> "none", label |-> "State", fail |-> FALSE, progress |-> "0",
   currentJobId |-> 0, jobsCount |-> 0, jobsNumber |-> 0,
   rows |-> <<>>, delayed |-> <<>>,
   explainButton |-> TRUE, killButton |-> TRUE, killTimers |-> 0]

\* a page as it is loaded: index.js:36 disables the kill button
Blank == [type |-> "none", label |-> "State", fail |-> FALSE, progress |-> "0",
          currentJobId |-> 0, jobsCount |-> 0, jobsNumber |-> 0,
          rows |-> <<>>, delayed |-> <<>>,
          explainButton |-> TRUE, killButton |-> FALSE, killTimers |-> 0]

Init ==
  /\ page = [p \in Pages |-> Blank]
  /\ request = [p \in Pages |-> <<>>] /\ response = [p \in Pages |-> <<>>]
  /\ server = "up" /\ httpSocket = NoPage /\ exec = 0
  /\ process = <<>> /\ signals = {} /\ lastPid = 0 /\ clicks = 0

-----------------------------------------------------------------------------
(* Clicks.                                                                 *)

\* reset(): type, currentJobId, jobsNumber and pending timers stay
Reset(pg) ==
  [pg EXCEPT !.label = "State", !.fail = FALSE, !.progress = "0",
             !.jobsCount = 0, !.rows = <<>>]

Click(p, what, pg) ==
  /\ what \in Clicks /\ clicks < MaxClicks
  /\ clicks' = clicks + 1
  /\ page' = [page EXCEPT ![p] = pg]
  /\ UNCHANGED <<response, serverVars>>

Emit(p, what) == request' = [request EXCEPT ![p] = Append(@, what)]

executeScript(p) ==
  /\ Click(p, "execute", [Reset(page[p]) EXCEPT !.type = "script", !.explainButton = FALSE,
                                                !.killButton = TRUE])
  /\ Emit(p, "execute")

explainAlias(p) ==
  /\ page[p].explainButton
  /\ Click(p, "explain", [Reset(page[p]) EXCEPT !.type = "explain"])
  /\ Emit(p, "explain")

Optimize(p) ==
  /\ Click(p, "optimize", [page[p] EXCEPT !.type = "optimize"])
  /\ Emit(p, "optimize")

\* kill = true, and false again in reset()
killScript(p) ==
  /\ page[p].killButton
  /\ Click(p, "kill", [Reset(page[p]) EXCEPT !.explainButton = TRUE, !.killTimers = @ + 1])
  /\ Emit(p, "kill")

\* generateChart, and the file listing, deletion and upload of hdfs.html
generateChart(p) == Click(p, "chart", page[p]) /\ Emit(p, "chart")

selectScript(p) == Click(p, "select", Reset(page[p])) /\ UNCHANGED request

\* the same without a script or a mode selected: an alert, and nothing is sent
RefusedClick(p) ==
  /\ \/ Click(p, "refused", [Reset(page[p]) EXCEPT !.type = "script"])
     \/ page[p].explainButton /\ Click(p, "refused", [Reset(page[p]) EXCEPT !.type = "explain"])
     \/ Click(p, "refused", [page[p] EXCEPT !.type = "optimize"])
  /\ UNCHANGED request

\* one second after killScript
KillTimer(p) ==
  /\ page[p].killTimers > 0
  /\ page' = [page EXCEPT ![p].killTimers = @ - 1, ![p].killButton = FALSE]
  /\ UNCHANGED <<request, response, serverVars, clicks>>

-----------------------------------------------------------------------------
(* The server handles what the pages ask for.                              *)

Handling(p, what) ==
  /\ server = "up" /\ request[p] # <<>> /\ Head(request[p]) = what
  /\ request' = [request EXCEPT ![p] = Tail(@)]
  /\ UNCHANGED <<page, response, clicks>>

\* a slip: only the first process is kept
StartKeepsExec(p, kind, feed) ==
  /\ process' = Append(process, [page |-> p, kind |-> kind, feed |-> feed, shell |-> lastPid + 1,
                                 java |-> 0, alive |-> TRUE, sent |-> 0, read |-> 0])
  /\ exec' = IF exec = 0 THEN Len(process) + 1 ELSE exec
  /\ lastPid' = lastPid + 1
  /\ UNCHANGED <<server, signals>>

\* exec = process.exec(...): a shell, which will fork the program
Start(p, kind, feed) ==
  /\ process' = Append(process, [page |-> p, kind |-> kind, feed |-> feed, shell |-> lastPid + 1,
                                 java |-> 0, alive |-> TRUE, sent |-> 0, read |-> 0])
  /\ exec' = Len(process) + 1
  /\ lastPid' = lastPid + 1
  /\ UNCHANGED <<server, signals>>

\* a slip: explain does not take the socket
OnExplainNoSocket(p) ==
  /\ Handling(p, "explain") /\ UNCHANGED httpSocket
  /\ Start(p, "explain", << [kind |-> "explain", job |-> 0] >>)

OnExecute(p) ==
  /\ Handling(p, "execute") /\ httpSocket' = p
  /\ \E feed \in Feeds : Start(p, "script", feed)

OnExplain(p) ==
  /\ Handling(p, "explain") /\ httpSocket' = p
  /\ Start(p, "explain", << [kind |-> "explain", job |-> 0] >>)

OnOptimize(p) ==
  /\ Handling(p, "optimize") /\ httpSocket' = p
  /\ Start(p, "optimize", << [kind |-> "Optimization", job |-> 0] >>)

OnChart(p) ==
  /\ Handling(p, "chart") /\ UNCHANGED httpSocket
  /\ Start(p, "chart", <<>>)

Dies(cause) ==
  /\ server' = cause /\ httpSocket' = NoPage /\ exec' = 0
  /\ UNCHANGED <<process, signals, lastPid>>

\* kill -9 of exec.pid + 1 and hadoop job -kill, each in a shell of its own;
\* exec.pid throws when nothing was started yet
OnKill(p) ==
  /\ Handling(p, "kill")
  /\ IF exec = 0
       THEN Dies("kill")
       ELSE /\ signals' = signals \union {process[exec].shell + 1}
            /\ lastPid' = lastPid + 2
            /\ UNCHANGED <<server, httpSocket, exec, process>>

-----------------------------------------------------------------------------
(* Processes: external.                                                    *)

SystemUnchanged == UNCHANGED <<page, request, response, server, httpSocket, exec, clicks>>

Fork(i) ==
  /\ process[i].alive /\ process[i].java = 0
  /\ process' = [process EXCEPT ![i].java = lastPid + 1]
  /\ lastPid' = lastPid + 1
  /\ UNCHANGED signals /\ SystemUnchanged

\* the process with that pid is gone; a shell takes along only what it has
\* not forked yet
Signal(pid) ==
  /\ pid \in signals /\ signals' = signals \ {pid}
  /\ process' = [i \in DOMAIN process |->
       IF process[i].java = pid \/ (process[i].shell = pid /\ process[i].java = 0)
         THEN [process[i] EXCEPT !.alive = FALSE] ELSE process[i]]
  /\ UNCHANGED lastPid /\ SystemUnchanged

\* the JVM writes its next message, and ends after its last one unless that
\* one is a failure (Main.main's timers keep it alive)
Write(i) ==
  /\ server = "up"
  /\ process[i].alive /\ process[i].java # 0
  /\ process[i].sent < Len(process[i].feed)
  /\ LET sent == process[i].sent + 1
         last == sent = Len(process[i].feed) /\ process[i].feed[sent].kind # "fail"
     IN process' = [process EXCEPT ![i].sent = sent, ![i].alive = ~last]
  /\ UNCHANGED <<signals, lastPid>> /\ SystemUnchanged

-----------------------------------------------------------------------------
(* A data event: half a message is one unit, so that an odd position is    *)
(* one inside a message.                                                   *)

OnData(i) ==
  /\ server = "up" /\ process[i].read < 2 * process[i].sent
  /\ \E to \in (process[i].read + 1)..(2 * process[i].sent) :
       /\ to % 2 = 0 \/ Split
       /\ process' = [process EXCEPT ![i].read = to]
       /\ IF httpSocket = NoPage
            THEN /\ server' = "data" /\ UNCHANGED response
            ELSE /\ response' = [response EXCEPT ![httpSocket] =
                                   Append(@, [run |-> i, from |-> process[i].read, to |-> to])]
                 /\ UNCHANGED server
  /\ UNCHANGED <<page, request, httpSocket, exec, signals, lastPid, clicks>>

-----------------------------------------------------------------------------
(* The page shows a notification.                                          *)

\* the messages of a chunk that end with a newline
Pieces(chunk) ==
  LET run == process[chunk.run] IN
  IF run.kind # "script" THEN <<>>
  ELSE [k \in 1..(chunk.to \div 2 - chunk.from \div 2) |->
          [run |-> chunk.run, n |-> chunk.from \div 2 + k]]

\* a slip: the last message of a chunk is taken for an unfinished one
LinesButLast(chunk) ==
  IF chunk.from % 2 = 0 /\ Pieces(chunk) # <<>> THEN Front(Pieces(chunk)) ELSE <<>>

\* JSON.parse of a rest throws and nothing of the chunk is shown; a last
\* piece without a newline is left out
Lines(chunk) == IF chunk.from % 2 = 0 THEN Pieces(chunk) ELSE <<>>

Message(line) == process[line.run].feed[line.n]

AddRow(pg, line) == [pg EXCEPT !.rows = Append(@, line)]

Fails(pg, line) ==
  [AddRow(pg, line) EXCEPT !.label = "Fail", !.progress = "100", !.fail = TRUE]

\* 100 percent is shown as 99 until the success, and not at all after a failure
Progresses(pg, line) ==
  IF Message(line).job # 100 THEN [pg EXCEPT !.progress = "part"]
  ELSE IF pg.fail THEN pg ELSE [pg EXCEPT !.progress = "99"]

Succeeds(pg, line) ==
  [AddRow(pg, line) EXCEPT !.label = "Succeed", !.progress = "100",
                           !.explainButton = TRUE, !.killButton = FALSE]

JobStarts(pg, line) ==
  [AddRow(pg, line) EXCEPT !.jobsCount = @ + 1, !.currentJobId = Message(line).job]

\* a slip: only the row of the last job is added
JobFinishesLast(pg, line) ==
  IF pg.jobsCount = pg.jobsNumber THEN AddRow(pg, line) ELSE pg

\* the row of a job that is not the last one comes half a second later
JobFinishes(pg, line) ==
  IF pg.jobsCount = pg.jobsNumber THEN AddRow(pg, line)
                                  ELSE [pg EXCEPT !.delayed = Append(@, line)]

Starts(pg, line) == [AddRow(pg, line) EXCEPT !.jobsNumber = Message(line).job]

\* "mapreduceprogress" (mapsdone, reducesdone) only moves bars, "explain" only
\* fills the plan's area
NoRow == {"progress", "mapsdone", "reducesdone", "explain"}

Coordinate(pg, line) ==
  LET kind == Message(line).kind IN
  CASE kind = "fail"      -> Fails(pg, line)
    [] kind = "progress"  -> Progresses(pg, line)
    [] kind = "success"   -> Succeeds(pg, line)
    [] kind = "jobstart"  -> JobStarts(pg, line)
    [] kind = "jobfinish" -> JobFinishes(pg, line)
    [] kind = "start"     -> Starts(pg, line)
    [] kind \in NoRow \ {"progress"} -> pg
    [] OTHER -> AddRow(pg, line)

\* what an explain takes a chunk for: JSON.parse of anything but one message
\* throws
OnlyMessage(chunk) ==
  IF chunk.from % 2 = 0 /\ chunk.to = chunk.from + 2
    THEN << [run |-> chunk.run, n |-> chunk.to \div 2] >> ELSE <<>>

\* coordinate() for one message of a notification after the other
Coordinated(pg, lines) ==
  LET shown[k \in 0..Len(lines)] ==
        IF k = 0 THEN pg ELSE Coordinate(shown[k - 1], lines[k])
  IN shown[Len(lines)]

\* kill is FALSE again by the time a notification comes; the result of an
\* optimization is shown in an area of its own
Shown(pg, chunk) ==
  CASE pg.type = "script"  -> Coordinated(pg, Lines(chunk))
    [] pg.type = "explain" -> Coordinated(pg, OnlyMessage(chunk))
    [] OTHER -> pg

Notification(p) ==
  /\ response[p] # <<>>
  /\ page' = [page EXCEPT ![p] = Shown(page[p], Head(response[p]))]
  /\ response' = [response EXCEPT ![p] = Tail(@)]
  /\ UNCHANGED <<request, serverVars, clicks>>

\* a slip: the timer is an interval
DelayedAgain(p) ==
  /\ page[p].delayed # <<>>
  /\ page' = [page EXCEPT ![p] = AddRow(page[p], Head(page[p].delayed))]
  /\ UNCHANGED <<request, response, serverVars, clicks>>

\* half a second after a job finished, whatever the page shows by then
Delayed(p) ==
  /\ page[p].delayed # <<>>
  /\ page' = [page EXCEPT ![p] = [AddRow(page[p], Head(page[p].delayed))
                                    EXCEPT !.delayed = Tail(@)]]
  /\ UNCHANGED <<request, response, serverVars, clicks>>

-----------------------------------------------------------------------------
User(p) ==
  \/ executeScript(p) \/ explainAlias(p) \/ Optimize(p) \/ killScript(p)
  \/ generateChart(p) \/ selectScript(p) \/ RefusedClick(p)

Browser(p) == KillTimer(p) \/ Notification(p) \/ Delayed(p)

Server(p) == OnExecute(p) \/ OnExplain(p) \/ OnOptimize(p) \/ OnChart(p) \/ OnKill(p)

System(i) == Fork(i) \/ Write(i)

Next ==
  \/ \E p \in Pages : User(p) \/ Browser(p) \/ Server(p)
  \/ \E i \in DOMAIN process : System(i) \/ OnData(i)
  \/ \E pid \in signals : Signal(pid)

Spec == Init /\ [][Next]_vars

-----------------------------------------------------------------------------
(* Properties.                                                             *)

PageTypeOK(pg) ==
  /\ pg.type \in {"none", "script", "explain", "optimize"}
  /\ pg.label \in {"State", "Succeed", "Fail"} /\ pg.progress \in {"0", "part", "99", "100"}
  /\ pg.fail \in BOOLEAN /\ pg.explainButton \in BOOLEAN /\ pg.killButton \in BOOLEAN
  /\ pg.jobsCount \in Nat /\ pg.killTimers \in 0..MaxClicks
  /\ \A k \in DOMAIN pg.rows : pg.rows[k].n <= process[pg.rows[k].run].sent
  /\ \A k \in DOMAIN pg.delayed : Message(pg.delayed[k]).kind = "jobfinish"

\* The type of the pages and of the server; while the server is up, exec is
\* the process that was started last and data has an owner.
TypeOK ==
  /\ \A p \in Pages : PageTypeOK(page[p])
  /\ server \in {"up", "kill", "data"}
  /\ httpSocket \in Pages \union {NoPage}
  /\ server = "up" => exec = Len(process)
  /\ \A i \in DOMAIN process : /\ process[i].sent <= Len(process[i].feed)
                               /\ process[i].read <= 2 * process[i].sent

\* No click on any page, and no answer of a process, brings the server down:
\* exec and httpSocket are never used before something was started (the kill
\* button is off until then, index.js:36, and only what takes the socket is
\* answered, main.js:51).
ServerStaysUp == server = "up"

Process ==
  [page : Pages, kind : {"script", "explain", "optimize", "chart"},
   feed : Feeds \union {<<>>, << [kind |-> "explain", job |-> 0] >>,
                        << [kind |-> "Optimization", job |-> 0] >>},
   shell : Nat, java : Nat, alive : BOOLEAN, sent : Nat, read : Nat]

IdlePage ==
  [type : {"none", "script", "explain", "optimize"}, label : {"State"}, fail : {FALSE},
   progress : {"0"}, currentJobId : {0}, jobsCount : {0}, jobsNumber : {0},
   rows : {<<>>}, delayed : {<<>>},
   explainButton : BOOLEAN, killButton : BOOLEAN, killTimers : Int]

LaunchedBefore(p, k) == \E j \in 1..(k - 1) : request[p][j] \in Launches

\* until the server has started a process, whoever can kill has asked for a
\* launch before
NothingStarted ==
  /\ response = [p \in Pages |-> <<>>]
  /\ page \in [Pages -> IdlePage]
  /\ \A p \in Pages :
       /\ page[p].killButton => LaunchedBefore(p, Len(request[p]) + 1)
       /\ \A k \in DOMAIN request[p] : request[p][k] = "kill" => LaunchedBefore(p, k)

\* Why the server stays up: exec is defined when a kill can come, and a process
\* that writes to the link has given httpSocket a page.
UpInv ==
  /\ ServerStaysUp
  /\ lastPid \in Nat /\ process \in Seq(Process) /\ exec = Len(process)
  /\ request \in [Pages -> Seq(Requests)]
  /\ httpSocket \in Pages \union {NoPage}
  /\ httpSocket = NoPage =>
       \A i \in DOMAIN process :
         process[i].feed = <<>> /\ process[i].sent = 0 /\ process[i].read = 0
  /\ exec = 0 => NothingStarted

Steady(line) == Message(line).kind # "jobfinish"   \* not shown with a delay

\* No message of a run is shown twice on a page, and the operations of a run,
\* those that finished jobs apart, are shown in the order they were sent in.
LogInOrder ==
  \A p \in Pages : LET rows == page[p].rows IN
    \A i, k \in DOMAIN rows :
      i < k /\ rows[i].run = rows[k].run =>
        /\ rows[i] # rows[k]
        /\ Steady(rows[i]) /\ Steady(rows[k]) => rows[i].n < rows[k].n

OnPage(pg) == Range(pg.rows) \union Range(pg.delayed)

Alone(p) == \A i \in DOMAIN process : process[i].page = p \/ process[i].kind = "chart"

\* As long as no other page takes the socket, no operation is missing between
\* two that a page shows of a run, whatever else is clicked (index.js:646
\* warns that selecting another script loses data, and of nothing else).
NoGaps ==
  \A p \in Pages : LET rows == page[p].rows IN
    page[p].type = "script" /\ Alone(p) =>
      \A i, k \in DOMAIN rows :
        rows[i].run = rows[k].run /\ Steady(rows[i]) /\ Steady(rows[k]) =>
          \A n \in rows[i].n..rows[k].n :
            LET line == [run |-> rows[i].run, n |-> n] IN
            Message(line).kind \in NoRow \/ line \in OnPage(page[p])

\* Browsers and the server handle the events that are due, processes are
\* scheduled; users need not do anything.
Fairness ==
  /\ \A p \in Pages : WF_vars(Browser(p)) /\ WF_vars(Server(p))
  /\ \A i \in 1..MaxClicks :
       /\ WF_vars(i \in DOMAIN process /\ System(i))
       /\ WF_vars(i \in DOMAIN process /\ OnData(i))

FairSpec == Spec /\ Fairness

\* Every script that is executed ends up labelled as succeeded or failed.
VerdictShown ==
  \A p \in Pages : page[p].type = "script" ~> page[p].label \in {"Succeed", "Fail"}
=============================================================================
