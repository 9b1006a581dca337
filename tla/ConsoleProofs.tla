--------------------------- MODULE ConsoleProofs ----------------------------
(***************************************************************************)
(* What holds of the console whatever the pages, the feeds and the number  *)
(* of clicks.  The node server is never brought down by a click or by what *)
(* a process writes (UpInv).  A page shows each message of a run at most   *)
(* once, in the order they were sent in, and none that was not sent: what  *)
(* it shows was relayed before what is still on its way to it (LogsInv).   *)
(* Where data events end with a message, and no other page takes the       *)
(* socket, what was relayed after a row is shown or on its way (GapInv).   *)
(***************************************************************************)
EXTENDS Console, SelectionProofs

LEMMA InitUp == Init => UpInv
<1> SUFFICES ASSUME Init PROVE UpInv
  OBVIOUS
<1>1. process \in Seq(Process) /\ exec = Len(process) /\ DOMAIN process = {}
  BY DEF Init
<1>2. request \in [Pages -> Seq(Requests)]
  BY DEF Init
<1>3. NothingStarted
  BY DEF Init, NothingStarted, IdlePage, Blank
<1> QED
  BY <1>1, <1>2, <1>3 DEF Init, UpInv, ServerStaysUp

-----------------------------------------------------------------------------
(* Clicks.                                                                 *)

\* what a click may do: to the page, and to the requests of that page
Clicked(p, pg) ==
  /\ page' = [page EXCEPT ![p] = pg]
  /\ UNCHANGED <<response, serverVars>>

LEMMA ResetIdle ==
  ASSUME NEW pg \in IdlePage
  PROVE  Reset(pg) \in IdlePage /\ Reset(pg).killButton = pg.killButton
  BY DEF Reset, IdlePage

LEMMA KilledIdle ==
  ASSUME NEW pg \in IdlePage, NEW b \in BOOLEAN, NEW t \in Int
  PROVE  /\ [pg EXCEPT !.explainButton = b, !.killTimers = t] \in IdlePage
         /\ [pg EXCEPT !.killTimers = t, !.killButton = FALSE] \in IdlePage
         /\ ~[pg EXCEPT !.killTimers = t, !.killButton = FALSE].killButton
  BY DEF IdlePage

LEMMA TimersCount ==
  ASSUME NEW pg \in IdlePage
  PROVE  pg.killTimers + 1 \in Int /\ pg.killTimers - 1 \in Int
  BY DEF IdlePage

LEMMA EmitTyped ==
  ASSUME UpInv, NEW p \in Pages, NEW what \in Requests, Emit(p, what)
  PROVE  /\ request' \in [Pages -> Seq(Requests)]
         /\ Len(request'[p]) = Len(request[p]) + 1
         /\ request'[p][Len(request[p]) + 1] = what
         /\ \A k \in 1..Len(request[p]) : request'[p][k] = request[p][k]
         /\ \A q \in Pages : q # p => request'[q] = request[q]
<1>1. request[p] \in Seq(Requests) /\ request'[p] = Append(request[p], what)
  BY DEF UpInv, Emit
<1> QED
  BY <1>1 DEF UpInv, Emit

\* a click that asks for a launch
LEMMA LaunchClickUp ==
  ASSUME UpInv, NEW p \in Pages, NEW pg, NEW what \in Launches,
         Clicked(p, pg), Emit(p, what),
         exec = 0 => pg \in IdlePage
  PROVE  UpInv'
<1>1. what \in Requests /\ what # "kill"
  BY DEF Launches, Requests
<1>2. /\ request' \in [Pages -> Seq(Requests)]
      /\ Len(request'[p]) = Len(request[p]) + 1
      /\ request'[p][Len(request[p]) + 1] = what
      /\ \A k \in 1..Len(request[p]) : request'[p][k] = request[p][k]
      /\ \A q \in Pages : q # p => request'[q] = request[q]
  BY <1>1, EmitTyped
<1>3. ASSUME exec = 0 PROVE NothingStarted'
  <2>1. NothingStarted
    BY <1>3 DEF UpInv
  <2>2. page' \in [Pages -> IdlePage] /\ response' = [q \in Pages |-> <<>>]
    BY <1>3, <2>1 DEF NothingStarted, Clicked
  <2>3. ASSUME NEW q \in Pages
        PROVE  /\ page'[q].killButton => LaunchedBefore(q, Len(request[q]) + 1)'
               /\ \A k \in DOMAIN request'[q] : request'[q][k] = "kill" => LaunchedBefore(q, k)'
    <3>1. CASE q = p
      <4>1. Len(request[p]) \in Nat /\ DOMAIN request[p] = 1..Len(request[p])
            /\ DOMAIN request'[p] = 1..(Len(request[p]) + 1)
        BY <1>2 DEF UpInv
      <4>2. LaunchedBefore(p, Len(request[p]) + 1)'
        BY <1>2, <4>1 DEF LaunchedBefore
      <4>3. ASSUME NEW k \in DOMAIN request'[p], request'[p][k] = "kill"
            PROVE  LaunchedBefore(p, k)'
        <5>1. k \in 1..Len(request[p]) /\ request[p][k] = "kill"
          BY <1>1, <1>2, <4>1, <4>3
        <5>2. LaunchedBefore(p, k)
          BY <2>1, <4>1, <5>1 DEF NothingStarted
        <5> QED
          BY <1>2, <4>1, <5>1, <5>2 DEF LaunchedBefore
      <4> QED
        BY <3>1, <4>2, <4>3
    <3>2. CASE q # p
      <4>1. request'[q] = request[q] /\ page'[q] = page[q]
        BY <1>2, <2>1, <3>2 DEF Clicked, NothingStarted
      <4> QED
        BY <2>1, <4>1 DEF NothingStarted, LaunchedBefore
    <3> QED
      BY <3>1, <3>2
  <2> QED
    BY <2>2, <2>3 DEF NothingStarted
<1> QED
  BY <1>2, <1>3 DEF UpInv, ServerStaysUp, Clicked, serverVars

\* a kill is only offered when a launch was asked for
LEMMA KillClickUp ==
  ASSUME UpInv, NEW p \in Pages, NEW pg,
         Clicked(p, pg), Emit(p, "kill"),
         page[p].killButton,
         exec = 0 => pg \in IdlePage
  PROVE  UpInv'
<1>2. /\ request' \in [Pages -> Seq(Requests)]
      /\ Len(request'[p]) = Len(request[p]) + 1
      /\ request'[p][Len(request[p]) + 1] = "kill"
      /\ \A k \in 1..Len(request[p]) : request'[p][k] = request[p][k]
      /\ \A q \in Pages : q # p => request'[q] = request[q]
  BY EmitTyped DEF Requests
<1>3. ASSUME exec = 0 PROVE NothingStarted'
  <2>1. NothingStarted
    BY <1>3 DEF UpInv
  <2>2. page' \in [Pages -> IdlePage] /\ response' = [q \in Pages |-> <<>>]
    BY <1>3, <2>1 DEF NothingStarted, Clicked
  <2>3. ASSUME NEW q \in Pages
        PROVE  /\ page'[q].killButton => LaunchedBefore(q, Len(request[q]) + 1)'
               /\ \A k \in DOMAIN request'[q] : request'[q][k] = "kill" => LaunchedBefore(q, k)'
    <3>1. CASE q = p
      <4>1. Len(request[p]) \in Nat /\ DOMAIN request[p] = 1..Len(request[p])
            /\ DOMAIN request'[p] = 1..(Len(request[p]) + 1)
        BY <1>2 DEF UpInv
      <4>2. LaunchedBefore(p, Len(request[p]) + 1)
        BY <2>1 DEF NothingStarted
      <4>3. PICK j \in 1..Len(request[p]) : request[p][j] \in Launches
        BY <4>1, <4>2 DEF LaunchedBefore
      <4>4. request'[p][j] \in Launches
        BY <1>2, <4>3
      <4>5. LaunchedBefore(p, Len(request[p]) + 1)'
        BY <1>2, <4>1, <4>3, <4>4 DEF LaunchedBefore
      <4>6. ASSUME NEW k \in DOMAIN request'[p], request'[p][k] = "kill"
            PROVE  LaunchedBefore(p, k)'
        <5>1. CASE k = Len(request[p]) + 1
          BY <4>1, <4>3, <4>4, <5>1 DEF LaunchedBefore
        <5>2. CASE k \in 1..Len(request[p])
          <6>1. LaunchedBefore(p, k)
            BY <1>2, <2>1, <4>1, <4>6, <5>2 DEF NothingStarted
          <6>2. PICK m \in 1..(k - 1) : request[p][m] \in Launches
            BY <6>1 DEF LaunchedBefore
          <6>3. m \in 1..Len(request[p]) /\ request'[p][m] \in Launches
            BY <1>2, <4>1, <5>2, <6>2
          <6> QED
            BY <6>2, <6>3 DEF LaunchedBefore
        <5> QED
          BY <4>1, <4>6, <5>1, <5>2
      <4> QED
        BY <3>1, <4>5, <4>6
    <3>2. CASE q # p
      <4>1. request'[q] = request[q] /\ page'[q] = page[q]
        BY <1>2, <2>1, <3>2 DEF Clicked, NothingStarted
      <4> QED
        BY <2>1, <4>1 DEF NothingStarted, LaunchedBefore
    <3> QED
      BY <3>1, <3>2
  <2> QED
    BY <2>2, <2>3 DEF NothingStarted
<1> QED
  BY <1>2, <1>3 DEF UpInv, ServerStaysUp, Clicked, serverVars

\* a click, or a timer, that sends nothing and offers no kill
LEMMA QuietClickUp ==
  ASSUME UpInv, NEW p \in Pages, NEW pg,
         Clicked(p, pg), UNCHANGED request,
         exec = 0 => pg \in IdlePage /\ (pg.killButton => page[p].killButton)
  PROVE  UpInv'
<1>1. ASSUME exec = 0 PROVE NothingStarted'
  <2>1. NothingStarted
    BY <1>1 DEF UpInv
  <2>2. page' \in [Pages -> IdlePage]
    BY <1>1, <2>1 DEF NothingStarted, Clicked
  <2>3. ASSUME NEW q \in Pages PROVE page'[q].killButton => page[q].killButton
    BY <1>1, <2>1 DEF NothingStarted, Clicked
  <2> QED
    BY <2>1, <2>2, <2>3 DEF NothingStarted, Clicked, LaunchedBefore
<1> QED
  BY <1>1 DEF UpInv, ServerStaysUp, Clicked, serverVars

LEMMA UserUp ==
  ASSUME UpInv, NEW p \in Pages, User(p) PROVE UpInv'
<1> DEFINE pg == page[p]
<1>1. exec = 0 => pg \in IdlePage /\ Reset(pg) \in IdlePage
                  /\ Reset(pg).killButton = pg.killButton
  BY ResetIdle DEF UpInv, NothingStarted
<1>2. CASE executeScript(p)
  <2> DEFINE new == [Reset(pg) EXCEPT !.type = "script", !.explainButton = FALSE,
                                      !.killButton = TRUE]
  <2>1. exec = 0 => new \in IdlePage
    BY <1>1 DEF IdlePage
  <2>2. Clicked(p, new) /\ Emit(p, "execute")
    BY <1>2 DEF executeScript, Click, Clicked
  <2> QED
    BY <2>1, <2>2, LaunchClickUp DEF Launches
<1>3. CASE explainAlias(p)
  <2> DEFINE new == [Reset(pg) EXCEPT !.type = "explain"]
  <2>1. exec = 0 => new \in IdlePage
    BY <1>1 DEF IdlePage
  <2>2. Clicked(p, new) /\ Emit(p, "explain")
    BY <1>3 DEF explainAlias, Click, Clicked
  <2> QED
    BY <2>1, <2>2, LaunchClickUp DEF Launches
<1>4. CASE Optimize(p)
  <2> DEFINE new == [pg EXCEPT !.type = "optimize"]
  <2>1. exec = 0 => new \in IdlePage
    BY <1>1 DEF IdlePage
  <2>2. Clicked(p, new) /\ Emit(p, "optimize")
    BY <1>4 DEF Optimize, Click, Clicked
  <2> QED
    BY <2>1, <2>2, LaunchClickUp DEF Launches
<1>5. CASE killScript(p)
  <2> DEFINE new == [Reset(pg) EXCEPT !.explainButton = TRUE, !.killTimers = @ + 1]
  <2>1. exec = 0 => new \in IdlePage
    <3> SUFFICES ASSUME exec = 0 PROVE new \in IdlePage
      OBVIOUS
    <3> DEFINE r == Reset(pg)
               t == r.killTimers + 1
    <3>1. r \in IdlePage
      BY <1>1
    <3> HIDE DEF r
    <3>2. t \in Int
      BY <3>1, TimersCount
    <3> HIDE DEF t
    <3>3. [r EXCEPT !.explainButton = TRUE, !.killTimers = t] \in IdlePage
      BY <3>1, <3>2, KilledIdle
    <3> QED
      BY <3>3 DEF r, t
  <2>2. Clicked(p, new) /\ Emit(p, "kill") /\ page[p].killButton
    BY <1>5 DEF killScript, Click, Clicked
  <2> QED
    BY <2>1, <2>2, KillClickUp
<1>6. CASE generateChart(p)
  <2>1. Clicked(p, pg) /\ Emit(p, "chart")
    BY <1>6 DEF generateChart, Click, Clicked
  <2> QED
    BY <1>1, <2>1, LaunchClickUp DEF Launches
<1>7. CASE selectScript(p)
  <2>1. Clicked(p, Reset(pg)) /\ UNCHANGED request
    BY <1>7 DEF selectScript, Click, Clicked
  <2> QED
    BY <1>1, <2>1, QuietClickUp
<1>8. CASE RefusedClick(p)
  <2>1. CASE Click(p, "refused", [Reset(pg) EXCEPT !.type = "script"])
    <3> DEFINE new == [Reset(pg) EXCEPT !.type = "script"]
    <3>1. exec = 0 => new \in IdlePage /\ (new.killButton => page[p].killButton)
      BY <1>1 DEF IdlePage
    <3> QED
      BY <1>8, <2>1, <3>1, QuietClickUp DEF RefusedClick, Click, Clicked
  <2>2. CASE Click(p, "refused", [Reset(pg) EXCEPT !.type = "explain"])
    <3> DEFINE new == [Reset(pg) EXCEPT !.type = "explain"]
    <3>1. exec = 0 => new \in IdlePage /\ (new.killButton => page[p].killButton)
      BY <1>1 DEF IdlePage
    <3> QED
      BY <1>8, <2>2, <3>1, QuietClickUp DEF RefusedClick, Click, Clicked
  <2>3. CASE Click(p, "refused", [pg EXCEPT !.type = "optimize"])
    <3> DEFINE new == [pg EXCEPT !.type = "optimize"]
    <3>1. exec = 0 => new \in IdlePage /\ (new.killButton => page[p].killButton)
      BY <1>1 DEF IdlePage
    <3> QED
      BY <1>8, <2>3, <3>1, QuietClickUp DEF RefusedClick, Click, Clicked
  <2> QED
    BY <1>8, <2>1, <2>2, <2>3 DEF RefusedClick
<1> QED
  BY <1>2, <1>3, <1>4, <1>5, <1>6, <1>7, <1>8 DEF User

-----------------------------------------------------------------------------
(* Timers and notifications.                                               *)

LEMMA BrowserUp ==
  ASSUME UpInv, NEW p \in Pages, Browser(p) PROVE UpInv'
<1>1. CASE KillTimer(p)
  <2> DEFINE new == [page[p] EXCEPT !.killTimers = @ - 1, !.killButton = FALSE]
  <2>1. exec = 0 => new \in IdlePage /\ (new.killButton => page[p].killButton)
    <3> SUFFICES ASSUME exec = 0
                 PROVE  new \in IdlePage /\ ~new.killButton
      OBVIOUS
    <3> DEFINE r == page[p]
               t == r.killTimers - 1
    <3>1. r \in IdlePage
      BY DEF UpInv, NothingStarted
    <3> HIDE DEF r
    <3>2. t \in Int
      BY <3>1, TimersCount
    <3> HIDE DEF t
    <3>3. /\ [r EXCEPT !.killTimers = t, !.killButton = FALSE] \in IdlePage
          /\ ~[r EXCEPT !.killTimers = t, !.killButton = FALSE].killButton
      BY <3>1, <3>2, KilledIdle
    <3> QED
      BY <3>3 DEF r, t
  <2>2. page' = [page EXCEPT ![p] = new]
    BY <1>1 DEF KillTimer
  <2> QED
    BY <1>1, <2>1, <2>2, QuietClickUp DEF KillTimer, Clicked
<1>2. CASE Notification(p)
  <2>1. exec # 0
    BY <1>2 DEF Notification, UpInv, NothingStarted
  <2> QED
    BY <1>2, <2>1 DEF Notification, UpInv, ServerStaysUp, serverVars
<1>3. CASE Delayed(p)
  <2>1. exec # 0
    BY <1>3 DEF Delayed, UpInv, NothingStarted, IdlePage
  <2> QED
    BY <1>3, <2>1 DEF Delayed, UpInv, ServerStaysUp, serverVars
<1> QED
  BY <1>1, <1>2, <1>3 DEF Browser

-----------------------------------------------------------------------------
(* The server.                                                             *)

LEMMA HandlingTyped ==
  ASSUME UpInv, NEW p \in Pages, NEW what, Handling(p, what)
  PROVE  request' \in [Pages -> Seq(Requests)]
<1>1. request[p] \in Seq(Requests) /\ request[p] # <<>>
  BY DEF UpInv, Handling
<1>2. Tail(request[p]) \in Seq(Requests)
  BY <1>1
<1> QED
  BY <1>2 DEF UpInv, Handling

LEMMA StartUp ==
  ASSUME UpInv, NEW p \in Pages, NEW what, Handling(p, what),
         NEW kind \in {"script", "explain", "optimize", "chart"},
         NEW feed \in Feeds \union {<<>>, << [kind |-> "explain", job |-> 0] >>,
                                    << [kind |-> "Optimization", job |-> 0] >>},
         Start(p, kind, feed),
         httpSocket' = p \/ (UNCHANGED httpSocket /\ feed = <<>>)
  PROVE  UpInv'
<1> DEFINE new == [page |-> p, kind |-> kind, feed |-> feed, shell |-> lastPid + 1,
                   java |-> 0, alive |-> TRUE, sent |-> 0, read |-> 0]
<1>1. new \in Process
  BY DEF UpInv, Process
<1>2. process' = Append(process, new) /\ process \in Seq(Process)
  BY DEF Start, UpInv
<1>3. /\ process' \in Seq(Process) /\ Len(process') = Len(process) + 1
      /\ \A i \in 1..Len(process) : process'[i] = process[i]
      /\ process'[Len(process) + 1] = new
      /\ Len(process) \in Nat /\ DOMAIN process = 1..Len(process)
      /\ DOMAIN process' = 1..(Len(process) + 1)
  BY <1>1, <1>2
<1>4. exec' = Len(process') /\ exec' # 0
  BY <1>3 DEF Start
<1>5. lastPid' \in Nat /\ server' = "up"
  BY DEF Start, UpInv, ServerStaysUp
<1>6. httpSocket' \in Pages \union {NoPage}
  BY DEF UpInv
<1>7. ASSUME httpSocket' = NoPage, NEW i \in DOMAIN process'
      PROVE  process'[i].feed = <<>> /\ process'[i].sent = 0 /\ process'[i].read = 0
  <2>1. httpSocket = NoPage /\ feed = <<>>
    BY <1>7, PagesAssumption
  <2>2. CASE i = Len(process) + 1
    BY <1>3, <2>1, <2>2
  <2>3. CASE i \in 1..Len(process)
    BY <1>3, <2>1, <2>3 DEF UpInv
  <2> QED
    BY <1>3, <1>7, <2>2, <2>3
<1> QED
  BY <1>3, <1>4, <1>5, <1>6, <1>7, HandlingTyped DEF UpInv, ServerStaysUp

LEMMA ServerUp ==
  ASSUME UpInv, NEW p \in Pages, Server(p) PROVE UpInv'
<1>1. CASE OnExecute(p)
  <2>1. PICK feed \in Feeds : Start(p, "script", feed)
    BY <1>1 DEF OnExecute
  <2> QED
    BY <1>1, <2>1, StartUp DEF OnExecute
<1>2. CASE OnExplain(p)
  BY <1>2, StartUp DEF OnExplain
<1>3. CASE OnOptimize(p)
  BY <1>3, StartUp DEF OnOptimize
<1>4. CASE OnChart(p)
  BY <1>4, StartUp DEF OnChart
<1>5. CASE OnKill(p)
  <2>1. exec # 0
    <3> SUFFICES ASSUME exec = 0 PROVE FALSE
      OBVIOUS
    <3>1. request[p] \in Seq(Requests) /\ request[p] # <<>> /\ Head(request[p]) = "kill"
      BY <1>5 DEF OnKill, Handling, UpInv
    <3>2. 1 \in DOMAIN request[p] /\ request[p][1] = "kill"
      BY <3>1
    <3>3. LaunchedBefore(p, 1)
      BY <3>2 DEF UpInv, NothingStarted
    <3> QED
      BY <3>3 DEF LaunchedBefore
  <2>2. UNCHANGED <<server, httpSocket, exec, process>> /\ lastPid' \in Nat
    BY <1>5, <2>1 DEF OnKill, UpInv
  <2>3. request' \in [Pages -> Seq(Requests)]
    BY <1>5, HandlingTyped DEF OnKill
  <2> QED
    BY <2>1, <2>2, <2>3 DEF UpInv, ServerStaysUp
<1> QED
  BY <1>1, <1>2, <1>3, <1>4, <1>5 DEF Server

-----------------------------------------------------------------------------
(* Processes and data.                                                     *)

\* one process changes, and before a page has the socket it stays silent
LEMMA ProcessUp ==
  ASSUME UpInv, NEW i \in DOMAIN process, NEW new \in Process,
         process' = [process EXCEPT ![i] = new],
         httpSocket = NoPage =>
           new.feed = process[i].feed /\ new.sent = 0 /\ new.read = 0,
         lastPid' \in Nat,
         UNCHANGED <<request, server, httpSocket, exec>>
  PROVE  UpInv'
<1>1. /\ process' \in Seq(Process) /\ Len(process') = Len(process)
      /\ DOMAIN process' = DOMAIN process
      /\ process'[i] = new /\ \A k \in DOMAIN process : k # i => process'[k] = process[k]
  BY DEF UpInv
<1>2. exec # 0
  BY DEF UpInv
<1> QED
  BY <1>1, <1>2 DEF UpInv, ServerStaysUp

LEMMA ProcessTyped ==
  ASSUME UpInv, NEW i \in DOMAIN process PROVE process[i] \in Process
BY DEF UpInv

LEMMA ForkTyped ==
  ASSUME NEW r \in Process, NEW java \in Nat
  PROVE  /\ [r EXCEPT !.java = java] \in Process
         /\ [r EXCEPT !.java = java].feed = r.feed
         /\ [r EXCEPT !.java = java].sent = r.sent
         /\ [r EXCEPT !.java = java].read = r.read
BY DEF Process

LEMMA WriteTyped ==
  ASSUME NEW r \in Process, NEW sent \in Nat, NEW alive \in BOOLEAN
  PROVE  [r EXCEPT !.sent = sent, !.alive = alive] \in Process
BY DEF Process

LEMMA SystemUp ==
  ASSUME UpInv, NEW i \in DOMAIN process, System(i) PROVE UpInv'
<1>0. process[i] \in Process
  BY ProcessTyped
<1>1. CASE Fork(i)
  <2> DEFINE new == [process[i] EXCEPT !.java = lastPid + 1]
  <2>1. new \in Process /\ new.feed = process[i].feed /\ new.sent = process[i].sent
        /\ new.read = process[i].read /\ lastPid + 1 \in Nat
    <3>1. lastPid + 1 \in Nat
      BY DEF UpInv
    <3> QED
      BY <1>0, <3>1, ForkTyped
  <2>2. /\ process' = [process EXCEPT ![i] = new] /\ lastPid' = lastPid + 1
        /\ UNCHANGED <<request, server, httpSocket, exec>>
    BY <1>1 DEF Fork, SystemUnchanged
  <2>3. httpSocket = NoPage => process[i].sent = 0 /\ process[i].read = 0
    BY DEF UpInv
  <2> HIDE DEF new
  <2> QED
    BY <2>1, <2>2, <2>3, ProcessUp
<1>2. CASE Write(i)
  <2> DEFINE sent == process[i].sent + 1
             last == sent = Len(process[i].feed) /\ process[i].feed[sent].kind # "fail"
             new  == [process[i] EXCEPT !.sent = sent, !.alive = ~last]
  <2>1. new \in Process
    <3>1. sent \in Nat
      BY <1>0 DEF Process
    <3> HIDE DEF sent, last
    <3>2. (~last) \in BOOLEAN
      OBVIOUS
    <3> QED
      BY <1>0, <3>1, <3>2, WriteTyped
  <2>2. httpSocket # NoPage
    BY <1>2 DEF Write, UpInv
  <2>3. process' = [process EXCEPT ![i] = new]
    BY <1>2 DEF Write
  <2>4. lastPid' \in Nat /\ UNCHANGED <<request, server, httpSocket, exec>>
    BY <1>2 DEF Write, UpInv, SystemUnchanged
  <2> HIDE DEF new
  <2> QED
    BY <2>1, <2>2, <2>3, <2>4, ProcessUp
<1> QED
  BY <1>1, <1>2 DEF System

LEMMA OnDataUp ==
  ASSUME UpInv, NEW i \in DOMAIN process, OnData(i) PROVE UpInv'
<1>0. process[i] \in Process
  BY ProcessTyped
<1>1. PICK to \in (process[i].read + 1)..(2 * process[i].sent) :
        /\ process' = [process EXCEPT ![i].read = to]
        /\ httpSocket # NoPage => UNCHANGED server
  BY DEF OnData
<1> DEFINE new == [process[i] EXCEPT !.read = to]
<1>2. new \in Process
  BY <1>0 DEF Process
<1>3. httpSocket # NoPage
  <2> SUFFICES ASSUME httpSocket = NoPage PROVE FALSE
    OBVIOUS
  <2>1. process[i].sent = 0 /\ process[i].read = 0
    BY DEF UpInv
  <2> QED
    BY <2>1 DEF OnData
<1>4. process' = [process EXCEPT ![i] = new]
  BY <1>1
<1>5. lastPid' \in Nat /\ UNCHANGED <<request, server, httpSocket, exec>>
  BY <1>1, <1>3 DEF OnData, UpInv
<1> HIDE DEF new
<1> QED
  BY <1>2, <1>3, <1>4, <1>5, ProcessUp

LEMMA SignalUp ==
  ASSUME UpInv, NEW pid \in signals, Signal(pid) PROVE UpInv'
<1>1. \A i \in DOMAIN process : process[i] \in Process
  BY ProcessTyped
<1>2. ASSUME NEW i \in DOMAIN process
      PROVE  /\ [process[i] EXCEPT !.alive = FALSE] \in Process
             /\ [process[i] EXCEPT !.alive = FALSE].feed = process[i].feed
             /\ [process[i] EXCEPT !.alive = FALSE].sent = process[i].sent
             /\ [process[i] EXCEPT !.alive = FALSE].read = process[i].read
  BY <1>1 DEF Process
<1>3. /\ DOMAIN process' = DOMAIN process
      /\ \A i \in DOMAIN process :
           process'[i] \in {process[i], [process[i] EXCEPT !.alive = FALSE]}
  BY DEF Signal
<1>4. \A i \in DOMAIN process :
        /\ process'[i] \in Process /\ process'[i].feed = process[i].feed
        /\ process'[i].sent = process[i].sent /\ process'[i].read = process[i].read
  BY <1>1, <1>2, <1>3
<1>5. process' \in Seq(Process) /\ Len(process') = Len(process)
  <2>1. process' = [i \in 1..Len(process) |-> process'[i]] /\ Len(process) \in Nat
    BY DEF UpInv, Signal
  <2>2. DOMAIN process = 1..Len(process)
    BY DEF UpInv
  <2>3. process' \in [1..Len(process) -> Process]
    BY <1>4, <2>1, <2>2
  <2> QED
    BY <2>1, <2>3
<1>6. exec # 0 \/ NothingStarted'
  BY DEF UpInv, Signal, SystemUnchanged, NothingStarted, LaunchedBefore
<1> QED
  BY <1>3, <1>4, <1>5, <1>6 DEF UpInv, ServerStaysUp, Signal, SystemUnchanged

-----------------------------------------------------------------------------
LEMMA StutterUp ==
  ASSUME UpInv, UNCHANGED vars PROVE UpInv'
BY DEF UpInv, ServerStaysUp, NothingStarted, LaunchedBefore, vars

LEMMA NextUp ==
  ASSUME UpInv, Next PROVE UpInv'
<1>1. CASE \E p \in Pages : User(p)
  BY <1>1, UserUp
<1>2. CASE \E p \in Pages : Browser(p)
  BY <1>2, BrowserUp
<1>3. CASE \E p \in Pages : Server(p)
  BY <1>3, ServerUp
<1>4. CASE \E i \in DOMAIN process : System(i)
  BY <1>4, SystemUp
<1>5. CASE \E i \in DOMAIN process : OnData(i)
  BY <1>5, OnDataUp
<1>6. CASE \E pid \in signals : Signal(pid)
  BY <1>6, SignalUp
<1> QED
  BY <1>1, <1>2, <1>3, <1>4, <1>5, <1>6 DEF Next

\* exec is defined whenever a kill reaches the server, and httpSocket whenever
\* data does, and why: the inductive invariant.
THEOREM ServerInvariant == Spec => []UpInv
<1>1. UpInv /\ [Next]_vars => UpInv'
  BY NextUp, StutterUp
<1> QED
  BY InitUp, <1>1, PTL DEF Spec

\* No click and no data event brings the node server down.
THEOREM ServerIsUp == Spec => []ServerStaysUp
<1>1. UpInv => ServerStaysUp
  BY DEF UpInv
<1> QED
  BY <1>1, ServerInvariant, PTL

-----------------------------------------------------------------------------
(* What a page shows of a run: lines, each once, that were sent to it      *)
(* before what is still on its way.  The invariants take the table of      *)
(* processes as a parameter.                                               *)

Line  == [run : Nat, n : Nat]
Chunk == [run : Nat, from : Nat, to : Nat]

PageRecord ==
  [type : {"none", "script", "explain", "optimize"}, label : {"State", "Succeed", "Fail"},
   fail : BOOLEAN, progress : {"0", "part", "99", "100"},
   currentJobId : Nat, jobsCount : Nat, jobsNumber : Nat,
   rows : Seq(Line), delayed : Seq(Line),
   explainButton : BOOLEAN, killButton : BOOLEAN, killTimers : Nat]

\* a process has written at most its feed, and the server has relayed at most
\* what it has written
Bounded(table) ==
  \A i \in DOMAIN table : /\ table[i].sent <= Len(table[i].feed)
                          /\ table[i].read <= 2 * table[i].sent

ConsoleTypes ==
  /\ page \in [Pages -> PageRecord] /\ response \in [Pages -> Seq(Chunk)]
  /\ clicks \in 0..MaxClicks /\ \A p \in Pages : page[p].killTimers <= clicks
  /\ Bounded(process)

Relayed(line, table) ==
  line.run \in DOMAIN table /\ 1 <= line.n /\ 2 * line.n <= table[line.run].read

Late(line, table) == table[line.run].feed[line.n].kind = "jobfinish"

\* rows that a page shows, and rows whose timers are pending
Log(rows, delayed, table) ==
  /\ \A line \in Range(rows) \union Range(delayed) : Relayed(line, table)
  /\ \A line \in Range(delayed) : Late(line, table)
  /\ IsInjective(rows) /\ IsInjective(delayed)
  /\ Range(rows) \intersect Range(delayed) = {}
  /\ \A i, k \in DOMAIN rows :
       i < k /\ rows[i].run = rows[k].run /\ ~Late(rows[i], table) /\ ~Late(rows[k], table)
         => rows[i].n < rows[k].n

\* chunks on their way to a page that has the lines
UnderWay(lines, chunks, table) ==
  /\ \A a \in DOMAIN chunks :
       /\ chunks[a].run \in DOMAIN table /\ chunks[a].from < chunks[a].to
       /\ chunks[a].to <= table[chunks[a].run].read
       /\ \A line \in lines : line.run = chunks[a].run => 2 * line.n <= chunks[a].from
  /\ \A a, b \in DOMAIN chunks :
       a < b /\ chunks[a].run = chunks[b].run => chunks[a].to <= chunks[b].from

LogInv ==
  \A p \in Pages : /\ Log(page[p].rows, page[p].delayed, process)
                   /\ UnderWay(OnPage(page[p]), response[p], process)

\* what steps do to processes
Grown(before, after) ==
  /\ DOMAIN before \subseteq DOMAIN after
  /\ \A i \in DOMAIN before : /\ after[i].feed = before[i].feed
                              /\ after[i].page = before[i].page /\ after[i].kind = before[i].kind
                              /\ after[i].read \in Nat /\ before[i].read \in Nat
                              /\ after[i].read >= before[i].read

-----------------------------------------------------------------------------
(* Lemmas on logs.                                                         *)

LEMMA LogGrown ==
  ASSUME NEW rows \in Seq(Line), NEW delayed \in Seq(Line), NEW before, NEW after,
         Log(rows, delayed, before), Grown(before, after)
  PROVE  Log(rows, delayed, after)
<1>1. \A line \in Range(rows) \union Range(delayed) : line \in Line
  BY DEF Range
<1>2. ASSUME NEW line \in Line, Relayed(line, before)
      PROVE  Relayed(line, after) /\ (Late(line, after) <=> Late(line, before))
  BY <1>2 DEF Relayed, Late, Grown, Line
<1>3. \A line \in Range(rows) \union Range(delayed) :
        Relayed(line, after) /\ (Late(line, after) <=> Late(line, before))
  BY <1>1, <1>2 DEF Log
<1>4. \A i \in DOMAIN rows : rows[i] \in Range(rows)
  BY DEF Range
<1> QED
  BY <1>3, <1>4 DEF Log

LEMMA UnderWayGrown ==
  ASSUME NEW lines \in SUBSET Line, NEW chunks \in Seq(Chunk), NEW before, NEW after,
         UnderWay(lines, chunks, before), Grown(before, after)
  PROVE  UnderWay(lines, chunks, after)
<1>1. \A a \in DOMAIN chunks : chunks[a] \in Chunk
  OBVIOUS
<1>2. ASSUME NEW a \in DOMAIN chunks
      PROVE  chunks[a].run \in DOMAIN after /\ chunks[a].to <= after[chunks[a].run].read
  BY <1>1 DEF UnderWay, Grown, Chunk
<1> QED
  BY <1>2 DEF UnderWay

LEMMA LogEmptied ==
  ASSUME NEW rows, NEW delayed, NEW table, Log(rows, delayed, table)
  PROVE  Log(<<>>, delayed, table) /\ Range(<<>>) = {}
BY DEF Log, Range, IsInjective

\* a line that is newer than what the page has of its run
Fresh(line, lines) == \A old \in lines : old.run = line.run => old.n < line.n

LEMMA FreshIsNew ==
  ASSUME NEW lines, NEW line \in Line, Fresh(line, lines) PROVE line \notin lines
<1>1. ~(line.n < line.n)
  BY DEF Line
<1> QED BY <1>1 DEF Fresh

LEMMA RangeAppended ==
  ASSUME NEW list \in Seq(Line), NEW line \in Line
  PROVE  Range(Append(list, line)) = Range(list) \union {line}
<1>1. PICK more : more = Append(list, line)
  OBVIOUS
<1>2. /\ DOMAIN more = 1..(Len(list) + 1) /\ DOMAIN list = 1..Len(list) /\ Len(list) \in Nat
      /\ more[Len(list) + 1] = line /\ \A i \in 1..Len(list) : more[i] = list[i]
  BY <1>1
<1>3. Range(more) = Range(list) \union {line}
  BY <1>2 DEF Range
<1> QED BY <1>1, <1>3

LEMMA LogAppended ==
  ASSUME NEW rows \in Seq(Line), NEW delayed \in Seq(Line), NEW table,
         Log(rows, delayed, table), NEW line \in Line, Relayed(line, table),
         Fresh(line, Range(rows) \union Range(delayed))
  PROVE  /\ Log(Append(rows, line), delayed, table)
         /\ Append(rows, line) \in Seq(Line) /\ Range(Append(rows, line)) = Range(rows) \union {line}
<1>1. PICK more : more = Append(rows, line)
  OBVIOUS
<1> more \in Seq(Line)
  BY <1>1
<1>2. /\ DOMAIN more = 1..(Len(rows) + 1) /\ DOMAIN rows = 1..Len(rows) /\ Len(rows) \in Nat
      /\ more[Len(rows) + 1] = line /\ \A i \in 1..Len(rows) : more[i] = rows[i]
  BY <1>1
<1>3. Range(more) = Range(rows) \union {line}
  BY <1>2 DEF Range
<1>4. line \notin Range(rows) /\ line \notin Range(delayed) /\ \A i \in DOMAIN rows : rows[i] # line
  BY FreshIsNew DEF Range
<1>5. IsInjective(more)
  BY <1>2, <1>4 DEF Log, IsInjective
<1>6. ASSUME NEW i \in DOMAIN more, NEW k \in DOMAIN more, i < k, more[i].run = more[k].run,
             ~Late(more[i], table), ~Late(more[k], table)
      PROVE  more[i].n < more[k].n
  <2>1. i \in DOMAIN rows /\ more[i] = rows[i] /\ rows[i] \in Range(rows)
    BY <1>2, <1>6 DEF Range
  <2>2. CASE k = Len(rows) + 1
    BY <1>2, <1>6, <2>1, <2>2 DEF Fresh
  <2>3. CASE k # Len(rows) + 1
    BY <1>2, <1>6, <2>1, <2>3 DEF Log
  <2> QED BY <2>2, <2>3
<1>7. Log(more, delayed, table)
  BY <1>3, <1>4, <1>5, <1>6 DEF Log
<1> QED BY <1>1, <1>3, <1>7

LEMMA LogDelayed ==
  ASSUME NEW rows \in Seq(Line), NEW delayed \in Seq(Line), NEW table,
         Log(rows, delayed, table), NEW line \in Line, Relayed(line, table), Late(line, table),
         Fresh(line, Range(rows) \union Range(delayed))
  PROVE  /\ Log(rows, Append(delayed, line), table)
         /\ Append(delayed, line) \in Seq(Line)
         /\ Range(Append(delayed, line)) = Range(delayed) \union {line}
<1>1. PICK more : more = Append(delayed, line)
  OBVIOUS
<1> more \in Seq(Line)
  BY <1>1
<1>2. /\ DOMAIN more = 1..(Len(delayed) + 1) /\ DOMAIN delayed = 1..Len(delayed)
      /\ Len(delayed) \in Nat
      /\ more[Len(delayed) + 1] = line /\ \A i \in 1..Len(delayed) : more[i] = delayed[i]
  BY <1>1
<1>3. Range(more) = Range(delayed) \union {line}
  BY <1>2 DEF Range
<1>4. line \notin Range(rows) /\ \A i \in DOMAIN delayed : delayed[i] # line
  BY FreshIsNew DEF Range
<1>5. IsInjective(more)
  BY <1>2, <1>4 DEF Log, IsInjective
<1>6. Log(rows, more, table)
  BY <1>3, <1>4, <1>5 DEF Log
<1> QED BY <1>1, <1>3, <1>6

\* the timer of the oldest delayed row
LEMMA LogTimer ==
  ASSUME NEW rows \in Seq(Line), NEW delayed \in Seq(Line), NEW table,
         Log(rows, delayed, table), delayed # <<>>
  PROVE  /\ Log(Append(rows, Head(delayed)), Tail(delayed), table)
         /\ Append(rows, Head(delayed)) \in Seq(Line) /\ Tail(delayed) \in Seq(Line)
         /\ Range(Append(rows, Head(delayed))) \union Range(Tail(delayed))
              = Range(rows) \union Range(delayed)
         /\ Range(Append(rows, Head(delayed))) = Range(rows) \union {Head(delayed)}
         /\ Late(Head(delayed), table)
<1>1. PICK line : line = Head(delayed)
  OBVIOUS
<1>2. PICK rest : rest = Tail(delayed)
  OBVIOUS
<1>3. /\ line \in Line /\ rest \in Seq(Line) /\ Len(delayed) \in Nat \ {0}
      /\ DOMAIN delayed = 1..Len(delayed) /\ line = delayed[1]
      /\ DOMAIN rest = 1..(Len(delayed) - 1)
      /\ \A i \in 1..(Len(delayed) - 1) : rest[i] = delayed[i + 1]
  BY <1>1, <1>2
<1>4. PICK more : more = Append(rows, line)
  OBVIOUS
<1>5. /\ more \in Seq(Line)
      /\ DOMAIN more = 1..(Len(rows) + 1) /\ DOMAIN rows = 1..Len(rows) /\ Len(rows) \in Nat
      /\ more[Len(rows) + 1] = line /\ \A i \in 1..Len(rows) : more[i] = rows[i]
  BY <1>3, <1>4
<1>6. Range(more) = Range(rows) \union {line}
  BY <1>5 DEF Range
<1>7. line \in Range(delayed) /\ Range(rest) \subseteq Range(delayed)
  <2>1. line \in Range(delayed)
    BY <1>3 DEF Range
  <2>2. \A i \in DOMAIN rest : i + 1 \in DOMAIN delayed /\ rest[i] = delayed[i + 1]
    BY <1>3
  <2> QED BY <2>1, <2>2 DEF Range
<1>8. Range(delayed) = Range(rest) \union {line}
  <2>1. ASSUME NEW i \in DOMAIN delayed PROVE delayed[i] = line \/ delayed[i] \in Range(rest)
    <3>1. CASE i = 1
      BY <1>3, <3>1
    <3>2. CASE i # 1
      <4>1. i - 1 \in DOMAIN rest /\ (i - 1) + 1 = i
        BY <1>3, <3>2
      <4> QED BY <1>3, <4>1 DEF Range
    <3> QED BY <3>1, <3>2
  <2> QED BY <1>7, <2>1 DEF Range
<1>9. IsInjective(rest) /\ line \notin Range(rest)
  <2>1. \A i, k \in DOMAIN delayed : delayed[i] = delayed[k] => i = k
    BY DEF Log, IsInjective
  <2>2. \A i \in DOMAIN rest : i + 1 \in DOMAIN delayed /\ rest[i] = delayed[i + 1] /\ i + 1 # 1
    BY <1>3
  <2>3. \A i, k \in DOMAIN rest : rest[i] = rest[k] => i = k
    <3> SUFFICES ASSUME NEW i \in DOMAIN rest, NEW k \in DOMAIN rest, rest[i] = rest[k]
                 PROVE  i = k
      OBVIOUS
    <3>1. i + 1 = k + 1
      BY <2>1, <2>2
    <3> QED BY <1>3, <3>1
  <2>4. 1 \in DOMAIN delayed
    BY <1>3
  <2>5. \A i \in DOMAIN rest : rest[i] # line
    BY <1>3, <2>1, <2>2, <2>4
  <2> QED BY <2>3, <2>5 DEF IsInjective, Range
<1>10. Late(line, table) /\ line \notin Range(rows)
  BY <1>7 DEF Log
<1>11. IsInjective(more)
  <2>1. \A i \in DOMAIN rows : rows[i] # line
    BY <1>10 DEF Range
  <2> QED BY <1>5, <2>1 DEF Log, IsInjective
<1>12. \A i, k \in DOMAIN more :
         i < k /\ more[i].run = more[k].run /\ ~Late(more[i], table) /\ ~Late(more[k], table)
           => more[i].n < more[k].n
  <2>1. \A i \in DOMAIN more : ~Late(more[i], table) => i \in DOMAIN rows /\ more[i] = rows[i]
    BY <1>5, <1>10
  <2> QED BY <2>1 DEF Log
<1>13. Log(more, rest, table)
  BY <1>6, <1>7, <1>9, <1>10, <1>11, <1>12 DEF Log
<1> QED BY <1>1, <1>2, <1>3, <1>4, <1>5, <1>6, <1>8, <1>10, <1>13

-----------------------------------------------------------------------------
(* What one message does to the page.                                      *)

\* the page after a line of which it had nothing newer
Shows(before, after, line) ==
  /\ after \in PageRecord
  /\ after.type = before.type /\ after.killTimers = before.killTimers
  /\ Log(after.rows, after.delayed, process)
  /\ Range(after.rows) \subseteq Range(before.rows) \union {line}
  /\ OnPage(after) \subseteq OnPage(before) \union {line} /\ OnPage(before) \subseteq OnPage(after)
  /\ Message(line).kind \in NoRow \/ line \in OnPage(after)

LEMMA PageFields ==
  ASSUME NEW pg \in PageRecord
  PROVE  /\ pg.rows \in Seq(Line) /\ pg.delayed \in Seq(Line) /\ pg.killTimers \in Nat
         /\ pg.jobsCount \in Nat /\ pg.jobsNumber \in Nat /\ pg.fail \in BOOLEAN
BY DEF PageRecord

\* every message is typed, since feeds are
LEMMA FeedTyped ==
  ASSUME UpInv, NEW i \in DOMAIN process
  PROVE  process[i].feed \in Seq([kind : Kinds, job : Nat])
<1>1. process[i] \in Process
  BY ProcessTyped
<1>2. /\ << >> \in Seq([kind : Kinds, job : Nat])
      /\ << [kind |-> "explain", job |-> 0] >> \in Seq([kind : Kinds, job : Nat])
      /\ << [kind |-> "Optimization", job |-> 0] >> \in Seq([kind : Kinds, job : Nat])
  <2>1. PICK S : S = [kind : Kinds, job : Nat]
    OBVIOUS
  <2>2. [kind |-> "explain", job |-> 0] \in S /\ [kind |-> "Optimization", job |-> 0] \in S
    <3>1. "explain" \in Kinds /\ "Optimization" \in Kinds
      BY DEF Kinds
    <3> QED BY <2>1, <3>1
  <2>3. ASSUME NEW e \in S PROVE <<e>> \in Seq(S)
    OBVIOUS
  <2>4. << >> \in Seq(S)
    OBVIOUS
  <2> QED BY <2>1, <2>2, <2>3, <2>4
<1>3. process[i].feed \in Feeds \union {<<>>, << [kind |-> "explain", job |-> 0] >>,
                                    << [kind |-> "Optimization", job |-> 0] >>}
  BY <1>1 DEF Process
<1> QED BY <1>2, <1>3, FeedsAssumption

LEMMA MessageTyped ==
  ASSUME UpInv, Bounded(process), NEW line \in Line, Relayed(line, process)
  PROVE  Message(line).job \in Nat
<1>1. PICK feed : feed = process[line.run].feed
  OBVIOUS
<1>2. PICK process_run \in Process : process_run = process[line.run]
  BY ProcessTyped DEF Relayed
<1>3. feed \in Seq([kind : Kinds, job : Nat])
  BY <1>1, FeedTyped DEF Relayed
<1>4. /\ 2 * line.n <= process_run.read /\ process_run.read <= 2 * process_run.sent
      /\ process_run.sent <= Len(feed) /\ 1 <= line.n
  BY <1>1, <1>2 DEF Relayed, Bounded
<1>5. line.n \in 1..Len(feed)
  <2>1. line.n \in Nat /\ process_run.read \in Nat /\ process_run.sent \in Nat /\ Len(feed) \in Nat
    BY <1>2, <1>3 DEF Line, Process
  <2> QED BY <1>4, <2>1
<1>6. feed[line.n] \in [kind : Kinds, job : Nat]
  <2>1. PICK S : S = [kind : Kinds, job : Nat]
    OBVIOUS
  <2>2. feed \in Seq(S)
    BY <1>3, <2>1
  <2>3. feed[line.n] \in S
    BY <1>5, <2>2
  <2> QED BY <2>1, <2>3
<1> QED BY <1>1, <1>6 DEF Message

\* a message without a row
LEMMA ShowsNothing ==
  ASSUME NEW pg \in PageRecord, Log(pg.rows, pg.delayed, process),
         NEW after \in PageRecord, NEW line, Message(line).kind \in NoRow,
         after.type = pg.type, after.killTimers = pg.killTimers,
         after.rows = pg.rows, after.delayed = pg.delayed
  PROVE  Shows(pg, after, line)
BY DEF Shows, OnPage

\* a message with a row
LEMMA ShowsRow ==
  ASSUME NEW pg \in PageRecord, Log(pg.rows, pg.delayed, process),
         NEW line \in Line, Relayed(line, process), Fresh(line, OnPage(pg)),
         NEW after \in PageRecord,
         after.type = pg.type, after.killTimers = pg.killTimers,
         after.rows = Append(pg.rows, line), after.delayed = pg.delayed
  PROVE  Shows(pg, after, line)
<1>1. pg.rows \in Seq(Line) /\ pg.delayed \in Seq(Line)
  BY PageFields
<1>2. Fresh(line, Range(pg.rows) \union Range(pg.delayed))
  BY DEF OnPage
<1>3. /\ Log(Append(pg.rows, line), pg.delayed, process)
      /\ Range(Append(pg.rows, line)) = Range(pg.rows) \union {line}
  <2>1. PICK rows, delayed : rows = pg.rows /\ delayed = pg.delayed
    OBVIOUS
  <2>2. /\ rows \in Seq(Line) /\ delayed \in Seq(Line) /\ Log(rows, delayed, process)
        /\ Fresh(line, Range(rows) \union Range(delayed))
    BY <1>1, <1>2, <2>1
  <2>3. /\ Log(Append(rows, line), delayed, process)
        /\ Range(Append(rows, line)) = Range(rows) \union {line}
    BY <2>2, LogAppended
  <2> QED BY <2>1, <2>3
<1> QED BY <1>3 DEF Shows, OnPage

\* a message whose row comes later
LEMMA ShowsLater ==
  ASSUME NEW pg \in PageRecord, Log(pg.rows, pg.delayed, process),
         NEW line \in Line, Relayed(line, process), Late(line, process), Fresh(line, OnPage(pg)),
         NEW after \in PageRecord,
         after.type = pg.type, after.killTimers = pg.killTimers,
         after.rows = pg.rows, after.delayed = Append(pg.delayed, line)
  PROVE  Shows(pg, after, line)
<1>1. pg.rows \in Seq(Line) /\ pg.delayed \in Seq(Line)
  BY PageFields
<1>2. Fresh(line, Range(pg.rows) \union Range(pg.delayed))
  BY DEF OnPage
<1>3. /\ Log(pg.rows, Append(pg.delayed, line), process)
      /\ Range(Append(pg.delayed, line)) = Range(pg.delayed) \union {line}
  <2>1. PICK rows, delayed : rows = pg.rows /\ delayed = pg.delayed
    OBVIOUS
  <2>2. /\ rows \in Seq(Line) /\ delayed \in Seq(Line) /\ Log(rows, delayed, process)
        /\ Fresh(line, Range(rows) \union Range(delayed))
    BY <1>1, <1>2, <2>1
  <2>3. /\ Log(rows, Append(delayed, line), process)
        /\ Range(Append(delayed, line)) = Range(delayed) \union {line}
    <3>1. Relayed(line, process) /\ Late(line, process)
      OBVIOUS
    <3>2. PICK table : table = process
      OBVIOUS
    <3>3. /\ rows \in Seq(Line) /\ delayed \in Seq(Line) /\ line \in Line
      BY <2>2
    <3>4. Log(rows, delayed, table) /\ Relayed(line, table) /\ Late(line, table)
      BY <2>2, <3>1, <3>2
    <3>5. Fresh(line, Range(rows) \union Range(delayed))
      BY <2>2
    <3>6. Log(rows, Append(delayed, line), table)
      BY <3>3, <3>4, <3>5, LogDelayed
    <3>7. Range(Append(delayed, line)) = Range(delayed) \union {line}
      BY <3>3, RangeAppended
    <3> QED BY <3>2, <3>6, <3>7
  <2> QED BY <2>1, <2>3
<1> QED BY <1>3 DEF Shows, OnPage

LEMMA RowTyped ==
  ASSUME NEW pg \in PageRecord, NEW line \in Line
  PROVE  /\ AddRow(pg, line) \in PageRecord
         /\ AddRow(pg, line).type = pg.type /\ AddRow(pg, line).killTimers = pg.killTimers
         /\ AddRow(pg, line).jobsCount = pg.jobsCount
         /\ AddRow(pg, line).rows = Append(pg.rows, line) /\ AddRow(pg, line).delayed = pg.delayed
<1>1. PICK more : more = Append(pg.rows, line)
  OBVIOUS
<1>2. more \in Seq(Line)
  BY <1>1, PageFields
<1>3. /\ [pg EXCEPT !.rows = more] \in PageRecord
      /\ [pg EXCEPT !.rows = more].type = pg.type
      /\ [pg EXCEPT !.rows = more].killTimers = pg.killTimers
      /\ [pg EXCEPT !.rows = more].jobsCount = pg.jobsCount
      /\ [pg EXCEPT !.rows = more].rows = more /\ [pg EXCEPT !.rows = more].delayed = pg.delayed
  BY <1>2 DEF PageRecord
<1>4. AddRow(pg, line) = [pg EXCEPT !.rows = more]
  BY <1>1 DEF AddRow
<1> QED BY <1>1, <1>3, <1>4

LEMMA LaterTyped ==
  ASSUME NEW pg \in PageRecord, NEW line \in Line, NEW after,
         after = [pg EXCEPT !.delayed = Append(@, line)]
  PROVE  /\ after \in PageRecord
         /\ after.type = pg.type /\ after.killTimers = pg.killTimers
         /\ after.rows = pg.rows /\ after.delayed = Append(pg.delayed, line)
<1>1. PICK more : more = Append(pg.delayed, line)
  OBVIOUS
<1>2. more \in Seq(Line)
  BY <1>1, PageFields
<1>3. after = [pg EXCEPT !.delayed = more]
  BY <1>1
<1> QED BY <1>1, <1>2, <1>3 DEF PageRecord

\* the same page but for its label, progress, numbers and buttons
Alike(pg, after) ==
  /\ after \in PageRecord /\ after.type = pg.type /\ after.killTimers = pg.killTimers
  /\ after.rows = pg.rows /\ after.delayed = pg.delayed

LEMMA FailsAlike ==
  ASSUME NEW pg \in PageRecord
  PROVE  Alike(pg, [pg EXCEPT !.label = "Fail", !.progress = "100", !.fail = TRUE])
BY DEF Alike, PageRecord

LEMMA ProgressesAlike ==
  ASSUME NEW pg \in PageRecord, NEW progress \in {"part", "99"}
  PROVE  Alike(pg, [pg EXCEPT !.progress = progress]) /\ Alike(pg, pg)
BY DEF Alike, PageRecord

LEMMA SucceedsAlike ==
  ASSUME NEW pg \in PageRecord
  PROVE  Alike(pg, [pg EXCEPT !.label = "Succeed", !.progress = "100",
                              !.explainButton = TRUE, !.killButton = FALSE])
BY DEF Alike, PageRecord

LEMMA JobStartsAlike ==
  ASSUME NEW pg \in PageRecord, NEW count \in Nat, NEW job \in Nat
  PROVE  Alike(pg, [pg EXCEPT !.jobsCount = count, !.currentJobId = job])
BY DEF Alike, PageRecord

LEMMA StartsAlike ==
  ASSUME NEW pg \in PageRecord, NEW job \in Nat
  PROVE  Alike(pg, [pg EXCEPT !.jobsNumber = job])
BY DEF Alike, PageRecord

LEMMA CoordinateShows ==
  ASSUME UpInv, Bounded(process), NEW pg \in PageRecord, Log(pg.rows, pg.delayed, process),
         NEW line \in Line, Relayed(line, process), Fresh(line, OnPage(pg))
  PROVE  Shows(pg, Coordinate(pg, line), line)
<1> DEFINE kind == Message(line).kind
<1>1. PICK more : more = AddRow(pg, line)
  OBVIOUS
<1>2. /\ more \in PageRecord /\ more.type = pg.type /\ more.killTimers = pg.killTimers
      /\ more.jobsCount = pg.jobsCount
      /\ more.rows = Append(pg.rows, line) /\ more.delayed = pg.delayed
  BY <1>1, RowTyped
<1>3. PICK after : after = Coordinate(pg, line)
  OBVIOUS
<1>4. Message(line).job \in Nat
  BY MessageTyped
<1>5. ASSUME Alike(more, after) PROVE Shows(pg, after, line)
  BY <1>2, <1>5, ShowsRow DEF Alike
<1>6. CASE kind = "fail"
  <2>1. after = [more EXCEPT !.label = "Fail", !.progress = "100", !.fail = TRUE]
    <3>1. after = Fails(pg, line)
      BY <1>3, <1>6 DEF Coordinate, NoRow
    <3> QED BY <1>1, <3>1, Zenon DEF Fails
  <2> QED BY <1>2, <1>3, <1>5, <2>1, FailsAlike
<1>7. CASE kind = "progress"
  <2>1. after = Progresses(pg, line)
    BY <1>3, <1>7 DEF Coordinate
  <2>2. after \in {pg, [pg EXCEPT !.progress = "part"], [pg EXCEPT !.progress = "99"]}
    BY <2>1 DEF Progresses
  <2>3. Alike(pg, after)
    BY <2>2, ProgressesAlike
  <2> QED BY <1>3, <1>7, <2>3, ShowsNothing DEF Alike, NoRow
<1>8. CASE kind = "success"
  <2>1. after = [more EXCEPT !.label = "Succeed", !.progress = "100",
                             !.explainButton = TRUE, !.killButton = FALSE]
    <3>1. after = Succeeds(pg, line)
      BY <1>3, <1>8 DEF Coordinate, NoRow
    <3> QED BY <1>1, <3>1, Zenon DEF Succeeds
  <2> QED BY <1>2, <1>3, <1>5, <2>1, SucceedsAlike
<1>9. CASE kind = "jobstart"
  <2>1. PICK job : job = Message(line).job
    OBVIOUS
  <2>2. PICK count : count = more.jobsCount + 1
    OBVIOUS
  <2>3. count \in Nat
    BY <1>2, <2>2, PageFields
  <2>4. after = [more EXCEPT !.jobsCount = count, !.currentJobId = job]
    <3>1. after = JobStarts(pg, line)
      BY <1>3, <1>9 DEF Coordinate, NoRow
    <3> QED BY <1>1, <2>1, <2>2, <3>1 DEF JobStarts
  <2> QED BY <1>2, <1>3, <1>4, <1>5, <2>1, <2>3, <2>4, JobStartsAlike
<1>10. CASE kind = "jobfinish"
  <2>1. after = JobFinishes(pg, line)
    BY <1>3, <1>10 DEF Coordinate, NoRow
  <2>2. CASE pg.jobsCount = pg.jobsNumber
    <3>1. after = more
      BY <1>1, <2>1, <2>2 DEF JobFinishes
    <3> QED BY <1>2, <1>3, <3>1, ShowsRow
  <2>3. CASE pg.jobsCount # pg.jobsNumber
    <3>1. after = [pg EXCEPT !.delayed = Append(@, line)]
      BY <2>1, <2>3 DEF JobFinishes
    <3>2. Late(line, process)
      BY <1>10 DEF Late, Message
    <3>3. /\ after \in PageRecord
          /\ after.type = pg.type /\ after.killTimers = pg.killTimers
          /\ after.rows = pg.rows /\ after.delayed = Append(pg.delayed, line)
      BY <3>1, LaterTyped
    <3> QED BY <1>3, <3>2, <3>3, ShowsLater
  <2> QED BY <2>2, <2>3
<1>11. CASE kind = "start"
  <2>1. PICK job : job = Message(line).job
    OBVIOUS
  <2>2. after = [more EXCEPT !.jobsNumber = job]
    <3>1. after = Starts(pg, line)
      BY <1>3, <1>11 DEF Coordinate, NoRow
    <3> QED BY <1>1, <2>1, <3>1 DEF Starts
  <2> QED BY <1>2, <1>3, <1>4, <1>5, <2>1, <2>2, StartsAlike
<1>12. CASE kind \in NoRow \ {"progress"}
  <2>1. after = pg
    BY <1>3, <1>12 DEF Coordinate, NoRow
  <2> QED BY <1>3, <1>12, <2>1, ShowsNothing
<1>13. CASE kind \notin NoRow \union {"fail", "success", "jobstart", "jobfinish", "start"}
  <2>1. after = more
    BY <1>1, <1>3, <1>13 DEF Coordinate, NoRow
  <2> QED BY <1>2, <1>3, <2>1, ShowsRow
<1> QED
  BY <1>6, <1>7, <1>8, <1>9, <1>10, <1>11, <1>12, <1>13 DEF NoRow

-----------------------------------------------------------------------------
(* What the messages of a notification do to the page, one after the other. *)

Showing(h, pg, lines, n) ==
  h = [k \in 0..n |-> IF k = 0 THEN pg ELSE Coordinate(h[k - 1], lines[k])]

LEMMA ShowingFacts ==
  ASSUME NEW h, NEW pg, NEW lines, NEW n \in Nat, Showing(h, pg, lines, n)
  PROVE  /\ h[0] = pg
         /\ \A k \in 0..(n - 1) : h[k + 1] = Coordinate(h[k], lines[k + 1])
<1>1. \A k \in 0..n : h[k] = IF k = 0 THEN pg ELSE Coordinate(h[k - 1], lines[k])
  BY DEF Showing
<1>2. 0 \in 0..n
  OBVIOUS
<1>3. ASSUME NEW k \in 0..(n - 1)
      PROVE  h[k + 1] = Coordinate(h[k], lines[k + 1])
  <2>1. k + 1 \in 0..n /\ k + 1 # 0 /\ (k + 1) - 1 = k
    OBVIOUS
  <2> QED BY <1>1, <2>1
<1> QED BY <1>1, <1>2, <1>3

LEMMA ShowingExists ==
  ASSUME NEW pg, NEW lines, NEW n \in Nat
  PROVE  \E h : Showing(h, pg, lines, n)
<1> DEFINE T == {m \in Nat : \E h : Showing(h, pg, lines, m)}
<1>1. 0 \in T
  <2>1. PICK h : h = [k \in 0..0 |-> pg]
    OBVIOUS
  <2>2. Showing(h, pg, lines, 0)
    BY <2>1 DEF Showing
  <2> QED BY <2>2
<1>2. ASSUME NEW m \in Nat, m \in T PROVE m + 1 \in T
  <2>1. PICK h : Showing(h, pg, lines, m)
    BY <1>2
  <2>2. PICK e : e = Coordinate(h[m], lines[m + 1])
    OBVIOUS
  <2>3. PICK g : g = [k \in 0..(m + 1) |-> IF k = m + 1 THEN e ELSE h[k] ]
    OBVIOUS
  <2>4. ASSUME NEW k \in 0..(m + 1)
        PROVE  g[k] = IF k = 0 THEN pg ELSE Coordinate(g[k - 1], lines[k])
    <3>1. CASE k = 0
      <4>1. g[0] = h[0] /\ h[0] = pg
        BY <2>1, <2>3, ShowingFacts
      <4> QED BY <3>1, <4>1
    <3>2. CASE k = m + 1
      <4>1. k - 1 = m /\ g[k - 1] = h[m] /\ g[k] = e /\ k # 0
        BY <2>3, <3>2
      <4> QED BY <2>2, <3>2, <4>1
    <3>3. CASE k # 0 /\ k # m + 1
      <4>1. PICK j \in 0..(m - 1) : k = j + 1
        BY <3>3
      <4>2. g[k] = h[j + 1] /\ g[k - 1] = h[j] /\ k - 1 = j
        BY <2>3, <4>1
      <4>3. h[j + 1] = Coordinate(h[j], lines[j + 1])
        BY <2>1, ShowingFacts
      <4> QED BY <3>3, <4>1, <4>2, <4>3
    <3> QED BY <3>1, <3>2, <3>3
  <2>5. Showing(g, pg, lines, m + 1)
    BY <2>3, <2>4 DEF Showing
  <2> QED BY <2>5
<1> HIDE DEF T
<1>3. n \in T
  BY <1>1, <1>2, NatInd
<1> QED BY <1>3 DEF T

LEMMA CoordinatedShowing ==
  ASSUME NEW pg, NEW lines, Len(lines) \in Nat
  PROVE  \E h : Showing(h, pg, lines, Len(lines)) /\ Coordinated(pg, lines) = h[Len(lines)]
<1> DEFINE shown == CHOOSE h : Showing(h, pg, lines, Len(lines))
<1>1. Showing(shown, pg, lines, Len(lines))
  <2>1. \E h : Showing(h, pg, lines, Len(lines))
    BY ShowingExists
  <2> QED BY <2>1, Zenon
<1>2. Coordinated(pg, lines) = shown[Len(lines)]
  BY Zenon DEF Coordinated, Showing
<1> QED BY <1>1, <1>2

\* the k-th message of run r after the b-th
Piece(r, b, k) == [run |-> r, n |-> b + k]

\* the page after the first m of them
ShowsAll(before, after, r, b, m) ==
  /\ after \in PageRecord
  /\ after.type = before.type /\ after.killTimers = before.killTimers
  /\ Log(after.rows, after.delayed, process)
  /\ \A line \in Range(after.rows) : line \in Range(before.rows) \/ \E k \in 1..m : line = Piece(r, b, k)
  /\ \A line \in OnPage(after) : line \in OnPage(before) \/ \E k \in 1..m : line = Piece(r, b, k)
  /\ OnPage(before) \subseteq OnPage(after)
  /\ \A k \in 1..m : \/ Message(Piece(r, b, k)).kind \in NoRow
                     \/ Piece(r, b, k) \in OnPage(after)

LEMMA ShowsOneMore ==
  ASSUME UpInv, Bounded(process), NEW pg, NEW mid, NEW r \in DOMAIN process,
         NEW b \in Nat, NEW m \in Nat, ShowsAll(pg, mid, r, b, m),
         2 * (b + (m + 1)) <= process[r].read,
         \A line \in OnPage(pg) : line.run = r => line.n <= b
  PROVE  ShowsAll(pg, Coordinate(mid, Piece(r, b, m + 1)), r, b, m + 1)
<1>1. PICK line : line = Piece(r, b, m + 1)
  OBVIOUS
<1>2. line \in Line /\ line.run = r /\ line.n = b + (m + 1)
  <2>1. r \in Nat
    BY DEF UpInv
  <2> QED BY <1>1, <2>1 DEF Piece, Line
<1>3. Relayed(line, process)
  BY <1>2 DEF Relayed
<1>4. Fresh(line, OnPage(mid))
  <2>1. ASSUME NEW old \in OnPage(mid), old.run = line.run PROVE old.n < line.n
    <3>1. CASE old \in OnPage(pg)
      <4>1. old.n <= b /\ old.n \in Nat
        <5>1. mid.rows \in Seq(Line) /\ mid.delayed \in Seq(Line)
          BY PageFields DEF ShowsAll
        <5>2. old \in Line
          BY <2>1, <5>1 DEF OnPage, Range
        <5> QED BY <1>2, <2>1, <3>1, <5>2 DEF Line
      <4> QED BY <1>2, <4>1
    <3>2. CASE \E k \in 1..m : old = Piece(r, b, k)
      BY <1>2, <3>2 DEF Piece
    <3> QED BY <2>1, <3>1, <3>2 DEF ShowsAll
  <2> QED BY <2>1 DEF Fresh
<1>5. PICK after : after = Coordinate(mid, line)
  OBVIOUS
<1>6. Shows(mid, after, line)
  BY <1>2, <1>3, <1>4, <1>5, CoordinateShows DEF ShowsAll
<1>7. \A k \in 1..(m + 1) : k \in 1..m \/ k = m + 1
  OBVIOUS
<1>8. 1..m \subseteq 1..(m + 1) /\ m + 1 \in 1..(m + 1)
  OBVIOUS
<1>9. ShowsAll(pg, after, r, b, m + 1)
  <2>1. /\ after \in PageRecord /\ after.type = pg.type /\ after.killTimers = pg.killTimers
        /\ Log(after.rows, after.delayed, process) /\ OnPage(pg) \subseteq OnPage(after)
    BY <1>6 DEF Shows, ShowsAll
  <2>2. ASSUME NEW l \in Range(after.rows)
        PROVE  l \in Range(pg.rows) \/ \E k \in 1..(m + 1) : l = Piece(r, b, k)
    <3>1. l \in Range(mid.rows) \/ l = line
      BY <1>6 DEF Shows
    <3> QED BY <1>1, <1>8, <3>1 DEF ShowsAll
  <2>3. ASSUME NEW l \in OnPage(after)
        PROVE  l \in OnPage(pg) \/ \E k \in 1..(m + 1) : l = Piece(r, b, k)
    <3>1. l \in OnPage(mid) \/ l = line
      BY <1>6 DEF Shows
    <3> QED BY <1>1, <1>8, <3>1 DEF ShowsAll
  <2>4. ASSUME NEW k \in 1..(m + 1)
        PROVE  Message(Piece(r, b, k)).kind \in NoRow \/ Piece(r, b, k) \in OnPage(after)
    <3>1. CASE k \in 1..m
      BY <1>6, <3>1 DEF Shows, ShowsAll
    <3>2. CASE k = m + 1
      BY <1>1, <1>6, <3>2 DEF Shows
    <3> QED BY <1>7, <3>1, <3>2
  <2> QED BY <2>1, <2>2, <2>3, <2>4 DEF ShowsAll
<1> QED BY <1>1, <1>5, <1>9

LEMMA CoordinatedShows ==
  ASSUME UpInv, Bounded(process), NEW pg \in PageRecord, Log(pg.rows, pg.delayed, process),
         NEW r \in DOMAIN process, NEW b \in Nat, NEW m \in Nat,
         NEW lines, Len(lines) = m, \A k \in 1..m : lines[k] = Piece(r, b, k),
         2 * (b + m) <= process[r].read,
         \A line \in OnPage(pg) : line.run = r => line.n <= b
  PROVE  ShowsAll(pg, Coordinated(pg, lines), r, b, m)
<1>1. PICK h : Showing(h, pg, lines, m) /\ Coordinated(pg, lines) = h[m]
  BY CoordinatedShowing
<1>2. /\ h[0] = pg
      /\ \A k \in 0..(m - 1) : h[k + 1] = Coordinate(h[k], lines[k + 1])
  BY <1>1, ShowingFacts
<1> DEFINE Right(k) == k <= m => ShowsAll(pg, h[k], r, b, k)
           T == {k \in Nat : Right(k)}
<1>3. 0 \in T
  BY <1>2 DEF ShowsAll
<1>4. ASSUME NEW k \in Nat, Right(k) PROVE Right(k + 1)
  <2> SUFFICES ASSUME k + 1 <= m PROVE ShowsAll(pg, h[k + 1], r, b, k + 1)
    OBVIOUS
  <2>1. k \in 0..(m - 1) /\ k + 1 \in 1..m /\ ShowsAll(pg, h[k], r, b, k)
    BY <1>4
  <2>2. 2 * (b + (k + 1)) <= process[r].read
    <3>1. process[r].read \in Nat
      BY ProcessTyped DEF Process
    <3> QED BY <2>1, <3>1
  <2>3. ShowsAll(pg, Coordinate(h[k], Piece(r, b, k + 1)), r, b, k + 1)
    BY <2>1, <2>2, ShowsOneMore
  <2> QED BY <1>2, <2>1, <2>3
<1> HIDE DEF Right
<1>5. \A k \in Nat : k \in T => k + 1 \in T
  BY <1>4
<1> HIDE DEF T
<1>6. m \in T
  BY <1>3, <1>5, NatInd
<1> QED BY <1>1, <1>6 DEF T, Right

\* the messages that a chunk ends
Ended(chunk) == chunk.to \div 2 - chunk.from \div 2

LEMMA PiecesListed ==
  ASSUME NEW r \in Nat, NEW b \in Nat, NEW m \in Nat, NEW lines,
         lines = [k \in 1..m |-> Piece(r, b, k)]
  PROVE  Len(lines) = m /\ \A k \in 1..m : lines[k] = Piece(r, b, k)
<1>1. \A k \in 1..m : Piece(r, b, k) \in Line
  BY DEF Piece, Line
<1>2. lines \in [1..m -> Line] /\ DOMAIN lines = 1..m
  BY <1>1
<1>3. lines \in Seq(Line)
  BY <1>2
<1>4. Len(lines) \in Nat /\ DOMAIN lines = 1..Len(lines)
  BY <1>3
<1> QED BY <1>2, <1>4

LEMMA NotificationShows ==
  ASSUME UpInv, Bounded(process), NEW pg \in PageRecord, Log(pg.rows, pg.delayed, process),
         NEW chunk \in Chunk, chunk.run \in DOMAIN process, chunk.from < chunk.to,
         chunk.to <= process[chunk.run].read,
         \A line \in OnPage(pg) : line.run = chunk.run => 2 * line.n <= chunk.from
  PROVE  \E m \in 0..Ended(chunk) :
           /\ ShowsAll(pg, Shown(pg, chunk), chunk.run, chunk.from \div 2, m)
           /\ pg.type = "script" /\ process[chunk.run].kind # "script" => m = 0
           /\ pg.type = "script" /\ process[chunk.run].kind = "script" /\ chunk.from % 2 = 0
                => m = Ended(chunk)
<1>1. PICK r, from, to, b, all :
        /\ r = chunk.run /\ from = chunk.from /\ to = chunk.to
        /\ b = from \div 2 /\ all = Ended(chunk)
  OBVIOUS
<1>2. /\ r \in Nat /\ r \in DOMAIN process /\ from \in Nat /\ to \in Nat /\ from < to
      /\ b \in Nat /\ all \in Nat /\ all = to \div 2 - b /\ 2 * (b + all) <= to /\ 2 * b <= from
      /\ from < 2 * (b + 1)
  BY <1>1 DEF Chunk, Ended
<1>3. process[r].read \in Nat /\ to <= process[r].read
  BY <1>1, <1>2, ProcessTyped DEF Process
<1>4. \A line \in OnPage(pg) : line.run = r => line.n <= b
  <2>1. pg.rows \in Seq(Line) /\ pg.delayed \in Seq(Line)
    BY PageFields
  <2>2. ASSUME NEW line \in OnPage(pg), line.run = r PROVE line.n <= b
    <3>1. line.n \in Nat
      <4>1. line \in Line
        BY <2>1 DEF OnPage, Range
      <4> QED BY <4>1 DEF Line
    <3>2. 2 * line.n <= from
      BY <1>1, <2>2
    <3> QED BY <1>2, <3>1, <3>2
  <2> QED BY <2>2
<1>5. ASSUME NEW m \in 0..all, NEW lines, Len(lines) = m, \A k \in 1..m : lines[k] = Piece(r, b, k)
      PROVE  ShowsAll(pg, Coordinated(pg, lines), r, b, m)
  <2>1. m \in Nat /\ 2 * (b + m) <= process[r].read
    BY <1>2, <1>3
  <2> QED BY <1>2, <1>4, <1>5, <2>1, CoordinatedShows
<1>6. \A lines : lines = <<>> => Len(lines) = 0
  OBVIOUS
<1>7. ShowsAll(pg, Coordinated(pg, <<>>), r, b, 0)
  BY <1>2, <1>5, <1>6
<1>8. CASE pg.type = "script"
  <2>1. Shown(pg, chunk) = Coordinated(pg, Lines(chunk))
    BY <1>8 DEF Shown
  <2>2. CASE process[r].kind = "script" /\ from % 2 = 0
    <3>1. Lines(chunk) = [k \in 1..all |-> Piece(r, b, k)]
      BY <1>1, <2>2, Zenon DEF Lines, Pieces, Piece, Ended
    <3>2. ShowsAll(pg, Coordinated(pg, Lines(chunk)), r, b, all)
      <4>1. PICK lines : lines = Lines(chunk)
        OBVIOUS
      <4>2. Len(lines) = all /\ \A k \in 1..all : lines[k] = Piece(r, b, k)
        BY <1>2, <3>1, <4>1, PiecesListed
      <4>3. all \in 0..all
        BY <1>2
      <4>4. ShowsAll(pg, Coordinated(pg, lines), r, b, all)
        BY <1>5, <4>2, <4>3
      <4> QED BY <4>1, <4>4
    <3> QED BY <1>1, <1>2, <2>1, <2>2, <3>2
  <2>3. CASE ~(process[r].kind = "script" /\ from % 2 = 0)
    <3>1. Lines(chunk) = <<>>
      BY <1>1, <2>3 DEF Lines, Pieces
    <3>2. ShowsAll(pg, Shown(pg, chunk), chunk.run, chunk.from \div 2, 0)
      BY <1>1, <1>7, <2>1, <3>1
    <3>3. 0 \in 0..Ended(chunk)
      BY <1>1, <1>2
    <3> QED BY <1>1, <2>3, <3>2, <3>3
  <2> QED BY <2>2, <2>3
<1>9. CASE pg.type = "explain"
  <2>1. Shown(pg, chunk) = Coordinated(pg, OnlyMessage(chunk))
    BY <1>9 DEF Shown
  <2>2. CASE from % 2 = 0 /\ to = from + 2
    <3>1. to \div 2 = b + 1 /\ all = 1
      BY <1>2, <2>2, <1>1
    <3>2. OnlyMessage(chunk) = << Piece(r, b, 1) >>
      BY <1>1, <2>2, <3>1 DEF OnlyMessage, Piece
    <3>3. PICK lines : lines = << Piece(r, b, 1) >>
      OBVIOUS
    <3>4. Len(lines) = 1 /\ \A k \in 1..1 : lines[k] = Piece(r, b, k)
      BY <3>3
    <3>5. ShowsAll(pg, Coordinated(pg, lines), r, b, 1)
      BY <1>5, <3>1, <3>4
    <3> QED BY <1>1, <1>9, <2>1, <3>1, <3>2, <3>3, <3>5
  <2>3. CASE ~(from % 2 = 0 /\ to = from + 2)
    <3>1. OnlyMessage(chunk) = <<>>
      BY <1>1, <2>3 DEF OnlyMessage
    <3> QED BY <1>1, <1>2, <1>7, <1>9, <2>1, <3>1
  <2> QED BY <2>2, <2>3
<1>10. CASE pg.type \notin {"script", "explain"}
  <2>1. Shown(pg, chunk) = pg
    BY <1>10 DEF Shown
  <2>2. ShowsAll(pg, pg, r, b, 0)
    BY DEF ShowsAll
  <2> QED BY <1>1, <1>2, <1>10, <2>1, <2>2
<1> QED BY <1>8, <1>9, <1>10

-----------------------------------------------------------------------------
(* Steps that show nothing.                                                *)

\* a click, or the timer of a kill, empties the log or leaves it alone
Kept(pg, after) ==
  /\ after \in PageRecord /\ after.delayed = pg.delayed
  /\ \/ after.rows = <<>>
     \/ after.rows = pg.rows /\ (after.type = pg.type \/ after.type # "script")

LEMMA ResetTyped ==
  ASSUME NEW pg \in PageRecord
  PROVE  /\ Reset(pg) \in PageRecord /\ Reset(pg).delayed = pg.delayed
         /\ Reset(pg).rows = <<>> /\ Reset(pg).killTimers = pg.killTimers
<1>1. <<>> \in Seq(Line)
  OBVIOUS
<1> QED BY <1>1 DEF Reset, PageRecord

LEMMA ResetKept ==
  ASSUME NEW pg \in PageRecord, NEW b \in BOOLEAN, NEW c \in BOOLEAN, NEW t \in Nat,
         NEW type \in {"script", "explain"}
  PROVE  /\ Kept(pg, Reset(pg))
         /\ Kept(pg, [Reset(pg) EXCEPT !.type = type])
         /\ Kept(pg, [Reset(pg) EXCEPT !.type = type, !.explainButton = b, !.killButton = c])
         /\ Kept(pg, [Reset(pg) EXCEPT !.explainButton = b, !.killTimers = t])
         /\ [Reset(pg) EXCEPT !.type = type].killTimers = pg.killTimers
         /\ [Reset(pg) EXCEPT !.type = type, !.explainButton = b, !.killButton = c].killTimers
              = pg.killTimers
         /\ [Reset(pg) EXCEPT !.explainButton = b, !.killTimers = t].killTimers = t
<1>1. PICK r : r = Reset(pg)
  OBVIOUS
<1>2. r \in PageRecord /\ r.delayed = pg.delayed /\ r.rows = <<>> /\ r.killTimers = pg.killTimers
  BY <1>1, ResetTyped
<1>3. Kept(pg, r) /\ Kept(pg, [r EXCEPT !.type = type])
  BY <1>2 DEF Kept, PageRecord
<1>4. Kept(pg, [r EXCEPT !.type = type, !.explainButton = b, !.killButton = c])
  BY <1>2 DEF Kept, PageRecord
<1>5. Kept(pg, [r EXCEPT !.explainButton = b, !.killTimers = t])
  BY <1>2 DEF Kept, PageRecord
<1>6. /\ [r EXCEPT !.type = type].killTimers = pg.killTimers
      /\ [r EXCEPT !.type = type, !.explainButton = b, !.killButton = c].killTimers = pg.killTimers
      /\ [r EXCEPT !.explainButton = b, !.killTimers = t].killTimers = t
  BY <1>2 DEF PageRecord
<1> QED BY <1>1, <1>3, <1>4, <1>5, <1>6

LEMMA OptimizeKept ==
  ASSUME NEW pg \in PageRecord
  PROVE  /\ Kept(pg, [pg EXCEPT !.type = "optimize"]) /\ Kept(pg, pg)
         /\ [pg EXCEPT !.type = "optimize"].killTimers = pg.killTimers
BY DEF Kept, PageRecord

\* what a click does, but for requests
ClickedOn(p, after) ==
  /\ page' = [page EXCEPT ![p] = after]
  /\ clicks < MaxClicks /\ clicks' = clicks + 1
  /\ UNCHANGED <<response, serverVars>>

LEMMA UserKeeps ==
  ASSUME ConsoleTypes, NEW p \in Pages, User(p)
  PROVE  \E after : /\ ClickedOn(p, after)
                    /\ Kept(page[p], after) /\ after.killTimers <= page[p].killTimers + 1
<1>1. page[p] \in PageRecord /\ page[p].killTimers \in Nat
  BY PageFields DEF ConsoleTypes
<1>2. PICK pg \in PageRecord : pg = page[p]
  BY <1>1
<1>3. pg.killTimers \in Nat /\ pg.killTimers <= pg.killTimers + 1 /\ pg.killTimers + 1 \in Nat
  BY <1>1, <1>2
<1>4. PICK t \in Nat : t = pg.killTimers + 1
  BY <1>3
<1> DEFINE Goal(after) == /\ ClickedOn(p, after)
                          /\ Kept(pg, after) /\ after.killTimers <= pg.killTimers + 1
<1>5. SUFFICES \E after : Goal(after)
  BY <1>2
<1>6. CASE executeScript(p)
  <2> DEFINE new == [Reset(pg) EXCEPT !.type = "script", !.explainButton = FALSE, !.killButton = TRUE]
  <2>1. ClickedOn(p, new)
    BY <1>2, <1>6 DEF executeScript, Click, ClickedOn
  <2>2. Kept(pg, new) /\ new.killTimers = pg.killTimers
    BY <1>3, ResetKept
  <2> HIDE DEF new
  <2> QED BY <1>3, <2>1, <2>2
<1>7. CASE explainAlias(p)
  <2> DEFINE new == [Reset(pg) EXCEPT !.type = "explain"]
  <2>1. ClickedOn(p, new)
    BY <1>2, <1>7 DEF explainAlias, Click, ClickedOn
  <2>2. Kept(pg, new) /\ new.killTimers = pg.killTimers
    BY <1>3, ResetKept
  <2> HIDE DEF new
  <2> QED BY <1>3, <2>1, <2>2
<1>8. CASE Optimize(p)
  <2> DEFINE new == [pg EXCEPT !.type = "optimize"]
  <2>1. ClickedOn(p, new)
    BY <1>2, <1>8 DEF Optimize, Click, ClickedOn
  <2>2. Kept(pg, new) /\ new.killTimers = pg.killTimers
    BY OptimizeKept
  <2> HIDE DEF new
  <2> QED BY <1>3, <2>1, <2>2
<1>9. CASE killScript(p)
  <2> DEFINE new == [Reset(pg) EXCEPT !.explainButton = TRUE, !.killTimers = t]
  <2>1. ClickedOn(p, new)
    <3>1. [Reset(pg) EXCEPT !.explainButton = TRUE, !.killTimers = @ + 1] = new
      <4>1. Reset(pg).killTimers = pg.killTimers
        BY ResetTyped
      <4> QED BY <1>4, <4>1
    <3> HIDE DEF new
    <3> QED BY <1>2, <1>9, <3>1 DEF killScript, Click, ClickedOn
  <2>2. Kept(pg, new) /\ new.killTimers = t
    BY <1>3, <1>4, ResetKept
  <2> HIDE DEF new
  <2> QED BY <1>3, <1>4, <2>1, <2>2
<1>10. CASE generateChart(p)
  <2>1. ClickedOn(p, pg)
    BY <1>2, <1>10 DEF generateChart, Click, ClickedOn
  <2> QED BY <1>3, <2>1, OptimizeKept
<1>11. CASE selectScript(p)
  <2>1. ClickedOn(p, Reset(pg))
    BY <1>2, <1>11 DEF selectScript, Click, ClickedOn
  <2>2. Kept(pg, Reset(pg)) /\ Reset(pg).killTimers = pg.killTimers
    BY <1>3, ResetKept, ResetTyped
  <2> QED BY <1>3, <2>1, <2>2
<1>12. CASE RefusedClick(p)
  <2> DEFINE one == [Reset(pg) EXCEPT !.type = "script"]
             two == [Reset(pg) EXCEPT !.type = "explain"]
             three == [pg EXCEPT !.type = "optimize"]
  <2>1. ClickedOn(p, one) \/ ClickedOn(p, two) \/ ClickedOn(p, three)
    BY <1>2, <1>12 DEF RefusedClick, Click, ClickedOn
  <2>2. /\ Kept(pg, one) /\ one.killTimers = pg.killTimers
        /\ Kept(pg, two) /\ two.killTimers = pg.killTimers
        /\ Kept(pg, three) /\ three.killTimers = pg.killTimers
    BY <1>3, ResetKept, OptimizeKept
  <2> HIDE DEF one, two, three
  <2> QED BY <1>3, <2>1, <2>2
<1> QED BY <1>6, <1>7, <1>8, <1>9, <1>10, <1>11, <1>12 DEF User

LEMMA KillTimerKeeps ==
  ASSUME ConsoleTypes, NEW p \in Pages, KillTimer(p)
  PROVE  \E after : /\ page' = [page EXCEPT ![p] = after]
                    /\ Kept(page[p], after) /\ after.killTimers <= page[p].killTimers
<1>1. PICK pg \in PageRecord : pg = page[p]
  BY DEF ConsoleTypes
<1>2. pg.killTimers \in Nat /\ pg.killTimers > 0
  BY <1>1, PageFields DEF KillTimer
<1>3. PICK t \in Nat : t = pg.killTimers - 1 /\ t <= pg.killTimers
  BY <1>2
<1> DEFINE new == [pg EXCEPT !.killTimers = t, !.killButton = FALSE]
<1>4. page' = [page EXCEPT ![p] = new]
  BY <1>1, <1>3 DEF KillTimer
<1>5. Kept(pg, new) /\ new.killTimers = t
  BY DEF Kept, PageRecord
<1> HIDE DEF new
<1> QED BY <1>1, <1>3, <1>4, <1>5

-----------------------------------------------------------------------------
(* Types and logs are invariants.                                          *)

LogsInv == ConsoleTypes /\ LogInv

LEMMA LinesTyped ==
  ASSUME NEW pg \in PageRecord PROVE OnPage(pg) \subseteq Line
BY PageFields DEF OnPage, Range

LEMMA UnderWayLess ==
  ASSUME NEW lines, NEW chunks, NEW table, UnderWay(lines, chunks, table),
         NEW fewer \in SUBSET lines
  PROVE  UnderWay(fewer, chunks, table)
BY DEF UnderWay

LEMMA InitLogs == Init => LogsInv
<1> SUFFICES ASSUME Init PROVE LogsInv
  OBVIOUS
<1>1. PICK none : none = <<>>
  OBVIOUS
<1>2. none \in Seq(Line) /\ none \in Seq(Chunk) /\ DOMAIN none = {} /\ Range(none) = {}
  BY <1>1 DEF Range
<1>3. Blank \in PageRecord /\ Blank.rows = none /\ Blank.delayed = none /\ Blank.killTimers = 0
  BY <1>1, <1>2 DEF Blank, PageRecord
<1>4. /\ page = [p \in Pages |-> Blank] /\ response = [p \in Pages |-> none]
      /\ DOMAIN process = {} /\ clicks = 0
  BY <1>1, <1>2 DEF Init
<1>5. ConsoleTypes
  BY <1>2, <1>3, <1>4, ClicksAssumption DEF ConsoleTypes, Bounded
<1>6. Log(none, none, process) /\ UnderWay({}, none, process)
  BY <1>2 DEF Log, UnderWay, IsInjective
<1>7. LogInv
  BY <1>2, <1>3, <1>4, <1>6 DEF LogInv, OnPage
<1> QED BY <1>5, <1>7 DEF LogsInv

\* a click or the timer of a kill
LEMMA PageKeptLogs ==
  ASSUME LogsInv, NEW p \in Pages, NEW after, page' = [page EXCEPT ![p] = after],
         Kept(page[p], after), after.killTimers <= clicks',
         clicks' \in 0..MaxClicks, clicks <= clicks', UNCHANGED <<response, process>>
  PROVE  LogsInv'
<1>1. page' \in [Pages -> PageRecord] /\ page'[p] = after /\ \A q \in Pages : q # p => page'[q] = page[q]
  BY DEF LogsInv, ConsoleTypes, Kept
<1>2. ASSUME NEW q \in Pages
      PROVE  /\ page'[q].killTimers <= clicks'
             /\ Log(page'[q].rows, page'[q].delayed, process)
             /\ UnderWay(OnPage(page'[q]), response[q], process)
  <2>1. CASE q # p
    <3>1. page'[q] = page[q] /\ page[q].killTimers <= clicks /\ page[q].killTimers \in Nat
      BY <1>1, <2>1, PageFields DEF LogsInv, ConsoleTypes
    <3>2. page[q].killTimers <= clicks'
      BY <3>1, ClicksAssumption DEF LogsInv, ConsoleTypes
    <3> QED BY <3>1, <3>2 DEF LogsInv, LogInv
  <2>2. CASE q = p
    <3>1. page'[p] = after /\ Log(page[p].rows, page[p].delayed, process)
          /\ UnderWay(OnPage(page[p]), response[p], process)
      BY <1>1 DEF LogsInv, LogInv
    <3>2. CASE after.rows = page[p].rows
      <4>1. OnPage(after) = OnPage(page[p]) /\ after.delayed = page[p].delayed
        BY <3>2 DEF OnPage, Kept
      <4> QED BY <2>2, <3>1, <3>2, <4>1
    <3>3. CASE after.rows = <<>>
      <4>1. Log(<<>>, page[p].delayed, process) /\ Range(<<>>) = {} /\ after.delayed = page[p].delayed
        BY <3>1, LogEmptied DEF Kept
      <4>2. OnPage(after) \subseteq OnPage(page[p])
        BY <3>3, <4>1 DEF OnPage
      <4>3. UnderWay(OnPage(after), response[p], process)
        BY <3>1, <4>2, UnderWayLess
      <4> QED BY <2>2, <3>1, <3>3, <4>1, <4>3
    <3> QED BY <3>2, <3>3 DEF Kept
  <2> QED BY <2>1, <2>2
<1>3. ConsoleTypes'
  BY <1>1, <1>2 DEF LogsInv, ConsoleTypes, Bounded
<1>4. LogInv'
  BY <1>2 DEF LogInv, LogsInv
<1> QED BY <1>3, <1>4 DEF LogsInv

\* processes start, write and die
LEMMA ProcessGrownLogs ==
  ASSUME LogsInv, Grown(process, process'), Bounded(process'),
         UNCHANGED <<page, response, clicks>>
  PROVE  LogsInv'
<1>1. ASSUME NEW p \in Pages
      PROVE  /\ Log(page[p].rows, page[p].delayed, process')
             /\ UnderWay(OnPage(page[p]), response[p], process')
  <2>1. page[p] \in PageRecord /\ response[p] \in Seq(Chunk)
    BY DEF LogsInv, ConsoleTypes
  <2>2. page[p].rows \in Seq(Line) /\ page[p].delayed \in Seq(Line) /\ OnPage(page[p]) \subseteq Line
    BY <2>1, PageFields, LinesTyped
  <2>3. /\ Log(page[p].rows, page[p].delayed, process)
        /\ UnderWay(OnPage(page[p]), response[p], process)
    BY DEF LogsInv, LogInv
  <2>4. Log(page[p].rows, page[p].delayed, process')
    <3>1. PICK rows, delayed : rows = page[p].rows /\ delayed = page[p].delayed
      OBVIOUS
    <3>2. rows \in Seq(Line) /\ delayed \in Seq(Line) /\ Log(rows, delayed, process)
      BY <2>2, <2>3, <3>1
    <3>3. Log(rows, delayed, process')
      BY <3>2, LogGrown
    <3> QED BY <3>1, <3>3
  <2>5. UnderWay(OnPage(page[p]), response[p], process')
    <3>1. PICK lines, chunks : lines = OnPage(page[p]) /\ chunks = response[p]
      OBVIOUS
    <3>2. lines \in SUBSET Line /\ chunks \in Seq(Chunk) /\ UnderWay(lines, chunks, process)
      BY <2>1, <2>2, <2>3, <3>1
    <3>3. UnderWay(lines, chunks, process')
      BY <3>2, UnderWayGrown
    <3> QED BY <3>1, <3>3
  <2> QED BY <2>4, <2>5
<1>2. LogInv'
  <2>1. \A p \in Pages : OnPage(page[p])' = OnPage(page[p])
    BY DEF OnPage
  <2> QED BY <1>1, <2>1 DEF LogInv
<1>3. ConsoleTypes'
  BY DEF LogsInv, ConsoleTypes
<1> QED BY <1>2, <1>3 DEF LogsInv

LEMMA StartGrows ==
  ASSUME UpInv, LogsInv, NEW p \in Pages, NEW kind, NEW feed, Len(feed) \in Nat, Start(p, kind, feed)
  PROVE  Grown(process, process') /\ Bounded(process')
<1> DEFINE new == [page |-> p, kind |-> kind, feed |-> feed, shell |-> lastPid + 1,
                   java |-> 0, alive |-> TRUE, sent |-> 0, read |-> 0]
<1>1. /\ process' = Append(process, new) /\ process \in Seq(Process)
      /\ \A i \in DOMAIN process : process[i] \in Process
  BY DEF Start, UpInv
<1>2. new.sent = 0 /\ new.read = 0 /\ new.feed = feed
  OBVIOUS
<1> HIDE DEF new
<1>3. /\ DOMAIN process = 1..Len(process) /\ Len(process) \in Nat
      /\ DOMAIN process' = 1..(Len(process) + 1) /\ process'[Len(process) + 1] = new
      /\ \A i \in 1..Len(process) : process'[i] = process[i]
  BY <1>1
<1>4. Grown(process, process')
  BY <1>1, <1>3 DEF Grown, Process
<1>5. Bounded(process')
  <2>1. ASSUME NEW i \in DOMAIN process'
        PROVE  process'[i].sent <= Len(process'[i].feed) /\ process'[i].read <= 2 * process'[i].sent
    <3>1. CASE i \in 1..Len(process)
      BY <1>3, <3>1 DEF LogsInv, ConsoleTypes, Bounded
    <3>2. CASE i = Len(process) + 1
      BY <1>2, <1>3, <3>2
    <3> QED BY <1>3, <3>1, <3>2
  <2> QED BY <2>1 DEF Bounded
<1> QED BY <1>4, <1>5

LEMMA FeedLengths ==
  /\ \A feed \in Feeds : Len(feed) \in Nat
  /\ Len(<< >>) \in Nat
  /\ Len(<< [kind |-> "explain", job |-> 0] >>) \in Nat
  /\ Len(<< [kind |-> "Optimization", job |-> 0] >>) \in Nat
<1>1. ASSUME NEW feed \in Feeds PROVE Len(feed) \in Nat
  <2>1. PICK S : S = [kind : Kinds, job : Nat]
    OBVIOUS
  <2>2. feed \in Seq(S)
    BY <2>1, FeedsAssumption
  <2> QED BY <2>2
<1> QED BY <1>1

LEMMA ServerLogs ==
  ASSUME UpInv, LogsInv, NEW p \in Pages, Server(p) PROVE LogsInv'
<1>1. UNCHANGED <<page, response, clicks>>
  BY DEF Server, OnExecute, OnExplain, OnOptimize, OnChart, OnKill, Handling
<1>2. Grown(process, process') /\ Bounded(process')
  <2>1. CASE OnExecute(p)
    BY <2>1, StartGrows, FeedLengths DEF OnExecute
  <2>2. CASE OnExplain(p)
    BY <2>2, StartGrows, FeedLengths DEF OnExplain
  <2>3. CASE OnOptimize(p)
    BY <2>3, StartGrows, FeedLengths DEF OnOptimize
  <2>4. CASE OnChart(p)
    BY <2>4, StartGrows, FeedLengths DEF OnChart
  <2>5. CASE OnKill(p)
    <3>1. process' = process
      BY <2>5 DEF OnKill, Dies
    <3>2. Grown(process, process)
      BY ProcessTyped DEF Grown, Process
    <3> QED BY <3>1, <3>2 DEF LogsInv, ConsoleTypes
  <2> QED BY <2>1, <2>2, <2>3, <2>4, <2>5 DEF Server
<1> QED BY <1>1, <1>2, ProcessGrownLogs

LEMMA SystemGrows ==
  ASSUME UpInv, LogsInv, NEW i \in DOMAIN process, System(i)
  PROVE  /\ Grown(process, process') /\ Bounded(process')
         /\ \A k \in DOMAIN process : process'[k].read = process[k].read
         /\ DOMAIN process' = DOMAIN process
<1>1. \A k \in DOMAIN process : process[k] \in Process
  BY ProcessTyped
<1>2. PICK r \in Process : r = process[i]
  BY <1>1
<1>3. \A k \in DOMAIN process : process[k].read \in Nat /\ process[k].sent \in Nat
  BY <1>1 DEF Process
<1>4. ASSUME NEW new, new.feed = r.feed, new.page = r.page, new.kind = r.kind, new.read = r.read,
             new.sent \in Nat, r.sent <= new.sent, new.sent <= Len(r.feed),
             process' = [process EXCEPT ![i] = new]
      PROVE  /\ Grown(process, process') /\ Bounded(process')
             /\ \A k \in DOMAIN process : process'[k].read = process[k].read
             /\ DOMAIN process' = DOMAIN process
  <2>1. /\ DOMAIN process' = DOMAIN process /\ process'[i] = new
        /\ \A k \in DOMAIN process : k # i => process'[k] = process[k]
    BY <1>4 DEF UpInv
  <2>2. \A k \in DOMAIN process : /\ process'[k].feed = process[k].feed
                                  /\ process'[k].page = process[k].page
                                  /\ process'[k].kind = process[k].kind
                                  /\ process'[k].read = process[k].read
    BY <1>2, <1>4, <2>1
  <2>3. new.read <= 2 * new.sent
    <3>1. r.read <= 2 * r.sent /\ r.read \in Nat /\ r.sent \in Nat
      BY <1>2, <1>3 DEF LogsInv, ConsoleTypes, Bounded
    <3> QED BY <1>4, <3>1
  <2>4. Grown(process, process')
    BY <1>3, <2>1, <2>2 DEF Grown
  <2>5. Bounded(process')
    BY <1>4, <2>1, <2>3 DEF Bounded, LogsInv, ConsoleTypes
  <2> QED BY <2>1, <2>2, <2>4, <2>5
<1>5. r.sent \in Nat /\ r.sent <= Len(r.feed) /\ Len(r.feed) \in Nat
  <2>1. r.sent <= Len(r.feed)
    BY <1>2 DEF LogsInv, ConsoleTypes, Bounded
  <2>2. PICK S : S = [kind : Kinds, job : Nat]
    OBVIOUS
  <2>3. r.feed \in Seq(S)
    BY <1>2, <2>2, FeedTyped
  <2>4. Len(r.feed) \in Nat
    BY <2>3
  <2> QED BY <1>2, <1>3, <2>1, <2>4
<1>6. CASE Fork(i)
  <2> DEFINE new == [r EXCEPT !.java = lastPid + 1]
  <2>1. process' = [process EXCEPT ![i] = new]
    BY <1>2, <1>6 DEF Fork
  <2>2. /\ new.feed = r.feed /\ new.page = r.page /\ new.kind = r.kind /\ new.read = r.read
        /\ new.sent = r.sent
    BY DEF Process
  <2> HIDE DEF new
  <2>3. new.sent \in Nat /\ r.sent <= new.sent /\ new.sent <= Len(r.feed)
    BY <1>5, <2>2
  <2> QED BY <1>4, <2>1, <2>2, <2>3
<1>7. CASE Write(i)
  <2>1. PICK sent : sent = r.sent + 1
    OBVIOUS
  <2>2. PICK alive \in BOOLEAN :
          alive = ~(sent = Len(process[i].feed) /\ process[i].feed[sent].kind # "fail")
    OBVIOUS
  <2> DEFINE new == [r EXCEPT !.sent = sent, !.alive = alive]
  <2>3. process' = [process EXCEPT ![i] = new]
    <3>1. process' = [process EXCEPT ![i].sent = process[i].sent + 1,
                        ![i].alive = ~(process[i].sent + 1 = Len(process[i].feed)
                                        /\ process[i].feed[process[i].sent + 1].kind # "fail")]
      BY <1>7 DEF Write
    <3> QED BY <1>2, <2>1, <2>2, <3>1
  <2>4. /\ new.feed = r.feed /\ new.page = r.page /\ new.kind = r.kind /\ new.read = r.read
        /\ new.sent = sent
    BY DEF Process
  <2>5. sent \in Nat /\ r.sent <= sent /\ sent <= Len(r.feed)
    <3>1. r.sent < Len(r.feed)
      BY <1>2, <1>7 DEF Write
    <3> QED BY <1>5, <2>1, <3>1
  <2> HIDE DEF new
  <2> QED BY <1>4, <2>3, <2>4, <2>5
<1> QED BY <1>6, <1>7 DEF System

LEMMA SignalGrows ==
  ASSUME UpInv, LogsInv, NEW pid \in signals, Signal(pid)
  PROVE  /\ Grown(process, process') /\ Bounded(process')
         /\ \A k \in DOMAIN process : process'[k].read = process[k].read
         /\ DOMAIN process' = DOMAIN process
<1>1. \A i \in DOMAIN process : process[i] \in Process
  BY ProcessTyped
<1>2. /\ DOMAIN process' = DOMAIN process
      /\ \A i \in DOMAIN process :
           process'[i] \in {process[i], [process[i] EXCEPT !.alive = FALSE]}
  BY DEF Signal
<1>3. ASSUME NEW r \in Process, NEW new \in {r, [r EXCEPT !.alive = FALSE]}
      PROVE  /\ new.feed = r.feed /\ new.page = r.page /\ new.kind = r.kind
             /\ new.read = r.read /\ new.sent = r.sent /\ r.read \in Nat
  BY DEF Process
<1>4. \A i \in DOMAIN process :
        /\ process'[i].feed = process[i].feed /\ process'[i].page = process[i].page
        /\ process'[i].kind = process[i].kind /\ process'[i].read = process[i].read
        /\ process'[i].sent = process[i].sent /\ process[i].read \in Nat
  BY <1>1, <1>2, <1>3
<1>5. Grown(process, process')
  BY <1>2, <1>4 DEF Grown
<1>6. Bounded(process')
  BY <1>2, <1>4 DEF Bounded, LogsInv, ConsoleTypes
<1> QED BY <1>2, <1>4, <1>5, <1>6

\* a piece of what a process wrote is on its way to the page with the socket
LEMMA OnDataSends ==
  ASSUME UpInv, LogsInv, NEW i \in DOMAIN process, OnData(i)
  PROVE  \E to \in Nat :
           /\ process[i].read < to /\ (to % 2 = 0 \/ Split)
           /\ httpSocket \in Pages
           /\ response' = [response EXCEPT ![httpSocket] =
                             Append(@, [run |-> i, from |-> process[i].read, to |-> to])]
           /\ process'[i].read = to
           /\ \A k \in DOMAIN process : k # i => process'[k].read = process[k].read
           /\ DOMAIN process' = DOMAIN process
           /\ Grown(process, process') /\ Bounded(process')
           /\ UNCHANGED <<page, httpSocket, clicks>>
<1>1. \A k \in DOMAIN process : process[k] \in Process
  BY ProcessTyped
<1>2. PICK r \in Process : r = process[i]
  BY <1>1
<1>3. httpSocket \in Pages
  <2> SUFFICES ASSUME httpSocket = NoPage PROVE FALSE
    BY DEF UpInv
  <2>1. process[i].sent = 0 /\ process[i].read = 0
    BY DEF UpInv
  <2> QED BY <2>1 DEF OnData
<1>4. httpSocket # NoPage
  BY <1>3, PagesAssumption
<1>5. PICK to \in (r.read + 1)..(2 * r.sent) :
        /\ to % 2 = 0 \/ Split
        /\ process' = [process EXCEPT ![i].read = to]
        /\ response' = [response EXCEPT ![httpSocket] =
                          Append(@, [run |-> i, from |-> process[i].read, to |-> to])]
  BY <1>2, <1>4 DEF OnData
<1>6. r.read \in Nat /\ r.sent \in Nat /\ to \in Nat /\ r.read < to /\ to <= 2 * r.sent
  BY <1>5 DEF Process
<1> DEFINE new == [r EXCEPT !.read = to]
<1>7. process' = [process EXCEPT ![i] = new]
  BY <1>2, <1>5
<1>8. /\ new.feed = r.feed /\ new.page = r.page /\ new.kind = r.kind /\ new.sent = r.sent
      /\ new.read = to
  BY DEF Process
<1> HIDE DEF new
<1>9. /\ DOMAIN process' = DOMAIN process /\ process'[i] = new
      /\ \A k \in DOMAIN process : k # i => process'[k] = process[k]
  BY <1>7 DEF UpInv
<1>10. Grown(process, process')
  <2>1. \A k \in DOMAIN process : process[k].read \in Nat
    BY <1>1 DEF Process
  <2>2. ASSUME NEW k \in DOMAIN process
        PROVE  /\ process'[k].feed = process[k].feed
               /\ process'[k].page = process[k].page /\ process'[k].kind = process[k].kind
               /\ process'[k].read \in Nat /\ process[k].read \in Nat
               /\ process'[k].read >= process[k].read
    <3>1. CASE k = i
      BY <1>2, <1>6, <1>8, <1>9, <3>1
    <3>2. CASE k # i
      BY <1>9, <2>1, <3>2
    <3> QED BY <3>1, <3>2
  <2> QED BY <1>9, <2>2 DEF Grown
<1>11. Bounded(process')
  <2>1. new.sent <= Len(new.feed) /\ new.read <= 2 * new.sent
    BY <1>2, <1>6, <1>8 DEF LogsInv, ConsoleTypes, Bounded
  <2> QED BY <1>9, <2>1 DEF LogsInv, ConsoleTypes, Bounded
<1>12. UNCHANGED <<page, httpSocket, clicks>>
  BY DEF OnData
<1>13. process'[i].read = to /\ \A k \in DOMAIN process : k # i => process'[k].read = process[k].read
  BY <1>8, <1>9
<1>14. process[i].read < to
  BY <1>2, <1>6
<1> QED BY <1>3, <1>5, <1>6, <1>9, <1>10, <1>11, <1>12, <1>13, <1>14

LEMMA UnderWaySent ==
  ASSUME NEW lines, NEW chunks \in Seq(Chunk), NEW before, NEW after, NEW chunk \in Chunk,
         UnderWay(lines, chunks, after), Grown(before, after), UnderWay(lines, chunks, before),
         chunk.run \in DOMAIN before, chunk.from = before[chunk.run].read,
         chunk.to = after[chunk.run].read, chunk.from < chunk.to,
         \A line \in lines : line.run = chunk.run => 2 * line.n <= chunk.from
  PROVE  UnderWay(lines, Append(chunks, chunk), after)
<1>1. PICK more : more = Append(chunks, chunk)
  OBVIOUS
<1>2. /\ DOMAIN more = 1..(Len(chunks) + 1) /\ DOMAIN chunks = 1..Len(chunks) /\ Len(chunks) \in Nat
      /\ more[Len(chunks) + 1] = chunk /\ \A a \in 1..Len(chunks) : more[a] = chunks[a]
  BY <1>1
<1>3. ASSUME NEW a \in DOMAIN more
      PROVE  /\ more[a].run \in DOMAIN after /\ more[a].from < more[a].to
             /\ more[a].to <= after[more[a].run].read
             /\ \A line \in lines : line.run = more[a].run => 2 * line.n <= more[a].from
  <2>1. CASE a \in DOMAIN chunks
    BY <1>2, <2>1 DEF UnderWay
  <2>2. CASE a = Len(chunks) + 1
    <3>1. chunk.run \in DOMAIN after /\ chunk.to \in Nat
      BY DEF Grown, Chunk
    <3> QED BY <1>2, <2>2, <3>1
  <2> QED BY <1>2, <2>1, <2>2
<1>4. ASSUME NEW a \in DOMAIN more, NEW b \in DOMAIN more, a < b, more[a].run = more[b].run
      PROVE  more[a].to <= more[b].from
  <2>1. a \in DOMAIN chunks /\ more[a] = chunks[a]
    BY <1>2, <1>4
  <2>2. CASE b \in DOMAIN chunks
    BY <1>2, <1>4, <2>1, <2>2 DEF UnderWay
  <2>3. CASE b = Len(chunks) + 1
    BY <1>2, <1>4, <2>1, <2>3 DEF UnderWay
  <2> QED BY <1>2, <2>2, <2>3
<1>5. UnderWay(lines, more, after)
  BY <1>3, <1>4 DEF UnderWay
<1> QED BY <1>1, <1>5

LEMMA OnDataLogs ==
  ASSUME UpInv, LogsInv, NEW i \in DOMAIN process, OnData(i) PROVE LogsInv'
<1>1. PICK to \in Nat :
        /\ process[i].read < to
        /\ httpSocket \in Pages
        /\ response' = [response EXCEPT ![httpSocket] =
                          Append(@, [run |-> i, from |-> process[i].read, to |-> to])]
        /\ process'[i].read = to
        /\ Grown(process, process') /\ Bounded(process')
        /\ UNCHANGED <<page, clicks>>
  BY OnDataSends
<1>2. PICK chunk : chunk = [run |-> i, from |-> process[i].read, to |-> to]
  OBVIOUS
<1>3. /\ chunk \in Chunk /\ chunk.run = i /\ chunk.from = process[i].read /\ chunk.to = to
  <2>1. i \in Nat /\ process[i].read \in Nat
    BY ProcessTyped DEF UpInv, Process
  <2> QED BY <1>2, <2>1 DEF Chunk
<1>4. PICK p \in Pages : p = httpSocket
  BY <1>1
<1>5. \A q \in Pages : response[q] \in Seq(Chunk)
  BY DEF LogsInv, ConsoleTypes
<1>6. response' = [response EXCEPT ![p] = Append(response[p], chunk)]
  BY <1>1, <1>2, <1>4
<1>7. response' \in [Pages -> Seq(Chunk)] /\ response'[p] = Append(response[p], chunk)
      /\ \A q \in Pages : q # p => response'[q] = response[q]
  BY <1>3, <1>5, <1>6 DEF LogsInv, ConsoleTypes
<1>8. ASSUME NEW q \in Pages
      PROVE  /\ Log(page[q].rows, page[q].delayed, process')
             /\ UnderWay(OnPage(page[q]), response[q], process')
             /\ UnderWay(OnPage(page[q]), response'[q], process')
  <2>1. PICK rows, delayed, lines, chunks :
          /\ rows = page[q].rows /\ delayed = page[q].delayed
          /\ lines = OnPage(page[q]) /\ chunks = response[q]
    OBVIOUS
  <2>2. /\ rows \in Seq(Line) /\ delayed \in Seq(Line) /\ lines \in SUBSET Line
        /\ chunks \in Seq(Chunk)
    <3>1. page[q] \in PageRecord
      BY DEF LogsInv, ConsoleTypes
    <3> QED BY <1>5, <2>1, <3>1, PageFields, LinesTyped
  <2>3. Log(rows, delayed, process) /\ UnderWay(lines, chunks, process)
    BY <2>1 DEF LogsInv, LogInv
  <2>4. Log(rows, delayed, process')
    BY <1>1, <2>2, <2>3, LogGrown
  <2>5. UnderWay(lines, chunks, process')
    BY <1>1, <2>2, <2>3, UnderWayGrown
  <2>6. UnderWay(lines, Append(chunks, chunk), process')
    <3>1. \A line \in lines : line.run = chunk.run => 2 * line.n <= chunk.from
      <4>1. lines = Range(rows) \union Range(delayed)
        BY <2>1 DEF OnPage
      <4> QED BY <1>3, <2>3, <4>1 DEF Log, Relayed
    <3>2. /\ chunk.run \in DOMAIN process /\ chunk.from = process[chunk.run].read
          /\ chunk.to = process'[chunk.run].read /\ chunk.from < chunk.to
      BY <1>1, <1>3
    <3>3. Grown(process, process')
      BY <1>1
    <3> QED BY <1>3, <2>2, <2>3, <2>5, <3>1, <3>2, <3>3, UnderWaySent
  <2>7. CASE q = p
    BY <1>7, <2>1, <2>4, <2>5, <2>6, <2>7
  <2>8. CASE q # p
    BY <1>7, <2>1, <2>4, <2>5, <2>8
  <2> QED BY <2>7, <2>8
<1>9. LogInv'
  <2>1. \A q \in Pages : OnPage(page[q])' = OnPage(page[q]) /\ page'[q] = page[q]
    BY <1>1 DEF OnPage
  <2> QED BY <1>8, <2>1 DEF LogInv
<1>10. ConsoleTypes'
  BY <1>1, <1>7 DEF LogsInv, ConsoleTypes
<1> QED BY <1>9, <1>10 DEF LogsInv

\* what a notification does, with the chunk that is shown and those that remain
NotificationOf(p, chunk, rest, after, m) ==
  /\ chunk \in Chunk /\ rest \in Seq(Chunk) /\ m \in 0..Ended(chunk)
  /\ Len(response[p]) \in Nat \ {0} /\ chunk = response[p][1]
  /\ DOMAIN response[p] = 1..Len(response[p]) /\ DOMAIN rest = 1..(Len(response[p]) - 1)
  /\ \A a \in DOMAIN rest : rest[a] = response[p][a + 1]
  /\ chunk.run \in DOMAIN process /\ chunk.from < chunk.to
  /\ page' = [page EXCEPT ![p] = after] /\ response' = [response EXCEPT ![p] = rest]
  /\ UNCHANGED <<request, serverVars, clicks>>
  /\ ShowsAll(page[p], after, chunk.run, chunk.from \div 2, m)
  /\ page[p].type = "script" /\ process[chunk.run].kind # "script" => m = 0
  /\ page[p].type = "script" /\ process[chunk.run].kind = "script" /\ chunk.from % 2 = 0
       => m = Ended(chunk)

LEMMA NotificationIs ==
  ASSUME UpInv, LogsInv, NEW p \in Pages, Notification(p)
  PROVE  \E chunk, rest, after, m : NotificationOf(p, chunk, rest, after, m)
<1>1. PICK chunks \in Seq(Chunk) : chunks = response[p]
  BY DEF LogsInv, ConsoleTypes
<1>2. PICK chunk : chunk = Head(chunks)
  OBVIOUS
<1>3. PICK rest : rest = Tail(chunks)
  OBVIOUS
<1>4. chunks # <<>>
  BY <1>1 DEF Notification
<1>5. /\ chunk \in Chunk /\ rest \in Seq(Chunk)
      /\ Len(chunks) \in Nat \ {0} /\ chunk = chunks[1]
      /\ DOMAIN chunks = 1..Len(chunks) /\ DOMAIN rest = 1..(Len(chunks) - 1)
      /\ \A a \in DOMAIN rest : rest[a] = chunks[a + 1]
  BY <1>2, <1>3, <1>4
<1>6. PICK pg \in PageRecord : pg = page[p]
  BY DEF LogsInv, ConsoleTypes
<1>7. PICK after : after = Shown(pg, chunk)
  OBVIOUS
<1>8. /\ chunk.run \in DOMAIN process /\ chunk.from < chunk.to
      /\ chunk.to <= process[chunk.run].read
      /\ \A line \in OnPage(pg) : line.run = chunk.run => 2 * line.n <= chunk.from
  <2>1. UnderWay(OnPage(pg), chunks, process) /\ 1 \in DOMAIN chunks
    BY <1>1, <1>5, <1>6 DEF LogsInv, LogInv
  <2> QED BY <1>5, <2>1 DEF UnderWay
<1>9. Log(pg.rows, pg.delayed, process) /\ Bounded(process)
  BY <1>6 DEF LogsInv, LogInv, ConsoleTypes
<1>10. PICK m \in 0..Ended(chunk) :
         /\ ShowsAll(pg, after, chunk.run, chunk.from \div 2, m)
         /\ pg.type = "script" /\ process[chunk.run].kind # "script" => m = 0
         /\ pg.type = "script" /\ process[chunk.run].kind = "script" /\ chunk.from % 2 = 0
              => m = Ended(chunk)
  BY <1>5, <1>7, <1>8, <1>9, NotificationShows
<1>11. /\ page' = [page EXCEPT ![p] = after] /\ response' = [response EXCEPT ![p] = rest]
       /\ UNCHANGED <<request, serverVars, clicks>>
  BY <1>1, <1>2, <1>3, <1>6, <1>7 DEF Notification
<1>12. NotificationOf(p, chunk, rest, after, m)
  BY <1>1, <1>5, <1>6, <1>8, <1>10, <1>11 DEF NotificationOf
<1> QED BY <1>12

LEMMA NotificationLogs ==
  ASSUME UpInv, LogsInv, NEW p \in Pages, Notification(p) PROVE LogsInv'
<1>1. PICK chunk, rest, after, m : NotificationOf(p, chunk, rest, after, m)
  BY NotificationIs
<1>2. /\ chunk \in Chunk /\ rest \in Seq(Chunk) /\ m \in 0..Ended(chunk)
      /\ DOMAIN rest = 1..(Len(response[p]) - 1) /\ Len(response[p]) \in Nat \ {0}
      /\ DOMAIN response[p] = 1..Len(response[p]) /\ chunk = response[p][1]
      /\ \A a \in DOMAIN rest : rest[a] = response[p][a + 1]
      /\ chunk.run \in DOMAIN process
  BY <1>1 DEF NotificationOf
<1>3. ShowsAll(page[p], after, chunk.run, chunk.from \div 2, m)
  BY <1>1 DEF NotificationOf
<1>4. /\ page' = [page EXCEPT ![p] = after] /\ response' = [response EXCEPT ![p] = rest]
      /\ process' = process /\ clicks' = clicks
  BY <1>1 DEF NotificationOf, serverVars
<1>5. /\ page' \in [Pages -> PageRecord] /\ page'[p] = after
      /\ \A q \in Pages : q # p => page'[q] = page[q]
      /\ response' \in [Pages -> Seq(Chunk)] /\ response'[p] = rest
      /\ \A q \in Pages : q # p => response'[q] = response[q]
  BY <1>2, <1>3, <1>4 DEF LogsInv, ConsoleTypes, ShowsAll
<1>6. UnderWay(OnPage(after), rest, process)
  <2>1. UnderWay(OnPage(page[p]), response[p], process)
    BY DEF LogsInv, LogInv
  <2>2. ASSUME NEW a \in DOMAIN rest
        PROVE  /\ rest[a].run \in DOMAIN process /\ rest[a].from < rest[a].to
               /\ rest[a].to <= process[rest[a].run].read
               /\ \A line \in OnPage(after) : line.run = rest[a].run => 2 * line.n <= rest[a].from
    <3>1. a + 1 \in DOMAIN response[p] /\ rest[a] = response[p][a + 1] /\ 1 \in DOMAIN response[p]
          /\ 1 < a + 1
      BY <1>2
    <3>2. ASSUME NEW line \in OnPage(after), line.run = rest[a].run
          PROVE  2 * line.n <= rest[a].from
      <4>1. CASE line \in OnPage(page[p])
        BY <2>1, <3>1, <3>2, <4>1 DEF UnderWay
      <4>2. CASE \E k \in 1..m : line = Piece(chunk.run, chunk.from \div 2, k)
        <5>1. PICK k \in 1..m : line = Piece(chunk.run, chunk.from \div 2, k)
          BY <4>2
        <5>2. line.run = chunk.run /\ line.n = chunk.from \div 2 + k
          BY <5>1 DEF Piece
        <5>3. chunk.to <= rest[a].from
          BY <1>2, <2>1, <3>1, <3>2, <5>2 DEF UnderWay
        <5>4. rest[a].from \in Nat /\ chunk.to \in Nat /\ chunk.from \in Nat
          <6>1. rest[a] \in Chunk
            BY <1>2
          <6> QED BY <1>2, <6>1 DEF Chunk
        <5>5. line.n <= chunk.to \div 2
          BY <1>2, <5>2, <5>4 DEF Ended
        <5> QED BY <5>2, <5>3, <5>4, <5>5
      <4> QED BY <1>3, <3>2, <4>1, <4>2 DEF ShowsAll
    <3> QED BY <2>1, <3>1, <3>2 DEF UnderWay
  <2>3. ASSUME NEW a \in DOMAIN rest, NEW b \in DOMAIN rest, a < b, rest[a].run = rest[b].run
        PROVE  rest[a].to <= rest[b].from
    <3>1. /\ a + 1 \in DOMAIN response[p] /\ rest[a] = response[p][a + 1]
          /\ b + 1 \in DOMAIN response[p] /\ rest[b] = response[p][b + 1] /\ a + 1 < b + 1
      BY <1>2, <2>3
    <3> QED BY <2>1, <2>3, <3>1 DEF UnderWay
  <2> QED BY <2>2, <2>3 DEF UnderWay
<1>7. ASSUME NEW q \in Pages
      PROVE  /\ page'[q].killTimers <= clicks
             /\ Log(page'[q].rows, page'[q].delayed, process)
             /\ UnderWay(OnPage(page'[q]), response'[q], process)
  <2>1. CASE q # p
    BY <1>5, <2>1 DEF LogsInv, LogInv, ConsoleTypes
  <2>2. CASE q = p
    BY <1>3, <1>5, <1>6, <2>2 DEF LogsInv, ConsoleTypes, ShowsAll
  <2> QED BY <2>1, <2>2
<1>8. LogInv'
  BY <1>4, <1>7 DEF LogInv
<1>9. ConsoleTypes'
  BY <1>4, <1>5, <1>7 DEF LogsInv, ConsoleTypes
<1> QED BY <1>8, <1>9 DEF LogsInv

\* the timer of a row
LEMMA DelayedShows ==
  ASSUME LogsInv, NEW p \in Pages, Delayed(p)
  PROVE  \E after : /\ page' = [page EXCEPT ![p] = after] /\ after \in PageRecord
                    /\ after.type = page[p].type /\ after.killTimers = page[p].killTimers
                    /\ Log(after.rows, after.delayed, process)
                    /\ OnPage(after) = OnPage(page[p])
                    /\ \A line \in Range(after.rows) :
                         line \in Range(page[p].rows) \/ Late(line, process)
<1>1. PICK pg \in PageRecord : pg = page[p]
  BY DEF LogsInv, ConsoleTypes
<1>2. PICK rows, delayed : rows = pg.rows /\ delayed = pg.delayed
  OBVIOUS
<1>3. rows \in Seq(Line) /\ delayed \in Seq(Line) /\ Log(rows, delayed, process)
  BY <1>1, <1>2, PageFields DEF LogsInv, LogInv
<1>4. delayed # <<>>
  BY <1>1, <1>2 DEF Delayed
<1>5. PICK more, rest : more = Append(rows, Head(delayed)) /\ rest = Tail(delayed)
  OBVIOUS
<1>6. /\ Log(more, rest, process)
      /\ more \in Seq(Line) /\ rest \in Seq(Line)
      /\ Range(more) \union Range(rest) = Range(rows) \union Range(delayed)
      /\ Range(more) = Range(rows) \union {Head(delayed)}
      /\ Late(Head(delayed), process)
  <2>1. PICK table : table = process
    OBVIOUS
  <2>2. Log(rows, delayed, table)
    BY <1>3, <2>1
  <2>3. /\ Log(Append(rows, Head(delayed)), Tail(delayed), table)
        /\ Append(rows, Head(delayed)) \in Seq(Line) /\ Tail(delayed) \in Seq(Line)
        /\ Range(Append(rows, Head(delayed))) \union Range(Tail(delayed))
             = Range(rows) \union Range(delayed)
        /\ Range(Append(rows, Head(delayed))) = Range(rows) \union {Head(delayed)}
        /\ Late(Head(delayed), table)
    BY <1>3, <1>4, <2>2, LogTimer
  <2> QED BY <1>5, <2>1, <2>3
<1> DEFINE after == [pg EXCEPT !.rows = more, !.delayed = rest]
<1>7. after \in PageRecord /\ after.type = pg.type /\ after.killTimers = pg.killTimers
      /\ after.rows = more /\ after.delayed = rest
  BY <1>6 DEF PageRecord
<1>8. page' = [page EXCEPT ![p] = after]
  <2>1. page' = [page EXCEPT ![p] = [AddRow(pg, Head(delayed)) EXCEPT !.delayed = Tail(@)]]
    BY <1>1, <1>2 DEF Delayed
  <2>2. [AddRow(pg, Head(delayed)) EXCEPT !.delayed = Tail(@)] = after
    <3>1. AddRow(pg, Head(delayed)) = [pg EXCEPT !.rows = more]
      BY <1>2, <1>5 DEF AddRow
    <3>2. [pg EXCEPT !.rows = more].delayed = delayed
      BY <1>2 DEF PageRecord
    <3>3. [[pg EXCEPT !.rows = more] EXCEPT !.delayed = Tail(@)] = [[pg EXCEPT !.rows = more] EXCEPT !.delayed = rest]
      BY <1>5, <3>2
    <3> QED BY <3>1, <3>3
  <2> HIDE DEF after
  <2> QED BY <2>1, <2>2
<1> HIDE DEF after
<1>9. OnPage(after) = OnPage(pg)
  BY <1>2, <1>6, <1>7 DEF OnPage
<1>10. \A line \in Range(after.rows) : line \in Range(pg.rows) \/ Late(line, process)
  BY <1>2, <1>6, <1>7
<1> QED BY <1>1, <1>6, <1>7, <1>8, <1>9, <1>10

LEMMA DelayedLogs ==
  ASSUME LogsInv, NEW p \in Pages, Delayed(p) PROVE LogsInv'
<1>1. PICK after : /\ page' = [page EXCEPT ![p] = after] /\ after \in PageRecord
                   /\ after.killTimers = page[p].killTimers
                   /\ Log(after.rows, after.delayed, process)
                   /\ OnPage(after) = OnPage(page[p])
  BY DelayedShows
<1>2. UNCHANGED <<response, process, clicks>>
  BY DEF Delayed, serverVars
<1>3. /\ page' \in [Pages -> PageRecord] /\ page'[p] = after
      /\ \A q \in Pages : q # p => page'[q] = page[q]
  BY <1>1 DEF LogsInv, ConsoleTypes
<1>4. ASSUME NEW q \in Pages
      PROVE  /\ page'[q].killTimers <= clicks
             /\ Log(page'[q].rows, page'[q].delayed, process)
             /\ UnderWay(OnPage(page'[q]), response[q], process)
  <2>1. CASE q # p
    BY <1>3, <2>1 DEF LogsInv, LogInv, ConsoleTypes
  <2>2. CASE q = p
    BY <1>1, <1>3, <2>2 DEF LogsInv, LogInv, ConsoleTypes
  <2> QED BY <2>1, <2>2
<1>5. LogInv'
  BY <1>2, <1>4 DEF LogInv
<1>6. ConsoleTypes'
  BY <1>2, <1>3, <1>4 DEF LogsInv, ConsoleTypes
<1> QED BY <1>5, <1>6 DEF LogsInv

LEMMA UserLogs ==
  ASSUME UpInv, LogsInv, NEW p \in Pages, User(p) PROVE LogsInv'
<1>1. PICK after : /\ ClickedOn(p, after)
                   /\ Kept(page[p], after) /\ after.killTimers <= page[p].killTimers + 1
  BY UserKeeps DEF LogsInv
<1>2. /\ page' = [page EXCEPT ![p] = after] /\ UNCHANGED <<response, process>>
      /\ clicks < MaxClicks /\ clicks' = clicks + 1
  BY <1>1 DEF ClickedOn, serverVars
<1>3. page[p].killTimers \in Nat /\ after.killTimers \in Nat /\ page[p].killTimers <= clicks
      /\ clicks \in 0..MaxClicks
  BY <1>1, PageFields DEF LogsInv, ConsoleTypes, Kept
<1>4. clicks' \in 0..MaxClicks /\ clicks <= clicks' /\ after.killTimers <= clicks'
  BY <1>1, <1>2, <1>3, ClicksAssumption
<1> QED BY <1>1, <1>2, <1>4, PageKeptLogs

LEMMA KillTimerLogs ==
  ASSUME UpInv, LogsInv, NEW p \in Pages, KillTimer(p) PROVE LogsInv'
<1>1. PICK after : /\ page' = [page EXCEPT ![p] = after]
                   /\ Kept(page[p], after) /\ after.killTimers <= page[p].killTimers
  BY KillTimerKeeps DEF LogsInv
<1>2. UNCHANGED <<response, process, clicks>>
  BY DEF KillTimer, serverVars
<1>3. page[p].killTimers \in Nat /\ after.killTimers \in Nat /\ page[p].killTimers <= clicks
      /\ clicks \in 0..MaxClicks
  BY <1>1, PageFields DEF LogsInv, ConsoleTypes, Kept
<1>4. clicks' \in 0..MaxClicks /\ clicks <= clicks' /\ after.killTimers <= clicks'
  BY <1>1, <1>2, <1>3, ClicksAssumption
<1> QED BY <1>1, <1>2, <1>4, PageKeptLogs

LEMMA NextLogs ==
  ASSUME UpInv, LogsInv, [Next]_vars PROVE LogsInv'
<1>1. ASSUME NEW p \in Pages, User(p) PROVE LogsInv'
  BY <1>1, UserLogs
<1>2. ASSUME NEW p \in Pages, Browser(p) PROVE LogsInv'
  BY <1>2, KillTimerLogs, NotificationLogs, DelayedLogs DEF Browser
<1>3. ASSUME NEW p \in Pages, Server(p) PROVE LogsInv'
  BY <1>3, ServerLogs
<1>4. ASSUME NEW i \in DOMAIN process, System(i) PROVE LogsInv'
  <2>1. UNCHANGED <<page, response, clicks>>
    BY <1>4 DEF System, Fork, Write, SystemUnchanged
  <2> QED BY <1>4, <2>1, SystemGrows, ProcessGrownLogs
<1>5. ASSUME NEW i \in DOMAIN process, OnData(i) PROVE LogsInv'
  BY <1>5, OnDataLogs
<1>6. ASSUME NEW pid \in signals, Signal(pid) PROVE LogsInv'
  <2>1. UNCHANGED <<page, response, clicks>>
    BY <1>6 DEF Signal, SystemUnchanged
  <2> QED BY <1>6, <2>1, SignalGrows, ProcessGrownLogs
<1>7. CASE UNCHANGED vars
  <2>1. process' = process /\ UNCHANGED <<page, response, clicks>>
    BY <1>7 DEF vars
  <2>2. Grown(process, process)
    BY ProcessTyped DEF Grown, Process
  <2>3. Bounded(process')
    BY <2>1 DEF LogsInv, ConsoleTypes
  <2> QED BY <2>1, <2>2, <2>3, ProcessGrownLogs
<1> QED
  BY <1>1, <1>2, <1>3, <1>4, <1>5, <1>6, <1>7 DEF Next

LEMMA LogsAreInvariant == Spec => []LogsInv
<1>1. UpInv /\ LogsInv /\ [Next]_vars => LogsInv'
  BY NextLogs
<1> QED
  BY InitLogs, <1>1, ServerInvariant, PTL DEF Spec

\* Pages and server are typed, and a page never shows a message that its run has
\* not sent.
THEOREM ConsoleTypesHold == Spec => []TypeOK
<1>1. ASSUME UpInv, LogsInv PROVE TypeOK
  <2>1. ASSUME NEW p \in Pages PROVE PageTypeOK(page[p])
    <3>1. PICK pg \in PageRecord : pg = page[p]
      BY <1>1 DEF LogsInv, ConsoleTypes
    <3>2. Log(pg.rows, pg.delayed, process) /\ pg.killTimers <= clicks /\ clicks \in 0..MaxClicks
      BY <1>1, <3>1 DEF LogsInv, LogInv, ConsoleTypes
    <3>3. pg.killTimers \in 0..MaxClicks
      BY <3>2, PageFields, ClicksAssumption
    <3>4. ASSUME NEW k \in DOMAIN pg.rows
          PROVE  pg.rows[k].n <= process[pg.rows[k].run].sent
      <4>1. PICK line : line = pg.rows[k]
        OBVIOUS
      <4>2. line \in Line /\ line \in Range(pg.rows)
        BY <4>1, PageFields DEF Range
      <4>3. Relayed(line, process)
        BY <3>2, <4>2 DEF Log
      <4>4. process[line.run].read \in Nat /\ process[line.run].sent \in Nat /\ line.n \in Nat
        BY <1>1, <4>2, <4>3, ProcessTyped DEF Relayed, Process, Line
      <4>5. process[line.run].read <= 2 * process[line.run].sent
        BY <1>1, <4>3 DEF Relayed, LogsInv, ConsoleTypes, Bounded
      <4> QED BY <4>1, <4>3, <4>4, <4>5 DEF Relayed
    <3>5. ASSUME NEW k \in DOMAIN pg.delayed
          PROVE  Message(pg.delayed[k]).kind = "jobfinish"
      <4>1. pg.delayed[k] \in Range(pg.delayed)
        BY DEF Range
      <4> QED BY <3>2, <4>1 DEF Log, Late, Message
    <3>6. /\ pg.type \in {"none", "script", "explain", "optimize"}
          /\ pg.label \in {"State", "Succeed", "Fail"} /\ pg.progress \in {"0", "part", "99", "100"}
          /\ pg.fail \in BOOLEAN /\ pg.explainButton \in BOOLEAN /\ pg.killButton \in BOOLEAN
          /\ pg.jobsCount \in Nat
      BY DEF PageRecord
    <3> QED BY <3>1, <3>3, <3>4, <3>5, <3>6 DEF PageTypeOK
  <2> QED BY <1>1, <2>1 DEF TypeOK, UpInv, ServerStaysUp, LogsInv, ConsoleTypes, Bounded
<1> QED
  BY <1>1, LogsAreInvariant, ServerInvariant, PTL

\* Whatever pages share the server, whatever is clicked, and however events cut
\* the stream: no message of a run is shown twice on a page, and messages that
\* are shown at once are shown in the order they were sent in.
THEOREM RowsInOrder == Spec => []LogInOrder
<1>1. ASSUME LogsInv PROVE LogInOrder
  <2> SUFFICES ASSUME NEW p \in Pages, NEW i \in DOMAIN page[p].rows, NEW k \in DOMAIN page[p].rows,
                      i < k, page[p].rows[i].run = page[p].rows[k].run
               PROVE  /\ page[p].rows[i] # page[p].rows[k]
                      /\ Steady(page[p].rows[i]) /\ Steady(page[p].rows[k])
                           => page[p].rows[i].n < page[p].rows[k].n
    BY DEF LogInOrder
  <2>1. PICK rows : rows = page[p].rows
    OBVIOUS
  <2>2. rows \in Seq(Line) /\ Log(rows, page[p].delayed, process)
    BY <1>1, <2>1, PageFields DEF LogsInv, LogInv, ConsoleTypes
  <2>3. i \in Nat /\ k \in Nat
    BY <2>1, <2>2
  <2>4. rows[i] # rows[k]
    BY <2>1, <2>2, <2>3 DEF Log, IsInjective
  <2>5. Steady(rows[i]) /\ Steady(rows[k]) => rows[i].n < rows[k].n
    BY <2>1, <2>2 DEF Log, Steady, Late, Message
  <2> QED BY <2>1, <2>4, <2>5
<1> QED
  BY <1>1, LogsAreInvariant, PTL

-----------------------------------------------------------------------------
(* As long as events hold whole messages and no other page takes the       *)
(* socket, nothing is missing after a message that a page shows.           *)

\* message n of run r is on its way in one of the chunks
IsIn(chunks, r, n) ==
  \E a \in DOMAIN chunks : /\ chunks[a].run = r
                           /\ chunks[a].from \div 2 < n /\ n <= chunks[a].to \div 2

\* not shown by design, shown, or on its way
Accounted(lines, chunks, table, r, n) ==
  \/ table[r].feed[n].kind \in NoRow
  \/ [run |-> r, n |-> n] \in lines
  \/ IsIn(chunks, r, n)

\* what the server has relayed after a chunk that is on its way is on its way,
\* and after a row that is shown it is accounted for
Gapless(pg, chunks, table) ==
  /\ \A a \in DOMAIN chunks :
       \A n \in (chunks[a].to \div 2 + 1)..(table[chunks[a].run].read \div 2) :
         IsIn(chunks, chunks[a].run, n)
  /\ pg.type = "script" =>
       \A line \in Range(pg.rows) : ~Late(line, table) =>
         /\ table[line.run].kind = "script"
         /\ \A n \in line.n..(table[line.run].read \div 2) :
              Accounted(OnPage(pg), chunks, table, line.run, n)

SocketOwned(socket, table) ==
  socket # NoPage => \E i \in DOMAIN table : table[i].kind # "chart" /\ table[i].page = socket

WholeMessages(chunks, table) ==
  /\ \A i \in DOMAIN table : table[i].read % 2 = 0
  /\ \A p \in Pages : \A a \in DOMAIN chunks[p] : chunks[p][a].from % 2 = 0

GapInv ==
  /\ SocketOwned(httpSocket, process) /\ WholeMessages(response, process)
  /\ \A p \in Pages : Alone(p) => Gapless(page[p], response[p], process)

LEMMA InitGap == Init => GapInv
<1> SUFFICES ASSUME Init PROVE GapInv
  OBVIOUS
<1>1. DOMAIN process = {} /\ httpSocket = NoPage /\ \A p \in Pages : DOMAIN response[p] = {}
  BY DEF Init
<1>2. \A p \in Pages : page[p].type # "script"
  BY DEF Init, Blank
<1> QED BY <1>1, <1>2 DEF GapInv, SocketOwned, WholeMessages, Gapless

\* a click or the timer of a kill
LEMMA PageKeptGap ==
  ASSUME LogsInv, GapInv, NEW p \in Pages, NEW after, page' = [page EXCEPT ![p] = after],
         Kept(page[p], after), UNCHANGED <<response, process, httpSocket>>
  PROVE  GapInv'
<1>1. page'[p] = after /\ \A q \in Pages : q # p => page'[q] = page[q]
  BY DEF LogsInv, ConsoleTypes
<1>2. ASSUME NEW q \in Pages, Alone(q) PROVE Gapless(page'[q], response[q], process)
  <2>1. Gapless(page[q], response[q], process)
    BY <1>2 DEF GapInv
  <2>2. CASE q # p
    BY <1>1, <2>1, <2>2
  <2>3. CASE q = p /\ after.rows = <<>>
    <3>1. Range(after.rows) = {}
      BY <2>3 DEF Range
    <3>2. Gapless(after, response[p], process)
      BY <2>1, <2>3, <3>1 DEF Gapless
    <3> QED BY <1>1, <2>3, <3>2
  <2>4. CASE q = p /\ after.rows = page[p].rows /\ (after.type = page[p].type \/ after.type # "script")
    <3>1. OnPage(after) = OnPage(page[p])
      BY <2>4 DEF OnPage, Kept
    <3>2. Gapless(after, response[p], process)
      BY <2>1, <2>4, <3>1 DEF Gapless
    <3> QED BY <1>1, <2>4, <3>2
  <2> QED BY <2>2, <2>3, <2>4 DEF Kept
<1>3. \A q \in Pages : Alone(q)' <=> Alone(q)
  BY DEF Alone
<1> QED BY <1>2, <1>3 DEF GapInv

LEMMA GaplessSame ==
  ASSUME NEW pg \in PageRecord, NEW chunks \in Seq(Chunk), NEW before, NEW after,
         Gapless(pg, chunks, before), Log(pg.rows, pg.delayed, before),
         UnderWay(OnPage(pg), chunks, before), Grown(before, after),
         \A i \in DOMAIN before : after[i].read = before[i].read
  PROVE  Gapless(pg, chunks, after)
<1>1. \A a \in DOMAIN chunks : after[chunks[a].run].read = before[chunks[a].run].read
  BY DEF UnderWay
<1>2. ASSUME NEW line \in Range(pg.rows)
      PROVE  /\ after[line.run].read = before[line.run].read
             /\ after[line.run].feed = before[line.run].feed
             /\ after[line.run].kind = before[line.run].kind
  <2>1. line.run \in DOMAIN before
    BY DEF Log, Relayed
  <2> QED BY <2>1 DEF Grown
<1>3. ASSUME pg.type = "script", NEW line \in Range(pg.rows), ~Late(line, after)
      PROVE  /\ after[line.run].kind = "script"
             /\ \A n \in line.n..(after[line.run].read \div 2) :
                  Accounted(OnPage(pg), chunks, after, line.run, n)
  <2>1. ~Late(line, before)
    BY <1>2, <1>3 DEF Late
  <2> QED BY <1>2, <1>3, <2>1 DEF Gapless, Accounted
<1> QED BY <1>1, <1>3 DEF Gapless

\* processes start, write and die
LEMMA ProcessGrownGap ==
  ASSUME LogsInv, GapInv, Grown(process, process'),
         \A i \in DOMAIN process : process'[i].read = process[i].read,
         \A i \in DOMAIN process' : process'[i].read % 2 = 0,
         httpSocket' = httpSocket \/ SocketOwned(httpSocket', process'),
         UNCHANGED <<page, response>>
  PROVE  GapInv'
<1>1. SocketOwned(httpSocket', process')
  BY DEF GapInv, SocketOwned, Grown
<1>2. WholeMessages(response, process')
  BY DEF GapInv, WholeMessages
<1>3. ASSUME NEW p \in Pages, Alone(p)' PROVE Gapless(page[p], response[p], process')
  <2>1. Alone(p)
    BY <1>3 DEF Alone, Grown
  <2>2. PICK pg, chunks : pg = page[p] /\ chunks = response[p]
    OBVIOUS
  <2>3. pg \in PageRecord /\ chunks \in Seq(Chunk)
    BY <2>2 DEF LogsInv, ConsoleTypes
  <2>4. /\ Gapless(pg, chunks, process) /\ Log(pg.rows, pg.delayed, process)
        /\ UnderWay(OnPage(pg), chunks, process)
    BY <2>1, <2>2 DEF GapInv, LogsInv, LogInv
  <2>5. Gapless(pg, chunks, process')
    BY <2>3, <2>4, GaplessSame
  <2> QED BY <2>2, <2>5
<1>4. ASSUME NEW p \in Pages, Alone(p)' PROVE Gapless(page'[p], response'[p], process')
  BY <1>3, <1>4
<1> QED BY <1>1, <1>2, <1>4 DEF GapInv

LEMMA StartReads ==
  ASSUME UpInv, GapInv, NEW p \in Pages, NEW kind, NEW feed, Start(p, kind, feed)
  PROVE  /\ \A i \in DOMAIN process : process'[i].read = process[i].read
         /\ \A i \in DOMAIN process' : process'[i].read % 2 = 0
         /\ \E i \in DOMAIN process' : process'[i].kind = kind /\ process'[i].page = p
<1> DEFINE new == [page |-> p, kind |-> kind, feed |-> feed, shell |-> lastPid + 1,
                   java |-> 0, alive |-> TRUE, sent |-> 0, read |-> 0]
<1>1. process' = Append(process, new) /\ process \in Seq(Process)
  BY DEF Start, UpInv
<1>2. new.read = 0 /\ new.kind = kind /\ new.page = p
  OBVIOUS
<1> HIDE DEF new
<1>3. /\ DOMAIN process = 1..Len(process) /\ Len(process) \in Nat
      /\ DOMAIN process' = 1..(Len(process) + 1) /\ process'[Len(process) + 1] = new
      /\ \A i \in 1..Len(process) : process'[i] = process[i]
  BY <1>1
<1>4. ASSUME NEW i \in DOMAIN process' PROVE process'[i].read % 2 = 0
  <2>1. CASE i \in 1..Len(process)
    BY <1>3, <2>1 DEF GapInv, WholeMessages
  <2>2. CASE i = Len(process) + 1
    BY <1>2, <1>3, <2>2
  <2> QED BY <1>3, <2>1, <2>2
<1> QED BY <1>2, <1>3, <1>4

LEMMA ServerGap ==
  ASSUME UpInv, LogsInv, GapInv, NEW p \in Pages, Server(p) PROVE GapInv'
<1>1. UNCHANGED <<page, response>>
  BY DEF Server, OnExecute, OnExplain, OnOptimize, OnChart, OnKill, Handling
<1>2. ASSUME NEW kind, NEW feed, Len(feed) \in Nat, Start(p, kind, feed),
             httpSocket' = httpSocket \/ (httpSocket' = p /\ kind # "chart")
      PROVE  GapInv'
  <2>1. /\ \A i \in DOMAIN process : process'[i].read = process[i].read
        /\ \A i \in DOMAIN process' : process'[i].read % 2 = 0
        /\ \E i \in DOMAIN process' : process'[i].kind = kind /\ process'[i].page = p
    BY <1>2, StartReads
  <2>2. Grown(process, process')
    BY <1>2, StartGrows
  <2>3. httpSocket' = httpSocket \/ SocketOwned(httpSocket', process')
    BY <1>2, <2>1 DEF SocketOwned
  <2> QED BY <1>1, <2>1, <2>2, <2>3, ProcessGrownGap
<1>3. CASE OnExecute(p)
  BY <1>2, <1>3, FeedLengths DEF OnExecute
<1>4. CASE OnExplain(p)
  BY <1>2, <1>4, FeedLengths DEF OnExplain
<1>5. CASE OnOptimize(p)
  BY <1>2, <1>5, FeedLengths DEF OnOptimize
<1>6. CASE OnChart(p)
  BY <1>2, <1>6, FeedLengths DEF OnChart
<1>7. CASE OnKill(p)
  <2>1. process' = process /\ (httpSocket' = httpSocket \/ httpSocket' = NoPage)
    BY <1>7 DEF OnKill, Dies
  <2>2. Grown(process, process)
    BY ProcessTyped DEF Grown, Process
  <2>3. /\ \A i \in DOMAIN process : process'[i].read = process[i].read
        /\ \A i \in DOMAIN process' : process'[i].read % 2 = 0
    BY <2>1 DEF GapInv, WholeMessages
  <2>4. httpSocket' = httpSocket \/ SocketOwned(httpSocket', process')
    BY <2>1 DEF SocketOwned
  <2> QED BY <1>1, <2>1, <2>2, <2>3, <2>4, ProcessGrownGap
<1> QED BY <1>3, <1>4, <1>5, <1>6, <1>7 DEF Server

\* what a process wrote is on its way to the page
LEMMA GaplessSent ==
  ASSUME NEW pg \in PageRecord, NEW chunks \in Seq(Chunk), NEW before, NEW after, NEW chunk \in Chunk,
         Gapless(pg, chunks, before), Log(pg.rows, pg.delayed, before),
         UnderWay(OnPage(pg), chunks, before), Grown(before, after),
         chunk.run \in DOMAIN before, chunk.from = before[chunk.run].read,
         chunk.to = after[chunk.run].read,
         \A k \in DOMAIN before : k # chunk.run => after[k].read = before[k].read
  PROVE  Gapless(pg, Append(chunks, chunk), after)
<1>1. PICK more : more = Append(chunks, chunk)
  OBVIOUS
<1>2. /\ DOMAIN more = 1..(Len(chunks) + 1) /\ DOMAIN chunks = 1..Len(chunks) /\ Len(chunks) \in Nat
      /\ more[Len(chunks) + 1] = chunk /\ \A a \in 1..Len(chunks) : more[a] = chunks[a]
  BY <1>1
<1>3. ASSUME NEW r, NEW n, IsIn(chunks, r, n) PROVE IsIn(more, r, n)
  <2>1. PICK a \in DOMAIN chunks : /\ chunks[a].run = r
                                   /\ chunks[a].from \div 2 < n /\ n <= chunks[a].to \div 2
    BY <1>3 DEF IsIn
  <2>2. a \in DOMAIN more /\ more[a] = chunks[a]
    BY <1>2
  <2> QED BY <2>1, <2>2 DEF IsIn
<1>4. ASSUME NEW r \in DOMAIN before, NEW n \in Int, n <= after[r].read \div 2,
             ~(n <= before[r].read \div 2)
      PROVE  IsIn(more, r, n)
  <2>1. r = chunk.run
    BY <1>4
  <2>2. before[r].read \in Nat /\ after[r].read \in Nat
    BY DEF Grown
  <2>3. chunk.from \div 2 < n /\ n <= chunk.to \div 2
    BY <1>4, <2>1, <2>2
  <2>4. Len(chunks) + 1 \in DOMAIN more
    BY <1>2
  <2> QED BY <1>2, <2>1, <2>3, <2>4 DEF IsIn
<1>5. ASSUME NEW a \in DOMAIN more,
             NEW n \in (more[a].to \div 2 + 1)..(after[more[a].run].read \div 2)
      PROVE  IsIn(more, more[a].run, n)
  <2>1. CASE a \in DOMAIN chunks
    <3>1. more[a] = chunks[a] /\ chunks[a] \in Chunk /\ chunks[a].run \in DOMAIN before
      BY <1>2, <2>1 DEF UnderWay
    <3>2. PICK c \in Chunk : c = more[a]
      BY <3>1
    <3>3. /\ c.to \in Nat /\ before[c.run].read \in Nat /\ after[c.run].read \in Nat
      BY <3>1, <3>2 DEF Chunk, Grown
    <3>4. n \in Int /\ c.to \div 2 + 1 <= n /\ n <= after[c.run].read \div 2
      BY <3>2, <3>3
    <3>5. CASE n <= before[c.run].read \div 2
      <4>1. n \in (c.to \div 2 + 1)..(before[c.run].read \div 2)
        BY <3>3, <3>4, <3>5
      <4> QED BY <1>3, <2>1, <3>1, <3>2, <4>1 DEF Gapless
    <3>6. CASE ~(n <= before[c.run].read \div 2)
      BY <1>4, <3>1, <3>2, <3>4, <3>6
    <3> QED BY <3>5, <3>6
  <2>2. CASE a = Len(chunks) + 1
    <3>1. more[a] = chunk /\ chunk.to \in Nat
      BY <1>2, <2>2 DEF Chunk
    <3>2. n \in (chunk.to \div 2 + 1)..(chunk.to \div 2)
      BY <3>1
    <3>3. chunk.to \div 2 \in Int
      BY <3>1
    <3> QED BY <3>2, <3>3
  <2> QED BY <1>2, <2>1, <2>2
<1>6. ASSUME pg.type = "script", NEW line \in Range(pg.rows), ~Late(line, after)
      PROVE  /\ after[line.run].kind = "script"
             /\ \A n \in line.n..(after[line.run].read \div 2) :
                  Accounted(OnPage(pg), more, after, line.run, n)
  <2>1. line.run \in DOMAIN before /\ line \in Line
    <3>1. pg.rows \in Seq(Line)
      BY PageFields
    <3> QED BY <3>1 DEF Log, Relayed, Range
  <2>2. /\ after[line.run].feed = before[line.run].feed
        /\ after[line.run].kind = before[line.run].kind
        /\ before[line.run].read \in Nat /\ after[line.run].read \in Nat /\ line.n \in Nat
    BY <2>1 DEF Grown, Line
  <2>3. ~Late(line, before)
    BY <1>6, <2>2 DEF Late
  <2>4. /\ before[line.run].kind = "script"
        /\ \A n \in line.n..(before[line.run].read \div 2) :
             Accounted(OnPage(pg), chunks, before, line.run, n)
    BY <1>6, <2>3 DEF Gapless
  <2>5. ASSUME NEW n \in line.n..(after[line.run].read \div 2)
        PROVE  Accounted(OnPage(pg), more, after, line.run, n)
    <3>1. n \in Int /\ line.n <= n /\ n <= after[line.run].read \div 2
      BY <2>2
    <3>2. CASE n <= before[line.run].read \div 2
      <4>1. n \in line.n..(before[line.run].read \div 2)
        BY <2>2, <3>1, <3>2
      <4>2. Accounted(OnPage(pg), chunks, before, line.run, n)
        BY <2>4, <4>1
      <4> QED BY <1>3, <2>2, <4>2 DEF Accounted
    <3>3. CASE ~(n <= before[line.run].read \div 2)
      BY <1>4, <2>1, <3>1, <3>3 DEF Accounted
    <3> QED BY <3>2, <3>3
  <2> QED BY <2>2, <2>4, <2>5
<1>7. Gapless(pg, more, after)
  BY <1>5, <1>6 DEF Gapless
<1> QED BY <1>1, <1>7

LEMMA OnDataGap ==
  ASSUME Split = FALSE, UpInv, LogsInv, GapInv, NEW i \in DOMAIN process, OnData(i)
  PROVE  GapInv'
<1>1. PICK to \in Nat :
        /\ process[i].read < to /\ (to % 2 = 0 \/ Split)
        /\ httpSocket \in Pages
        /\ response' = [response EXCEPT ![httpSocket] =
                          Append(@, [run |-> i, from |-> process[i].read, to |-> to])]
        /\ process'[i].read = to
        /\ \A k \in DOMAIN process : k # i => process'[k].read = process[k].read
        /\ DOMAIN process' = DOMAIN process
        /\ Grown(process, process')
        /\ UNCHANGED <<page, httpSocket, clicks>>
  BY OnDataSends
<1>2. PICK chunk : chunk = [run |-> i, from |-> process[i].read, to |-> to]
  OBVIOUS
<1>3. /\ chunk \in Chunk /\ chunk.run = i /\ chunk.from = process[i].read /\ chunk.to = to
  <2>1. i \in Nat /\ process[i].read \in Nat
    BY ProcessTyped DEF UpInv, Process
  <2> QED BY <1>2, <2>1 DEF Chunk
<1>4. PICK p \in Pages : p = httpSocket
  BY <1>1
<1>5. \A q \in Pages : response[q] \in Seq(Chunk)
  BY DEF LogsInv, ConsoleTypes
<1>6. response' = [response EXCEPT ![p] = Append(response[p], chunk)]
  BY <1>1, <1>2, <1>4
<1>7. /\ response'[p] = Append(response[p], chunk)
      /\ \A q \in Pages : q # p => response'[q] = response[q]
  BY <1>6 DEF LogsInv, ConsoleTypes
<1>8. SocketOwned(httpSocket', process')
  BY <1>1 DEF GapInv, SocketOwned, Grown
<1>9. WholeMessages(response', process')
  <2>1. \A k \in DOMAIN process' : process'[k].read % 2 = 0
    BY <1>1 DEF GapInv, WholeMessages
  <2>2. ASSUME NEW q \in Pages, NEW a \in DOMAIN response'[q] PROVE response'[q][a].from % 2 = 0
    <3>1. CASE q # p
      BY <1>7, <2>2, <3>1 DEF GapInv, WholeMessages
    <3>2. CASE q = p
      <4>1. PICK chunks, more : chunks = response[p] /\ more = response'[p]
        OBVIOUS
      <4>2. chunks \in Seq(Chunk) /\ more = Append(chunks, chunk)
        BY <1>5, <1>7, <4>1
      <4>3. /\ DOMAIN more = 1..(Len(chunks) + 1) /\ DOMAIN chunks = 1..Len(chunks) /\ Len(chunks) \in Nat
            /\ more[Len(chunks) + 1] = chunk /\ \A b \in 1..Len(chunks) : more[b] = chunks[b]
        BY <1>3, <4>2
      <4>4. a \in DOMAIN more
        BY <2>2, <3>2, <4>1
      <4>5. \A b \in DOMAIN chunks : chunks[b].from % 2 = 0
        BY <4>1 DEF GapInv, WholeMessages
      <4>6. chunk.from % 2 = 0
        BY <1>3 DEF GapInv, WholeMessages
      <4>7. CASE a = Len(chunks) + 1
        BY <3>2, <4>1, <4>3, <4>6, <4>7
      <4>8. CASE a \in DOMAIN chunks
        BY <3>2, <4>1, <4>3, <4>5, <4>8
      <4> QED BY <4>3, <4>4, <4>7, <4>8
    <3> QED BY <3>1, <3>2
  <2> QED BY <2>1, <2>2 DEF WholeMessages
<1>10. ASSUME NEW q \in Pages, Alone(q)' PROVE Gapless(page[q], response'[q], process')
  <2>1. Alone(q)
    BY <1>1, <1>10 DEF Alone, Grown
  <2>2. q = p
    BY <1>4, <2>1, PagesAssumption DEF GapInv, SocketOwned, Alone
  <2>3. PICK pg, chunks : pg = page[p] /\ chunks = response[p]
    OBVIOUS
  <2>4. pg \in PageRecord /\ chunks \in Seq(Chunk)
    BY <2>3 DEF LogsInv, ConsoleTypes
  <2>5. /\ Gapless(pg, chunks, process) /\ Log(pg.rows, pg.delayed, process)
        /\ UnderWay(OnPage(pg), chunks, process)
    BY <2>1, <2>2, <2>3 DEF GapInv, LogsInv, LogInv
  <2>6. /\ Grown(process, process')
        /\ chunk.run \in DOMAIN process /\ chunk.from = process[chunk.run].read
        /\ chunk.to = process'[chunk.run].read
        /\ \A k \in DOMAIN process : k # chunk.run => process'[k].read = process[k].read
    BY <1>1, <1>3
  <2>7. Gapless(pg, Append(chunks, chunk), process')
    BY <1>3, <2>4, <2>5, <2>6, GaplessSent
  <2> QED BY <1>7, <2>2, <2>3, <2>7
<1>11. ASSUME NEW q \in Pages, Alone(q)' PROVE Gapless(page'[q], response'[q], process')
  BY <1>1, <1>10, <1>11
<1> QED BY <1>8, <1>9, <1>11 DEF GapInv

\* a message that is on its way is in the chunk that is shown or in a later one
LEMMA Passed ==
  ASSUME NEW chunk \in Chunk, NEW chunks \in Seq(Chunk), NEW rest \in Seq(Chunk),
         chunks # <<>>, chunk = chunks[1], DOMAIN rest = 1..(Len(chunks) - 1),
         \A a \in DOMAIN rest : rest[a] = chunks[a + 1],
         NEW r, NEW n, IsIn(chunks, r, n)
  PROVE  \/ IsIn(rest, r, n)
         \/ chunk.run = r /\ chunk.from \div 2 < n /\ n <= chunk.to \div 2
<1>1. PICK c \in DOMAIN chunks : /\ chunks[c].run = r
                                 /\ chunks[c].from \div 2 < n /\ n <= chunks[c].to \div 2
  BY DEF IsIn
<1>2. DOMAIN chunks = 1..Len(chunks) /\ Len(chunks) \in Nat
  OBVIOUS
<1>3. CASE c = 1
  BY <1>1, <1>3
<1>4. CASE c # 1
  <2>1. c - 1 \in DOMAIN rest /\ (c - 1) + 1 = c
    BY <1>2, <1>4
  <2>2. rest[c - 1] = chunks[c]
    BY <2>1
  <2> QED BY <1>1, <2>1, <2>2 DEF IsIn
<1> QED BY <1>3, <1>4

LEMMA Halves ==
  ASSUME NEW lo \in Nat, NEW hi \in Nat
  PROVE  /\ lo \div 2 \in Nat /\ (lo <= hi => lo \div 2 <= hi \div 2)
         /\ \A n \in (lo \div 2 + 1)..(hi \div 2) :
              n \in Int /\ lo \div 2 < n /\ n <= hi \div 2
OBVIOUS

\* the page shows the first chunk
LEMMA GaplessShown ==
  ASSUME NEW pg \in PageRecord, NEW after \in PageRecord, NEW chunk \in Chunk,
         NEW chunks \in Seq(Chunk), NEW rest \in Seq(Chunk),
         chunks # <<>>, chunk = chunks[1], DOMAIN rest = 1..(Len(chunks) - 1),
         \A a \in DOMAIN rest : rest[a] = chunks[a + 1],
         NEW m \in 0..Ended(chunk), ShowsAll(pg, after, chunk.run, chunk.from \div 2, m),
         pg.type = "script" /\ process[chunk.run].kind # "script" => m = 0,
         pg.type = "script" /\ process[chunk.run].kind = "script" /\ chunk.from % 2 = 0
           => m = Ended(chunk),
         chunk.from % 2 = 0, process[chunk.run].read \in Nat,
         Gapless(pg, chunks, process), UnderWay(OnPage(pg), chunks, process)
  PROVE  Gapless(after, rest, process)
<1>1. PICK from, to, b : from = chunk.from /\ to = chunk.to /\ b = chunk.from \div 2
  OBVIOUS
<1>2. from \in Nat /\ to \in Nat /\ b \in Nat /\ b = from \div 2 /\ Ended(chunk) = to \div 2 - b
  <2>1. chunk.from \in Nat /\ chunk.to \in Nat
    BY DEF Chunk
  <2>2. from \in Nat /\ to \in Nat /\ b = from \div 2 /\ Ended(chunk) = to \div 2 - b
    BY <1>1, <2>1 DEF Ended
  <2> QED BY <2>2, Halves
<1>3. 1 \in DOMAIN chunks /\ from < to
  BY <1>1 DEF UnderWay
<1>4. ASSUME NEW r, NEW n, IsIn(chunks, r, n)
      PROVE  \/ IsIn(rest, r, n)
             \/ chunk.run = r /\ chunk.from \div 2 < n /\ n <= chunk.to \div 2
  BY <1>4, Passed
<1>5. ASSUME NEW a \in DOMAIN rest,
             NEW n \in (rest[a].to \div 2 + 1)..(process[rest[a].run].read \div 2)
      PROVE  IsIn(rest, rest[a].run, n)
  <2>1. a + 1 \in DOMAIN chunks /\ 1 < a + 1 /\ rest[a] = chunks[a + 1]
    OBVIOUS
  <2>2. IsIn(chunks, rest[a].run, n)
    BY <1>5, <2>1 DEF Gapless
  <2>3. ASSUME chunk.run = rest[a].run, n <= chunk.to \div 2 PROVE FALSE
    <3>1. chunk.to <= rest[a].from /\ rest[a].from < rest[a].to
      BY <1>3, <2>1, <2>3 DEF UnderWay
    <3>2. PICK c \in Chunk : c = rest[a]
      OBVIOUS
    <3>3. PICK start, end, read : start = c.from /\ end = c.to /\ read = process[c.run].read
      OBVIOUS
    <3>4. start \in Nat /\ end \in Nat /\ read \in Nat
      <4>1. c.from \in Nat /\ c.to \in Nat
        BY DEF Chunk
      <4> QED BY <2>3, <3>2, <3>3, <4>1
    <3>5. to \in Nat /\ to <= end /\ n <= to \div 2
      <4>1. to <= start /\ start < end
        BY <1>1, <3>1, <3>2, <3>3
      <4> QED BY <1>1, <1>2, <2>3, <3>4, <4>1
    <3>6. n \in (end \div 2 + 1)..(read \div 2)
      BY <3>2, <3>3
    <3>7. n \in Int /\ end \div 2 < n /\ to \div 2 <= end \div 2
      BY <3>4, <3>5, <3>6, Halves
    <3>8. to \div 2 \in Int /\ end \div 2 \in Int
      BY <3>4, <3>5
    <3> QED BY <3>5, <3>7, <3>8
  <2> QED BY <2>2, <2>3, <1>4
<1>6. ASSUME pg.type = "script", NEW line \in Range(after.rows), ~Late(line, process)
      PROVE  /\ process[line.run].kind = "script"
             /\ \A n \in line.n..(process[line.run].read \div 2) :
                  Accounted(OnPage(after), rest, process, line.run, n)
  \* the messages of the chunk are accounted for
  <2>1. ASSUME process[chunk.run].kind = "script", NEW n \in Int, b < n, n <= to \div 2
        PROVE  Accounted(OnPage(after), rest, process, chunk.run, n)
    <3>1. m = to \div 2 - b
      BY <1>2, <1>6, <2>1
    <3>2. PICK k : k = n - b
      OBVIOUS
    <3>3. k \in 1..m /\ b + k = n
      BY <1>2, <2>1, <3>1, <3>2
    <3>4. Piece(chunk.run, b, k) = [run |-> chunk.run, n |-> n]
      BY <3>3 DEF Piece
    <3>5. \/ Message(Piece(chunk.run, b, k)).kind \in NoRow
          \/ Piece(chunk.run, b, k) \in OnPage(after)
      BY <1>1, <3>3 DEF ShowsAll
    <3>6. Message(Piece(chunk.run, b, k)) = process[chunk.run].feed[n]
      BY <3>4 DEF Message
    <3> QED BY <3>4, <3>5, <3>6 DEF Accounted
  <2>2. CASE line \in Range(pg.rows)
    <3>1. /\ process[line.run].kind = "script"
          /\ \A n \in line.n..(process[line.run].read \div 2) :
               Accounted(OnPage(pg), chunks, process, line.run, n)
      BY <1>6, <2>2 DEF Gapless
    <3>2. ASSUME NEW n \in line.n..(process[line.run].read \div 2)
          PROVE  Accounted(OnPage(after), rest, process, line.run, n)
      <4>1. CASE process[line.run].feed[n].kind \in NoRow \/ [run |-> line.run, n |-> n] \in OnPage(pg)
        BY <4>1 DEF Accounted, ShowsAll
      <4>2. CASE IsIn(rest, line.run, n)
        BY <4>2 DEF Accounted
      <4>3. CASE chunk.run = line.run /\ chunk.from \div 2 < n /\ n <= chunk.to \div 2
        <5>1. n \in Int
          OBVIOUS
        <5>2. process[chunk.run].kind = "script" /\ b < n /\ n <= to \div 2
          BY <1>1, <3>1, <4>3
        <5>3. Accounted(OnPage(after), rest, process, chunk.run, n)
          BY <2>1, <5>1, <5>2
        <5> QED BY <4>3, <5>3
      <4> QED BY <3>1, <3>2, <4>1, <4>2, <4>3, <1>4 DEF Accounted
    <3> QED BY <3>1, <3>2
  <2>3. CASE \E k \in 1..m : line = Piece(chunk.run, b, k)
    <3>1. PICK k \in 1..m : line = Piece(chunk.run, b, k)
      BY <2>3
    <3>2. line.run = chunk.run /\ line.n = b + k /\ b < line.n /\ line.n \in Nat
      BY <1>2, <3>1 DEF Piece
    <3>3. process[chunk.run].kind = "script"
      <4>1. m # 0
        BY <3>1
      <4> QED BY <1>6, <4>1
    <3>4. ASSUME NEW n \in line.n..(process[line.run].read \div 2)
          PROVE  Accounted(OnPage(after), rest, process, line.run, n)
      <4>1. n \in Int /\ b < n /\ n <= process[chunk.run].read \div 2
        BY <1>2, <3>2
      <4>2. CASE n <= to \div 2
        BY <2>1, <3>2, <3>3, <4>1, <4>2
      <4>3. CASE ~(n <= to \div 2)
        <5>1. n \in (chunk.to \div 2 + 1)..(process[chunk.run].read \div 2)
          BY <1>1, <1>2, <4>1, <4>3
        <5>2. IsIn(chunks, chunk.run, n)
          BY <1>3, <5>1 DEF Gapless
        <5>3. IsIn(rest, chunk.run, n)
          BY <1>1, <4>3, <5>2, <1>4
        <5> QED BY <3>2, <5>3 DEF Accounted
      <4> QED BY <4>2, <4>3
    <3> QED BY <3>2, <3>3, <3>4
  <2> QED BY <1>1, <2>2, <2>3 DEF ShowsAll
<1>7. after.type = pg.type
  BY DEF ShowsAll
<1> QED BY <1>5, <1>6, <1>7 DEF Gapless

LEMMA NotificationGap ==
  ASSUME UpInv, LogsInv, GapInv, NEW p \in Pages, Notification(p) PROVE GapInv'
<1>1. PICK chunk, rest, after, m : NotificationOf(p, chunk, rest, after, m)
  BY NotificationIs
<1>2. PICK chunks, pg : chunks = response[p] /\ pg = page[p]
  OBVIOUS
<1>3. chunks \in Seq(Chunk) /\ pg \in PageRecord
  BY <1>2 DEF LogsInv, ConsoleTypes
<1>4. /\ chunk \in Chunk /\ rest \in Seq(Chunk) /\ m \in 0..Ended(chunk)
      /\ Len(chunks) \in Nat \ {0} /\ chunk = chunks[1]
      /\ DOMAIN chunks = 1..Len(chunks) /\ DOMAIN rest = 1..(Len(chunks) - 1)
      /\ \A a \in DOMAIN rest : rest[a] = chunks[a + 1]
      /\ chunk.run \in DOMAIN process
      /\ ShowsAll(pg, after, chunk.run, chunk.from \div 2, m)
      /\ pg.type = "script" /\ process[chunk.run].kind # "script" => m = 0
      /\ pg.type = "script" /\ process[chunk.run].kind = "script" /\ chunk.from % 2 = 0
           => m = Ended(chunk)
  BY <1>1, <1>2 DEF NotificationOf
<1>5. /\ page' = [page EXCEPT ![p] = after] /\ response' = [response EXCEPT ![p] = rest]
      /\ UNCHANGED <<process, httpSocket>>
  BY <1>1 DEF NotificationOf, serverVars
<1>6. /\ page'[p] = after /\ response'[p] = rest
      /\ \A q \in Pages : q # p => page'[q] = page[q] /\ response'[q] = response[q]
  BY <1>5 DEF LogsInv, ConsoleTypes
<1>7. ASSUME NEW q \in Pages, NEW a \in DOMAIN response'[q] PROVE response'[q][a].from % 2 = 0
  <2>1. CASE q # p
    BY <1>6, <1>7, <2>1 DEF GapInv, WholeMessages
  <2>2. CASE q = p
    <3>1. \A b \in DOMAIN chunks : chunks[b].from % 2 = 0
      BY <1>2 DEF GapInv, WholeMessages
    <3>2. a \in DOMAIN rest /\ a + 1 \in DOMAIN chunks
      BY <1>4, <1>6, <1>7, <2>2
    <3> QED BY <1>4, <1>6, <2>2, <3>1, <3>2
  <2> QED BY <2>1, <2>2
<1>8. WholeMessages(response', process')
  BY <1>5, <1>7 DEF GapInv, WholeMessages
<1>9. ASSUME NEW q \in Pages, Alone(q) PROVE Gapless(page'[q], response'[q], process)
  <2>1. CASE q # p
    BY <1>6, <1>9, <2>1 DEF GapInv
  <2>2. CASE q = p
    <3>1. Gapless(pg, chunks, process) /\ UnderWay(OnPage(pg), chunks, process)
      BY <1>2, <1>9, <2>2 DEF GapInv, LogsInv, LogInv
    <3>2. chunk.from % 2 = 0
      <4>1. 1 \in DOMAIN response[p]
        BY <1>2, <1>4
      <4> QED BY <1>2, <1>4, <4>1 DEF GapInv, WholeMessages
    <3>3. process[chunk.run].read \in Nat /\ chunks # <<>> /\ after \in PageRecord
      BY <1>4, ProcessTyped DEF Process, ShowsAll
    <3>4. Gapless(after, rest, process)
      BY <1>3, <1>4, <3>1, <3>2, <3>3, GaplessShown
    <3> QED BY <1>6, <2>2, <3>4
  <2> QED BY <2>1, <2>2
<1>10. ASSUME NEW q \in Pages, Alone(q)' PROVE Gapless(page'[q], response'[q], process')
  <2>1. Alone(q)
    BY <1>5, <1>10 DEF Alone
  <2> QED BY <1>5, <1>9, <2>1
<1> QED BY <1>5, <1>8, <1>10 DEF GapInv

LEMMA DelayedGap ==
  ASSUME LogsInv, GapInv, NEW p \in Pages, Delayed(p) PROVE GapInv'
<1>1. PICK after : /\ page' = [page EXCEPT ![p] = after] /\ after.type = page[p].type
                   /\ OnPage(after) = OnPage(page[p])
                   /\ \A line \in Range(after.rows) :
                        line \in Range(page[p].rows) \/ Late(line, process)
  BY DelayedShows
<1>2. UNCHANGED <<response, process, httpSocket>>
  BY DEF Delayed, serverVars
<1>3. page'[p] = after /\ \A q \in Pages : q # p => page'[q] = page[q]
  BY <1>1 DEF LogsInv, ConsoleTypes
<1>4. ASSUME NEW q \in Pages, Alone(q)' PROVE Gapless(page'[q], response[q], process)
  <2>1. Gapless(page[q], response[q], process)
    BY <1>2, <1>4 DEF GapInv, Alone
  <2>2. CASE q # p
    BY <1>3, <2>1, <2>2
  <2>3. CASE q = p
    <3>1. Gapless(after, response[p], process)
      BY <1>1, <2>1, <2>3 DEF Gapless
    <3> QED BY <1>3, <2>3, <3>1
  <2> QED BY <2>2, <2>3
<1>5. ASSUME NEW q \in Pages, Alone(q)' PROVE Gapless(page'[q], response'[q], process')
  BY <1>2, <1>4, <1>5
<1> QED BY <1>2, <1>5 DEF GapInv, SocketOwned, WholeMessages

LEMMA NextGap ==
  ASSUME Split = FALSE, UpInv, LogsInv, GapInv, [Next]_vars PROVE GapInv'
<1>1. ASSUME NEW p \in Pages, User(p) PROVE GapInv'
  <2>1. PICK after : ClickedOn(p, after) /\ Kept(page[p], after)
    BY <1>1, UserKeeps DEF LogsInv
  <2> QED BY <2>1, PageKeptGap DEF ClickedOn, serverVars
<1>2. ASSUME NEW p \in Pages, KillTimer(p) PROVE GapInv'
  <2>1. PICK after : page' = [page EXCEPT ![p] = after] /\ Kept(page[p], after)
    BY <1>2, KillTimerKeeps DEF LogsInv
  <2>2. UNCHANGED <<response, process, httpSocket>>
    BY <1>2 DEF KillTimer, serverVars
  <2> QED BY <2>1, <2>2, PageKeptGap
<1>3. ASSUME NEW p \in Pages, Browser(p) PROVE GapInv'
  BY <1>2, <1>3, NotificationGap, DelayedGap DEF Browser
<1>4. ASSUME NEW p \in Pages, Server(p) PROVE GapInv'
  BY <1>4, ServerGap
<1>5. ASSUME Grown(process, process'), DOMAIN process' = DOMAIN process,
             \A k \in DOMAIN process : process'[k].read = process[k].read,
             UNCHANGED <<page, response, httpSocket>>
      PROVE  GapInv'
  <2>1. \A k \in DOMAIN process' : process'[k].read % 2 = 0
    BY <1>5 DEF GapInv, WholeMessages
  <2> QED BY <1>5, <2>1, ProcessGrownGap
<1>6. ASSUME NEW i \in DOMAIN process, System(i) PROVE GapInv'
  <2>1. UNCHANGED <<page, response, httpSocket>>
    BY <1>6 DEF System, Fork, Write, SystemUnchanged
  <2> QED BY <1>5, <1>6, <2>1, SystemGrows
<1>7. ASSUME NEW i \in DOMAIN process, OnData(i) PROVE GapInv'
  BY <1>7, OnDataGap
<1>8. ASSUME NEW pid \in signals, Signal(pid) PROVE GapInv'
  <2>1. UNCHANGED <<page, response, httpSocket>>
    BY <1>8 DEF Signal, SystemUnchanged
  <2> QED BY <1>5, <1>8, <2>1, SignalGrows
<1>9. CASE UNCHANGED vars
  <2>1. process' = process /\ UNCHANGED <<page, response, httpSocket>>
    BY <1>9 DEF vars
  <2>2. Grown(process, process)
    BY ProcessTyped DEF Grown, Process
  <2> QED BY <1>5, <2>1, <2>2
<1> QED
  BY <1>1, <1>3, <1>4, <1>6, <1>7, <1>8, <1>9 DEF Next

\* Where data events end with a message, nothing is missing between two messages
\* that a page shows of a run, as long as no other page takes the socket:
\* whatever is clicked, selected, killed or executed again on that page.
THEOREM NothingMissing ==
  ASSUME Split = FALSE PROVE Spec => []NoGaps
<1>1. UpInv /\ LogsInv /\ GapInv /\ [Next]_vars => GapInv'
  BY NextGap
<1>2. ASSUME UpInv, LogsInv, GapInv PROVE NoGaps
  <2> SUFFICES ASSUME NEW p \in Pages, page[p].type = "script", Alone(p),
                      NEW i \in DOMAIN page[p].rows, NEW k \in DOMAIN page[p].rows,
                      page[p].rows[i].run = page[p].rows[k].run,
                      Steady(page[p].rows[i]), Steady(page[p].rows[k]),
                      NEW n \in page[p].rows[i].n..page[p].rows[k].n
               PROVE  LET line == [run |-> page[p].rows[i].run, n |-> n]
                      IN Message(line).kind \in NoRow \/ line \in OnPage(page[p])
    BY DEF NoGaps
  <2>1. PICK first, last, run : /\ first = page[p].rows[i] /\ last = page[p].rows[k]
                                /\ run = page[p].rows[i].run
    OBVIOUS
  <2>2. /\ first \in Range(page[p].rows) /\ last \in Range(page[p].rows)
        /\ first \in Line /\ last \in Line /\ last \in OnPage(page[p])
    <3>1. page[p].rows \in Seq(Line)
      BY <1>2, PageFields DEF LogsInv, ConsoleTypes
    <3> QED BY <2>1, <3>1 DEF Range, OnPage
  <2>3. Relayed(last, process) /\ ~Late(first, process)
    BY <1>2, <2>1, <2>2 DEF LogsInv, LogInv, Log, Steady, Late, Message
  <2>4. /\ first.n \in Nat /\ last.n \in Nat /\ last.run = run /\ first.run = run
        /\ n \in Int /\ first.n <= n /\ n <= last.n
    BY <2>1, <2>2 DEF Line
  <2>5. process[run].read \in Nat /\ 2 * last.n <= process[run].read
    <3>1. run \in DOMAIN process
      BY <2>3, <2>4 DEF Relayed
    <3>2. process[run].read \in Nat
      BY <1>2, <3>1, ProcessTyped DEF Process
    <3> QED BY <2>3, <2>4, <3>2 DEF Relayed
  <2>6. n \in first.n..(process[run].read \div 2)
    BY <2>4, <2>5
  <2>7. Accounted(OnPage(page[p]), response[p], process, run, n)
    BY <1>2, <2>2, <2>3, <2>4, <2>6 DEF GapInv, Gapless
  <2>8. ~IsIn(response[p], run, n)
    <3> SUFFICES ASSUME NEW a \in DOMAIN response[p], response[p][a].run = run,
                        response[p][a].from \div 2 < n
                 PROVE  FALSE
      BY DEF IsIn
    <3>1. PICK chunk \in Chunk : chunk = response[p][a]
      BY <1>2 DEF LogsInv, ConsoleTypes
    <3>2. 2 * last.n <= chunk.from /\ chunk.from \in Nat
      BY <1>2, <2>2, <2>4, <3>1 DEF LogsInv, LogInv, UnderWay, Chunk
    <3> QED BY <2>4, <3>1, <3>2
  <2>9. \/ process[run].feed[n].kind \in NoRow
        \/ [run |-> run, n |-> n] \in OnPage(page[p])
    BY <2>7, <2>8 DEF Accounted
  <2> QED BY <2>1, <2>9 DEF Message
<1> QED
  BY <1>1, <1>2, InitGap, LogsAreInvariant, ServerInvariant, PTL DEF Spec
=============================================================================
