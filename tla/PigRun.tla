------------------------------- MODULE PigRun -------------------------------
(***************************************************************************)
(* One JVM launched by main.js: Main runs (or explains) a Pig script with  *)
(* a ProgressNotification listener, whose callbacks store rows in the      *)
(* database and add messages to Sender's queue; the sending timer moves    *)
(* the queue to the TCP link to the node server; in mapreduce mode a       *)
(* second timer polls the running job and adds messages of its own.        *)
(*                                                                         *)
(* Pig is external: it calls the listener in the order of Pig 0.12's       *)
(* launcher (plan, launch, per batch of jobs: submitted, started,          *)
(* progress, finished or failed; outputs; completed), and returns statis-  *)
(* tics that are successful only when every job finished and no callback   *)
(* threw.  A callback body is the sequence of the effects it has on the    *)
(* listener's fields, the database, the queue and the link; each effect is *)
(* one step, an addMessage as many as MessageQueue says.                   *)
(***************************************************************************)
EXTENDS MessageQueue, FiniteSets

CONSTANTS
  Mode,         \* args[0] of Main: "local" or "mapreduce"
  NJobs,        \* MapReduce jobs of the plan
  MaxProgress,  \* bound: progressUpdated callbacks in a run
  Faults        \* what may go wrong, of AllFaults

ASSUME ModeAssumption  == Mode \in {"local", "mapreduce"}
ASSUME JobsAssumption  == NJobs \in Nat \ {0} /\ MaxProgress \in Nat

\* the link to the node server breaks; the JVM is killed (main.js, 'kill'); a
\* statement on the database throws; Pig gives up; jobFinishedNotification
\* throws; the cluster no longer knows the job
AllFaults == {"link", "kill", "db", "pig", "history", "cluster"}

ASSUME FaultAssumption == Faults \subseteq AllFaults
ASSUME ProducersAssumption == Producers = {"main", "mr"}

Jobs == 1..NJobs

VARIABLES
  jvm,       \* "running", "exited" or "killed"
  link,      \* TCP connection to the node server: "up" or "down"
  type,      \* args[4]: "script" or "explain"
  stage,     \* where Pig's launcher is
  jobs,      \* jobs[j]: what became of job j
  prog,      \* prog[j]: 0 mapping, 1 maps done, 2 reducing, 3 reduces done
  progress,  \* progressUpdated callbacks made
  todo,      \* effects the main thread has still to make
  currentJobId, mapProgress, reduceProgress, mapDone, reduceDone,
  mr,        \* the progress timer: [pc, id]
  sender,    \* the sending timer: [pc, root]; root is the node it peeked at
  completed, \* Sender.completed
  wire,      \* nodes whose message reached the node server, in order
  explained, \* was the plan of an explain written to the link?
  jobRows, planRow, counterRows, outputRow  \* tables job, mrplan, counter, output

pigVars     == <<type, stage, jobs, prog, progress>>
mainVars    == <<todo, currentJobId, mapProgress, reduceProgress, mapDone, reduceDone>>
senderVars  == <<sender, completed, wire>>
dbVars      == <<jobRows, planRow, counterRows, outputRow>>
vars == <<queueVars, jvm, link, pigVars, mainVars, mr, senderVars, explained, dbVars>>

Init ==
  /\ QueueInit
  /\ jvm = "running" /\ link = "up"
  /\ type \in {"script", "explain"}
  /\ stage = "connect"
  /\ jobs = [j \in Jobs |-> "waiting"]
  /\ prog = [j \in Jobs |-> 0]
  /\ progress = 0
  /\ todo = <<>>
  /\ currentJobId = 0 /\ mapProgress = 0 /\ reduceProgress = 0
  /\ mapDone = FALSE /\ reduceDone = FALSE
  /\ mr = [pc |-> "off", id |-> 0]
  /\ sender = [pc |-> "off", root |-> Null]
  /\ completed = FALSE
  /\ wire = <<>> /\ explained = FALSE
  /\ jobRows = <<>> /\ planRow = FALSE /\ counterRows = <<>> /\ outputRow = "none"

-----------------------------------------------------------------------------
(* Callback bodies.                                                        *)

Effect(what, kind, job) == [do |-> what, what |-> [kind |-> kind, job |-> job]]
InsertJob(kind, job)  == Effect("insertJob", kind, job)
AddMessage(kind, job) == Effect("addMessage", kind, job)
Do(what)              == Effect(what, "none", 0)

\* a slip: the explain branch does not end the JVM
InitialPlanWithoutExit ==
  IF type = "script"
    THEN << InsertJob("launch", 0), AddMessage("launch", 0), Do("insertMRPlan") >>
    ELSE << InsertJob("launch", 0), Do("writeExplain"), Do("insertMRPlan") >>

InitialPlanNotification ==
  IF type = "script"
    THEN << InsertJob("launch", 0), AddMessage("launch", 0), Do("insertMRPlan") >>
    ELSE << InsertJob("launch", 0), Do("writeExplain"), Do("insertMRPlan"), Do("exit") >>

LaunchStartedNotification == << InsertJob("start", 0), AddMessage("start", 0) >>

\* jobCounter after the call is the number in the message
JobsSubmittedNotification(jobCounter) ==
  << InsertJob("jobsubmit", jobCounter), AddMessage("jobsubmit", jobCounter) >>

\* a slip: the message before the row
JobStartedSentFirst(j) ==
  << Effect("setCurrentJob", "none", j), AddMessage("jobstart", j), InsertJob("jobstart", j) >>

JobStartedNotification(j) ==
  (IF currentJobId # 0 /\ currentJobId # j THEN << Do("resetProgress") >> ELSE <<>>)
    \o << Effect("setCurrentJob", "none", j), InsertJob("jobstart", j), AddMessage("jobstart", j) >>

\* jobRankNum is the position of the row in counterRows; what the row does to
\* table avgcounter is in AvgCounter
JobFinishedNotification(j) ==
  << Effect("insertCounter", "none", j), InsertJob("jobfinish", j), AddMessage("jobfinish", j) >>

JobFailedNotification(j) == << InsertJob("jobfail", j), AddMessage("jobfail", j) >>

ProgressUpdatedNotification(k) == << AddMessage("progress", k) >>

\* a slip: copied from launchStartedNotification
OutputCompletedCopied == << InsertJob("start", 0), AddMessage("start", 0) >>

OutputCompletedNotification ==
  << InsertJob("outputcomplete", 0), AddMessage("outputcomplete", 0) >>

\* a slip: the success before the completion it waits for
LaunchCompletedSuccessFirst(n) ==
  << InsertJob("complete", n), AddMessage("success", 0),
     AddMessage("complete", n), InsertJob("duration", 0) >>

LaunchCompletedNotification(n) ==
  << InsertJob("complete", n), AddMessage("complete", n),
     AddMessage("success", 0), InsertJob("duration", 0) >>

\* a slip: the failure is stored but not sent
ReportFailureSilently(message) ==
  << IF message = "null" THEN Do("throw") ELSE Do("insertFail") >>

\* Main.main after run(): getErrorMessage() may be null, and
\* new StringBuilder((String) null) throws
ReportFailure(message) ==
  << AddMessage("fail", 0), IF message = "null" THEN Do("throw") ELSE Do("insertFail") >>

-----------------------------------------------------------------------------
(* Pig calls the listener: only between two callbacks.                     *)

PigReady ==
  /\ jvm = "running" /\ todo = <<>> /\ ~Adding("main")

Callback(body) ==
  /\ PigReady
  /\ todo' = body
  /\ UNCHANGED <<queueVars, jvm, link, type, mr, senderVars, explained, dbVars,
                 currentJobId, mapProgress, reduceProgress, mapDone, reduceDone>>

Ended == {"ok", "failed"}
AllEnded   == \A j \in Jobs : jobs[j] \in Ended
NoneActive == \A j \in Jobs : jobs[j] \notin {"submitted", "started"}
Succeeded  == {j \in Jobs : jobs[j] = "ok"}

PlanReady ==
  /\ stage = "planning" /\ stage' = "planned"
  /\ Callback(InitialPlanNotification)
  /\ UNCHANGED <<jobs, prog, progress>>

LaunchStarted ==
  /\ stage = "planned" /\ stage' = "launched"
  /\ Callback(LaunchStartedNotification)
  /\ UNCHANGED <<jobs, prog, progress>>

\* the next batch: the waiting jobs up to n, once no job is active
JobsSubmitted(n) ==
  /\ stage = "launched" /\ NoneActive /\ jobs[n] = "waiting"
  /\ jobs' = [j \in Jobs |-> IF jobs[j] = "waiting" /\ j <= n THEN "submitted" ELSE jobs[j]]
  /\ Callback(JobsSubmittedNotification(n))
  /\ UNCHANGED <<stage, prog, progress>>

JobStarted(j) ==
  /\ stage = "launched" /\ jobs[j] = "submitted"
  /\ jobs' = [jobs EXCEPT ![j] = "started"]
  /\ Callback(JobStartedNotification(j))
  /\ UNCHANGED <<stage, prog, progress>>

\* the cluster works on a started job; a map-only job has no reduce phase
JobAdvances(j) ==
  /\ jvm = "running" /\ Mode = "mapreduce"
  /\ jobs[j] = "started" /\ prog[j] < 3
  /\ \E p \in {prog[j] + 1, 3} : prog' = [prog EXCEPT ![j] = p]
  /\ UNCHANGED <<queueVars, jvm, link, type, stage, jobs, progress, mainVars, mr,
                 senderVars, explained, dbVars>>

ProgressUpdated ==
  /\ stage = "launched" /\ progress < MaxProgress
  /\ \E j \in Jobs : jobs[j] = "started"
  /\ progress' = progress + 1
  /\ Callback(ProgressUpdatedNotification(progress + 1))
  /\ UNCHANGED <<stage, jobs, prog>>

JobFinished(j) ==
  /\ stage = "launched" /\ jobs[j] = "started"
  /\ Mode = "mapreduce" => prog[j] = 3
  /\ jobs' = [jobs EXCEPT ![j] = "ok"]
  /\ Callback(JobFinishedNotification(j))
  /\ UNCHANGED <<stage, prog, progress>>

\* jobFinishedNotification throws before its first effect when the job
\* history directory is missing (listFiles() is null) or the job has no
\* reduce tasks (division by reduceNum); Pig gives the run up
JobFinishedThrows(j) ==
  /\ "history" \in Faults
  /\ stage = "launched" /\ stage' = "aborted" /\ jobs[j] = "started"
  /\ Mode = "mapreduce" => prog[j] = 3
  /\ jobs' = [jobs EXCEPT ![j] = "ok"]
  /\ Callback(<<>>)
  /\ UNCHANGED <<prog, progress>>

JobFailed(j) ==
  /\ stage = "launched" /\ jobs[j] = "started"
  /\ jobs' = [jobs EXCEPT ![j] = "failed"]
  /\ Callback(JobFailedNotification(j))
  /\ UNCHANGED <<stage, prog, progress>>

OutputCompleted ==
  /\ stage = "launched" /\ stage' = "stored"
  /\ AllEnded /\ Succeeded # {}
  /\ Callback(OutputCompletedNotification)
  /\ UNCHANGED <<jobs, prog, progress>>

\* also when jobs failed: the launcher stops, and says how many succeeded
LaunchCompleted ==
  /\ stage \in {"launched", "stored"} /\ stage' = "completed"
  /\ NoneActive
  /\ \A j \in Jobs : jobs[j] = "waiting" => \E k \in Jobs : jobs[k] = "failed"
  /\ Callback(LaunchCompletedNotification(Cardinality(Succeeded)))
  /\ UNCHANGED <<jobs, prog, progress>>

\* Pig itself gives up: a parse error, an unreachable cluster, ...
PigAborts ==
  /\ "pig" \in Faults
  /\ stage \in {"planning", "planned", "launched", "stored"} /\ stage' = "aborted"
  /\ Callback(<<>>)
  /\ UNCHANGED <<jobs, prog, progress>>

PigSuccessful == stage = "completed" /\ \A j \in Jobs : jobs[j] = "ok"

\* PigRunner.run returns and Main.main ends
RunReturns ==
  /\ stage \in {"completed", "aborted"} /\ stage' = "returned"
  /\ PigSuccessful \/ type = "explain"
  /\ Callback(<<>>)
  /\ UNCHANGED <<jobs, prog, progress>>

\* if(!stats.isSuccessful())
RunReturnsFailed(message) ==
  /\ stage \in {"completed", "aborted"} /\ stage' = "returned"
  /\ ~PigSuccessful /\ type = "script"
  /\ Callback(ReportFailure(message))
  /\ UNCHANGED <<jobs, prog, progress>>

-----------------------------------------------------------------------------
(* The main thread makes the effects of a callback one by one.             *)

\* Client, DbHandler, Sender (its timer starts at once), then the listener
Connect ==
  /\ stage = "connect" /\ jvm = "running" /\ link = "up"
  /\ stage' = "planning"
  /\ sender' = At(sender, "loop")
  /\ mr' = At(mr, IF Mode = "mapreduce" THEN "idle" ELSE "off")
  /\ UNCHANGED <<queueVars, jvm, link, type, jobs, prog, progress, mainVars,
                 completed, wire, explained, dbVars>>

\* ConnectException, or no database: main dies before any timer exists
ConnectFails ==
  /\ stage = "connect" /\ jvm = "running"
  /\ link = "down" \/ "db" \in Faults
  /\ jvm' = "exited"
  /\ UNCHANGED <<queueVars, link, pigVars, mainVars, mr, senderVars, explained, dbVars>>

Doing(what) ==
  /\ jvm = "running" /\ ~Adding("main")
  /\ todo # <<>> /\ Head(todo).do = what

listenerVars == <<currentJobId, mapProgress, reduceProgress, mapDone, reduceDone>>

DoResetProgress ==
  /\ Doing("resetProgress") /\ todo' = Tail(todo)
  /\ mapProgress' = 0 /\ reduceProgress' = 0
  /\ mapDone' = FALSE /\ reduceDone' = FALSE
  /\ UNCHANGED <<queueVars, jvm, link, pigVars, currentJobId, mr, senderVars, explained, dbVars>>

\* a slip: off by one
DoSetNextJob ==
  /\ Doing("setCurrentJob") /\ todo' = Tail(todo)
  /\ currentJobId' = Head(todo).what.job + 1
  /\ UNCHANGED <<queueVars, jvm, link, pigVars, mapProgress, reduceProgress, mapDone,
                 reduceDone, mr, senderVars, explained, dbVars>>

DoSetCurrentJob ==
  /\ Doing("setCurrentJob") /\ todo' = Tail(todo)
  /\ currentJobId' = Head(todo).what.job
  /\ UNCHANGED <<queueVars, jvm, link, pigVars, mapProgress, reduceProgress, mapDone,
                 reduceDone, mr, senderVars, explained, dbVars>>

DoAddMessage ==
  /\ Doing("addMessage") /\ todo' = Tail(todo)
  /\ AddCall("main", Head(todo).what)
  /\ UNCHANGED <<jvm, link, pigVars, listenerVars, mr, senderVars, explained, dbVars>>

DoInsertJob ==
  /\ Doing("insertJob") /\ todo' = Tail(todo)
  /\ jobRows' = Append(jobRows, Head(todo).what)
  /\ UNCHANGED <<queueVars, jvm, link, pigVars, listenerVars, mr, senderVars, explained,
                 planRow, counterRows, outputRow>>

DoInsertMRPlan ==
  /\ Doing("insertMRPlan") /\ todo' = Tail(todo)
  /\ planRow' = TRUE
  /\ UNCHANGED <<queueVars, jvm, link, pigVars, listenerVars, mr, senderVars, explained,
                 jobRows, counterRows, outputRow>>

DoInsertCounter ==
  /\ Doing("insertCounter") /\ todo' = Tail(todo)
  /\ counterRows' = Append(counterRows, Head(todo).what.job)
  /\ UNCHANGED <<queueVars, jvm, link, pigVars, listenerVars, mr, senderVars, explained,
                 jobRows, planRow, outputRow>>

DoInsertFail ==
  /\ Doing("insertFail") /\ todo' = Tail(todo)
  /\ outputRow' = "Fail"
  /\ UNCHANGED <<queueVars, jvm, link, pigVars, listenerVars, mr, senderVars, explained,
                 jobRows, planRow, counterRows>>

\* a HibernateException: the callback is over and so is Pig's run; in
\* Main.main itself nothing catches it and the thread ends
DbFails ==
  /\ "db" \in Faults
  /\ \E what \in {"insertJob", "insertMRPlan", "insertCounter", "insertFail"} : Doing(what)
  /\ todo' = <<>>
  /\ stage' = IF stage = "returned" THEN "returned" ELSE "aborted"
  /\ UNCHANGED <<queueVars, jvm, link, type, jobs, prog, progress, listenerVars, mr,
                 senderVars, explained, dbVars>>

DoThrow ==
  /\ Doing("throw") /\ todo' = <<>>
  /\ UNCHANGED <<queueVars, jvm, link, pigVars, listenerVars, mr, senderVars, explained, dbVars>>

DoWriteExplain ==
  /\ Doing("writeExplain") /\ todo' = Tail(todo)
  /\ explained' = (link = "up")
  /\ UNCHANGED <<queueVars, jvm, link, pigVars, listenerVars, mr, senderVars, dbVars>>

\* an IOException: the rest of the try block, the exit included, is skipped
WriteExplainFails ==
  /\ Doing("writeExplain") /\ link = "down"
  /\ todo' = <<>>
  /\ UNCHANGED <<queueVars, jvm, link, pigVars, listenerVars, mr, senderVars, explained, dbVars>>

DoExit ==
  /\ Doing("exit") /\ todo' = Tail(todo)
  /\ jvm' = "exited"
  /\ UNCHANGED <<queueVars, link, pigVars, listenerVars, mr, senderVars, explained, dbVars>>

MainAddStep ==
  /\ jvm = "running" /\ AddStep("main")
  /\ UNCHANGED <<jvm, link, pigVars, mainVars, mr, senderVars, explained, dbVars>>

-----------------------------------------------------------------------------
(* ProgressNotification's timer: mapreduceProgress(currentJobId).          *)

MrUnchanged == UNCHANGED <<jvm, link, pigVars, todo, currentJobId, senderVars, explained, dbVars>>

MrTick ==
  /\ jvm = "running" /\ mr.pc = "idle" /\ ~Adding("mr")
  /\ currentJobId # 0
  /\ mr' = [pc |-> "fetch", id |-> currentJobId]
  /\ UNCHANGED <<queueVars, mapProgress, reduceProgress, mapDone, reduceDone>> /\ MrUnchanged

\* reduceProgress: 0 none, 1 some, 2 all
MrFetch ==
  /\ jvm = "running" /\ mr.pc = "fetch"
  /\ mapProgress' = IF prog[mr.id] = 0 THEN 0 ELSE 1
  /\ reduceProgress' = IF prog[mr.id] = 0 THEN 0 ELSE prog[mr.id] - 1
  /\ mr' = At(mr, "test")
  /\ UNCHANGED <<queueVars, mapDone, reduceDone>> /\ MrUnchanged

\* jobClient.getJob() returned null: nothing catches the exception
MrDies ==
  /\ "cluster" \in Faults
  /\ jvm = "running" /\ mr.pc = "fetch"
  /\ mr' = [pc |-> "dead", id |-> 0]
  /\ UNCHANGED <<queueVars, mapProgress, reduceProgress, mapDone, reduceDone>> /\ MrUnchanged

MapsDone    == mapProgress = 1 /\ reduceProgress = 0 /\ ~mapDone
ReducesDone == mapProgress = 1 /\ reduceProgress = 2 /\ ~reduceDone

MrTest ==
  /\ jvm = "running" /\ mr.pc = "test"
  /\ mapDone' = (mapDone \/ MapsDone)
  /\ reduceDone' = (reduceDone \/ ReducesDone)
  /\ mr' = IF MapsDone \/ ReducesDone
             THEN At(mr, IF MapsDone THEN "mapsdone" ELSE "reducesdone")
             ELSE [pc |-> "idle", id |-> 0]
  /\ UNCHANGED <<queueVars, mapProgress, reduceProgress>> /\ MrUnchanged

MrAdd ==
  /\ jvm = "running" /\ mr.pc \in {"mapsdone", "reducesdone"}
  /\ AddCall("mr", [kind |-> mr.pc, job |-> mr.id])
  /\ mr' = [pc |-> "idle", id |-> 0]
  /\ UNCHANGED <<mapProgress, reduceProgress, mapDone, reduceDone>> /\ MrUnchanged

MrAddStep ==
  /\ jvm = "running" /\ AddStep("mr")
  /\ UNCHANGED <<mr, mapProgress, reduceProgress, mapDone, reduceDone>> /\ MrUnchanged

-----------------------------------------------------------------------------
(* Sender's timer: while(!messages.isEmpty()) { ... }                      *)

SenderUnchanged == UNCHANGED <<link, pigVars, mainVars, mr, explained>>

SenderAt(pc) == jvm = "running" /\ sender.pc = pc

SenderNotEmpty ==
  /\ SenderAt("loop") /\ size # 0
  /\ sender' = [pc |-> "peek", root |-> Null]
  /\ UNCHANGED <<queueVars, jvm, completed, wire, dbVars>> /\ SenderUnchanged

\* peek() is null: new JSONTokener(null) throws and ends the timer's thread
SenderPeekNull ==
  /\ SenderAt("peek") /\ first = Null
  /\ sender' = [pc |-> "dead", root |-> Null]
  /\ UNCHANGED <<queueVars, jvm, completed, wire, dbVars>> /\ SenderUnchanged

\* a slip: a success is sent whenever it is at the head
SenderPeekTakesAll ==
  /\ SenderAt("peek") /\ first # Null
  /\ sender' = [pc |-> "poll", root |-> first]
  /\ UNCHANGED <<queueVars, jvm, completed, wire, dbVars>> /\ SenderUnchanged

\* a slip: completed is set when "complete" is seen, not when it is written
SenderPeekCompletes ==
  /\ SenderAt("peek") /\ first # Null
  /\ sender' = IF mail[first].kind = "success" /\ ~completed
                 THEN [pc |-> "loop", root |-> Null]
                 ELSE [pc |-> "poll", root |-> first]
  /\ completed' = (completed \/ mail[first].kind = "complete")
  /\ UNCHANGED <<queueVars, jvm, wire, dbVars>> /\ SenderUnchanged

\* a success that is not due yet stays where it is: back to the loop
SenderPeek ==
  /\ SenderAt("peek") /\ first # Null
  /\ sender' = IF mail[first].kind = "success" /\ ~completed
                 THEN [pc |-> "loop", root |-> Null]
                 ELSE [pc |-> "poll", root |-> first]
  /\ UNCHANGED <<queueVars, jvm, completed, wire, dbVars>> /\ SenderUnchanged

SenderPoll ==
  /\ SenderAt("poll") /\ PollCall
  /\ sender' = At(sender, "polling")
  /\ UNCHANGED <<jvm, completed, wire, dbVars>> /\ SenderUnchanged

SenderPollStep ==
  /\ SenderAt("polling") /\ PollStep
  /\ UNCHANGED <<jvm, senderVars, dbVars>> /\ SenderUnchanged

Root == mail[sender.root].kind

\* a slip: the loop goes on after a success
SenderWriteGoesOn ==
  /\ SenderAt("polling") /\ PollReturn
  /\ wire' = IF link = "up" THEN Append(wire, poller.node) ELSE wire
  /\ completed' = (completed \/ Root = "complete")
  /\ sender' = [pc |-> "loop", root |-> Null]
  /\ UNCHANGED <<jvm, dbVars>> /\ SenderUnchanged

\* client.write returned; what it wrote is lost when the link is down
SenderWrite ==
  /\ SenderAt("polling") /\ PollReturn
  /\ wire' = IF link = "up" THEN Append(wire, poller.node) ELSE wire
  /\ completed' = (completed \/ Root = "complete")
  /\ sender' = IF Root = "success" THEN At(sender, "close")
                                   ELSE [pc |-> "loop", root |-> Null]
  /\ UNCHANGED <<jvm, dbVars>> /\ SenderUnchanged

\* client.write threw: the polled message is gone and completed is not set
SenderWriteFails ==
  /\ SenderAt("polling") /\ PollReturn /\ link = "down"
  /\ sender' = [pc |-> "loop", root |-> Null]
  /\ UNCHANGED <<jvm, completed, wire, dbVars>> /\ SenderUnchanged

\* Output's constructor calls output.toString()
OutputThrows(output) == output = "null"

\* a slip: the exception leaves the timer running
SenderCloseGoesOn ==
  /\ SenderAt("close")
  /\ sender' = [pc |-> "loop", root |-> Null]
  /\ UNCHANGED <<queueVars, jvm, completed, wire, dbVars>> /\ SenderUnchanged

\* client.close(); insertOutput(..., null, ...); DbHandler.close(); exit
SenderClose ==
  /\ SenderAt("close")
  /\ sender' = [pc |-> "dead", root |-> Null]
  /\ IF OutputThrows("null")
       THEN UNCHANGED <<jvm, outputRow>>
       ELSE jvm' = "exited" /\ outputRow' = "Success"
  /\ UNCHANGED <<queueVars, completed, wire, jobRows, planRow, counterRows>> /\ SenderUnchanged

-----------------------------------------------------------------------------
(* The environment.                                                        *)

LinkBreaks ==
  /\ "link" \in Faults /\ jvm = "running" /\ link = "up"
  /\ link' = "down"
  /\ UNCHANGED <<queueVars, jvm, pigVars, mainVars, mr, senderVars, explained, dbVars>>

Kill ==
  /\ "kill" \in Faults /\ jvm = "running"
  /\ jvm' = "killed"
  /\ UNCHANGED <<queueVars, link, pigVars, mainVars, mr, senderVars, explained, dbVars>>

MainEnded == stage = "returned" /\ todo = <<>> /\ ~Adding("main")

\* a JVM ends with its last thread; neither timer is a daemon
JvmEnds ==
  /\ jvm = "running" /\ MainEnded
  /\ sender.pc = "dead" /\ mr.pc \in {"off", "dead"}
  /\ jvm' = "exited"
  /\ UNCHANGED <<queueVars, link, pigVars, mainVars, mr, senderVars, explained, dbVars>>

-----------------------------------------------------------------------------
Pig ==
  \/ PlanReady \/ LaunchStarted \/ ProgressUpdated
  \/ \E j \in Jobs : \/ JobsSubmitted(j) \/ JobStarted(j) \/ JobFinished(j)
                     \/ JobFinishedThrows(j) \/ JobFailed(j)
  \/ OutputCompleted \/ LaunchCompleted \/ PigAborts \/ RunReturns
  \/ \E message \in {"text", "null"} : RunReturnsFailed(message)

Main ==
  \/ Connect \/ ConnectFails
  \/ DoResetProgress \/ DoSetCurrentJob \/ DoAddMessage \/ MainAddStep
  \/ DoInsertJob \/ DoInsertMRPlan \/ DoInsertCounter \/ DoInsertFail \/ DbFails
  \/ DoThrow \/ DoWriteExplain \/ WriteExplainFails \/ DoExit

MrTimer == MrTick \/ MrFetch \/ MrDies \/ MrTest \/ MrAdd \/ MrAddStep

SenderTimer ==
  \/ SenderNotEmpty \/ SenderPeekNull \/ SenderPeek \/ SenderPoll \/ SenderPollStep
  \/ SenderWrite \/ SenderWriteFails \/ SenderClose

Environment == LinkBreaks \/ Kill \/ JvmEnds \/ \E j \in Jobs : JobAdvances(j)

Next == Pig \/ Main \/ MrTimer \/ SenderTimer \/ Environment

Spec == Init /\ [][Next]_vars

-----------------------------------------------------------------------------
(* Properties.                                                             *)

Kind(n)  == mail[n].kind
Sent     == {wire[i] : i \in DOMAIN wire}
Reported(kind) == \E n \in Sent : Kind(n) = kind

\* effects with a message or a row, on a job, and without a parameter
MessageEffects == {"insertJob", "addMessage"}
JobEffects     == {"setCurrentJob", "insertCounter"}
PlainEffects   == {"insertMRPlan", "writeExplain", "exit", "resetProgress", "throw", "insertFail"}

Effects ==
  [do : MessageEffects, what : Message]
    \union [do : JobEffects, what : [kind : {"none"}, job : Jobs]]
    \union [do : PlainEffects, what : [kind : {"none"}, job : {0}]]

PigTypeOK ==
  /\ jvm \in {"running", "exited", "killed"} /\ link \in {"up", "down"}
  /\ type \in {"script", "explain"}
  /\ stage \in {"connect", "planning", "planned", "launched", "stored", "completed",
                "aborted", "returned"}
  /\ jobs \in [Jobs -> {"waiting", "submitted", "started", "ok", "failed"}]
  /\ prog \in [Jobs -> 0..3] /\ progress \in 0..MaxProgress

ListenerTypeOK ==
  /\ todo \in Seq(Effects)
  /\ currentJobId \in 0..NJobs /\ mapProgress \in 0..1 /\ reduceProgress \in 0..2
  /\ mapDone \in BOOLEAN /\ reduceDone \in BOOLEAN /\ explained \in BOOLEAN

MrTypeOK ==
  /\ mr \in [pc : {"off", "idle", "fetch", "test", "mapsdone", "reducesdone", "dead"},
             id : 0..NJobs]
  /\ mr.pc \in {"fetch", "test", "mapsdone", "reducesdone"} => mr.id \in Jobs

SenderTypeOK ==
  /\ sender \in [pc : {"off", "loop", "peek", "poll", "polling", "close", "dead"}, root : Nat]
  /\ sender.root \in Node \union {Null}
  /\ sender.pc \in {"poll", "polling", "close"} => sender.root \in Node
  /\ completed \in BOOLEAN
  /\ wire \in Seq(Nat) /\ \A i \in DOMAIN wire : wire[i] \in Node

TablesTypeOK ==
  /\ jobRows \in Seq(Message) /\ planRow \in BOOLEAN
  /\ counterRows \in Seq(Jobs) /\ outputRow \in {"none", "Fail", "Success"}

\* The type of every variable of a run, and where each thread can be.
TypeOK ==
  /\ QueueTypeOK /\ PigTypeOK /\ ListenerTypeOK
  /\ MrTypeOK /\ SenderTypeOK /\ TablesTypeOK

\* Messages reach the node server in the order in which addMessage was called
\* and none of them twice, whatever the unsynchronised list loses.
FeedInOrder ==
  \A i, k \in DOMAIN wire : i < k => wire[i] < wire[k]

\* No message reaches the node server twice.
SentOnce ==
  \A i, k \in DOMAIN wire : i # k => wire[i] # wire[k]

\* The page is told of a success only after "complete", and of nothing after it
\* (Sender.run holds a success back until "complete" has been written).
SuccessEndsFeed ==
  \A i \in DOMAIN wire :
    Kind(wire[i]) = "success" =>
      i = Len(wire) /\ \E k \in 1..i : Kind(wire[k]) = "complete"

\* A run is never reported both as succeeded and as failed.
OneVerdict == ~(Reported("success") /\ Reported("fail"))

Logged == {"launch", "start", "jobsubmit", "jobstart", "jobfinish", "jobfail",
           "outputcomplete", "complete"}

\* The run implements the abstract feed: operations are shown after they were
\* logged and in the order of the log, a success after "complete" and last.
Feed == INSTANCE ProgressFeed WITH
  Messages <- [kind : Logged \union {"progress", "success", "fail", "duration"},
               job : 0..(NJobs + MaxProgress)],
  log <- jobRows,
  feed <- [i \in DOMAIN wire |-> mail[wire[i]]]

FeedImplemented == Feed!Spec

\* Nothing is shown to the page whose row the history log does not have yet.
SentIsLogged ==
  \A n \in Sent : Kind(n) \in Logged => \E a \in DOMAIN jobRows : jobRows[a] = mail[n]

\* While the link holds, the sender takes "complete" for done only when the
\* node server has it.
CompletedIsReported == completed => Reported("complete") \/ link = "down"

\* The nodes peek() and poll() can still come to.
Queued ==
  LET hop[k \in 0..Len(mail)] ==
        IF k = 0 THEN first ELSE IF hop[k - 1] = Null THEN Null ELSE next[hop[k - 1]]
  IN {hop[k] : k \in 0..Len(mail)} \ {Null}

\* Between calls, every message that was added is in the queue or has been
\* written, and isEmpty() tells whether the queue is empty.
NothingLost ==
  QueueIdle /\ link = "up" => /\ Queued \union Sent = Node
                              /\ size = Cardinality(Queued)

\* The sender's loop does not spin on a success that will never be due: when
\* one is at the head, "complete" has been written (or failed to be).
SuccessIsDue ==
  QueueIdle /\ first # Null /\ sender.pc \in {"loop", "peek"} =>
    (Kind(first) = "success" => completed \/ link = "down")

\* As long as the calls on the queue follow each other, two producers do no harm:
\* the feed is in order, nothing is lost and the sender never spins, also when
\* the progress timer dies because the cluster forgot the job.
SoundWithoutOverlap == overlaps = 0 => FeedInOrder /\ NothingLost /\ SuccessIsDue

\* An explain ends the JVM before Pig runs a single job.
ExplainRunsNoJob == type = "explain" => \A j \in Jobs : jobs[j] = "waiting"

\* The page's label says whether the script succeeded: a success is reported
\* only for a run that Pig calls successful.
VerdictIsTrue == Reported("success") => \A j \in Jobs : jobs[j] = "ok"

-----------------------------------------------------------------------------
(* Liveness.  Pig's run ends, and the JVM schedules its threads.           *)

Fairness ==
  /\ WF_vars(Pig) /\ WF_vars(Main) /\ WF_vars(MrTimer) /\ WF_vars(SenderTimer)
  /\ WF_vars(JvmEnds)
  /\ \A j \in Jobs : WF_vars(JobAdvances(j))

FairSpec == Spec /\ Fairness

\* Every script is reported to the page as succeeded or failed.
ScriptIsReported ==
  type = "script" ~> Reported("success") \/ Reported("fail")

\* A run reported as succeeded leaves no JVM behind.
SuccessEndsJvm == Reported("success") ~> jvm = "exited"
=============================================================================
