---------------------------- MODULE ReportProofs ----------------------------
(***************************************************************************)
(* What a run reports, in any mode, with any faults and however its three  *)
(* threads interleave in the queue: nothing is sent that table job does    *)
(* not have; a local run never reports both verdicts; an explain runs no   *)
(* job while the link holds; table job has every operation once, and its   *)
(* order is that of the messages; a local run implements ProgressFeed.     *)
(***************************************************************************)
EXTENDS PigRunProofs

-----------------------------------------------------------------------------
(* Invariants.                                                             *)

Rows == {jobRows[a] : a \in DOMAIN jobRows}

\* Each logged operation in t is stored before it is added, or stored already.
Owed(t, rows) ==
  \A i \in DOMAIN t :
    t[i].do = "addMessage" /\ t[i].what.kind \in Logged =>
      \/ t[i].what \in rows
      \/ \E k \in 1..(i - 1) : t[k].do = "insertJob" /\ t[k].what = t[i].what

NoneAdds(t, kind) == \A i \in DOMAIN t : t[i].do = "addMessage" => t[i].what.kind # kind

LogInv ==
  /\ \A n \in Node : Kind(n) \in Logged => mail[n] \in Rows
  /\ Owed(todo, Rows)

\* A failure is added by Main alone, after everything else.
VerdictInv ==
  /\ stage # "returned" => NoneAdds(todo, "fail") /\ \A n \in Node : Kind(n) # "fail"
  /\ stage = "returned" => NoneAdds(todo, "success")
  /\ \A n, k \in Node : n < k /\ Kind(n) = "fail" => Kind(k) # "success"

\* What initialPlanNotification of an explain has still to do.
Explaining ==
  { << InsertJob("launch", 0), Do("writeExplain"), Do("insertMRPlan"), Do("exit") >>,
    << Do("writeExplain"), Do("insertMRPlan"), Do("exit") >>,
    << Do("insertMRPlan"), Do("exit") >>,
    << Do("exit") >> }

ExplainInv ==
  link = "up" /\ type = "explain" =>
    /\ \A j \in Jobs : jobs[j] = "waiting"
    /\ \/ stage \in {"connect", "planning", "aborted", "returned"}
       \/ stage = "planned" /\ (jvm # "running" \/ todo \in Explaining)

ReportInv == LogInv /\ VerdictInv

-----------------------------------------------------------------------------
(* The bodies of the callbacks.                                            *)

LEMMA EffectFields ==
  ASSUME NEW kind, NEW n, NEW what
  PROVE  /\ InsertJob(kind, n).do = "insertJob" /\ InsertJob(kind, n).what = AddMessage(kind, n).what
         /\ AddMessage(kind, n).do = "addMessage" /\ AddMessage(kind, n).what.kind = kind
         /\ Do(what).do = what
  BY DEF InsertJob, AddMessage, Do, Effect

\* An insert and the add of the same operation, behind at most one effect.
LEMMA PairOwed ==
  ASSUME NEW kind, NEW n, NEW e, e.do # "addMessage", NEW f, f.do # "addMessage", NEW rows,
         kind \notin {"success", "fail"}, NEW other \in {"success", "fail"}
  PROVE  /\ Owed(<< InsertJob(kind, n), AddMessage(kind, n) >>, rows)
         /\ NoneAdds(<< InsertJob(kind, n), AddMessage(kind, n) >>, other)
         /\ Owed(<< InsertJob(kind, n), AddMessage(kind, n), e >>, rows)
         /\ NoneAdds(<< InsertJob(kind, n), AddMessage(kind, n), e >>, other)
         /\ Owed(<< e, InsertJob(kind, n), AddMessage(kind, n) >>, rows)
         /\ NoneAdds(<< e, InsertJob(kind, n), AddMessage(kind, n) >>, other)
         /\ Owed(<< e, f, InsertJob(kind, n), AddMessage(kind, n) >>, rows)
         /\ NoneAdds(<< e, f, InsertJob(kind, n), AddMessage(kind, n) >>, other)
<1>1. PICK a, b : a = InsertJob(kind, n) /\ b = AddMessage(kind, n)
  OBVIOUS
<1>2. /\ a.do = "insertJob" /\ b.do = "addMessage" /\ a.what = b.what /\ b.what.kind = kind
  BY <1>1, EffectFields
<1>3. Owed(<< a, b >>, rows) /\ NoneAdds(<< a, b >>, other)
  <2>1. PICK t : t = << a, b >>
    OBVIOUS
  <2>2. DOMAIN t = 1..2 /\ t[1] = a /\ t[2] = b
    BY <2>1
  <2>3. Owed(t, rows) /\ NoneAdds(t, other)
    BY <1>2, <2>2 DEF Owed, NoneAdds
  <2> QED BY <2>1, <2>3
<1>4. Owed(<< a, b, e >>, rows) /\ NoneAdds(<< a, b, e >>, other)
  <2>1. PICK t : t = << a, b, e >>
    OBVIOUS
  <2>2. DOMAIN t = 1..3 /\ t[1] = a /\ t[2] = b /\ t[3] = e
    BY <2>1
  <2>3. Owed(t, rows) /\ NoneAdds(t, other)
    BY <1>2, <2>2 DEF Owed, NoneAdds
  <2> QED BY <2>1, <2>3
<1>5. Owed(<< e, a, b >>, rows) /\ NoneAdds(<< e, a, b >>, other)
  <2>1. PICK t : t = << e, a, b >>
    OBVIOUS
  <2>2. DOMAIN t = 1..3 /\ t[1] = e /\ t[2] = a /\ t[3] = b
    BY <2>1
  <2>3. Owed(t, rows) /\ NoneAdds(t, other)
    BY <1>2, <2>2 DEF Owed, NoneAdds
  <2> QED BY <2>1, <2>3
<1>6. Owed(<< e, f, a, b >>, rows) /\ NoneAdds(<< e, f, a, b >>, other)
  <2>1. PICK t : t = << e, f, a, b >>
    OBVIOUS
  <2>2. DOMAIN t = 1..4 /\ t[1] = e /\ t[2] = f /\ t[3] = a /\ t[4] = b
    BY <2>1
  <2>3. Owed(t, rows) /\ NoneAdds(t, other)
    BY <1>2, <2>2 DEF Owed, NoneAdds
  <2> QED BY <2>1, <2>3
<1> QED BY <1>1, <1>3, <1>4, <1>5, <1>6

LEMMA EmptyOwed == \A rows, kind : Owed(<<>>, rows) /\ NoneAdds(<<>>, kind)
  BY DEF Owed, NoneAdds

LEMMA PlanOwed ==
  ASSUME NEW rows, NEW other \in {"success", "fail"}
  PROVE  Owed(InitialPlanNotification, rows) /\ NoneAdds(InitialPlanNotification, other)
<1>1. CASE type = "script"
  <2>1. PICK e : e = Do("insertMRPlan") /\ e.do # "addMessage"
    BY EffectFields
  <2>2. InitialPlanNotification = << InsertJob("launch", 0), AddMessage("launch", 0), e >>
    BY <1>1, <2>1 DEF InitialPlanNotification
  <2> QED BY <2>1, <2>2, PairOwed
<1>2. CASE type # "script"
  <2>1. PICK a, b, c, d : /\ a = InsertJob("launch", 0) /\ b = Do("writeExplain")
                          /\ c = Do("insertMRPlan") /\ d = Do("exit")
    OBVIOUS
  <2>2. /\ a.do # "addMessage" /\ b.do # "addMessage" /\ c.do # "addMessage" /\ d.do # "addMessage"
    BY <2>1, EffectFields
  <2>3. PICK t : t = << a, b, c, d >>
    OBVIOUS
  <2>4. DOMAIN t = 1..4 /\ \A i \in DOMAIN t : t[i] \in {a, b, c, d}
    BY <2>3
  <2>5. Owed(t, rows) /\ NoneAdds(t, other)
    BY <2>2, <2>4 DEF Owed, NoneAdds
  <2>6. InitialPlanNotification = t
    BY <1>2, <2>1, <2>3 DEF InitialPlanNotification
  <2> QED BY <2>5, <2>6
<1> QED BY <1>1, <1>2

\* JobStartedNotification resets the progress, or does not.
LEMMA TwoOrFour ==
  ASSUME NEW r, NEW s, NEW a, NEW b
  PROVE  << r >> \o << s, a, b >> = << r, s, a, b >> /\ <<>> \o << s, a, b >> = << s, a, b >>
<1>1. PICK all : all = {r, s, a, b}
  OBVIOUS
<1>2. r \in all /\ s \in all /\ a \in all /\ b \in all
  BY <1>1
<1>3. PICK u, v, w : u = << r >> /\ v = << s, a, b >> /\ w = << r, s, a, b >>
  OBVIOUS
<1>4. /\ u \in Seq(all) /\ Len(u) = 1 /\ u[1] = r
      /\ v \in Seq(all) /\ Len(v) = 3 /\ v[1] = s /\ v[2] = a /\ v[3] = b
      /\ w \in Seq(all) /\ Len(w) = 4 /\ w[1] = r /\ w[2] = s /\ w[3] = a /\ w[4] = b
  BY <1>2, <1>3
<1>5. /\ u \o v \in Seq(all) /\ Len(u \o v) = 4
      /\ \A i \in 1..4 : (u \o v)[i] = IF i <= 1 THEN u[i] ELSE v[i - 1]
  <2>1. /\ u \o v \in Seq(all) /\ Len(u \o v) = Len(u) + Len(v)
        /\ \A i \in 1..Len(u) + Len(v) :
             (u \o v)[i] = IF i <= Len(u) THEN u[i] ELSE v[i - Len(u)]
    BY ONLY <1>4, ConcatProperties
  <2> QED BY ONLY <1>4, <2>1
<1>6. \A i \in 1..4 : (u \o v)[i] = w[i]
  BY <1>4, <1>5
<1>7. u \o v = w
  BY <1>4, <1>5, <1>6, SeqEqual
<1> QED BY <1>3, <1>4, <1>7, ConcatEmptySeq

LEMMA JobOwed ==
  ASSUME NEW j, NEW rows, NEW other \in {"success", "fail"}
  PROVE  /\ Owed(JobsSubmittedNotification(j), rows)
         /\ NoneAdds(JobsSubmittedNotification(j), other)
         /\ Owed(JobStartedNotification(j), rows) /\ NoneAdds(JobStartedNotification(j), other)
         /\ Owed(JobFinishedNotification(j), rows) /\ NoneAdds(JobFinishedNotification(j), other)
         /\ Owed(JobFailedNotification(j), rows) /\ NoneAdds(JobFailedNotification(j), other)
<1>0. PICK s, c, r : /\ s = Effect("setCurrentJob", "none", j)
                     /\ c = Effect("insertCounter", "none", j) /\ r = Do("resetProgress")
  OBVIOUS
<1>1. s.do # "addMessage" /\ c.do # "addMessage" /\ r.do # "addMessage"
  BY <1>0 DEF Do, Effect
<1>2. Owed(JobStartedNotification(j), rows) /\ NoneAdds(JobStartedNotification(j), other)
  <2>1. PICK a, b : a = InsertJob("jobstart", j) /\ b = AddMessage("jobstart", j)
    OBVIOUS
  <2>2. << r >> \o << s, a, b >> = << r, s, a, b >> /\ <<>> \o << s, a, b >> = << s, a, b >>
    BY TwoOrFour
  <2>3. JobStartedNotification(j) \in {<< r, s, a, b >>, << s, a, b >>}
    BY <1>0, <2>1, <2>2 DEF JobStartedNotification
  <2> QED BY <1>1, <2>1, <2>3, PairOwed
<1>3. Owed(JobFinishedNotification(j), rows) /\ NoneAdds(JobFinishedNotification(j), other)
  BY <1>0, <1>1, PairOwed DEF JobFinishedNotification
<1> QED BY <1>1, <1>2, <1>3, PairOwed DEF JobsSubmittedNotification, JobFailedNotification

LEMMA RunOwed ==
  ASSUME NEW n, NEW message, NEW rows, NEW other \in {"success", "fail"}
  PROVE  /\ Owed(LaunchStartedNotification, rows) /\ NoneAdds(LaunchStartedNotification, other)
         /\ Owed(ProgressUpdatedNotification(n), rows)
         /\ NoneAdds(ProgressUpdatedNotification(n), other)
         /\ Owed(OutputCompletedNotification, rows) /\ NoneAdds(OutputCompletedNotification, other)
         /\ Owed(LaunchCompletedNotification(n), rows)
         /\ NoneAdds(LaunchCompletedNotification(n), "fail")
         /\ Owed(ReportFailure(message), rows) /\ NoneAdds(ReportFailure(message), "success")
<1>1. Owed(LaunchCompletedNotification(n), rows) /\ NoneAdds(LaunchCompletedNotification(n), "fail")
  <2>1. PICK a, b, c, d : /\ a = InsertJob("complete", n) /\ b = AddMessage("complete", n)
                          /\ c = AddMessage("success", 0) /\ d = InsertJob("duration", 0)
    OBVIOUS
  <2>2. /\ a.do = "insertJob" /\ b.do = "addMessage" /\ a.what = b.what
        /\ b.what.kind = "complete" /\ c.what.kind = "success" /\ d.do = "insertJob"
    BY <2>1, EffectFields
  <2>3. PICK t : t = << a, b, c, d >>
    OBVIOUS
  <2>4. DOMAIN t = 1..4 /\ t[1] = a /\ t[2] = b /\ t[3] = c /\ t[4] = d
    BY <2>3
  <2>5. Owed(t, rows) /\ NoneAdds(t, "fail")
    BY <2>2, <2>4 DEF Owed, NoneAdds, Logged
  <2> QED BY <2>1, <2>3, <2>5 DEF LaunchCompletedNotification
<1>2. Owed(ReportFailure(message), rows) /\ NoneAdds(ReportFailure(message), "success")
  <2>1. PICK a, b : /\ a = AddMessage("fail", 0)
                    /\ b = IF message = "null" THEN Do("throw") ELSE Do("insertFail")
    OBVIOUS
  <2>2. a.what.kind = "fail" /\ b.do # "addMessage"
    BY <2>1, EffectFields
  <2>3. PICK t : t = << a, b >>
    OBVIOUS
  <2>4. DOMAIN t = 1..2 /\ t[1] = a /\ t[2] = b
    BY <2>3
  <2>5. Owed(t, rows) /\ NoneAdds(t, "success")
    BY <2>2, <2>4 DEF Owed, NoneAdds, Logged
  <2> QED BY <2>1, <2>3, <2>5 DEF ReportFailure
<1>3. Owed(ProgressUpdatedNotification(n), rows) /\ NoneAdds(ProgressUpdatedNotification(n), other)
  <2>1. PICK a : a = AddMessage("progress", n) /\ a.what.kind = "progress"
    BY EffectFields
  <2>2. PICK t : t = << a >>
    OBVIOUS
  <2>3. DOMAIN t = {1} /\ t[1] = a
    BY <2>2
  <2>4. Owed(t, rows) /\ NoneAdds(t, other)
    BY <2>1, <2>3 DEF Owed, NoneAdds, Logged
  <2> QED BY <2>1, <2>2, <2>4 DEF ProgressUpdatedNotification
<1>4. PICK e : e = Do("throw") /\ e.do # "addMessage"
  BY EffectFields
<1> QED BY <1>1, <1>2, <1>3, <1>4, PairOwed DEF LaunchStartedNotification, OutputCompletedNotification

-----------------------------------------------------------------------------
(* Kinds of steps.                                                         *)

LEMMA TodoFacts ==
  ASSUME TypeOK, NEW what, Doing(what)
  PROVE  /\ todo \in Seq(Effects) /\ todo # <<>> /\ todo[1].do = what /\ Head(todo) = todo[1]
         /\ Len(todo) \in Nat /\ Len(todo) >= 1 /\ DOMAIN todo = 1..Len(todo)
         /\ DOMAIN Tail(todo) = 1..(Len(todo) - 1)
         /\ \A k \in 1..(Len(todo) - 1) : Tail(todo)[k] = todo[k + 1]
<1>1. todo \in Seq(Effects) /\ todo # <<>> /\ Head(todo).do = what
  BY DEF TypeOK, ListenerTypeOK, Doing
<1> QED BY <1>1

\* The rest of a body, after its first effect: an insert is a row by then.
LEMMA TailOwed ==
  ASSUME TypeOK, NEW what, Doing(what), NEW rows, NEW more, rows \subseteq more,
         Owed(todo, rows), todo[1].do = "insertJob" => todo[1].what \in more
  PROVE  Owed(Tail(todo), more)
<1>1. PICK t : t = Tail(todo)
  OBVIOUS
<1>2. /\ Len(todo) \in Nat /\ Len(todo) >= 1 /\ DOMAIN todo = 1..Len(todo)
      /\ DOMAIN t = 1..(Len(todo) - 1) /\ \A k \in 1..(Len(todo) - 1) : t[k] = todo[k + 1]
  BY <1>1, TodoFacts
<1>3. ASSUME NEW a \in DOMAIN t, t[a].do = "addMessage", t[a].what.kind \in Logged,
             t[a].what \notin more
      PROVE  \E k \in 1..(a - 1) : t[k].do = "insertJob" /\ t[k].what = t[a].what
  <2>1. a + 1 \in DOMAIN todo /\ todo[a + 1] = t[a] /\ a \in Nat
    BY <1>2
  <2>2. PICK k \in 1..(a + 1 - 1) : todo[k].do = "insertJob" /\ todo[k].what = t[a].what
    BY <1>3, <2>1 DEF Owed
  <2>3. k # 1
    BY <1>3, <2>2
  <2>4. k - 1 \in 1..(a - 1) /\ k - 1 \in DOMAIN t /\ t[k - 1] = todo[k]
    BY <1>2, <2>1, <2>2, <2>3
  <2> QED BY <2>2, <2>4
<1>4. Owed(t, more)
  BY <1>3 DEF Owed
<1> QED BY <1>1, <1>4

LEMMA TailNoneAdds ==
  ASSUME TypeOK, NEW what, Doing(what), NEW kind, NoneAdds(todo, kind)
  PROVE  NoneAdds(Tail(todo), kind)
<1>1. PICK t : t = Tail(todo)
  OBVIOUS
<1>2. \A k \in DOMAIN t : k + 1 \in DOMAIN todo /\ t[k] = todo[k + 1]
  BY <1>1, TodoFacts
<1>3. NoneAdds(t, kind)
  BY <1>2 DEF NoneAdds
<1> QED BY <1>1, <1>3

\* Neither a message nor a row of table job is added.
LEMMA TodoReplaced ==
  ASSUME ReportInv, UNCHANGED <<mail, jobRows>>, Owed(todo', Rows),
         stage' # "returned" => stage # "returned" /\ NoneAdds(todo', "fail"),
         stage' = "returned" => NoneAdds(todo', "success")
  PROVE  ReportInv'
<1>1. Rows' = Rows /\ Node' = Node /\ \A n : Kind(n)' = Kind(n)
  BY DEF Rows, Node, Kind
<1>2. LogInv'
  BY <1>1 DEF ReportInv, LogInv
<1>3. VerdictInv'
  BY <1>1 DEF ReportInv, VerdictInv
<1> QED BY <1>2, <1>3 DEF ReportInv

LEMMA CallbackReports ==
  ASSUME ReportInv, NEW body, Callback(body), Owed(body, Rows),
         stage # "returned", stage' # "returned" => NoneAdds(body, "fail"),
         stage' = "returned" => NoneAdds(body, "success")
  PROVE  ReportInv'
<1>1. todo' = body /\ UNCHANGED <<mail, jobRows>>
  BY DEF Callback, queueVars, dbVars
<1> QED BY <1>1, TodoReplaced

LEMMA QuietReports ==
  ASSUME ReportInv, UNCHANGED <<mail, jobRows, todo>>,
         stage' # "returned" <=> stage # "returned"
  PROVE  ReportInv'
<1>1. todo' = todo
  OBVIOUS
<1> QED BY <1>1, TodoReplaced DEF ReportInv, LogInv, VerdictInv

\* One effect of a callback that is neither an add nor an insert.
LEMMA EffectReports ==
  ASSUME TypeOK, ReportInv, NEW what, Doing(what), what # "insertJob",
         UNCHANGED <<mail, jobRows, stage>>, todo' = Tail(todo) \/ todo' = <<>>
  PROVE  ReportInv'
<1>1. Owed(Tail(todo), Rows)
  BY TailOwed, TodoFacts DEF ReportInv, LogInv
<1>2. \A kind : NoneAdds(todo, kind) => NoneAdds(Tail(todo), kind)
  BY TailNoneAdds
<1>3. Owed(todo', Rows) /\ \A kind : NoneAdds(todo, kind) => NoneAdds(todo', kind)
  BY <1>1, <1>2, EmptyOwed
<1> QED BY <1>3, TodoReplaced DEF ReportInv, VerdictInv

\* A message is added to the queue.
LEMMA MailGrows ==
  ASSUME TypeOK, NEW p, NEW m \in Message, AddCall(p, m)
  PROVE  /\ Node' = Node \union {Len(mail) + 1} /\ Len(mail) \in Nat /\ Node = 1..Len(mail)
         /\ mail'[Len(mail) + 1] = m /\ \A n \in Node : mail'[n] = mail[n]
<1>1. mail \in Seq(Message) /\ mail' = Append(mail, m)
  BY DEF TypeOK, QueueTypeOK, ListTypeOK, AddCall
<1> QED BY <1>1 DEF Node

LEMMA AddReports ==
  ASSUME TypeOK, ReportInv, NEW p, NEW m \in Message, AddCall(p, m),
         UNCHANGED <<jobRows, stage>>,
         m.kind \in Logged => m \in Rows,
         m.kind = "fail" => stage = "returned", m.kind = "success" => stage # "returned",
         Owed(todo', Rows), \A kind : NoneAdds(todo, kind) => NoneAdds(todo', kind)
  PROVE  ReportInv'
<1>1. PICK new : new = Len(mail) + 1
  OBVIOUS
<1>2. /\ Node' = Node \union {new} /\ \A n \in Node : n \in Nat /\ n < new
      /\ mail'[new] = m /\ \A n \in Node : mail'[n] = mail[n]
  BY <1>1, MailGrows
<1>3. Rows' = Rows
  BY DEF Rows
<1>4. LogInv'
  BY <1>2, <1>3 DEF ReportInv, LogInv, Kind
<1>5. VerdictInv'
  <2>1. stage # "returned" => NoneAdds(todo', "fail") /\ \A n \in Node' : mail'[n].kind # "fail"
    BY <1>2 DEF ReportInv, VerdictInv, Kind
  <2>2. ASSUME NEW n \in Node', NEW k \in Node', n < k, mail'[n].kind = "fail"
        PROVE  mail'[k].kind # "success"
    <3>1. new \in Nat
      BY <1>1, MailGrows
    <3>2. n # new
      BY <1>2, <2>2, <3>1
    <3>3. n \in Node /\ Kind(n) = "fail"
      BY <1>2, <2>2, <3>2 DEF Kind
    <3>4. stage = "returned"
      BY <3>3 DEF ReportInv, VerdictInv
    <3> QED BY <1>2, <2>2, <3>3, <3>4 DEF ReportInv, VerdictInv, Kind
  <2> QED BY <2>1, <2>2 DEF ReportInv, VerdictInv, Kind
<1> QED BY <1>4, <1>5 DEF ReportInv

-----------------------------------------------------------------------------
(* One step of a run.                                                      *)

LEMMA PigReports ==
  ASSUME TypeOK, ReportInv, Pig
  PROVE  ReportInv'
<1>1. CASE PlanReady
  BY <1>1, CallbackReports, PlanOwed DEF PlanReady
<1>2. CASE LaunchStarted
  BY <1>2, CallbackReports, RunOwed DEF LaunchStarted
<1>3. CASE ProgressUpdated
  BY <1>3, CallbackReports, RunOwed DEF ProgressUpdated
<1>4. ASSUME NEW j \in Jobs,
             JobsSubmitted(j) \/ JobStarted(j) \/ JobFinished(j) \/ JobFailed(j)
      PROVE  ReportInv'
  <2>1. stage = "launched" /\ stage' = "launched"
    BY <1>4 DEF JobsSubmitted, JobStarted, JobFinished, JobFailed
  <2>2. \E body \in {JobsSubmittedNotification(j), JobStartedNotification(j),
                     JobFinishedNotification(j), JobFailedNotification(j)} : Callback(body)
    BY <1>4 DEF JobsSubmitted, JobStarted, JobFinished, JobFailed
  <2> QED BY <2>1, <2>2, CallbackReports, JobOwed
<1>5. ASSUME NEW j \in Jobs, JobFinishedThrows(j) PROVE ReportInv'
  BY <1>5, CallbackReports, EmptyOwed DEF JobFinishedThrows
<1>6. CASE OutputCompleted
  BY <1>6, CallbackReports, RunOwed DEF OutputCompleted
<1>7. CASE LaunchCompleted
  BY <1>7, CallbackReports, RunOwed DEF LaunchCompleted
<1>8. CASE PigAborts
  BY <1>8, CallbackReports, EmptyOwed DEF PigAborts
<1>9. CASE RunReturns
  BY <1>9, CallbackReports, EmptyOwed DEF RunReturns
<1>10. ASSUME NEW message, RunReturnsFailed(message) PROVE ReportInv'
  BY <1>10, CallbackReports, RunOwed DEF RunReturnsFailed
<1> QED BY <1>1, <1>2, <1>3, <1>4, <1>5, <1>6, <1>7, <1>8, <1>9, <1>10 DEF Pig

LEMMA MainReports ==
  ASSUME TypeOK, ReportInv, Main
  PROVE  ReportInv'
<1> USE DEF queueVars, pigVars, dbVars
<1>1. CASE Connect
  BY <1>1, QuietReports DEF Connect, mainVars
<1>2. CASE ConnectFails
  BY <1>2, QuietReports DEF ConnectFails, mainVars
<1>3. CASE MainAddStep
  BY <1>3, QuietReports DEF MainAddStep, mainVars, AddStep, AddLast, AddLink, AddReadSize, AddWriteSize
<1>4. CASE DoAddMessage
  <2>1. PICK m \in Message : m = Head(todo).what /\ AddCall("main", m) /\ todo' = Tail(todo)
    BY <1>4, HeadEffect DEF DoAddMessage, TypeOK
  <2>2. Doing("addMessage")
    BY <1>4 DEF DoAddMessage
  <2>3. todo[1].do = "addMessage" /\ todo[1].what = m /\ 1 \in DOMAIN todo
    BY <2>1, <2>2, TodoFacts
  <2>4. /\ m.kind \in Logged => m \in Rows
        /\ m.kind = "fail" => stage = "returned"
        /\ m.kind = "success" => stage # "returned"
    <3>1. m.kind \in Logged => m \in Rows
      BY <2>3 DEF ReportInv, LogInv, Owed
    <3>2. \A kind : NoneAdds(todo, kind) => m.kind # kind
      BY <2>3 DEF NoneAdds
    <3> QED BY <3>1, <3>2 DEF ReportInv, VerdictInv
  <2>5. Owed(todo', Rows) /\ \A kind : NoneAdds(todo, kind) => NoneAdds(todo', kind)
    BY <2>1, <2>2, <2>3, TailOwed, TailNoneAdds DEF ReportInv, LogInv
  <2>6. UNCHANGED <<jobRows, stage>>
    BY <1>4 DEF DoAddMessage
  <2> QED BY <2>1, <2>4, <2>5, <2>6, AddReports
<1>5. CASE DoInsertJob
  <2>1. PICK m \in Message : m = Head(todo).what /\ jobRows' = Append(jobRows, m) /\ todo' = Tail(todo)
    BY <1>5, HeadEffect DEF DoInsertJob, TypeOK
  <2>2. Doing("insertJob") /\ UNCHANGED <<mail, stage>>
    BY <1>5 DEF DoInsertJob
  <2>3. Rows' = Rows \union {m}
    <3>1. jobRows \in Seq(Message)
      BY DEF TypeOK, TablesTypeOK
    <3>2. PICK after : after = jobRows' /\ after = Append(jobRows, m)
      BY <2>1
    <3>3. /\ DOMAIN after = DOMAIN jobRows \union {Len(jobRows) + 1}
          /\ after[Len(jobRows) + 1] = m /\ \A a \in DOMAIN jobRows : after[a] = jobRows[a]
      BY <3>1, <3>2
    <3>4. {after[a] : a \in DOMAIN after} = Rows \union {m}
      BY <3>3 DEF Rows
    <3> QED BY <3>2, <3>4 DEF Rows
  <2>4. PICK more : more = Rows \union {m}
    OBVIOUS
  <2>5. todo[1].what = m
    BY <2>1, <2>2, TodoFacts
  <2>6. Owed(Tail(todo), more)
    BY <2>2, <2>4, <2>5, TailOwed DEF ReportInv, LogInv
  <2>7. \A kind : NoneAdds(todo, kind) => NoneAdds(todo', kind)
    BY <2>1, <2>2, TailNoneAdds
  <2>8. Node' = Node /\ \A n : Kind(n)' = Kind(n)
    BY <2>2 DEF Node, Kind
  <2>9. LogInv'
    BY <2>1, <2>2, <2>3, <2>4, <2>6, <2>8 DEF ReportInv, LogInv
  <2>10. VerdictInv'
    BY <2>2, <2>7, <2>8 DEF ReportInv, VerdictInv
  <2> QED BY <2>9, <2>10 DEF ReportInv
<1>6. CASE DoResetProgress
  BY <1>6, EffectReports DEF DoResetProgress
<1>7. CASE DoSetCurrentJob
  BY <1>7, EffectReports DEF DoSetCurrentJob
<1>8. CASE DoInsertMRPlan
  BY <1>8, EffectReports DEF DoInsertMRPlan
<1>9. CASE DoInsertCounter
  BY <1>9, EffectReports DEF DoInsertCounter
<1>10. CASE DoInsertFail
  BY <1>10, EffectReports DEF DoInsertFail
<1>11. CASE DbFails
  <2>1. todo' = <<>> /\ UNCHANGED <<mail, jobRows>> /\ (stage' # "returned" <=> stage # "returned")
    BY <1>11 DEF DbFails
  <2> QED BY <2>1, TodoReplaced, EmptyOwed
<1>12. CASE DoThrow
  BY <1>12, EffectReports DEF DoThrow
<1>13. CASE DoWriteExplain
  BY <1>13, EffectReports DEF DoWriteExplain
<1>14. CASE WriteExplainFails
  BY <1>14, EffectReports DEF WriteExplainFails
<1>15. CASE DoExit
  BY <1>15, EffectReports DEF DoExit
<1> QED BY <1>1, <1>2, <1>3, <1>4, <1>5, <1>6, <1>7, <1>8, <1>9, <1>10, <1>11, <1>12, <1>13,
           <1>14, <1>15 DEF Main

LEMMA TimersReport ==
  ASSUME TypeOK, ReportInv, MrTimer \/ SenderTimer \/ Environment
  PROVE  ReportInv'
<1> USE DEF queueVars, pigVars, mainVars, dbVars, MrUnchanged, SenderUnchanged
<1>1. CASE MrAdd
  <2>1. PICK m \in Message : m = [kind |-> mr.pc, job |-> mr.id] /\ AddCall("mr", m)
    BY <1>1 DEF MrAdd, TypeOK, MrTypeOK, Message, Kinds
  <2>2. m.kind \in {"mapsdone", "reducesdone"}
    BY <1>1, <2>1 DEF MrAdd
  <2>3. m.kind \notin Logged /\ m.kind # "fail" /\ m.kind # "success"
    BY <2>2 DEF Logged
  <2>4. UNCHANGED <<jobRows, stage, todo>>
    BY <1>1 DEF MrAdd
  <2>5. todo' = todo
    BY <2>4
  <2> QED BY <2>1, <2>3, <2>4, <2>5, AddReports DEF ReportInv, LogInv
<1>2. CASE MrTick \/ MrFetch \/ MrDies \/ MrTest \/ MrAddStep
  BY <1>2, QuietReports DEF MrTick, MrFetch, MrDies, MrTest, MrAddStep, AddStep, AddLast, AddLink,
                            AddReadSize, AddWriteSize
<1>3. CASE SenderTimer
  <2>1. UNCHANGED <<mail, jobRows, todo, stage>>
    BY <1>3 DEF SenderTimer, SenderNotEmpty, SenderPeekNull, SenderPeek, SenderPoll, SenderPollStep,
       SenderWrite, SenderWriteFails, SenderClose, PollCall, PollStep, PollFirst, PollLast,
       PollReadSize, PollWriteSize, PollReturn
  <2> QED BY <2>1, QuietReports
<1>4. CASE Environment
  BY <1>4, QuietReports DEF Environment, LinkBreaks, Kill, JvmEnds, JobAdvances
<1> QED BY <1>1, <1>2, <1>3, <1>4 DEF MrTimer

LEMMA ReportStep == TypeOK /\ ReportInv /\ [Next]_vars => ReportInv'
<1> SUFFICES ASSUME TypeOK, ReportInv, [Next]_vars PROVE ReportInv'
  OBVIOUS
<1>1. CASE UNCHANGED vars
  BY <1>1, QuietReports DEF vars, queueVars, pigVars, mainVars, dbVars
<1> QED BY <1>1, PigReports, MainReports, TimersReport DEF Next

LEMMA InitReports == Init => ReportInv
<1> SUFFICES ASSUME Init PROVE ReportInv
  OBVIOUS
<1>1. mail = <<>> /\ todo = <<>> /\ stage = "connect"
  BY DEF Init, QueueInit
<1>2. Node = {}
  BY <1>1 DEF Node
<1> QED BY <1>1, <1>2, EmptyOwed DEF ReportInv, LogInv, VerdictInv

LEMMA ReportInvariant == Spec => []ReportInv
<1>1. TypeOK /\ ReportInv /\ [Next]_vars => ReportInv'
  BY ReportStep
<1> QED BY <1>1, InitReports, TypeCorrect, PTL DEF Spec

-----------------------------------------------------------------------------
(* The theorems.                                                           *)

\* Every operation that the node server was sent is a row of table job: the
\* callbacks of ProgressNotification insert it before they add the message,
\* and no overlap, fault or second producer makes the sender overtake them.
THEOREM SentOperationsAreLogged == Spec => []SentIsLogged
<1>1. TypeOK /\ ReportInv => SentIsLogged
  <2> SUFFICES ASSUME TypeOK, ReportInv, NEW n \in Sent, Kind(n) \in Logged
               PROVE  \E a \in DOMAIN jobRows : jobRows[a] = mail[n]
    BY DEF SentIsLogged
  <2>1. n \in Node
    BY DEF Sent, TypeOK, SenderTypeOK
  <2> QED BY <2>1 DEF ReportInv, LogInv, Rows
<1> QED BY <1>1, ReportInvariant, TypeCorrect, PTL

\* A local run is never reported both as succeeded and as failed, although
\* Main queues a failure after the success of a launch with failed jobs: the
\* success comes first in the queue, and closes the link.
THEOREM LocalOneVerdict ==
  ASSUME Mode = "local"
  PROVE  Spec => []OneVerdict
<1>1. TypeOK /\ ReportInv /\ FeedInOrder /\ SuccessEndsFeed => OneVerdict
  <2> SUFFICES ASSUME TypeOK, ReportInv, FeedInOrder, SuccessEndsFeed,
                      NEW i \in DOMAIN wire, Kind(wire[i]) = "success",
                      NEW k \in DOMAIN wire, Kind(wire[k]) = "fail"
               PROVE  FALSE
    BY DEF OneVerdict, Reported, Sent
  <2>1. DOMAIN wire = 1..Len(wire) /\ wire[i] \in Node /\ wire[k] \in Node
    BY DEF TypeOK, SenderTypeOK
  <2>2. k < i
    BY <2>1 DEF SuccessEndsFeed
  <2>3. wire[k] < wire[i]
    BY <2>2 DEF FeedInOrder
  <2> QED BY <2>1, <2>3 DEF ReportInv, VerdictInv
<1> QED BY <1>1, ReportInvariant, TypeCorrect, LocalFeedInOrder, LocalSuccessEndsFeed, PTL

-----------------------------------------------------------------------------
(* An explain.                                                             *)

LEMMA ExplainingFacts ==
  ASSUME NEW t \in Explaining
  PROVE  /\ t # <<>> /\ Head(t).do \in {"insertJob", "writeExplain", "insertMRPlan", "exit"}
         /\ Head(t).do # "exit" => Tail(t) \in Explaining
<1>1. PICK a, b, c, d : /\ a = InsertJob("launch", 0) /\ b = Do("writeExplain")
                        /\ c = Do("insertMRPlan") /\ d = Do("exit")
  OBVIOUS
<1>2. a.do = "insertJob" /\ b.do = "writeExplain" /\ c.do = "insertMRPlan" /\ d.do = "exit"
  BY <1>1, EffectFields
<1>3. t \in {<< a, b, c, d >>, << b, c, d >>, << c, d >>, << d >>}
  BY <1>1 DEF Explaining
<1>4. {<< b, c, d >>, << c, d >>, << d >>} \subseteq Explaining
  BY <1>1 DEF Explaining
<1>5. PICK all : all = {a, b, c, d}
  OBVIOUS
<1>6. a \in all /\ b \in all /\ c \in all /\ d \in all
  BY <1>5
<1>7. CASE t = << a, b, c, d >>
  BY <1>2, <1>4, <1>6, <1>7
<1>8. CASE t = << b, c, d >>
  BY <1>2, <1>4, <1>6, <1>8
<1>9. CASE t = << c, d >>
  BY <1>2, <1>4, <1>6, <1>9
<1>10. CASE t = << d >>
  BY <1>2, <1>6, <1>10
<1> QED BY <1>3, <1>7, <1>8, <1>9, <1>10

LEMMA ExplainFrame ==
  ASSUME ExplainInv, link' = "up" => link = "up", UNCHANGED <<type, jobs, stage, todo>>,
         jvm' = "running" => jvm = "running"
  PROVE  ExplainInv'
  BY DEF ExplainInv

LEMMA ExplainPig ==
  ASSUME ExplainInv, Pig
  PROVE  ExplainInv'
<1> SUFFICES ASSUME link' = "up", type' = "explain"
             PROVE  /\ \A j \in Jobs : jobs'[j] = "waiting"
                    /\ \/ stage' \in {"connect", "planning", "aborted", "returned"}
                       \/ stage' = "planned" /\ (jvm' # "running" \/ todo' \in Explaining)
  BY DEF ExplainInv
<1>1. link = "up" /\ type = "explain" /\ jvm = "running" /\ todo = <<>>
  BY DEF Pig, PlanReady, LaunchStarted, ProgressUpdated, JobsSubmitted, JobStarted, JobFinished,
     JobFinishedThrows, JobFailed, OutputCompleted, LaunchCompleted, PigAborts, RunReturns,
     RunReturnsFailed, Callback, PigReady
<1>2. todo \notin Explaining
  BY <1>1, ExplainingFacts
<1>3. /\ \A j \in Jobs : jobs[j] = "waiting"
      /\ stage \in {"connect", "planning", "aborted", "returned"}
  BY <1>1, <1>2 DEF ExplainInv
<1>4. CASE PlanReady
  <2>1. todo' = InitialPlanNotification /\ stage' = "planned" /\ jobs' = jobs
    BY <1>4 DEF PlanReady, Callback
  <2>2. InitialPlanNotification \in Explaining
    BY <1>1 DEF InitialPlanNotification, Explaining
  <2> QED BY <1>3, <2>1, <2>2
<1>5. CASE PigAborts \/ RunReturns \/ \E message \in {"text", "null"} : RunReturnsFailed(message)
  BY <1>3, <1>5 DEF PigAborts, RunReturns, RunReturnsFailed
<1>6. ~(LaunchStarted \/ ProgressUpdated \/ OutputCompleted \/ LaunchCompleted)
  BY <1>3 DEF LaunchStarted, ProgressUpdated, OutputCompleted, LaunchCompleted
<1>7. \A j \in Jobs : ~(JobsSubmitted(j) \/ JobStarted(j) \/ JobFinished(j)
                         \/ JobFinishedThrows(j) \/ JobFailed(j))
  BY <1>3 DEF JobsSubmitted, JobStarted, JobFinished, JobFinishedThrows, JobFailed
<1> QED BY <1>4, <1>5, <1>6, <1>7 DEF Pig

LEMMA ExplainMain ==
  ASSUME ExplainInv, Main
  PROVE  ExplainInv'
<1> USE DEF pigVars
<1>1. CASE Connect
  BY <1>1 DEF Connect, ExplainInv
<1>2. CASE ConnectFails
  BY <1>2, ExplainFrame DEF ConnectFails, mainVars
<1>3. CASE MainAddStep
  BY <1>3, ExplainFrame DEF MainAddStep, mainVars
<1>4. ASSUME NEW what, Doing(what), what # "exit", todo' = Tail(todo),
             UNCHANGED <<jvm, link, type, jobs, stage>>
      PROVE  ExplainInv'
  BY <1>4, ExplainingFacts DEF ExplainInv, Doing
<1>5. CASE DoResetProgress
  BY <1>4, <1>5 DEF DoResetProgress
<1>6. CASE DoSetCurrentJob
  BY <1>4, <1>6 DEF DoSetCurrentJob
<1>7. CASE DoAddMessage
  BY <1>4, <1>7 DEF DoAddMessage
<1>8. CASE DoInsertJob
  BY <1>4, <1>8 DEF DoInsertJob
<1>9. CASE DoInsertMRPlan
  BY <1>4, <1>9 DEF DoInsertMRPlan
<1>10. CASE DoInsertCounter
  BY <1>4, <1>10 DEF DoInsertCounter
<1>11. CASE DoInsertFail
  BY <1>4, <1>11 DEF DoInsertFail
<1>12. CASE DoWriteExplain
  BY <1>4, <1>12 DEF DoWriteExplain
<1>13. CASE DbFails
  BY <1>13 DEF DbFails, ExplainInv
<1>14. CASE DoThrow
  <2>1. todo # <<>> /\ Head(todo).do = "throw" /\ UNCHANGED <<jvm, link, type, jobs, stage>>
        /\ jvm = "running"
    BY <1>14 DEF DoThrow, Doing
  <2>2. todo \notin Explaining
    BY <2>1, ExplainingFacts
  <2> QED BY <2>1, <2>2 DEF ExplainInv
<1>15. CASE WriteExplainFails
  BY <1>15 DEF WriteExplainFails, ExplainInv
<1>16. CASE DoExit
  BY <1>16 DEF DoExit, ExplainInv
<1> QED BY <1>1, <1>2, <1>3, <1>5, <1>6, <1>7, <1>8, <1>9, <1>10, <1>11, <1>12, <1>13, <1>14,
           <1>15, <1>16 DEF Main

LEMMA ExplainOthers ==
  ASSUME ExplainInv, MrTimer \/ SenderTimer \/ Environment \/ UNCHANGED vars
  PROVE  ExplainInv'
<1> USE DEF pigVars, mainVars
<1>1. CASE MrTimer
  BY <1>1, ExplainFrame DEF MrTimer, MrTick, MrFetch, MrDies, MrTest, MrAdd, MrAddStep, MrUnchanged
<1>2. CASE SenderTimer
  BY <1>2, ExplainFrame DEF SenderTimer, SenderNotEmpty, SenderPeekNull, SenderPeek, SenderPoll,
     SenderPollStep, SenderWrite, SenderWriteFails, SenderClose, SenderUnchanged, SenderAt
<1>3. CASE Environment
  BY <1>3, ExplainFrame DEF Environment, LinkBreaks, Kill, JvmEnds, JobAdvances
<1>4. CASE UNCHANGED vars
  BY <1>4, ExplainFrame DEF vars
<1> QED BY <1>1, <1>2, <1>3, <1>4

LinkUp == link = "up"

\* An explain runs no job as long as the link to the node server holds:
\* initialPlanNotification ends the JVM before Pig can launch one, or fails and
\* ends Pig's run (ProgressNotification.java:144-160).
THEOREM ExplainLaunchesNothing ==
  ASSUME "link" \notin Faults
  PROVE  Spec => []ExplainRunsNoJob
<1>1. Init => LinkUp /\ ExplainInv
  BY DEF Init, ExplainInv, LinkUp
<1>2. ExplainInv /\ [Next]_vars => ExplainInv'
  BY ExplainPig, ExplainMain, ExplainOthers DEF Next
<1>3. LinkUp /\ [Next]_vars => LinkUp'
  <2> SUFFICES ASSUME link = "up", [Next]_vars PROVE link' = "up"
    BY DEF LinkUp
  <2>1. CASE Pig
    BY <2>1 DEF Pig, PlanReady, LaunchStarted, ProgressUpdated, JobsSubmitted, JobStarted,
       JobFinished, JobFinishedThrows, JobFailed, OutputCompleted, LaunchCompleted, PigAborts,
       RunReturns, RunReturnsFailed, Callback
  <2>2. CASE Main
    BY <2>2 DEF Main, Connect, ConnectFails, DoResetProgress, DoSetCurrentJob, DoAddMessage,
       MainAddStep, DoInsertJob, DoInsertMRPlan, DoInsertCounter, DoInsertFail, DbFails, DoThrow,
       DoWriteExplain, WriteExplainFails, DoExit
  <2>3. CASE MrTimer
    BY <2>3 DEF MrTimer, MrTick, MrFetch, MrDies, MrTest, MrAdd, MrAddStep, MrUnchanged
  <2>4. CASE SenderTimer
    BY <2>4 DEF SenderTimer, SenderNotEmpty, SenderPeekNull, SenderPeek, SenderPoll,
       SenderPollStep, SenderWrite, SenderWriteFails, SenderClose, SenderUnchanged
  <2>5. CASE Environment
    BY <2>5 DEF Environment, LinkBreaks, Kill, JvmEnds, JobAdvances
  <2>6. CASE UNCHANGED vars
    BY <2>6 DEF vars
  <2> QED BY <2>1, <2>2, <2>3, <2>4, <2>5, <2>6 DEF Next
<1>4. LinkUp /\ ExplainInv => ExplainRunsNoJob
  BY DEF ExplainInv, ExplainRunsNoJob, LinkUp
<1> QED BY <1>1, <1>2, <1>3, <1>4, PTL DEF Spec

-----------------------------------------------------------------------------
(* The messages of a callback are its own, and a callback is made once.    *)

JobKinds == {"jobsubmit", "jobstart", "jobfinish", "jobfail"}

FeedMessages == [kind : Logged \union {"progress", "success", "fail", "duration"},
                 job : 0..(NJobs + MaxProgress)]

Owned(m) == m \in FeedMessages /\ (m.kind \in JobKinds => m.job \in Jobs)

\* While the progress timer is off, every message comes from a callback.
MessagesInv ==
  /\ \A i \in DOMAIN todo : todo[i].do \in MessageEffects => Owned(todo[i].what)
  /\ \A a \in DOMAIN jobRows : Owned(jobRows[a])
  /\ mr.pc = "off" => \A n \in Node : Owned(mail[n])
  /\ stage = "connect" => mr.pc = "off"

OrderInv == MessagesInv /\ LogOrder

\* A callback body stores operation m, or tells it, once at most.
OneOperation(t, m) ==
  /\ \A i, k \in Storing(t) : i = k
  /\ \A i, k \in Telling(t) : i = k
  /\ \A i \in Storing(t) \union Telling(t) : t[i].what = m
  /\ \A i \in DOMAIN t : t[i].do \in MessageEffects => Owned(t[i].what)

NoOperation(t) == Storing(t) = {} /\ Telling(t) = {}

\* Pig's launcher never goes back.
Forward ==
  /\ \/ stage' = stage \/ stage' \in {"completed", "aborted", "returned"}
     \/ stage = "launched" /\ stage' = "stored"
     \/ stage = "planned" /\ stage' = "launched"
     \/ stage = "planning" /\ stage' = "planned"
     \/ stage = "connect" /\ stage' = "planning"
  /\ stage \in {"completed", "aborted", "returned"} =>
       stage' \in {"completed", "aborted", "returned"}
  /\ \A j \in Jobs :
       \/ jobs'[j] = jobs[j] \/ jobs[j] = "waiting"
       \/ jobs[j] = "submitted" /\ jobs'[j] = "started"
       \/ jobs[j] = "started" /\ jobs'[j] \in Ended

LEMMA HappenedStays ==
  ASSUME Forward, NEW m, Owned(m), Happened(m)
  PROVE  Happened(m)'
<1>1. m.kind \in JobKinds => m.job \in Jobs
  BY DEF Owned
<1>2. /\ m.kind = "launch" => stage' \notin {"connect", "planning"}
      /\ m.kind = "start" => stage' \notin {"connect", "planning", "planned"}
      /\ m.kind = "outputcomplete" =>
           stage' \notin {"connect", "planning", "planned", "launched"}
      /\ m.kind = "complete" => stage' \in {"completed", "aborted", "returned"}
  BY DEF Forward, Happened
<1>3. m.kind = "jobsubmit" => jobs'[m.job] # "waiting"
  BY <1>1 DEF Forward, Happened, JobKinds, Ended
<1>4. m.kind = "jobstart" => jobs'[m.job] \notin {"waiting", "submitted"}
  BY <1>1 DEF Forward, Happened, JobKinds, Ended
<1>5. m.kind \in {"jobfinish", "jobfail"} => jobs'[m.job] \in Ended
  BY <1>1 DEF Forward, Happened, JobKinds, Ended
<1> QED BY <1>2, <1>3, <1>4, <1>5 DEF Happened

LEMMA PigForward == ASSUME TypeOK, Pig PROVE Forward
<1>1. jobs \in [Jobs -> {"waiting", "submitted", "started", "ok", "failed"}]
  BY DEF TypeOK, PigTypeOK
<1>2. CASE PlanReady \/ LaunchStarted \/ ProgressUpdated \/ OutputCompleted
  BY <1>2 DEF PlanReady, LaunchStarted, ProgressUpdated, OutputCompleted, Forward
<1>3. CASE LaunchCompleted \/ PigAborts \/ RunReturns
  BY <1>3 DEF LaunchCompleted, PigAborts, RunReturns, Forward
<1>4. ASSUME NEW message, RunReturnsFailed(message) PROVE Forward
  BY <1>4 DEF RunReturnsFailed, Forward
<1>5. ASSUME NEW j \in Jobs, JobsSubmitted(j) PROVE Forward
  BY <1>1, <1>5 DEF JobsSubmitted, Forward
<1>6. ASSUME NEW j \in Jobs, JobStarted(j) PROVE Forward
  BY <1>1, <1>6 DEF JobStarted, Forward
<1>7. ASSUME NEW j \in Jobs, JobFinished(j) \/ JobFinishedThrows(j) \/ JobFailed(j) PROVE Forward
  BY <1>1, <1>7 DEF JobFinished, JobFinishedThrows, JobFailed, Forward, Ended
<1> QED BY <1>2, <1>3, <1>4, <1>5, <1>6, <1>7 DEF Pig

LEMMA NextForward == ASSUME TypeOK, [Next]_vars PROVE Forward
<1> USE DEF pigVars, mainVars
<1>1. CASE Pig
  BY <1>1, PigForward
<1>2. CASE Connect
  BY <1>2 DEF Connect, Forward
<1>3. CASE DbFails
  BY <1>3 DEF DbFails, Forward
<1>4. CASE Main /\ ~Connect /\ ~DbFails
  BY <1>4 DEF Main, ConnectFails, DoResetProgress, DoSetCurrentJob, DoAddMessage,
     MainAddStep, DoInsertJob, DoInsertMRPlan, DoInsertCounter, DoInsertFail, DoThrow,
     DoWriteExplain, WriteExplainFails, DoExit, Forward
<1>5. CASE MrTimer
  BY <1>5 DEF MrTimer, MrTick, MrFetch, MrDies, MrTest, MrAdd, MrAddStep, MrUnchanged, Forward
<1>6. CASE SenderTimer
  BY <1>6 DEF SenderTimer, SenderNotEmpty, SenderPeekNull, SenderPeek, SenderPoll,
     SenderPollStep, SenderWrite, SenderWriteFails, SenderClose, SenderUnchanged, Forward
<1>7. CASE Environment
  BY <1>7 DEF Environment, LinkBreaks, Kill, JvmEnds, JobAdvances, Forward
<1>8. CASE UNCHANGED vars
  BY <1>8 DEF vars, Forward
<1> QED BY <1>1, <1>2, <1>3, <1>4, <1>5, <1>6, <1>7, <1>8 DEF Next

LEMMA MessageFields ==
  ASSUME NEW kind, NEW n
  PROVE  /\ InsertJob(kind, n).do = "insertJob" /\ AddMessage(kind, n).do = "addMessage"
         /\ InsertJob(kind, n).what = [kind |-> kind, job |-> n]
         /\ AddMessage(kind, n).what = [kind |-> kind, job |-> n]
  BY DEF InsertJob, AddMessage, Effect

LEMMA OwnedMessage ==
  ASSUME NEW kind \in Logged \union {"progress", "success", "fail", "duration"},
         NEW n \in 0..(NJobs + MaxProgress), kind \in JobKinds => n \in Jobs
  PROVE  Owned([kind |-> kind, job |-> n])
  BY DEF Owned, FeedMessages

\* The bodies that store and tell one operation, with other effects around.
LEMMA PairIsOne ==
  ASSUME NEW kind \in Logged, NEW n \in 0..(NJobs + MaxProgress), kind \in JobKinds => n \in Jobs,
         NEW e, e.do \notin MessageEffects, NEW f, f.do \notin MessageEffects,
         NEW m, m = [kind |-> kind, job |-> n]
  PROVE  /\ OneOperation(<< InsertJob(kind, n), AddMessage(kind, n) >>, m)
         /\ OneOperation(<< InsertJob(kind, n), AddMessage(kind, n), e >>, m)
         /\ OneOperation(<< e, InsertJob(kind, n), AddMessage(kind, n) >>, m)
         /\ OneOperation(<< e, f, InsertJob(kind, n), AddMessage(kind, n) >>, m)
<1>1. PICK a, b : a = InsertJob(kind, n) /\ b = AddMessage(kind, n)
  OBVIOUS
<1>2. a.do = "insertJob" /\ b.do = "addMessage" /\ a.what = m /\ b.what = m /\ Owned(m)
  BY <1>1, MessageFields, OwnedMessage
<1>3. e.do # "insertJob" /\ e.do # "addMessage" /\ f.do # "insertJob" /\ f.do # "addMessage"
  BY DEF MessageEffects
<1> DEFINE Around(t, d) ==
      \A i \in DOMAIN t : (i = d /\ t[i] = a) \/ (i = d + 1 /\ t[i] = b) \/ t[i] \in {e, f}
<1>4. ASSUME NEW t, NEW d \in Nat, Around(t, d) PROVE OneOperation(t, m)
  <2>1. Storing(t) \subseteq {d} /\ Telling(t) \subseteq {d + 1}
    BY <1>2, <1>3, <1>4 DEF Storing, Telling
  <2>2. \A i \in DOMAIN t : t[i].do \in MessageEffects => t[i].what = m
    BY <1>2, <1>4
  <2>3. \A i \in Storing(t) \union Telling(t) : t[i].what = m
    BY <2>2 DEF Storing, Telling, MessageEffects
  <2> QED BY <1>2, <2>1, <2>2, <2>3 DEF OneOperation
<1>5. OneOperation(<< a, b >>, m)
  <2>1. PICK t : t = << a, b >>
    OBVIOUS
  <2>2. DOMAIN t = 1..2 /\ t[1] = a /\ t[2] = b
    BY <2>1
  <2>3. 1 \in Nat /\ Around(t, 1)
    BY <2>2
  <2> HIDE DEF Around
  <2>4. OneOperation(t, m)
    BY <1>4, <2>3
  <2> QED BY <2>1, <2>4
<1>6. OneOperation(<< a, b, e >>, m)
  <2>1. PICK t : t = << a, b, e >>
    OBVIOUS
  <2>2. DOMAIN t = 1..3 /\ t[1] = a /\ t[2] = b /\ t[3] = e
    BY <2>1
  <2>3. 1 \in Nat /\ Around(t, 1)
    BY <2>2
  <2> HIDE DEF Around
  <2>4. OneOperation(t, m)
    BY <1>4, <2>3
  <2> QED BY <2>1, <2>4
<1>7. OneOperation(<< e, a, b >>, m)
  <2>1. PICK t : t = << e, a, b >>
    OBVIOUS
  <2>2. DOMAIN t = 1..3 /\ t[1] = e /\ t[2] = a /\ t[3] = b
    BY <2>1
  <2>3. 2 \in Nat /\ Around(t, 2)
    BY <2>2
  <2> HIDE DEF Around
  <2>4. OneOperation(t, m)
    BY <1>4, <2>3
  <2> QED BY <2>1, <2>4
<1>8. OneOperation(<< e, f, a, b >>, m)
  <2>1. PICK t : t = << e, f, a, b >>
    OBVIOUS
  <2>2. DOMAIN t = 1..4 /\ t[1] = e /\ t[2] = f /\ t[3] = a /\ t[4] = b
    BY <2>1
  <2>3. 3 \in Nat /\ Around(t, 3)
    BY <2>2
  <2> HIDE DEF Around
  <2>4. OneOperation(t, m)
    BY <1>4, <2>3
  <2> QED BY <2>1, <2>4
<1> QED BY <1>1, <1>5, <1>6, <1>7, <1>8

LEMMA PlainFields ==
  ASSUME NEW what \in PlainEffects
  PROVE  Do(what).do \notin MessageEffects
  BY DEF Do, Effect, PlainEffects, MessageEffects

LEMMA PlanIsOne ==
  ASSUME NEW m, m = [kind |-> "launch", job |-> 0]
  PROVE  OneOperation(InitialPlanNotification, m) /\ Owned(m)
<1>1. "launch" \in Logged /\ "launch" \notin JobKinds /\ 0 \in 0..(NJobs + MaxProgress)
  BY JobsAssumption DEF Logged, JobKinds
<1>2. Owned(m)
  BY <1>1, OwnedMessage
<1>3. PICK a, b, c, d : /\ a = InsertJob("launch", 0) /\ b = Do("writeExplain")
                        /\ c = Do("insertMRPlan") /\ d = Do("exit")
  OBVIOUS
<1>4. /\ a.do = "insertJob" /\ a.what = m
      /\ b.do \notin MessageEffects /\ c.do \notin MessageEffects /\ d.do \notin MessageEffects
  BY <1>3, MessageFields, PlainFields DEF PlainEffects
<1>5. CASE type = "script"
  <2>1. InitialPlanNotification = << InsertJob("launch", 0), AddMessage("launch", 0), c >>
    BY <1>3, <1>5 DEF InitialPlanNotification
  <2> QED BY <1>1, <1>2, <1>4, <2>1, PairIsOne
<1>6. CASE type # "script"
  <2>1. PICK t : t = << a, b, c, d >>
    OBVIOUS
  <2>2. DOMAIN t = 1..4 /\ t[1] = a /\ t[2] = b /\ t[3] = c /\ t[4] = d
    BY <2>1
  <2>3. \A i \in DOMAIN t : t[i].do \in MessageEffects => i = 1 /\ t[i] = a
    BY <1>4, <2>2
  <2>4. Storing(t) \subseteq {1} /\ Telling(t) = {}
    BY <1>4, <2>3 DEF Storing, Telling, MessageEffects
  <2>5. OneOperation(t, m)
    BY <1>2, <1>4, <2>2, <2>3, <2>4 DEF OneOperation
  <2>6. InitialPlanNotification = t
    BY <1>3, <1>6, <2>1 DEF InitialPlanNotification
  <2> QED BY <1>2, <2>5, <2>6
<1> QED BY <1>5, <1>6

LEMMA JobIsOne ==
  ASSUME NEW j \in Jobs
  PROVE  /\ OneOperation(JobsSubmittedNotification(j), [kind |-> "jobsubmit", job |-> j])
         /\ OneOperation(JobStartedNotification(j), [kind |-> "jobstart", job |-> j])
         /\ OneOperation(JobFinishedNotification(j), [kind |-> "jobfinish", job |-> j])
         /\ OneOperation(JobFailedNotification(j), [kind |-> "jobfail", job |-> j])
<1>0. PICK s, c, r : /\ s = Effect("setCurrentJob", "none", j)
                     /\ c = Effect("insertCounter", "none", j) /\ r = Do("resetProgress")
  OBVIOUS
<1>1. s.do \notin MessageEffects /\ c.do \notin MessageEffects /\ r.do \notin MessageEffects
  BY <1>0 DEF Do, Effect, MessageEffects
<1>2. j \in 0..(NJobs + MaxProgress)
  BY JobsAssumption DEF Jobs
<1>3. {"jobsubmit", "jobstart", "jobfinish", "jobfail"} \subseteq Logged
  BY DEF Logged
<1>4. OneOperation(JobStartedNotification(j), [kind |-> "jobstart", job |-> j])
  <2>1. PICK a, b : a = InsertJob("jobstart", j) /\ b = AddMessage("jobstart", j)
    OBVIOUS
  <2>2. << r >> \o << s, a, b >> = << r, s, a, b >> /\ <<>> \o << s, a, b >> = << s, a, b >>
    BY TwoOrFour
  <2>3. JobStartedNotification(j) \in {<< r, s, a, b >>, << s, a, b >>}
    BY <1>0, <2>1, <2>2 DEF JobStartedNotification
  <2> QED BY <1>1, <1>2, <1>3, <2>1, <2>3, PairIsOne
<1> QED BY <1>0, <1>1, <1>2, <1>3, <1>4, PairIsOne
        DEF JobsSubmittedNotification, JobFinishedNotification, JobFailedNotification

LEMMA RunIsOne ==
  /\ OneOperation(LaunchStartedNotification, [kind |-> "start", job |-> 0])
  /\ OneOperation(OutputCompletedNotification, [kind |-> "outputcomplete", job |-> 0])
<1>1. PICK e : e = Do("throw") /\ e.do \notin MessageEffects
  BY PlainFields DEF PlainEffects
<1>2. /\ {"start", "outputcomplete"} \subseteq Logged /\ 0 \in 0..(NJobs + MaxProgress)
      /\ "start" \notin JobKinds /\ "outputcomplete" \notin JobKinds
  BY JobsAssumption DEF Logged, JobKinds
<1> QED BY <1>1, <1>2, PairIsOne DEF LaunchStartedNotification, OutputCompletedNotification

LEMMA LaunchIsOne ==
  ASSUME NEW n \in 0..NJobs
  PROVE  OneOperation(LaunchCompletedNotification(n), [kind |-> "complete", job |-> n])
<1>1. PICK a, b, c, d : /\ a = InsertJob("complete", n) /\ b = AddMessage("complete", n)
                        /\ c = AddMessage("success", 0) /\ d = InsertJob("duration", 0)
  OBVIOUS
<1>2. PICK m, u, v : /\ m = [kind |-> "complete", job |-> n]
                     /\ u = [kind |-> "success", job |-> 0] /\ v = [kind |-> "duration", job |-> 0]
  OBVIOUS
<1>3. Owned(m) /\ Owned(u) /\ Owned(v) /\ u.kind = "success" /\ v.kind = "duration"
  BY <1>2, JobsAssumption, OwnedMessage DEF Logged, JobKinds
<1>4. /\ a.do = "insertJob" /\ b.do = "addMessage" /\ a.what = m /\ b.what = m
      /\ c.do = "addMessage" /\ c.what = u /\ d.do = "insertJob" /\ d.what = v
  BY <1>1, <1>2, MessageFields
<1>5. PICK t : t = << a, b, c, d >>
  OBVIOUS
<1>6. DOMAIN t = 1..4 /\ t[1] = a /\ t[2] = b /\ t[3] = c /\ t[4] = d
  BY <1>5
<1>7. u.kind \notin Logged /\ v.kind \notin Logged
  BY <1>3 DEF Logged
<1>8. Storing(t) \subseteq {1} /\ Telling(t) \subseteq {2}
  BY <1>4, <1>6, <1>7 DEF Storing, Telling
<1>9. \A i \in DOMAIN t : t[i].what \in {m, u, v}
  BY <1>4, <1>6
<1>10. OneOperation(t, m)
  BY <1>3, <1>4, <1>6, <1>8, <1>9 DEF OneOperation
<1> QED BY <1>1, <1>2, <1>5, <1>10 DEF LaunchCompletedNotification

LEMMA NoOperations ==
  ASSUME NEW n \in 0..(NJobs + MaxProgress), NEW message
  PROVE  /\ NoOperation(<<>>)
         /\ NoOperation(ProgressUpdatedNotification(n)) /\ NoOperation(ReportFailure(message))
         /\ \A t \in {<<>>, ProgressUpdatedNotification(n), ReportFailure(message)} :
              \A i \in DOMAIN t : t[i].do \in MessageEffects => Owned(t[i].what)
<1>1. PICK a, f, g : /\ a = AddMessage("progress", n) /\ f = AddMessage("fail", 0)
                     /\ g = IF message = "null" THEN Do("throw") ELSE Do("insertFail")
  OBVIOUS
<1>2. PICK u, v : u = [kind |-> "progress", job |-> n] /\ v = [kind |-> "fail", job |-> 0]
  OBVIOUS
<1>3. Owned(u) /\ Owned(v) /\ u.kind \notin Logged /\ v.kind \notin Logged
  BY <1>2, JobsAssumption, OwnedMessage DEF Logged, JobKinds
<1>4. a.do = "addMessage" /\ f.do = "addMessage" /\ a.what = u /\ f.what = v
  BY <1>1, <1>2, MessageFields
<1>5. g.do \notin MessageEffects
  BY <1>1, PlainFields DEF PlainEffects
<1>6. ASSUME NEW t, \A i \in DOMAIN t : t[i] \in {a, f, g}
      PROVE  NoOperation(t) /\ \A i \in DOMAIN t : t[i].do \in MessageEffects => Owned(t[i].what)
  <2>1. \A i \in DOMAIN t : t[i].do \in MessageEffects => t[i].what \in {u, v}
    BY <1>4, <1>5, <1>6
  <2>2. \A i \in DOMAIN t : t[i].do \in MessageEffects =>
          Owned(t[i].what) /\ t[i].what.kind \notin Logged
    BY <1>3, <2>1
  <2> QED BY <2>2 DEF NoOperation, Storing, Telling, MessageEffects
<1>7. PICK t1, t2, t3 : t1 = <<>> /\ t2 = << a >> /\ t3 = << f, g >>
  OBVIOUS
<1>8. \A t \in {t1, t2, t3} : \A i \in DOMAIN t : t[i] \in {a, f, g}
  BY <1>7
<1>9. ProgressUpdatedNotification(n) = t2 /\ ReportFailure(message) = t3
  BY <1>1, <1>7 DEF ProgressUpdatedNotification, ReportFailure
<1> QED BY <1>6, <1>7, <1>8, <1>9

LEMMA SucceededBound == Cardinality(Succeeded) \in 0..NJobs
<1>1. IsFiniteSet(Jobs) /\ Cardinality(Jobs) = NJobs
  BY JobsAssumption, FS_Interval DEF Jobs
<1>2. Succeeded \subseteq Jobs
  BY DEF Succeeded
<1>3. Cardinality(Succeeded) \in Nat /\ Cardinality(Succeeded) <= NJobs
  BY <1>1, <1>2, FS_Subset, FS_CardinalityType
<1> QED BY <1>3, JobsAssumption

\* t is what is left of todo when its first d effects are over.
Rest(t, d) ==
  d \in 0..1 /\ \A i \in DOMAIN t : i \in Int /\ i + d \in DOMAIN todo /\ t[i] = todo[i + d]

LEMMA Rests ==
  ASSUME TypeOK
  PROVE  /\ Rest(<<>>, 0) /\ Rest(todo, 0)
         /\ \A what : Doing(what) => Rest(Tail(todo), 1)
<1>1. DOMAIN todo = 1..Len(todo) /\ Len(todo) \in Nat
  BY DEF TypeOK, ListenerTypeOK
<1>2. ASSUME NEW what, Doing(what) PROVE Rest(Tail(todo), 1)
  <2>1. PICK t : t = Tail(todo)
    OBVIOUS
  <2>2. DOMAIN t = 1..(Len(todo) - 1) /\ \A k \in 1..(Len(todo) - 1) : t[k] = todo[k + 1]
    BY <1>2, <2>1, TodoFacts
  <2>3. Rest(t, 1)
    BY <1>1, <2>2 DEF Rest
  <2> QED BY <2>1, <2>3
<1> QED BY <1>1, <1>2 DEF Rest

LEMMA RestEntries ==
  ASSUME NEW t, NEW d, Rest(t, d)
  PROVE  /\ d \in Int /\ \A i \in DOMAIN t : i \in Int
         /\ \A i \in Storing(t) : i \in DOMAIN t /\ i + d \in Storing(todo) /\ t[i] = todo[i + d]
         /\ \A i \in Telling(t) : i \in DOMAIN t /\ i + d \in Telling(todo) /\ t[i] = todo[i + d]
  BY DEF Rest, Storing, Telling

LEMMA MessagesKept ==
  ASSUME MessagesInv, NEW t, NEW d, Rest(t, d), todo' = t,
         UNCHANGED <<mail, jobRows>>, mr'.pc = "off" => mr.pc = "off",
         stage' = "connect" => stage = "connect" /\ (mr.pc = "off" => mr'.pc = "off")
  PROVE  MessagesInv'
<1>1. Node' = Node
  BY DEF Node
<1>2. \A i \in DOMAIN todo' : todo'[i].do \in MessageEffects => Owned(todo'[i].what)
  BY DEF MessagesInv, Rest
<1> QED BY <1>1, <1>2 DEF MessagesInv, Owned, FeedMessages

LEMMA OwnEntries ==
  ASSUME MessagesInv
  PROVE  /\ \A a \in LoggedRows : Owned(jobRows[a])
         /\ \A i \in Storing(todo) \union Telling(todo) : Owned(todo[i].what)
  BY DEF MessagesInv, LoggedRows, Storing, Telling, MessageEffects

LEMMA StoringKept ==
  ASSUME OrderInv, Forward, NEW t, NEW d, Rest(t, d)
  PROVE  /\ \A a \in LoggedRows : Happened(jobRows[a]) /\ Owned(jobRows[a])
         /\ \A i, k \in Storing(t) : i = k
         /\ \A i \in Storing(t), a \in LoggedRows : t[i].what # jobRows[a]
         /\ \A i \in Storing(t) : Happened(t[i].what)'
         /\ \A i, k \in Telling(t) : i = k
<1>1. \A i \in Storing(t) : i + d \in Storing(todo) /\ t[i] = todo[i + d] /\ i \in Int /\ d \in Int
  BY RestEntries
<1>2. \A i \in Telling(t) : i + d \in Telling(todo) /\ t[i] = todo[i + d] /\ i \in Int /\ d \in Int
  BY RestEntries
<1>3. \A a \in LoggedRows : Happened(jobRows[a]) /\ Owned(jobRows[a])
  BY OwnEntries DEF OrderInv, LogOrder, StoredOnce
<1>4. \A i, k \in Storing(t) : i = k
  <2>1. \A i, k \in Storing(t) : i + d = k + d
    BY <1>1 DEF OrderInv, LogOrder, StoredOnce
  <2> QED BY <1>1, <2>1
<1>5. \A i \in Storing(t), a \in LoggedRows : t[i].what # jobRows[a]
  BY <1>1 DEF OrderInv, LogOrder, StoredOnce
<1>6. \A i \in Storing(t) : Happened(t[i].what)'
  <2> SUFFICES ASSUME NEW i \in Storing(t) PROVE Happened(t[i].what)'
    OBVIOUS
  <2>1. PICK m : m = t[i].what /\ m = todo[i + d].what
    BY <1>1
  <2>2. Owned(m) /\ Happened(m)
    BY <1>1, <2>1, OwnEntries DEF OrderInv, LogOrder, StoredOnce
  <2> QED BY <2>1, <2>2, HappenedStays
<1>7. \A i, k \in Telling(t) : i = k
  <2>1. \A i, k \in Telling(t) : i + d = k + d
    BY <1>2 DEF OrderInv, LogOrder, ToldInOrder
  <2> QED BY <1>2, <2>1
<1> QED BY <1>3, <1>4, <1>5, <1>6, <1>7

LEMMA StoredKept ==
  ASSUME OrderInv, Forward, NEW t, NEW d, Rest(t, d), todo' = t, UNCHANGED jobRows
  PROVE  StoredOnce' /\ LoggedRows' = LoggedRows
<1>1. LoggedRows' = LoggedRows
  BY DEF LoggedRows
<1>2. \A a \in LoggedRows : Happened(jobRows[a])'
  BY StoringKept, HappenedStays
<1>3. \A a, b \in LoggedRows : jobRows[a] = jobRows[b] => a = b
  BY DEF OrderInv, LogOrder, StoredOnce
<1> QED BY <1>1, <1>2, <1>3, StoringKept DEF StoredOnce

\* Steps that neither store nor add.
LEMMA OrderKept ==
  ASSUME OrderInv, Forward, NEW t, NEW d, Rest(t, d), todo' = t,
         UNCHANGED <<mail, jobRows>>, mr'.pc = "off" => mr.pc = "off",
         stage' = "connect" => stage = "connect" /\ (mr.pc = "off" => mr'.pc = "off")
  PROVE  OrderInv'
<1>1. Node' = Node /\ LoggedRows' = LoggedRows /\ StoredOnce'
  BY StoredKept DEF Node
<1>2. ToldInOrder'
  <2>1. \A i \in Telling(t), n \in Node, a, b \in LoggedRows :
          jobRows[a] = mail[n] /\ jobRows[b] = t[i].what => a < b
    BY RestEntries DEF OrderInv, LogOrder, ToldInOrder
  <2> QED BY <1>1, <2>1, StoringKept DEF OrderInv, LogOrder, ToldInOrder
<1>3. MessagesInv'
  BY MessagesKept DEF OrderInv
<1> QED BY <1>1, <1>2, <1>3 DEF OrderInv, LogOrder

\* A message is added; the one of an operation is the last of its callback.
LEMMA OrderAdds ==
  ASSUME TypeOK, OrderInv, Forward, NEW p, NEW m \in Message, AddCall(p, m),
         NEW t, NEW d, Rest(t, d), todo' = t, UNCHANGED <<jobRows, stage>>,
         m.kind \in Logged =>
           /\ Telling(t) = {}
           /\ \A n \in Node, a, b \in LoggedRows :
                jobRows[a] = mail[n] /\ jobRows[b] = m => a < b,
         mr'.pc = "off" => mr.pc = "off" /\ Owned(m),
         mr.pc = "off" => mr'.pc = "off"
  PROVE  OrderInv'
<1>1. LoggedRows' = LoggedRows /\ StoredOnce'
  BY StoredKept
<1>2. PICK new : new = Len(mail) + 1
  OBVIOUS
<1>3. /\ Node' = Node \union {new} /\ \A n \in Node : n \in Nat /\ n < new /\ n # new
      /\ new \in Nat /\ mail'[new] = m /\ \A n \in Node : mail'[n] = mail[n]
  BY <1>2, MailGrows
<1>4. \A a \in LoggedRows : jobRows[a].kind \in Logged
  BY DEF LoggedRows
<1>5. ToldInOrder'
  <2>1. ASSUME NEW n \in Node', NEW k \in Node', NEW a \in LoggedRows, NEW b \in LoggedRows,
               n < k, jobRows[a] = mail'[n], jobRows[b] = mail'[k]
        PROVE  a < b
    <3>1. n \in Node
      BY <1>3, <2>1
    <3>2. CASE k = new
      BY <1>3, <1>4, <2>1, <3>1, <3>2
    <3>3. CASE k \in Node
      BY <1>3, <2>1, <3>1, <3>3 DEF OrderInv, LogOrder, ToldInOrder
    <3> QED BY <1>3, <3>2, <3>3
  <2>2. ASSUME NEW i \in Telling(t), NEW n \in Node', NEW a \in LoggedRows, NEW b \in LoggedRows,
               jobRows[a] = mail'[n], jobRows[b] = t[i].what
        PROVE  a < b
    <3>1. n \in Node
      BY <1>3, <1>4, <2>2
    <3>2. i + d \in Telling(todo) /\ t[i] = todo[i + d]
      BY RestEntries
    <3> QED BY <1>3, <2>2, <3>1, <3>2 DEF OrderInv, LogOrder, ToldInOrder
  <2> QED BY <1>1, <2>1, <2>2, StoringKept DEF ToldInOrder
<1>6. MessagesInv'
  <2>1. \A i \in DOMAIN t : t[i].do \in MessageEffects => Owned(t[i].what)
    BY DEF OrderInv, MessagesInv, Rest
  <2>2. mr'.pc = "off" => \A n \in Node' : Owned(mail'[n])
    BY <1>3 DEF OrderInv, MessagesInv
  <2> QED BY <2>1, <2>2 DEF OrderInv, MessagesInv, Owned, FeedMessages
<1> QED BY <1>1, <1>5, <1>6 DEF OrderInv, LogOrder

LEMMA OrderAddMessage ==
  ASSUME TypeOK, OrderInv, Forward, DoAddMessage
  PROVE  OrderInv'
<1>1. PICK m \in Message : m = Head(todo).what /\ AddCall("main", m) /\ todo' = Tail(todo)
  BY HeadEffect DEF DoAddMessage, TypeOK
<1>2. Doing("addMessage") /\ UNCHANGED <<jobRows, stage, mr>>
  BY DEF DoAddMessage, pigVars, dbVars
<1>3. todo[1].do = "addMessage" /\ todo[1].what = m /\ 1 \in DOMAIN todo
  BY <1>1, <1>2, TodoFacts
<1>4. PICK t : t = Tail(todo) /\ Rest(t, 1) /\ \A i \in DOMAIN t : i # 0
  <2>1. PICK t : t = Tail(todo)
    OBVIOUS
  <2>2. DOMAIN t = 1..(Len(todo) - 1) /\ Len(todo) \in Nat
    BY <1>2, <2>1, TodoFacts
  <2>3. Rest(t, 1)
    BY <1>2, <2>1, Rests
  <2>4. \A i \in DOMAIN t : i # 0
    BY <2>2
  <2> QED BY <2>1, <2>3, <2>4
<1>5. Owned(m)
  BY <1>3 DEF OrderInv, MessagesInv, MessageEffects
<1>6. ASSUME m.kind \in Logged
      PROVE  /\ Telling(t) = {}
             /\ \A n \in Node, a, b \in LoggedRows :
                  jobRows[a] = mail[n] /\ jobRows[b] = m => a < b
  <2>1. 1 \in Telling(todo)
    BY <1>3, <1>6 DEF Telling
  <2>2. \A i \in Telling(t) : i + 1 \in Telling(todo) /\ i \in DOMAIN t /\ i \in Int
    BY <1>4, RestEntries
  <2>3. \A i \in Telling(t) : i + 1 = 1
    BY <2>1, <2>2 DEF OrderInv, LogOrder, ToldInOrder
  <2>4. Telling(t) = {}
    BY <1>4, <2>2, <2>3
  <2>5. \A n \in Node, a, b \in LoggedRows :
          jobRows[a] = mail[n] /\ jobRows[b] = todo[1].what => a < b
    BY <2>1 DEF OrderInv, LogOrder, ToldInOrder
  <2> QED BY <1>3, <2>4, <2>5
<1> QED BY <1>1, <1>2, <1>4, <1>5, <1>6, OrderAdds

LEMMA OrderMrAdd ==
  ASSUME TypeOK, OrderInv, Forward, MrAdd
  PROVE  OrderInv'
<1>1. PICK m \in Message : m = [kind |-> mr.pc, job |-> mr.id] /\ AddCall("mr", m)
  BY DEF MrAdd, TypeOK, MrTypeOK, Message, Kinds
<1>2. m.kind \notin Logged /\ mr.pc # "off" /\ mr'.pc # "off"
  BY <1>1 DEF MrAdd, Logged
<1>3. todo' = todo /\ UNCHANGED <<jobRows, stage>>
  BY DEF MrAdd, MrUnchanged, pigVars, dbVars
<1>4. PICK t : t = todo /\ Rest(t, 0)
  BY Rests
<1> QED BY <1>1, <1>2, <1>3, <1>4, OrderAdds

LEMMA OrderInsert ==
  ASSUME TypeOK, OrderInv, LogInv, Forward, DoInsertJob
  PROVE  OrderInv'
<1>1. PICK m \in Message : m = Head(todo).what /\ jobRows' = Append(jobRows, m) /\ todo' = Tail(todo)
  BY HeadEffect DEF DoInsertJob, TypeOK
<1>2. Doing("insertJob") /\ UNCHANGED <<mail, mr, stage>>
  BY DEF DoInsertJob, queueVars, pigVars
<1>3. todo[1].do = "insertJob" /\ todo[1].what = m /\ 1 \in DOMAIN todo
  BY <1>1, <1>2, TodoFacts
<1>4. PICK t : t = Tail(todo) /\ Rest(t, 1) /\ \A i \in DOMAIN t : i # 0
  <2>1. PICK t : t = Tail(todo)
    OBVIOUS
  <2>2. DOMAIN t = 1..(Len(todo) - 1) /\ Len(todo) \in Nat
    BY <1>2, <2>1, TodoFacts
  <2>3. Rest(t, 1)
    BY <1>2, <2>1, Rests
  <2>4. \A i \in DOMAIN t : i # 0
    BY <2>2
  <2> QED BY <2>1, <2>3, <2>4
<1>5. PICK after, new : after = jobRows' /\ new = Len(jobRows) + 1
  OBVIOUS
<1>6. /\ DOMAIN after = DOMAIN jobRows \union {new} /\ new \in Nat /\ after[new] = m
      /\ \A a \in DOMAIN jobRows : after[a] = jobRows[a] /\ a \in Nat /\ a < new /\ a # new
  BY <1>1, <1>5 DEF TypeOK, TablesTypeOK
<1>7. Node' = Node /\ \A n \in Node : mail'[n] = mail[n]
  BY <1>2 DEF Node
<1>8. Owned(m)
  BY <1>3 DEF OrderInv, MessagesInv, MessageEffects
<1>9. m.kind \in Logged => 1 \in Storing(todo)
  BY <1>3 DEF Storing
<1>10. PICK logged : logged = LoggedRows' /\ logged = {a \in DOMAIN after : after[a].kind \in Logged}
  BY <1>5 DEF LoggedRows
<1>11. \A a \in logged : \/ a \in LoggedRows /\ after[a] = jobRows[a] /\ a < new /\ a # new
                         \/ a = new /\ m.kind \in Logged
  BY <1>6, <1>10 DEF LoggedRows
<1>12. m.kind \in Logged => /\ Storing(t) = {} /\ Happened(m)
                            /\ \A a \in LoggedRows : jobRows[a] # m
  <2> SUFFICES ASSUME m.kind \in Logged PROVE /\ Storing(t) = {} /\ Happened(m)
                                              /\ \A a \in LoggedRows : jobRows[a] # m
    OBVIOUS
  <2>1. \A i \in Storing(t) : i + 1 \in Storing(todo) /\ i \in DOMAIN t /\ i \in Int
    BY <1>4, RestEntries
  <2>2. \A i \in Storing(t) : i + 1 = 1
    BY <1>9, <2>1 DEF OrderInv, LogOrder, StoredOnce
  <2>3. Storing(t) = {}
    BY <1>4, <2>1, <2>2
  <2> QED BY <1>3, <1>9, <2>3 DEF OrderInv, LogOrder, StoredOnce
<1>17. /\ \A a \in LoggedRows : Happened(jobRows[a]) /\ Owned(jobRows[a])
       /\ \A i, k \in Storing(t) : i = k
       /\ \A i \in Storing(t), a \in LoggedRows : t[i].what # jobRows[a]
       /\ \A i \in Storing(t) : Happened(t[i].what)'
       /\ \A i, k \in Telling(t) : i = k
  BY <1>4, StoringKept
<1>13. StoredOnce'
  <2>1. \A a, b \in logged : after[a] = after[b] => a = b
    BY <1>6, <1>11, <1>12 DEF OrderInv, LogOrder, StoredOnce
  <2>2. ASSUME NEW a \in logged PROVE Happened(after[a])'
    <3>1. PICK k : k = after[a]
      OBVIOUS
    <3>2. Owned(k) /\ Happened(k)
      BY <1>6, <1>8, <1>11, <1>12, <1>17, <3>1
    <3> QED BY <3>1, <3>2, HappenedStays
  <2>3. \A i \in Storing(t), a \in logged : t[i].what # after[a]
    BY <1>11, <1>12, <1>17
  <2> QED BY <1>1, <1>4, <1>5, <1>10, <1>17, <2>1, <2>2, <2>3 DEF StoredOnce
<1>14. \A n \in Node, a \in logged :
         after[a] = mail[n] => a \in LoggedRows /\ after[a] = jobRows[a] /\ a < new
  <2> SUFFICES ASSUME NEW n \in Node, m.kind \in Logged, mail[n] = m PROVE FALSE
    BY <1>6, <1>11
  <2>1. PICK a \in DOMAIN jobRows : jobRows[a] = m
    BY DEF LogInv, Kind, Rows
  <2>2. a \in LoggedRows
    BY <2>1 DEF LoggedRows
  <2> QED BY <1>12, <2>1, <2>2
<1>15. ToldInOrder'
  <2>1. \A n, k \in Node, a, b \in logged :
          n < k /\ after[a] = mail[n] /\ after[b] = mail[k] => a < b
    BY <1>6, <1>11, <1>14 DEF OrderInv, LogOrder, ToldInOrder
  <2>2. ASSUME NEW i \in Telling(t), NEW n \in Node, NEW a \in logged, NEW b \in logged,
               after[a] = mail[n], after[b] = t[i].what
        PROVE  a < b
    <3>1. a \in LoggedRows /\ a < new /\ jobRows[a] = mail[n]
      BY <1>6, <1>11, <1>14, <2>2
    <3>2. i + 1 \in Telling(todo) /\ t[i] = todo[i + 1]
      BY <1>4, RestEntries
    <3>3. CASE b = new
      BY <3>1, <3>3
    <3>4. CASE b \in LoggedRows /\ after[b] = jobRows[b]
      BY <2>2, <3>1, <3>2, <3>4 DEF OrderInv, LogOrder, ToldInOrder
    <3> QED BY <1>11, <3>3, <3>4
  <2>3. todo' = t /\ jobRows' = after /\ mail' = mail /\ Node' = Node /\ LoggedRows' = logged
    BY <1>1, <1>2, <1>4, <1>5, <1>7, <1>10
  <2> QED BY ONLY <1>17, <2>1, <2>2, <2>3 DEF ToldInOrder
<1>16. MessagesInv'
  <2>1. \A i \in DOMAIN t : t[i].do \in MessageEffects => Owned(t[i].what)
    BY <1>4 DEF OrderInv, MessagesInv, Rest
  <2>2. \A a \in DOMAIN after : Owned(after[a])
    BY <1>6, <1>8 DEF OrderInv, MessagesInv
  <2> QED BY <1>1, <1>2, <1>4, <1>5, <1>7, <2>1, <2>2 DEF OrderInv, MessagesInv, Owned, FeedMessages
<1> QED BY <1>13, <1>15, <1>16 DEF OrderInv, LogOrder

\* A callback begins; its operation is neither stored nor told yet.
LEMMA OrderStarts ==
  ASSUME OrderInv, Forward, NEW body, Callback(body), NEW m, OneOperation(body, m),
         ~Happened(m), Happened(m)'
  PROVE  OrderInv'
<1>1. todo' = body /\ UNCHANGED <<mail, jobRows, mr>>
  BY DEF Callback, queueVars, dbVars
<1>2. Node' = Node /\ LoggedRows' = LoggedRows
  BY <1>1 DEF Node, LoggedRows
<1>3. /\ \A a, b \in LoggedRows : jobRows[a] = jobRows[b] => a = b
      /\ \A a \in LoggedRows : Happened(jobRows[a])
      /\ \A n, k \in Node, a, b \in LoggedRows :
           n < k /\ jobRows[a] = mail[n] /\ jobRows[b] = mail[k] => a < b
  BY DEF OrderInv, LogOrder, StoredOnce, ToldInOrder
<1>4. \A a \in LoggedRows : jobRows[a] # m
  BY <1>3
<1>5. \A i \in Storing(body) \union Telling(body) : body[i].what = m
  BY DEF OneOperation
<1>6. \A a \in LoggedRows : Happened(jobRows[a])'
  BY <1>1, <1>3, OwnEntries, HappenedStays DEF OrderInv
<1>7. \A i \in Storing(body) : Happened(body[i].what)'
  <2> SUFFICES ASSUME NEW i \in Storing(body) PROVE Happened(body[i].what)'
    OBVIOUS
  <2>1. body[i].what = m
    BY <1>5
  <2> QED BY <2>1
<1>8. StoredOnce'
  BY <1>1, <1>2, <1>3, <1>4, <1>5, <1>6, <1>7 DEF OneOperation, StoredOnce
<1>9. ToldInOrder'
  BY <1>1, <1>2, <1>3, <1>4, <1>5 DEF OneOperation, ToldInOrder
<1>10. MessagesInv'
  BY <1>1, <1>2 DEF OrderInv, MessagesInv, OneOperation, Owned, FeedMessages, Forward
<1> QED BY <1>8, <1>9, <1>10 DEF OrderInv, LogOrder

\* A callback begins that has no operation.
LEMMA OrderIdles ==
  ASSUME OrderInv, Forward, NEW body, Callback(body), NoOperation(body),
         \A i \in DOMAIN body : body[i].do \in MessageEffects => Owned(body[i].what)
  PROVE  OrderInv'
<1>1. todo' = body /\ UNCHANGED <<mail, jobRows, mr>>
  BY DEF Callback, queueVars, dbVars
<1>2. Node' = Node /\ LoggedRows' = LoggedRows
  BY <1>1 DEF Node, LoggedRows
<1>3. \A a \in LoggedRows : Happened(jobRows[a])'
  BY <1>1, OwnEntries, HappenedStays DEF OrderInv, LogOrder, StoredOnce
<1>4. StoredOnce'
  BY <1>1, <1>2, <1>3 DEF OrderInv, LogOrder, NoOperation, StoredOnce
<1>5. ToldInOrder'
  BY <1>1, <1>2 DEF OrderInv, LogOrder, NoOperation, ToldInOrder
<1>6. MessagesInv'
  BY <1>1, <1>2 DEF OrderInv, MessagesInv, Owned, FeedMessages, Forward
<1> QED BY <1>4, <1>5, <1>6 DEF OrderInv, LogOrder

LEMMA OrderPig ==
  ASSUME TypeOK, OrderInv, Pig
  PROVE  OrderInv'
<1>0. Forward /\ jobs \in [Jobs -> {"waiting", "submitted", "started", "ok", "failed"}]
  BY PigForward DEF TypeOK, PigTypeOK
<1>1. CASE PlanReady
  <2>1. PICK m : m = [kind |-> "launch", job |-> 0]
    OBVIOUS
  <2>2. ~Happened(m) /\ Happened(m)'
    BY <1>1, <2>1 DEF PlanReady, Happened
  <2> QED BY <1>0, <1>1, <2>1, <2>2, PlanIsOne, OrderStarts DEF PlanReady
<1>2. CASE LaunchStarted
  <2>1. PICK m : m = [kind |-> "start", job |-> 0]
    OBVIOUS
  <2>2. ~Happened(m) /\ Happened(m)'
    BY <1>2, <2>1 DEF LaunchStarted, Happened
  <2> QED BY <1>0, <1>2, <2>1, <2>2, RunIsOne, OrderStarts DEF LaunchStarted
<1>3. CASE OutputCompleted
  <2>1. PICK m : m = [kind |-> "outputcomplete", job |-> 0]
    OBVIOUS
  <2>2. ~Happened(m) /\ Happened(m)'
    BY <1>3, <2>1 DEF OutputCompleted, Happened
  <2> QED BY <1>0, <1>3, <2>1, <2>2, RunIsOne, OrderStarts DEF OutputCompleted
<1>4. CASE LaunchCompleted
  <2>1. PICK n \in 0..NJobs : n = Cardinality(Succeeded)
    BY SucceededBound
  <2>2. PICK m : m = [kind |-> "complete", job |-> n]
    OBVIOUS
  <2>3. ~Happened(m) /\ Happened(m)'
    BY <1>4, <2>2 DEF LaunchCompleted, Happened
  <2>4. Callback(LaunchCompletedNotification(n))
    BY <1>4, <2>1 DEF LaunchCompleted
  <2> QED BY <1>0, <2>2, <2>3, <2>4, LaunchIsOne, OrderStarts
<1>5. ASSUME NEW j \in Jobs, JobsSubmitted(j) PROVE OrderInv'
  <2>1. PICK m : m = [kind |-> "jobsubmit", job |-> j]
    OBVIOUS
  <2>2. jobs[j] = "waiting" /\ jobs'[j] = "submitted"
    BY <1>0, <1>5 DEF JobsSubmitted, Jobs
  <2>3. ~Happened(m) /\ Happened(m)'
    BY <2>1, <2>2 DEF Happened
  <2> QED BY <1>0, <1>5, <2>1, <2>3, JobIsOne, OrderStarts DEF JobsSubmitted
<1>6. ASSUME NEW j \in Jobs, JobStarted(j) PROVE OrderInv'
  <2>1. PICK m : m = [kind |-> "jobstart", job |-> j]
    OBVIOUS
  <2>2. jobs[j] = "submitted" /\ jobs'[j] = "started"
    BY <1>0, <1>6 DEF JobStarted
  <2>3. ~Happened(m) /\ Happened(m)'
    BY <2>1, <2>2 DEF Happened
  <2> QED BY <1>0, <1>6, <2>1, <2>3, JobIsOne, OrderStarts DEF JobStarted
<1>7. ASSUME NEW j \in Jobs, JobFinished(j) PROVE OrderInv'
  <2>1. PICK m : m = [kind |-> "jobfinish", job |-> j]
    OBVIOUS
  <2>2. jobs[j] = "started" /\ jobs'[j] = "ok"
    BY <1>0, <1>7 DEF JobFinished
  <2>3. ~Happened(m) /\ Happened(m)'
    BY <2>1, <2>2 DEF Happened, Ended
  <2> QED BY <1>0, <1>7, <2>1, <2>3, JobIsOne, OrderStarts DEF JobFinished
<1>8. ASSUME NEW j \in Jobs, JobFailed(j) PROVE OrderInv'
  <2>1. PICK m : m = [kind |-> "jobfail", job |-> j]
    OBVIOUS
  <2>2. jobs[j] = "started" /\ jobs'[j] = "failed"
    BY <1>0, <1>8 DEF JobFailed
  <2>3. ~Happened(m) /\ Happened(m)'
    BY <2>1, <2>2 DEF Happened, Ended
  <2> QED BY <1>0, <1>8, <2>1, <2>3, JobIsOne, OrderStarts DEF JobFailed
<1>9. ASSUME NEW n \in 0..(NJobs + MaxProgress), NEW message, NEW body,
             body \in {<<>>, ProgressUpdatedNotification(n), ReportFailure(message)}, Callback(body)
      PROVE  OrderInv'
  <2>1. /\ NoOperation(body)
        /\ \A i \in DOMAIN body : body[i].do \in MessageEffects => Owned(body[i].what)
    BY <1>9, NoOperations
  <2> QED BY <1>0, <1>9, <2>1, OrderIdles
<1>10. 0 \in 0..(NJobs + MaxProgress)
  BY JobsAssumption
<1>11. CASE ProgressUpdated
  <2>1. progress + 1 \in 0..(NJobs + MaxProgress)
    BY <1>11, JobsAssumption DEF ProgressUpdated, TypeOK, PigTypeOK
  <2> QED BY <1>9, <1>11, <2>1 DEF ProgressUpdated
<1>12. ASSUME NEW j \in Jobs, JobFinishedThrows(j) PROVE OrderInv'
  BY <1>9, <1>10, <1>12 DEF JobFinishedThrows
<1>13. CASE PigAborts \/ RunReturns
  BY <1>9, <1>10, <1>13 DEF PigAborts, RunReturns
<1>14. ASSUME NEW message, RunReturnsFailed(message) PROVE OrderInv'
  BY <1>9, <1>10, <1>14 DEF RunReturnsFailed
<1> QED BY <1>1, <1>2, <1>3, <1>4, <1>5, <1>6, <1>7, <1>8, <1>11, <1>12, <1>13, <1>14 DEF Pig

\* Steps that leave the callback where it is, or end one of its effects that is
\* neither a row nor a message, or all of it.
LEMMA OrderRests ==
  ASSUME TypeOK, OrderInv, Forward, UNCHANGED <<mail, jobRows>>,
         \/ todo' = todo \/ todo' = <<>>
         \/ \E what : Doing(what) /\ todo' = Tail(todo),
         mr'.pc = "off" => mr.pc = "off",
         stage' = "connect" => stage = "connect" /\ (mr.pc = "off" => mr'.pc = "off")
  PROVE  OrderInv'
<1>1. \E t, d : Rest(t, d) /\ todo' = t
  BY Rests
<1> QED BY <1>1, OrderKept

LEMMA OrderQuiet ==
  ASSUME TypeOK, OrderInv, Forward, [Next]_vars,
         ~Pig, ~DoAddMessage, ~DoInsertJob, ~MrAdd
  PROVE  OrderInv'
<1> USE DEF queueVars, pigVars, mainVars, dbVars, MrUnchanged, SenderUnchanged
<1>0. ASSUME UNCHANGED <<mail, jobRows, mr, stage>>,
             \/ todo' = todo \/ todo' = <<>>
             \/ \E what : Doing(what) /\ todo' = Tail(todo)
      PROVE  OrderInv'
  BY <1>0, OrderRests
<1>1. CASE Connect
  <2>1. mr.pc = "off"
    BY <1>1 DEF Connect, OrderInv, MessagesInv
  <2>2. UNCHANGED <<mail, jobRows>> /\ todo' = todo /\ stage' # "connect"
    BY <1>1 DEF Connect
  <2> QED BY <2>1, <2>2, OrderRests
<1>2. CASE DbFails
  BY <1>2, OrderRests DEF DbFails
<1>3. CASE DoThrow \/ WriteExplainFails
  BY <1>0, <1>3 DEF DoThrow, WriteExplainFails
<1>4. CASE ConnectFails \/ MainAddStep
  BY <1>0, <1>4 DEF ConnectFails, MainAddStep, AddStep, AddLast, AddLink, AddReadSize, AddWriteSize
<1>5. CASE \/ DoResetProgress \/ DoSetCurrentJob \/ DoInsertMRPlan \/ DoInsertCounter
           \/ DoInsertFail \/ DoWriteExplain \/ DoExit
  BY <1>0, <1>5 DEF DoResetProgress, DoSetCurrentJob, DoInsertMRPlan, DoInsertCounter,
     DoInsertFail, DoWriteExplain, DoExit
<1>6. CASE MrTimer
  <2>1. UNCHANGED <<mail, jobRows, stage, todo>>
    BY <1>6 DEF MrTimer, MrTick, MrFetch, MrDies, MrTest, MrAddStep, AddStep, AddLast, AddLink,
       AddReadSize, AddWriteSize
  <2>2. mr'.pc = "off" => mr.pc = "off"
    BY <1>6 DEF MrTimer, MrTick, MrFetch, MrDies, MrTest, MrAddStep, At, TypeOK, MrTypeOK
  <2>3. mr.pc = "off" => mr'.pc = "off"
    BY <1>6 DEF MrTimer, MrTick, MrFetch, MrDies, MrTest, MrAddStep
  <2> QED BY <2>1, <2>2, <2>3, OrderRests
<1>7. CASE SenderTimer
  <2>1. UNCHANGED <<mail, jobRows, mr, todo, stage>>
    BY <1>7 DEF SenderTimer, SenderNotEmpty, SenderPeekNull, SenderPeek, SenderPoll, SenderPollStep,
       SenderWrite, SenderWriteFails, SenderClose, PollCall, PollStep, PollFirst, PollLast,
       PollReadSize, PollWriteSize, PollReturn
  <2> QED BY <1>0, <2>1
<1>8. CASE Environment
  BY <1>0, <1>8 DEF Environment, LinkBreaks, Kill, JvmEnds, JobAdvances
<1>9. CASE UNCHANGED vars
  BY <1>0, <1>9 DEF vars
<1> QED BY <1>1, <1>2, <1>3, <1>4, <1>5, <1>6, <1>7, <1>8, <1>9 DEF Next, Main

LEMMA OrderStep == TypeOK /\ LogInv /\ OrderInv /\ [Next]_vars => OrderInv'
<1> SUFFICES ASSUME TypeOK, LogInv, OrderInv, [Next]_vars PROVE OrderInv'
  OBVIOUS
<1>1. Forward
  BY NextForward
<1>2. CASE Pig
  BY <1>2, OrderPig
<1>3. CASE DoAddMessage
  BY <1>1, <1>3, OrderAddMessage
<1>4. CASE DoInsertJob
  BY <1>1, <1>4, OrderInsert
<1>5. CASE MrAdd
  BY <1>1, <1>5, OrderMrAdd
<1> QED BY <1>1, <1>2, <1>3, <1>4, <1>5, OrderQuiet

LEMMA InitOrder == Init => OrderInv
<1> SUFFICES ASSUME Init PROVE OrderInv
  OBVIOUS
<1>1. mail = <<>> /\ todo = <<>> /\ jobRows = <<>> /\ mr.pc = "off"
  BY DEF Init, QueueInit
<1>2. Node = {} /\ LoggedRows = {} /\ Storing(todo) = {} /\ Telling(todo) = {}
  BY <1>1 DEF Node, LoggedRows, Storing, Telling
<1>3. MessagesInv
  BY <1>1, <1>2 DEF MessagesInv
<1>4. StoredOnce /\ ToldInOrder
  BY <1>2 DEF StoredOnce, ToldInOrder
<1> QED BY <1>3, <1>4 DEF OrderInv, LogOrder

LEMMA OrderInvariant == Spec => []OrderInv
<1>1. TypeOK /\ LogInv /\ OrderInv /\ [Next]_vars => OrderInv'
  BY OrderStep
<1>2. ReportInv => LogInv
  BY DEF ReportInv
<1> QED BY <1>1, <1>2, InitOrder, ReportInvariant, TypeCorrect, PTL DEF Spec

\* In every mode, table job has each operation of a run once, and the messages
\* of operations are in the queue in the order of their rows, whatever fails:
\* a callback of ProgressNotification is made once, its insert precedes its
\* addMessage, and both are over when the next callback begins.
THEOREM OperationsInOrder == Spec => []LogOrder
<1>1. OrderInv => LogOrder
  BY DEF OrderInv
<1> QED BY <1>1, OrderInvariant, PTL

-----------------------------------------------------------------------------
(* A local run implements the feed of ProgressFeed.                        *)

Shown == [i \in DOMAIN wire |-> mail[wire[i]]]

LEMMA ShownFacts ==
  ASSUME TypeOK
  PROVE  /\ Shown \in Seq(Message) /\ Len(Shown) = Len(wire) /\ DOMAIN Shown = DOMAIN wire
         /\ DOMAIN wire = 1..Len(wire) /\ Len(wire) \in Nat
         /\ \A i \in DOMAIN wire : Shown[i] = mail[wire[i]] /\ wire[i] \in Node
<1>1. /\ wire \in Seq(Nat) /\ mail \in Seq(Message)
      /\ \A i \in DOMAIN wire : wire[i] \in Node
  BY DEF TypeOK, SenderTypeOK, QueueTypeOK, ListTypeOK
<1>2. \A i \in DOMAIN wire : mail[wire[i]] \in Message
  BY <1>1 DEF Node
<1>3. DOMAIN wire = 1..Len(wire) /\ Len(wire) \in Nat
  BY <1>1
<1> QED BY <1>1, <1>2, <1>3 DEF Shown

\* What has been shown does not change: a node keeps its message.
LEMMA ShownStays ==
  ASSUME TypeOK, wire' = wire,
         mail' = mail \/ \E p : \E m \in Message : AddCall(p, m)
  PROVE  Shown' = Shown
<1>1. \A n \in Node : mail'[n] = mail[n]
  BY MailGrows
<1>2. \A i \in DOMAIN wire : mail'[wire[i]] = mail[wire[i]]
  BY <1>1, ShownFacts
<1> QED BY <1>2 DEF Shown

LEMMA ShownGrows ==
  ASSUME TypeOK, NEW n \in Node, wire' = Append(wire, n), mail' = mail
  PROVE  Shown' = Append(Shown, mail[n])
<1>1. /\ wire \in Seq(Nat) /\ n \in Nat /\ mail[n] \in Message
  BY DEF TypeOK, SenderTypeOK, QueueTypeOK, ListTypeOK, Node
<1>2. PICK w, k : w = Append(wire, n) /\ k = Len(wire) + 1
  OBVIOUS
<1>3. /\ w \in Seq(Nat) /\ Len(w) = k /\ DOMAIN w = 1..k /\ k \in Nat /\ w[k] = n
      /\ \A i \in 1..k : i # k => i \in DOMAIN wire /\ w[i] = wire[i]
  BY <1>1, <1>2
<1>4. PICK s, a : s = [i \in 1..k |-> mail[w[i]]] /\ a = Append(Shown, mail[n])
  OBVIOUS
<1>5. /\ a \in Seq(Message) /\ Len(a) = k /\ a[k] = mail[n]
      /\ \A i \in 1..k : i # k => a[i] = Shown[i]
  BY <1>1, <1>2, <1>4, ShownFacts
<1>6. \A i \in 1..k : s[i] = a[i]
  BY <1>3, <1>4, <1>5, ShownFacts
<1>7. s \in Seq(Message) /\ Len(s) = k
  <2>1. \A i \in 1..k : w[i] \in Node
    BY <1>3, ShownFacts
  <2>2. \A q \in Node : mail[q] \in Message
    BY DEF TypeOK, QueueTypeOK, ListTypeOK, Node
  <2>3. \A i \in 1..k : mail[w[i]] \in Message
    BY <2>1, <2>2
  <2> QED BY <1>3, <1>4, <2>3
<1>8. s = a
  BY <1>3, <1>5, <1>6, <1>7, SeqEqual
<1>9. Shown' = s
  BY <1>2, <1>3, <1>4 DEF Shown
<1> QED BY <1>4, <1>8, <1>9

LEMMA FeedStores ==
  ASSUME TypeOK, OrderInv, DoInsertJob
  PROVE  Feed!Next
<1>1. PICK m \in Message : m = Head(todo).what /\ jobRows' = Append(jobRows, m)
  BY HeadEffect DEF DoInsertJob, TypeOK
<1>2. Doing("insertJob") /\ wire' = wire /\ mail' = mail
  BY DEF DoInsertJob, senderVars, queueVars
<1>3. todo[1].do = "insertJob" /\ todo[1].what = m /\ 1 \in DOMAIN todo
  BY <1>1, <1>2, TodoFacts
<1>4. m \in FeedMessages
  BY <1>3 DEF OrderInv, MessagesInv, MessageEffects, Owned
<1>5. Shown' = Shown
  BY <1>2, ShownStays
<1>6. Feed!Store(m)
  BY <1>1, <1>5 DEF Feed!Store, Shown
<1> QED BY <1>4, <1>6 DEF Feed!Next, FeedMessages

\* client.write of a local run shows the message that was peeked at.
LEMMA FeedShows ==
  ASSUME TypeOK, LocalInv, LogInv, OrderInv, SenderWrite, link = "up"
  PROVE  Feed!Next
<1>1. PICK n : n = poller.node
  OBVIOUS
<1>2. /\ sender.pc = "polling" /\ poller.pc = "done" /\ wire' = Append(wire, n)
      /\ mail' = mail /\ jobRows' = jobRows
  BY <1>1 DEF SenderWrite, SenderAt, PollReturn, dbVars
<1>3. n \in Node /\ n = sender.root
  BY <1>1, <1>2 DEF TypeOK, QueueTypeOK, PollerTypeOK, LocalInv, HeadPolled
<1>4. PICK m : m = mail[n]
  OBVIOUS
<1>5. m \in FeedMessages
  BY <1>3, <1>4 DEF LocalInv, OneProducer, OrderInv, MessagesInv, Owned
<1>6. Shown' = Append(Shown, m)
  BY <1>2, <1>3, <1>4, ShownGrows
<1>7. \A i \in DOMAIN Shown : Shown[i].kind # "success"
  BY <1>2, ShownFacts DEF LocalInv, SuccessHeldBack, Kind
<1>8. m.kind = "success" => \E i \in DOMAIN Shown : Shown[i].kind = "complete"
  <2> SUFFICES ASSUME m.kind = "success" PROVE \E i \in DOMAIN Shown : Shown[i].kind = "complete"
    OBVIOUS
  <2>1. Reported("complete")
    BY <1>2, <1>3, <1>4 DEF LocalInv, SuccessHeldBack, CompletedIsReported, Kind
  <2> QED BY <2>1, ShownFacts DEF Reported, Sent, Kind
<1>9. m.kind \in Logged => \E a \in DOMAIN jobRows : jobRows[a] = m
  BY <1>3, <1>4 DEF LogInv, Rows, Kind
<1>10. ASSUME m.kind \in Logged, NEW i \in DOMAIN Shown, Shown[i].kind \in Logged
       PROVE  Feed!Position(Shown[i]) < Feed!Position(m)
  <2>1. PICK k : k = wire[i] /\ k \in Node /\ Shown[i] = mail[k] /\ i \in DOMAIN wire
    BY ShownFacts
  <2>2. k < n
    BY <1>1, <1>2, <2>1 DEF LocalInv, Upwards
  <2>3. \E a \in DOMAIN jobRows : jobRows[a] = Shown[i]
    BY <1>10, <2>1 DEF LogInv, Rows, Kind
  <2>4. PICK a, b : a = Feed!Position(Shown[i]) /\ b = Feed!Position(m)
    OBVIOUS
  <2>5. a \in DOMAIN jobRows /\ jobRows[a] = Shown[i] /\ b \in DOMAIN jobRows /\ jobRows[b] = m
    BY <1>9, <1>10, <2>3, <2>4 DEF Feed!Position
  <2>6. a \in LoggedRows /\ b \in LoggedRows
    BY <1>10, <2>5 DEF LoggedRows
  <2>7. a < b
    BY <1>3, <1>4, <2>1, <2>2, <2>5, <2>6 DEF OrderInv, LogOrder, ToldInOrder
  <2> QED BY <2>4, <2>7
<1>11. Feed!Show(m)
  BY <1>2, <1>6, <1>7, <1>8, <1>9, <1>10 DEF Feed!Show, Feed!Closed, Shown
<1> QED BY <1>5, <1>11 DEF Feed!Next, FeedMessages

LEMMA FeedStutters ==
  ASSUME TypeOK, [Next]_vars, ~DoInsertJob, ~(SenderWrite /\ link = "up")
  PROVE  jobRows' = jobRows /\ Shown' = Shown
<1> USE DEF dbVars, senderVars, queueVars, MrUnchanged, SenderUnchanged
<1>1. CASE Pig
  <2>1. jobRows' = jobRows /\ wire' = wire /\ mail' = mail
    BY <1>1 DEF Pig, PlanReady, LaunchStarted, ProgressUpdated, JobsSubmitted, JobStarted,
       JobFinished, JobFinishedThrows, JobFailed, OutputCompleted, LaunchCompleted, PigAborts,
       RunReturns, RunReturnsFailed, Callback
  <2> QED BY <2>1, ShownStays
<1>2. CASE DoAddMessage
  <2>1. PICK m \in Message : AddCall("main", m)
    BY <1>2, HeadEffect DEF DoAddMessage, TypeOK
  <2>2. jobRows' = jobRows /\ wire' = wire
    BY <1>2 DEF DoAddMessage
  <2> QED BY <2>1, <2>2, ShownStays
<1>3. CASE Main /\ ~DoAddMessage
  <2>1. jobRows' = jobRows /\ wire' = wire /\ mail' = mail
    BY <1>3 DEF Main, Connect, ConnectFails, DoResetProgress, DoSetCurrentJob, MainAddStep,
       AddStep, AddLast, AddLink, AddReadSize, AddWriteSize, DoInsertMRPlan, DoInsertCounter,
       DoInsertFail, DbFails, DoThrow, DoWriteExplain, WriteExplainFails, DoExit
  <2> QED BY <2>1, ShownStays
<1>4. CASE MrAdd
  <2>1. PICK m \in Message : AddCall("mr", m)
    BY <1>4 DEF MrAdd, TypeOK, MrTypeOK, Message, Kinds
  <2>2. jobRows' = jobRows /\ wire' = wire
    BY <1>4 DEF MrAdd
  <2> QED BY <2>1, <2>2, ShownStays
<1>5. CASE MrTimer /\ ~MrAdd
  <2>1. jobRows' = jobRows /\ wire' = wire /\ mail' = mail
    BY <1>5 DEF MrTimer, MrTick, MrFetch, MrDies, MrTest, MrAddStep, AddStep, AddLast, AddLink,
       AddReadSize, AddWriteSize
  <2> QED BY <2>1, ShownStays
<1>6. CASE SenderTimer
  <2>1. jobRows' = jobRows /\ wire' = wire /\ mail' = mail
    BY <1>6 DEF SenderTimer, SenderNotEmpty, SenderPeekNull, SenderPeek, SenderPoll,
       SenderPollStep, SenderWrite, SenderWriteFails, SenderClose, PollCall, PollStep, PollFirst,
       PollLast, PollReadSize, PollWriteSize, PollReturn
  <2> QED BY <2>1, ShownStays
<1>7. CASE Environment
  <2>1. jobRows' = jobRows /\ wire' = wire /\ mail' = mail
    BY <1>7 DEF Environment, LinkBreaks, Kill, JvmEnds, JobAdvances
  <2> QED BY <2>1, ShownStays
<1>8. CASE UNCHANGED vars
  <2>1. jobRows' = jobRows /\ wire' = wire /\ mail' = mail
    BY <1>8 DEF vars
  <2> QED BY <2>1, ShownStays
<1> QED BY <1>1, <1>2, <1>3, <1>4, <1>5, <1>6, <1>7, <1>8 DEF Next

LEMMA FeedStep ==
  TypeOK /\ LocalInv /\ LogInv /\ OrderInv /\ [Next]_vars =>
    [Feed!Next]_<<jobRows, [i \in DOMAIN wire |-> mail[wire[i]]]>>
<1> SUFFICES ASSUME TypeOK, LocalInv, LogInv, OrderInv, [Next]_vars
             PROVE  Feed!Next \/ (jobRows' = jobRows /\ Shown' = Shown)
  BY DEF Shown
<1> QED BY FeedStores, FeedShows, FeedStutters

LEMMA FeedInit == Init => Feed!Init
<1> SUFFICES ASSUME Init PROVE Feed!Init
  OBVIOUS
<1>1. jobRows = <<>> /\ wire = <<>>
  BY DEF Init
<1>2. [i \in DOMAIN wire |-> mail[wire[i]]] = <<>>
  BY <1>1
<1> QED BY <1>1, <1>2 DEF Feed!Init

\* A local run implements the feed a run owes: the page is shown an operation
\* after table job has it and in the order of the table, a success after
\* "complete", and nothing after a success; a step of the run stores one row, or
\* shows one message, or neither.
THEOREM FeedIsImplemented ==
  ASSUME Mode = "local"
  PROVE  Spec => FeedImplemented
<1>1. TypeOK /\ LocalInv /\ LogInv /\ OrderInv /\ [Next]_vars =>
        [Feed!Next]_<<jobRows, [i \in DOMAIN wire |-> mail[wire[i]]]>>
  BY FeedStep
<1>2. ReportInv => LogInv
  BY DEF ReportInv
<1>3. Spec => []LocalInv
  BY LocalInvariant
<1> QED BY <1>1, <1>2, <1>3, FeedInit, OrderInvariant, ReportInvariant, TypeCorrect, PTL
        DEF Spec, FeedImplemented, Feed!Spec
=============================================================================
