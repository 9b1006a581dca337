---------------------------- MODULE PigRunProofs ----------------------------
(***************************************************************************)
(* For every number of jobs, every overlap of the calls on the queue and   *)
(* every set of faults: a run keeps its types; and in local mode the       *)
(* page's feed is in order, and a success ends it.  LocalInv is inductive  *)
(* relative to TypeOK.                                                     *)
(***************************************************************************)
EXTENDS LocalFeed, SequenceTheorems, FiniteSetTheorems, TLAPS

-----------------------------------------------------------------------------
(* The queue keeps its types, whatever overlaps.                           *)

LEMMA NodeIsInterval ==
  ASSUME ListTypeOK
  PROVE  /\ Node = 1..Len(mail) /\ Node = 1..Len(next) /\ Node \subseteq Nat
         /\ Len(mail) \in Nat /\ first \in Nat /\ last \in Nat
BY DEF ListTypeOK, Node, Null

LEMMA AddCallType ==
  ASSUME QueueTypeOK, NEW p \in Producers, NEW m \in Message, AddCall(p, m)
  PROVE  QueueTypeOK' /\ Node \subseteq Node'
<1>1. Len(mail') = Len(mail) + 1 /\ mail' \in Seq(Message)
  BY DEF QueueTypeOK, ListTypeOK, AddCall
<1>2. Node' = 1..(Len(mail) + 1) /\ Node = 1..Len(mail) /\ Len(mail) \in Nat
      /\ first \in Nat /\ last \in Nat
  BY <1>1, NodeIsInterval DEF QueueTypeOK, Node
<1>3. Node \subseteq Node' /\ Len(mail) + 1 \in Node' /\ Node' = Node \union {Len(mail) + 1}
  BY <1>2
<1>4. ListTypeOK'
  <2>1. /\ next' \in Seq(Nat) /\ Len(next') = Len(mail')
        /\ \A n \in Node : next'[n] = next[n]
        /\ next'[Len(mail) + 1] = Null
    <3>1. next \in Seq(Nat) /\ Len(next) = Len(mail) /\ next' = Append(next, Null) /\ Null \in Nat
      BY DEF QueueTypeOK, ListTypeOK, AddCall, Null
    <3> QED
      BY <1>1, <1>2, <3>1, AppendProperties
  <2>2. \A n \in Node' : next'[n] \in Node' \union {Null}
    <3>1. \A n \in Node : next'[n] \in Node \union {Null}
      BY <2>1 DEF QueueTypeOK, ListTypeOK
    <3> QED
      BY <1>3, <2>1, <3>1
  <2>3. first' \in Node' \union {Null} /\ last' \in Node' \union {Null} /\ size' \in Int
    BY <1>3 DEF QueueTypeOK, ListTypeOK, AddCall
  <2>4. overlaps' \in 0..MaxOverlap
    BY OverlapAssumption DEF QueueTypeOK, ListTypeOK, AddCall, Begin
  <2> QED
    BY <1>1, <2>1, <2>2, <2>3, <2>4 DEF ListTypeOK
<1>5. AdderTypeOK'
  <2>1. adder' \in [Producers -> AdderState]
    BY <1>2 DEF QueueTypeOK, AdderTypeOK, AddCall, AdderState, Null
  <2>2. ASSUME NEW q \in Producers, Adding(q)'
        PROVE  adder'[q].node \in Node' /\ adder'[q].seen \in Node' \union {Null}
    BY <1>3, <2>2 DEF QueueTypeOK, ListTypeOK, AdderTypeOK, AddCall, Adding
  <2> QED
    BY <2>1, <2>2 DEF AdderTypeOK
<1>6. PollerTypeOK'
  BY <1>3 DEF QueueTypeOK, PollerTypeOK, AddCall
<1> QED
  BY <1>3, <1>4, <1>5, <1>6 DEF QueueTypeOK

(* What a step inside a call does to the record of the call. *)

LEMMA AdderMoves ==
  ASSUME NEW s \in AdderState, NEW pc \in {"last", "link", "size"}, NEW c \in Int
  PROVE  /\ At(s, pc) \in AdderState /\ At(s, pc).pc = pc
         /\ At(s, pc).node = s.node /\ At(s, pc).seen = s.seen
         /\ WithCount(s, c) \in AdderState /\ WithCount(s, c).pc = "count"
         /\ WithCount(s, c).node = s.node /\ WithCount(s, c).seen = s.seen
         /\ NotAdding \in AdderState /\ NotAdding.pc = "idle"
<1>1. At(s, pc) \in AdderState /\ At(s, pc).pc = pc
      /\ At(s, pc).node = s.node /\ At(s, pc).seen = s.seen
  BY DEF At, AdderState
<1>2. WithCount(s, c) \in AdderState /\ WithCount(s, c).pc = "count"
      /\ WithCount(s, c).node = s.node /\ WithCount(s, c).seen = s.seen
  BY DEF WithCount, AdderState
<1>3. NotAdding \in AdderState /\ NotAdding.pc = "idle"
  BY DEF NotAdding, Null, AdderState
<1> QED
  BY <1>1, <1>2, <1>3

LEMMA PollerMoves ==
  ASSUME NEW s \in PollerState, NEW pc \in {"last", "size", "done"}, NEW c \in Int
  PROVE  /\ At(s, pc) \in PollerState /\ At(s, pc).pc = pc
         /\ At(s, pc).node = s.node /\ At(s, pc).rest = s.rest
         /\ WithCount(s, c) \in PollerState /\ WithCount(s, c).pc = "count"
         /\ WithCount(s, c).node = s.node /\ WithCount(s, c).rest = s.rest
         /\ NotPolling \in PollerState /\ NotPolling.pc = "idle"
<1>1. At(s, pc) \in PollerState /\ At(s, pc).pc = pc
      /\ At(s, pc).node = s.node /\ At(s, pc).rest = s.rest
  BY DEF At, PollerState
<1>2. WithCount(s, c) \in PollerState /\ WithCount(s, c).pc = "count"
      /\ WithCount(s, c).node = s.node /\ WithCount(s, c).rest = s.rest
  BY DEF WithCount, PollerState
<1>3. NotPolling \in PollerState /\ NotPolling.pc = "idle"
  BY DEF NotPolling, Null, PollerState
<1> QED
  BY <1>1, <1>2, <1>3

LEMMA AddStepType ==
  ASSUME QueueTypeOK, NEW p \in Producers, AddStep(p)
  PROVE  QueueTypeOK' /\ mail' = mail
<1>1. mail' = mail /\ Node' = Node /\ poller' = poller /\ overlaps' = overlaps
  BY DEF AddStep, AddLast, AddLink, AddReadSize, AddWriteSize, Node
<1>2. PollerTypeOK'
  BY <1>1 DEF QueueTypeOK, PollerTypeOK
<1>3. AdderTypeOK'
  <2>1. adder[p] \in AdderState /\ size \in Int
    BY DEF QueueTypeOK, AdderTypeOK, ListTypeOK
  <2>2. PICK a \in AdderState :
          /\ adder' = [adder EXCEPT ![p] = a]
          /\ a.pc # "idle" => adder[p].pc # "idle" /\ a.node = adder[p].node
                                                  /\ a.seen = adder[p].seen
    <3>1. CASE AddLast(p)
      <4> DEFINE a == At(adder[p], "link")
      <4>1. a \in AdderState /\ a.pc = "link" /\ a.node = adder[p].node /\ a.seen = adder[p].seen
        BY <2>1, AdderMoves
      <4>2. adder' = [adder EXCEPT ![p] = a] /\ adder[p].pc # "idle"
        BY <3>1 DEF AddLast
      <4> HIDE DEF a
      <4> QED
        BY <4>1, <4>2
    <3>2. CASE AddLink(p)
      <4> DEFINE a == At(adder[p], "size")
      <4>1. a \in AdderState /\ a.pc = "size" /\ a.node = adder[p].node /\ a.seen = adder[p].seen
        BY <2>1, AdderMoves
      <4>2. adder' = [adder EXCEPT ![p] = a] /\ adder[p].pc # "idle"
        BY <3>2 DEF AddLink
      <4> HIDE DEF a
      <4> QED
        BY <4>1, <4>2
    <3>3. CASE AddReadSize(p)
      <4> DEFINE a == WithCount(adder[p], size)
      <4>1. a \in AdderState /\ a.pc = "count" /\ a.node = adder[p].node /\ a.seen = adder[p].seen
        BY <2>1, AdderMoves
      <4>2. adder' = [adder EXCEPT ![p] = a] /\ adder[p].pc # "idle"
        BY <3>3 DEF AddReadSize
      <4> HIDE DEF a
      <4> QED
        BY <4>1, <4>2
    <3>4. CASE AddWriteSize(p)
      <4> DEFINE a == NotAdding
      <4>1. a \in AdderState /\ a.pc = "idle"
        BY <2>1, AdderMoves
      <4>2. adder' = [adder EXCEPT ![p] = a] /\ adder[p].pc # "idle"
        BY <3>4 DEF AddWriteSize
      <4> HIDE DEF a
      <4> QED
        BY <4>1, <4>2
    <3> QED
      BY <3>1, <3>2, <3>3, <3>4 DEF AddStep
  <2>3. \A q \in Producers : adder'[q] = IF q = p THEN a ELSE adder[q]
    BY <2>2 DEF QueueTypeOK, AdderTypeOK
  <2> QED
    BY <1>1, <2>2, <2>3 DEF QueueTypeOK, AdderTypeOK, Adding
<1>4. Adding(p) => adder[p].node \in Node /\ adder[p].seen \in Node \union {Null}
                   /\ adder[p].node \in Nat /\ adder[p].seen \in Nat /\ adder[p].count \in Int
  BY DEF QueueTypeOK, AdderTypeOK, AdderState
<1>5. Adding(p)
  BY DEF Adding, AddStep, AddLast, AddLink, AddReadSize, AddWriteSize
<1>6. ListTypeOK'
  <2>1. CASE AddLast(p)
    BY <1>1, <1>4, <1>5, <2>1 DEF QueueTypeOK, ListTypeOK, AddLast
  <2>2. CASE AddLink(p)
    <3>1. ListTypeOK /\ mail' = mail /\ last' = last /\ size' = size
      BY <2>2 DEF QueueTypeOK, AddLink
    <3>2. CASE adder[p].seen = Null
      BY <1>1, <1>4, <1>5, <2>2, <3>1, <3>2 DEF ListTypeOK, AddLink
    <3>3. CASE adder[p].seen # Null
      <4>1. adder[p].seen \in 1..Len(next) /\ first' = first
            /\ next' = [next EXCEPT ![adder[p].seen] = adder[p].node]
        BY <1>4, <1>5, <2>2, <3>1, <3>3, NodeIsInterval DEF AddLink
      <4>2. next' \in Seq(Nat) /\ Len(next') = Len(next)
            /\ \A n \in Node : next'[n] = IF n = adder[p].seen THEN adder[p].node ELSE next[n]
        BY <1>4, <1>5, <3>1, <4>1, ExceptSeq, NodeIsInterval DEF ListTypeOK
      <4> QED
        BY <1>1, <1>4, <1>5, <3>1, <4>1, <4>2 DEF ListTypeOK
    <3> QED
      BY <3>2, <3>3
  <2>3. CASE AddReadSize(p) \/ AddWriteSize(p)
    <3>1. size' \in Int
      BY <1>4, <1>5, <2>3 DEF AddReadSize, AddWriteSize, QueueTypeOK, ListTypeOK
    <3> QED
      BY <1>1, <2>3, <3>1 DEF AddReadSize, AddWriteSize, QueueTypeOK, ListTypeOK
  <2> QED
    BY <2>1, <2>2, <2>3 DEF AddStep
<1> QED
  BY <1>1, <1>2, <1>3, <1>6 DEF QueueTypeOK

LEMMA PollType ==
  ASSUME QueueTypeOK, PollCall \/ PollStep \/ PollReturn
  PROVE  QueueTypeOK' /\ mail' = mail
<1>1. mail' = mail /\ Node' = Node /\ adder' = adder
  BY DEF PollStep, PollCall, PollFirst, PollLast, PollReadSize, PollWriteSize, PollReturn, Node
<1>2. AdderTypeOK'
  BY <1>1 DEF QueueTypeOK, AdderTypeOK, Adding
<1>3. CASE PollCall
  <2>1. first \in Node /\ first \in Nat /\ next[first] \in Node \union {Null} /\ next[first] \in Nat
    BY <1>3, NodeIsInterval DEF QueueTypeOK, ListTypeOK, PollCall, Null
  <2>2. PollerTypeOK'
    BY <1>1, <1>3, <2>1 DEF PollerTypeOK, PollerState, PollCall
  <2>3. next' \in Seq(Nat) /\ Len(next') = Len(next)
        /\ \A n \in Node : next'[n] \in Node \union {Null}
    BY <1>3, NodeIsInterval DEF QueueTypeOK, ListTypeOK, PollCall, Null
  <2>4. overlaps' \in 0..MaxOverlap
    BY <1>3, OverlapAssumption DEF QueueTypeOK, ListTypeOK, PollCall, Begin
  <2> QED
    BY <1>1, <1>2, <1>3, <2>2, <2>3, <2>4 DEF QueueTypeOK, ListTypeOK, PollCall
<1>4. CASE PollStep \/ PollReturn
  <2>1. PollerTypeOK'
    BY <1>1, <1>4, PollerMoves DEF QueueTypeOK, ListTypeOK, PollerTypeOK, PollStep, PollFirst,
           PollLast, PollReadSize, PollWriteSize, PollReturn
  <2>2. first' \in Node \union {Null} /\ last' \in Node \union {Null} /\ next' = next
        /\ overlaps' = overlaps
    BY <1>4 DEF QueueTypeOK, ListTypeOK, PollerTypeOK, PollStep, PollFirst, PollLast,
           PollReadSize, PollWriteSize, PollReturn
  <2>3. poller.count \in Int
    BY DEF QueueTypeOK, PollerTypeOK, PollerState
  <2>4. size' \in Int
    BY <1>4, <2>3 DEF QueueTypeOK, ListTypeOK, PollStep, PollFirst, PollLast,
           PollReadSize, PollWriteSize, PollReturn
  <2> QED
    BY <1>1, <1>2, <2>1, <2>2, <2>4 DEF QueueTypeOK, ListTypeOK
<1> QED
  BY <1>3, <1>4

-----------------------------------------------------------------------------
(* The callback bodies are sequences of effects.                           *)

LEMMA MessageEffectTypes ==
  \A kind \in Kinds, n \in Nat :
    InsertJob(kind, n) \in Effects /\ AddMessage(kind, n) \in Effects
BY DEF InsertJob, AddMessage, Effect, Effects, MessageEffects, Message

LEMMA JobEffectTypes ==
  \A j \in Jobs : /\ Effect("setCurrentJob", "none", j) \in Effects
                  /\ Effect("insertCounter", "none", j) \in Effects
BY DEF Effect, Effects, JobEffects

LEMMA PlainEffectTypes == \A what \in PlainEffects : Do(what) \in Effects
BY DEF Do, Effect, Effects, PlainEffects

LEMMA PlanBodyType ==
  InitialPlanNotification \in Seq(Effects)
<1>1. InsertJob("launch", 0) \in Effects /\ AddMessage("launch", 0) \in Effects
  BY MessageEffectTypes DEF Kinds
<1>2. /\ Do("insertMRPlan") \in Effects /\ Do("writeExplain") \in Effects
      /\ Do("exit") \in Effects
  BY PlainEffectTypes DEF PlainEffects
<1> QED
  BY <1>1, <1>2 DEF InitialPlanNotification

LEMMA JobBodyTypes ==
  ASSUME NEW j \in Jobs
  PROVE  /\ JobsSubmittedNotification(j) \in Seq(Effects)
         /\ JobStartedNotification(j) \in Seq(Effects)
         /\ JobFinishedNotification(j) \in Seq(Effects)
         /\ JobFailedNotification(j) \in Seq(Effects)
<1>1. j \in Nat
  BY JobsAssumption DEF Jobs
<1>2. /\ InsertJob("jobsubmit", j) \in Effects /\ AddMessage("jobsubmit", j) \in Effects
      /\ InsertJob("jobstart", j) \in Effects /\ AddMessage("jobstart", j) \in Effects
      /\ InsertJob("jobfinish", j) \in Effects /\ AddMessage("jobfinish", j) \in Effects
      /\ InsertJob("jobfail", j) \in Effects /\ AddMessage("jobfail", j) \in Effects
  BY <1>1, MessageEffectTypes DEF Kinds
<1>3. /\ Effect("setCurrentJob", "none", j) \in Effects /\ Effect("insertCounter", "none", j) \in Effects
      /\ Do("resetProgress") \in Effects
  BY JobEffectTypes, PlainEffectTypes DEF PlainEffects
<1>4. JobStartedNotification(j) \in Seq(Effects)
  <2>1. << Do("resetProgress") >> \in Seq(Effects) /\ <<>> \in Seq(Effects)
    BY <1>3
  <2>2. << Effect("setCurrentJob", "none", j), InsertJob("jobstart", j),
           AddMessage("jobstart", j) >> \in Seq(Effects)
    BY <1>2, <1>3
  <2> QED
    BY <2>1, <2>2, ConcatProperties DEF JobStartedNotification
<1> QED
  BY <1>2, <1>3, <1>4 DEF JobsSubmittedNotification, JobFinishedNotification,
                          JobFailedNotification

LEMMA RunBodyTypes ==
  ASSUME NEW n \in Nat, NEW message
  PROVE  /\ LaunchStartedNotification \in Seq(Effects)
         /\ ProgressUpdatedNotification(n) \in Seq(Effects)
         /\ OutputCompletedNotification \in Seq(Effects)
         /\ LaunchCompletedNotification(n) \in Seq(Effects)
         /\ ReportFailure(message) \in Seq(Effects)
<1>1. /\ InsertJob("start", 0) \in Effects /\ AddMessage("start", 0) \in Effects
      /\ AddMessage("progress", n) \in Effects
      /\ InsertJob("outputcomplete", 0) \in Effects /\ AddMessage("outputcomplete", 0) \in Effects
      /\ InsertJob("complete", n) \in Effects /\ AddMessage("complete", n) \in Effects
      /\ AddMessage("success", 0) \in Effects /\ InsertJob("duration", 0) \in Effects
      /\ AddMessage("fail", 0) \in Effects
  BY MessageEffectTypes DEF Kinds
<1>2. Do("throw") \in Effects /\ Do("insertFail") \in Effects
  BY PlainEffectTypes DEF PlainEffects
<1> QED
  BY <1>1, <1>2 DEF LaunchStartedNotification, ProgressUpdatedNotification,
     OutputCompletedNotification, LaunchCompletedNotification, ReportFailure

LEMMA SucceededCount == Cardinality(Succeeded) \in Nat
<1>1. IsFiniteSet(Jobs)
  BY JobsAssumption, FS_Interval DEF Jobs
<1>2. IsFiniteSet(Succeeded)
  BY <1>1, FS_Subset DEF Succeeded
<1> QED
  BY <1>2, FS_CardinalityType

-----------------------------------------------------------------------------
(* A callback, and each step of the main thread, keeps the types.          *)

\* the parts of TypeOK that only the queue's nodes tie to the queue
LEMMA SenderTypeFrame ==
  ASSUME SenderTypeOK, UNCHANGED senderVars, Node \subseteq Node'
  PROVE  SenderTypeOK'
BY DEF SenderTypeOK, senderVars

LEMMA QueueFrame ==
  ASSUME QueueTypeOK, UNCHANGED queueVars
  PROVE  QueueTypeOK' /\ Node' = Node
<1>1. /\ first' = first /\ last' = last /\ next' = next /\ size' = size /\ mail' = mail
      /\ adder' = adder /\ poller' = poller /\ overlaps' = overlaps
  BY DEF queueVars
<1>2. Node' = Node
  BY <1>1 DEF Node
<1>3. ListTypeOK' /\ AdderTypeOK' /\ PollerTypeOK'
  BY <1>1, <1>2 DEF QueueTypeOK, ListTypeOK, AdderTypeOK, PollerTypeOK, Adding
<1> QED
  BY <1>2, <1>3 DEF QueueTypeOK

LEMMA CallbackType ==
  ASSUME TypeOK, NEW body \in Seq(Effects), Callback(body), PigTypeOK'
  PROVE  TypeOK'
<1>1. QueueTypeOK' /\ Node' = Node
  BY QueueFrame DEF TypeOK, Callback
<1>2. SenderTypeOK'
  BY <1>1, SenderTypeFrame DEF TypeOK, Callback
<1>3. ListenerTypeOK' /\ MrTypeOK' /\ TablesTypeOK'
  BY DEF TypeOK, ListenerTypeOK, MrTypeOK, TablesTypeOK, Callback, dbVars
<1> QED
  BY <1>1, <1>2, <1>3 DEF TypeOK

LEMMA PigType ==
  ASSUME TypeOK, Pig
  PROVE  TypeOK'
<1> USE DEF PigTypeOK
<1>1. PigTypeOK /\ \A j \in Jobs : j \in Nat
  BY JobsAssumption DEF TypeOK, Jobs
<1>2. progress \in Nat /\ MaxProgress \in Nat
  BY <1>1, JobsAssumption
<1>3. <<>> \in Seq(Effects)
  OBVIOUS
<1>4. CASE PlanReady
  <2>1. PigTypeOK'
    BY <1>1, <1>4 DEF PlanReady, Callback
  <2> QED
    BY <1>4, <2>1, CallbackType, PlanBodyType DEF PlanReady
<1>5. CASE LaunchStarted
  <2>1. PigTypeOK'
    BY <1>1, <1>5 DEF LaunchStarted, Callback
  <2> QED
    BY <1>5, <2>1, CallbackType, RunBodyTypes DEF LaunchStarted
<1>6. CASE ProgressUpdated
  <2>1. PigTypeOK'
    BY <1>1, <1>2, <1>6 DEF ProgressUpdated, Callback
  <2>2. ProgressUpdatedNotification(progress + 1) \in Seq(Effects)
    BY <1>2, RunBodyTypes
  <2> QED
    BY <1>6, <2>1, <2>2, CallbackType DEF ProgressUpdated
<1>7. ASSUME NEW j \in Jobs, JobsSubmitted(j)
      PROVE  TypeOK'
  <2>1. PigTypeOK'
    BY <1>1, <1>7 DEF JobsSubmitted, Callback
  <2> QED
    BY <1>1, <1>7, <2>1, CallbackType, JobBodyTypes DEF JobsSubmitted
<1>8. ASSUME NEW j \in Jobs, JobStarted(j)
      PROVE  TypeOK'
  <2>1. PigTypeOK'
    BY <1>1, <1>8 DEF JobStarted, Callback
  <2> QED
    BY <1>8, <2>1, CallbackType, JobBodyTypes DEF JobStarted
<1>9. ASSUME NEW j \in Jobs, JobFinished(j)
      PROVE  TypeOK'
  <2>1. PigTypeOK'
    BY <1>1, <1>9 DEF JobFinished, Callback
  <2> QED
    BY <1>9, <2>1, CallbackType, JobBodyTypes DEF JobFinished
<1>10. ASSUME NEW j \in Jobs, JobFinishedThrows(j)
       PROVE  TypeOK'
  <2>1. PigTypeOK'
    BY <1>1, <1>10 DEF JobFinishedThrows, Callback
  <2> QED
    BY <1>3, <1>10, <2>1, CallbackType DEF JobFinishedThrows
<1>11. ASSUME NEW j \in Jobs, JobFailed(j)
       PROVE  TypeOK'
  <2>1. PigTypeOK'
    BY <1>1, <1>11 DEF JobFailed, Callback
  <2> QED
    BY <1>11, <2>1, CallbackType, JobBodyTypes DEF JobFailed
<1>12. CASE OutputCompleted
  <2>1. PigTypeOK'
    BY <1>1, <1>12 DEF OutputCompleted, Callback
  <2> QED
    BY <1>12, <2>1, CallbackType, RunBodyTypes DEF OutputCompleted
<1>13. CASE LaunchCompleted
  <2>1. PigTypeOK'
    BY <1>1, <1>13 DEF LaunchCompleted, Callback
  <2>2. LaunchCompletedNotification(Cardinality(Succeeded)) \in Seq(Effects)
    BY SucceededCount, RunBodyTypes
  <2> QED
    BY <1>13, <2>1, <2>2, CallbackType DEF LaunchCompleted
<1>14. CASE PigAborts
  <2>1. PigTypeOK'
    BY <1>1, <1>14 DEF PigAborts, Callback
  <2> QED
    BY <1>3, <1>14, <2>1, CallbackType DEF PigAborts
<1>15. CASE RunReturns
  <2>1. PigTypeOK'
    BY <1>1, <1>15 DEF RunReturns, Callback
  <2> QED
    BY <1>3, <1>15, <2>1, CallbackType DEF RunReturns
<1>16. ASSUME NEW message \in {"text", "null"}, RunReturnsFailed(message)
       PROVE  TypeOK'
  <2>1. PigTypeOK'
    BY <1>1, <1>16 DEF RunReturnsFailed, Callback
  <2> QED
    BY <1>16, <2>1, CallbackType, RunBodyTypes DEF RunReturnsFailed
<1> QED
  BY <1>4, <1>5, <1>6, <1>7, <1>8, <1>9, <1>10, <1>11, <1>12, <1>13, <1>14, <1>15, <1>16 DEF Pig

\* the effect at the head of todo, and what is left
LEMMA HeadEffect ==
  ASSUME ListenerTypeOK, NEW what, Doing(what)
  PROVE  /\ Head(todo) \in Effects /\ Tail(todo) \in Seq(Effects)
         /\ what = "addMessage" \/ what = "insertJob" => Head(todo).what \in Message
         /\ what = "setCurrentJob" \/ what = "insertCounter" => Head(todo).what.job \in Jobs
<1>1. Head(todo) \in Effects /\ Tail(todo) \in Seq(Effects) /\ Head(todo).do = what
  BY HeadTailProperties DEF ListenerTypeOK, Doing
<1> QED
  BY <1>1 DEF Effects, MessageEffects, JobEffects, PlainEffects

\* a step of the main thread outside the queue and the sender
LEMMA MainFrame ==
  ASSUME TypeOK, UNCHANGED <<queueVars, senderVars, mr>>,
         PigTypeOK', ListenerTypeOK', TablesTypeOK'
  PROVE  TypeOK'
<1>1. QueueTypeOK' /\ Node' = Node
  BY QueueFrame DEF TypeOK
<1>2. SenderTypeOK'
  BY <1>1, SenderTypeFrame DEF TypeOK
<1>3. MrTypeOK'
  BY DEF TypeOK, MrTypeOK
<1> QED
  BY <1>1, <1>2, <1>3 DEF TypeOK

LEMMA ConnectType ==
  ASSUME TypeOK, Connect \/ ConnectFails
  PROVE  TypeOK'
<1>1. QueueTypeOK' /\ Node' = Node
  BY QueueFrame DEF TypeOK, Connect, ConnectFails
<1>2. PigTypeOK' /\ ListenerTypeOK' /\ TablesTypeOK'
  BY DEF TypeOK, PigTypeOK, ListenerTypeOK, TablesTypeOK, Connect, ConnectFails,
         pigVars, mainVars, dbVars
<1>3. CASE Connect
  <2>1. MrTypeOK'
    BY <1>3 DEF TypeOK, MrTypeOK, Connect, At
  <2>2. SenderTypeOK'
    BY <1>1, <1>3 DEF TypeOK, SenderTypeOK, Connect, At
  <2> QED
    BY <1>1, <1>2, <2>1, <2>2 DEF TypeOK
<1>4. CASE ConnectFails
  BY <1>1, <1>2, <1>4, MainFrame DEF ConnectFails, TypeOK, MrTypeOK
<1> QED
  BY <1>3, <1>4

LEMMA DoType ==
  ASSUME TypeOK,
         \/ DoResetProgress \/ DoSetCurrentJob \/ DoInsertJob \/ DoInsertMRPlan
         \/ DoInsertCounter \/ DoInsertFail \/ DbFails \/ DoThrow \/ DoWriteExplain
         \/ WriteExplainFails \/ DoExit
  PROVE  TypeOK'
<1> USE DEF TypeOK, pigVars, listenerVars, dbVars
<1>1. PigTypeOK /\ ListenerTypeOK /\ TablesTypeOK /\ Jobs = 1..NJobs
  BY DEF Jobs
<1>2. <<>> \in Seq(Effects)
  OBVIOUS
<1>3. CASE DoResetProgress
  <2>1. Tail(todo) \in Seq(Effects)
    BY <1>1, <1>3, HeadEffect DEF DoResetProgress
  <2>2. PigTypeOK' /\ TablesTypeOK'
    BY <1>1, <1>3 DEF DoResetProgress, PigTypeOK, TablesTypeOK
  <2>3. ListenerTypeOK'
    <3>1. mapDone' \in BOOLEAN /\ reduceDone' \in BOOLEAN /\ explained' \in BOOLEAN
      BY <1>1, <1>3 DEF DoResetProgress, ListenerTypeOK
    <3>2. mapProgress' \in 0..1 /\ reduceProgress' \in 0..2 /\ currentJobId' \in 0..NJobs
      BY <1>1, <1>3 DEF DoResetProgress, ListenerTypeOK
    <3> QED
      BY <1>3, <2>1, <3>1, <3>2 DEF DoResetProgress, ListenerTypeOK
  <2> QED
    BY <1>3, <2>2, <2>3, MainFrame DEF DoResetProgress
<1>4. CASE DoSetCurrentJob
  <2>1. Head(todo).what.job \in 0..NJobs /\ Tail(todo) \in Seq(Effects)
    BY <1>1, <1>4, HeadEffect, JobsAssumption DEF DoSetCurrentJob
  <2>2. PigTypeOK' /\ ListenerTypeOK' /\ TablesTypeOK'
    BY <1>1, <1>4, <2>1 DEF DoSetCurrentJob, PigTypeOK, ListenerTypeOK, TablesTypeOK
  <2> QED
    BY <1>4, <2>2, MainFrame DEF DoSetCurrentJob
<1>5. CASE DoInsertJob
  <2>1. Head(todo).what \in Message /\ Tail(todo) \in Seq(Effects)
    BY <1>1, <1>5, HeadEffect DEF DoInsertJob
  <2>2. jobRows' \in Seq(Message)
    BY <1>1, <1>5, <2>1, AppendProperties DEF DoInsertJob, TablesTypeOK
  <2>3. PigTypeOK' /\ ListenerTypeOK' /\ TablesTypeOK'
    BY <1>1, <1>5, <2>1, <2>2 DEF DoInsertJob, PigTypeOK, ListenerTypeOK, TablesTypeOK
  <2> QED
    BY <1>5, <2>3, MainFrame DEF DoInsertJob
<1>6. CASE DoInsertMRPlan
  <2>1. PigTypeOK' /\ ListenerTypeOK' /\ TablesTypeOK'
    BY <1>1, <1>6, HeadEffect DEF DoInsertMRPlan, PigTypeOK, ListenerTypeOK, TablesTypeOK
  <2> QED
    BY <1>6, <2>1, MainFrame DEF DoInsertMRPlan
<1>7. CASE DoInsertCounter
  <2>1. Head(todo).what.job \in Jobs /\ Tail(todo) \in Seq(Effects)
    BY <1>1, <1>7, HeadEffect DEF DoInsertCounter
  <2>2. counterRows' \in Seq(Jobs)
    BY <1>1, <1>7, <2>1, AppendProperties DEF DoInsertCounter, TablesTypeOK
  <2>3. PigTypeOK' /\ ListenerTypeOK' /\ TablesTypeOK'
    BY <1>1, <1>7, <2>1, <2>2 DEF DoInsertCounter, PigTypeOK, ListenerTypeOK, TablesTypeOK
  <2> QED
    BY <1>7, <2>3, MainFrame DEF DoInsertCounter
<1>8. CASE DoInsertFail
  <2>1. PigTypeOK' /\ ListenerTypeOK' /\ TablesTypeOK'
    BY <1>1, <1>8, HeadEffect DEF DoInsertFail, PigTypeOK, ListenerTypeOK, TablesTypeOK
  <2> QED
    BY <1>8, <2>1, MainFrame DEF DoInsertFail
<1>9. CASE DbFails
  <2>1. PigTypeOK' /\ ListenerTypeOK' /\ TablesTypeOK'
    BY <1>1, <1>2, <1>9 DEF DbFails, PigTypeOK, ListenerTypeOK, TablesTypeOK
  <2> QED
    BY <1>9, <2>1, MainFrame DEF DbFails
<1>10. CASE DoThrow
  <2>1. PigTypeOK' /\ ListenerTypeOK' /\ TablesTypeOK'
    BY <1>1, <1>2, <1>10 DEF DoThrow, PigTypeOK, ListenerTypeOK, TablesTypeOK
  <2> QED
    BY <1>10, <2>1, MainFrame DEF DoThrow
<1>11. CASE DoWriteExplain
  <2>1. PigTypeOK' /\ ListenerTypeOK' /\ TablesTypeOK'
    BY <1>1, <1>11, HeadEffect DEF DoWriteExplain, PigTypeOK, ListenerTypeOK, TablesTypeOK
  <2> QED
    BY <1>11, <2>1, MainFrame DEF DoWriteExplain
<1>12. CASE WriteExplainFails
  <2>1. PigTypeOK' /\ ListenerTypeOK' /\ TablesTypeOK'
    BY <1>1, <1>2, <1>12 DEF WriteExplainFails, PigTypeOK, ListenerTypeOK, TablesTypeOK
  <2> QED
    BY <1>12, <2>1, MainFrame DEF WriteExplainFails
<1>13. CASE DoExit
  <2>1. PigTypeOK' /\ ListenerTypeOK' /\ TablesTypeOK'
    BY <1>1, <1>13, HeadEffect DEF DoExit, PigTypeOK, ListenerTypeOK, TablesTypeOK
  <2> QED
    BY <1>13, <2>1, MainFrame DEF DoExit
<1> QED
  BY <1>3, <1>4, <1>5, <1>6, <1>7, <1>8, <1>9, <1>10, <1>11, <1>12, <1>13

\* a step inside the queue keeps what only its nodes tie to it
LEMMA QueueStepFrame ==
  ASSUME TypeOK, QueueTypeOK', Node \subseteq Node', UNCHANGED senderVars,
         PigTypeOK', ListenerTypeOK', MrTypeOK', TablesTypeOK'
  PROVE  TypeOK'
BY SenderTypeFrame DEF TypeOK

LEMMA MainQueueType ==
  ASSUME TypeOK, DoAddMessage \/ MainAddStep
  PROVE  TypeOK'
<1> USE DEF TypeOK, pigVars, mainVars, listenerVars, dbVars
<1>1. "main" \in Producers
  BY ProducersAssumption
<1>2. PigTypeOK' /\ MrTypeOK' /\ TablesTypeOK' /\ UNCHANGED senderVars
  BY DEF DoAddMessage, MainAddStep, PigTypeOK, MrTypeOK, TablesTypeOK
<1>3. CASE DoAddMessage
  <2>1. Head(todo).what \in Message /\ Tail(todo) \in Seq(Effects)
    BY <1>3, HeadEffect DEF DoAddMessage
  <2>2. QueueTypeOK' /\ Node \subseteq Node'
    BY <1>1, <1>3, <2>1, AddCallType DEF DoAddMessage
  <2>3. ListenerTypeOK'
    BY <1>3, <2>1 DEF DoAddMessage, ListenerTypeOK
  <2> QED
    BY <1>2, <2>2, <2>3, QueueStepFrame
<1>4. CASE MainAddStep
  <2>1. QueueTypeOK' /\ mail' = mail
    BY <1>1, <1>4, AddStepType DEF MainAddStep
  <2>2. Node \subseteq Node'
    BY <2>1 DEF Node
  <2>3. ListenerTypeOK'
    BY <1>4 DEF MainAddStep, ListenerTypeOK
  <2> QED
    BY <1>2, <2>1, <2>2, <2>3, QueueStepFrame
<1> QED
  BY <1>3, <1>4

LEMMA MrTimerType ==
  ASSUME TypeOK, MrTimer
  PROVE  TypeOK'
<1> USE DEF TypeOK, pigVars, dbVars, MrUnchanged
<1>1. "mr" \in Producers
  BY ProducersAssumption
<1>2. PigTypeOK' /\ TablesTypeOK' /\ UNCHANGED senderVars
  BY DEF MrTimer, MrTick, MrFetch, MrDies, MrTest, MrAdd, MrAddStep, PigTypeOK, TablesTypeOK
<1>3. MrTypeOK /\ ListenerTypeOK /\ PigTypeOK /\ Jobs = 1..NJobs /\ NJobs \in Nat
  BY JobsAssumption DEF Jobs
<1>4. ListenerTypeOK'
  <2>1. CASE MrFetch
    <3>1. prog[mr.id] \in 0..3
      BY <1>3, <2>1 DEF MrFetch, MrTypeOK, PigTypeOK
    <3>2. mapProgress' \in 0..1 /\ reduceProgress' \in 0..2
      BY <2>1, <3>1 DEF MrFetch
    <3> QED
      BY <1>3, <2>1, <3>2 DEF MrFetch, ListenerTypeOK
  <2>2. CASE MrTest
    BY <1>3, <2>2 DEF MrTest, MapsDone, ReducesDone, ListenerTypeOK
  <2>3. CASE MrTick \/ MrDies \/ MrAdd \/ MrAddStep
    BY <1>3, <2>3 DEF MrTick, MrDies, MrAdd, MrAddStep, ListenerTypeOK
  <2> QED
    BY <2>1, <2>2, <2>3 DEF MrTimer
<1>5. MrTypeOK'
  <2>1. CASE MrTick
    BY <1>3, <2>1 DEF MrTick, MrTypeOK, ListenerTypeOK
  <2>2. CASE MrFetch
    BY <1>3, <2>2 DEF MrFetch, MrTypeOK, At
  <2>3. CASE MrTest
    BY <1>3, <2>3 DEF MrTest, MrTypeOK, At
  <2>4. CASE MrDies \/ MrAdd
    BY <1>3, <2>4 DEF MrDies, MrAdd, MrTypeOK
  <2>5. CASE MrAddStep
    BY <1>3, <2>5 DEF MrAddStep, MrTypeOK
  <2> QED
    BY <2>1, <2>2, <2>3, <2>4, <2>5 DEF MrTimer
<1>6. QueueTypeOK' /\ Node \subseteq Node'
  <2>1. CASE MrTick \/ MrFetch \/ MrDies \/ MrTest
    BY <2>1, QueueFrame DEF MrTick, MrFetch, MrDies, MrTest
  <2>2. CASE MrAdd
    <3>1. mr.id \in Nat /\ mr.pc \in Kinds
      BY <1>3, <2>2 DEF MrAdd, MrTypeOK, Kinds
    <3>2. [kind |-> mr.pc, job |-> mr.id] \in Message
      BY <3>1 DEF Message
    <3> QED
      BY <1>1, <2>2, <3>2, AddCallType DEF MrAdd
  <2>3. CASE MrAddStep
    <3>1. QueueTypeOK' /\ mail' = mail
      BY <1>1, <2>3, AddStepType DEF MrAddStep
    <3> QED
      BY <3>1 DEF Node
  <2> QED
    BY <2>1, <2>2, <2>3 DEF MrTimer
<1> QED
  BY <1>2, <1>4, <1>5, <1>6, QueueStepFrame

LEMMA SenderTimerType ==
  ASSUME TypeOK, SenderTimer
  PROVE  TypeOK'
<1> USE DEF TypeOK, pigVars, mainVars, dbVars, SenderUnchanged
<1>1. ListenerTypeOK' /\ MrTypeOK' /\ PigTypeOK' /\ TablesTypeOK'
  BY DEF SenderTimer, SenderNotEmpty, SenderPeekNull, SenderPeek, SenderPoll, SenderPollStep,
         SenderWrite, SenderWriteFails, SenderClose, ListenerTypeOK, MrTypeOK, PigTypeOK,
         TablesTypeOK, OutputThrows
<1>2. QueueTypeOK' /\ mail' = mail
  <2>1. CASE SenderNotEmpty \/ SenderPeekNull \/ SenderPeek \/ SenderClose
    <3>1. UNCHANGED queueVars
      BY <2>1 DEF SenderNotEmpty, SenderPeekNull, SenderPeek, SenderClose
    <3> QED
      BY <3>1, QueueFrame DEF queueVars
  <2>2. CASE SenderPoll \/ SenderPollStep \/ SenderWrite \/ SenderWriteFails
    BY <2>2, PollType DEF SenderPoll, SenderPollStep, SenderWrite, SenderWriteFails
  <2> QED
    BY <2>1, <2>2 DEF SenderTimer
<1>3. Node' = Node /\ 0 \in Nat
  BY <1>2 DEF Node
<1>4. first \in Nat /\ first \in Node \union {Null}
  BY NodeIsInterval DEF QueueTypeOK, ListTypeOK
<1>5. SenderTypeOK
  OBVIOUS
<1>6. SenderTypeOK'
  <2>1. CASE SenderNotEmpty \/ SenderPeekNull
    BY <1>3, <1>5, <2>1 DEF SenderNotEmpty, SenderPeekNull, SenderTypeOK, Null
  <2>2. CASE SenderPeek
    BY <1>3, <1>4, <1>5, <2>2 DEF SenderPeek, SenderTypeOK, Null
  <2>3. CASE SenderPoll
    BY <1>3, <1>5, <2>3 DEF SenderPoll, SenderAt, SenderTypeOK, At
  <2>4. CASE SenderPollStep
    BY <1>3, <1>5, <2>4 DEF SenderPollStep, senderVars, SenderTypeOK
  <2>5. CASE SenderWrite
    <3>1. poller.node \in Node /\ poller.node \in Nat
      BY <2>5, NodeIsInterval DEF SenderWrite, PollReturn, QueueTypeOK, PollerTypeOK
    <3>2. wire' \in Seq(Nat) /\ \A i \in DOMAIN wire' : wire'[i] \in Node
      BY <1>5, <2>5, <3>1, AppendProperties DEF SenderWrite, SenderTypeOK
    <3>3. completed' \in BOOLEAN
      BY <1>5, <2>5 DEF SenderWrite, SenderTypeOK
    <3>4. /\ sender' \in [pc : {"off", "loop", "peek", "poll", "polling", "close", "dead"},
                          root : Nat]
          /\ sender'.root \in Node \union {Null}
          /\ sender'.pc \in {"poll", "polling", "close"} => sender'.root \in Node
      BY <1>5, <2>5 DEF SenderWrite, SenderAt, SenderTypeOK, At, Null
    <3> QED
      BY <1>3, <3>2, <3>3, <3>4 DEF SenderTypeOK
  <2>6. CASE SenderWriteFails
    BY <1>3, <1>5, <2>6 DEF SenderWriteFails, SenderTypeOK, Null
  <2>7. CASE SenderClose
    BY <1>3, <1>5, <2>7 DEF SenderClose, SenderTypeOK, Null
  <2> QED
    BY <2>1, <2>2, <2>3, <2>4, <2>5, <2>6, <2>7 DEF SenderTimer
<1> QED
  BY <1>1, <1>2, <1>6

LEMMA EnvironmentType ==
  ASSUME TypeOK, Environment
  PROVE  TypeOK'
<1> USE DEF TypeOK, pigVars, dbVars
<1>1. QueueTypeOK' /\ Node' = Node
  BY QueueFrame DEF Environment, LinkBreaks, Kill, JvmEnds, JobAdvances
<1>2. SenderTypeOK'
  BY <1>1, SenderTypeFrame DEF Environment, LinkBreaks, Kill, JvmEnds, JobAdvances
<1>3. ListenerTypeOK' /\ MrTypeOK' /\ TablesTypeOK'
  BY DEF Environment, LinkBreaks, Kill, JvmEnds, JobAdvances, mainVars, ListenerTypeOK,
         MrTypeOK, TablesTypeOK
<1>4. PigTypeOK'
  <2>1. CASE LinkBreaks \/ Kill \/ JvmEnds
    BY <2>1 DEF LinkBreaks, Kill, JvmEnds, PigTypeOK
  <2>2. ASSUME NEW j \in Jobs, JobAdvances(j)
        PROVE  PigTypeOK'
    <3>1. prog[j] \in 0..3 /\ prog[j] < 3
      BY <2>2 DEF JobAdvances, PigTypeOK
    <3>2. prog' \in [Jobs -> 0..3]
      BY <2>2, <3>1 DEF JobAdvances, PigTypeOK
    <3> QED
      BY <2>2, <3>2 DEF JobAdvances, PigTypeOK
  <2> QED
    BY <2>1, <2>2 DEF Environment
<1> QED
  BY <1>1, <1>2, <1>3, <1>4

-----------------------------------------------------------------------------
(* Type correctness, for every number of jobs, overlap and set of faults.  *)

LEMMA InitType == Init => TypeOK
<1> SUFFICES ASSUME Init PROVE TypeOK
  OBVIOUS
<1>1. QueueTypeOK /\ Node = {}
  <2>1. Node = {}
    BY DEF Init, QueueInit, Node
  <2>2. ListTypeOK
    BY <2>1, OverlapAssumption DEF Init, QueueInit, ListTypeOK, Null
  <2>3. AdderTypeOK /\ PollerTypeOK
    BY DEF Init, QueueInit, AdderTypeOK, PollerTypeOK, AdderState, PollerState, Adding,
           NotAdding, NotPolling, Null
  <2> QED
    BY <2>1, <2>2, <2>3 DEF QueueTypeOK
<1>2. PigTypeOK /\ MrTypeOK
  BY JobsAssumption DEF Init, PigTypeOK, MrTypeOK
<1>3. SenderTypeOK
  <2>1. sender \in [pc : {"off", "loop", "peek", "poll", "polling", "close", "dead"}, root : Nat]
        /\ sender.pc = "off" /\ sender.root = Null
    BY DEF Init, Null
  <2>2. wire \in Seq(Nat) /\ DOMAIN wire = {}
    BY DEF Init
  <2>3. completed \in BOOLEAN
    BY DEF Init
  <2> QED
    BY <2>1, <2>2, <2>3 DEF SenderTypeOK
<1>4. mapDone \in BOOLEAN /\ reduceDone \in BOOLEAN /\ explained \in BOOLEAN /\ planRow \in BOOLEAN
  BY DEF Init
<1>5. ListenerTypeOK
  BY <1>4, JobsAssumption DEF Init, ListenerTypeOK
<1>6. TablesTypeOK
  BY <1>4 DEF Init, TablesTypeOK
<1> QED
  BY <1>1, <1>2, <1>3, <1>5, <1>6 DEF TypeOK

LEMMA NextType == TypeOK /\ [Next]_vars => TypeOK'
<1> SUFFICES ASSUME TypeOK, [Next]_vars PROVE TypeOK'
  OBVIOUS
<1>1. CASE Main
  BY <1>1, ConnectType, DoType, MainQueueType DEF Main
<1>2. CASE UNCHANGED vars
  <2>1. PigTypeOK' /\ ListenerTypeOK' /\ TablesTypeOK'
    BY <1>2 DEF TypeOK, vars, PigTypeOK, ListenerTypeOK, TablesTypeOK, pigVars, mainVars, dbVars
  <2> QED
    BY <1>2, <2>1, MainFrame DEF vars
<1> QED
  BY <1>1, <1>2, PigType, MrTimerType, SenderTimerType, EnvironmentType DEF Next

\* Every variable of a run keeps its type, and every thread is at a point of
\* its program, whatever overlaps and fails.
THEOREM TypeCorrect == Spec => []TypeOK
BY InitType, NextType, PTL DEF Spec

-----------------------------------------------------------------------------
(* Local mode: LocalInv.                                                   *)

LEMMA Numbers ==
  ASSUME TypeOK
  PROVE  /\ Len(mail) \in Nat /\ Node = 1..Len(mail) /\ Len(next) = Len(mail)
         /\ first \in 0..Len(mail) /\ last \in 0..Len(mail)
         /\ next \in Seq(Nat) /\ \A n \in Node : next[n] \in 0..Len(mail)
         /\ main \in AdderState /\ main.node \in Nat /\ main.seen \in Nat
         /\ Adding("main") => main.node \in Node /\ main.seen \in 0..Len(mail)
         /\ poller \in PollerState /\ poller.node \in Nat /\ poller.rest \in Nat
         /\ poller.pc # "idle" => poller.node \in Node /\ poller.rest \in 0..Len(mail)
         /\ wire \in Seq(Nat) /\ DOMAIN wire = 1..Len(wire) /\ Len(wire) \in Nat
         /\ \A i \in DOMAIN wire : wire[i] \in Node /\ wire[i] \in Nat
         /\ adder = [p \in {"main", "mr"} |-> adder[p]]
<1> USE DEF TypeOK, QueueTypeOK
<1>1. /\ Len(mail) \in Nat /\ Node = 1..Len(mail) /\ Len(next) = Len(mail)
      /\ first \in 0..Len(mail) /\ last \in 0..Len(mail)
      /\ next \in Seq(Nat) /\ \A n \in Node : next[n] \in 0..Len(mail)
  BY NodeIsInterval DEF ListTypeOK, Null
<1>2. "main" \in Producers
  BY ProducersAssumption
<1>3. main \in AdderState /\ main.node \in Nat /\ main.seen \in Nat
  BY <1>2 DEF AdderTypeOK, AdderState, main
<1>4. Adding("main") => main.node \in Node /\ main.seen \in 0..Len(mail)
  BY <1>1, <1>2 DEF AdderTypeOK, main, Null
<1>5. poller \in PollerState /\ poller.node \in Nat /\ poller.rest \in Nat
  BY DEF PollerTypeOK, PollerState
<1>6. poller.pc # "idle" => poller.node \in Node /\ poller.rest \in 0..Len(mail)
  BY <1>1 DEF PollerTypeOK, Null
<1>7. wire \in Seq(Nat) /\ DOMAIN wire = 1..Len(wire) /\ Len(wire) \in Nat
      /\ \A i \in DOMAIN wire : wire[i] \in Node /\ wire[i] \in Nat
  BY <1>1 DEF SenderTypeOK
<1>8. adder = [p \in {"main", "mr"} |-> adder[p]]
  BY ProducersAssumption DEF AdderTypeOK
<1> QED
  BY <1>1, <1>3, <1>4, <1>5, <1>6, <1>7, <1>8

-----------------------------------------------------------------------------
(* Steps outside the queue and the sender.                                 *)

LEMMA LocalFrame ==
  ASSUME LocalInv, UNCHANGED <<queueVars, mr, senderVars>>,
         link' = link \/ link' = "down", stage' = "connect" => stage = "connect"
  PROVE  LocalInv'
<1> USE DEF LocalInv, queueVars, senderVars
<1>1. Node' = Node /\ main' = main /\ (Linking' <=> Linking) /\ Top' = Top
      /\ \A n : Kind(n)' = Kind(n)
  BY DEF Node, main, Linking, Top, Kind
<1>2. OneProducer' /\ SenderStarts' /\ FeedInOrder'
  BY DEF OneProducer, SenderStarts, FeedInOrder
<1>3. BelowTop' /\ Upwards' /\ EmptyListAdd' /\ HeadPolled'
  BY <1>1 DEF BelowTop, Upwards, EmptyListAdd, HeadPolled
<1>4. SuccessHeldBack' /\ SuccessEndsFeed'
  BY <1>1 DEF SuccessHeldBack, SuccessEndsFeed, CompletedIsReported, Reported, Sent
<1> QED
  BY <1>2, <1>3, <1>4

-----------------------------------------------------------------------------
(* add(), by the one producer.                                             *)

\* what an add leaves alone
LEMMA AddKeeps ==
  ASSUME LocalInv, TypeOK, UNCHANGED <<link, stage, mr, senderVars, poller>>,
         adder'["mr"] = adder["mr"], \A n \in Node : mail'[n] = mail[n]
  PROVE  OneProducer' /\ SenderStarts' /\ FeedInOrder' /\ SuccessHeldBack' /\ SuccessEndsFeed'
<1> USE DEF LocalInv, senderVars
<1>1. \A n \in Node : Kind(n)' = Kind(n)
  BY DEF Kind
<1>2. OneProducer' /\ SenderStarts' /\ FeedInOrder'
  BY DEF OneProducer, SenderStarts, FeedInOrder
<1>3. \A i \in DOMAIN wire : wire[i] \in Node
  BY Numbers
<1>4. Sent' = Sent /\ Sent \subseteq Node
  BY <1>3 DEF Sent
<1>5. Reported("complete")' <=> Reported("complete")
  BY <1>1, <1>4 DEF Reported
<1>6. sender.pc \in {"poll", "polling"} => sender.root \in Node
  BY DEF TypeOK, SenderTypeOK
<1>7. SuccessHeldBack'
  BY <1>1, <1>3, <1>5, <1>6 DEF SuccessHeldBack, CompletedIsReported
<1>8. SuccessEndsFeed'
  BY <1>1, <1>3, Numbers DEF SuccessEndsFeed
<1> QED
  BY <1>2, <1>7, <1>8

LEMMA AddCallLocal ==
  ASSUME LocalInv, TypeOK, NEW m, AddCall("main", m), UNCHANGED <<link, stage, mr, senderVars>>
  PROVE  LocalInv'
<1> USE DEF LocalInv, senderVars, AddCall
<1>1. /\ main.pc = "idle" /\ ~Linking /\ Top = Len(mail)
      /\ main'.pc = "last" /\ main'.node = Len(mail) + 1 /\ main'.seen = last
      /\ adder'["mr"] = adder["mr"]
  BY Numbers DEF main, Linking, Top, Adding
<1>2. /\ Len(mail') = Len(mail) + 1 /\ \A n \in Node : mail'[n] = mail[n]
      /\ Node' = Node \union {Len(mail) + 1} /\ Linking' /\ Top' = Len(mail)
      /\ \A n \in Node : next'[n] = next[n]
      /\ next'[Len(mail) + 1] = Null
  BY <1>1, Numbers, AppendProperties DEF Linking, Top, Node, TypeOK, QueueTypeOK, ListTypeOK, Null
<1>3. OneProducer' /\ SenderStarts' /\ FeedInOrder' /\ SuccessHeldBack' /\ SuccessEndsFeed'
  BY <1>1, <1>2, AddKeeps
<1>4. BelowTop'
  BY <1>1, <1>2, Numbers DEF BelowTop, Null
<1>5. Upwards'
  BY <1>1, <1>2, Numbers DEF Upwards
<1>6. EmptyListAdd'
  BY <1>1, <1>2 DEF EmptyListAdd, HeadPolled
<1>7. HeadPolled'
  BY DEF HeadPolled
<1> QED
  BY <1>3, <1>4, <1>5, <1>6, <1>7

LEMMA AddStepLocal ==
  ASSUME LocalInv, TypeOK, AddStep("main"), UNCHANGED <<link, stage, mr, senderVars>>
  PROVE  LocalInv'
<1> USE DEF LocalInv, senderVars
<1>1. /\ mail' = mail /\ poller' = poller /\ Node' = Node /\ adder'["mr"] = adder["mr"]
      /\ Adding("main")
  BY Numbers DEF AddStep, AddLast, AddLink, AddReadSize, AddWriteSize, Node, Adding
<1>2. OneProducer' /\ SenderStarts' /\ FeedInOrder' /\ SuccessHeldBack' /\ SuccessEndsFeed'
  BY <1>1, AddKeeps
<1>3. CASE AddLast("main")
  <2>1. /\ main.pc = "last" /\ main'.pc = "link" /\ main'.node = main.node
        /\ main'.seen = main.seen /\ last' = main.node /\ first' = first /\ next' = next
    BY <1>3, Numbers, AdderMoves DEF AddLast, main
  <2>2. Linking /\ Linking' /\ Top' = Top
    BY <1>1, <2>1 DEF Linking, Top
  <2>3. BelowTop' /\ Upwards'
    BY <1>1, <1>2, <2>1, <2>2 DEF BelowTop, Upwards
  <2>4. main.node # Null
    BY <1>1, Numbers DEF Null
  <2>5. EmptyListAdd' /\ HeadPolled'
    BY <1>1, <2>1, <2>2, <2>4 DEF EmptyListAdd, HeadPolled
  <2> QED
    BY <1>2, <2>3, <2>5
<1>4. CASE AddLink("main")
  <2>1. /\ main.pc = "link" /\ main'.pc = "size" /\ last' = last
        /\ main.node = Len(mail) /\ main.seen < Len(mail) /\ main.seen \in Nat
    BY <1>4, Numbers, AdderMoves DEF AddLink, main, BelowTop, Linking, Top
  <2>2. Linking /\ ~Linking' /\ Top = Len(mail) - 1 /\ Top' = Len(mail)
    BY <1>1, <2>1 DEF Linking, Top
  <2>3. CASE main.seen = Null
    <3>1. first' = Len(mail) /\ next' = next /\ first = Null /\ last = Len(mail)
      BY <1>4, <2>1, <2>2, <2>3 DEF AddLink, EmptyListAdd, main
    <3>2. BelowTop'
      BY <1>1, <2>2, <3>1, Numbers DEF BelowTop
    <3>3. Upwards'
      BY <1>1, <2>2, <3>1, Numbers DEF Upwards, BelowTop
    <3>4. EmptyListAdd'
      BY <1>1, <2>1, <2>2, <3>1, Numbers DEF EmptyListAdd, Null
    <3>5. poller.pc \notin {"first", "last"} /\ sender.pc # "poll"
      <4>1. sender.pc = "poll" => sender.root \in 1..Len(mail)
        BY Numbers DEF TypeOK, SenderTypeOK
      <4> QED
        BY <2>2, <2>3, <3>1, <4>1, Numbers DEF EmptyListAdd, HeadPolled, Null
    <3>6. HeadPolled'
      BY <1>1, <3>5, <2>1 DEF HeadPolled
    <3> QED
      BY <1>2, <3>2, <3>3, <3>4, <3>6
  <2>4. CASE main.seen # Null
    <3>1. /\ first' = first /\ Len(next') = Len(next) /\ main.seen \in Node
          /\ \A n \in Node : next'[n] = IF n = main.seen THEN Len(mail) ELSE next[n]
      BY <1>1, <1>4, <2>1, <2>4, Numbers, ExceptSeq DEF AddLink, main, Null
    <3>2. BelowTop'
      <4>1. first' <= Len(mail)
        BY <3>1, Numbers
      <4>2. \A n \in Node' : next'[n] <= Len(mail)
        <5>1. Len(mail) <= Len(mail) /\ \A n \in Node : next[n] <= Len(mail)
          BY Numbers
        <5> QED
          BY <1>1, <3>1, <5>1
      <4>3. /\ poller'.pc # "idle" => poller'.node <= Len(mail) /\ poller'.rest <= Len(mail)
            /\ \A i \in DOMAIN wire' : wire'[i] <= Len(mail)
        BY <1>1, Numbers
      <4> QED
        BY <2>2, <4>1, <4>2, <4>3 DEF BelowTop
    <3>3. Upwards'
      BY <1>1, <2>1, <2>2, <3>1, Numbers DEF Upwards
    <3>4. EmptyListAdd' /\ HeadPolled'
      BY <1>1, <2>1, <2>2, <3>1 DEF EmptyListAdd, HeadPolled
    <3> QED
      BY <1>2, <3>2, <3>3, <3>4
  <2> QED
    BY <2>3, <2>4
<1>5. CASE AddReadSize("main") \/ AddWriteSize("main")
  <2>1. /\ main.pc \in {"size", "count"} /\ main'.pc \in {"count", "idle"}
        /\ first' = first /\ last' = last /\ next' = next
    <3>1. CASE AddReadSize("main")
      BY <3>1, Numbers, AdderMoves DEF AddReadSize, main, TypeOK, QueueTypeOK, ListTypeOK
    <3>2. CASE AddWriteSize("main")
      BY <3>2, Numbers DEF AddWriteSize, main, NotAdding
    <3> QED
      BY <1>5, <3>1, <3>2
  <2>2. ~Linking /\ ~Linking' /\ Top' = Top
    BY <1>1, <2>1 DEF Linking, Top
  <2>3. BelowTop' /\ Upwards' /\ EmptyListAdd' /\ HeadPolled'
    BY <1>1, <1>2, <2>1, <2>2 DEF BelowTop, Upwards, EmptyListAdd, HeadPolled
  <2> QED
    BY <1>2, <2>3
<1> QED
  BY <1>3, <1>4, <1>5 DEF AddStep

-----------------------------------------------------------------------------
(* The sender: peek, poll, write.                                          *)

\* what a step of the sender leaves alone
LEMMA SenderKeeps ==
  ASSUME LocalInv, UNCHANGED <<mail, adder, mr, stage>>,
         stage = "connect" => sender'.pc = "off"
  PROVE  /\ OneProducer' /\ SenderStarts' /\ Node' = Node /\ main' = main
         /\ (Linking' <=> Linking) /\ Top' = Top /\ \A n : Kind(n)' = Kind(n)
BY DEF LocalInv, OneProducer, SenderStarts, Node, main, Linking, Top, Kind

\* steps that only move the sender
LEMMA SenderMovesLocal ==
  ASSUME LocalInv, TypeOK,
         SenderNotEmpty \/ SenderPeekNull \/ SenderPeek \/ SenderClose
  PROVE  LocalInv'
<1> USE DEF LocalInv, queueVars, pigVars, SenderUnchanged, SenderAt
<1>1. /\ UNCHANGED <<queueVars, mr, stage, link, wire, completed>>
      /\ sender.pc \in {"loop", "peek", "close"} /\ sender'.pc \in {"loop", "peek", "poll", "dead"}
      /\ sender.pc = "close" => sender'.pc = "dead"
      /\ sender'.pc = "poll" => /\ sender'.root = first
                                /\ Kind(first) = "success" => completed
  BY DEF SenderNotEmpty, SenderPeekNull, SenderPeek, SenderClose, Kind
<1>2. /\ OneProducer' /\ SenderStarts' /\ Node' = Node /\ main' = main
      /\ (Linking' <=> Linking) /\ Top' = Top /\ \A n : Kind(n)' = Kind(n)
  BY <1>1, SenderKeeps DEF SenderStarts
<1>3. BelowTop' /\ Upwards' /\ EmptyListAdd' /\ FeedInOrder'
  BY <1>1, <1>2 DEF BelowTop, Upwards, EmptyListAdd, FeedInOrder
<1>4. HeadPolled'
  <2>1. poller.pc = "idle" /\ poller' = poller /\ first' = first
    BY <1>1 DEF HeadPolled
  <2>2. sender'.pc # "polling"
    BY <1>1
  <2> QED
    BY <1>1, <2>1, <2>2 DEF HeadPolled
<1>5. CompletedIsReported' /\ SuccessEndsFeed'
  BY <1>1, <1>2 DEF SuccessHeldBack, SuccessEndsFeed, CompletedIsReported, Reported, Sent
<1>6. SuccessHeldBack'
  <2>1. sender'.pc \in {"poll", "polling"} /\ Kind(sender.root)' = "success" => completed'
    BY <1>1 DEF Kind
  <2>2. \A i \in DOMAIN wire' : Kind(wire[i])' = "success" => sender'.pc \in {"close", "dead"}
    BY <1>1 DEF SuccessHeldBack, Kind
  <2> QED
    BY <1>5, <2>1, <2>2 DEF SuccessHeldBack
<1> QED
  BY <1>2, <1>3, <1>4, <1>5, <1>6

LEMMA SenderPollLocal ==
  ASSUME LocalInv, TypeOK, SenderPoll
  PROVE  LocalInv'
<1> USE DEF LocalInv, pigVars, SenderUnchanged, SenderAt
<1>1. /\ UNCHANGED <<first, last, mail, adder, mr, stage, link, wire, completed>>
      /\ sender.pc = "poll" /\ sender'.pc = "polling" /\ sender'.root = sender.root
      /\ first = sender.root /\ first # Null /\ first \in Node
      /\ poller'.pc = "first" /\ poller'.node = first /\ poller'.rest = next[first]
      /\ next' = [next EXCEPT ![first] = Null]
  BY Numbers DEF SenderPoll, PollCall, At, HeadPolled, TypeOK, SenderTypeOK, Null
<1>2. /\ OneProducer' /\ SenderStarts' /\ Node' = Node /\ main' = main
      /\ (Linking' <=> Linking) /\ Top' = Top /\ \A n : Kind(n)' = Kind(n)
  BY <1>1, SenderKeeps DEF SenderStarts
<1>3. \A n \in Node : next'[n] = IF n = first THEN Null ELSE next[n]
  BY <1>1, Numbers, ExceptSeq DEF Null
<1>4. BelowTop'
  <2>1. Top \in Int /\ Null <= first
    BY <1>1, Numbers DEF Top, Null
  <2> QED
    BY <1>1, <1>2, <1>3, <2>1, Numbers DEF BelowTop, Null
<1>5. Upwards'
  BY <1>1, <1>2, <1>3 DEF Upwards
<1>6. EmptyListAdd' /\ HeadPolled' /\ FeedInOrder'
  BY <1>1, <1>2 DEF EmptyListAdd, HeadPolled, FeedInOrder
<1>7. SuccessHeldBack' /\ SuccessEndsFeed'
  BY <1>1, <1>2 DEF SuccessHeldBack, SuccessEndsFeed, CompletedIsReported, Reported, Sent
<1> QED
  BY <1>2, <1>4, <1>5, <1>6, <1>7

LEMMA PollStepCases ==
  ASSUME TypeOK, PollStep
  PROVE  /\ poller'.node = poller.node /\ poller'.rest = poller.rest
         /\ UNCHANGED <<mail, next, adder>>
         /\ \/ /\ poller.pc = "first" /\ poller'.pc = "last"
               /\ first' = poller.rest /\ last' = last
            \/ /\ poller.pc = "last" /\ poller'.pc = "size" /\ first' = first
               /\ last' = IF poller.rest = Null THEN Null ELSE last
            \/ /\ poller.pc \in {"size", "count"} /\ poller'.pc \in {"count", "done"}
               /\ first' = first /\ last' = last
<1>1. poller \in PollerState /\ size \in Int
  BY DEF TypeOK, QueueTypeOK, PollerTypeOK, ListTypeOK
<1>2. CASE PollFirst
  BY <1>1, <1>2, PollerMoves DEF PollFirst
<1>3. CASE PollLast
  BY <1>1, <1>3, PollerMoves DEF PollLast
<1>4. CASE PollReadSize
  BY <1>1, <1>4, PollerMoves DEF PollReadSize
<1>5. CASE PollWriteSize
  BY <1>1, <1>5, PollerMoves DEF PollWriteSize
<1> QED
  BY <1>2, <1>3, <1>4, <1>5 DEF PollStep

LEMMA SenderPollStepLocal ==
  ASSUME LocalInv, TypeOK, SenderPollStep
  PROVE  LocalInv'
<1> USE DEF LocalInv
<1>1. /\ UNCHANGED <<mail, next, adder, mr, stage, link, sender, wire, completed>>
      /\ sender.pc = "polling" /\ poller.node \in Nat
      /\ poller'.node = poller.node /\ poller'.rest = poller.rest
  BY PollStepCases, Numbers DEF SenderPollStep, SenderUnchanged, SenderAt, senderVars, pigVars
<1>2. /\ OneProducer' /\ SenderStarts' /\ Node' = Node /\ main' = main
      /\ (Linking' <=> Linking) /\ Top' = Top /\ \A n : Kind(n)' = Kind(n)
  BY <1>1, SenderKeeps DEF SenderStarts
<1>3. FeedInOrder' /\ SuccessHeldBack' /\ SuccessEndsFeed'
  BY <1>1, <1>2 DEF FeedInOrder, SuccessHeldBack, SuccessEndsFeed, CompletedIsReported,
     Reported, Sent
<1>4. CASE /\ poller.pc = "first" /\ poller'.pc = "last"
           /\ first' = poller.rest /\ last' = last
  <2>1. BelowTop'
    BY <1>1, <1>2, <1>4 DEF BelowTop
  <2>2. HeadPolled'
    BY <1>1, <1>4 DEF HeadPolled
  <2>3. Upwards'
    <3>1. poller.rest # Null => \A i \in DOMAIN wire : wire[i] < poller.rest
      BY <1>4, Numbers DEF Upwards
    <3> QED
      BY <1>1, <1>2, <1>4, <3>1 DEF Upwards
  <2>4. EmptyListAdd'
    BY <1>1, <1>2, <1>4 DEF EmptyListAdd, HeadPolled
  <2> QED
    BY <1>2, <1>3, <2>1, <2>2, <2>3, <2>4
<1>5. CASE /\ poller.pc = "last" /\ poller'.pc = "size" /\ first' = first
           /\ last' = IF poller.rest = Null THEN Null ELSE last
  <2>1. BelowTop' /\ Upwards'
    BY <1>1, <1>2, <1>5 DEF BelowTop, Upwards
  <2>2. HeadPolled'
    BY <1>1, <1>5 DEF HeadPolled
  <2>3. EmptyListAdd'
    <3>1. first = poller.rest /\ ~(Linking /\ main.seen = Null)
      BY <1>5 DEF HeadPolled, EmptyListAdd
    <3>2. main.pc = "link" => Linking
      BY DEF Linking
    <3> QED
      BY <1>1, <1>2, <1>5, <3>1, <3>2 DEF EmptyListAdd
  <2> QED
    BY <1>2, <1>3, <2>1, <2>2, <2>3
<1>6. CASE /\ poller.pc \in {"size", "count"} /\ poller'.pc \in {"count", "done"}
           /\ first' = first /\ last' = last
  BY <1>1, <1>2, <1>3, <1>6 DEF BelowTop, HeadPolled, Upwards, EmptyListAdd
<1> QED
  BY <1>4, <1>5, <1>6, PollStepCases DEF SenderPollStep

LEMMA SenderWriteLocal ==
  ASSUME LocalInv, TypeOK, SenderWrite \/ SenderWriteFails
  PROVE  LocalInv'
<1> USE DEF LocalInv
<1>1. /\ UNCHANGED <<first, last, mail, next, adder, mr, stage, link>>
      /\ sender.pc = "polling" /\ poller.pc = "done" /\ poller.node \in Node
      /\ poller.node \in Nat /\ poller'.pc = "idle" /\ sender'.pc \in {"loop", "close"}
      /\ poller.node = sender.root
  BY Numbers DEF SenderWrite, SenderWriteFails, PollReturn, NotPolling, SenderUnchanged,
     SenderAt, pigVars, HeadPolled, At, TypeOK, SenderTypeOK
<1>2. /\ OneProducer' /\ SenderStarts' /\ Node' = Node /\ main' = main
      /\ (Linking' <=> Linking) /\ Top' = Top /\ \A n : Kind(n)' = Kind(n)
  BY <1>1, SenderKeeps DEF SenderStarts
<1>3. EmptyListAdd' /\ HeadPolled'
  BY <1>1, <1>2 DEF EmptyListAdd, HeadPolled
<1>4. CASE wire' = wire /\ completed' = completed /\ sender'.pc = "loop"
  <2>1. BelowTop' /\ Upwards' /\ FeedInOrder'
    BY <1>1, <1>2, <1>4 DEF BelowTop, Upwards, FeedInOrder
  <2>2. CompletedIsReported' /\ SuccessEndsFeed'
    BY <1>1, <1>2, <1>4 DEF SuccessHeldBack, SuccessEndsFeed, CompletedIsReported, Reported, Sent
  <2>3. SuccessHeldBack'
    BY <1>1, <1>2, <1>4, <2>2 DEF SuccessHeldBack
  <2> QED
    BY <1>2, <1>3, <2>1, <2>2, <2>3
<1>5. CASE SenderWrite /\ link = "up"
  <2>1. /\ wire' = Append(wire, poller.node)
        /\ completed' = (completed \/ Kind(poller.node) = "complete")
        /\ Kind(poller.node) = "success" => sender'.pc = "close" /\ completed
    BY <1>1, <1>5 DEF SenderWrite, Root, Kind, At, SuccessHeldBack, TypeOK, SenderTypeOK
  <2>2. /\ Len(wire') = Len(wire) + 1 /\ wire'[Len(wire) + 1] = poller.node
        /\ \A i \in DOMAIN wire : wire'[i] = wire[i]
        /\ DOMAIN wire' = 1..(Len(wire) + 1) /\ DOMAIN wire = 1..Len(wire)
        /\ Len(wire) \in Nat
    BY <1>1, <2>1, Numbers, AppendProperties
  <2>3. \A i \in DOMAIN wire' :
          \/ i \in DOMAIN wire /\ wire'[i] = wire[i]
          \/ i = Len(wire) + 1 /\ wire'[i] = poller.node
    BY <2>2
  <2>4. \A i \in DOMAIN wire : wire[i] < poller.node /\ wire[i] \in Nat
    BY <1>1, Numbers DEF Upwards
  <2>5. BelowTop'
    BY <1>1, <1>2, <2>3 DEF BelowTop
  <2>6. Upwards'
    BY <1>1, <1>2, <2>3 DEF Upwards
  <2>7. FeedInOrder'
    BY <2>2, <2>3, <2>4 DEF FeedInOrder
  <2>8. Sent' = Sent \union {poller.node}
    BY <2>2, <2>3 DEF Sent
  <2>9. CompletedIsReported'
    BY <1>1, <1>2, <2>1, <2>8 DEF SuccessHeldBack, CompletedIsReported, Reported
  <2>10. \A i \in DOMAIN wire : Kind(wire[i]) # "success"
    BY <1>1 DEF SuccessHeldBack
  <2>11. SuccessHeldBack'
    BY <1>1, <1>2, <2>1, <2>3, <2>9, <2>10 DEF SuccessHeldBack
  <2>12. SuccessEndsFeed'
    <3> SUFFICES ASSUME NEW i \in DOMAIN wire', Kind(wire[i])' = "success"
                 PROVE  i = Len(wire') /\ \E k \in 1..i : Kind(wire[k])' = "complete"
      BY DEF SuccessEndsFeed
    <3>1. i = Len(wire) + 1 /\ Kind(poller.node) = "success"
      BY <1>2, <2>3, <2>10
    <3>2. PICK n \in Sent : Kind(n) = "complete"
      BY <1>5, <2>1, <3>1 DEF SuccessHeldBack, CompletedIsReported, Reported
    <3>3. PICK k \in DOMAIN wire : wire[k] = n
      BY <3>2 DEF Sent
    <3> QED
      BY <1>2, <2>2, <3>1, <3>2, <3>3
  <2> QED
    BY <1>2, <1>3, <2>5, <2>6, <2>7, <2>11, <2>12
<1>6. CASE SenderWrite /\ link # "up"
  <2>1. /\ wire' = wire /\ link = "down"
        /\ Kind(poller.node) = "success" => sender'.pc = "close"
    BY <1>1, <1>6 DEF SenderWrite, Root, Kind, At, TypeOK, SenderTypeOK, PigTypeOK
  <2>2. BelowTop' /\ Upwards' /\ FeedInOrder'
    BY <1>1, <1>2, <2>1 DEF BelowTop, Upwards, FeedInOrder
  <2>3. CompletedIsReported' /\ SuccessEndsFeed'
    BY <1>1, <1>2, <2>1 DEF SuccessHeldBack, SuccessEndsFeed, CompletedIsReported, Reported, Sent
  <2>4. SuccessHeldBack'
    BY <1>1, <1>2, <2>1, <2>3 DEF SuccessHeldBack
  <2> QED
    BY <1>2, <1>3, <2>2, <2>3, <2>4
<1> QED
  BY <1>4, <1>5, <1>6 DEF SenderWriteFails

-----------------------------------------------------------------------------
(* The invariant of a local run.                                           *)

LEMMA LocalInit ==
  ASSUME Init
  PROVE  LocalInv
<1> USE DEF Init, QueueInit, NotAdding, NotPolling, Null
<1>1. /\ adder["main"] = NotAdding /\ adder["mr"] = NotAdding
      /\ Node = {} /\ DOMAIN wire = {} /\ Len(mail) = 0
  BY ProducersAssumption DEF Node
<1>2. ~Linking /\ Top = 0 /\ main.pc = "idle"
  BY <1>1 DEF Linking, Top, main
<1>3. OneProducer /\ SenderStarts
  BY <1>1 DEF OneProducer, SenderStarts
<1>4. BelowTop /\ Upwards /\ EmptyListAdd /\ HeadPolled
  BY <1>1, <1>2 DEF BelowTop, Upwards, EmptyListAdd, HeadPolled
<1>5. FeedInOrder /\ SuccessHeldBack /\ SuccessEndsFeed
  BY <1>1 DEF FeedInOrder, SuccessHeldBack, SuccessEndsFeed, CompletedIsReported
<1> QED
  BY <1>3, <1>4, <1>5 DEF LocalInv

LEMMA ConnectLocal ==
  ASSUME Mode = "local", LocalInv, TypeOK, Connect
  PROVE  LocalInv'
<1> USE DEF LocalInv, queueVars
<1>1. /\ UNCHANGED <<first, last, next, mail, adder, poller, link, completed, wire>>
      /\ mr'.pc = "off" /\ sender.pc = "off" /\ sender'.pc = "loop" /\ stage' = "planning"
  BY DEF Connect, At, SenderStarts, TypeOK, MrTypeOK, SenderTypeOK
<1>2. /\ Node' = Node /\ main' = main /\ (Linking' <=> Linking) /\ Top' = Top
      /\ \A n : Kind(n)' = Kind(n)
  BY <1>1 DEF Node, main, Linking, Top, Kind
<1>3. OneProducer' /\ SenderStarts' /\ FeedInOrder'
  BY <1>1 DEF OneProducer, SenderStarts, FeedInOrder
<1>4. BelowTop' /\ Upwards' /\ EmptyListAdd'
  BY <1>1, <1>2 DEF BelowTop, Upwards, EmptyListAdd
<1>5. HeadPolled'
  BY <1>1 DEF HeadPolled
<1>6. CompletedIsReported' /\ SuccessEndsFeed'
  BY <1>1, <1>2 DEF SuccessHeldBack, SuccessEndsFeed, CompletedIsReported, Reported, Sent
<1>7. SuccessHeldBack'
  BY <1>1, <1>2, <1>6 DEF SuccessHeldBack
<1> QED
  BY <1>3, <1>4, <1>5, <1>6, <1>7

LEMMA LocalNext ==
  ASSUME Mode = "local", LocalInv, TypeOK, [Next]_vars
  PROVE  LocalInv'
<1>1. CASE Pig
  BY <1>1, LocalFrame DEF Pig, PlanReady, LaunchStarted, ProgressUpdated, JobsSubmitted,
     JobStarted, JobFinished, JobFinishedThrows, JobFailed, OutputCompleted, LaunchCompleted,
     PigAborts, RunReturns, RunReturnsFailed, Callback
<1>2. CASE Main
  <2>1. CASE DoAddMessage \/ MainAddStep
    BY <2>1, AddCallLocal, AddStepLocal DEF DoAddMessage, MainAddStep, pigVars
  <2>2. CASE Connect
    BY <2>2, ConnectLocal
  <2>3. CASE ConnectFails \/ DoResetProgress \/ DoSetCurrentJob \/ DoInsertJob
    BY <2>3, LocalFrame DEF ConnectFails, DoResetProgress, DoSetCurrentJob, DoInsertJob, pigVars
  <2>4. CASE DoInsertMRPlan \/ DoInsertCounter \/ DoInsertFail \/ DbFails
    BY <2>4, LocalFrame DEF DoInsertMRPlan, DoInsertCounter, DoInsertFail, DbFails, pigVars
  <2>5. CASE DoThrow \/ DoWriteExplain \/ WriteExplainFails \/ DoExit
    BY <2>5, LocalFrame DEF DoThrow, DoWriteExplain, WriteExplainFails, DoExit, pigVars
  <2> QED
    BY <1>2, <2>1, <2>2, <2>3, <2>4, <2>5 DEF Main
<1>3. ~MrTimer
  BY DEF LocalInv, OneProducer, NotAdding, MrTimer, MrTick, MrFetch, MrDies, MrTest, MrAdd,
     MrAddStep, AddStep, AddLast, AddLink, AddReadSize, AddWriteSize
<1>4. CASE SenderTimer
  BY <1>4, SenderMovesLocal, SenderPollLocal, SenderPollStepLocal, SenderWriteLocal
     DEF SenderTimer
<1>5. CASE Environment
  BY <1>5, LocalFrame DEF Environment, LinkBreaks, Kill, JvmEnds, JobAdvances, pigVars
<1>6. CASE UNCHANGED vars
  BY <1>6, LocalFrame DEF vars, pigVars
<1> QED
  BY <1>1, <1>2, <1>3, <1>4, <1>5, <1>6 DEF Next

\* In local mode, however add() and poll() overlap in the unlocked list, its
\* links only go to newer nodes, no field but last refers to a node that is not
\* linked in, the poll takes the node that was peeked at, and the three
\* properties of the feed that are stated below follow.
THEOREM LocalInvariant ==
  ASSUME Mode = "local"
  PROVE  Spec => []LocalInv
<1>1. LocalInv /\ TypeOK /\ [Next]_vars => LocalInv'
  BY LocalNext
<1>2. Init => LocalInv
  BY LocalInit
<1> QED
  BY <1>1, <1>2, TypeCorrect, PTL DEF Spec

\* In local mode the page is shown the messages in the order in which Pig's
\* callbacks added them and none of them twice, although add() and poll() of
\* the unsynchronised list overlap in any way.
THEOREM LocalFeedInOrder ==
  ASSUME Mode = "local"
  PROVE  Spec => []FeedInOrder
<1>1. LocalInv => FeedInOrder
  BY DEF LocalInv
<1> QED
  BY <1>1, LocalInvariant, PTL

\* In local mode the page is told of a success only after "complete", and of
\* nothing after it, whatever fails.
THEOREM LocalSuccessEndsFeed ==
  ASSUME Mode = "local"
  PROVE  Spec => []SuccessEndsFeed
<1>1. LocalInv => SuccessEndsFeed
  BY DEF LocalInv
<1> QED
  BY <1>1, LocalInvariant, PTL

\* In local mode the sender takes "complete" for done only when the node
\* server has it, or the link is down.
THEOREM LocalCompletedIsReported ==
  ASSUME Mode = "local"
  PROVE  Spec => []CompletedIsReported
<1>1. LocalInv => CompletedIsReported
  BY DEF LocalInv, SuccessHeldBack
<1> QED
  BY <1>1, LocalInvariant, PTL
=============================================================================
