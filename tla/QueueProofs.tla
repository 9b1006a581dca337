----------------------------- MODULE QueueProofs -----------------------------
(***************************************************************************)
(* The unlocked queue of a run, in any mode: no node is delivered twice,   *)
(* whatever overlaps; and as long as no call has begun inside another one  *)
(* it is a list, in order, that loses nothing.                             *)
(***************************************************************************)
EXTENDS QueueShape, ReportProofs, SelectionProofs

LEMMA AdderNumbers ==
  ASSUME TypeOK, NEW p \in Producers
  PROVE  /\ adder[p] \in AdderState /\ adder[p].node \in Nat /\ adder[p].seen \in Nat
         /\ Adding(p) => adder[p].node \in Node /\ adder[p].seen \in 0..Len(mail)
         /\ adder \in [Producers -> AdderState]
<1>1. adder \in [Producers -> AdderState] /\ AdderTypeOK
  BY DEF TypeOK, QueueTypeOK, AdderTypeOK
<1>2. adder[p] \in AdderState
  BY <1>1
<1>3. adder[p].node \in Nat /\ adder[p].seen \in Nat
  BY <1>2 DEF AdderState
<1> QED BY <1>1, <1>2, <1>3, Numbers DEF AdderTypeOK, Null

-----------------------------------------------------------------------------
(* One place per node.                                                     *)

\* Steps that neither link, unlink nor deliver a node.
LEMMA OnePlaceFrame ==
  ASSUME OnePlace, UNCHANGED <<mail, first, next, poller, wire>>,
         \A p \in Producers : Pending(p)' => Pending(p) /\ adder'[p].node = adder[p].node
  PROVE  OnePlace'
<1>1. Node' = Node /\ Sent' = Sent /\ Taken' = Taken
  BY DEF Node, Sent, Taken
<1>2. \A n : Unlinked(n)' <=> Unlinked(n)
  BY <1>1 DEF Unlinked
<1>3. PendingUnlinked'
  BY <1>1, <1>2 DEF OnePlace, PendingUnlinked
<1>4. LinkedOnce' /\ TakenUnlinked' /\ SentOnce'
  BY <1>1, <1>2 DEF OnePlace, LinkedOnce, TakenUnlinked, SentOnce
<1> QED BY <1>3, <1>4 DEF OnePlace

LEMMA OnePlaceAddCall ==
  ASSUME OnePlace, TypeOK, NEW p \in Producers, NEW m \in Message, AddCall(p, m), UNCHANGED wire
  PROVE  OnePlace'
<1>1. PICK new : new = Len(mail) + 1
  OBVIOUS
<1>2. /\ Node' = Node \union {new} /\ Node = 1..Len(mail) /\ new \in Nat
      /\ \A n \in Node : n \in Nat /\ n < new
  BY <1>1, MailGrows
<1>3. next'[new] = Null /\ \A n \in Node : next'[n] = next[n] /\ next[n] \in 0..Len(mail)
  <2>1. next' = Append(next, Null) /\ next \in Seq(Nat) /\ Len(next) = Len(mail) /\ Null \in Nat
        /\ \A n \in Node : next[n] \in 0..Len(mail)
    BY Numbers DEF AddCall, Null
  <2>2. next'[new] = Null /\ \A n \in Node : next'[n] = next[n]
    BY <1>1, <1>2, <2>1, AppendProperties
  <2> QED BY <2>1, <2>2
<1>4. /\ first' = first /\ poller' = poller /\ first \in 0..Len(mail)
      /\ poller.pc # "idle" => poller.node \in Node /\ poller.rest \in 0..Len(mail)
      /\ \A i \in DOMAIN wire : wire[i] \in Node
  BY Numbers DEF AddCall
<1>5. Sent' = Sent /\ Taken' = Taken /\ Taken \subseteq Node /\ wire' = wire
  BY <1>4 DEF Sent, Taken
<1>6. \A q \in Producers : /\ q # p => adder'[q] = adder[q]
                           /\ q = p => adder'[q].node = new
                           /\ Pending(q) => adder[q].node \in Node
                           /\ ~Pending(p)
  BY <1>1, AdderNumbers DEF AddCall, Pending, Adding
<1>7. \A n \in Node : Unlinked(n) => Unlinked(n)'
  BY <1>2, <1>3, <1>4 DEF Unlinked, Null
<1>8. Unlinked(new)'
  BY <1>1, <1>2, <1>3, <1>4 DEF Unlinked, Null
<1>9. new # first /\ new \notin Taken
  BY <1>1, <1>2, <1>4, <1>5
<1>10. PendingUnlinked'
  <2>1. ASSUME NEW q \in Producers, Pending(q)'
        PROVE  /\ Unlinked(adder[q].node)' /\ first' # adder'[q].node /\ adder'[q].node \notin Taken'
               /\ q # p => Pending(q) /\ adder'[q].node = adder[q].node /\ adder'[q].node # new
               /\ q = p => adder'[q].node = new
    <3>1. CASE q = p
      BY <1>4, <1>5, <1>6, <1>8, <1>9, <3>1
    <3>2. CASE q # p
      <4>1. Pending(q) /\ adder'[q] = adder[q] /\ adder[q].node \in Node
        BY <1>6, <2>1, <3>2 DEF Pending
      <4> QED BY <1>2, <1>4, <1>5, <1>7, <3>2, <4>1 DEF OnePlace, PendingUnlinked
    <3> QED BY <3>1, <3>2
  <2>2. ASSUME NEW q \in Producers, NEW r \in Producers, Pending(q)', Pending(r)', q # r
        PROVE  adder'[q].node # adder'[r].node
    BY <2>1, <2>2 DEF OnePlace, PendingUnlinked
  <2> QED BY <2>1, <2>2 DEF PendingUnlinked
<1>11. LinkedOnce'
  <2>1. first # Null => first \in Node
    BY <1>2, <1>4 DEF Null
  <2>2. poller.pc = "first" /\ poller.rest # Null => poller.rest # new
    BY <1>1, <1>2, <1>4
  <2> QED BY <1>2, <1>3, <1>4, <1>5, <1>7, <2>1, <2>2 DEF OnePlace, LinkedOnce
<1>12. TakenUnlinked' /\ SentOnce'
  BY <1>4, <1>5, <1>7 DEF OnePlace, TakenUnlinked, SentOnce
<1> QED BY <1>10, <1>11, <1>12 DEF OnePlace

LEMMA OnePlaceAddLink ==
  ASSUME OnePlace, TypeOK, NEW p \in Producers, AddLink(p), UNCHANGED wire
  PROVE  OnePlace'
<1>1. PICK new, seen : new = adder[p].node /\ seen = adder[p].seen
  OBVIOUS
<1>2. /\ new \in Node /\ new # Null /\ Pending(p) /\ Node = 1..Len(mail)
      /\ seen \in 0..Len(mail)
  BY <1>1, Numbers, AdderNumbers DEF AddLink, Pending, Adding, Null
<1>3. /\ Unlinked(new) /\ first # new /\ new \notin Taken
      /\ \A q \in Producers : Pending(q) /\ q # p => adder[q].node # new
  BY <1>1, <1>2 DEF OnePlace, PendingUnlinked
<1>4. /\ Node' = Node /\ poller' = poller /\ Sent' = Sent /\ Taken' = Taken /\ wire' = wire
  BY DEF AddLink, Node, Sent, Taken
<1>5. \A q \in Producers : Pending(q)' => q # p /\ Pending(q) /\ adder'[q].node = adder[q].node
  BY AdderNumbers, AdderMoves DEF AddLink, Pending
<1>6. CASE seen = Null
  <2>1. first' = new /\ next' = next
    BY <1>1, <1>6 DEF AddLink
  <2>2. \A n : Unlinked(n)' <=> Unlinked(n)
    BY <1>4, <2>1 DEF Unlinked
  <2>3. PendingUnlinked'
    BY <1>3, <1>4, <1>5, <2>1, <2>2 DEF OnePlace, PendingUnlinked
  <2>4. LinkedOnce'
    BY <1>3, <1>4, <2>1, <2>2 DEF OnePlace, LinkedOnce
  <2>5. TakenUnlinked' /\ SentOnce'
    BY <1>3, <1>4, <2>1, <2>2 DEF OnePlace, TakenUnlinked, SentOnce
  <2> QED BY <2>3, <2>4, <2>5 DEF OnePlace
<1>7. CASE seen # Null
  <2>1. first' = first /\ \A n \in Node : next'[n] = IF n = seen THEN new ELSE next[n]
    <3>1. next' = [next EXCEPT ![seen] = new] /\ first' = first /\ seen \in Node
      BY <1>1, <1>2, <1>7 DEF AddLink, Null
    <3>2. next \in Seq(Nat) /\ Len(next) = Len(mail) /\ seen \in 1..Len(next) /\ new \in Nat
      BY <1>1, <1>2, <3>1, Numbers, AdderNumbers
    <3> QED BY <1>2, <3>1, <3>2, ExceptSeq
  <2>2. \A n : Unlinked(n) /\ n # new => Unlinked(n)'
    BY <1>4, <2>1 DEF Unlinked
  <2>3. PendingUnlinked'
    BY <1>4, <1>3, <1>5, <2>1, <2>2 DEF OnePlace, PendingUnlinked
  <2>4. poller.pc = "first" => poller.rest # new
    BY <1>3 DEF Unlinked
  <2>5. LinkedOnce'
    <3>1. \A m, n \in Node : next'[m] = next'[n] /\ next'[m] # Null => m = n
      BY <1>3, <2>1 DEF OnePlace, LinkedOnce, Unlinked
    <3>2. first' # Null => Unlinked(first)'
      BY <1>3, <1>4, <2>1, <2>2 DEF OnePlace, LinkedOnce, Unlinked
    <3>3. poller.pc = "first" /\ poller.rest # Null =>
            poller.rest \notin Taken /\ \A m \in Node : next'[m] # poller.rest
      BY <2>1, <2>4 DEF OnePlace, LinkedOnce
    <3> QED BY <1>4, <2>1, <3>1, <3>2, <3>3 DEF LinkedOnce
  <2>6. TakenUnlinked' /\ SentOnce'
    BY <1>3, <1>4, <2>1, <2>2 DEF OnePlace, TakenUnlinked, SentOnce
  <2> QED BY <2>3, <2>5, <2>6 DEF OnePlace
<1> QED BY <1>6, <1>7

LEMMA OnePlaceAddStep ==
  ASSUME OnePlace, TypeOK, NEW p \in Producers, AddStep(p), UNCHANGED wire
  PROVE  OnePlace'
<1>1. CASE AddLink(p)
  BY <1>1, OnePlaceAddLink
<1>2. CASE AddLast(p) \/ AddReadSize(p) \/ AddWriteSize(p)
  <2>1. UNCHANGED <<mail, first, next, poller, wire>>
    BY <1>2 DEF AddLast, AddReadSize, AddWriteSize
  <2>2. \A q \in Producers : Pending(q)' => Pending(q) /\ adder'[q].node = adder[q].node
    <3>1. adder[p] \in AdderState /\ adder \in [Producers -> AdderState] /\ size \in Int
      BY AdderNumbers DEF TypeOK, QueueTypeOK, ListTypeOK
    <3>2. \A q \in Producers : q # p => adder'[q] = adder[q]
      BY <1>2, <3>1 DEF AddLast, AddReadSize, AddWriteSize
    <3>3. CASE AddLast(p)
      <4>1. adder'[p] = At(adder[p], "link") /\ Pending(p)
        BY <3>1, <3>3 DEF AddLast, Pending
      <4>2. adder'[p].node = adder[p].node
        BY <3>1, <4>1, AdderMoves
      <4> QED BY <3>2, <4>1, <4>2 DEF Pending
    <3>4. CASE AddReadSize(p)
      <4>1. adder'[p] = WithCount(adder[p], size)
        BY <3>1, <3>4 DEF AddReadSize
      <4>2. ~Pending(p)'
        BY <3>1, <4>1, AdderMoves DEF Pending
      <4> QED BY <3>2, <4>2 DEF Pending
    <3>5. CASE AddWriteSize(p)
      <4>1. ~Pending(p)'
        BY <3>1, <3>5 DEF AddWriteSize, Pending, NotAdding
      <4> QED BY <3>2, <4>1 DEF Pending
    <3> QED BY <1>2, <3>3, <3>4, <3>5
  <2> QED BY <2>1, <2>2, OnePlaceFrame
<1> QED BY <1>1, <1>2 DEF AddStep

-----------------------------------------------------------------------------
(* poll().                                                                 *)

LEMMA PollingFacts ==
  ASSUME TypeOK, PollStep
  PROVE  /\ poller.pc # "idle" /\ poller'.pc \notin {"idle", "first"} /\ poller'.node = poller.node
         /\ poller'.rest = poller.rest
         /\ UNCHANGED <<mail, next, adder>>
         /\ first' = IF poller.pc = "first" THEN poller.rest ELSE first
<1>1. poller \in PollerState /\ size \in Int
  BY DEF TypeOK, QueueTypeOK, PollerTypeOK, ListTypeOK
<1> QED BY <1>1, PollerMoves DEF PollStep, PollFirst, PollLast, PollReadSize, PollWriteSize

LEMMA OnePlacePollCall ==
  ASSUME OnePlace, TypeOK, PollCall, UNCHANGED wire
  PROVE  OnePlace'
<1>1. PICK n, rest : n \in Node /\ n = first /\ rest = next[first] /\ n # Null
  BY Numbers DEF PollCall, Null
<1>2. /\ poller.pc = "idle" /\ poller'.pc = "first" /\ poller'.node = n /\ poller'.rest = rest
      /\ first' = first /\ Node' = Node /\ Sent' = Sent /\ adder' = adder /\ wire' = wire
  BY <1>1 DEF PollCall, Node, Sent
<1>3. \A m \in Node : next'[m] = IF m = n THEN Null ELSE next[m]
  <2>1. next' = [next EXCEPT ![n] = Null] /\ next \in Seq(Nat) /\ n \in 1..Len(next) /\ Null \in Nat
        /\ Node = 1..Len(next)
    BY <1>1, Numbers DEF PollCall, Null
  <2> QED BY <2>1, ExceptSeq
<1>4. Taken = Sent /\ Taken' = Sent \union {n}
  BY <1>2 DEF Taken
<1>5. n \notin Sent /\ Unlinked(n)
  BY <1>1, <1>2, <1>4 DEF OnePlace, TakenUnlinked, LinkedOnce
<1>6. rest # Null => /\ rest # n /\ rest \notin Sent
                     /\ \A m \in Node : next'[m] # rest
                     /\ \A p \in Producers : Pending(p) => adder[p].node # rest
  <2>1. rest # n
    BY <1>1, <1>5 DEF Unlinked
  <2>2. rest \notin Sent
    BY <1>1, <1>4 DEF OnePlace, TakenUnlinked, Unlinked
  <2>3. rest # Null => \A m \in Node : next'[m] # rest
    BY <1>1, <1>3 DEF OnePlace, LinkedOnce
  <2>4. \A p \in Producers : Pending(p) => adder[p].node # rest
    BY <1>1 DEF OnePlace, PendingUnlinked, Unlinked
  <2> QED BY <2>1, <2>2, <2>3, <2>4
<1>7. ASSUME NEW k \in Node, Unlinked(k), k # rest PROVE Unlinked(k)'
  <2>1. k # Null
    BY Numbers DEF Null
  <2>2. \A m \in Node : next'[m] # k
    BY <1>3, <1>7, <2>1 DEF Unlinked
  <2> QED BY <1>2, <1>7, <2>2 DEF Unlinked
<1>8. \A p \in Producers : Pending(p) =>
        adder[p].node \in Node /\ adder[p].node # n /\ adder[p].node # rest
  <2>1. ASSUME NEW p \in Producers, Pending(p)
        PROVE  adder[p].node \in Node /\ adder[p].node # Null
    BY <2>1, AdderNumbers, Numbers DEF Pending, Adding, Null
  <2> QED BY <1>1, <1>6, <2>1 DEF OnePlace, PendingUnlinked
<1>9. PendingUnlinked'
  BY <1>1, <1>2, <1>4, <1>7, <1>8 DEF OnePlace, PendingUnlinked, Pending
<1>10. LinkedOnce'
  <2>1. \A k, m \in Node : next'[k] = next'[m] /\ next'[k] # Null => k = m
    BY <1>3 DEF OnePlace, LinkedOnce
  <2>2. Unlinked(n)'
    BY <1>5, <1>6, <1>7, Numbers, <1>1 DEF Null
  <2> QED BY <1>1, <1>2, <1>4, <1>6, <2>1, <2>2 DEF LinkedOnce
<1>11. Taken' \subseteq Node
  BY <1>1, <1>4, Numbers DEF Sent
<1>12. TakenUnlinked'
  <2>1. ASSUME NEW k \in Taken' PROVE Unlinked(k)' /\ (first' = k => k = n)
    <3>1. k \in Node /\ k # Null
      BY <1>11, Numbers DEF Null
    <3>2. k # rest
      BY <1>4, <1>6, <2>1, <3>1
    <3>3. Unlinked(k)
      BY <1>4, <1>5, <2>1 DEF OnePlace, TakenUnlinked
    <3> QED BY <1>1, <1>2, <1>7, <3>1, <3>2, <3>3
  <2> QED BY <1>2, <1>5, <2>1 DEF TakenUnlinked
<1>13. SentOnce'
  BY <1>2 DEF OnePlace, SentOnce
<1> QED BY <1>9, <1>10, <1>12, <1>13 DEF OnePlace

LEMMA OnePlacePollStep ==
  ASSUME OnePlace, TypeOK, PollStep, UNCHANGED wire
  PROVE  OnePlace'
<1>1. /\ Node' = Node /\ Sent' = Sent /\ Taken' = Taken /\ next' = next /\ adder' = adder
      /\ wire' = wire
  BY PollingFacts DEF Node, Sent, Taken
<1>2. \A n : Unlinked(n) => Unlinked(n)'
  BY <1>1, PollingFacts DEF Unlinked
<1>3. CASE poller.pc = "first"
  <2>1. first' = poller.rest
    BY <1>3, PollingFacts
  <2>2. PendingUnlinked'
    BY <1>1, <1>2, <1>3, <2>1 DEF OnePlace, PendingUnlinked, Pending, Unlinked
  <2>3. LinkedOnce'
    BY <1>1, <1>3, <2>1, PollingFacts DEF OnePlace, LinkedOnce, Unlinked
  <2>4. TakenUnlinked'
    <3>1. \A n \in Taken : n # Null
      BY Numbers DEF Taken, Sent, Null
    <3> QED BY <1>1, <1>2, <1>3, <2>1, <3>1, PollingFacts DEF OnePlace, LinkedOnce, TakenUnlinked
  <2> QED BY <1>1, <2>2, <2>3, <2>4 DEF OnePlace, SentOnce
<1>4. CASE poller.pc # "first"
  <2>1. first' = first
    BY <1>4, PollingFacts
  <2>2. PendingUnlinked' /\ LinkedOnce'
    BY <1>1, <1>2, <2>1, PollingFacts DEF OnePlace, PendingUnlinked, Pending, LinkedOnce
  <2>3. TakenUnlinked' /\ SentOnce'
    BY <1>1, <1>2, <1>4, <2>1, PollingFacts DEF OnePlace, TakenUnlinked, SentOnce
  <2> QED BY <2>2, <2>3 DEF OnePlace
<1> QED BY <1>3, <1>4

\* poll() has returned, and the node is written or lost with the link
LEMMA OnePlaceReturn ==
  ASSUME OnePlace, TypeOK, PollReturn, wire' = wire \/ wire' = Append(wire, poller.node)
  PROVE  OnePlace'
<1>1. /\ poller.pc = "done" /\ poller'.pc = "idle" /\ first' = first /\ next' = next
      /\ adder' = adder /\ Node' = Node
  BY DEF PollReturn, NotPolling, Node
<1>2. PICK after : after = wire'
  OBVIOUS
<1>3. /\ wire \in Seq(Nat) /\ poller.node \in Nat /\ DOMAIN wire = 1..Len(wire)
      /\ after = wire \/ after = Append(wire, poller.node)
  BY <1>2, Numbers
<1>4. /\ \A i \in DOMAIN after : (i \in DOMAIN wire /\ after[i] = wire[i])
                                   \/ (i = Len(wire) + 1 /\ after[i] = poller.node)
      /\ Len(wire) \in Nat
  BY <1>3
<1>5. Taken' = Sent' /\ Sent' \subseteq Taken
  BY <1>1, <1>2, <1>4 DEF Taken, Sent
<1>6. \A n : Unlinked(n) => Unlinked(n)'
  BY <1>1 DEF Unlinked
<1>7. PendingUnlinked' /\ LinkedOnce'
  BY <1>1, <1>5, <1>6 DEF OnePlace, PendingUnlinked, Pending, LinkedOnce
<1>8. TakenUnlinked'
  BY <1>1, <1>5, <1>6 DEF OnePlace, TakenUnlinked
<1>9. SentOnce'
  <2>1. \A i \in DOMAIN wire : wire[i] # poller.node
    BY <1>1 DEF OnePlace, TakenUnlinked, Sent
  <2>2. \A i, k \in DOMAIN after : i # k => after[i] # after[k]
    BY <1>4, <2>1 DEF OnePlace, SentOnce
  <2> QED BY <1>2, <2>2 DEF SentOnce
<1> QED BY <1>7, <1>8, <1>9 DEF OnePlace

-----------------------------------------------------------------------------
(* One step of a run.                                                      *)

LEMMA OnePlaceNext ==
  ASSUME OnePlace, TypeOK, [Next]_vars
  PROVE  OnePlace'
<1> USE DEF queueVars, senderVars
<1>0. ASSUME UNCHANGED <<queueVars, wire>> PROVE OnePlace'
  BY <1>0, OnePlaceFrame DEF Pending
<1>1. CASE Pig
  BY <1>0, <1>1 DEF Pig, PlanReady, LaunchStarted, ProgressUpdated, JobsSubmitted, JobStarted,
     JobFinished, JobFinishedThrows, JobFailed, OutputCompleted, LaunchCompleted, PigAborts,
     RunReturns, RunReturnsFailed, Callback
<1>2. "main" \in Producers /\ "mr" \in Producers
  BY ProducersAssumption
<1>3. CASE DoAddMessage
  <2>1. Head(todo).what \in Message
    BY <1>3, HeadEffect DEF DoAddMessage, TypeOK
  <2> QED BY <1>2, <1>3, <2>1, OnePlaceAddCall DEF DoAddMessage
<1>4. CASE MainAddStep
  BY <1>2, <1>4, OnePlaceAddStep DEF MainAddStep
<1>5. CASE Main /\ ~DoAddMessage /\ ~MainAddStep
  BY <1>0, <1>5 DEF Main, Connect, ConnectFails, DoResetProgress, DoSetCurrentJob, DoInsertJob,
     DoInsertMRPlan, DoInsertCounter, DoInsertFail, DbFails, DoThrow, DoWriteExplain,
     WriteExplainFails, DoExit
<1>6. CASE MrAdd
  <2>1. [kind |-> mr.pc, job |-> mr.id] \in Message
    BY <1>6 DEF MrAdd, TypeOK, MrTypeOK, Message, Kinds
  <2> QED BY <1>2, <1>6, <2>1, OnePlaceAddCall DEF MrAdd, MrUnchanged
<1>7. CASE MrAddStep
  BY <1>2, <1>7, OnePlaceAddStep DEF MrAddStep, MrUnchanged
<1>8. CASE MrTick \/ MrFetch \/ MrDies \/ MrTest
  BY <1>0, <1>8 DEF MrTick, MrFetch, MrDies, MrTest, MrUnchanged
<1>9. CASE SenderPoll
  BY <1>9, OnePlacePollCall DEF SenderPoll
<1>10. CASE SenderPollStep
  BY <1>10, OnePlacePollStep DEF SenderPollStep
<1>11. CASE SenderWrite \/ SenderWriteFails
  BY <1>11, OnePlaceReturn DEF SenderWrite, SenderWriteFails
<1>12. CASE SenderNotEmpty \/ SenderPeekNull \/ SenderPeek \/ SenderClose
  BY <1>0, <1>12 DEF SenderNotEmpty, SenderPeekNull, SenderPeek, SenderClose
<1>13. CASE Environment
  BY <1>0, <1>13 DEF Environment, LinkBreaks, Kill, JvmEnds, JobAdvances
<1>14. CASE UNCHANGED vars
  BY <1>0, <1>14 DEF vars
<1> QED BY <1>1, <1>3, <1>4, <1>5, <1>6, <1>7, <1>8, <1>9, <1>10, <1>11, <1>12, <1>13, <1>14
           DEF Next, MrTimer, SenderTimer

LEMMA OnePlaceInit == Init => OnePlace
<1> SUFFICES ASSUME Init PROVE OnePlace
  OBVIOUS
<1>1. /\ Node = {} /\ first = Null /\ poller.pc = "idle" /\ DOMAIN wire = {} /\ Sent = {}
      /\ \A p \in Producers : ~Pending(p)
  BY DEF Init, QueueInit, Node, NotPolling, NotAdding, Pending, Sent
<1> QED BY <1>1 DEF OnePlace, PendingUnlinked, LinkedOnce, TakenUnlinked, SentOnce, Taken

\* No message reaches the node server twice, with two producers and however
\* their calls of add() and the sender's poll() interleave: the races of the
\* unlocked LinkedList lose messages, they never duplicate one.
THEOREM NothingSentTwice == Spec => []SentOnce
<1>1. OnePlace /\ TypeOK /\ [Next]_vars => OnePlace'
  BY OnePlaceNext
<1>2. OnePlace => SentOnce
  BY DEF OnePlace
<1> QED BY <1>1, <1>2, OnePlaceInit, TypeCorrect, PTL DEF Spec
-----------------------------------------------------------------------------
(* As long as nothing overlaps, the queue is a list.                       *)

LEMMA ShapeOf ==
  ASSUME NEW g \in Nat, Shape(g), NEW p \in Producers
  PROVE  /\ QueueIdle => Resting(g)
         /\ Pending(p) => LinkingShape(p, g)
         /\ adder[p].pc \in {"size", "count"} => CountingShape(p, g)
         /\ poller.pc # "idle" => PollingShape(g)
<1>1. CASE Resting(g)
  BY <1>1 DEF Resting, QueueIdle, Pending, Adding
<1>2. ASSUME NEW q \in Producers, LinkingShape(q, g) PROVE Pending(p) => q = p
  BY <1>2 DEF LinkingShape, Pending, Adding
<1>3. ASSUME NEW q \in Producers, LinkingShape(q, g)
      PROVE  ~QueueIdle /\ poller.pc = "idle" /\ adder[p].pc \notin {"size", "count"}
  BY <1>3 DEF LinkingShape, QueueIdle, Pending, Adding
<1>4. ASSUME NEW q \in Producers, CountingShape(q, g)
      PROVE  /\ ~QueueIdle /\ poller.pc = "idle" /\ ~Pending(p)
             /\ adder[p].pc \in {"size", "count"} => q = p
  BY <1>4 DEF CountingShape, QueueIdle, Pending, Adding
<1>5. CASE PollingShape(g)
  BY <1>5 DEF PollingShape, QueueIdle, Pending, Adding
<1> QED BY <1>1, <1>2, <1>3, <1>4, <1>5 DEF Shape

\* What adds leave alone.
LEMMA AddWritten ==
  ASSUME TypeOK, NEW g \in Nat, Written(g), g <= Len(mail), UNCHANGED <<poller, wire, completed, link>>,
         \A n \in Node : mail'[n] = mail[n]
  PROVE  Written(g)'
<1>1. Past(g)' = Past(g) /\ Past(g) \subseteq Node
  BY Numbers DEF Past
<1>2. Sent' = Sent /\ \A n \in Past(g) : Kind(n)' = Kind(n)
  BY <1>1 DEF Sent, Kind
<1> QED BY <1>1, <1>2 DEF Written, FeedInOrder

LEMMA ListAddCall ==
  ASSUME TypeOK, QueueIsList, NEW p \in Producers, NEW m \in Message, AddCall(p, m),
         UNCHANGED <<wire, completed, link, sender>>
  PROVE  QueueIsList'
<1> SUFFICES ASSUME overlaps' = 0
             PROVE  PolledIsPeeked' /\ \E g \in Nat : Shape(g)' /\ Written(g)'
  BY DEF QueueIsList
<1>1. QueueIdle /\ overlaps = 0
  BY DEF AddCall, Begin, TypeOK, QueueTypeOK, ListTypeOK
<1>2. PICK g \in Nat : Resting(g) /\ Written(g)
  BY <1>1, ShapeOf, ProducersAssumption DEF QueueIsList
<1>3. PICK l \in Nat : l = Len(mail)
  BY Numbers
<1>4. /\ Len(mail') = l + 1 /\ mail'[l + 1] = m /\ \A n \in Node : mail'[n] = mail[n]
      /\ Node = 1..l
  <2>1. mail \in Seq(Message) /\ mail' = Append(mail, m)
    BY DEF TypeOK, QueueTypeOK, ListTypeOK, AddCall
  <2> QED BY <1>3, <2>1, MailGrows
<1>5. next'[l + 1] = Null /\ \A n \in 1..l : next'[n] = next[n]
  <2>1. next' = Append(next, Null) /\ next \in Seq(Nat) /\ Len(next) = l /\ Null \in Nat
    BY <1>3, Numbers DEF AddCall, Null
  <2> QED BY <2>1, AppendProperties
<1>6. /\ adder'[p] = [pc |-> "last", node |-> l + 1, seen |-> last, count |-> 0]
      /\ \A q \in Producers : q # p => adder'[q] = adder[q]
      /\ first' = first /\ last' = last /\ size' = size /\ poller' = poller
  BY <1>3, AdderNumbers DEF AddCall
<1>7. /\ g \in 0..l /\ \A n \in (g + 1)..l : next[n] = IF n = l THEN Null ELSE n + 1
      /\ first = Oldest(g, l) /\ last = Newest(g, l) /\ size = l - g
  BY <1>2, <1>3 DEF Resting, Chain
<1>8. (l + 1) - 1 = l
  BY <1>3
<1>9. LinkingShape(p, g)'
  <2>1. Pending(p)' /\ poller'.pc = "idle" /\ \A q \in Producers : Adding(q)' => q = p
    BY <1>1, <1>6 DEF Pending, QueueIdle, Adding
  <2>2. Chain(g, l)'
    BY <1>5, <1>7 DEF Chain
  <2>3. adder'[p].pc = "last" /\ adder'[p].node = l + 1 /\ adder'[p].seen = last
    BY <1>6
  <2> QED BY <1>4, <1>5, <1>6, <1>7, <1>8, <2>1, <2>2, <2>3 DEF LinkingShape, Oldest, Newest
<1>10. Written(g)'
  <2>1. UNCHANGED <<poller, wire, completed, link>> /\ g <= Len(mail)
    BY <1>3, <1>6, <1>7
  <2> QED BY <1>2, <1>4, <2>1, AddWritten
<1>11. PolledIsPeeked'
  BY <1>1, <1>6 DEF QueueIsList, PolledIsPeeked
<1> QED BY <1>9, <1>10, <1>11 DEF Shape

LEMMA ListAddLast ==
  ASSUME TypeOK, QueueIsList, NEW p \in Producers, AddLast(p),
         UNCHANGED <<wire, completed, link, sender>>
  PROVE  QueueIsList'
<1> SUFFICES ASSUME overlaps' = 0
             PROVE  PolledIsPeeked' /\ \E g \in Nat : Shape(g)' /\ Written(g)'
  BY DEF QueueIsList
<1>1. overlaps = 0 /\ Pending(p)
  BY DEF AddLast, Pending
<1>2. PICK g \in Nat : LinkingShape(p, g) /\ Written(g)
  BY <1>1, ShapeOf DEF QueueIsList
<1>3. /\ adder'[p].pc = "link" /\ adder'[p].node = adder[p].node /\ adder'[p].seen = adder[p].seen
      /\ \A q \in Producers : q # p => adder'[q] = adder[q]
      /\ first' = first /\ next' = next /\ size' = size /\ mail' = mail /\ poller' = poller
      /\ last' = adder[p].node
  BY AdderNumbers, AdderMoves DEF AddLast
<1>4. LinkingShape(p, g)'
  <2>1. Pending(p)' /\ poller'.pc = "idle" /\ \A q \in Producers : Adding(q)' => q = p
    BY <1>2, <1>3 DEF LinkingShape, Pending, Adding
  <2>2. Len(mail') = Len(mail) /\ Chain(g, Len(mail) - 1)'
    BY <1>2, <1>3 DEF LinkingShape, Chain
  <2> QED BY <1>2, <1>3, <2>1, <2>2 DEF LinkingShape, Oldest, Newest
<1>5. Written(g)'
  <2>1. UNCHANGED <<poller, wire, completed, link>> /\ g <= Len(mail)
    BY <1>2, <1>3, Numbers DEF LinkingShape, Chain
  <2> QED BY <1>2, <1>3, <2>1, AddWritten
<1>6. PolledIsPeeked'
  BY <1>1, <1>3 DEF QueueIsList, PolledIsPeeked
<1> QED BY <1>4, <1>5, <1>6 DEF Shape

LEMMA ListAddLink ==
  ASSUME TypeOK, QueueIsList, NEW p \in Producers, AddLink(p),
         UNCHANGED <<wire, completed, link, sender>>
  PROVE  QueueIsList'
<1> SUFFICES ASSUME overlaps' = 0
             PROVE  PolledIsPeeked' /\ \E g \in Nat : Shape(g)' /\ Written(g)'
  BY DEF QueueIsList
<1>1. overlaps = 0 /\ Pending(p) /\ adder[p].pc = "link"
  BY DEF AddLink, Pending
<1>2. PICK g \in Nat : LinkingShape(p, g) /\ Written(g)
  BY <1>1, ShapeOf DEF QueueIsList
<1>3. PICK l \in Nat : l = Len(mail) /\ l >= 1
  <2>1. adder[p].node \in 1..Len(mail) /\ Len(mail) \in Nat
    BY <1>1, Numbers, AdderNumbers DEF Pending, Adding
  <2> QED BY <2>1
<1>4. /\ adder'[p].pc = "size" /\ \A q \in Producers : q # p => adder'[q] = adder[q]
      /\ last' = last /\ size' = size /\ mail' = mail /\ poller' = poller
  BY AdderNumbers, AdderMoves DEF AddLink
<1>5. /\ g \in 0..(l - 1) /\ \A n \in (g + 1)..(l - 1) : next[n] = IF n = l - 1 THEN Null ELSE n + 1
      /\ first = Oldest(g, l - 1) /\ size = l - 1 - g /\ last = l
      /\ adder[p].node = l /\ adder[p].seen = Newest(g, l - 1) /\ next[l] = Null
  BY <1>1, <1>2, <1>3 DEF LinkingShape, Chain
<1>6. ASSUME g = l - 1
      PROVE  /\ Chain(g, l)' /\ first' = Oldest(g, l) /\ last' = Newest(g, l) /\ size' = l - g - 1
             /\ sender.pc # "poll"
  <2>1. adder[p].seen = Null /\ first = Null
    BY <1>5, <1>6 DEF Newest, Oldest
  <2>2. first' = l /\ next' = next
    BY <1>5, <2>1 DEF AddLink
  <2>3. Chain(g, l)' /\ first' = Oldest(g, l) /\ last' = Newest(g, l) /\ size' = l - g - 1
    BY <1>3, <1>4, <1>5, <1>6, <2>2 DEF Chain, Oldest, Newest
  <2>4. sender.pc # "poll"
    BY <1>1, <2>1, Numbers DEF QueueIsList, PolledIsPeeked, TypeOK, SenderTypeOK, Null
  <2> QED BY <2>3, <2>4
<1>7. ASSUME g # l - 1
      PROVE  /\ Chain(g, l)' /\ first' = Oldest(g, l) /\ last' = Newest(g, l) /\ size' = l - g - 1
             /\ first' = first
  <2>1. adder[p].seen = l - 1 /\ l - 1 # Null /\ l - 1 \in 1..l
    BY <1>3, <1>5, <1>7 DEF Newest, Null
  <2>2. first' = first /\ next' = [next EXCEPT ![l - 1] = l]
    BY <1>5, <2>1 DEF AddLink
  <2>3. \A n \in 1..l : next'[n] = IF n = l - 1 THEN l ELSE next[n]
    <3>1. next \in Seq(Nat) /\ Len(next) = l
      BY <1>3, Numbers
    <3> QED BY <1>3, <2>1, <2>2, <3>1, ExceptSeq
  <2>4. Chain(g, l)'
    <3>1. ASSUME NEW n \in (g + 1)..l PROVE next'[n] = IF n = l THEN Null ELSE n + 1
      <4>1. CASE n = l
        BY <1>3, <1>5, <2>3, <4>1
      <4>2. CASE n # l
        <5>1. n \in (g + 1)..(l - 1) /\ n \in 1..l /\ n \in Nat
          BY <1>3, <1>5, <4>2
        <5>2. next[n] = IF n = l - 1 THEN Null ELSE n + 1
          BY <1>5, <5>1
        <5>3. next'[n] = IF n = l - 1 THEN l ELSE next[n]
          BY <2>3, <5>1
        <5> QED BY <4>2, <5>1, <5>2, <5>3
      <4> QED BY <4>1, <4>2
    <3> QED BY <1>5, <3>1 DEF Chain
  <2>5. first' = Oldest(g, l) /\ last' = Newest(g, l) /\ size' = l - g - 1
    BY <1>3, <1>4, <1>5, <1>7, <2>2 DEF Oldest, Newest
  <2> QED BY <2>2, <2>4, <2>5
<1>8. CountingShape(p, g)'
  <2>1. Chain(g, l)' /\ first' = Oldest(g, l) /\ last' = Newest(g, l) /\ size' = l - g - 1
    BY <1>6, <1>7
  <2>2. poller'.pc = "idle" /\ \A q \in Producers : Adding(q)' => q = p
    BY <1>2, <1>4 DEF LinkingShape, Adding
  <2> QED BY <1>3, <1>4, <2>1, <2>2 DEF CountingShape, Oldest, Newest
<1>9. Written(g)'
  <2>1. UNCHANGED <<poller, wire, completed, link>> /\ g <= Len(mail)
    BY <1>3, <1>4, <1>5
  <2> QED BY <1>2, <1>4, <2>1, AddWritten
<1>10. PolledIsPeeked'
  <2>1. first' = first \/ sender.pc # "poll"
    BY <1>6, <1>7
  <2> QED BY <1>1, <1>4, <2>1 DEF QueueIsList, PolledIsPeeked
<1> QED BY <1>8, <1>9, <1>10 DEF Shape

LEMMA ListAddCount ==
  ASSUME TypeOK, QueueIsList, NEW p \in Producers, AddReadSize(p) \/ AddWriteSize(p),
         UNCHANGED <<wire, completed, link, sender>>
  PROVE  QueueIsList'
<1> SUFFICES ASSUME overlaps' = 0
             PROVE  PolledIsPeeked' /\ \E g \in Nat : Shape(g)' /\ Written(g)'
  BY DEF QueueIsList
<1>1. overlaps = 0 /\ adder[p].pc \in {"size", "count"}
  BY DEF AddReadSize, AddWriteSize
<1>2. PICK g \in Nat : CountingShape(p, g) /\ Written(g)
  BY <1>1, ShapeOf DEF QueueIsList
<1>3. /\ \A q \in Producers : q # p => adder'[q] = adder[q]
      /\ first' = first /\ last' = last /\ next' = next /\ mail' = mail /\ poller' = poller
  BY AdderNumbers DEF AddReadSize, AddWriteSize
<1>4. Chain(g, Len(mail))' /\ Len(mail') = Len(mail) /\ Len(mail) \in Nat
  BY <1>2, <1>3, Numbers DEF CountingShape, Chain
<1>7. Written(g)'
  <2>1. UNCHANGED <<poller, wire, completed, link>> /\ g <= Len(mail)
    BY <1>2, <1>3, Numbers DEF CountingShape, Chain
  <2> QED BY <1>2, <1>3, <2>1, AddWritten
<1>8. PolledIsPeeked'
  BY <1>1, <1>3 DEF QueueIsList, PolledIsPeeked
<1>9. Shape(g)'
  <2>1. CASE AddReadSize(p)
    <3>1. adder'[p].pc = "count" /\ adder'[p].count = size /\ size' = size
      BY <2>1, AdderNumbers DEF AddReadSize, WithCount, AdderState
    <3>2. \A q \in Producers : Adding(q)' => q = p
      BY <1>2, <1>3 DEF CountingShape, Adding
    <3> QED BY <1>2, <1>3, <1>4, <3>1, <3>2 DEF CountingShape, Shape, Oldest, Newest
  <2>2. CASE AddWriteSize(p)
    <3>1. adder[p].pc = "count" /\ adder'[p].pc = "idle" /\ size' = adder[p].count + 1
      BY <2>2, AdderNumbers DEF AddWriteSize, NotAdding
    <3>2. QueueIdle'
      BY <1>2, <1>3, <3>1 DEF CountingShape, QueueIdle, Adding
    <3>3. size' = Len(mail) - g
      BY <1>2, <1>4, <3>1 DEF CountingShape
    <3> QED BY <1>2, <1>3, <1>4, <3>2, <3>3 DEF CountingShape, Resting, Shape, Oldest, Newest
  <2> QED BY <2>1, <2>2
<1> QED BY <1>7, <1>8, <1>9

LEMMA ListPollCall ==
  ASSUME TypeOK, QueueIsList, PollCall, UNCHANGED <<wire, completed, link>>,
         sender.pc = "poll", sender' = At(sender, "polling")
  PROVE  QueueIsList'
<1> SUFFICES ASSUME overlaps' = 0
             PROVE  PolledIsPeeked' /\ \E g \in Nat : Shape(g)' /\ Written(g)'
  BY DEF QueueIsList
<1>1. QueueIdle /\ overlaps = 0 /\ first # Null
  BY DEF PollCall, Begin, TypeOK, QueueTypeOK, ListTypeOK
<1>2. PICK g \in Nat : Resting(g) /\ Written(g)
  BY <1>1, ShapeOf, ProducersAssumption DEF QueueIsList
<1>3. PICK l \in Nat : l = Len(mail)
  BY Numbers
<1>4. /\ g \in 0..l /\ \A n \in (g + 1)..l : next[n] = IF n = l THEN Null ELSE n + 1
      /\ first = Oldest(g, l) /\ last = Newest(g, l) /\ size = l - g
  BY <1>2, <1>3 DEF Resting, Chain
<1>5. PICK h \in 1..l : h = g + 1 /\ first = h /\ last = l
  BY <1>1, <1>3, <1>4 DEF Oldest, Newest, Null
<1>6. /\ poller'.pc = "first" /\ poller'.node = h /\ poller'.rest = next[h]
      /\ first' = first /\ last' = last /\ size' = size /\ mail' = mail /\ adder' = adder
  BY <1>5 DEF PollCall
<1>7. next'[h] = Null /\ \A n \in 1..l : n # h => next'[n] = next[n]
  <2>1. next' = [next EXCEPT ![h] = Null] /\ next \in Seq(Nat) /\ Len(next) = l /\ Null \in Nat
    BY <1>3, <1>5, Numbers DEF PollCall, Null
  <2> QED BY <2>1, ExceptSeq
<1>8. next[h] = Oldest(h, l)
  BY <1>4, <1>5 DEF Oldest
<1>9. Chain(h, l)'
  <2>1. ASSUME NEW n \in (h + 1)..l PROVE next'[n] = IF n = l THEN Null ELSE n + 1
    <3>1. n \in (g + 1)..l /\ n \in 1..l /\ n # h
      BY <1>3, <1>5
    <3> QED BY <1>4, <1>7, <3>1
  <2> QED BY <1>5, <2>1 DEF Chain
<1>10. PollingShape(h)'
  <2>1. size' = l - h + 1 /\ h >= 1 /\ h <= l
    BY <1>3, <1>4, <1>5, <1>6
  <2>2. \A q \in Producers : ~Adding(q)'
    BY <1>1, <1>6 DEF QueueIdle, Adding
  <2>3. poller'.pc = "first" /\ poller'.node = h /\ poller'.rest = Oldest(h, l)
    BY <1>6, <1>8
  <2> QED BY <1>3, <1>5, <1>6, <1>7, <1>9, <2>1, <2>2, <2>3 DEF PollingShape, Oldest
<1>11. Written(h)'
  <2>1. poller.pc = "idle" /\ poller'.pc # "idle"
    BY <1>1, <1>6 DEF QueueIdle
  <2>2. 1..(h - 1) = 1..g
    BY <1>5
  <2>3. Past(h)' = Past(g)
    BY <2>1, <2>2 DEF Past
  <2>4. Sent' = Sent /\ \A n : Kind(n)' = Kind(n)
    BY <1>6 DEF Sent, Kind
  <2> QED BY <1>2, <2>3, <2>4 DEF Written, FeedInOrder
<1>12. PolledIsPeeked'
  <2>1. sender'.pc = "polling" /\ sender'.root = sender.root
    BY DEF At, TypeOK, SenderTypeOK
  <2> QED BY <1>1, <1>5, <1>6, <2>1 DEF QueueIsList, PolledIsPeeked
<1> QED BY <1>5, <1>10, <1>11, <1>12 DEF Shape

LEMMA ListPollStep ==
  ASSUME TypeOK, QueueIsList, PollStep, UNCHANGED <<wire, completed, link, sender>>
  PROVE  QueueIsList'
<1> SUFFICES ASSUME overlaps' = 0
             PROVE  PolledIsPeeked' /\ \E g \in Nat : Shape(g)' /\ Written(g)'
  BY DEF QueueIsList
<1>1. overlaps = 0 /\ poller.pc # "idle"
  BY DEF PollStep, PollFirst, PollLast, PollReadSize, PollWriteSize
<1>2. PICK g \in Nat : PollingShape(g) /\ Written(g)
  BY <1>1, ShapeOf, ProducersAssumption DEF QueueIsList
<1>3. PICK l \in Nat : l = Len(mail) /\ Len(mail') = l
  BY PollingFacts, Numbers
<1>4. /\ mail' = mail /\ next' = next /\ adder' = adder /\ poller'.node = g
      /\ poller'.rest = Oldest(g, l) /\ poller'.pc # "idle" /\ poller'.pc # "first"
      /\ first' = IF poller.pc = "first" THEN poller.rest ELSE first
  BY <1>2, <1>3, PollingFacts DEF PollingShape
<1>5. /\ \A q \in Producers : ~Adding(q)
      /\ Chain(g, l) /\ g >= 1 /\ g \in 0..l /\ next[g] = Null
      /\ poller.rest = Oldest(g, l)
      /\ first = IF poller.pc = "first" THEN g ELSE Oldest(g, l)
      /\ last = IF poller.pc \in {"first", "last"} THEN l ELSE Newest(g, l)
      /\ size = IF poller.pc = "done" THEN l - g ELSE l - g + 1
      /\ poller.pc = "count" => poller.count = size
  BY <1>2, <1>3 DEF PollingShape, Chain
<1>6. poller \in PollerState /\ size \in Int /\ poller.count \in Int
  BY DEF TypeOK, QueueTypeOK, PollerTypeOK, ListTypeOK, PollerState
<1>7. /\ first' = Oldest(g, l)
      /\ last' = IF poller'.pc \in {"first", "last"} THEN l ELSE Newest(g, l)
      /\ size' = IF poller'.pc = "done" THEN l - g ELSE l - g + 1
      /\ poller'.pc = "count" => poller'.count = size'
  <2>1. CASE PollFirst
    <3>1. poller.pc = "first" /\ poller'.pc = "last" /\ last' = last /\ size' = size
      BY <1>6, <2>1, PollerMoves DEF PollFirst
    <3> QED BY <1>4, <1>5, <3>1
  <2>2. CASE PollLast
    <3>1. /\ poller.pc = "last" /\ poller'.pc = "size" /\ size' = size
          /\ last' = IF poller.rest = Null THEN Null ELSE last
      BY <1>6, <2>2, PollerMoves DEF PollLast
    <3>2. last' = Newest(g, l)
      BY <1>3, <1>5, <3>1 DEF Oldest, Newest, Null
    <3> QED BY <1>4, <1>5, <3>1, <3>2
  <2>3. CASE PollReadSize
    <3>1. poller.pc = "size" /\ poller'.pc = "count" /\ last' = last /\ size' = size
          /\ poller' = WithCount(poller, size)
      BY <1>6, <2>3, PollerMoves DEF PollReadSize
    <3>2. poller'.count = size
      BY <1>6, <3>1 DEF WithCount, PollerState
    <3> QED BY <1>4, <1>5, <3>1, <3>2
  <2>4. CASE PollWriteSize
    <3>1. poller.pc = "count" /\ poller'.pc = "done" /\ last' = last /\ size' = poller.count - 1
      BY <1>6, <2>4, PollerMoves DEF PollWriteSize
    <3> QED BY <1>3, <1>4, <1>5, <3>1
  <2> QED BY <2>1, <2>2, <2>3, <2>4 DEF PollStep
<1>8. PollingShape(g)'
  <2>1. Chain(g, l)'
    BY <1>4, <1>5 DEF Chain
  <2>2. \A q \in Producers : ~Adding(q)'
    BY <1>4, <1>5 DEF Adding
  <2> QED BY <1>3, <1>4, <1>5, <1>7, <2>1, <2>2 DEF PollingShape, Oldest, Newest
<1>9. Written(g)'
  <2>1. Past(g)' = Past(g) /\ Sent' = Sent /\ \A n : Kind(n)' = Kind(n)
    BY <1>1, <1>4 DEF Past, Sent, Kind
  <2> QED BY <1>2, <2>1 DEF Written, FeedInOrder
<1>10. PolledIsPeeked'
  <2>1. sender'.pc = sender.pc /\ sender'.root = sender.root /\ sender.pc = "polling"
        /\ poller.node = g
    BY <1>1, <1>2 DEF QueueIsList, PolledIsPeeked, PollingShape
  <2> QED BY <1>1, <1>4, <2>1 DEF QueueIsList, PolledIsPeeked
<1> QED BY <1>8, <1>9, <1>10 DEF Shape

\* poll() has returned node g: it is written, or the link was down
LEMMA ListReturn ==
  ASSUME TypeOK, QueueIsList, SenderWrite \/ SenderWriteFails
  PROVE  QueueIsList'
<1> SUFFICES ASSUME overlaps' = 0
             PROVE  PolledIsPeeked' /\ \E g \in Nat : Shape(g)' /\ Written(g)'
  BY DEF QueueIsList
<1>1. /\ overlaps = 0 /\ poller.pc = "done" /\ poller' = NotPolling /\ sender.pc = "polling"
      /\ first' = first /\ last' = last /\ next' = next /\ size' = size /\ mail' = mail
      /\ adder' = adder /\ link' = link
  BY DEF SenderWrite, SenderWriteFails, PollReturn, SenderAt, SenderUnchanged
<1>2. PICK g \in Nat : PollingShape(g) /\ Written(g)
  BY <1>1, ShapeOf, ProducersAssumption DEF QueueIsList
<1>3. poller'.pc = "idle" /\ poller.node = g /\ sender.root = g /\ g >= 1
  BY <1>1, <1>2 DEF NotPolling, PollingShape, QueueIsList, PolledIsPeeked
<1>4. Resting(g)'
  <2>1. Chain(g, Len(mail))' /\ QueueIdle'
    BY <1>1, <1>2, <1>3 DEF PollingShape, Chain, QueueIdle, Adding
  <2> QED BY <1>1, <1>2, <1>3, <2>1 DEF PollingShape, Resting, Oldest, Newest
<1>5. Past(g) = 1..(g - 1) /\ Past(g)' = 1..g
  BY <1>1, <1>3 DEF Past
<1>6. PolledIsPeeked'
  BY <1>3 DEF PolledIsPeeked, SenderWrite, SenderWriteFails, At, TypeOK, SenderTypeOK
<1>7. \A n : Kind(n)' = Kind(n)
  BY <1>1 DEF Kind
<1>8. /\ wire \in Seq(Nat) /\ DOMAIN wire = 1..Len(wire) /\ Len(wire) \in Nat
      /\ \A i \in DOMAIN wire : wire[i] \in 1..(g - 1)
  BY <1>2, <1>5, Numbers DEF Written, Sent
<1>9. CASE link = "up"
  <2>1. PICK after : after = wire' /\ after = Append(wire, g)
    BY <1>3, <1>9 DEF SenderWrite, SenderWriteFails
  <2>2. /\ DOMAIN after = 1..(Len(wire) + 1) /\ after[Len(wire) + 1] = g
        /\ \A i \in DOMAIN wire : after[i] = wire[i]
    BY <1>8, <2>1
  <2>3. FeedInOrder'
    <3>1. \A i, k \in DOMAIN after : i < k => after[i] < after[k]
      BY <1>2, <1>8, <2>2 DEF Written, FeedInOrder
    <3> QED BY <2>1, <3>1 DEF FeedInOrder
  <2>4. Sent' = Sent \union {g}
    <3>1. {after[i] : i \in DOMAIN after} = {wire[i] : i \in DOMAIN wire} \union {g}
      BY <1>8, <2>2
    <3> QED BY <2>1, <3>1 DEF Sent
  <2>5. 1..g = 1..(g - 1) \union {g}
    BY <1>3
  <2>6. completed' = (completed \/ Kind(g) = "complete")
    BY <1>3, <1>9 DEF SenderWrite, SenderWriteFails, Root, Kind
  <2>7. Sent = 1..(g - 1)
    BY <1>2, <1>5, <1>9 DEF Written
  <2>8. \A n \in 1..(g - 1) : Kind(n) = "complete" => completed
    BY <1>2, <1>5, <1>9 DEF Written
  <2>9. Written(g)'
    BY <1>5, <1>7, <2>3, <2>4, <2>5, <2>6, <2>7, <2>8 DEF Written
  <2> QED BY <1>4, <1>6, <2>9 DEF Shape
<1>10. CASE link # "up"
  <2>1. wire' = wire
    BY <1>10 DEF SenderWrite, SenderWriteFails
  <2>2. Sent' = Sent /\ 1..(g - 1) \subseteq 1..g
    BY <1>3, <2>1 DEF Sent
  <2>3. Written(g)'
    BY <1>1, <1>2, <1>5, <1>10, <2>1, <2>2 DEF Written, FeedInOrder
  <2> QED BY <1>4, <1>6, <2>3 DEF Shape
<1> QED BY <1>9, <1>10

\* Steps outside the queue.
LEMMA ListFrame ==
  ASSUME QueueIsList, UNCHANGED <<queueVars, wire, completed>>, link' = link \/ link' = "down",
         PolledIsPeeked => PolledIsPeeked'
  PROVE  QueueIsList'
<1> USE DEF queueVars
<1>1. /\ first' = first /\ last' = last /\ next' = next /\ size' = size /\ mail' = mail
      /\ adder' = adder /\ poller' = poller /\ overlaps' = overlaps /\ wire' = wire
      /\ completed' = completed
  OBVIOUS
<1>2. ASSUME NEW g \in Nat, Shape(g) PROVE Shape(g)'
  <2>1. Len(mail') = Len(mail) /\ \A l : Chain(g, l)' = Chain(g, l)
    BY <1>1 DEF Chain
  <2>2. QueueIdle' = QueueIdle /\ \A p : Adding(p)' = Adding(p) /\ Pending(p)' = Pending(p)
    BY <1>1 DEF QueueIdle, Adding, Pending
  <2>3. Resting(g) => Resting(g)'
    BY <1>1, <2>1, <2>2 DEF Resting, Oldest, Newest
  <2>4. \A p \in Producers : LinkingShape(p, g) => LinkingShape(p, g)'
    BY <1>1, <2>1, <2>2 DEF LinkingShape, Oldest, Newest
  <2>5. \A p \in Producers : CountingShape(p, g) => CountingShape(p, g)'
    BY <1>1, <2>1, <2>2 DEF CountingShape, Oldest, Newest
  <2>6. PollingShape(g) => PollingShape(g)'
    BY <1>1, <2>1, <2>2 DEF PollingShape, Oldest, Newest
  <2> QED BY <1>2, <2>3, <2>4, <2>5, <2>6 DEF Shape
<1>3. Sent' = Sent /\ \A n : Kind(n)' = Kind(n)
  BY <1>1 DEF Sent, Kind
<1>4. \A g \in Nat : Written(g) => Written(g)'
  BY <1>1, <1>3 DEF Written, FeedInOrder, Past
<1> QED BY <1>1, <1>2, <1>4 DEF QueueIsList

LEMMA SenderStartsNext ==
  ASSUME SenderStarts, [Next]_vars
  PROVE  SenderStarts'
<1> USE DEF SenderStarts, senderVars, pigVars
<1>1. CASE Pig
  BY <1>1 DEF Pig, PlanReady, LaunchStarted, ProgressUpdated, JobsSubmitted, JobStarted,
     JobFinished, JobFinishedThrows, JobFailed, OutputCompleted, LaunchCompleted, PigAborts,
     RunReturns, RunReturnsFailed, Callback
<1>2. CASE Main
  BY <1>2 DEF Main, Connect, ConnectFails, DoResetProgress, DoSetCurrentJob, DoAddMessage,
     MainAddStep, DoInsertJob, DoInsertMRPlan, DoInsertCounter, DoInsertFail, DbFails, DoThrow,
     DoWriteExplain, WriteExplainFails, DoExit
<1>3. CASE MrTimer
  BY <1>3 DEF MrTimer, MrTick, MrFetch, MrDies, MrTest, MrAdd, MrAddStep, MrUnchanged
<1>4. CASE SenderTimer
  BY <1>4 DEF SenderTimer, SenderNotEmpty, SenderPeekNull, SenderPeek, SenderPoll,
     SenderPollStep, SenderWrite, SenderWriteFails, SenderClose, SenderUnchanged, SenderAt
<1>5. CASE Environment
  BY <1>5 DEF Environment, LinkBreaks, Kill, JvmEnds, JobAdvances
<1>6. CASE UNCHANGED vars
  BY <1>6 DEF vars
<1> QED BY <1>1, <1>2, <1>3, <1>4, <1>5, <1>6 DEF Next

LEMMA ListAddStep ==
  ASSUME TypeOK, QueueIsList, NEW p \in Producers, AddStep(p),
         UNCHANGED <<wire, completed, link, sender>>
  PROVE  QueueIsList'
  BY ListAddLast, ListAddLink, ListAddCount DEF AddStep

LEMMA ListNext ==
  ASSUME TypeOK, SenderStarts, QueueIsList, [Next]_vars
  PROVE  QueueIsList'
<1> USE DEF senderVars
<1>0. ASSUME UNCHANGED <<queueVars, senderVars>>, link' = link \/ link' = "down"
      PROVE  QueueIsList'
  <2>1. PolledIsPeeked => PolledIsPeeked'
    BY <1>0 DEF PolledIsPeeked, queueVars
  <2> QED BY <1>0, <2>1, ListFrame
<1>1. CASE Pig
  BY <1>0, <1>1 DEF Pig, PlanReady, LaunchStarted, ProgressUpdated, JobsSubmitted, JobStarted,
     JobFinished, JobFinishedThrows, JobFailed, OutputCompleted, LaunchCompleted, PigAborts,
     RunReturns, RunReturnsFailed, Callback
<1>2. "main" \in Producers /\ "mr" \in Producers
  BY ProducersAssumption
<1>3. CASE DoAddMessage
  <2>1. Head(todo).what \in Message
    BY <1>3, HeadEffect DEF DoAddMessage, TypeOK
  <2> QED BY <1>2, <1>3, <2>1, ListAddCall DEF DoAddMessage
<1>4. CASE MainAddStep
  BY <1>2, <1>4, ListAddStep DEF MainAddStep
<1>5. CASE Connect
  <2>1. UNCHANGED <<queueVars, wire, completed>> /\ link' = link
    BY <1>5 DEF Connect
  <2>2. sender.pc = "off" /\ sender'.pc = "loop"
    BY <1>5 DEF Connect, SenderStarts, At, TypeOK, SenderTypeOK
  <2>3. PolledIsPeeked => PolledIsPeeked'
    BY <2>1, <2>2 DEF PolledIsPeeked, queueVars
  <2> QED BY <2>1, <2>3, ListFrame
<1>6. CASE Main /\ ~DoAddMessage /\ ~MainAddStep /\ ~Connect
  BY <1>0, <1>6 DEF Main, ConnectFails, DoResetProgress, DoSetCurrentJob, DoInsertJob,
     DoInsertMRPlan, DoInsertCounter, DoInsertFail, DbFails, DoThrow, DoWriteExplain,
     WriteExplainFails, DoExit
<1>7. CASE MrAdd
  <2>1. [kind |-> mr.pc, job |-> mr.id] \in Message
    BY <1>7 DEF MrAdd, TypeOK, MrTypeOK, Message, Kinds
  <2> QED BY <1>2, <1>7, <2>1, ListAddCall DEF MrAdd, MrUnchanged
<1>8. CASE MrAddStep
  BY <1>2, <1>8, ListAddStep DEF MrAddStep, MrUnchanged
<1>9. CASE MrTick \/ MrFetch \/ MrDies \/ MrTest
  BY <1>0, <1>9 DEF MrTick, MrFetch, MrDies, MrTest, MrUnchanged
<1>10. CASE SenderPoll
  BY <1>10, ListPollCall DEF SenderPoll, SenderAt, SenderUnchanged
<1>11. CASE SenderPollStep
  BY <1>11, ListPollStep DEF SenderPollStep, SenderUnchanged
<1>12. CASE SenderWrite \/ SenderWriteFails
  BY <1>12, ListReturn
<1>13. CASE SenderNotEmpty \/ SenderPeekNull \/ SenderPeek \/ SenderClose
  <2>1. UNCHANGED <<queueVars, wire, completed>> /\ link' = link
    BY <1>13 DEF SenderNotEmpty, SenderPeekNull, SenderPeek, SenderClose, SenderUnchanged
  <2>2. /\ sender.pc # "polling" /\ sender'.pc # "polling"
        /\ sender'.pc = "poll" => sender'.root = first
    BY <1>13 DEF SenderNotEmpty, SenderPeekNull, SenderPeek, SenderClose, SenderAt
  <2>3. PolledIsPeeked => PolledIsPeeked'
    BY <2>1, <2>2 DEF PolledIsPeeked, queueVars
  <2> QED BY <2>1, <2>3, ListFrame
<1>14. CASE Environment
  BY <1>0, <1>14 DEF Environment, LinkBreaks, Kill, JvmEnds, JobAdvances
<1>15. CASE UNCHANGED vars
  BY <1>0, <1>15 DEF vars
<1> QED BY <1>1, <1>3, <1>4, <1>5, <1>6, <1>7, <1>8, <1>9, <1>10, <1>11, <1>12, <1>13, <1>14, <1>15
           DEF Next, MrTimer, SenderTimer

LEMMA ListInit == Init => SenderStarts /\ QueueIsList
<1> SUFFICES ASSUME Init PROVE SenderStarts /\ QueueIsList
  OBVIOUS
<1>1. /\ mail = <<>> /\ next = <<>> /\ first = Null /\ last = Null /\ size = 0
      /\ poller.pc = "idle" /\ QueueIdle /\ sender.pc = "off" /\ wire = <<>>
  BY DEF Init, QueueInit, NotPolling, NotAdding, QueueIdle, Adding
<1>2. Len(mail) = 0 /\ DOMAIN wire = {}
  BY <1>1
<1>3. Resting(0)
  BY <1>1, <1>2 DEF Resting, Chain, Oldest, Newest
<1>4. Past(0) = {} /\ Sent = {}
  BY <1>1, <1>2 DEF Past, Sent
<1>5. Written(0)
  BY <1>2, <1>4 DEF Written, FeedInOrder
<1>6. PolledIsPeeked
  BY <1>1 DEF PolledIsPeeked
<1> QED BY <1>1, <1>3, <1>5, <1>6 DEF QueueIsList, Shape, SenderStarts

-----------------------------------------------------------------------------
(* A success follows a "complete".                                         *)

KindsOf(nodes) == {Kind(n) : n \in nodes}

Follows(t, kinds) ==
  \A i \in DOMAIN t : t[i].do = "addMessage" /\ t[i].what.kind = "success" =>
    \/ "complete" \in kinds
    \/ \E k \in 1..(i - 1) : t[k].do = "addMessage" /\ t[k].what.kind = "complete"

LEMMA SuccessFollowsIs ==
  SuccessFollows <=> /\ \A n \in Node : Kind(n) = "success" =>
                          \E k \in Node : k < n /\ Kind(k) = "complete"
                     /\ Follows(todo, KindsOf(Node))
  BY DEF SuccessFollows, Follows, KindsOf

LEMMA NoSuccessFollows ==
  ASSUME NEW t, NEW kinds, NoneAdds(t, "success")
  PROVE  Follows(t, kinds)
  BY DEF NoneAdds, Follows

LEMMA LaunchFollows ==
  ASSUME NEW n, NEW kinds
  PROVE  Follows(LaunchCompletedNotification(n), kinds)
<1>1. PICK a, b, c, d : /\ a = InsertJob("complete", n) /\ b = AddMessage("complete", n)
                        /\ c = AddMessage("success", 0) /\ d = InsertJob("duration", 0)
  OBVIOUS
<1>2. /\ a.do = "insertJob" /\ b.do = "addMessage" /\ b.what.kind = "complete"
      /\ d.do = "insertJob"
  BY <1>1, EffectFields
<1>3. PICK t : t = << a, b, c, d >>
  OBVIOUS
<1>4. DOMAIN t = 1..4 /\ t[1] = a /\ t[2] = b /\ t[3] = c /\ t[4] = d
  BY <1>3
<1>5. Follows(t, kinds)
  BY <1>2, <1>4 DEF Follows
<1> QED BY <1>1, <1>3, <1>5 DEF LaunchCompletedNotification

LEMMA TailFollows ==
  ASSUME TypeOK, NEW what, Doing(what), NEW kinds, NEW more, kinds \subseteq more,
         Follows(todo, kinds),
         todo[1].do = "addMessage" /\ todo[1].what.kind = "complete" => "complete" \in more
  PROVE  Follows(Tail(todo), more)
<1>1. PICK t : t = Tail(todo)
  OBVIOUS
<1>2. /\ Len(todo) \in Nat /\ Len(todo) >= 1 /\ DOMAIN todo = 1..Len(todo)
      /\ DOMAIN t = 1..(Len(todo) - 1) /\ \A k \in 1..(Len(todo) - 1) : t[k] = todo[k + 1]
  BY <1>1, TodoFacts
<1>3. ASSUME NEW a \in DOMAIN t, t[a].do = "addMessage", t[a].what.kind = "success",
             "complete" \notin more
      PROVE  \E k \in 1..(a - 1) : t[k].do = "addMessage" /\ t[k].what.kind = "complete"
  <2>1. a + 1 \in DOMAIN todo /\ todo[a + 1] = t[a] /\ a \in Nat
    BY <1>2
  <2>2. PICK k \in 1..(a + 1 - 1) : todo[k].do = "addMessage" /\ todo[k].what.kind = "complete"
    BY <1>3, <2>1 DEF Follows
  <2>3. k # 1
    BY <1>3, <2>2
  <2>4. k - 1 \in 1..(a - 1) /\ k - 1 \in DOMAIN t /\ t[k - 1] = todo[k]
    BY <1>2, <2>1, <2>2, <2>3
  <2> QED BY <2>2, <2>4
<1>4. Follows(t, more)
  BY <1>3 DEF Follows
<1> QED BY <1>1, <1>4

LEMMA FollowsFrame ==
  ASSUME SuccessFollows, mail' = mail, Follows(todo', KindsOf(Node))
  PROVE  SuccessFollows'
<1>1. Node' = Node /\ (\A n : Kind(n)' = Kind(n)) /\ KindsOf(Node)' = KindsOf(Node)
  BY DEF Node, Kind, KindsOf
<1>2. Follows(todo, KindsOf(Node))'
  BY <1>1 DEF Follows
<1> QED BY <1>1, <1>2, SuccessFollowsIs DEF SuccessFollows, Follows, KindsOf

\* A message is added: a success only once "complete" is in the queue.
LEMMA FollowsAdd ==
  ASSUME TypeOK, SuccessFollows, NEW p, NEW m \in Message, AddCall(p, m),
         m.kind = "success" => "complete" \in KindsOf(Node),
         Follows(todo', KindsOf(Node) \union {m.kind})
  PROVE  SuccessFollows'
<1>1. PICK new : new = Len(mail) + 1
  OBVIOUS
<1>2. /\ Node' = Node \union {new} /\ \A n \in Node : n \in Nat /\ n < new
      /\ mail'[new] = m /\ \A n \in Node : mail'[n] = mail[n]
  BY <1>1, MailGrows
<1>3. Kind(new)' = m.kind /\ \A n \in Node : Kind(n)' = Kind(n)
  BY <1>2 DEF Kind
<1>4. \A n \in Node' : Kind(n)' = "success" => \E k \in Node' : k < n /\ Kind(k)' = "complete"
  BY <1>2, <1>3, SuccessFollowsIs DEF KindsOf
<1>5. KindsOf(Node)' = KindsOf(Node) \union {m.kind}
  BY <1>2, <1>3 DEF KindsOf
<1>6. Follows(todo', KindsOf(Node)')
  BY <1>5
<1> QED BY <1>4, <1>6 DEF SuccessFollows, Follows, KindsOf

LEMMA FollowsPig ==
  ASSUME SuccessFollows, Pig
  PROVE  SuccessFollows'
<1>0. PICK kinds : kinds = KindsOf(Node)
  OBVIOUS
<1>1. ASSUME NEW body, Callback(body), NoneAdds(body, "success") \/ Follows(body, kinds)
      PROVE  SuccessFollows'
  <2>1. todo' = body /\ mail' = mail
    BY <1>1 DEF Callback, queueVars
  <2>2. Follows(body, kinds)
    BY <1>1, NoSuccessFollows
  <2> QED BY <1>0, <2>1, <2>2, FollowsFrame
<1>2. CASE PlanReady
  BY <1>1, <1>2, PlanOwed DEF PlanReady
<1>3. CASE LaunchStarted
  BY <1>1, <1>3, RunOwed DEF LaunchStarted
<1>4. CASE ProgressUpdated
  BY <1>1, <1>4, RunOwed DEF ProgressUpdated
<1>5. ASSUME NEW j \in Jobs,
             JobsSubmitted(j) \/ JobStarted(j) \/ JobFinished(j) \/ JobFailed(j)
      PROVE  SuccessFollows'
  BY <1>1, <1>5, JobOwed DEF JobsSubmitted, JobStarted, JobFinished, JobFailed
<1>6. ASSUME NEW j \in Jobs, JobFinishedThrows(j) PROVE SuccessFollows'
  BY <1>1, <1>6, EmptyOwed DEF JobFinishedThrows
<1>7. CASE OutputCompleted
  BY <1>1, <1>7, RunOwed DEF OutputCompleted
<1>8. CASE LaunchCompleted
  BY <1>1, <1>8, LaunchFollows DEF LaunchCompleted
<1>9. CASE PigAborts
  BY <1>1, <1>9, EmptyOwed DEF PigAborts
<1>10. CASE RunReturns
  BY <1>1, <1>10, EmptyOwed DEF RunReturns
<1>11. ASSUME NEW message, RunReturnsFailed(message) PROVE SuccessFollows'
  BY <1>1, <1>11, RunOwed DEF RunReturnsFailed
<1> QED BY <1>2, <1>3, <1>4, <1>5, <1>6, <1>7, <1>8, <1>9, <1>10, <1>11 DEF Pig

LEMMA FollowsMain ==
  ASSUME TypeOK, SuccessFollows, Main
  PROVE  SuccessFollows'
<1> USE DEF queueVars
<1>0. Follows(todo, KindsOf(Node))
  BY SuccessFollowsIs
<1>1. CASE DoAddMessage
  <2>1. PICK m \in Message : m = Head(todo).what /\ AddCall("main", m) /\ todo' = Tail(todo)
    BY <1>1, HeadEffect DEF DoAddMessage, TypeOK
  <2>2. Doing("addMessage")
    BY <1>1 DEF DoAddMessage
  <2>3. todo[1].do = "addMessage" /\ todo[1].what = m /\ 1 \in DOMAIN todo
    BY <2>1, <2>2, TodoFacts
  <2>4. m.kind = "success" => "complete" \in KindsOf(Node)
    BY <1>0, <2>3 DEF Follows
  <2>5. PICK more : more = KindsOf(Node) \union {m.kind}
    OBVIOUS
  <2>6. Follows(Tail(todo), more)
    BY <1>0, <2>2, <2>3, <2>5, TailFollows
  <2> QED BY <2>1, <2>4, <2>5, <2>6, FollowsAdd
<1>2. ASSUME NEW what, Doing(what), what # "addMessage", mail' = mail, todo' = Tail(todo)
      PROVE  SuccessFollows'
  <2>1. todo[1].do # "addMessage"
    BY <1>2, TodoFacts
  <2>2. Follows(Tail(todo), KindsOf(Node))
    BY <1>0, <1>2, <2>1, TailFollows
  <2> QED BY <1>2, <2>2, FollowsFrame
<1>3. ASSUME todo' = <<>>, mail' = mail PROVE SuccessFollows'
  BY <1>3, FollowsFrame, NoSuccessFollows, EmptyOwed
<1>4. ASSUME todo' = todo, mail' = mail PROVE SuccessFollows'
  BY <1>0, <1>4, FollowsFrame
<1>5. CASE Connect \/ ConnectFails
  BY <1>4, <1>5 DEF Connect, ConnectFails, mainVars
<1>6. CASE MainAddStep
  BY <1>4, <1>6 DEF MainAddStep, mainVars, AddStep, AddLast, AddLink, AddReadSize, AddWriteSize
<1>7. CASE DoResetProgress
  BY <1>2, <1>7 DEF DoResetProgress
<1>8. CASE DoSetCurrentJob
  BY <1>2, <1>8 DEF DoSetCurrentJob
<1>9. CASE DoInsertJob
  BY <1>2, <1>9 DEF DoInsertJob
<1>10. CASE DoInsertMRPlan
  BY <1>2, <1>10 DEF DoInsertMRPlan
<1>11. CASE DoInsertCounter
  BY <1>2, <1>11 DEF DoInsertCounter
<1>12. CASE DoInsertFail
  BY <1>2, <1>12 DEF DoInsertFail
<1>13. CASE DoWriteExplain
  BY <1>2, <1>13 DEF DoWriteExplain
<1>14. CASE DoExit
  BY <1>2, <1>14 DEF DoExit
<1>15. CASE DbFails \/ DoThrow \/ WriteExplainFails
  BY <1>3, <1>15 DEF DbFails, DoThrow, WriteExplainFails
<1> QED BY <1>1, <1>5, <1>6, <1>7, <1>8, <1>9, <1>10, <1>11, <1>12, <1>13, <1>14, <1>15 DEF Main

LEMMA FollowsTimers ==
  ASSUME TypeOK, SuccessFollows, MrTimer \/ SenderTimer \/ Environment \/ UNCHANGED vars
  PROVE  SuccessFollows'
<1> USE DEF queueVars, mainVars, MrUnchanged, SenderUnchanged
<1>0. Follows(todo, KindsOf(Node))
  BY SuccessFollowsIs
<1>1. ASSUME todo' = todo, mail' = mail PROVE SuccessFollows'
  BY <1>0, <1>1, FollowsFrame
<1>2. CASE MrAdd
  <2>1. PICK m \in Message : m = [kind |-> mr.pc, job |-> mr.id] /\ AddCall("mr", m)
    BY <1>2 DEF MrAdd, TypeOK, MrTypeOK, Message, Kinds
  <2>2. m.kind # "success" /\ todo' = todo
    BY <1>2, <2>1 DEF MrAdd
  <2>3. PICK more : more = KindsOf(Node) \union {m.kind}
    OBVIOUS
  <2>4. Follows(todo, more)
    BY <1>0, <2>3 DEF Follows
  <2> QED BY <2>1, <2>2, <2>3, <2>4, FollowsAdd
<1>3. CASE MrTick \/ MrFetch \/ MrDies \/ MrTest \/ MrAddStep
  BY <1>1, <1>3 DEF MrTick, MrFetch, MrDies, MrTest, MrAddStep, AddStep, AddLast, AddLink,
                    AddReadSize, AddWriteSize
<1>4. CASE SenderTimer
  BY <1>1, <1>4 DEF SenderTimer, SenderNotEmpty, SenderPeekNull, SenderPeek, SenderPoll,
     SenderPollStep, SenderWrite, SenderWriteFails, SenderClose, PollCall, PollStep, PollFirst,
     PollLast, PollReadSize, PollWriteSize, PollReturn
<1>5. CASE Environment
  BY <1>1, <1>5 DEF Environment, LinkBreaks, Kill, JvmEnds, JobAdvances
<1>6. CASE UNCHANGED vars
  BY <1>1, <1>6 DEF vars
<1> QED BY <1>2, <1>3, <1>4, <1>5, <1>6 DEF MrTimer

LEMMA FollowsNext ==
  ASSUME TypeOK, SuccessFollows, [Next]_vars
  PROVE  SuccessFollows'
  BY FollowsPig, FollowsMain, FollowsTimers DEF Next

LEMMA FollowsInit == Init => SuccessFollows
<1> SUFFICES ASSUME Init PROVE SuccessFollows
  OBVIOUS
<1>1. Node = {} /\ todo = <<>>
  BY DEF Init, QueueInit, Node
<1> QED BY <1>1 DEF SuccessFollows

-----------------------------------------------------------------------------
(* What peek() and poll() can still come to, by induction on the hops.     *)

LEMMA QueuedIs ==
  ASSUME TypeOK, NEW g \in Nat, Resting(g)
  PROVE  Queued = (g + 1)..Len(mail)
<1>1. PICK l \in Nat : l = Len(mail)
  BY Numbers
<1>2. /\ g \in 0..l /\ \A n \in (g + 1)..l : next[n] = IF n = l THEN Null ELSE n + 1
      /\ first = Oldest(g, l)
  BY <1>1 DEF Resting, Chain
<1> DEFINE Eq(h) == h = [k \in 0..l |-> IF k = 0 THEN first
                                        ELSE IF h[k - 1] = Null THEN Null ELSE next[h[k - 1]]]
           hop == CHOOSE h : Eq(h)
<1>3. Queued = {hop[k] : k \in 0..l} \ {Null}
  BY <1>1, Zenon DEF Queued
<1>4. Eq(hop)
  <2>1. PICK w : w = [k \in 0..l |-> IF g + 1 + k <= l THEN g + 1 + k ELSE Null]
    OBVIOUS
  <2>2. ASSUME NEW k \in 0..l
        PROVE  w[k] = IF k = 0 THEN first ELSE IF w[k - 1] = Null THEN Null ELSE next[w[k - 1]]
    <3>1. CASE k = 0
      BY <1>2, <2>1, <3>1 DEF Oldest
    <3>2. CASE k # 0
      <4>1. k - 1 \in 0..l /\ k - 1 + 1 = k
        BY <3>2
      <4>2. w[k] = (IF g + 1 + k <= l THEN g + 1 + k ELSE Null)
            /\ w[k - 1] = (IF g + k <= l THEN g + k ELSE Null)
        BY <2>1, <4>1
      <4>3. CASE g + k <= l
        <5>1. g + k \in (g + 1)..l /\ g + k # Null
          BY <3>2, <4>3 DEF Null
        <5>2. next[g + k] = IF g + k = l THEN Null ELSE g + k + 1
          BY <1>2, <5>1
        <5>3. w[k - 1] = g + k
          BY <4>2, <4>3
        <5>4. w[k] = next[w[k - 1]]
          BY <4>2, <4>3, <5>2, <5>3
        <5> QED BY <3>2, <5>1, <5>3, <5>4
      <4>4. CASE ~(g + k <= l)
        BY <3>2, <4>2, <4>4
      <4> QED BY <4>3, <4>4
    <3> QED BY <3>1, <3>2
  <2>3. Eq(w)
    BY <2>1, <2>2
  <2> HIDE DEF Eq
  <2> QED BY <2>3, Zenon
<1>5. ASSUME NEW k \in 0..l
      PROVE  hop[k] = IF k = 0 THEN first ELSE IF hop[k - 1] = Null THEN Null ELSE next[hop[k - 1]]
  <2> HIDE DEF hop
  <2> QED BY <1>4
<1> HIDE DEF hop, Eq
<1>6. \A k \in 0..l : hop[k] = IF g + 1 + k <= l THEN g + 1 + k ELSE Null
  <2> DEFINE T == {k \in Nat : k <= l => hop[k] = IF g + 1 + k <= l THEN g + 1 + k ELSE Null}
  <2>1. 0 \in T
    <3>1. hop[0] = first
      BY <1>5
    <3> QED BY <1>2, <3>1 DEF Oldest
  <2>2. ASSUME NEW k \in Nat, k \in T PROVE k + 1 \in T
    <3> SUFFICES ASSUME k + 1 <= l
                 PROVE  hop[k + 1] = IF g + 2 + k <= l THEN g + 2 + k ELSE Null
      OBVIOUS
    <3>1. k + 1 \in 0..l /\ k + 1 # 0 /\ (k + 1) - 1 = k
      OBVIOUS
    <3>2. hop[k + 1] = IF hop[k] = Null THEN Null ELSE next[hop[k]]
      BY <1>5, <3>1
    <3>3. hop[k] = IF g + 1 + k <= l THEN g + 1 + k ELSE Null
      BY <2>2
    <3>4. CASE g + 1 + k <= l
      <4>1. g + 1 + k \in (g + 1)..l /\ g + 1 + k # Null
        BY <3>4 DEF Null
      <4>2. next[g + 1 + k] = IF g + 1 + k = l THEN Null ELSE g + 2 + k
        BY <1>2, <4>1
      <4>3. hop[k] = g + 1 + k
        BY <3>3, <3>4
      <4>4. hop[k + 1] = IF g + 1 + k = l THEN Null ELSE g + 2 + k
        BY <3>2, <4>1, <4>2, <4>3
      <4> QED BY <3>4, <4>4
    <3>5. CASE ~(g + 1 + k <= l)
      BY <3>2, <3>3, <3>5
    <3> QED BY <3>4, <3>5
  <2> HIDE DEF T
  <2>3. \A k \in Nat : k \in T
    BY <2>1, <2>2, NatInd
  <2> QED BY <2>3 DEF T
<1>7. \A k \in 0..l : hop[k] # Null => hop[k] \in (g + 1)..l
  BY <1>6 DEF Null
<1>8. ASSUME NEW n \in (g + 1)..l PROVE n # Null /\ \E k \in 0..l : hop[k] = n
  <2>1. PICK k \in 0..l : g + 1 + k = n /\ g + 1 + k <= l
    <3>1. n - (g + 1) \in 0..l /\ g + 1 + (n - (g + 1)) = n
      OBVIOUS
    <3> QED BY <3>1
  <2>2. hop[k] = n /\ n # Null
    BY <1>6, <2>1 DEF Null
  <2> QED BY <2>2
<1> QED BY <1>1, <1>3, <1>7, <1>8

LEMMA ListSound ==
  ASSUME TypeOK, QueueIsList, SuccessFollows
  PROVE  SoundWithoutOverlap
<1> SUFFICES ASSUME overlaps = 0 PROVE FeedInOrder /\ NothingLost /\ SuccessIsDue
  BY DEF SoundWithoutOverlap
<1>1. PICK g \in Nat : Shape(g) /\ Written(g)
  BY DEF QueueIsList
<1>2. PICK l \in Nat : l = Len(mail) /\ Node = 1..l
  BY Numbers
<1>3. ASSUME QueueIdle
      PROVE  /\ Resting(g) /\ g \in 0..l /\ size = l - g /\ first = Oldest(g, l) /\ Past(g) = 1..g
             /\ Queued = (g + 1)..l
  <2>1. Resting(g)
    BY <1>1, <1>3, ShapeOf, ProducersAssumption
  <2>2. g \in 0..l /\ size = l - g /\ first = Oldest(g, l) /\ Past(g) = 1..g
    BY <1>2, <1>3, <2>1 DEF Resting, Chain, Past, QueueIdle
  <2> QED BY <1>2, <2>1, <2>2, QueuedIs
<1>4. NothingLost
  <2> SUFFICES ASSUME QueueIdle, link = "up"
               PROVE  Queued \union Sent = Node /\ size = Cardinality(Queued)
    BY DEF NothingLost
  <2>1. Sent = 1..g
    BY <1>1, <1>3 DEF Written
  <2>2. Queued \union Sent = Node
    BY <1>2, <1>3, <2>1
  <2>3. Cardinality((g + 1)..l) = IF g + 1 <= l THEN l - (g + 1) + 1 ELSE 0
    BY FS_Interval
  <2> QED BY <1>3, <2>2, <2>3
<1>5. SuccessIsDue
  <2> SUFFICES ASSUME QueueIdle, first # Null, Kind(first) = "success", link # "down"
               PROVE  completed
    BY DEF SuccessIsDue
  <2>1. first = g + 1 /\ first \in Node
    BY <1>2, <1>3 DEF Oldest
  <2>2. PICK k \in Node : k < first /\ Kind(k) = "complete"
    BY <2>1 DEF SuccessFollows
  <2>3. k \in Past(g)
    BY <1>2, <1>3, <2>1, <2>2
  <2>4. link = "up"
    BY DEF TypeOK, PigTypeOK
  <2> QED BY <1>1, <2>2, <2>3, <2>4 DEF Written
<1> QED BY <1>1, <1>4, <1>5 DEF Written

-----------------------------------------------------------------------------
(* The theorems.                                                           *)

\* While no call of add() or poll() begins inside another one, two producers
\* do no harm: the feed is in order, the unlocked LinkedList loses nothing and
\* counts right, and the sender never spins on a success that is not due.
THEOREM SoundUntilOverlap == Spec => []SoundWithoutOverlap
<1>1. TypeOK /\ SenderStarts /\ QueueIsList /\ SuccessFollows /\ [Next]_vars
        => (SenderStarts /\ QueueIsList /\ SuccessFollows)'
  BY SenderStartsNext, ListNext, FollowsNext
<1>2. TypeOK /\ QueueIsList /\ SuccessFollows => SoundWithoutOverlap
  BY ListSound
<1> QED BY <1>1, <1>2, ListInit, FollowsInit, TypeCorrect, PTL DEF Spec

LEMMA NeverOverlaps ==
  ASSUME MaxOverlap = 0
  PROVE  TypeOK /\ SoundWithoutOverlap => FeedInOrder /\ NothingLost /\ SuccessIsDue
<1>1. TypeOK => overlaps = 0
  BY DEF TypeOK, QueueTypeOK, ListTypeOK
<1> QED BY <1>1 DEF SoundWithoutOverlap

\* Without overlap: no message is lost between calls while the link holds, and
\* isEmpty() tells whether the queue is empty.
THEOREM NothingLostAlone ==
  ASSUME MaxOverlap = 0
  PROVE  Spec => []NothingLost
<1>1. TypeOK /\ SoundWithoutOverlap => NothingLost
  BY NeverOverlaps
<1> QED BY <1>1, SoundUntilOverlap, TypeCorrect, PTL

\* Without overlap: a success at the head is due, so the timer's loop ends.
THEOREM SuccessIsDueAlone ==
  ASSUME MaxOverlap = 0
  PROVE  Spec => []SuccessIsDue
<1>1. TypeOK /\ SoundWithoutOverlap => SuccessIsDue
  BY NeverOverlaps
<1> QED BY <1>1, SoundUntilOverlap, TypeCorrect, PTL
=============================================================================
