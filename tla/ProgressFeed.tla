---------------------------- MODULE ProgressFeed ----------------------------
(***************************************************************************)
(* What a launched JVM owes its two readers: the page, which is shown a    *)
(* feed of notifications, and the query history, which keeps a log of the  *)
(* operations (table job).  PigRun implements it in local mode.            *)
(***************************************************************************)
EXTENDS Integers, Sequences

CONSTANTS
  Messages,  \* the notifications, [kind, job]
  Logged     \* the kinds that are also rows of the log

VARIABLES
  log,  \* rows, in the order they were stored
  feed  \* notifications, in the order the page is sent them

Init == log = <<>> /\ feed = <<>>

Closed == \E i \in DOMAIN feed : feed[i].kind = "success"

Position(m) == CHOOSE a \in DOMAIN log : log[a] = m

Store(m) ==
  /\ log' = Append(log, m)
  /\ UNCHANGED feed

\* An operation is shown after it was logged, in the order of the log; a
\* success is shown after "complete", and nothing after a success.
Show(m) ==
  /\ ~Closed
  /\ m.kind = "success" => \E i \in DOMAIN feed : feed[i].kind = "complete"
  /\ m.kind \in Logged =>
       /\ \E a \in DOMAIN log : log[a] = m
       /\ \A i \in DOMAIN feed : feed[i].kind \in Logged => Position(feed[i]) < Position(m)
  /\ feed' = Append(feed, m)
  /\ UNCHANGED log

Next == \E m \in Messages : Store(m) \/ Show(m)

Spec == Init /\ [][Next]_<<log, feed>>
=============================================================================
