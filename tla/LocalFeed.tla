----------------------------- MODULE LocalFeed ------------------------------
(***************************************************************************)
(* Why the feed of a local run stays in order although nothing locks the   *)
(* queue: the invariant that PigRunProofs shows to be inductive.           *)
(*                                                                         *)
(* In local mode Pig's thread is the only producer.  The race with poll()  *)
(* can lose a message (the run lost_message of PigRun), but the nodes that *)
(* are left are always linked in the order of their numbers.               *)
(***************************************************************************)
EXTENDS PigRun

main == adder["main"]

\* between l = last and the write that links the new node
Linking == main.pc \in {"last", "link"}

\* the newest node that a field may refer to, "last" aside
Top == IF Linking THEN Len(mail) - 1 ELSE Len(mail)

OneProducer == adder["mr"] = NotAdding /\ mr.pc = "off"

SenderStarts == stage = "connect" => sender.pc = "off"

BelowTop ==
  /\ Linking => main.node = Len(mail) /\ main.seen <= Top
  /\ first <= Top /\ \A n \in Node : next[n] <= Top
  /\ poller.pc # "idle" => poller.node <= Top /\ poller.rest <= Top
  /\ \A i \in DOMAIN wire : wire[i] <= Top

\* the list is linked upwards, and what was written lies below it
Upwards ==
  /\ \A n \in Node : next[n] = Null \/ n < next[n]
  /\ first # Null => \A i \in DOMAIN wire : wire[i] < first
  /\ poller.pc # "idle" => /\ poller.rest = Null \/ poller.node < poller.rest
                           /\ \A i \in DOMAIN wire : wire[i] < poller.node
  /\ poller.pc \in {"last", "size", "count", "done"} =>
       first = Null \/ poller.node < first

\* an add that found the list empty is alone at its head
EmptyListAdd ==
  /\ first # Null => last # Null
  /\ Linking /\ main.seen = Null => first = Null /\ poller.pc \notin {"first", "last"}
  /\ main.pc = "link" /\ main.seen = Null => last = main.node

\* the poll holds the head: what it unlinks is what was peeked at
HeadPolled ==
  /\ poller.pc \in {"first", "last"} => last # Null
  /\ poller.pc = "first" => first = poller.node
  /\ poller.pc = "last" => first = poller.rest
  /\ sender.pc = "poll" => first = sender.root
  /\ sender.pc = "polling" => poller.pc # "idle" /\ poller.node = sender.root
  /\ sender.pc # "polling" => poller.pc = "idle"

\* a success is taken from the queue and written only after "complete"
SuccessHeldBack ==
  /\ sender.pc \in {"poll", "polling"} /\ Kind(sender.root) = "success" => completed
  /\ CompletedIsReported
  /\ \A i \in DOMAIN wire : Kind(wire[i]) = "success" => sender.pc \in {"close", "dead"}

LocalInv ==
  /\ OneProducer /\ SenderStarts /\ BelowTop /\ Upwards /\ EmptyListAdd /\ HeadPolled
  /\ FeedInOrder /\ SuccessHeldBack /\ SuccessEndsFeed
-----------------------------------------------------------------------------
(* The feed shows the operations in the order of table job: a callback     *)
(* stores at most one operation, once, and adds its message before the     *)
(* next callback begins.                                                   *)

\* the entries of a callback body that store or add an operation
Storing(t) == {i \in DOMAIN t : t[i].do = "insertJob"  /\ t[i].what.kind \in Logged}
Telling(t) == {i \in DOMAIN t : t[i].do = "addMessage" /\ t[i].what.kind \in Logged}

\* Pig's launcher is past the point at which operation m is stored
Happened(m) ==
  /\ m.kind = "launch" => stage \notin {"connect", "planning"}
  /\ m.kind = "start" => stage \notin {"connect", "planning", "planned"}
  /\ m.kind = "jobsubmit" => jobs[m.job] # "waiting"
  /\ m.kind = "jobstart" => jobs[m.job] \notin {"waiting", "submitted"}
  /\ m.kind \in {"jobfinish", "jobfail"} => jobs[m.job] \in Ended
  /\ m.kind = "outputcomplete" =>
       stage \notin {"connect", "planning", "planned", "launched"}
  /\ m.kind = "complete" => stage \in {"completed", "aborted", "returned"}

LoggedRows == {a \in DOMAIN jobRows : jobRows[a].kind \in Logged}

StoredOnce ==
  /\ \A a, b \in LoggedRows : jobRows[a] = jobRows[b] => a = b
  /\ \A a \in LoggedRows : Happened(jobRows[a])
  /\ \A i, k \in Storing(todo) : i = k
  /\ \A i \in Storing(todo), a \in LoggedRows : todo[i].what # jobRows[a]
  /\ \A i \in Storing(todo) : Happened(todo[i].what)

ToldInOrder ==
  /\ \A i, k \in Telling(todo) : i = k
  /\ \A n, k \in Node, a, b \in LoggedRows :
       n < k /\ jobRows[a] = mail[n] /\ jobRows[b] = mail[k] => a < b
  /\ \A i \in Telling(todo), n \in Node, a, b \in LoggedRows :
       jobRows[a] = mail[n] /\ jobRows[b] = todo[i].what => a < b

LogOrder == StoredOnce /\ ToldInOrder
=============================================================================
