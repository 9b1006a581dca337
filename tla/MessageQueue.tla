---------------------------- MODULE MessageQueue ----------------------------
(***************************************************************************)
(* The queue between the threads of a launched JVM: Sender.messages, a     *)
(* plain java.util.LinkedList that Pig's thread and the progress timer add *)
(* to and the sending timer peeks at and polls, with no lock.              *)
(*                                                                         *)
(* The list is external code: linkLast and unlinkFirst of OpenJDK 7, the   *)
(* version configuration/hadoop.sh installs, one action per access to a    *)
(* shared field.  Fields are assumed to be read and written in program     *)
(* order (each action is one access).  Item k of "mail" is the message of  *)
(* node k; a node is allocated by the add that carries it.  prev, modCount *)
(* and the clearing of an unlinked node's item are left out: nothing in    *)
(* Sender reads them.                                                      *)
(***************************************************************************)
EXTENDS Integers, Sequences

CONSTANTS
  Producers,  \* the threads that call Sender.addMessage
  MaxOverlap  \* bound: calls that begin while another thread is inside one

ASSUME OverlapAssumption == MaxOverlap \in Nat

VARIABLES
  first, last,  \* LinkedList.first and .last: a node, or Null
  next,         \* next[n]: Node.next of node n
  size,         \* LinkedList.size
  mail,         \* mail[n]: the message node n was allocated for
  adder,        \* adder[p]: where producer p is inside add()
  poller,       \* where the sending timer is inside poll()
  overlaps      \* calls that have begun while another one was under way

queueVars == <<first, last, next, size, mail, adder, poller, overlaps>>

Null == 0

AdderState  == [pc : {"idle", "last", "link", "size", "count"},
                node : Nat, seen : Nat, count : Int]
PollerState == [pc : {"idle", "first", "last", "size", "count", "done"},
                node : Nat, rest : Nat, count : Int]

NotAdding  == [pc |-> "idle", node |-> Null, seen |-> Null, count |-> 0]
NotPolling == [pc |-> "idle", node |-> Null, rest |-> Null, count |-> 0]

\* the same thread at another point; and having read the size field
At(thread, pc)           == [thread EXCEPT !.pc = pc]
WithCount(thread, count) == [thread EXCEPT !.pc = "count", !.count = count]

QueueInit ==
  /\ first = Null /\ last = Null /\ size = 0
  /\ next = <<>> /\ mail = <<>>
  /\ adder = [p \in Producers |-> NotAdding]
  /\ poller = NotPolling
  /\ overlaps = 0

Adding(p) == adder[p].pc # "idle"

QueueIdle == poller.pc = "idle" /\ \A p \in Producers : ~Adding(p)

Begin ==
  IF QueueIdle THEN UNCHANGED overlaps
               ELSE overlaps < MaxOverlap /\ overlaps' = overlaps + 1

-----------------------------------------------------------------------------
(* add(m): linkLast.                                                       *)

\* final Node l = last; final Node newNode = new Node(l, e, null)
AddCall(p, m) ==
  /\ ~Adding(p) /\ Begin
  /\ mail' = Append(mail, m)
  /\ next' = Append(next, Null)
  /\ adder' = [adder EXCEPT ![p] = [pc |-> "last", node |-> Len(mail) + 1,
                                    seen |-> last, count |-> 0]]
  /\ UNCHANGED <<first, last, size, poller>>

\* last = newNode
AddLast(p) ==
  /\ adder[p].pc = "last"
  /\ last' = adder[p].node
  /\ adder' = [adder EXCEPT ![p] = At(adder[p], "link")]
  /\ UNCHANGED <<first, next, size, mail, poller, overlaps>>

\* a slip: the new node is linked before the first one, not after the last
AddLinkAtHead(p) ==
  /\ adder[p].pc = "link"
  /\ next' = [next EXCEPT ![adder[p].node] = first] /\ first' = adder[p].node
  /\ adder' = [adder EXCEPT ![p] = At(adder[p], "size")]
  /\ UNCHANGED <<last, size, mail, poller, overlaps>>

\* if (l == null) first = newNode; else l.next = newNode
AddLink(p) ==
  /\ adder[p].pc = "link"
  /\ IF adder[p].seen = Null
       THEN first' = adder[p].node /\ UNCHANGED next
       ELSE next' = [next EXCEPT ![adder[p].seen] = adder[p].node] /\ UNCHANGED first
  /\ adder' = [adder EXCEPT ![p] = At(adder[p], "size")]
  /\ UNCHANGED <<last, size, mail, poller, overlaps>>

\* size++ reads the field ...
AddReadSize(p) ==
  /\ adder[p].pc = "size"
  /\ adder' = [adder EXCEPT ![p] = WithCount(adder[p], size)]
  /\ UNCHANGED <<first, last, next, size, mail, poller, overlaps>>

\* ... and writes it; add returns
AddWriteSize(p) ==
  /\ adder[p].pc = "count"
  /\ size' = adder[p].count + 1
  /\ adder' = [adder EXCEPT ![p] = NotAdding]
  /\ UNCHANGED <<first, last, next, mail, poller, overlaps>>

AddStep(p) ==
  AddLast(p) \/ AddLink(p) \/ AddReadSize(p) \/ AddWriteSize(p)

-----------------------------------------------------------------------------
(* poll(): unlinkFirst(first).  Sender calls it only after peek() returned *)
(* a node, and nobody else removes, so first is not Null here.             *)

\* final Node next = f.next; f.next = null
PollCall ==
  /\ poller.pc = "idle" /\ Begin
  /\ first # Null
  /\ poller' = [pc |-> "first", node |-> first, rest |-> next[first], count |-> 0]
  /\ next' = [next EXCEPT ![first] = Null]
  /\ UNCHANGED <<first, last, size, mail, adder>>

\* a slip: first keeps pointing at the node that is returned
PollFirstStays ==
  /\ poller.pc = "first"
  /\ poller' = At(poller, "last")
  /\ UNCHANGED <<first, last, next, size, mail, adder, overlaps>>

\* first = next
PollFirst ==
  /\ poller.pc = "first"
  /\ first' = poller.rest
  /\ poller' = At(poller, "last")
  /\ UNCHANGED <<last, next, size, mail, adder, overlaps>>

\* a slip: last keeps pointing at the node that was removed
PollLastStays ==
  /\ poller.pc = "last"
  /\ poller' = At(poller, "size")
  /\ UNCHANGED <<first, last, next, size, mail, adder, overlaps>>

\* if (next == null) last = null
PollLast ==
  /\ poller.pc = "last"
  /\ last' = IF poller.rest = Null THEN Null ELSE last
  /\ poller' = At(poller, "size")
  /\ UNCHANGED <<first, next, size, mail, adder, overlaps>>

\* size-- reads the field ...
PollReadSize ==
  /\ poller.pc = "size"
  /\ poller' = WithCount(poller, size)
  /\ UNCHANGED <<first, last, next, size, mail, adder, overlaps>>

\* ... and writes it
PollWriteSize ==
  /\ poller.pc = "count"
  /\ size' = poller.count - 1
  /\ poller' = At(poller, "done")
  /\ UNCHANGED <<first, last, next, mail, adder, overlaps>>

PollStep == PollFirst \/ PollLast \/ PollReadSize \/ PollWriteSize

\* poll() has returned poller.node to Sender.run
PollReturn ==
  /\ poller.pc = "done"
  /\ poller' = NotPolling
  /\ UNCHANGED <<first, last, next, size, mail, adder, overlaps>>

-----------------------------------------------------------------------------
Node == DOMAIN mail

\* messageType of a message (mapsdone and reducesdone: a "mapreduceprogress"
\* of each type), or the operation of a row of table job
Kinds == {"launch", "start", "jobsubmit", "jobstart", "jobfinish", "jobfail", "progress",
          "outputcomplete", "complete", "success", "fail", "mapsdone", "reducesdone", "duration"}

Message == [kind : Kinds, job : Nat]

ListTypeOK ==
  /\ mail \in Seq(Message)
  /\ next \in Seq(Nat) /\ Len(next) = Len(mail)
  /\ \A n \in Node : next[n] \in Node \union {Null}
  /\ first \in Node \union {Null} /\ last \in Node \union {Null}
  /\ size \in Int /\ overlaps \in 0..MaxOverlap

AdderTypeOK ==
  /\ adder \in [Producers -> AdderState]
  /\ \A p \in Producers :
       Adding(p) => adder[p].node \in Node /\ adder[p].seen \in Node \union {Null}

PollerTypeOK ==
  /\ poller \in PollerState
  /\ poller.pc # "idle" => poller.node \in Node /\ poller.rest \in Node \union {Null}

QueueTypeOK == ListTypeOK /\ AdderTypeOK /\ PollerTypeOK
=============================================================================
