----------------------------- MODULE QueueShape ------------------------------
(***************************************************************************)
(* What the calls on the unlocked queue keep true, in any mode: whatever   *)
(* overlaps, that a node has one place (OnePlace); as long as nothing has *)
(* overlapped, that the queue is a list (QueueIsList).                     *)
(***************************************************************************)
EXTENDS PigRun

Pending(p) == adder[p].pc \in {"last", "link"}

-----------------------------------------------------------------------------
(* Whatever overlaps: no node is reached twice, so none is polled twice.   *)

Taken == Sent \union (IF poller.pc = "idle" THEN {} ELSE {poller.node})

\* nothing that the threads will still read leads to node n
Unlinked(n) ==
  /\ \A m \in Node : next[m] # n
  /\ poller.pc = "first" => poller.rest # n

PendingUnlinked ==
  /\ \A p, q \in Producers : Pending(p) /\ Pending(q) /\ p # q => adder[p].node # adder[q].node
  /\ \A p \in Producers : Pending(p) =>
       Unlinked(adder[p].node) /\ first # adder[p].node /\ adder[p].node \notin Taken

LinkedOnce ==
  /\ \A m, n \in Node : next[m] = next[n] /\ next[m] # Null => m = n
  /\ first # Null => Unlinked(first)
  /\ poller.pc = "first" /\ poller.rest # Null =>
       poller.rest \notin Taken /\ \A m \in Node : next[m] # poller.rest

TakenUnlinked ==
  /\ \A n \in Taken : Unlinked(n)
  /\ \A n \in Taken : first = n => poller.pc = "first" /\ poller.node = n
  /\ poller.pc # "idle" => poller.node \notin Sent

OnePlace == PendingUnlinked /\ LinkedOnce /\ TakenUnlinked /\ SentOnce

-----------------------------------------------------------------------------
(* As long as no call has begun inside another one: poll() has taken the   *)
(* first g nodes, and the others up to l are linked in this order.         *)

Chain(g, l) ==
  g \in 0..l /\ \A n \in (g + 1)..l : next[n] = IF n = l THEN Null ELSE n + 1

Oldest(g, l) == IF g < l THEN g + 1 ELSE Null
Newest(g, l) == IF g < l THEN l ELSE Null

\* between calls
Resting(g) ==
  LET l == Len(mail) IN
  /\ QueueIdle
  /\ Chain(g, l) /\ first = Oldest(g, l) /\ last = Newest(g, l) /\ size = l - g

\* p alone is inside add(); its node is not linked yet
LinkingShape(p, g) ==
  LET l == Len(mail) - 1 IN
  /\ Pending(p) /\ poller.pc = "idle" /\ \A q \in Producers : Adding(q) => q = p
  /\ Chain(g, l) /\ first = Oldest(g, l) /\ size = l - g
  /\ last = IF adder[p].pc = "link" THEN Len(mail) ELSE Newest(g, l)
  /\ adder[p].node = Len(mail) /\ adder[p].seen = Newest(g, l) /\ next[Len(mail)] = Null

\* p alone is inside add(); its node is linked and not counted yet
CountingShape(p, g) ==
  LET l == Len(mail) IN
  /\ adder[p].pc \in {"size", "count"}
  /\ poller.pc = "idle" /\ \A q \in Producers : Adding(q) => q = p
  /\ Chain(g, l) /\ first = Oldest(g, l) /\ last = Newest(g, l) /\ size = l - g - 1
  /\ adder[p].pc = "count" => adder[p].count = size

\* the sender alone is inside poll(), which takes node g
PollingShape(g) ==
  LET l == Len(mail) IN
  /\ poller.pc # "idle" /\ \A q \in Producers : ~Adding(q)
  /\ Chain(g, l) /\ g >= 1 /\ next[g] = Null
  /\ poller.node = g /\ poller.rest = Oldest(g, l)
  /\ first = IF poller.pc = "first" THEN g ELSE Oldest(g, l)
  /\ last = IF poller.pc \in {"first", "last"} THEN l ELSE Newest(g, l)
  /\ size = IF poller.pc = "done" THEN l - g ELSE l - g + 1
  /\ poller.pc = "count" => poller.count = size

Shape(g) ==
  \/ Resting(g)
  \/ \E p \in Producers : LinkingShape(p, g) \/ CountingShape(p, g)
  \/ PollingShape(g)

\* nodes whose message has been handed to the link, or lost with it
Past(g) == IF poller.pc = "idle" THEN 1..g ELSE 1..(g - 1)

\* what was polled was written in order, and all of it while the link holds
Written(g) ==
  /\ FeedInOrder
  /\ Sent \subseteq Past(g)
  /\ link = "up" => /\ Past(g) \subseteq Sent
                   /\ \A n \in Past(g) : Kind(n) = "complete" => completed

PolledIsPeeked ==
  /\ sender.pc = "polling" <=> poller.pc # "idle"
  /\ sender.pc = "poll" => first = sender.root
  /\ sender.pc = "polling" => poller.node = sender.root

QueueIsList ==
  overlaps = 0 => PolledIsPeeked /\ \E g \in Nat : Shape(g) /\ Written(g)

\* a success follows a "complete", in the queue and in a callback
SuccessFollows ==
  /\ \A n \in Node : Kind(n) = "success" => \E k \in Node : k < n /\ Kind(k) = "complete"
  /\ \A i \in DOMAIN todo : todo[i].do = "addMessage" /\ todo[i].what.kind = "success" =>
       \/ \E k \in Node : Kind(k) = "complete"
       \/ \E k \in 1..(i - 1) : todo[k].do = "addMessage" /\ todo[k].what.kind = "complete"
=============================================================================
