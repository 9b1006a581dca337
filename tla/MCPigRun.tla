------------------------------ MODULE MCPigRun ------------------------------
(* A mapreduce run, whose two producers make the largest instance: once    *)
(* calls have overlapped or a percentage was reported, the queue is kept   *)
(* short, and a run whose job or timer fails is not continued.             *)
EXTENDS PigRun

CONSTANT MaxQueue  \* bound on the queue of such runs

ShortRaces ==
  /\ overlaps > 0 \/ progress > 0 =>
       /\ size <= MaxQueue
       /\ mr.pc # "dead" /\ \A j \in Jobs : jobs[j] # "failed"
  /\ overlaps = 0 \/ progress = 0
=============================================================================
