----------------------------- MODULE AvgCounter -----------------------------
(***************************************************************************)
(* The running averages of table avgcounter, which Optimization and        *)
(* LineChart read.  A job that finishes in a launched JVM stores its       *)
(* counters in table counter and is then averaged into the row of its      *)
(* script, number of reduces and rank (DbHandler.updateAVGCounter).        *)
(*                                                                         *)
(* JVMs of several executions write at the same time, with no transaction  *)
(* around the whole update: a step is one transaction on the database.     *)
(* The key (script_name, reduceNum, jobRankNum) is one value; a run writes *)
(* to a key once, since the rank of its jobs grows.  Of the nine averaged  *)
(* columns the two CPU times and their total are kept: the other seven are *)
(* treated like mapCPUTime.                                                *)
(***************************************************************************)
EXTENDS Integers, Sequences, Selection

CONSTANTS
  Runs,    \* launched JVMs whose job with a key finishes
  Key,     \* Key[r]: the row that run r averages into
  MaxCPU   \* bound: seconds of CPU time of a phase

ASSUME CPUAssumption == MaxCPU \in Nat

VARIABLES
  counter,     \* rows of table counter
  avgcounter,  \* rows of table avgcounter; the id of a row is its position
  run,         \* run[r]: where r is, its counters, the row it loaded and the id
  disturbed    \* keys whose updates overlapped or were cut short

vars == <<counter, avgcounter, run, disturbed>>

Keys == {Key[r] : r \in Runs}

Row == [key : Keys, mapCPU : 0..MaxCPU, reduceCPU : 0..MaxCPU, totalCPU : 0..(2 * MaxCPU)]

\* The counters of a job: those of its history file, or zeros when none is
\* found.  Every phase of a job with reduces spends CPU time, so the three
\* sums of the file are positive (a job without reduces throws, see PigRun).
JobCounter(key, map, reduce) ==
  [key |-> key, mapCPU |-> map, reduceCPU |-> reduce, totalCPU |-> map + reduce]

NoRow(r) == JobCounter(Key[r], 0, 0)

Init ==
  /\ counter = <<>> /\ avgcounter = <<>>
  /\ run = [r \in Runs |-> [pc |-> "job", sample |-> NoRow(r), loaded |-> NoRow(r), id |-> 0]]
  /\ disturbed = {}

Updating(r) == run[r].pc \in {"query", "insert", "save"}

\* a slip: the total is averaged like the other columns
AveragedTotalToo(old, new) ==
  [old EXCEPT !.mapCPU    = (old.mapCPU + new.mapCPU) \div 2,
              !.reduceCPU = (old.reduceCPU + new.reduceCPU) \div 2,
              !.totalCPU  = (old.totalCPU + new.totalCPU) \div 2]

\* a slip: the sum is not halved
AveragedSum(old, new) ==
  JobCounter(old.key, old.mapCPU + new.mapCPU, (old.reduceCPU + new.reduceCPU) \div 2)

\* int division; the total is the sum of the two averages
Averaged(old, new) ==
  JobCounter(old.key, (old.mapCPU + new.mapCPU) \div 2,
                      (old.reduceCPU + new.reduceCPU) \div 2)

-----------------------------------------------------------------------------
\* the same run at another point
At(thread, pc)           == [thread EXCEPT !.pc = pc]
Measured(thread, sample) == [thread EXCEPT !.pc = "query", !.sample = sample]
Loaded(thread, id, row)  == [thread EXCEPT !.pc = "save", !.id = id, !.loaded = row]

\* dbHandler.insert(counter)
InsertCounter(r) ==
  /\ run[r].pc = "job"
  /\ \E map, reduce \in 0..MaxCPU :
       LET sample == JobCounter(Key[r], map, reduce) IN
       /\ counter' = Append(counter, sample)
       /\ run' = [run EXCEPT ![r] = Measured(run[r], sample)]
  /\ disturbed' = disturbed \union {Key[q] : q \in {p \in Runs : Updating(p) /\ Key[p] = Key[r]}}
  /\ UNCHANGED avgcounter

\* a slip: the row of any script
MatchingAnyKey(r) == DOMAIN avgcounter

Matching(r) == {i \in DOMAIN avgcounter : avgcounter[i].key = run[r].sample.key}

\* from AVGCounter where ...: no row, or list.get(0) of them in no given order
QueryFindsNone(r) ==
  /\ run[r].pc = "query" /\ Matching(r) = {}
  /\ run' = [run EXCEPT ![r] = At(run[r], "insert")]
  /\ UNCHANGED <<counter, avgcounter, disturbed>>

QueryFinds(r) ==
  /\ run[r].pc = "query"
  /\ \E i \in Matching(r) : run' = [run EXCEPT ![r] = Loaded(run[r], i, avgcounter[i])]
  /\ UNCHANGED <<counter, avgcounter, disturbed>>

\* insert(newCounter), in a session of its own
InsertAverage(r) ==
  /\ run[r].pc = "insert"
  /\ avgcounter' = Append(avgcounter, run[r].sample)
  /\ run' = [run EXCEPT ![r] = At(run[r], "done")]
  /\ UNCHANGED <<counter, disturbed>>

\* a slip: the loaded row is not set to the new averages
SaveNothing(r) ==
  /\ run[r].pc = "save"
  /\ run' = [run EXCEPT ![r] = At(run[r], "done")]
  /\ UNCHANGED <<counter, avgcounter, disturbed>>

\* saveOrUpdate(counter) and commit: Hibernate writes the row by its id, every
\* column of it, unless nothing differs from what it loaded
SaveAverage(r) ==
  LET row == Averaged(run[r].loaded, run[r].sample) IN
  /\ run[r].pc = "save"
  /\ avgcounter' = IF row = run[r].loaded THEN avgcounter
                                          ELSE [avgcounter EXCEPT ![run[r].id] = row]
  /\ run' = [run EXCEPT ![r] = At(run[r], "done")]
  /\ UNCHANGED <<counter, disturbed>>

\* the user kills the JVM: the open transaction is rolled back
Killed(r) ==
  /\ run[r].pc # "done"
  /\ run' = [run EXCEPT ![r] = At(run[r], "done")]
  /\ disturbed' = IF Updating(r) THEN disturbed \union {Key[r]} ELSE disturbed
  /\ UNCHANGED <<counter, avgcounter>>

Next ==
  \E r \in Runs : \/ InsertCounter(r) \/ QueryFindsNone(r) \/ QueryFinds(r)
                  \/ InsertAverage(r) \/ SaveAverage(r) \/ Killed(r)

Spec == Init /\ [][Next]_vars

-----------------------------------------------------------------------------
RunState == [pc : {"job", "query", "insert", "save", "done"},
             sample : Row, loaded : Row, id : Nat]

\* Both tables hold rows, and a run is at a known point.
TypeOK ==
  /\ counter \in Seq(Row) /\ avgcounter \in Seq(Row)
  /\ run \in [Runs -> RunState]
  /\ disturbed \subseteq Keys

SamplesFor(table, row) == {c \in DOMAIN table : table[c].key = row.key}

\* each column between two samples of the row's key
Bounded(table, row) ==
  /\ \E lo, hi \in SamplesFor(table, row) :
       table[lo].mapCPU <= row.mapCPU /\ row.mapCPU <= table[hi].mapCPU
  /\ \E lo, hi \in SamplesFor(table, row) :
       table[lo].reduceCPU <= row.reduceCPU /\ row.reduceCPU <= table[hi].reduceCPU

IsSum(row) == row.totalCPU = row.mapCPU + row.reduceCPU

\* Whatever updates race with each other, every average lies between two
\* samples of its own key: updateAVGCounter never mixes scripts or ranks, and
\* an update that is lost never leaves a value no job could average to.
AverageWithinSamples == \A i \in DOMAIN avgcounter : Bounded(counter, avgcounter[i])

\* The total of an average is the sum of its parts, as it is for a job
\* (setTotalCPUTime(map + reduce), not the average of the totals).
TotalIsSum == \A i \in DOMAIN avgcounter : IsSum(avgcounter[i])

\* What a run carries from one transaction to the next: counters that are
\* stored, and a row that was bounded when it was loaded and still is, because
\* table counter only grows.  With TypeOK this makes both properties inductive.
CarriedSample ==
  \A r \in Runs :
    Updating(r) => /\ run[r].sample.key = Key[r] /\ IsSum(run[r].sample)
                   /\ Bounded(counter, run[r].sample)

CarriedRow ==
  \A r \in Runs :
    run[r].pc = "save" => /\ run[r].loaded.key = Key[r] /\ Bounded(counter, run[r].loaded)
                          /\ run[r].id \in DOMAIN avgcounter
                          /\ avgcounter[run[r].id].key = Key[r]

AveragesInv == TypeOK /\ CarriedSample /\ CarriedRow /\ AverageWithinSamples /\ TotalIsSum

RowsOf(key)    == Only(avgcounter, {row \in Row : row.key = key})
SamplesOf(key) == Only(counter, {row \in Row : row.key = key})

RunningAverage(samples) ==
  LET mean[n \in DOMAIN samples] ==
        IF n = 1 THEN samples[1] ELSE Averaged(mean[n - 1], samples[n])
  IN mean[Len(samples)]

\* When the executions of a script follow each other, its key has one row, and
\* it is the running average of all the jobs that were counted.
ExactWithoutOverlap ==
  \A key \in Keys \ disturbed :
    (\A r \in Runs : Key[r] = key => ~Updating(r)) /\ SamplesOf(key) # <<>> =>
      RowsOf(key) = << RunningAverage(SamplesOf(key)) >>
=============================================================================
