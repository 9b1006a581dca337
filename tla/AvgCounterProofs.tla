-------------------------- MODULE AvgCounterProofs --------------------------
(***************************************************************************)
(* However the updates of any number of JVMs race, each average stays      *)
(* between two samples of its key and its total is the sum of its parts;   *)
(* where updates of a key did not overlap, it is the running average of    *)
(* all samples.  What Optimization predicts from them is sound: times lie  *)
(* between measured ones, the number of reduces is the rounded quotient.   *)
(***************************************************************************)
EXTENDS Optimization, SelectionProofs, TLAPS

-----------------------------------------------------------------------------
(* Averages.                                                               *)

LEMMA HalfInRange ==
  ASSUME NEW c \in Nat, NEW a \in 0..c, NEW b \in 0..c
  PROVE  (a + b) \div 2 \in 0..c
  OBVIOUS

LEMMA HalfBetween ==
  ASSUME NEW a \in Nat, NEW b \in Nat, NEW lo1 \in Nat, NEW lo2 \in Nat,
         NEW hi1 \in Nat, NEW hi2 \in Nat,
         lo1 <= a, a <= hi1, lo2 <= b, b <= hi2
  PROVE  /\ lo1 <= (a + b) \div 2 \/ lo2 <= (a + b) \div 2
         /\ (a + b) \div 2 <= hi1 \/ (a + b) \div 2 <= hi2
  OBVIOUS

LEMMA JobCounterRow ==
  ASSUME NEW key \in Keys, NEW map \in 0..MaxCPU, NEW reduce \in 0..MaxCPU
  PROVE  /\ JobCounter(key, map, reduce) \in Row /\ IsSum(JobCounter(key, map, reduce))
         /\ JobCounter(key, map, reduce).key = key
         /\ JobCounter(key, map, reduce).mapCPU = map
         /\ JobCounter(key, map, reduce).reduceCPU = reduce
BY CPUAssumption DEF JobCounter, Row, IsSum

\* The average of a bounded row and a bounded sample of its key is a row of
\* that key, bounded, with a total that is the sum.
LEMMA AveragedRow ==
  ASSUME counter \in Seq(Row), NEW old \in Row, NEW new \in Row, old.key = new.key,
         Bounded(counter, old), Bounded(counter, new)
  PROVE  /\ Averaged(old, new) \in Row /\ Averaged(old, new).key = old.key
         /\ IsSum(Averaged(old, new)) /\ Bounded(counter, Averaged(old, new))
<1> DEFINE map    == (old.mapCPU + new.mapCPU) \div 2
           reduce == (old.reduceCPU + new.reduceCPU) \div 2
<1>1. /\ old.key \in Keys /\ old.mapCPU \in 0..MaxCPU /\ old.reduceCPU \in 0..MaxCPU
      /\ new.mapCPU \in 0..MaxCPU /\ new.reduceCPU \in 0..MaxCPU
  BY DEF Row
<1>2. map \in 0..MaxCPU /\ reduce \in 0..MaxCPU
  BY <1>1, CPUAssumption, HalfInRange
<1>3. Averaged(old, new) = JobCounter(old.key, map, reduce)
  BY DEF Averaged
<1> HIDE DEF map, reduce
<1>4. /\ Averaged(old, new) \in Row /\ IsSum(Averaged(old, new))
      /\ Averaged(old, new).key = old.key
      /\ Averaged(old, new).mapCPU = map /\ Averaged(old, new).reduceCPU = reduce
  BY <1>1, <1>2, <1>3, JobCounterRow
<1>5. ASSUME NEW c \in DOMAIN counter
      PROVE  counter[c].mapCPU \in Nat /\ counter[c].reduceCPU \in Nat
  <2>1. counter[c] \in Row
    BY ElementOfSeq
  <2> QED
    BY <2>1, CPUAssumption DEF Row
<1>6. \E lo, hi \in SamplesFor(counter, old) : counter[lo].mapCPU <= map /\ map <= counter[hi].mapCPU
  <2>1. PICK lo1, hi1 \in SamplesFor(counter, old) :
          counter[lo1].mapCPU <= old.mapCPU /\ old.mapCPU <= counter[hi1].mapCPU
    BY DEF Bounded
  <2>2. PICK lo2, hi2 \in SamplesFor(counter, old) :
          counter[lo2].mapCPU <= new.mapCPU /\ new.mapCPU <= counter[hi2].mapCPU
    BY DEF Bounded, SamplesFor
  <2>3. /\ counter[lo1].mapCPU <= map \/ counter[lo2].mapCPU <= map
        /\ map <= counter[hi1].mapCPU \/ map <= counter[hi2].mapCPU
    <3>1. /\ counter[lo1].mapCPU \in Nat /\ counter[lo2].mapCPU \in Nat
          /\ counter[hi1].mapCPU \in Nat /\ counter[hi2].mapCPU \in Nat
          /\ old.mapCPU \in Nat /\ new.mapCPU \in Nat
      BY <1>1, <1>5, <2>1, <2>2, CPUAssumption DEF SamplesFor
    <3> QED
      BY <2>1, <2>2, <3>1, HalfBetween DEF map
  <2> QED
    BY <2>1, <2>2, <2>3
<1>7. \E lo, hi \in SamplesFor(counter, old) :
        counter[lo].reduceCPU <= reduce /\ reduce <= counter[hi].reduceCPU
  <2>1. PICK lo1, hi1 \in SamplesFor(counter, old) :
          counter[lo1].reduceCPU <= old.reduceCPU /\ old.reduceCPU <= counter[hi1].reduceCPU
    BY DEF Bounded
  <2>2. PICK lo2, hi2 \in SamplesFor(counter, old) :
          counter[lo2].reduceCPU <= new.reduceCPU /\ new.reduceCPU <= counter[hi2].reduceCPU
    BY DEF Bounded, SamplesFor
  <2>3. /\ counter[lo1].reduceCPU <= reduce \/ counter[lo2].reduceCPU <= reduce
        /\ reduce <= counter[hi1].reduceCPU \/ reduce <= counter[hi2].reduceCPU
    <3>1. /\ counter[lo1].reduceCPU \in Nat /\ counter[lo2].reduceCPU \in Nat
          /\ counter[hi1].reduceCPU \in Nat /\ counter[hi2].reduceCPU \in Nat
          /\ old.reduceCPU \in Nat /\ new.reduceCPU \in Nat
      BY <1>1, <1>5, <2>1, <2>2, CPUAssumption DEF SamplesFor
    <3> QED
      BY <2>1, <2>2, <3>1, HalfBetween DEF reduce
  <2> QED
    BY <2>1, <2>2, <2>3
<1>8. SamplesFor(counter, Averaged(old, new)) = SamplesFor(counter, old)
  BY <1>4 DEF SamplesFor
<1> QED
  BY <1>4, <1>6, <1>7, <1>8 DEF Bounded

-----------------------------------------------------------------------------
(* Table counter only grows, so what was bounded stays bounded.            *)

LEMMA StillBounded ==
  ASSUME counter \in Seq(Row), NEW sample \in Row, counter' = Append(counter, sample)
  PROVE  /\ counter' \in Seq(Row)
         /\ \A row \in Row : Bounded(counter, row) => Bounded(counter', row)
         /\ Bounded(counter', sample)
<1>1. /\ counter' \in Seq(Row)
      /\ \A c \in DOMAIN counter : c \in DOMAIN counter' /\ counter'[c] = counter[c]
      /\ Len(counter) + 1 \in DOMAIN counter' /\ counter'[Len(counter) + 1] = sample
  BY AppendProperties
<1>2. ASSUME NEW row \in Row, Bounded(counter, row) PROVE Bounded(counter', row)
  <2>1. \A c \in SamplesFor(counter, row) : c \in SamplesFor(counter', row) /\ counter'[c] = counter[c]
    BY <1>1 DEF SamplesFor
  <2> QED
    BY <1>2, <2>1 DEF Bounded
<1>3. Bounded(counter', sample)
  <2>1. Len(counter) + 1 \in SamplesFor(counter', sample)
    BY <1>1 DEF SamplesFor
  <2>2. sample.mapCPU \in Int /\ sample.reduceCPU \in Int
    BY CPUAssumption DEF Row
  <2> QED
    BY <1>1, <2>1, <2>2 DEF Bounded
<1> QED
  BY <1>1, <1>2, <1>3

-----------------------------------------------------------------------------
(* What a step does to the state of the run that takes it.                 *)

LEMMA RunMoves ==
  ASSUME NEW s \in RunState, NEW pc \in {"insert", "done"}
  PROVE  /\ At(s, pc) \in RunState /\ At(s, pc).pc = pc /\ At(s, pc).sample = s.sample
BY DEF At, RunState

LEMMA RunMeasures ==
  ASSUME NEW s \in RunState, NEW sample \in Row
  PROVE  /\ Measured(s, sample) \in RunState /\ Measured(s, sample).pc = "query"
         /\ Measured(s, sample).sample = sample
BY DEF Measured, RunState

LEMMA RunLoads ==
  ASSUME NEW s \in RunState, NEW id \in Nat, NEW row \in Row
  PROVE  /\ Loaded(s, id, row) \in RunState /\ Loaded(s, id, row).pc = "save"
         /\ Loaded(s, id, row).sample = s.sample /\ Loaded(s, id, row).id = id
         /\ Loaded(s, id, row).loaded = row
BY DEF Loaded, RunState

-----------------------------------------------------------------------------
(* AveragesInv is inductive.                                               *)

LEMMA InitAverages == Init => AveragesInv
<1> SUFFICES ASSUME Init PROVE AveragesInv
  OBVIOUS
<1>1. \A r \in Runs : NoRow(r) \in Row
  BY CPUAssumption, JobCounterRow DEF NoRow, Keys
<1>2. TypeOK
  BY <1>1 DEF Init, TypeOK, RunState
<1> QED
  BY <1>2 DEF Init, AveragesInv, CarriedSample, CarriedRow, Updating, AverageWithinSamples,
              TotalIsSum

LEMMA InsertCounterAverages ==
  ASSUME AveragesInv, NEW r \in Runs, InsertCounter(r)
  PROVE  AveragesInv'
<1>1. PICK map, reduce \in 0..MaxCPU :
        /\ counter' = Append(counter, JobCounter(Key[r], map, reduce))
        /\ run' = [run EXCEPT ![r] = Measured(run[r], JobCounter(Key[r], map, reduce))]
  BY DEF InsertCounter
<1> DEFINE sample == JobCounter(Key[r], map, reduce)
<1>2. sample \in Row /\ IsSum(sample) /\ sample.key = Key[r]
  BY JobCounterRow DEF Keys
<1> HIDE DEF sample
<1>3. /\ counter' \in Seq(Row) /\ Bounded(counter', sample)
      /\ \A row \in Row : Bounded(counter, row) => Bounded(counter', row)
  BY <1>1, <1>2, StillBounded DEF sample, AveragesInv, TypeOK
<1>4. /\ Measured(run[r], sample) \in RunState /\ Measured(run[r], sample).pc = "query"
      /\ Measured(run[r], sample).sample = sample
  BY <1>2, RunMeasures DEF AveragesInv, TypeOK
<1>5. /\ run' = [run EXCEPT ![r] = Measured(run[r], sample)] /\ avgcounter' = avgcounter
      /\ run \in [Runs -> RunState]
  BY <1>1 DEF sample, InsertCounter, AveragesInv, TypeOK
<1>6. TypeOK'
  BY <1>3, <1>4, <1>5 DEF AveragesInv, TypeOK, InsertCounter, Keys
<1>7. CarriedSample'
  <2> SUFFICES ASSUME NEW q \in Runs, Updating(q)'
               PROVE  /\ run'[q].sample.key = Key[q] /\ IsSum(run'[q].sample)
                      /\ Bounded(counter', run'[q].sample)
    BY DEF CarriedSample
  <2>1. CASE q = r
    <3>1. run'[q].sample = sample
      BY <1>4, <1>5, <2>1
    <3> QED
      BY <1>2, <1>3, <2>1, <3>1
  <2>2. CASE q # r
    <3>1. run'[q] = run[q] /\ run[q].sample \in Row
      BY <1>5, <2>2 DEF RunState
    <3>2. Updating(q)
      BY <3>1 DEF Updating
    <3> QED
      BY <1>3, <3>1, <3>2 DEF AveragesInv, CarriedSample
  <2> QED
    BY <2>1, <2>2
<1>8. CarriedRow'
  <2> SUFFICES ASSUME NEW q \in Runs, run'[q].pc = "save"
               PROVE  /\ run'[q].loaded.key = Key[q] /\ Bounded(counter', run'[q].loaded)
                      /\ run'[q].id \in DOMAIN avgcounter'
                      /\ avgcounter'[run'[q].id].key = Key[q]
    BY DEF CarriedRow
  <2>1. run'[q] = run[q] /\ run[q].loaded \in Row
    BY <1>4, <1>5 DEF RunState
  <2> QED
    BY <1>3, <1>5, <2>1 DEF AveragesInv, CarriedRow
<1>9. AverageWithinSamples' /\ TotalIsSum'
  BY <1>3, <1>5, ElementOfSeq DEF AveragesInv, AverageWithinSamples, TotalIsSum, TypeOK
<1> QED
  BY <1>6, <1>7, <1>8, <1>9 DEF AveragesInv

\* A step that leaves table counter alone and carries what was carried.
LEMMA CarriedKept ==
  ASSUME AveragesInv, UNCHANGED counter, NEW r \in Runs, NEW s \in RunState,
         run' = [run EXCEPT ![r] = s], s.sample = run[r].sample,
         s.pc = "done" \/ Updating(r)
  PROVE  run' \in [Runs -> RunState] /\ CarriedSample'
<1>1. run \in [Runs -> RunState] /\ run' \in [Runs -> RunState]
  BY DEF AveragesInv, TypeOK
<1> SUFFICES ASSUME NEW q \in Runs, Updating(q)'
             PROVE  /\ run'[q].sample.key = Key[q] /\ IsSum(run'[q].sample)
                    /\ Bounded(counter', run'[q].sample)
  BY <1>1 DEF CarriedSample
<1>2. Updating(q) /\ run'[q].sample = run[q].sample
  BY <1>1 DEF Updating
<1> QED
  BY <1>2 DEF AveragesInv, CarriedSample

LEMMA QueryAverages ==
  ASSUME AveragesInv, NEW r \in Runs, QueryFindsNone(r) \/ QueryFinds(r)
  PROVE  AveragesInv'
<1>1. run[r] \in RunState /\ Updating(r) /\ counter' = counter /\ avgcounter' = avgcounter
  BY DEF AveragesInv, TypeOK, QueryFindsNone, QueryFinds, Updating
<1>2. PICK s \in RunState :
        /\ run' = [run EXCEPT ![r] = s] /\ s.sample = run[r].sample
        /\ s.pc = "save" =>
             \E i \in DOMAIN avgcounter : /\ s.id = i /\ s.loaded = avgcounter[i]
                                          /\ avgcounter[i].key = Key[r]
  <2>1. CASE QueryFindsNone(r)
    BY <1>1, <2>1, RunMoves DEF QueryFindsNone
  <2>2. CASE QueryFinds(r)
    <3>1. PICK i \in Matching(r) : run' = [run EXCEPT ![r] = Loaded(run[r], i, avgcounter[i])]
      BY <2>2 DEF QueryFinds
    <3>2. i \in DOMAIN avgcounter /\ avgcounter[i].key = Key[r]
      BY <1>1, <3>1 DEF Matching, AveragesInv, CarriedSample
    <3>3. i \in Nat /\ avgcounter[i] \in Row
      BY <3>2, ElementOfSeq DEF AveragesInv, TypeOK
    <3> QED
      BY <1>1, <3>1, <3>2, <3>3, RunLoads
  <2> QED
    BY <2>1, <2>2
<1>3. run' \in [Runs -> RunState] /\ CarriedSample'
  BY <1>1, <1>2, CarriedKept
<1>4. TypeOK'
  BY <1>1, <1>3 DEF AveragesInv, TypeOK, QueryFindsNone, QueryFinds
<1>5. CarriedRow'
  <2> SUFFICES ASSUME NEW q \in Runs, run'[q].pc = "save"
               PROVE  /\ run'[q].loaded.key = Key[q] /\ Bounded(counter', run'[q].loaded)
                      /\ run'[q].id \in DOMAIN avgcounter'
                      /\ avgcounter'[run'[q].id].key = Key[q]
    BY DEF CarriedRow
  <2>1. CASE q = r
    <3>1. PICK i \in DOMAIN avgcounter :
            run'[q].id = i /\ run'[q].loaded = avgcounter[i] /\ avgcounter[i].key = Key[r]
      BY <1>2, <2>1 DEF AveragesInv, TypeOK
    <3>2. Bounded(counter, run'[q].loaded)
      BY <3>1 DEF AveragesInv, AverageWithinSamples
    <3> QED
      BY <1>1, <2>1, <3>1, <3>2
  <2>2. CASE q # r
    <3>1. run'[q] = run[q]
      BY <1>2, <2>2 DEF AveragesInv, TypeOK
    <3> QED
      BY <1>1, <3>1 DEF AveragesInv, CarriedRow
  <2> QED
    BY <2>1, <2>2
<1>6. AverageWithinSamples' /\ TotalIsSum'
  BY <1>1 DEF AveragesInv, AverageWithinSamples, TotalIsSum
<1> QED
  BY <1>3, <1>4, <1>5, <1>6 DEF AveragesInv

LEMMA InsertAverages ==
  ASSUME AveragesInv, NEW r \in Runs, InsertAverage(r)
  PROVE  AveragesInv'
<1>1. /\ run[r] \in RunState /\ Updating(r) /\ counter' = counter
      /\ run[r].sample \in Row /\ avgcounter' = Append(avgcounter, run[r].sample)
      /\ run' = [run EXCEPT ![r] = At(run[r], "done")]
  BY DEF AveragesInv, TypeOK, RunState, InsertAverage, Updating
<1>2. /\ avgcounter' \in Seq(Row) /\ Len(avgcounter') = Len(avgcounter) + 1
      /\ \A i \in DOMAIN avgcounter : i \in DOMAIN avgcounter' /\ avgcounter'[i] = avgcounter[i]
      /\ avgcounter'[Len(avgcounter) + 1] = run[r].sample
      /\ DOMAIN avgcounter' = DOMAIN avgcounter \union {Len(avgcounter) + 1}
  BY <1>1, AppendProperties DEF AveragesInv, TypeOK
<1>3. At(run[r], "done") \in RunState /\ At(run[r], "done").pc = "done"
      /\ At(run[r], "done").sample = run[r].sample
  BY <1>1, RunMoves
<1>4. run' \in [Runs -> RunState] /\ CarriedSample'
  BY <1>1, <1>3, CarriedKept
<1>5. TypeOK'
  BY <1>1, <1>2, <1>4 DEF AveragesInv, TypeOK, InsertAverage
<1>6. CarriedRow'
  <2> SUFFICES ASSUME NEW q \in Runs, run'[q].pc = "save"
               PROVE  /\ run'[q].loaded.key = Key[q] /\ Bounded(counter', run'[q].loaded)
                      /\ run'[q].id \in DOMAIN avgcounter'
                      /\ avgcounter'[run'[q].id].key = Key[q]
    BY DEF CarriedRow
  <2>1. run'[q] = run[q]
    BY <1>1, <1>3 DEF AveragesInv, TypeOK
  <2> QED
    BY <1>1, <1>2, <2>1 DEF AveragesInv, CarriedRow
<1>7. Bounded(counter, run[r].sample) /\ IsSum(run[r].sample)
  BY <1>1 DEF AveragesInv, CarriedSample
<1>8. AverageWithinSamples' /\ TotalIsSum'
  BY <1>1, <1>2, <1>7 DEF AveragesInv, AverageWithinSamples, TotalIsSum
<1> QED
  BY <1>4, <1>5, <1>6, <1>8 DEF AveragesInv

LEMMA SaveAverages ==
  ASSUME AveragesInv, NEW r \in Runs, SaveAverage(r)
  PROVE  AveragesInv'
<1> DEFINE row == Averaged(run[r].loaded, run[r].sample)
<1>1. /\ run[r] \in RunState /\ Updating(r) /\ counter' = counter
      /\ run[r].sample \in Row /\ run[r].loaded \in Row /\ run[r].id \in DOMAIN avgcounter
      /\ run' = [run EXCEPT ![r] = At(run[r], "done")]
  BY DEF AveragesInv, TypeOK, CarriedRow, RunState, SaveAverage, Updating
<1>2. row \in Row /\ row.key = Key[r] /\ IsSum(row) /\ Bounded(counter, row)
  <2>1. /\ run[r].loaded.key = run[r].sample.key /\ run[r].loaded.key = Key[r]
        /\ Bounded(counter, run[r].loaded) /\ Bounded(counter, run[r].sample)
    BY <1>1 DEF AveragesInv, CarriedRow, CarriedSample, SaveAverage
  <2> QED
    BY <1>1, <2>1, AveragedRow DEF AveragesInv, TypeOK
<1>3. avgcounter' = avgcounter \/ avgcounter' = [avgcounter EXCEPT ![run[r].id] = row]
  BY DEF SaveAverage
<1> HIDE DEF row
<1>4. /\ avgcounter' \in Seq(Row) /\ DOMAIN avgcounter' = DOMAIN avgcounter
      /\ \A i \in DOMAIN avgcounter : avgcounter'[i] = avgcounter[i]
                                      \/ (i = run[r].id /\ avgcounter'[i] = row)
  <2>1. CASE avgcounter' = avgcounter
    BY <2>1 DEF AveragesInv, TypeOK
  <2>2. CASE avgcounter' = [avgcounter EXCEPT ![run[r].id] = row]
    BY <1>1, <1>2, <2>2, ExceptSeq DEF AveragesInv, TypeOK
  <2> QED
    BY <1>3, <2>1, <2>2
<1>5. At(run[r], "done") \in RunState /\ At(run[r], "done").pc = "done"
      /\ At(run[r], "done").sample = run[r].sample
  BY <1>1, RunMoves
<1>6. run' \in [Runs -> RunState] /\ CarriedSample'
  BY <1>1, <1>5, CarriedKept
<1>7. TypeOK'
  BY <1>1, <1>4, <1>6 DEF AveragesInv, TypeOK, SaveAverage
<1>8. CarriedRow'
  <2> SUFFICES ASSUME NEW q \in Runs, run'[q].pc = "save"
               PROVE  /\ run'[q].loaded.key = Key[q] /\ Bounded(counter', run'[q].loaded)
                      /\ run'[q].id \in DOMAIN avgcounter'
                      /\ avgcounter'[run'[q].id].key = Key[q]
    BY DEF CarriedRow
  <2>1. run'[q] = run[q]
    BY <1>1, <1>5 DEF AveragesInv, TypeOK
  <2>2. /\ run[q].loaded.key = Key[q] /\ Bounded(counter, run[q].loaded)
        /\ run[q].id \in DOMAIN avgcounter /\ avgcounter[run[q].id].key = Key[q]
    BY <2>1 DEF AveragesInv, CarriedRow
  <2>3. run[q].id = run[r].id => Key[q] = Key[r]
    BY <2>2 DEF AveragesInv, CarriedRow, SaveAverage
  <2> QED
    BY <1>1, <1>2, <1>4, <2>1, <2>2, <2>3
<1>9. AverageWithinSamples' /\ TotalIsSum'
  BY <1>1, <1>2, <1>4 DEF AveragesInv, AverageWithinSamples, TotalIsSum
<1> QED
  BY <1>6, <1>7, <1>8, <1>9 DEF AveragesInv

LEMMA KilledAverages ==
  ASSUME AveragesInv, NEW r \in Runs, Killed(r)
  PROVE  AveragesInv'
<1>1. /\ run[r] \in RunState /\ counter' = counter /\ avgcounter' = avgcounter
      /\ run' = [run EXCEPT ![r] = At(run[r], "done")]
  BY DEF AveragesInv, TypeOK, Killed
<1>2. At(run[r], "done") \in RunState /\ At(run[r], "done").pc = "done"
      /\ At(run[r], "done").sample = run[r].sample
  BY <1>1, RunMoves
<1>3. run' \in [Runs -> RunState] /\ CarriedSample'
  BY <1>1, <1>2, CarriedKept
<1>4. TypeOK'
  BY <1>1, <1>3 DEF AveragesInv, TypeOK, Killed, Keys
<1>5. CarriedRow'
  BY <1>1, <1>2 DEF AveragesInv, TypeOK, CarriedRow
<1>6. AverageWithinSamples' /\ TotalIsSum'
  BY <1>1 DEF AveragesInv, AverageWithinSamples, TotalIsSum
<1> QED
  BY <1>3, <1>4, <1>5, <1>6 DEF AveragesInv

LEMMA NextAverages ==
  ASSUME AveragesInv, [Next]_vars
  PROVE  AveragesInv'
<1>1. CASE UNCHANGED vars
  BY <1>1 DEF AveragesInv, TypeOK, CarriedSample, CarriedRow, Updating, AverageWithinSamples,
              TotalIsSum, vars
<1>2. ASSUME NEW r \in Runs, InsertCounter(r) PROVE AveragesInv'
  BY <1>2, InsertCounterAverages
<1>3. ASSUME NEW r \in Runs, QueryFindsNone(r) \/ QueryFinds(r) PROVE AveragesInv'
  BY <1>3, QueryAverages
<1>4. ASSUME NEW r \in Runs, InsertAverage(r) PROVE AveragesInv'
  BY <1>4, InsertAverages
<1>5. ASSUME NEW r \in Runs, SaveAverage(r) PROVE AveragesInv'
  BY <1>5, SaveAverages
<1>6. ASSUME NEW r \in Runs, Killed(r) PROVE AveragesInv'
  BY <1>6, KilledAverages
<1> QED
  BY <1>1, <1>2, <1>3, <1>4, <1>5, <1>6 DEF Next

\* Rows are typed, and a run carries from transaction to transaction of
\* updateAVGCounter only a stored sample and a row bounded by samples of its key.
THEOREM AveragesInvariant == Spec => []AveragesInv
BY InitAverages, NextAverages, PTL DEF Spec

\* For any number of JVMs, keys and CPU times: an average never leaves the
\* range of the samples of its key (DbHandler.updateAVGCounter).
THEOREM AveragesAreBounded == Spec => []AverageWithinSamples
<1>1. AveragesInv => AverageWithinSamples
  BY DEF AveragesInv
<1> QED
  BY <1>1, AveragesInvariant, PTL

\* For any number of JVMs, keys and CPU times: totalCPUTime of an average is
\* the sum of mapCPUTime and reduceCPUTime.
THEOREM TotalsAreSums == Spec => []TotalIsSum
<1>1. AveragesInv => TotalIsSum
  BY DEF AveragesInv
<1> QED
  BY <1>1, AveragesInvariant, PTL

-----------------------------------------------------------------------------
(* The running average of a list of samples, one sample after the other.   *)

Meaning(h, s, n) ==
  h = [k \in 1..n |-> IF k = 1 THEN s[1] ELSE Averaged(h[k - 1], s[k])]

LEMMA MeaningFacts ==
  ASSUME NEW h, NEW s, NEW n \in Nat, Meaning(h, s, n)
  PROVE  \A k \in 1..n : h[k] = IF k = 1 THEN s[1] ELSE Averaged(h[k - 1], s[k])
BY DEF Meaning

LEMMA MeaningExists ==
  ASSUME NEW s, NEW n \in Nat
  PROVE  \E h : Meaning(h, s, n)
<1> DEFINE T == {m \in Nat : \E h : Meaning(h, s, m)}
<1>1. 0 \in T
  <2>1. PICK h : h = [k \in 1..0 |-> s[1]]
    OBVIOUS
  <2>2. Meaning(h, s, 0)
    BY <2>1 DEF Meaning
  <2> QED BY <2>2
<1>2. ASSUME NEW m \in Nat, m \in T PROVE m + 1 \in T
  <2>1. PICK h : Meaning(h, s, m)
    BY <1>2
  <2>2. PICK e : e = IF m + 1 = 1 THEN s[1] ELSE Averaged(h[m], s[m + 1])
    OBVIOUS
  <2>3. PICK g : g = [k \in 1..(m + 1) |-> IF k = m + 1 THEN e ELSE h[k]]
    OBVIOUS
  <2>4. ASSUME NEW k \in 1..(m + 1)
        PROVE  g[k] = IF k = 1 THEN s[1] ELSE Averaged(g[k - 1], s[k])
    <3>1. CASE k = m + 1 /\ k = 1
      BY <2>2, <2>3, <3>1
    <3>2. CASE k = m + 1 /\ k # 1
      <4>1. k - 1 = m /\ m \in 1..(m + 1) /\ m # m + 1 /\ m + 1 # 1
        BY <3>2
      <4>2. g[k] = e /\ g[k - 1] = h[m] /\ s[k] = s[m + 1]
        BY <2>3, <3>2, <4>1
      <4> QED BY <2>2, <3>2, <4>1, <4>2
    <3>3. CASE k # m + 1
      <4>1. k \in 1..m /\ (k # 1 => k - 1 \in 1..(m + 1) /\ k - 1 # m + 1)
        BY <3>3
      <4>2. h[k] = IF k = 1 THEN s[1] ELSE Averaged(h[k - 1], s[k])
        BY <2>1, <4>1, MeaningFacts
      <4>3. g[k] = h[k] /\ (k # 1 => g[k - 1] = h[k - 1])
        BY <2>3, <3>3, <4>1
      <4> QED BY <4>2, <4>3
    <3> QED BY <3>1, <3>2, <3>3
  <2>5. Meaning(g, s, m + 1)
    BY <2>3, <2>4 DEF Meaning
  <2> QED BY <2>5
<1> HIDE DEF T
<1>3. n \in T
  BY <1>1, <1>2, NatInd
<1> QED BY <1>3 DEF T

LEMMA MeaningSame ==
  ASSUME NEW h, NEW s, NEW m \in Nat, Meaning(h, s, m),
         NEW g, NEW t, NEW n \in Nat, Meaning(g, t, n), n <= m,
         \A k \in 1..n : s[k] = t[k]
  PROVE  \A k \in 1..n : h[k] = g[k]
<1> DEFINE T == {k \in Nat : k \in 1..n => h[k] = g[k]}
<1>1. 0 \in T
  OBVIOUS
<1>2. ASSUME NEW k \in Nat, k \in T, k + 1 \in 1..n PROVE h[k + 1] = g[k + 1]
  <2>1. k + 1 \in 1..m /\ s[k + 1] = t[k + 1] /\ (k + 1) - 1 = k
    BY <1>2
  <2>2. h[k + 1] = IF k + 1 = 1 THEN s[1] ELSE Averaged(h[k], s[k + 1])
    BY <2>1, MeaningFacts
  <2>3. g[k + 1] = IF k + 1 = 1 THEN t[1] ELSE Averaged(g[k], t[k + 1])
    BY <1>2, <2>1, MeaningFacts
  <2>4. CASE k = 0
    <3>1. h[k + 1] = s[1] /\ g[k + 1] = t[1] /\ s[1] = t[1]
      BY <2>1, <2>2, <2>3, <2>4
    <3> QED BY <3>1
  <2>5. CASE k # 0
    <3>1. h[k] = g[k] /\ k + 1 # 1
      BY <1>2, <2>5
    <3> QED BY <2>1, <2>2, <2>3, <3>1
  <2> QED BY <2>4, <2>5
<1>3. \A k \in Nat : k \in T => k + 1 \in T
  BY <1>2
<1> HIDE DEF T
<1>4. \A k \in Nat : k \in T
  BY <1>1, <1>3, NatInd
<1> QED BY <1>4 DEF T

LEMMA RunningMeaning ==
  ASSUME NEW s, NEW n \in Nat, Len(s) = n, DOMAIN s = 1..n
  PROVE  \E h : Meaning(h, s, n) /\ RunningAverage(s) = h[n]
<1> DEFINE mean == CHOOSE h : Meaning(h, s, n)
<1>1. Meaning(mean, s, n)
  <2>1. \E h : Meaning(h, s, n)
    BY MeaningExists
  <2> QED BY <2>1, Zenon
<1>2. RunningAverage(s) = mean[n]
  <2>1. RunningAverage(s) =
          (CHOOSE h : h = [k \in DOMAIN s |-> IF k = 1 THEN s[1] ELSE Averaged(h[k - 1], s[k])])[Len(s)]
    BY Zenon DEF RunningAverage
  <2> QED BY <2>1, Zenon DEF Meaning
<1> QED BY <1>1, <1>2

LEMMA RunningFirst ==
  ASSUME NEW x \in Row PROVE RunningAverage(<<x>>) = x
<1>1. PICK s : s = <<x>>
  OBVIOUS
<1>2. Len(s) = 1 /\ DOMAIN s = 1..1 /\ s[1] = x
  BY <1>1
<1>3. PICK h : Meaning(h, s, 1) /\ RunningAverage(s) = h[1]
  BY <1>2, RunningMeaning
<1>4. 1 \in 1..1 /\ 1 \in Nat
  OBVIOUS
<1>5. h[1] = s[1]
  BY <1>3, <1>4, MeaningFacts
<1> QED BY <1>1, <1>2, <1>3, <1>5

LEMMA RunningNext ==
  ASSUME NEW s \in Seq(Row), s # <<>>, NEW x \in Row
  PROVE  RunningAverage(Append(s, x)) = Averaged(RunningAverage(s), x)
<1>1. PICK t : t = Append(s, x)
  OBVIOUS
<1>2. PICK n \in Nat : n = Len(s)
  OBVIOUS
<1>3. /\ Len(t) = n + 1 /\ DOMAIN t = 1..(n + 1) /\ t[n + 1] = x
      /\ \A k \in 1..n : t[k] = s[k]
  BY <1>1, <1>2
<1>4. DOMAIN s = 1..n /\ n >= 1
  BY <1>2
<1>5. PICK h : Meaning(h, t, n + 1) /\ RunningAverage(t) = h[n + 1]
  BY <1>3, RunningMeaning
<1>6. PICK g : Meaning(g, s, n) /\ RunningAverage(s) = g[n]
  BY <1>2, <1>4, RunningMeaning
<1>7. h[n] = g[n]
  <2>1. \A k \in 1..n : h[k] = g[k]
    BY <1>3, <1>5, <1>6, MeaningSame
  <2> QED BY <1>4, <2>1
<1>8. h[n + 1] = Averaged(h[n], t[n + 1])
  <2>1. n + 1 \in 1..(n + 1) /\ n + 1 # 1 /\ (n + 1) - 1 = n /\ n + 1 \in Nat
    BY <1>4
  <2>2. h[n + 1] = IF n + 1 = 1 THEN t[1] ELSE Averaged(h[(n + 1) - 1], t[n + 1])
    BY <1>5, <2>1, MeaningFacts
  <2> QED BY <2>1, <2>2
<1> QED BY <1>1, <1>3, <1>5, <1>6, <1>7, <1>8

-----------------------------------------------------------------------------
(* Executions of a key that follow each other.  Between the counters of a  *)
(* run and its average, the row of the key is still that of the samples    *)
(* before its own.                                                         *)

Idle(key) == \A r \in Runs : Key[r] = key => ~Updating(r)

\* one row of the key, the running average of the samples, or no row for none
Averages(table, key, samples) ==
  IF samples = <<>> THEN \A i \in DOMAIN table : table[i].key # key
  ELSE \E i \in DOMAIN table : /\ table[i] = RunningAverage(samples)
                               /\ \A j \in DOMAIN table : table[j].key = key <=> j = i

Earlier(samples) == SubSeq(samples, 1, Len(samples) - 1)

Counted(r) ==
  LET samples == SamplesOf(Key[r]) IN
  /\ samples # <<>> /\ samples[Len(samples)] = run[r].sample
  /\ Averages(avgcounter, Key[r], Earlier(samples))
  /\ run[r].pc = "insert" => Earlier(samples) = <<>>
  /\ run[r].pc = "save" => avgcounter[run[r].id] = run[r].loaded

CountedAlone(key) ==
  /\ \A r, q \in Runs : Updating(r) /\ Updating(q) /\ Key[r] = key /\ Key[q] = key => r = q
  /\ Idle(key) => Averages(avgcounter, key, SamplesOf(key))
  /\ \A r \in Runs : Key[r] = key /\ Updating(r) => Counted(r)

CountedInv == \A key \in Keys \ disturbed : CountedAlone(key)

LEMMA InitCounted == Init => CountedInv
<1> SUFFICES ASSUME Init, NEW key \in Keys PROVE CountedAlone(key)
  BY DEF CountedInv
<1>1. \A r \in Runs : ~Updating(r)
  BY DEF Init, Updating
<1>2. SamplesOf(key) = <<>>
  <2>1. Only(<<>>, {row \in Row : row.key = key}) = <<>>
    BY OnlyEmpty
  <2> QED BY <2>1 DEF Init, SamplesOf
<1>3. Averages(avgcounter, key, <<>>)
  <2>1. DOMAIN avgcounter = {}
    BY DEF Init
  <2> QED BY <2>1 DEF Averages
<1> QED BY <1>1, <1>2, <1>3 DEF CountedAlone

\* the same rows of a key
SameRows(table, new, key) ==
  \A i : /\ i \in DOMAIN table /\ table[i].key = key
              => i \in DOMAIN new /\ new[i] = table[i]
         /\ i \in DOMAIN new /\ new[i].key = key
              => i \in DOMAIN table /\ new[i] = table[i]

LEMMA AveragesKept ==
  ASSUME NEW table, NEW new, NEW key, NEW samples,
         SameRows(table, new, key), Averages(table, key, samples)
  PROVE  Averages(new, key, samples)
<1>1. CASE samples = <<>>
  BY <1>1 DEF Averages, SameRows
<1>2. CASE samples # <<>>
  <2>1. PICK i \in DOMAIN table :
          /\ table[i] = RunningAverage(samples)
          /\ \A j \in DOMAIN table : table[j].key = key <=> j = i
    BY <1>2 DEF Averages
  <2>2. i \in DOMAIN new /\ new[i] = table[i]
    BY <2>1 DEF SameRows
  <2>3. ASSUME NEW j \in DOMAIN new PROVE new[j].key = key <=> j = i
    BY <2>1, <2>2 DEF SameRows
  <2> QED BY <1>2, <2>1, <2>2, <2>3 DEF Averages
<1> QED BY <1>1, <1>2

\* A step of runs of other keys, or of one that is not updating.
LEMMA CountedKept ==
  ASSUME AveragesInv, NEW key, CountedAlone(key),
         \A q \in Runs : Key[q] = key => \/ run'[q] = run[q]
                                         \/ ~Updating(q) /\ run'[q].pc = "done",
         SamplesOf(key)' = SamplesOf(key), SameRows(avgcounter, avgcounter', key)
  PROVE  CountedAlone(key)'
<1>1. ASSUME NEW q \in Runs, Key[q] = key
      PROVE  /\ Updating(q)' <=> Updating(q)
             /\ Updating(q) => run'[q] = run[q]
  BY <1>1 DEF Updating
<1>2. Idle(key)' => Averages(avgcounter', key, SamplesOf(key)')
  BY <1>1, AveragesKept DEF Idle, CountedAlone
<1>3. ASSUME NEW q \in Runs, Key[q] = key, Updating(q)' PROVE Counted(q)'
  <2>1. PICK samples : samples = SamplesOf(key)
    OBVIOUS
  <2>2. run'[q] = run[q] /\ Updating(q) /\ SamplesOf(Key[q])' = samples
    BY <1>1, <1>3, <2>1
  <2>3. /\ samples # <<>> /\ samples[Len(samples)] = run[q].sample
        /\ Averages(avgcounter, key, Earlier(samples))
        /\ run[q].pc = "insert" => Earlier(samples) = <<>>
        /\ run[q].pc = "save" => avgcounter[run[q].id] = run[q].loaded
    BY <1>3, <2>1, <2>2 DEF CountedAlone, Counted
  <2>4. Averages(avgcounter', key, Earlier(samples))
    BY <2>3, AveragesKept
  <2>5. run[q].pc = "save" => avgcounter'[run[q].id] = run[q].loaded
    BY <1>3, <2>3 DEF SameRows, AveragesInv, CarriedRow
  <2> QED BY <1>3, <2>2, <2>3, <2>4, <2>5 DEF Counted
<1> QED BY <1>1, <1>2, <1>3 DEF CountedAlone

LEMMA RunEnds ==
  ASSUME NEW r \in Runs, CountedAlone(Key[r]), Updating(r), run \in [Runs -> RunState],
         run' = [run EXCEPT ![r] = At(run[r], "done")],
         Averages(avgcounter', Key[r], SamplesOf(Key[r])')
  PROVE  CountedAlone(Key[r])'
<1>1. run'[r].pc = "done"
  BY RunMoves
<1>2. ASSUME NEW q \in Runs, Key[q] = Key[r] PROVE ~Updating(q)'
  <2>1. CASE q = r
    BY <1>1, <2>1 DEF Updating
  <2>2. CASE q # r
    <3>1. run'[q] = run[q] /\ ~Updating(q)
      BY <1>2, <2>2 DEF CountedAlone
    <3> QED BY <3>1 DEF Updating
  <2> QED BY <2>1, <2>2
<1> QED BY <1>2 DEF CountedAlone

LEMMA RunGoesOn ==
  ASSUME NEW r \in Runs, run \in [Runs -> RunState], NEW s,
         run' = [run EXCEPT ![r] = s], s.pc \in {"query", "insert", "save"},
         \A q \in Runs : Key[q] = Key[r] /\ Updating(q) => q = r,
         Counted(r)'
  PROVE  CountedAlone(Key[r])'
<1>1. Updating(r)'
  BY DEF Updating
<1>2. ASSUME NEW q \in Runs, Key[q] = Key[r], q # r PROVE ~Updating(q)'
  <2>1. run'[q] = run[q] /\ ~Updating(q)
    BY <1>2
  <2> QED BY <2>1 DEF Updating
<1>3. ~Idle(Key[r])'
  BY <1>1 DEF Idle
<1> QED BY <1>1, <1>2, <1>3 DEF CountedAlone

LEMMA SamplesTyped ==
  ASSUME AveragesInv, NEW key
  PROVE  SamplesOf(key) \in Seq(Row)
BY OnlyElements DEF AveragesInv, TypeOK, SamplesOf

\* a list of samples is the earlier ones and the last
LEMMA EarlierFacts ==
  ASSUME NEW s \in Seq(Row)
  PROVE  /\ s # <<>> => /\ Earlier(s) \in Seq(Row) /\ s[Len(s)] \in Row
                        /\ s = Append(Earlier(s), s[Len(s)])
         /\ \A e \in Row : Earlier(Append(s, e)) = s /\ Append(s, e) # <<>>
                           /\ Append(s, e)[Len(Append(s, e))] = e
<1>1. ASSUME s # <<>>
      PROVE  /\ Earlier(s) \in Seq(Row) /\ s[Len(s)] \in Row
             /\ s = Append(Earlier(s), s[Len(s)])
  <2>1. PICK n \in Nat : n = Len(s) - 1 /\ Len(s) = n + 1
    BY <1>1
  <2>2. PICK t : t = Earlier(s)
    OBVIOUS
  <2>3. t \in Seq(Row) /\ Len(t) = n /\ \A k \in 1..n : t[k] = s[k]
    BY <2>1, <2>2 DEF Earlier
  <2>4. s[n + 1] \in Row
    BY <2>1
  <2>5. PICK u : u = Append(t, s[n + 1])
    OBVIOUS
  <2>6. u \in Seq(Row) /\ Len(u) = n + 1 /\ \A k \in 1..(n + 1) : u[k] = s[k]
    BY <2>3, <2>4, <2>5
  <2>7. u = s
    BY <2>1, <2>6, SeqEqual
  <2> QED BY <2>1, <2>2, <2>3, <2>4, <2>5, <2>7
<1>2. ASSUME NEW e \in Row
      PROVE  /\ Earlier(Append(s, e)) = s /\ Append(s, e) # <<>>
             /\ Append(s, e)[Len(Append(s, e))] = e
  <2>1. PICK u : u = Append(s, e)
    OBVIOUS
  <2>2. PICK n \in Nat : n = Len(s)
    OBVIOUS
  <2>3. u \in Seq(Row) /\ Len(u) = n + 1 /\ u[n + 1] = e /\ \A k \in 1..n : u[k] = s[k]
    BY <2>1, <2>2
  <2>4. PICK t : t = Earlier(u)
    OBVIOUS
  <2>5. t \in Seq(Row) /\ Len(t) = n /\ \A k \in 1..n : t[k] = s[k]
    BY <2>3, <2>4 DEF Earlier
  <2>6. t = s
    BY <2>2, <2>5, SeqEqual
  <2>7. u # <<>>
    BY <2>3
  <2> QED BY <2>1, <2>3, <2>4, <2>6, <2>7
<1> QED BY <1>1, <1>2

LEMMA InsertCounterCounted ==
  ASSUME AveragesInv, CountedInv, NEW r \in Runs, InsertCounter(r)
  PROVE  CountedInv'
<1>1. PICK map, reduce \in 0..MaxCPU :
        /\ counter' = Append(counter, JobCounter(Key[r], map, reduce))
        /\ run' = [run EXCEPT ![r] = Measured(run[r], JobCounter(Key[r], map, reduce))]
  BY DEF InsertCounter
<1> DEFINE sample == JobCounter(Key[r], map, reduce)
<1>2. sample \in Row /\ sample.key = Key[r]
  BY JobCounterRow DEF Keys
<1>3. counter' = Append(counter, sample) /\ run' = [run EXCEPT ![r] = Measured(run[r], sample)]
  BY <1>1
<1> HIDE DEF sample
<1>4. counter \in Seq(Row) /\ run \in [Runs -> RunState] /\ avgcounter' = avgcounter
      /\ ~Updating(r)
  BY DEF AveragesInv, TypeOK, InsertCounter, Updating
<1> SUFFICES ASSUME NEW key \in Keys, key \notin disturbed' PROVE CountedAlone(key)'
  BY DEF CountedInv, Keys
<1>5. CountedAlone(key) /\ (key = Key[r] => Idle(key))
  BY DEF CountedInv, InsertCounter, Idle
<1>6. SamplesOf(key)' = IF key = Key[r] THEN Append(SamplesOf(key), sample) ELSE SamplesOf(key)
  <2>1. PICK set : set = {row \in Row : row.key = key}
    OBVIOUS
  <2>2. Only(counter', set) = IF sample \in set THEN Append(Only(counter, set), sample)
                                                ELSE Only(counter, set)
    BY <1>2, <1>3, <1>4, OnlyAppend
  <2>3. SamplesOf(key)' = Only(counter', set) /\ SamplesOf(key) = Only(counter, set)
    BY <2>1 DEF SamplesOf
  <2> QED BY <1>2, <2>1, <2>2, <2>3
<1>7. CASE key # Key[r]
  <2>1. SameRows(avgcounter, avgcounter', key)
    BY <1>4 DEF SameRows
  <2>2. \A q \in Runs : Key[q] = key => run'[q] = run[q]
    BY <1>3, <1>4, <1>7
  <2> QED BY <1>5, <1>6, <1>7, <2>1, <2>2, CountedKept
<1>8. CASE key = Key[r]
  <2>1. PICK s \in Seq(Row) : s = SamplesOf(key)
    BY SamplesTyped
  <2>2. Averages(avgcounter, key, s) /\ \A q \in Runs : Key[q] = Key[r] => ~Updating(q)
    BY <1>5, <1>8, <2>1 DEF CountedAlone, Idle
  <2>3. PICK t : t = Append(s, sample)
    OBVIOUS
  <2>4. Earlier(t) = s /\ t # <<>> /\ t[Len(t)] = sample
    BY <1>2, <2>3, EarlierFacts
  <2>5. /\ Measured(run[r], sample).pc = "query" /\ Measured(run[r], sample).sample = sample
    BY <1>2, <1>4, RunMeasures
  <2>6. run'[r].pc = "query" /\ run'[r].sample = sample
    BY <1>3, <1>4, <2>5
  <2>7. SamplesOf(Key[r])' = t
    BY <1>6, <1>8, <2>1, <2>3
  <2>8. Counted(r)'
    BY <1>4, <1>8, <2>2, <2>4, <2>6, <2>7 DEF Counted
  <2>9. CountedAlone(Key[r])'
    BY <1>3, <1>4, <2>2, <2>5, <2>8, RunGoesOn
  <2> QED BY <1>8, <2>9
<1> QED BY <1>7, <1>8

\* What holds of a run that is updating a key which is not disturbed.
LEMMA UpdatingAlone ==
  ASSUME AveragesInv, CountedInv, NEW r \in Runs, Updating(r), Key[r] \notin disturbed
  PROVE  /\ CountedAlone(Key[r]) /\ Counted(r)
         /\ \A q \in Runs : Key[q] = Key[r] /\ Updating(q) => q = r
         /\ run[r].sample \in Row /\ run[r].sample.key = Key[r]
<1>1. CountedAlone(Key[r])
  BY DEF CountedInv, Keys
<1>2. run[r].sample \in Row /\ run[r].sample.key = Key[r]
  BY DEF AveragesInv, CarriedSample, TypeOK, RunState
<1> QED BY <1>1, <1>2 DEF CountedAlone

\* Another key than that of the run that takes a step.
LEMMA OtherKeyCounted ==
  ASSUME AveragesInv, CountedInv, NEW r \in Runs, NEW s, run' = [run EXCEPT ![r] = s],
         UNCHANGED counter, UNCHANGED disturbed, NEW key \in Keys \ disturbed, key # Key[r],
         SameRows(avgcounter, avgcounter', key)
  PROVE  CountedAlone(key)'
<1>1. CountedAlone(key) /\ SamplesOf(key)' = SamplesOf(key)
  BY DEF CountedInv, SamplesOf
<1>2. \A q \in Runs : Key[q] = key => run'[q] = run[q]
  BY DEF AveragesInv, TypeOK
<1> QED BY <1>1, <1>2, CountedKept

LEMMA QueryCounted ==
  ASSUME AveragesInv, CountedInv, NEW r \in Runs, QueryFindsNone(r) \/ QueryFinds(r)
  PROVE  CountedInv'
<1> SUFFICES ASSUME NEW key \in Keys, key \notin disturbed' PROVE CountedAlone(key)'
  BY DEF CountedInv, Keys
<1>1. /\ run \in [Runs -> RunState] /\ Updating(r)
      /\ UNCHANGED <<counter, avgcounter, disturbed>>
  BY DEF AveragesInv, TypeOK, QueryFindsNone, QueryFinds, Updating
<1>2. \A k : SameRows(avgcounter, avgcounter', k)
  BY <1>1 DEF SameRows
<1>3. CASE key # Key[r]
  <2>1. \E s : run' = [run EXCEPT ![r] = s]
    BY DEF QueryFindsNone, QueryFinds
  <2> QED BY <1>1, <1>2, <1>3, <2>1, OtherKeyCounted
<1>4. CASE key = Key[r]
  <2>1. /\ Counted(r) /\ \A q \in Runs : Key[q] = Key[r] /\ Updating(q) => q = r
        /\ run[r].sample \in Row /\ run[r].sample.key = Key[r]
    BY <1>1, <1>4, UpdatingAlone
  <2>2. PICK samples : samples = SamplesOf(Key[r])
    OBVIOUS
  <2>3. SamplesOf(Key[r])' = samples
    BY <1>1, <2>2 DEF SamplesOf
  <2>4. /\ samples # <<>> /\ samples[Len(samples)] = run[r].sample
        /\ Averages(avgcounter, Key[r], Earlier(samples))
    BY <2>1, <2>2 DEF Counted
  <2>5. CASE QueryFindsNone(r)
    <3>1. PICK s : s = At(run[r], "insert")
      OBVIOUS
    <3>2. s.pc = "insert" /\ s.sample = run[r].sample /\ run' = [run EXCEPT ![r] = s]
      BY <1>1, <2>5, <3>1, RunMoves DEF QueryFindsNone
    <3>3. \A i \in DOMAIN avgcounter : avgcounter[i].key # Key[r]
      BY <2>1, <2>5 DEF QueryFindsNone, Matching
    <3>4. Earlier(samples) = <<>>
      BY <2>4, <3>3 DEF Averages
    <3>5. run'[r] = s
      BY <1>1, <3>2
    <3>6. Counted(r)'
      BY <1>1, <2>3, <2>4, <3>2, <3>4, <3>5 DEF Counted
    <3> QED BY <1>1, <1>4, <2>1, <3>2, <3>6, RunGoesOn
  <2>6. CASE QueryFinds(r)
    <3>1. PICK i \in Matching(r) : run' = [run EXCEPT ![r] = Loaded(run[r], i, avgcounter[i])]
      BY <2>6 DEF QueryFinds
    <3>2. i \in Nat /\ avgcounter[i] \in Row
      BY <3>1, ElementOfSeq DEF Matching, AveragesInv, TypeOK
    <3>3. PICK s : s = Loaded(run[r], i, avgcounter[i])
      OBVIOUS
    <3>4. /\ s.pc = "save" /\ s.sample = run[r].sample /\ s.id = i /\ s.loaded = avgcounter[i]
          /\ run' = [run EXCEPT ![r] = s]
      BY <1>1, <3>1, <3>2, <3>3, RunLoads
    <3>5. run'[r] = s
      BY <1>1, <3>4
    <3>6. Counted(r)'
      BY <1>1, <2>3, <2>4, <3>4, <3>5 DEF Counted
    <3> QED BY <1>1, <1>4, <2>1, <3>4, <3>6, RunGoesOn
  <2> QED BY <2>5, <2>6
<1> QED BY <1>3, <1>4

LEMMA InsertCounted ==
  ASSUME AveragesInv, CountedInv, NEW r \in Runs, InsertAverage(r)
  PROVE  CountedInv'
<1> SUFFICES ASSUME NEW key \in Keys, key \notin disturbed' PROVE CountedAlone(key)'
  BY DEF CountedInv, Keys
<1>1. /\ run \in [Runs -> RunState] /\ Updating(r) /\ UNCHANGED <<counter, disturbed>>
      /\ run' = [run EXCEPT ![r] = At(run[r], "done")]
      /\ avgcounter \in Seq(Row) /\ run[r].sample \in Row /\ run[r].sample.key = Key[r]
  BY DEF AveragesInv, TypeOK, RunState, CarriedSample, InsertAverage, Updating
<1>2. PICK sample \in Row : sample = run[r].sample
  BY <1>1
<1>3. PICK n \in Nat : n = Len(avgcounter)
  BY <1>1
<1>4. avgcounter' = Append(avgcounter, sample)
  BY <1>2 DEF InsertAverage
<1>5. /\ DOMAIN avgcounter = 1..n /\ DOMAIN avgcounter' = 1..(n + 1)
      /\ \A i \in 1..n : avgcounter'[i] = avgcounter[i]
      /\ avgcounter'[n + 1] = sample
  BY <1>1, <1>3, <1>4
<1>6. CASE key # Key[r]
  <2>1. SameRows(avgcounter, avgcounter', key)
    BY <1>1, <1>2, <1>5, <1>6 DEF SameRows
  <2> QED BY <1>1, <1>6, <2>1, OtherKeyCounted
<1>7. CASE key = Key[r]
  <2>1. Counted(r) /\ CountedAlone(Key[r])
    BY <1>1, <1>7, UpdatingAlone
  <2>2. PICK samples \in Seq(Row) : samples = SamplesOf(Key[r])
    BY SamplesTyped
  <2>3. SamplesOf(Key[r])' = samples
    BY <1>1, <2>2 DEF SamplesOf
  <2>4. /\ samples # <<>> /\ samples[Len(samples)] = sample
        /\ Earlier(samples) = <<>> /\ Averages(avgcounter, Key[r], <<>>)
    BY <1>2, <2>1, <2>2 DEF Counted, InsertAverage
  <2>5. samples = <<sample>>
    <3>1. samples = Append(Earlier(samples), samples[Len(samples)])
      BY <2>4, EarlierFacts
    <3> QED BY <2>4, <3>1
  <2>6. RunningAverage(samples) = sample
    BY <2>5, RunningFirst
  <2>7. \A i \in 1..n : avgcounter[i].key # Key[r]
    BY <1>5, <2>4 DEF Averages
  <2>8. \A j \in 1..(n + 1) : avgcounter'[j].key = Key[r] <=> j = n + 1
    <3>1. avgcounter'[n + 1].key = Key[r]
      BY <1>1, <1>2, <1>5
    <3>2. ASSUME NEW j \in 1..n PROVE avgcounter'[j].key # Key[r] /\ j # n + 1
      BY <1>5, <2>7
    <3>3. \A j \in 1..(n + 1) : j \in 1..n \/ j = n + 1
      OBVIOUS
    <3> QED BY <3>1, <3>2, <3>3
  <2>9. Averages(avgcounter', Key[r], samples)
    BY <1>5, <2>4, <2>6, <2>8 DEF Averages
  <2> QED BY <1>1, <1>7, <2>1, <2>3, <2>9, RunEnds
<1> QED BY <1>6, <1>7

LEMMA SaveCounted ==
  ASSUME AveragesInv, CountedInv, NEW r \in Runs, SaveAverage(r)
  PROVE  CountedInv'
<1> SUFFICES ASSUME NEW key \in Keys, key \notin disturbed' PROVE CountedAlone(key)'
  BY DEF CountedInv, Keys
<1>1. /\ run \in [Runs -> RunState] /\ Updating(r) /\ UNCHANGED <<counter, disturbed>>
      /\ run' = [run EXCEPT ![r] = At(run[r], "done")]
      /\ avgcounter \in Seq(Row)
      /\ run[r].sample \in Row /\ run[r].loaded \in Row /\ run[r].loaded.key = Key[r]
      /\ run[r].id \in DOMAIN avgcounter /\ avgcounter[run[r].id].key = Key[r]
  BY DEF AveragesInv, TypeOK, RunState, CarriedRow, SaveAverage, Updating
<1>2. PICK row : row = Averaged(run[r].loaded, run[r].sample)
  OBVIOUS
<1>3. row.key = Key[r]
  BY <1>1, <1>2 DEF Averaged, JobCounter
<1>4. PICK id : id = run[r].id
  OBVIOUS
<1>5. avgcounter' = IF row = run[r].loaded THEN avgcounter ELSE [avgcounter EXCEPT ![id] = row]
  BY <1>2, <1>4 DEF SaveAverage
<1>6. /\ DOMAIN avgcounter' = DOMAIN avgcounter
      /\ \A i \in DOMAIN avgcounter : i # id => avgcounter'[i] = avgcounter[i]
      /\ avgcounter'[id].key = Key[r]
  BY <1>1, <1>3, <1>4, <1>5
<1>7. CASE key # Key[r]
  <2>1. SameRows(avgcounter, avgcounter', key)
    BY <1>1, <1>4, <1>6, <1>7 DEF SameRows
  <2> QED BY <1>1, <1>7, <2>1, OtherKeyCounted
<1>8. CASE key = Key[r]
  <2>1. Counted(r) /\ CountedAlone(Key[r])
    BY <1>1, <1>8, UpdatingAlone
  <2>2. PICK samples \in Seq(Row) : samples = SamplesOf(Key[r])
    BY SamplesTyped
  <2>3. SamplesOf(Key[r])' = samples
    BY <1>1, <2>2 DEF SamplesOf
  <2>4. /\ samples # <<>> /\ samples[Len(samples)] = run[r].sample
        /\ Averages(avgcounter, Key[r], Earlier(samples)) /\ avgcounter[id] = run[r].loaded
    BY <1>4, <2>1, <2>2 DEF Counted, SaveAverage
  <2>5. Earlier(samples) # <<>>
    BY <1>1, <1>4, <2>4 DEF Averages
  <2>6. /\ avgcounter[id] = RunningAverage(Earlier(samples))
        /\ \A j \in DOMAIN avgcounter : avgcounter[j].key = Key[r] <=> j = id
    BY <1>1, <1>4, <2>4, <2>5 DEF Averages
  <2>7. RunningAverage(samples) = row
    <3>1. /\ Earlier(samples) \in Seq(Row) /\ samples[Len(samples)] \in Row
          /\ samples = Append(Earlier(samples), samples[Len(samples)])
      BY <2>4, EarlierFacts
    <3>2. RunningAverage(Append(Earlier(samples), samples[Len(samples)]))
            = Averaged(RunningAverage(Earlier(samples)), samples[Len(samples)])
      BY <2>5, <3>1, RunningNext
    <3> QED BY <1>2, <2>4, <2>6, <3>1, <3>2
  <2>8. avgcounter'[id] = row
    BY <1>1, <1>4, <1>5, <2>4
  <2>9. Averages(avgcounter', Key[r], samples)
    BY <1>1, <1>4, <1>6, <2>4, <2>6, <2>7, <2>8 DEF Averages
  <2> QED BY <1>1, <1>8, <2>1, <2>3, <2>9, RunEnds
<1> QED BY <1>7, <1>8

LEMMA KilledCounted ==
  ASSUME AveragesInv, CountedInv, NEW r \in Runs, Killed(r)
  PROVE  CountedInv'
<1> SUFFICES ASSUME NEW key \in Keys, key \notin disturbed' PROVE CountedAlone(key)'
  BY DEF CountedInv, Keys
<1>1. /\ run \in [Runs -> RunState] /\ UNCHANGED <<counter, avgcounter>>
      /\ run' = [run EXCEPT ![r] = At(run[r], "done")] /\ run'[r].pc = "done"
  BY RunMoves DEF AveragesInv, TypeOK, Killed
<1>2. key \notin disturbed /\ (key = Key[r] => ~Updating(r))
  BY DEF Killed
<1>3. \A q \in Runs : Key[q] = key => \/ run'[q] = run[q]
                                      \/ ~Updating(q) /\ run'[q].pc = "done"
  BY <1>1, <1>2
<1>4. CountedAlone(key) /\ SamplesOf(key)' = SamplesOf(key) /\ SameRows(avgcounter, avgcounter', key)
  BY <1>1, <1>2 DEF CountedInv, SamplesOf, SameRows
<1> QED BY <1>3, <1>4, CountedKept

LEMMA NextCounted ==
  ASSUME AveragesInv, CountedInv, [Next]_vars
  PROVE  CountedInv'
<1>1. CASE UNCHANGED vars
  <2> SUFFICES ASSUME NEW key \in Keys, key \notin disturbed' PROVE CountedAlone(key)'
    BY DEF CountedInv, Keys
  <2>1. /\ CountedAlone(key) /\ SamplesOf(key)' = SamplesOf(key)
        /\ SameRows(avgcounter, avgcounter', key) /\ \A q \in Runs : run'[q] = run[q]
    BY <1>1 DEF CountedInv, SamplesOf, SameRows, vars
  <2> QED BY <2>1, CountedKept
<1>2. ASSUME NEW r \in Runs, InsertCounter(r) PROVE CountedInv'
  BY <1>2, InsertCounterCounted
<1>3. ASSUME NEW r \in Runs, QueryFindsNone(r) \/ QueryFinds(r) PROVE CountedInv'
  BY <1>3, QueryCounted
<1>4. ASSUME NEW r \in Runs, InsertAverage(r) PROVE CountedInv'
  BY <1>4, InsertCounted
<1>5. ASSUME NEW r \in Runs, SaveAverage(r) PROVE CountedInv'
  BY <1>5, SaveCounted
<1>6. ASSUME NEW r \in Runs, Killed(r) PROVE CountedInv'
  BY <1>6, KilledCounted
<1> QED BY <1>1, <1>2, <1>3, <1>4, <1>5, <1>6 DEF Next

LEMMA CountedIsExact ==
  ASSUME AveragesInv, CountedInv PROVE ExactWithoutOverlap
<1> SUFFICES ASSUME NEW key \in Keys \ disturbed, Idle(key), SamplesOf(key) # <<>>
             PROVE  RowsOf(key) = << RunningAverage(SamplesOf(key)) >>
  BY DEF ExactWithoutOverlap, Idle
<1>1. PICK i \in DOMAIN avgcounter :
        /\ avgcounter[i] = RunningAverage(SamplesOf(key))
        /\ \A j \in DOMAIN avgcounter : avgcounter[j].key = key <=> j = i
  BY DEF CountedInv, CountedAlone, Averages
<1>2. PICK set : set = {row \in Row : row.key = key}
  OBVIOUS
<1>3. avgcounter \in Seq(Row) /\ \A j \in DOMAIN avgcounter : avgcounter[j] \in set <=> j = i
  BY <1>1, <1>2, ElementOfSeq DEF AveragesInv, TypeOK
<1>4. Only(avgcounter, set) = << avgcounter[i] >>
  BY <1>3, OnlyOne
<1> QED BY <1>1, <1>2, <1>4 DEF RowsOf

\* Executions of a key that follow each other are averaged without a loss: its
\* one row is the running average of all of them (DbHandler.updateAVGCounter).
THEOREM AveragesAreExact == Spec => []ExactWithoutOverlap
<1>1. Init => CountedInv
  BY InitCounted
<1>2. AveragesInv /\ CountedInv /\ [Next]_vars => CountedInv'
  BY NextCounted
<1>3. AveragesInv /\ CountedInv => ExactWithoutOverlap
  BY CountedIsExact
<1> QED
  BY <1>1, <1>2, <1>3, AveragesInvariant, PTL DEF Spec

-----------------------------------------------------------------------------
(* Optimization: the predicted number of reduces.                          *)

\* \div by a positive number rounds down.
LEMMA DivBounds ==
  ASSUME NEW a \in Nat, NEW b \in Nat, b > 0
  PROVE  /\ a \div b \in Nat
         /\ b * (a \div b) <= a /\ a < b * (a \div b) + b
  OBVIOUS

LEMMA Monotonic ==
  ASSUME NEW a \in Int, NEW b \in Int, NEW f \in Nat, a <= b
  PROVE  f * a <= f * b
  OBVIOUS

\* Truncating first costs less than one byte, and rounding at most 15/2.
LEMMA RoundedByFifteen ==
  ASSUME NEW bytes \in Nat
  PROVE  /\ ReduceNum(bytes) \in Nat
         /\ 2 * bytes - 14 <= 30 * ReduceNum(bytes) /\ 30 * ReduceNum(bytes) <= 2 * bytes + 15
<1>1. ReduceNum(bytes) = (2 * bytes + 15) \div 30
  BY DEF ReduceNum, Rounded
<1> QED
  BY <1>1, DivBounds, 2 * bytes + 15 \in Nat

\* Whatever sizes are typed and however wide an int is: if their product fits,
\* the predicted number of reduces is less than 17/30 away from the quotient.
THEOREM ReduceNumIsRounded == ReduceNumIsNear
<1> SUFFICES ASSUME NEW prediction \in Sizes, NEW shuffle \in Sizes, NEW sample \in Sizes \ {0},
                    prediction >= 0, shuffle >= 0, sample > 0, Fits(prediction * shuffle)
             PROVE  2 * Abs(15 * sample * ReduceNum(PredictionShuffleBytes(prediction, sample, shuffle))
                              - prediction * shuffle) < 17 * sample
  BY DEF ReduceNumIsNear
<1> DEFINE exact == prediction * shuffle
           bytes == PredictionShuffleBytes(prediction, sample, shuffle)
           num   == ReduceNum(bytes)
<1>1. prediction \in Nat /\ shuffle \in Nat /\ sample \in Nat
  BY SizesAssumption
<1>2. exact \in Nat
  BY <1>1
<1>3. bytes = exact \div sample
  <2>1. bytes = Quotient(exact, sample)
    BY DEF PredictionShuffleBytes, Fits
  <2> HIDE DEF exact, bytes
  <2> QED
    BY <1>1, <1>2, <2>1 DEF Quotient, Abs
<1> HIDE DEF exact, bytes
<1>4. bytes \in Nat /\ sample * bytes <= exact /\ exact < sample * bytes + sample
  BY <1>1, <1>2, <1>3, DivBounds
<1>5. num \in Nat /\ 2 * bytes - 14 <= 30 * num /\ 30 * num <= 2 * bytes + 15
  BY <1>4, RoundedByFifteen
<1> HIDE DEF num
<1>6. sample * (2 * bytes - 14) <= sample * (30 * num) /\ sample * (30 * num) <= sample * (2 * bytes + 15)
  <2>1. 2 * bytes - 14 \in Int /\ 30 * num \in Int /\ 2 * bytes + 15 \in Int
    BY <1>4, <1>5
  <2> QED
    BY <1>1, <1>5, <2>1, Monotonic
<1>7. sample * bytes \in Nat /\ sample * num \in Nat
  BY <1>1, <1>4, <1>5
<1>8. /\ sample * (2 * bytes - 14) = 2 * (sample * bytes) - 14 * sample
      /\ sample * (30 * num) = 30 * (sample * num)
      /\ sample * (2 * bytes + 15) = 2 * (sample * bytes) + 15 * sample
      /\ 15 * sample * num = 15 * (sample * num)
  BY <1>1, <1>4, <1>5
<1>9. 2 * Abs(15 * (sample * num) - exact) < 17 * sample
  <2> DEFINE x == sample * bytes
             y == sample * num
  <2>1. /\ 2 * x - 14 * sample <= 30 * y /\ 30 * y <= 2 * x + 15 * sample
        /\ x <= exact /\ exact < x + sample /\ x \in Nat /\ y \in Nat
    BY <1>4, <1>6, <1>7, <1>8
  <2> HIDE DEF x, y
  <2>2. 2 * Abs(15 * y - exact) < 17 * sample
    BY <1>1, <1>2, <2>1 DEF Abs
  <2> QED
    BY <2>2 DEF y
<1> QED
  BY <1>8, <1>9 DEF exact, bytes, num

-----------------------------------------------------------------------------
(* Optimization: the predicted times.                                      *)

Summing(h, t, n) == h = [i \in 0..n |-> IF i = 0 THEN 0 ELSE h[i - 1] + t[i]]

LEMMA SummingFacts ==
  ASSUME NEW h, NEW t, NEW n \in Nat, Summing(h, t, n)
  PROVE  /\ h[0] = 0
         /\ \A i \in 0..(n - 1) : h[i + 1] = h[i] + t[i + 1]
<1>1. \A i \in 0..n : h[i] = IF i = 0 THEN 0 ELSE h[i - 1] + t[i]
  BY DEF Summing
<1>2. 0 \in 0..n
  OBVIOUS
<1>3. ASSUME NEW i \in 0..(n - 1) PROVE h[i + 1] = h[i] + t[i + 1]
  <2>1. i + 1 \in 0..n /\ i + 1 # 0 /\ (i + 1) - 1 = i
    OBVIOUS
  <2> QED BY <1>1, <2>1
<1> QED BY <1>1, <1>2, <1>3

LEMMA SummingExists ==
  ASSUME NEW t, NEW n \in Nat
  PROVE  \E h : Summing(h, t, n)
<1> DEFINE T == {m \in Nat : \E h : Summing(h, t, m)}
<1>1. 0 \in T
  <2>1. PICK h : h = [i \in 0..0 |-> 0]
    OBVIOUS
  <2>2. Summing(h, t, 0)
    BY <2>1 DEF Summing
  <2> QED BY <2>2
<1>2. ASSUME NEW m \in Nat, m \in T PROVE m + 1 \in T
  <2>1. PICK h : Summing(h, t, m)
    BY <1>2
  <2>2. PICK e : e = h[m] + t[m + 1]
    OBVIOUS
  <2>3. PICK g : g = [i \in 0..(m + 1) |-> IF i = m + 1 THEN e ELSE h[i]]
    OBVIOUS
  <2>4. ASSUME NEW i \in 0..(m + 1)
        PROVE  g[i] = IF i = 0 THEN 0 ELSE g[i - 1] + t[i]
    <3>1. CASE i = 0
      <4>1. g[0] = h[0] /\ h[0] = 0
        BY <2>1, <2>3, SummingFacts
      <4> QED BY <3>1, <4>1
    <3>2. CASE i = m + 1
      <4>1. i - 1 = m /\ g[i - 1] = h[m] /\ g[i] = e /\ i # 0
        BY <2>3, <3>2
      <4> QED BY <2>2, <3>2, <4>1
    <3>3. CASE i # 0 /\ i # m + 1
      <4>1. PICK j \in 0..(m - 1) : i = j + 1
        BY <3>3
      <4>2. g[i] = h[j + 1] /\ g[i - 1] = h[j] /\ i - 1 = j
        BY <2>3, <4>1
      <4>3. h[j + 1] = h[j] + t[j + 1]
        BY <2>1, SummingFacts
      <4> QED BY <3>3, <4>1, <4>2, <4>3
    <3> QED BY <3>1, <3>2, <3>3
  <2>5. Summing(g, t, m + 1)
    BY <2>3, <2>4 DEF Summing
  <2> QED BY <2>5
<1> HIDE DEF T
<1>3. n \in T
  BY <1>1, <1>2, NatInd
<1> QED BY <1>3 DEF T

LEMMA SumSumming ==
  ASSUME NEW t, NEW n \in Nat, Len(t) = n
  PROVE  \E h : Summing(h, t, n) /\ Sum(t) = h[n]
<1> DEFINE sum == CHOOSE h : Summing(h, t, n)
<1>1. Summing(sum, t, n)
  <2>1. \E h : Summing(h, t, n)
    BY SummingExists
  <2> QED BY <2>1, Zenon
<1>2. Sum(t) = sum[n]
  <2>1. Sum(t) = (CHOOSE h : h = [i \in 0..Len(t) |-> IF i = 0 THEN 0 ELSE h[i - 1] + t[i]])[Len(t)]
    BY Zenon DEF Sum
  <2> QED BY <2>1, Zenon DEF Summing
<1> QED BY <1>1, <1>2

\* A sum of times between lo and hi.
LEMMA SumBetween ==
  ASSUME NEW t, NEW n \in Nat, Len(t) = n, NEW lo \in Nat, NEW hi \in Nat,
         \A i \in 1..n : t[i] \in Nat /\ lo <= t[i] /\ t[i] <= hi
  PROVE  Sum(t) \in Nat /\ n * lo <= Sum(t) /\ Sum(t) <= n * hi
<1>1. PICK h : Summing(h, t, n) /\ Sum(t) = h[n]
  BY SumSumming
<1>2. h[0] = 0 /\ \A i \in 0..(n - 1) : h[i + 1] = h[i] + t[i + 1]
  BY <1>1, SummingFacts
<1> DEFINE T == {k \in Nat : k <= n => h[k] \in Nat /\ k * lo <= h[k] /\ h[k] <= k * hi}
<1>3. 0 \in T
  BY <1>2
<1>4. ASSUME NEW k \in Nat, k \in T, k + 1 <= n
      PROVE  h[k + 1] \in Nat /\ (k + 1) * lo <= h[k + 1] /\ h[k + 1] <= (k + 1) * hi
  <2>1. PICK a \in Nat : a = h[k] /\ k * lo <= a /\ a <= k * hi
    BY <1>4
  <2>2. k \in 0..(n - 1) /\ k + 1 \in 1..n
    BY <1>4
  <2>3. PICK b \in Nat : b = t[k + 1] /\ lo <= b /\ b <= hi
    BY <2>2
  <2>4. h[k + 1] = a + b
    <3>1. h[k + 1] = h[k] + t[k + 1]
      BY <1>2, <2>2
    <3> QED BY <2>1, <2>3, <3>1
  <2>5. (k + 1) * lo = k * lo + lo /\ (k + 1) * hi = k * hi + hi /\ k * lo \in Nat /\ k * hi \in Nat
    OBVIOUS
  <2> QED BY <2>1, <2>3, <2>4, <2>5
<1>5. \A k \in Nat : k \in T => k + 1 \in T
  BY <1>4
<1> HIDE DEF T
<1>6. n \in T
  BY <1>3, <1>5, NatInd
<1> QED BY <1>1, <1>6 DEF T

\* The rounded mean of numbers between lo and hi is between them.
LEMMA RoundedBetween ==
  ASSUME NEW a \in Nat, NEW b \in Nat \ {0}, NEW lo \in Nat, NEW hi \in Nat,
         b * lo <= a, a <= b * hi
  PROVE  Rounded(a, b) \in Nat /\ lo <= Rounded(a, b) /\ Rounded(a, b) <= hi
<1>1. PICK d \in Nat : d = 2 * b /\ d > 0
  OBVIOUS
<1>2. PICK c \in Nat : c = 2 * a + b
  OBVIOUS
<1>3. PICK q : q = c \div d
  OBVIOUS
<1>4. q \in Nat /\ d * q <= c /\ c < d * q + d
  BY <1>1, <1>3, DivBounds
<1>5. Rounded(a, b) = q
  BY <1>1, <1>2, <1>3 DEF Rounded
<1>6. d * lo = 2 * (b * lo) /\ d * hi = 2 * (b * hi) /\ b * lo \in Nat /\ b * hi \in Nat
  BY <1>1
<1>7. lo <= q
  <2>1. ASSUME q + 1 <= lo PROVE FALSE
    <3>1. d * (q + 1) <= d * lo
      BY <1>1, <1>4, <2>1, Monotonic
    <3>2. d * (q + 1) = d * q + d
      BY <1>1, <1>4
    <3> QED BY <1>1, <1>2, <1>4, <1>6, <3>1, <3>2
  <2> QED BY <1>4, <2>1
<1>8. q <= hi
  <2>1. ASSUME hi + 1 <= q PROVE FALSE
    <3>1. d * (hi + 1) <= d * q
      BY <1>1, <1>4, <2>1, Monotonic
    <3>2. d * (hi + 1) = d * hi + d
      BY <1>1
    <3> QED BY <1>1, <1>2, <1>4, <1>6, <3>1, <3>2
  <2> QED BY <1>4, <2>1
<1> QED BY <1>4, <1>5, <1>7, <1>8

\* A number between 0 and one that fits an int fits it too.
LEMMA FitsBelow ==
  ASSUME NEW a \in Nat, NEW x \in 0..a, Fits(a)
  PROVE  Wrap(x) = x
<1>1. PICK half \in Nat : half = Word \div 2 /\ Word = 2 * half /\ half > 0
  BY WordAssumption
<1>2. ((a + half) % Word) - half = a
  BY <1>1 DEF Fits, Wrap
<1>3. a + half < Word
  <2>1. (a + half) % Word < Word /\ (a + half) % Word \in Nat
    BY <1>1, WordAssumption
  <2> QED BY <1>1, <1>2, <2>1
<1>4. x + half \in Nat /\ x + half < Word
  BY <1>1, <1>3
<1>5. (x + half) % Word = x + half
  BY <1>4, WordAssumption
<1> QED BY <1>1, <1>5 DEF Wrap

\* A list of numbers has a least and a greatest one.
LEMMA Extremes ==
  ASSUME NEW t, NEW n \in Nat \ {0}, NEW top \in Nat, \A i \in 1..n : t[i] \in 0..top
  PROVE  \E i, j \in 1..n : \A k \in 1..n : t[i] <= t[k] /\ t[k] <= t[j]
<1>1. 1 \in 1..n
  OBVIOUS
<1>2. PICK i \in 1..n : \A k \in 1..n : t[i] <= t[k]
  <2> DEFINE T == {t[m] : m \in 1..n}
  <2>1. T \subseteq Nat /\ T # {}
    BY <1>1
  <2> HIDE DEF T
  <2>2. PICK x \in T : \A y \in T : x <= y
    BY <2>1, LeastNat
  <2> QED BY <2>2 DEF T
<1>3. PICK j \in 1..n : \A k \in 1..n : t[k] <= t[j]
  <2> DEFINE T == {top - t[m] : m \in 1..n}
  <2>1. T \subseteq Nat /\ T # {}
    BY <1>1
  <2> HIDE DEF T
  <2>2. PICK x \in T : \A y \in T : x <= y
    BY <2>1, LeastNat
  <2>3. PICK j \in 1..n : x = top - t[j]
    BY <2>2 DEF T
  <2>4. ASSUME NEW k \in 1..n PROVE t[k] <= t[j]
    <3>1. top - t[j] <= top - t[k]
      BY <2>2, <2>3 DEF T
    <3> QED BY <3>1
  <2> QED BY <2>4
<1> QED BY <1>2, <1>3

\* The rows that are read, and what is known of them.
LEMMA ReadRows ==
  ASSUME AveragesInv, NEW script, NEW list, list = readAVGCounter(script), list # <<>>
  PROVE  \E n \in Nat \ {0} :
           /\ Len(list) = n /\ DOMAIN list = 1..n
           /\ \A i \in 1..n : /\ list[i].mapCPU \in 0..MaxCPU /\ list[i].reduceCPU \in 0..MaxCPU
                              /\ Script[list[i].key] = script /\ Bounded(counter, list[i])
<1>1. PICK set : set = {row \in Row : Script[row.key] = script}
  OBVIOUS
<1>2. /\ list \in Seq(Row)
      /\ \A e : (\E i \in DOMAIN list : list[i] = e)
                  => e \in set /\ \E i \in DOMAIN avgcounter : avgcounter[i] = e
  BY <1>1, OnlyElements DEF readAVGCounter, AveragesInv, TypeOK
<1>3. PICK n \in Nat \ {0} : Len(list) = n /\ DOMAIN list = 1..n
  BY <1>2
<1>4. ASSUME NEW i \in 1..n
      PROVE  /\ list[i].mapCPU \in 0..MaxCPU /\ list[i].reduceCPU \in 0..MaxCPU
             /\ Script[list[i].key] = script /\ Bounded(counter, list[i])
  <2>1. list[i] \in set /\ \E k \in DOMAIN avgcounter : avgcounter[k] = list[i]
    BY <1>2, <1>3
  <2> QED BY <1>1, <2>1 DEF AveragesInv, AverageWithinSamples, Row
<1> QED BY <1>3, <1>4

\* Whatever the averages of a script are, the mean of their map times is
\* between two samples.
LEMMA MapTimeBetween ==
  ASSUME AveragesInv, NEW script, readAVGCounter(script) # <<>>
  PROVE  \E lo, hi \in MapSamples(script) :
           /\ lo <= PredictionMapCPUTime(readAVGCounter(script))
           /\ PredictionMapCPUTime(readAVGCounter(script)) <= hi
<1>1. PICK list : list = readAVGCounter(script)
  OBVIOUS
<1>2. PICK n \in Nat \ {0} :
        /\ Len(list) = n /\ DOMAIN list = 1..n
        /\ \A i \in 1..n : /\ list[i].mapCPU \in 0..MaxCPU
                           /\ Script[list[i].key] = script /\ Bounded(counter, list[i])
  BY <1>1, ReadRows
<1>3. PICK t : t = MapTimes(list)
  OBVIOUS
<1>4. t \in [1..n -> 0..MaxCPU] /\ \A i \in 1..n : t[i] = list[i].mapCPU
  BY <1>2, <1>3 DEF MapTimes
<1>5. Len(t) = n
  BY <1>4
<1>6. PICK i, j \in 1..n : \A k \in 1..n : t[i] <= t[k] /\ t[k] <= t[j]
  BY <1>4, CPUAssumption, Extremes
<1>7. PICK a, b \in Nat : a = t[i] /\ b = t[j] /\ \A k \in 1..n : t[k] \in Nat /\ a <= t[k] /\ t[k] <= b
  <2>1. t[i] \in Nat /\ t[j] \in Nat /\ \A k \in 1..n : t[k] \in Nat
    BY <1>4, CPUAssumption
  <2> QED BY <1>6, <2>1
<1>8. Sum(t) \in Nat /\ n * a <= Sum(t) /\ Sum(t) <= n * b
  BY <1>5, <1>7, SumBetween
<1>9. PICK time : time = Rounded(Sum(t), n)
  OBVIOUS
<1>10. time \in Nat /\ a <= time /\ time <= b
  BY <1>8, <1>9, RoundedBetween
<1>11. PredictionMapCPUTime(list) = time
  BY <1>1, <1>2, <1>3, <1>9 DEF PredictionMapCPUTime
<1>12. PICK lo \in SamplesFor(counter, list[i]) : counter[lo].mapCPU <= list[i].mapCPU
  BY <1>2 DEF Bounded
<1>13. PICK hi \in SamplesFor(counter, list[j]) : list[j].mapCPU <= counter[hi].mapCPU
  BY <1>2 DEF Bounded
<1>14. counter[lo].mapCPU \in Nat /\ counter[hi].mapCPU \in Nat
  <2>1. counter[lo] \in Row /\ counter[hi] \in Row
    BY <1>12, <1>13, ElementOfSeq DEF AveragesInv, TypeOK, SamplesFor
  <2> QED BY <2>1, CPUAssumption DEF Row
<1>15. counter[lo].mapCPU \in MapSamples(script) /\ counter[hi].mapCPU \in MapSamples(script)
  BY <1>2, <1>12, <1>13 DEF SamplesFor, MapSamples
<1>16. counter[lo].mapCPU <= time /\ time <= counter[hi].mapCPU
  BY <1>4, <1>7, <1>10, <1>12, <1>13, <1>14
<1> QED BY <1>1, <1>11, <1>15, <1>16

\* A predicted reduce time is not negative unless no reduce is predicted.
LEMMA ReduceTimeNotNegative ==
  ASSUME AveragesInv, NEW script, readAVGCounter(script) # <<>>,
         NEW bytes \in Nat \ {0}, NEW shuffleBytes \in Nat \ {0},
         Fits(Sum(ReduceTimes(readAVGCounter(script))) * bytes),
         PredictionReduceCPUTime(readAVGCounter(script), shuffleBytes, bytes) < 0
  PROVE  ReduceNum(bytes) = 0
<1>1. PICK list : list = readAVGCounter(script)
  OBVIOUS
<1>2. PICK n \in Nat \ {0} :
        /\ Len(list) = n /\ DOMAIN list = 1..n
        /\ \A i \in 1..n : list[i].reduceCPU \in 0..MaxCPU
  BY <1>1, ReadRows
<1>3. PICK t : t = ReduceTimes(list)
  OBVIOUS
<1>4. t \in [1..n -> 0..MaxCPU]
  BY <1>2, <1>3 DEF ReduceTimes
<1>5. Len(t) = n /\ \A k \in 1..n : t[k] \in Nat /\ 0 <= t[k] /\ t[k] <= MaxCPU
  BY <1>4, CPUAssumption
<1>6. Sum(t) \in Nat
  BY <1>5, CPUAssumption, SumBetween
<1>7. PICK num \in Nat : num = ReduceNum(bytes)
  BY RoundedByFifteen
<1>8. PICK a \in Nat : a = Sum(t) * bytes
  BY <1>6
<1>9. PICK b \in Nat : b = shuffleBytes * n * num
  OBVIOUS
<1>10. Fits(a) /\ PredictionReduceCPUTime(list, shuffleBytes, bytes) < 0
  BY <1>1, <1>3, <1>8
<1>11. PredictionReduceCPUTime(list, shuffleBytes, bytes)
         = IF b # 0 THEN Wrap(Rounded(a, b)) ELSE IF a > 0 THEN -1 ELSE 0
  BY <1>2, <1>3, <1>7, <1>8, <1>9 DEF PredictionReduceCPUTime
<1> SUFFICES ASSUME num # 0 PROVE FALSE
  BY <1>7
<1>12. b # 0
  <2>1. PICK m \in Nat \ {0} : m = shuffleBytes * n
    OBVIOUS
  <2>2. m * num # 0
    BY <2>1
  <2> QED BY <1>9, <2>1, <2>2
<1>13. b * 0 <= a /\ a <= b * a
  <2>1. a * 1 <= a * b
    BY <1>12, Monotonic
  <2> QED BY <2>1
<1>14. Rounded(a, b) \in Nat /\ Rounded(a, b) <= a
  BY <1>12, <1>13, RoundedBetween
<1>15. Wrap(Rounded(a, b)) = Rounded(a, b)
  <2>1. Rounded(a, b) \in 0..a
    BY <1>14
  <2> QED BY <1>10, <2>1, FitsBelow
<1> QED BY <1>10, <1>11, <1>12, <1>14, <1>15

\* For any tables that racing updates can leave and any sizes and width of an
\* int: the numbers that Optimization answers with follow from the sizes and
\* from jobs of the script it was asked about.
THEOREM PredictionsAreSound == Spec => []PredictionIsSound
<1>1. ASSUME AveragesInv, NEW script PROVE PredictionIsFromSamples(script)
  <2>1. ASSUME NEW n \in Sizes, n > 0 PROVE n \in Nat \ {0}
    BY <2>1, SizesAssumption
  <2> QED BY <1>1, <2>1, MapTimeBetween, ReduceTimeNotNegative DEF PredictionIsFromSamples
<1>2. AveragesInv => PredictionIsSound
  BY <1>1, ReduceNumIsRounded DEF PredictionIsSound
<1> QED
  BY <1>2, AveragesInvariant, PTL
=============================================================================
