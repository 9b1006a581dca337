---------------------------- MODULE Optimization ----------------------------
(***************************************************************************)
(* The prediction that the page asks for (Optimization.java): from the     *)
(* rows of table avgcounter and the sizes the user types, the number of    *)
(* reduces and the CPU times for a file of another size.                   *)
(*                                                                         *)
(* It reads the rows in one transaction and writes nothing, so a           *)
(* prediction is a function of a state of AvgCounter.  Sizes are Java      *)
(* ints and their product wraps around; the rest is done in doubles,       *)
(* which are taken as exact, with (int) Math.round of NaN being 0, of      *)
(* Infinity -1 and of -Infinity 0.  The column shuffleBytes, which         *)
(* AvgCounter leaves out, is a parameter, the same for all rows.           *)
(***************************************************************************)
EXTENDS AvgCounter

CONSTANTS
  Script,  \* Script[key]: script_name and jobRankNum of a key
  Sizes,   \* sizes that are typed, and averages of shuffleBytes
  Word     \* 2^32 in the code

ASSUME WordAssumption  == Word \in Nat /\ Word % 2 = 0 /\ Word > 0
ASSUME SizesAssumption == Sizes \subseteq Int

Wrap(n) == ((n + Word \div 2) % Word) - Word \div 2

Abs(n) == IF n < 0 THEN -n ELSE n

\* int division, towards zero
Quotient(a, b) == IF (a < 0) = (b < 0) THEN Abs(a) \div Abs(b) ELSE -(Abs(a) \div Abs(b))

\* Math.round(a / b): the nearest integer, the greater one of two
Rounded(a, b) == IF b < 0 THEN (b - 2 * a) \div (-2 * b) ELSE (2 * a + b) \div (2 * b)

PredictionShuffleBytes(prediction, sample, shuffle) ==
  Quotient(Wrap(prediction * shuffle), sample)

\* 15: the shuffle bytes that one reduce is to get
ReduceNum(bytes) == Rounded(bytes, 15)

\* from AVGCounter where script_name and jobRankNum: one row per number of
\* reduces, more after updates that raced
readAVGCounter(script) == Only(avgcounter, {row \in Row : Script[row.key] = script})

Sum(times) ==
  LET sum[i \in 0..Len(times)] == IF i = 0 THEN 0 ELSE sum[i - 1] + times[i]
  IN sum[Len(times)]

MapTimes(list)    == [i \in DOMAIN list |-> list[i].mapCPU]
ReduceTimes(list) == [i \in DOMAIN list |-> list[i].reduceCPU]

\* a slip: the sum of the rows is not divided
PredictionMapSummed(list) == Sum(MapTimes(list))

PredictionMapCPUTime(list) ==
  IF list = <<>> THEN 0 ELSE Rounded(Sum(MapTimes(list)), Len(list))

\* the mean of reduceCPU / shuffleBytes, times bytes, by the number of reduces
PredictionReduceCPUTime(list, shuffleBytes, bytes) ==
  LET a == Sum(ReduceTimes(list)) * bytes
      b == shuffleBytes * Len(list) * ReduceNum(bytes)
  IN IF b # 0 THEN Wrap(Rounded(a, b)) ELSE IF a > 0 THEN -1 ELSE 0

-----------------------------------------------------------------------------
(* Properties.                                                             *)

Fits(n) == Wrap(n) = n

\* While the product of the sizes fits an int, the predicted number of reduces
\* is the rounded quotient by 15 of the shuffle bytes to be expected, although
\* these are truncated first: it is off by less than 17/30 of a reduce.
ReduceNumIsNear ==
  \A prediction, shuffle \in Sizes, sample \in Sizes \ {0} :
    prediction >= 0 /\ shuffle >= 0 /\ sample > 0 /\ Fits(prediction * shuffle) =>
      LET num == ReduceNum(PredictionShuffleBytes(prediction, sample, shuffle))
      IN 2 * Abs(15 * sample * num - prediction * shuffle) < 17 * sample

\* the map times of the jobs of a script that were counted
MapSamples(script) ==
  {counter[i].mapCPU : i \in {j \in DOMAIN counter : Script[counter[j].key] = script}}

\* Once a job of the script was averaged, the predicted map time lies between
\* the map times of two of its jobs, however their updates raced; and while the
\* products of bytes and reduce times fit an int, the predicted reduce time is
\* negative only for so few bytes that no reduce is predicted either.
PredictionIsFromSamples(script) ==
  LET list == readAVGCounter(script)
      time == PredictionMapCPUTime(list)
  IN list # <<>> =>
       /\ \E lo, hi \in MapSamples(script) : lo <= time /\ time <= hi
       /\ \A bytes, shuffleBytes \in {n \in Sizes : n > 0} :
            Fits(Sum(ReduceTimes(list)) * bytes)
              /\ PredictionReduceCPUTime(list, shuffleBytes, bytes) < 0
            => ReduceNum(bytes) = 0

\* Both, whatever the tables hold: the number of reduces follows from the
\* sizes, and the times from the jobs of that script.
PredictionIsSound ==
  ReduceNumIsNear /\ \A script \in {Script[key] : key \in Keys} : PredictionIsFromSamples(script)
=============================================================================
