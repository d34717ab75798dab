----------------------------- MODULE Difficulty -----------------------------
(***************************************************************************)
(* The difficulty of the next block (blockchain/difficulty.go): an         *)
(* exponential moving average over the solve times, corrected when the     *)
(* chain is ahead of or behind its schedule ("LTTC").                      *)
(*                                                                         *)
(* Times are in units of MIN_DELTA milliseconds (100 in the code), so that *)
(* a block's smallest solve time is 1; DifficultyW is the width of a limb. *)
(***************************************************************************)
EXTENDS Integers

CONSTANTS
  DifficultyW,
  DIFFICULTY_N,
  TargetTime,        \* TARGET_BLOCK_TIME * 1000 in units of MIN_DELTA
  MIN_DIFFICULTY,
  SampleDiffs,       \* difficulties of one limb and solve times, short enough
  SampleTimes        \* that no uint64 wraps, that the property is about

ASSUME DifficultyAssumption ==
  /\ {DIFFICULTY_N, TargetTime, MIN_DIFFICULTY} \subseteq Nat \ {0} /\ DIFFICULTY_N > 1
  /\ 2^DifficultyW \in Nat /\ DIFFICULTY_N * TargetTime < 2^DifficultyW
  /\ SampleDiffs \subseteq MIN_DIFFICULTY .. 2^DifficultyW - 1
  /\ \A t \in SampleTimes : /\ t \in Nat /\ t * 3 < 2^DifficultyW
                             /\ DIFFICULTY_N * TargetTime + ((t * 3) \div 2) < 2^DifficultyW

U == INSTANCE Uint128 WITH W <- DifficultyW

\* How far the block's timestamp is from the schedule of GENESIS_TIMESTAMP,
\* compared with maxDeviation; "none" without a schedule.
Deviations == {"none", "within", "behind", "ahead"}

\* deltaTime, never zero and corrected towards the schedule.
DeltaTime(elapsed, deviation) ==
  LET deltaTime == IF elapsed < 1 THEN 1 ELSE elapsed
  IN  CASE deviation = "behind" -> (deltaTime * 3) \div 2
        [] deviation = "ahead"  -> (deltaTime * 2) \div 3
        [] OTHER                -> deltaTime

\* Mutant of difficultyEMA: the divisor is N * target + solveTime.
difficultyEMAOffByOne(solveTime, prevDiff) ==
  U!Div64(U!Mul64(prevDiff, DIFFICULTY_N * TargetTime),
          DIFFICULTY_N * TargetTime + solveTime)

difficultyEMA(solveTime, prevDiff) ==
  U!Div64(U!Mul64(prevDiff, DIFFICULTY_N * TargetTime),
          DIFFICULTY_N * TargetTime - TargetTime + solveTime)

GetNextDifficulty(height, diff, elapsed, deviation) ==
  LET newDiff == difficultyEMA(DeltaTime(elapsed, deviation), diff)
  IN  IF height < 2 \/ U!Cmp64(newDiff, MIN_DIFFICULTY) < 0
        THEN U!From64(MIN_DIFFICULTY)
        ELSE newDiff

-----------------------------------------------------------------------------

\* The difficulty answers the solve time in the right direction although every
\* quotient is rounded down (difficulty.go:47): a block that took its target
\* time or less, on a chain that is not behind its schedule, never lowers the
\* difficulty; one that took longer, on a chain that is not ahead, never
\* raises it; a longer time never gives a higher difficulty than a shorter
\* one; one block raises it by at most N / (N - 1); and it stays at or above
\* MIN_DIFFICULTY, so that targets can be divided by it.
Responds ==
  \A d \in SampleDiffs, t \in SampleTimes, dev \in Deviations :
    LET next == U!Value(GetNextDifficulty(2, U!From64(d), t, dev))
    IN  /\ next >= MIN_DIFFICULTY
        /\ t <= TargetTime /\ dev # "behind" => next >= d
        /\ t >= TargetTime /\ dev # "ahead" => next <= d
        /\ next * (DIFFICULTY_N - 1) <= d * DIFFICULTY_N
        /\ \A t2 \in SampleTimes :
             t2 >= t => U!Value(GetNextDifficulty(2, U!From64(d), t2, dev)) <= next
=============================================================================
