------------------------------ MODULE Retarget ------------------------------
(***************************************************************************)
(* The difficulty: adjustDifficulty of internal/blockchain/blockchain.go,  *)
(* called by every AddBlock before it makes the block.  A time is a number *)
(* of seconds; bits are leading zero bits, so more bits are harder.        *)
(***************************************************************************)
EXTENDS Integers, Sequences

CONSTANTS
    Interval, \* DifficultyAdjustmentInterval, 10 in the code
    Seconds,  \* BlockGenerationInterval, 10 in the code
    MinBits,  \* 8 in the code
    MaxBits   \* 32 in the code

ASSUME RetargetAssumption ==
    /\ Interval \in Nat /\ Interval >= 3
    /\ Seconds \in Nat \ {0}
    /\ MinBits \in Nat /\ MaxBits \in Nat /\ MinBits <= MaxBits

(* Not the code: the times are subtracted the other way round.             *)
TimeTakenBackwards(times) ==
    times[Len(times) - Interval + 1] - times[Len(times)]

(* From the first to the last block of the interval: there are Interval    *)
(* blocks, and one gap less between them.                                  *)
TimeTaken(times) == times[Len(times)] - times[Len(times) - Interval + 1]

ExpectedTime == Interval * Seconds

(* The bits of the next block, given the times of the blocks so far.       *)
AdjustDifficulty(times, bits) ==
    IF Len(times) % Interval # 0 \/ Len(times) < Interval THEN bits
    ELSE IF 2 * TimeTaken(times) < ExpectedTime
         THEN IF bits < MaxBits THEN bits + 1 ELSE bits
    ELSE IF TimeTaken(times) > 2 * ExpectedTime
         THEN IF bits > MinBits THEN bits - 1 ELSE bits
    ELSE bits

(* The bits of each block of a chain that was mined without an error.      *)
BitsOf(times, first) ==
    LET bits[i \in 1..Len(times)] ==
            IF i = 1 THEN first
            ELSE AdjustDifficulty(SubSeq(times, 1, i - 1), bits[i - 1])
    IN bits

-----------------------------------------------------------------------------
(* A chain whose blocks come at a steady pace, one every gap seconds.      *)
Steady(gap, length) == [i \in 1..length |-> (i - 1) * gap]

(* The difficulty follows the pace: it never moves when blocks come in     *)
(* time, although the code measures one gap less than it expects; it rises *)
(* to the limit when they come twice as fast, and sinks to the other limit *)
(* when they take more than twice as long and the missing gap is made up   *)
(* for; one bit per interval, never more and never the other way.          *)
FollowsPace(gap, first, lengths) ==
    \A n \in lengths :
        LET bits == BitsOf(Steady(gap, n), first)
            rounds == (n - 1) \div Interval
            least(a, b) == IF a < b THEN a ELSE b
        IN /\ 2 * gap <= Seconds =>
                 bits[n] = first + least(rounds, MaxBits - first)
           /\ gap >= Seconds /\ gap <= 2 * Seconds => bits[n] = first
           /\ gap * (Interval - 1) > 2 * Seconds * Interval =>
                 bits[n] = first - least(rounds, first - MinBits)
=============================================================================
