----------------------------- MODULE RoundWalk ------------------------------
(***************************************************************************)
(* One thread walking its pair of blocks in a triple pass, round by round, *)
(* for every length of the number, next to what the round is about to read *)
(* and write.  A double pass makes the same walk with the level of the     *)
(* first step left out.                                                    *)
(***************************************************************************)
EXTENDS Rounds

CONSTANT Lengths   \* lengths of the second step's result

ASSUME LengthAssumption == Lengths \subseteq Nat \ {0}

VARIABLES
  l1, l2,      \* digits after the first and the second step
  t,           \* the thread
  low, high,   \* what is left of its blocks
  ord          \* high chunks so far

walkVars == <<l1, l2, t, low, high, ord>>

q1 == l1 \div DPL
q2 == l2 \div DPL
Q1Lines == DivCeil(l1, DPL)
Q2Lines == DivCeil(l2, DPL)
Bounds == BlockBounds(Q2Lines)

(* A step adds a digit or none. *)
WalkInit ==
  /\ l2 \in Lengths
  /\ l1 \in {l2, l2 - 1} \ {0}
  /\ t \in Thread
  /\ low = Bounds[t]
  /\ high = Bounds[HighBlock(t) + 1]
  /\ ord = 0

Done == Finished(t, low, high, Bounds)
Round == RoundAt(t, low, high, Bounds, q2, Q2Lines)

DoRound ==
  /\ ~Done
  /\ low' = Round.lo[2]
  /\ high' = Round.hi[1]
  /\ ord' = ord + Bit(~IsEmpty(Round.hi))
  /\ UNCHANGED <<l1, l2, t>>

Stop == Done /\ UNCHANGED walkVars

WalkNext == DoRound \/ Stop

WalkSpec == WalkInit /\ [][WalkNext]_walkVars /\ WF_walkVars(DoRound)

-----------------------------------------------------------------------------

FirstLo == FirstStepLo(Round, q1, Q1Lines)
FirstHi == FirstStepHi(Round, q1, Q1Lines)

(* The pass asserts that every interval it materializes fits a scratch     *)
(* buffer ("fused scratch range overflow"), and every chunk of a high      *)
(* block the carry slots of that block ("fused chunk ordinal overflow").   *)
(* The widest rounds are those of a high chunk that is cut off the mirror  *)
(* image of its partner.                                                   *)
BuffersFit ==
  ~Done =>
    /\ \A r \in {Round.rLo, Round.rHi, FirstLo, FirstHi} :
         Size(r) <= SCRATCH_LINES
    /\ ~IsEmpty(Round.hi) => ord < FusedHiStride(Q2Lines)

(* At both levels, and for both chunks, what the pass reads is in scratch  *)
(* ("fused pass read outside its scratch ranges").                         *)
ReadsInScratch ==
  ~Done =>
    /\ InScratch(Round.lo, Round.rLo, Round.rHi, q2, Q2Lines)
    /\ InScratch(Round.hi, Round.rHi, Round.rLo, q2, Q2Lines)
    /\ InScratch(Round.rLo, FirstLo, FirstHi, q1, Q1Lines)
    /\ InScratch(Round.rHi, FirstHi, FirstLo, q1, Q1Lines)

(* The walk ends: the replays of it are loops without a bound of their own.*)
WalkEnds == <>Done

=============================================================================
