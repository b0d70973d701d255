---------------------------- MODULE MCFusedStep3 ----------------------------
(***************************************************************************)
(* Instances of FusedStep3.  As in MCPackedEngine the sums of the first    *)
(* step are chosen by the lower half of the number, over fives.            *)
(***************************************************************************)
EXTENDS FusedStep3

CONSTANTS
  DigitSet,     \* the lower digits of the numbers
  StartDigits   \* their lengths

MCStart ==
  UNION {{[d \in 0 .. n - 1 |-> IF d < n \div 2 THEN low[d] ELSE 5] :
            low \in [0 .. n \div 2 - 1 -> DigitSet]} : n \in StartDigits}

=============================================================================
