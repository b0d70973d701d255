--------------------------- MODULE MCPackedEngine ---------------------------
(***************************************************************************)
(* Instances of PackedEngine.  The column sums are symmetric, so it is     *)
(* enough to vary the lower half of a starting number: with fives above,   *)
(* digits 3, 4 and 5 below give sums that absorb, pass on and generate a   *)
(* carry, in every symmetric pattern.  The second step starts from the     *)
(* unconstrained result of the first.                                      *)
(***************************************************************************)
EXTENDS PackedEngine

CONSTANTS
  DigitSet,     \* the lower digits of the starting numbers
  StartDigits   \* their lengths

MCStart ==
  UNION {{[d \in 0 .. n - 1 |-> IF d < n \div 2 THEN low[d] ELSE 5] :
            low \in [0 .. n \div 2 - 1 -> DigitSet]} : n \in StartDigits}

=============================================================================
