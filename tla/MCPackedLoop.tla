---------------------------- MODULE MCPackedLoop ----------------------------
(***************************************************************************)
(* Instances of PackedLoop: every number of up to three digits and the     *)
(* four-digit numbers over DigitSet, from several places between two       *)
(* reports.                                                                *)
(***************************************************************************)
EXTENDS PackedLoop

CONSTANTS
  DigitSet,      \* digits of the longer starting numbers
  StartDigits,   \* their length
  FirstIterations, RangeEnds

MCRanges == {r \in FirstIterations \X RangeEnds : r[1] <= r[2]}

MCStart ==
  UNION {{x \in Number(n) : Proper(x, n)} : n \in 1 .. StartDigits - 1}
    \union {x \in [0 .. StartDigits - 1 -> DigitSet] : Proper(x, StartDigits)}

=============================================================================
