------------------------------- MODULE Funnel -------------------------------
(***************************************************************************)
(* How the packed engine reads the reversed operand (rev_operand in        *)
(* packed/mod.rs).  A packed line holds DPL digits in two planes of LV_LEN *)
(* bytes, the lower nibbles and the upper ones.  The mirror image of a     *)
(* line straddles two lines, and is assembled from their planes by byte    *)
(* permutations whose descending indices reverse it.                       *)
(***************************************************************************)
EXTENDS Layout

CONSTANT LV_LEN   \* bytes of a vector

(* The widths a build can have (values.rs), and two planes to a line. *)
ASSUME WidthAssumption ==
  /\ LV_LEN \in {2, 4, 8, 16, 32, 64}
  /\ DPL = 2 * LV_LEN

Byte == 0 .. LV_LEN - 1

(* The indices are bytes themselves: what goes below zero wraps around.    *)
FunnelIndex(s) == [j \in Byte |-> (LV_LEN - 1 - s - j) % 256]

(* Byte j of the result is byte idx[j] of the two planes in a row, the     *)
(* index taken modulo their length.                                        *)
Permuted(a, idx, b) ==
  [j \in Byte |-> IF idx[j] % DPL < LV_LEN THEN a[idx[j] % DPL]
                                           ELSE b[(idx[j] % DPL) - LV_LEN]]

RevIndex(phi) ==
  FunnelIndex(IF phi > LV_LEN THEN 3 * LV_LEN - phi ELSE 2 * LV_LEN - phi)

Backward(a) == [j \in Byte |-> a[LV_LEN - 1 - j]]

(* Mutant: a phase of a whole plane is taken for one beyond it. *)
RevOperandAtPlane(phi, lower, upper) ==
  IF phi = 0
  THEN [lo |-> Backward(lower.hi), hi |-> Backward(lower.lo)]
  ELSE IF phi < LV_LEN
  THEN [lo |-> Permuted(lower.hi, RevIndex(phi), upper.lo),
        hi |-> Permuted(lower.lo, RevIndex(phi), lower.hi)]
  ELSE [lo |-> Permuted(upper.lo, RevIndex(phi), upper.hi),
        hi |-> Permuted(lower.hi, RevIndex(phi), upper.lo)]

(* The operand at phase phi, the place of the number's end in its line,    *)
(* from the two lines the mirror image lies in.                            *)
RevOperand(phi, lower, upper) ==
  IF phi = 0
  THEN [lo |-> Backward(lower.hi), hi |-> Backward(lower.lo)]
  ELSE IF phi <= LV_LEN
  THEN [lo |-> Permuted(lower.hi, RevIndex(phi), upper.lo),
        hi |-> Permuted(lower.lo, RevIndex(phi), lower.hi)]
  ELSE [lo |-> Permuted(upper.lo, RevIndex(phi), upper.hi),
        hi |-> Permuted(lower.hi, RevIndex(phi), upper.lo)]

(* Digit p of a line. *)
InLine(line, p) == IF p < LV_LEN THEN line.lo[p] ELSE line.hi[p - LV_LEN]

(* A digit of a number; beyond its ends there are zeros. *)
DigitAt(x, d) == IF d \in DOMAIN x THEN x[d] ELSE 0

(* Line m of a number, in its two planes; lines outside it read as zeros.  *)
LineAt(x, m) ==
  [lo |-> [j \in Byte |-> DigitAt(x, m * DPL + j)],
   hi |-> [j \in Byte |-> DigitAt(x, m * DPL + LV_LEN + j)]]

(* The reversed operand of line k of a number of n digits. *)
ReversedLine(x, n, k) ==
  LET q == n \div DPL
  IN  RevOperand(n % DPL, LineAt(x, q - 1 - k), LineAt(x, q - k))

-----------------------------------------------------------------------------

(* Whatever the length of the number, byte by byte the operand assembled   *)
(* for line k is the mirror image of that line, with zeros where the       *)
(* number has none.                                                        *)
FunnelReverses(x, n) ==
  \A k \in 0 .. n \div DPL : \A p \in 0 .. DPL - 1 :
    InLine(ReversedLine(x, n, k), p) = DigitAt(x, n - 1 - (k * DPL + p))

=============================================================================
