-------------------------- MODULE MCReverseAddLoop --------------------------
(***************************************************************************)
(* Every number of up to MaxStart digits, and what becomes of it.  The     *)
(* column sums cover every combination of generating, passing and          *)
(* absorbing columns of that many digits, odd and even lengths, and the    *)
(* sums that grow.  The kernels and the checkpoint file, which are         *)
(* functions of the number, are checked for every number the loop reaches. *)
(***************************************************************************)
EXTENDS ReverseAddLoop, Kernels

CONSTANTS
  MaxStart,   \* digits of the longest starting number
  MaxDigits   \* longest number whose next step is explored

Stored == INSTANCE CheckpointFile

MCStart ==
  UNION {{x \in Number(n) : Proper(x, n)} : n \in 1 .. MaxStart}

Bounded == NumDigits(number) < MaxDigits

(* The value of a number, digit by digit from the top. *)
Value(x) ==
  LET n == NumDigits(x)
      v[d \in 0 .. n] == IF d = n THEN 0 ELSE x[d] + 10 * v[d + 1]
  IN  v[0]

Reversal(x) == [d \in DOMAIN x |-> x[NumDigits(x) - 1 - d]]

(* The digits the step produces are those of the sum of the two values:    *)
(* the carries read off the masks are the carries of long addition, and    *)
(* the prescan grows the number exactly when the sum needs a digit more.   *)
StepIsAddition ==
  [][Value(number') = Value(number) + Value(Reversal(number))]_vars

(* The operand the packed kernel assembles is the mirror image. *)
OperandIsReversal == FunnelReverses(number, NumDigits(number))

(* Vector by vector, with the carries of a whole vector found by one       *)
(* addition of masks, both kernels make the step: its digits, and its      *)
(* carry flag, though that is gathered from masks.  And the two ways to    *)
(* read a vector's carry out, which depend on the width, agree.            *)
KernelsStep ==
  [][\A r \in {PackedKernel(number, NumDigits(number)),
               ReferenceKernel(number, NumDigits(number))} :
       Grown(r) = number' /\ r.carried = carried' /\ r.agree]_vars

(* The number as it is stored. *)
DigitSeq == [k \in 1 .. NumDigits(number) |-> number[k - 1]]

(* A complete checkpoint restores the engine's number, unless it had a     *)
(* limb of zeros (integer_limb/mod.rs 860).                                *)
RestoresUnlessZeroLimb == Stored!Restores(DigitSeq)

(* A torn checkpoint never passes for the whole one: the run that reaches  *)
(* its iteration again notices (main.rs 666).                              *)
TornIsAnother == Stored!NoneTornPasses(DigitSeq)

=============================================================================
