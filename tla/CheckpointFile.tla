--------------------------- MODULE CheckpointFile ---------------------------
(***************************************************************************)
(* What a checkpoint file holds (integer_limb/mod.rs, and the conversions  *)
(* of packed/mod.rs): the engine's number becomes an Integer of one digit  *)
(* per byte, whose limbs are packed two into one for the file; a launch    *)
(* takes the way back.  A write may be cut off after any byte.             *)
(*                                                                         *)
(* A number is a sequence of digits here, the least significant first; a   *)
(* limb is one of LV_LEN digits, and a byte of the file one of two.        *)
(***************************************************************************)
EXTENDS Integers
LOCAL INSTANCE SequencesExt

CONSTANT LV_LEN     \* digits per limb

LOCAL LineDigits == 2 * LV_LEN
LOCAL DivCeil(m, n) == (m + n - 1) \div n
Zero == [p \in 1 .. LV_LEN |-> 0]

Limbs(s) == [k \in 1 .. Len(s) \div LV_LEN |->
               SubSeq(s, (k - 1) * LV_LEN + 1, k * LV_LEN)]

-----------------------------------------------------------------------------
(* Integers *)

(* The used digits of a limb, and of an integer. *)
LimbLen(limb) ==
  CHOOSE n \in 1 .. LV_LEN :
    limb[n] # 0 /\ \A p \in n + 1 .. LV_LEN : limb[p] = 0

IntegerLen(x) == (Len(x) - 1) * LV_LEN + LimbLen(Last(x))

(* Limb 2k-1 is in the low halves of line k, limb 2k in the high halves; a *)
(* last limb without a partner is alone.                                   *)
Pack(x) ==
  [k \in 1 .. DivCeil(Len(x), 2) |->
     [p \in 1 .. LV_LEN |->
        <<x[2 * k - 1][p], IF 2 * k <= Len(x) THEN x[2 * k][p] ELSE 0>>]]

(* Mutant: the halves are swapped. *)
HalvesSwapped(line) ==
  <<[p \in 1 .. LV_LEN |-> line[p][2]], [p \in 1 .. LV_LEN |-> line[p][1]]>>

Halves(line) ==
  <<[p \in 1 .. LV_LEN |-> line[p][1]], [p \in 1 .. LV_LEN |-> line[p][2]]>>

(* A half without a digit is dropped, wherever it is. *)
Unpack(lines) ==
  LET half(k) == Halves(lines[DivCeil(k, 2)])[2 - (k % 2)]
  IN  SelectSeq([k \in 1 .. 2 * Len(lines) |-> half(k)], LAMBDA limb : limb # Zero)

IntoBytes(lines) == FlattenSeq(lines)

-----------------------------------------------------------------------------
(* The engine's two conversions *)

(* The lines of a PackedInt, padded with zeros, and back. *)
EngineLines(s) ==
  LET padded == [d \in 1 .. DivCeil(Len(s), LineDigits) * LineDigits |->
                   IF d <= Len(s) THEN s[d] ELSE 0]
  IN  Limbs(padded)

(* Mutant: a line of room for growth is stored as well. *)
ToIntegerRoomy(s) == EngineLines(s) \o <<Zero, Zero>>

ToInteger(s) == SubSeq(EngineLines(s), 1, DivCeil(Len(s), LV_LEN))

FromInteger(x) == SubSeq(FlattenSeq(x), 1, IntegerLen(x))

-----------------------------------------------------------------------------
(* Storing and loading *)

Checkpoint(s) == IntoBytes(Pack(ToInteger(s)))

(* What is on disk if the write is cut off. *)
Torn(s) == {SubSeq(Checkpoint(s), 1, n) : n \in 0 .. Len(Checkpoint(s)) - 1}

(* A launch refuses a file of other than whole limbs.  What it makes of    *)
(* one without any is not used as a number.                                *)
Accepted(file) == Len(file) % LV_LEN = 0
Load(file) == Unpack(Limbs(file))

-----------------------------------------------------------------------------
(* Properties *)

HasZeroLimb(s) == \E k \in DOMAIN ToInteger(s) : ToInteger(s)[k] = Zero

(* A complete file is never refused, what it loads ends in a limb with a   *)
(* digit, as every conversion takes for granted, and the engine that       *)
(* starts from it has the digits of the one that wrote it, unless the      *)
(* number had a limb of zeros.                                             *)
Restores(s) ==
  LET loaded == Load(Checkpoint(s))
  IN  /\ Accepted(Checkpoint(s))
      /\ loaded # <<>> /\ Last(loaded) # Zero
      /\ ~HasZeroLimb(s) => FromInteger(loaded) = s

(* A torn file never passes for the checkpoint: it is refused, or another  *)
(* number, if any, is loaded from it.                                      *)
NoneTornPasses(s) ==
  \A file \in {f \in Torn(s) : Accepted(f)} :
    Load(file) = <<>> \/ FromInteger(Load(file)) # s

=============================================================================
