------------------------------ MODULE Kernels -------------------------------
(***************************************************************************)
(* The two single-threaded kernels, vector by vector: the packed engine's  *)
(* (run_range and add_resolve_line in packed/mod.rs) and the reference's   *)
(* (fused_reverse_add_asm_interleave in reference.rs with resolve_digits   *)
(* in integer_limb/mod.rs).  Both find all carries of a vector of column   *)
(* sums by one addition of two masks.  A mask is a set of lanes here; only *)
(* for the addition it is a number.                                        *)
(***************************************************************************)
EXTENDS Funnel

-----------------------------------------------------------------------------
(* Masks *)

SymDiff(S, T) == (S \ T) \union (T \ S)

Word(S, lanes) ==
  LET v[i \in 0 .. lanes] ==
        IF i = 0 THEN 0 ELSE v[i - 1] + IF i - 1 \in S THEN 2 ^ (i - 1) ELSE 0
  IN  v[lanes]

Mask(v, lanes) == {i \in 0 .. lanes - 1 : (v \div 2 ^ i) % 2 = 1}

(* Mutant: the generating lanes are added to the propagating ones only, so *)
(* a carry does not start.                                                 *)
AddedWithout(g, p, carry, lanes) == Word(g, lanes) + Word(p, lanes) + Bit(carry)

(* A carry starts where both words have a bit and runs where one has.      *)
Added(g, p, carry, lanes) ==
  Word(g, lanes) + Word(g \union p, lanes) + Bit(carry)

(* The column sums of a vector resolved: lanes that receive a carry gain   *)
(* one, lanes that emit one lose ten.  Where the vector fills the word its *)
(* carry out is the adder's; otherwise it is that of the top lane.         *)
Resolve(sums, lanes, carry) ==
  LET g == {i \in 0 .. lanes - 1 : sums[i] > 9}
      p == {i \in 0 .. lanes - 1 : sums[i] = 9}
      sum == Added(g, p, carry, lanes)
      receive == SymDiff(Mask(sum, lanes), SymDiff(g, g \union p))
      adderCarry == sum >= 2 ^ lanes
      laneCarry == lanes - 1 \in g \union (p \intersect receive)
      emit == {i \in 0 .. lanes - 2 : i + 1 \in receive}
                \union IF adderCarry THEN {lanes - 1} ELSE {}
  IN  [ digit   |-> [i \in 0 .. lanes - 1 |->
                       sums[i] - 10 * Bit(i \in emit) + Bit(i \in receive)],
        carry   |-> adderCarry,
        carried |-> receive # {} \/ adderCarry,
        agree   |-> adderCarry <=> laneCarry ]

-----------------------------------------------------------------------------
(* The kernels *)

NoVector == [digit |-> <<>>, carry |-> FALSE, carried |-> FALSE, agree |-> TRUE]

(* One vector more. *)
WithVector(before, k, lanes, r) ==
  [ digit   |-> [d \in 0 .. (k + 1) * lanes - 1 |->
                   IF d < k * lanes THEN before.digit[d] ELSE r.digit[d - k * lanes]],
    carry   |-> r.carry,
    carried |-> before.carried \/ r.carried,
    agree   |-> before.agree /\ r.agree ]

(* Its sums are resolved on the carry of those below. *)
Chained(x, lanes, operand, before, k) ==
  LET sums == [p \in 0 .. lanes - 1 |->
                 DigitAt(x, k * lanes + p) + operand[k * lanes + p]]
  IN  WithVector(before, k, lanes, Resolve(sums, lanes, before.carry))

(* All vectors of a number and of its second operand, one after another. *)
AddAll(x, n, lanes, operand) ==
  LET upTo[k \in 0 .. DivCeil(n, lanes)] ==
        IF k = 0 THEN NoVector ELSE Chained(x, lanes, operand, upTo[k - 1], k - 1)
  IN  upTo[DivCeil(n, lanes)]

(* A carry out of the top vector is the leading one of a longer number.    *)
Grown(r) ==
  LET n == NumDigits(r.digit)
      all == [d \in 0 .. n |-> IF d = n THEN Bit(r.carry) ELSE r.digit[d]]
      top == CHOOSE d \in 0 .. n :
               all[d] # 0 /\ \A e \in d + 1 .. n : all[e] = 0
  IN  [d \in 0 .. top |-> all[d]]

(* The packed engine's: lines, with the operand from the funnel. *)
PackedKernel(x, n) ==
  LET line == [k \in 0 .. DivCeil(n, DPL) - 1 |-> ReversedLine(x, n, k)]
  IN  AddAll(x, n, DPL, [d \in 0 .. DivCeil(n, DPL) * DPL - 1 |->
                           InLine(line[d \div DPL], d % DPL)])

(* The reference's: limbs, zipped so that byte d has the digit of its      *)
(* mirror image among all bytes in its upper nibble, and read skip_len     *)
(* bytes further up to leave the top limb's empty bytes out.               *)
ReferenceKernel(x, n) ==
  LET bytes == DivCeil(n, LV_LEN) * LV_LEN
      skip == bytes - n
      upper(d) == IF d < bytes THEN DigitAt(x, bytes - 1 - d) ELSE 0
  IN  AddAll(x, n, LV_LEN, [d \in 0 .. bytes - 1 |-> upper(d + skip)])

=============================================================================
