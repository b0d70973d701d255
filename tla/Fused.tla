-------------------------------- MODULE Fused -------------------------------
(***************************************************************************)
(* What the double and the triple step of the packed engine have in common *)
(* (packed/mod.rs): how a pass computes a range of lines on a guessed      *)
(* carry, which digits come out wrong when the guess was, which lines have *)
(* consumed them and how one of these is recomputed, and what the carry    *)
(* resolution then works on.                                               *)
(***************************************************************************)
EXTENDS Rounds

Slots(r) == r[1] * DPL .. r[2] * DPL - 1

-----------------------------------------------------------------------------
(* Ground truth *)

(* The column sums of adding the n digits of x and their reversal, in so   *)
(* many lines, and the digits they resolve to; zero above the top digit.   *)
SumsOf(x, n, lines) ==
  [d \in Slots(<<0, lines>>) |-> IF d < n THEN x[d] + x[n - 1 - d] ELSE 0]

(* The slots from lo up to end that receive a carry when the sums from lo  *)
(* on are added with carry-in cin; end among them if it leaves the range.  *)
Receiving(s, lo, end, cin) == {d \in lo .. end : CarryInto(s, lo, d, cin)}

DigitsOf(s) ==
  LET c == Receiving(s, 0, NumDigits(s), FALSE)
  IN  [d \in DOMAIN s |-> Resolved(s[d], d \in c)]

(* Whether any of the true sums over n digits generates a carry; they are  *)
(* symmetric, so one half of them is enough (s2_generates, s3_generates).  *)
Generates(s, n) == \E d \in 0 .. DivCeil(n, 2) - 1 : s[d] >= 10

-----------------------------------------------------------------------------
(* The pass *)

(* The carry slot of a thread's high chunk with that number. *)
FusedSlot(t, ord, lines) ==
  (HighBlock(t) - NumThreads) * FusedHiStride(lines) + ord

(* The digits of interval r as a pass computes them from sums s, guessing  *)
(* that no carry enters it, and whether anything carried on the way.       *)
Guessed(s, r) == Receiving(s, r[1] * DPL, r[2] * DPL, FALSE)

Speculated(s, r) ==
  LET c == Guessed(s, r)
  IN  [d \in Slots(r) |-> Resolved(s[d], d \in c)]

SpeculatedCarried(s, r) == ~IsEmpty(r) /\ Guessed(s, r) # {}

(* A digit of a scratch buffer; slots outside it lie outside the number.   *)
At(buffer, d) == IF d \in DOMAIN buffer THEN buffer[d] ELSE 0

(* A range of lines computed from two scratch buffers of a number of n     *)
(* digits, one read forward and one read backward: its digits, the carry   *)
(* out of it, whether anything carried, and whether all digits equalled    *)
(* their mirror images.                                                    *)
Output(r, fwd, rev, n, carryIn) ==
  LET s == [d \in Slots(r) |-> At(fwd, d) + At(rev, n - 1 - d)]
      c == Receiving(s, r[1] * DPL, r[2] * DPL, carryIn)
  IN  [ digit   |-> [d \in Slots(r) |-> Resolved(s[d], d \in c)],
        carry   |-> r[2] * DPL \in c,
        carried |-> ~IsEmpty(r) /\ c # {},
        equal   |-> \A d \in Slots(r) : At(fwd, d) = At(rev, n - 1 - d) ]

Overlay(b, digit) ==
  [d \in DOMAIN b |-> IF d \in DOMAIN digit THEN digit[d] ELSE b[d]]

-----------------------------------------------------------------------------
(* The repair *)

(* Mutant: only the first digit of an interval is taken to change. *)
RippledFirst(s, r, n) ==
  {p \in {r[1] * DPL} : ~IsEmpty(r) /\ p > 0 /\ p < n /\ CarryInto(s, 0, p, FALSE)}

(* The slots of interval r that the true carry into it changes: those it   *)
(* runs through, nines as the pass computed them, and the one it lands on. *)
Rippled(s, r, n) ==
  LET base == r[1] * DPL
      had == Speculated(s, r)
  IN  {p \in base .. MinOf(r[2] * DPL, n) - 1 :
         /\ base > 0
         /\ CarryInto(s, 0, base, FALSE)
         /\ \A j \in base .. p - 1 : had[j] = 9}

(* With the wrong digits the pass had there. *)
RippleOf(s, r, n) ==
  LET had == Speculated(s, r) IN [p \in Rippled(s, r, n) |-> had[p]]

(* The sums over a number of n digits as they were consumed, if two        *)
(* buffers held wrong digits, one read forward and one read backward.      *)
ConsumedSums(digits, n, fwd, rev) ==
  LET digit(wrong, p) == IF p \in DOMAIN wrong THEN wrong[p] ELSE digits[p]
  IN  [d \in DOMAIN digits |->
         digit(fwd, d) + IF d < n THEN digit(rev, n - 1 - d) ELSE 0]

(* The lines of a chunk that consumed a wrong digit, forward or backward.  *)
Affected(chunk, fwd, rev, n) ==
  Lines(chunk) \intersect
    {d \div DPL : d \in DOMAIN fwd \union {n - 1 - p : p \in DOMAIN rev}}

(* The consumers of one chunk, line by line: the wrong digits it read, and *)
(* the carry chain the line belongs to.                                    *)
ConsumersOf(t, k, side, chunk, chain, fwd, rev, n) ==
  {[key |-> <<t, k, side, line>>, fwd |-> fwd, rev |-> rev, chain |-> chain] :
     line \in Affected(chunk, fwd, rev, n)}

(* Those of one round: the low chunk belongs to the chain of its block,    *)
(* the high chunk is a chain of its own.                                   *)
RoundConsumers(t, k, r, lo, hi, n) ==
  LET bounds == BlockBounds(DivCeil(n, DPL))
  IN  ConsumersOf(t, k, 0, r.lo, <<bounds[t], bounds[t + 1]>>, lo, hi, n)
        \union ConsumersOf(t, k, 1, r.hi, r.hi, hi, lo, n)

(* The repairs are made thread by thread, round by round, low chunk before *)
(* high chunk, line by line.                                               *)
Precedes(x, y) ==
  \E i \in 1 .. 4 :
    x.key[i] < y.key[i] /\ \A j \in 1 .. i - 1 : x.key[j] = y.key[j]

(* One affected line recomputed, on the carry the pass is taken to have    *)
(* had there, from the true sums, and the lines upward from it until one   *)
(* comes out as stored or the chain ends: the digits up to there, and the  *)
(* carry out of the chain, which is of interest in the second case.        *)
Repaired(x, stored, sums, consumed) ==
  LET line == x.key[4]
      cap == x.chain[2]
      carry == CarryInto(consumed, x.chain[1] * DPL, line * DPL, FALSE)
      c == Receiving(sums, line * DPL, cap * DPL, carry)
      right(d) == Resolved(sums[d], d \in c)
      agrees(k) == \A d \in Slots(<<k, k + 1>>) : stored[d] = right(d)
      end == CHOOSE k \in line .. cap :
               /\ k = cap \/ agrees(k)
               /\ \A j \in line .. k - 1 : ~agrees(j)
  IN  [ digit |-> [d \in Slots(<<line, end>>) |-> right(d)],
        atEnd |-> end = cap,
        carry |-> cap * DPL \in c ]

(* No carry chain, a low block or a high chunk, has two lines to repair.   *)
Apart(consumers) == \A x, y \in consumers : x.chain = y.chain => x = y

-----------------------------------------------------------------------------
(* The carries between the ranges *)

AllRounds(rounds) == UNION {{t} \X DOMAIN rounds[t] : t \in Thread}

(* The ranges of an output of so many lines and the carries recorded for   *)
(* them: low blocks whole, high blocks in the chunks of their thread's     *)
(* walk.                                                                   *)
RangesOf(rounds, lines, blockCarry, chunkCarry) ==
  LET bounds == BlockBounds(lines)
      hi(x) == rounds[x[1]][x[2]].at.hi
  IN  {[start |-> bounds[t], end |-> bounds[t + 1], carry |-> blockCarry[t]] :
         t \in {t \in Thread : bounds[t] < bounds[t + 1]}}
      \union
      {[start |-> hi(x)[1], end |-> hi(x)[2],
        carry |-> chunkCarry[FusedSlot(x[1], rounds[x[1]][x[2]].ord, lines)]] :
         x \in {x \in AllRounds(rounds) : ~IsEmpty(hi(x))}}

=============================================================================
