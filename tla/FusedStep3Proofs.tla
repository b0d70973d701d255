-------------------------- MODULE FusedStep3Proofs --------------------------
(***************************************************************************)
(* Theorems about the fused triple step, for any pool, chunk size and      *)
(* proper numbers: which digits of the second step a round holds wrong,    *)
(* and what the flags tell the loop in the end.                            *)
(***************************************************************************)
EXTENDS FusedStep3, ArithmeticProofs

-----------------------------------------------------------------------------
(* Ground truth *)

l == NumDigits(source)

(* Lines of the first step, which has room for the growth of the second.   *)
N1Lines == DivCeil(l1 + 1, DPL)

(* What no action changes. *)
Truth ==
  /\ source \in Start
  /\ l1 = l + Bit(PrescanGrow(source, l))
  /\ s1 = SumsOf(source, l, N1Lines)
  /\ d1 = DigitsOf(s1)
  /\ l2 = l1 + Bit(PrescanGrow(d1, l1))
  /\ s2 = SumsOf(d1, l1, q2Lines)
  /\ d2 = DigitsOf(s2)
  /\ s3 = SumsOf(d2, l2, q2Lines)
  /\ rounds = [t \in Thread |-> RoundsOf(t, l2)]

LEMMA TruthInit == Init => Truth
  BY DEF Init, Truth, l, N1Lines

LEMMA TruthKept ==
  ASSUME Truth, UNCHANGED truth
  PROVE  Truth'
  BY DEF Truth, truth, l, N1Lines, q2Lines

LEMMA TruthConstant ==
  ASSUME [Next]_vars
  PROVE  UNCHANGED truth
<1>1. ASSUME NEW t \in Thread, PhaseAB(t) PROVE UNCHANGED truth
  BY <1>1 DEF PhaseAB
<1>2. ASSUME NEW t \in Thread, PhaseC(t) PROVE UNCHANGED truth
  BY <1>2, Zenon DEF PhaseC
<1>3. ASSUME NEW t \in Thread, PassEnd(t) PROVE UNCHANGED truth
  BY <1>3 DEF PassEnd
<1>4. ASSUME NEW t \in Thread, NEW x, RepairLine(t, x) PROVE UNCHANGED truth
  BY <1>4 DEF RepairLine
<1>5. ASSUME NEW g, ResolveRange(g) PROVE UNCHANGED truth
  BY <1>5 DEF ResolveRange
<1>6. StartResolve \/ Return \/ Done \/ UNCHANGED vars => UNCHANGED truth
  BY DEF StartResolve, Return, Done, vars
<1>7. QED BY <1>1, <1>2, <1>3, <1>4, <1>5, <1>6, SMTT(60) DEF Next

FirstSum == ReverseAdd(source, l)
SecondSum == ReverseAdd(FirstSum, l1)

(* The lengths of the numbers and their lines. *)
LEMMA Lengths3 ==
  ASSUME Truth
  PROVE  /\ l \in Nat \ {0} /\ source \in Number(l) /\ Proper(source, l)
         /\ l1 \in {l, l + 1} /\ l1 \in Nat \ {0} /\ N1Lines \in Nat
         /\ l1 + 1 <= N1Lines * DPL
         /\ FirstSum \in Number(l1) /\ Proper(FirstSum, l1)
<1>1. l \in Nat /\ source \in Number(l) /\ Proper(source, l)
  BY StartAssumption DEF Truth, IsProper, l
<1>2. l \in Nat \ {0}
  BY <1>1 DEF Proper
<1>3. l1 = l + Bit(PrescanGrow(source, l))
  BY DEF Truth
<1> HIDE DEF l
<1>4. l1 \in {l, l + 1} /\ FirstSum \in Number(l1) /\ Proper(FirstSum, l1)
  BY <1>1, <1>2, <1>3, ReverseAddProper DEF FirstSum
<1>5. l1 \in Nat \ {0} /\ l1 + 1 \in Nat \ {0}
  BY <1>2, <1>4
<1>6. N1Lines \in Nat /\ l1 + 1 <= N1Lines * DPL
  BY <1>5, LinesOfDigits DEF N1Lines
<1>7. QED BY <1>1, <1>2, <1>4, <1>5, <1>6

(* The first step. *)
LEMMA FirstIsStep ==
  ASSUME Truth
  PROVE  /\ IsStep(s1, d1, l1, N1Lines)
         /\ \A d \in 0 .. N1Lines * DPL - 1 : d1[d] = IF d < l1 THEN FirstSum[d] ELSE 0
         /\ \A d \in 0 .. l1 - 1 : d1[d] = FirstSum[d]
         /\ \A d \in DOMAIN s1 : d >= l1 => s1[d] = 0
<1> DEFINE N == N1Lines * DPL
<1>1. /\ l \in Nat \ {0} /\ source \in Number(l) /\ N1Lines \in Nat
      /\ l1 + 1 <= N /\ l1 \in Nat /\ N \in Nat
  BY Lengths3, LineBase
<1>2. /\ s1 = SumsOf(source, l, N1Lines) /\ d1 = DigitsOf(s1)
      /\ l1 = l + Bit(PrescanGrow(source, l))
  BY DEF Truth
<1> HIDE DEF l, N1Lines, N
<1>3. l1 <= N
  BY <1>1
<1>4. /\ IsStep(s1, d1, l1, N1Lines)
      /\ \A d \in DOMAIN s1 : d1[d] = IF d < l1 THEN FirstSum[d] ELSE 0
  BY <1>1, <1>2, <1>3, StepIs DEF FirstSum, N
<1>5. DOMAIN s1 = 0 .. N - 1 /\ \A d \in DOMAIN s1 : d >= l1 => s1[d] = 0
  BY <1>4 DEF IsStep, N
<1>6. \A d \in 0 .. l1 - 1 : d \in DOMAIN s1 /\ d < l1
  BY <1>1, <1>3, <1>5
<1>7. QED BY <1>4, <1>5, <1>6 DEF N

(* The second step's length, its lines, and those of the first.            *)
LEMMA SecondLength ==
  ASSUME Truth
  PROVE  /\ l2 = l1 + Bit(PrescanGrow(FirstSum, l1))
         /\ l2 \in {l1, l1 + 1} /\ l2 \in Nat \ {0}
         /\ SecondSum \in Number(l2) /\ Proper(SecondSum, l2)
         /\ q2Lines \in Nat \ {0} /\ q2Lines * DPL \in Nat
         /\ l1 <= q2Lines * DPL /\ l2 <= q2Lines * DPL
         /\ q1Lines \in Nat /\ q1Lines <= q2Lines /\ q2Lines <= N1Lines
         /\ q1 \in Nat
<1>1. /\ l1 \in Nat \ {0} /\ FirstSum \in Number(l1) /\ Proper(FirstSum, l1)
  BY Lengths3
<1>2. \A d \in 0 .. l1 - 1 : d1[d] = FirstSum[d]
  BY FirstIsStep
<1>3. PrescanGrow(d1, l1) = PrescanGrow(FirstSum, l1)
  BY <1>1, <1>2, SumsOfSame, LineAssumption
<1>4. l2 = l1 + Bit(PrescanGrow(FirstSum, l1))
  BY <1>3 DEF Truth
<1>5. l2 \in {l1, l1 + 1} /\ SecondSum \in Number(l2) /\ Proper(SecondSum, l2)
  BY <1>1, <1>4, ReverseAddProper DEF SecondSum
<1>6. l2 \in Nat \ {0}
  BY <1>1, <1>5
<1>7. /\ q2Lines \in Nat \ {0} /\ l2 <= q2Lines * DPL /\ q2Lines * DPL \in Nat
      /\ \A x \in Nat : l2 <= x * DPL <=> q2Lines <= x
  BY <1>6, LinesOfDigits, LineBase DEF q2Lines
<1>8. /\ q1Lines \in Nat
      /\ \A x \in Nat : l1 <= x * DPL <=> q1Lines <= x
  BY <1>1, LinesOfDigits DEF q1Lines
<1>9. N1Lines \in Nat /\ l1 + 1 <= N1Lines * DPL /\ N1Lines * DPL \in Nat
  BY Lengths3, LineBase
<1>10. q1 \in Nat
  BY <1>1, LineAssumption DEF q1
<1> DEFINE M == q2Lines * DPL
           N == N1Lines * DPL
<1> HIDE DEF M, N
<1>11. l1 <= M /\ l2 <= N
  BY <1>1, <1>5, <1>6, <1>7, <1>9 DEF M, N
<1>12. q1Lines <= q2Lines /\ q2Lines <= N1Lines
  BY <1>7, <1>8, <1>9, <1>11 DEF M, N
<1>13. QED BY <1>4, <1>5, <1>6, <1>7, <1>8, <1>10, <1>11, <1>12 DEF M

(* The second step: on the digits of the first, in fewer lines.            *)
LEMMA SecondIsStep ==
  ASSUME Truth
  PROVE  /\ s2 = SumsOf(FirstSum, l1, q2Lines) /\ d2 = DigitsOf(s2)
         /\ IsStep(s2, d2, l2, q2Lines)
         /\ \A d \in 0 .. q2Lines * DPL - 1 : d2[d] = IF d < l2 THEN SecondSum[d] ELSE 0
         /\ \A d \in 0 .. l2 - 1 : d2[d] = SecondSum[d]
<1> DEFINE N == q2Lines * DPL
<1>1. /\ l1 \in Nat \ {0} /\ FirstSum \in Number(l1)
  BY Lengths3
<1>2. /\ l2 = l1 + Bit(PrescanGrow(FirstSum, l1)) /\ l2 \in Nat \ {0}
      /\ q2Lines \in Nat \ {0} /\ l2 <= N /\ N \in Nat
  BY SecondLength
<1>3. \A d \in 0 .. l1 - 1 : d1[d] = FirstSum[d]
  BY FirstIsStep
<1>4. SumsOf(d1, l1, q2Lines) = SumsOf(FirstSum, l1, q2Lines)
  BY <1>1, <1>2, <1>3, SumsOfSame
<1>5. s2 = SumsOf(FirstSum, l1, q2Lines) /\ d2 = DigitsOf(s2)
  BY <1>4 DEF Truth
<1>6. /\ IsStep(s2, d2, l2, q2Lines)
      /\ \A d \in DOMAIN s2 : d2[d] = IF d < l2 THEN SecondSum[d] ELSE 0
  BY <1>1, <1>2, <1>5, StepIs DEF SecondSum
<1>7. DOMAIN s2 = 0 .. N - 1
  BY <1>6 DEF IsStep
<1> HIDE DEF N
<1>8. \A d \in 0 .. l2 - 1 : d \in DOMAIN s2 /\ d < l2
  BY <1>2, <1>7
<1>9. QED BY <1>5, <1>6, <1>7, <1>8 DEF N

(* Both steps' digits, in the lines of the second. *)
LEMMA BothDigits ==
  ASSUME Truth
  PROVE  /\ AreDigits(d1, l1, q2Lines) /\ AreDigits(d2, l2, q2Lines)
         /\ \A d \in 0 .. q2Lines * DPL - 1 :
              /\ d >= l1 => d1[d] = 0
              /\ d >= l2 => d2[d] = 0
<1> DEFINE M == q2Lines * DPL
           N == N1Lines * DPL
<1>1. IsStep(s1, d1, l1, N1Lines) /\ IsStep(s2, d2, l2, q2Lines)
  BY FirstIsStep, SecondIsStep
<1>2. /\ q2Lines \in Nat /\ N1Lines \in Nat /\ q2Lines <= N1Lines /\ l1 <= M
      /\ M \in Nat
  BY SecondLength, FirstIsStep DEF IsStep
<1>3. M <= N /\ N \in Nat
  BY <1>2, LinesAscend, LineBase
<1>4. /\ l1 \in Nat \ {0} /\ DOMAIN d1 = 0 .. N - 1
      /\ \A d \in DOMAIN d1 : d1[d] \in Digit /\ (d >= l1 => d1[d] = 0)
  BY <1>1 DEF IsStep
<1>5. /\ l2 \in Nat \ {0} /\ DOMAIN d2 = 0 .. M - 1 /\ l2 <= M
      /\ \A d \in DOMAIN d2 : d2[d] \in Digit /\ (d >= l2 => d2[d] = 0)
  BY <1>1 DEF IsStep
<1> HIDE DEF M, N
<1>6. \A d \in 0 .. M - 1 : d \in DOMAIN d1 /\ d \in DOMAIN d2
  BY <1>2, <1>3, <1>4, <1>5
<1>7. QED BY <1>2, <1>4, <1>5, <1>6 DEF AreDigits, M

(* The numbers in between, as the properties name them, and the sums of    *)
(* the third step.                                                         *)
LEMMA NumbersBetween ==
  ASSUME Truth
  PROVE  /\ First = FirstSum /\ Second = SecondSum
         /\ s3 = SumsOf(SecondSum, l2, q2Lines)
<1>1. /\ FirstSum \in Number(l1) /\ \A d \in 0 .. l1 - 1 : d1[d] = FirstSum[d]
  BY Lengths3, FirstIsStep
<1>2. /\ SecondSum \in Number(l2) /\ \A d \in 0 .. l2 - 1 : d2[d] = SecondSum[d]
  BY SecondLength, SecondIsStep
<1>3. First = FirstSum
  BY <1>1 DEF First, Number
<1>4. Second = SecondSum
  BY <1>2 DEF Second, Number
<1>5. l2 \in Nat \ {0} /\ q2Lines \in Nat
  BY SecondLength
<1>6. SumsOf(d2, l2, q2Lines) = SumsOf(SecondSum, l2, q2Lines)
  BY <1>2, <1>5, SumsOfSame
<1>7. QED BY <1>3, <1>4, <1>6 DEF Truth

(* Whether a step carries is told by its sums; of the third step and the   *)
(* second one half of them is enough.                                      *)
LEMMA CarriedBySums ==
  ASSUME Truth
  PROVE  /\ AnyCarried(source, l) <=> \E d \in DOMAIN s1 : s1[d] > 9
         /\ AnyCarried(First, l1) <=> \E d \in DOMAIN s2 : s2[d] > 9
         /\ AnyCarried(Second, l2) <=> \E d \in DOMAIN s3 : s3[d] > 9
         /\ Generates(s2, l1) <=> AnyCarried(First, l1)
         /\ Generates(s3, l2) <=> AnyCarried(Second, l2)
<1>1. /\ l \in Nat \ {0} /\ source \in Number(l) /\ N1Lines \in Nat
      /\ l1 \in {l, l + 1} /\ l1 + 1 <= N1Lines * DPL /\ l1 \in Nat \ {0}
      /\ FirstSum \in Number(l1)
  BY Lengths3
<1>2. l <= N1Lines * DPL
  <2> DEFINE N == N1Lines * DPL
  <2>1. N \in Nat /\ l1 + 1 <= N
    BY <1>1, LineBase
  <2> HIDE DEF N, l
  <2>2. l <= N
    BY <1>1, <2>1
  <2>3. QED BY <2>2 DEF N
<1>3. /\ l2 \in Nat \ {0} /\ SecondSum \in Number(l2) /\ q2Lines \in Nat
      /\ l1 <= q2Lines * DPL /\ l2 <= q2Lines * DPL
  BY SecondLength
<1>4. /\ s1 = SumsOf(source, l, N1Lines) /\ s2 = SumsOf(FirstSum, l1, q2Lines)
      /\ s3 = SumsOf(SecondSum, l2, q2Lines)
      /\ First = FirstSum /\ Second = SecondSum
  BY SecondIsStep, NumbersBetween DEF Truth
<1> HIDE DEF l, N1Lines, q2Lines, First, Second
<1>5. AnyCarried(source, l) <=> \E d \in DOMAIN s1 : s1[d] > 9
  BY <1>1, <1>2, <1>4, CarriesAre
<1>6. /\ AnyCarried(First, l1) <=> \E d \in DOMAIN s2 : s2[d] > 9
      /\ Generates(s2, l1) <=> AnyCarried(First, l1)
  BY <1>1, <1>3, <1>4, CarriesAre
<1>7. /\ AnyCarried(Second, l2) <=> \E d \in DOMAIN s3 : s3[d] > 9
      /\ Generates(s3, l2) <=> AnyCarried(Second, l2)
  BY <1>3, <1>4, CarriesAre, SMTT(60)
<1>8. QED BY <1>5, <1>6, <1>7

-----------------------------------------------------------------------------
(* What a round reads *)

(* An interval and the mirror images of another, in a number that may be   *)
(* shorter than what they are lines of.                                    *)
LEMMA NeededLines ==
  ASSUME NEW lines \in Nat, NEW limit \in Nat, limit <= lines, NEW q \in Nat,
         NEW r \in Interval, IsRange(r, lines), NEW u \in Interval, IsRange(u, lines)
  PROVE  LET v == IntervalUnion(r, BackwardOf(u, q, limit))
         IN  /\ IsRange(v, lines)
             /\ q <= limit /\ r[1] <= r[2] /\ u[1] <= u[2] => v[1] <= v[2]
BY DEF IsRange, Interval, IntervalUnion, BackwardOf, IsEmpty, MinOf, MaxOf

LEMMA RoundReads ==
  ASSUME Truth, NEW t \in Thread, NEW k \in DOMAIN rounds[t]
  PROVE  LET r == Round(t, k)
         IN  /\ r.lo[1] <= r.lo[2] /\ r.hi[1] <= r.hi[2]
             /\ r.rLo[1] <= r.rLo[2] /\ r.rHi[1] <= r.rHi[2]
             /\ IsRange(r.lo, q2Lines) /\ IsRange(r.hi, q2Lines)
             /\ IsRange(r.rLo, q2Lines) /\ IsRange(r.rHi, q2Lines)
             /\ IsRange(FirstLo(r), q2Lines) /\ IsRange(FirstHi(r), q2Lines)
             /\ InScratch(r.lo, r.rLo, r.rHi, l2 \div DPL, q2Lines)
             /\ InScratch(r.hi, r.rHi, r.rLo, l2 \div DPL, q2Lines)
             /\ InScratch(r.rLo, FirstLo(r), FirstHi(r), q1, q1Lines)
             /\ InScratch(r.rHi, FirstHi(r), FirstLo(r), q1, q1Lines)
<1> DEFINE r == Round(t, k)
           q == l2 \div DPL
<1>1. l2 \in Nat \ {0} /\ q2Lines \in Nat /\ q1Lines \in Nat /\ q1Lines <= q2Lines /\ q1 \in Nat
  BY SecondLength
<1>2. k \in DOMAIN RoundsOf(t, l2) /\ r = RoundsOf(t, l2)[k].at
  BY SMTT(60) DEF Round, Truth
<1>3. /\ r.lo = <<r.lo[1], r.lo[2]>> /\ r.hi = <<r.hi[1], r.hi[2]>>
      /\ r.lo[1] <= r.lo[2] /\ r.hi[1] <= r.hi[2]
      /\ IsRange(r.lo, q2Lines) /\ IsRange(r.hi, q2Lines)
      /\ IsRange(r.rLo, q2Lines) /\ IsRange(r.rHi, q2Lines)
      /\ r.rLo \in Interval /\ r.rHi \in Interval
      /\ InScratch(r.lo, r.rLo, r.rHi, q, q2Lines)
      /\ InScratch(r.hi, r.rHi, r.rLo, q, q2Lines)
  BY <1>1, <1>2, RoundLines DEF q2Lines
<1>4. /\ r.rLo = IntervalUnion(r.lo, BackwardOf(r.hi, q, q2Lines))
      /\ r.rHi = IntervalUnion(r.hi, BackwardOf(r.lo, q, q2Lines))
  BY <1>1, <1>2, RoundStep DEF q2Lines
<1>5. q \in Nat /\ q <= q2Lines
  BY <1>1, BlocksOfThread DEF q2Lines
<1> HIDE DEF r, q
<1>6. r.lo \in Interval /\ r.hi \in Interval
  BY <1>3 DEF IsRange, Interval
<1>7. r.rLo[1] <= r.rLo[2] /\ r.rHi[1] <= r.rHi[2]
  BY <1>1, <1>3, <1>4, <1>5, <1>6, NeededLines, SMTT(60)
<1>8. IsRange(FirstLo(r), q2Lines) /\ IsRange(FirstHi(r), q2Lines)
  BY <1>1, <1>3, NeededLines DEF FirstLo, FirstHi, FirstStepLo, FirstStepHi
<1>9. /\ InScratch(r.rLo, FirstLo(r), FirstHi(r), q1, q1Lines)
      /\ InScratch(r.rHi, FirstHi(r), FirstLo(r), q1, q1Lines)
  <2> DEFINE a == r.rLo
             b == r.rHi
             fwd == IntervalUnion(a, BackwardOf(b, q1, q1Lines))
             rev == IntervalUnion(b, BackwardOf(a, q1, q1Lines))
  <2>1. a \in Interval /\ b \in Interval /\ q1 \in Int /\ q1Lines \in Int
    BY <1>1, <1>3
  <2>2. FirstLo(r) = fwd /\ FirstHi(r) = rev
    BY DEF FirstLo, FirstHi, FirstStepLo, FirstStepHi
  <2> HIDE DEF a, b
  <2>3. InScratch(a, fwd, rev, q1, q1Lines) /\ InScratch(b, rev, fwd, q1, q1Lines)
    BY <2>1, PairReads
  <2>4. QED BY <2>2, <2>3 DEF a, b
<1>10. QED BY <1>3, <1>7, <1>8, <1>9 DEF r, q

-----------------------------------------------------------------------------
(* What a round makes of the first step *)

(* The sums of the second step as a round consumes them for its two        *)
(* intervals, the wrong digits of the first in them.                       *)
NeedLo(t, k) == ConsumedSums(d1, l1, RippleLo(t, k), RippleHi(t, k))
NeedHi(t, k) == ConsumedSums(d1, l1, RippleHi(t, k), RippleLo(t, k))

(* The digits of the first step that the intervals hold. *)
LEMMA FirstHolds ==
  ASSUME Truth, NEW r, IsRange(r, q2Lines)
  PROVE  /\ WrongDigits(RippleOf(s1, r, l1)) /\ DOMAIN RippleOf(s1, r, l1) = Rippled(s1, r, l1)
         /\ HoldsDigits(Speculated(s1, r), r, d1, RippleOf(s1, r, l1))
         /\ Rippled(s1, r, l1) \subseteq Slots(r)
         /\ \A p \in Rippled(s1, r, l1) : p < l1
         /\ IsRange(r, N1Lines)
<1>1. IsStep(s1, d1, l1, N1Lines) /\ N1Lines \in Nat
  BY FirstIsStep DEF IsStep
<1>2. q2Lines \in Nat /\ q2Lines <= N1Lines
  BY SecondLength
<1>3. IsRange(r, N1Lines)
  <2> HIDE DEF q2Lines, N1Lines
  <2>1. QED BY <1>1, <1>2 DEF IsRange
<1> HIDE DEF N1Lines
<1>4. QED BY <1>1, <1>3, GuessHolds

(* An interval of the second step, computed from two of the first: it is   *)
(* guessed in its turn, on the sums it consumed.                           *)
SecondGuess(o, out, c, fwd, rev) ==
  /\ o.digit = Speculated(c, out)
  /\ o.carried \in BOOLEAN /\ o.equal \in BOOLEAN
  /\ o.carried <=> \E d \in Slots(out) : c[d] > 9
  /\ o.equal <=> EqualIn(out, d1, l1, fwd, rev)

LEMMA SecondGuessed ==
  ASSUME Truth, NEW out, NEW rf, NEW rb,
         IsRange(out, q2Lines), IsRange(rf, q2Lines), IsRange(rb, q2Lines), out[1] <= out[2],
         InScratch(out, rf, rb, q1, q1Lines)
  PROVE  LET o == Output(out, Speculated(s1, rf), Speculated(s1, rb), l1, FALSE)
             wf == RippleOf(s1, rf, l1)
             wb == RippleOf(s1, rb, l1)
             c == ConsumedSums(d1, l1, wf, wb)
         IN  SecondGuess(o, out, c, wf, wb)
<1> DEFINE f == Speculated(s1, rf)
           b == Speculated(s1, rb)
           wf == RippleOf(s1, rf, l1)
           wb == RippleOf(s1, rb, l1)
           c == ConsumedSums(d1, l1, wf, wb)
           o == Output(out, f, b, l1, FALSE)
           base == out[1] * DPL
           end == out[2] * DPL
<1>1. /\ WrongDigits(wf) /\ WrongDigits(wb)
      /\ HoldsDigits(f, rf, d1, wf) /\ HoldsDigits(b, rb, d1, wb)
  BY FirstHolds
<1>2. AreDigits(d1, l1, q2Lines) /\ q2Lines \in Nat
  BY BothDigits, SecondLength
<1>3. InScratch(out, rf, rb, l1 \div DPL, DivCeil(l1, DPL))
  BY DEF q1, q1Lines
<1> HIDE DEF f, b, wf, wb
<1>4. /\ Consumes(o, out, c, FALSE)
      /\ o.equal <=> EqualIn(out, d1, l1, wf, wb)
  BY <1>1, <1>2, <1>3, OutputOf, ZenonT(60)
<1>5. base \in Nat /\ end \in Nat /\ Slots(out) = base .. end - 1
      /\ (IsEmpty(out) => Slots(out) = {})
  BY <1>2, RangeSlots DEF Slots
<1> HIDE DEF o, c, base, end
<1>6. o.digit = Speculated(c, out)
  <2>1. /\ DOMAIN o.digit = Slots(out)
        /\ \A d \in Slots(out) : o.digit[d] = Resolved(c[d], CarryInto(c, base, d, FALSE))
    BY <1>4 DEF Consumes, base
  <2>2. \A d \in Slots(out) : d \in Guessed(c, out) <=> CarryInto(c, base, d, FALSE)
    <3>1. Guessed(c, out) = {d \in base .. end : CarryInto(c, base, d, FALSE)}
      BY DEF Guessed, Receiving, base, end
    <3>2. \A d \in Slots(out) : d \in base .. end
      BY <1>5
    <3>3. QED BY <3>1, <3>2, Zenon
  <2>3. ASSUME NEW d \in Slots(out)
        PROVE  o.digit[d] = Resolved(c[d], d \in Guessed(c, out))
    <3>1. d \in Guessed(c, out) <=> CarryInto(c, base, d, FALSE)
      BY <2>2
    <3>2. Resolved(c[d], d \in Guessed(c, out)) = Resolved(c[d], CarryInto(c, base, d, FALSE))
      BY <3>1, ResolvedSame
    <3>3. QED BY <2>1, <3>2
  <2>4. o.digit = [d \in Slots(out) |-> o.digit[d]]
    BY <1>4, <2>1 DEF Consumes, o, Output
  <2>5. QED BY <2>3, <2>4 DEF Speculated
<1>7. SecondGuess(o, out, c, wf, wb)
  BY <1>4, <1>5, <1>6 DEF Consumes, SecondGuess
<1>8. QED BY <1>7 DEF o, c, f, b, wf, wb

LEMMA LevelTwo ==
  ASSUME Truth, NEW t \in Thread, NEW k \in DOMAIN rounds[t]
  PROVE  LET r == Round(t, k)
             f == Speculated(s1, FirstLo(r))
             b == Speculated(s1, FirstHi(r))
             lo == Output(r.rLo, f, b, l1, FALSE)
             hi == Output(r.rHi, b, f, l1, FALSE)
         IN  /\ SecondGuess(lo, r.rLo, NeedLo(t, k), RippleLo(t, k), RippleHi(t, k))
             /\ SecondGuess(hi, r.rHi, NeedHi(t, k), RippleHi(t, k), RippleLo(t, k))
<1> DEFINE r == Round(t, k)
<1>1. /\ r.rLo[1] <= r.rLo[2] /\ r.rHi[1] <= r.rHi[2]
      /\ IsRange(r.rLo, q2Lines) /\ IsRange(r.rHi, q2Lines)
      /\ IsRange(FirstLo(r), q2Lines) /\ IsRange(FirstHi(r), q2Lines)
      /\ InScratch(r.rLo, FirstLo(r), FirstHi(r), q1, q1Lines)
      /\ InScratch(r.rHi, FirstHi(r), FirstLo(r), q1, q1Lines)
  BY RoundReads
<1> DEFINE A == FirstLo(r)
           B == FirstHi(r)
           x == r.rLo
           y == r.rHi
<1>2. /\ RippleLo(t, k) = RippleOf(s1, A, l1) /\ RippleHi(t, k) = RippleOf(s1, B, l1)
      /\ NeedLo(t, k) = ConsumedSums(d1, l1, RippleOf(s1, A, l1), RippleOf(s1, B, l1))
      /\ NeedHi(t, k) = ConsumedSums(d1, l1, RippleOf(s1, B, l1), RippleOf(s1, A, l1))
  BY DEF RippleLo, RippleHi, NeedLo, NeedHi
<1> DEFINE lo == Output(x, Speculated(s1, A), Speculated(s1, B), l1, FALSE)
           hi == Output(y, Speculated(s1, B), Speculated(s1, A), l1, FALSE)
<1> HIDE DEF A, B, x, y
<1>3. SecondGuess(lo, x, NeedLo(t, k), RippleLo(t, k), RippleHi(t, k))
  <2>1. /\ IsRange(x, q2Lines) /\ IsRange(A, q2Lines) /\ IsRange(B, q2Lines) /\ x[1] <= x[2]
        /\ InScratch(x, A, B, q1, q1Lines)
    BY <1>1 DEF A, B, x
  <2>2. QED BY <1>2, <2>1, SecondGuessed
<1>4. SecondGuess(hi, y, NeedHi(t, k), RippleHi(t, k), RippleLo(t, k))
  <2>1. /\ IsRange(y, q2Lines) /\ IsRange(A, q2Lines) /\ IsRange(B, q2Lines) /\ y[1] <= y[2]
        /\ InScratch(y, B, A, q1, q1Lines)
    BY <1>1 DEF A, B, y
  <2>2. QED BY <1>2, <2>1, SecondGuessed
<1>5. QED BY <1>3, <1>4 DEF A, B, x, y

-----------------------------------------------------------------------------
(* The wrong digits of the second step *)

(* One column of a guessed interval: if it consumed the true sum, and the  *)
(* carry into it is the true one, so is its digit, and the carry out.      *)
LEMMA ColumnAgrees ==
  ASSUME Truth, NEW r, IsRange(r, q2Lines), NEW c, NEW m \in Slots(r),
         c[m] = s2[m],
         m \in Guessed(c, r) <=> m \in Receiving(s2, 0, r[2] * DPL, FALSE)
  PROVE  /\ Speculated(c, r)[m] = d2[m]
         /\ m + 1 \in Guessed(c, r) <=> m + 1 \in Receiving(s2, 0, r[2] * DPL, FALSE)
<1> DEFINE base == r[1] * DPL
           end == r[2] * DPL
           N == q2Lines * DPL
<1>1. /\ base \in Nat /\ end \in Nat /\ Slots(r) = base .. end - 1
      /\ Slots(r) \subseteq 0 .. N - 1
  BY SecondLength, RangeSlots DEF Slots
<1>2. \A d : d \in Guessed(c, r) <=> d \in base .. end /\ CarryInto(c, base, d, FALSE)
  BY DEF Guessed, Receiving
<1>3. \A d : d \in Receiving(s2, 0, end, FALSE) <=> d \in 0 .. end /\ CarryInto(s2, 0, d, FALSE)
  BY DEF Receiving
<1>4. /\ DOMAIN s2 = 0 .. N - 1
      /\ s2[m] \in 0 .. 18 /\ d2[m] = Resolved(s2[m], CarryInto(s2, 0, m, FALSE))
  BY <1>1, SecondIsStep DEF IsStep
<1> HIDE DEF base, end, N
<1>5. m \in base .. end /\ m \in 0 .. end /\ m + 1 \in base .. end /\ m + 1 \in 0 .. end
      /\ m \in Nat /\ base <= m /\ 0 <= m /\ 0 \in Nat /\ s2[m] \in Int /\ c[m] \in Int
  BY <1>1, <1>4
<1>6. CarryInto(c, base, m, FALSE) <=> CarryInto(s2, 0, m, FALSE)
  BY <1>2, <1>3, <1>5 DEF end
<1>7. Speculated(c, r)[m] = d2[m]
  <2>1. Speculated(c, r)[m] = Resolved(c[m], m \in Guessed(c, r))
    BY DEF Speculated
  <2>2. m \in Guessed(c, r) <=> CarryInto(s2, 0, m, FALSE)
    BY <1>2, <1>5, <1>6
  <2>3. Resolved(c[m], m \in Guessed(c, r)) = Resolved(c[m], CarryInto(s2, 0, m, FALSE))
    BY <2>2, ResolvedSame
  <2>4. QED BY <1>4, <2>1, <2>3
<1>8. CarryInto(c, base, m + 1, FALSE) <=> CarryInto(s2, 0, m + 1, FALSE)
  <2>1. CarryInto(c, base, m + 1, FALSE)
          <=> c[m] > 9 \/ (c[m] = 9 /\ CarryInto(c, base, m, FALSE))
    BY <1>1, <1>4, <1>5, CarryRecurrence
  <2>2. CarryInto(s2, 0, m + 1, FALSE)
          <=> s2[m] > 9 \/ (s2[m] = 9 /\ CarryInto(s2, 0, m, FALSE))
    BY <1>4, <1>5, CarryRecurrence
  <2>3. QED BY <1>6, <2>1, <2>2
<1>9. m + 1 \in Guessed(c, r) <=> m + 1 \in Receiving(s2, 0, end, FALSE)
  BY <1>2, <1>3, <1>5, <1>8
<1>10. QED BY <1>7, <1>9 DEF end

(* The digits of interval r, as a pass had them, that are wrong.           *)
WrongIn(had, r) == [d \in {d \in Slots(r) : had[d] # d2[d]} |-> had[d]]

(* From every wrong digit the wrong ones and the wrong carries reach down  *)
(* to a place where the repair looks for them: to the interval's base, if  *)
(* a carry enters it, or to a wrong digit of the first step.               *)
LEMMA WrongReached ==
  ASSUME Truth, NEW r, IsRange(r, q2Lines),
         NEW own, NEW other, WrongDigits(own), WrongDigits(other)
  PROVE  WrongOf(r, own, other)
           = WrongIn(Speculated(ConsumedSums(d1, l1, own, other), r), r)
<1> DEFINE c == ConsumedSums(d1, l1, own, other)
           had == Speculated(c, r)
           guessed == Guessed(c, r)
           base == r[1] * DPL
           end == r[2] * DPL
           N == q2Lines * DPL
           right == Receiving(s2, 0, end, FALSE)
           wrong == {d \in Slots(r) : had[d] # d2[d]}
           off == wrong \union {d \in Slots(r) : (d + 1 \in guessed) # (d + 1 \in right)}
           reached(d) == \E s \in Seeds(r, own, other) : s <= d /\ s .. d - 1 \subseteq off
<1>1. /\ base \in Nat /\ end \in Nat /\ Slots(r) = base .. end - 1
      /\ Slots(r) \subseteq 0 .. N - 1
  BY SecondLength, RangeSlots DEF Slots
<1>2. WrongOf(r, own, other) = [d \in {d \in wrong : reached(d)} |-> had[d]]
  BY DEF WrongOf
<1>3. \A d : d \in Seeds(r, own, other) <=>
        /\ d \in Slots(r)
        /\ \/ d = base /\ d > 0 /\ CarryInto(s2, 0, d, FALSE)
           \/ d \in DOMAIN own
           \/ \E p \in DOMAIN other : d = l1 - 1 - p
  BY DEF Seeds
<1>4. \A d : d \in off <=> /\ d \in Slots(r)
                          /\ \/ had[d] # d2[d]
                             \/ ~(d + 1 \in guessed <=> d + 1 \in right)
  <2> HIDE DEF had, guessed, right
  <2>1. \A d : ((d + 1 \in guessed) # (d + 1 \in right))
                 <=> ~(d + 1 \in guessed <=> d + 1 \in right)
    BY SMT
  <2>2. QED BY <2>1
<1>5. AreDigits(d1, l1, q2Lines) /\ l1 \in Nat
      /\ \A d \in 0 .. N - 1 : d >= l1 => d1[d] = 0
  BY BothDigits DEF AreDigits
<1>6. \A d : d \in wrong <=> d \in Slots(r) /\ had[d] # d2[d]
  OBVIOUS
<1>7. s2 = SumsOf(d1, l1, q2Lines)
  BY DEF Truth
<1>8. /\ \A d : d \in guessed <=> d \in base .. end /\ CarryInto(c, base, d, FALSE)
      /\ \A d : d \in right <=> d \in 0 .. end /\ CarryInto(s2, 0, d, FALSE)
  BY DEF Guessed, Receiving
<1>9. /\ CarryInto(c, base, base, FALSE) <=> FALSE
      /\ CarryInto(s2, 0, 0, FALSE) <=> FALSE
  BY <1>1, CarryAtBase
<1>10. \A m \in Slots(r) : c[m] = s2[m] /\ (m \in guessed <=> m \in right) => m \notin off
  <2> SUFFICES ASSUME NEW m \in Slots(r), c[m] = s2[m], m \in guessed <=> m \in right
               PROVE  m \notin off
    OBVIOUS
  <2>1. had[m] = d2[m] /\ (m + 1 \in guessed <=> m + 1 \in right)
    <3> HIDE DEF c
    <3>1. QED BY ColumnAgrees
  <2> HIDE DEF off, had, guessed, right, c
  <2>2. QED BY <1>4, <2>1
<1> HIDE DEF base, end, N, had, guessed, right, off, wrong
<1>11. ASSUME NEW d \in wrong PROVE reached(d)
  <2> DEFINE S == {s \in base .. d : s .. d - 1 \subseteq off}
  <2>1. d \in Slots(r) /\ d \in off /\ d \in Nat /\ base <= d /\ d < end
    BY <1>1, <1>4, <1>6, <1>11
  <2>2. S \subseteq Nat /\ d \in S
    BY <1>1, <2>1
  <2> HIDE DEF S
  <2>3. PICK m \in S : \A k \in S : m <= k
    BY <2>2, LeastElement
  <2>4. m \in base .. d /\ m .. d - 1 \subseteq off
    BY <2>3 DEF S
  <2>5. m \in Slots(r) /\ m \in Nat /\ m <= d /\ m \in 0 .. N - 1
    BY <1>1, <2>1, <2>4
  <2>6. m \in off
    BY <2>1, <2>4
  <2>7. m \in Seeds(r, own, other)
    <3> SUFFICES ASSUME m \notin Seeds(r, own, other) PROVE FALSE
      OBVIOUS
    <3>1. /\ ~(m = base /\ m > 0 /\ CarryInto(s2, 0, m, FALSE))
          /\ m \notin DOMAIN own
          /\ l1 - 1 - m \notin DOMAIN other
      <4>1. m = l1 - 1 - (l1 - 1 - m)
        BY <1>5, <2>5
      <4>2. QED BY <1>3, <2>5, <4>1
    <3>2. c[m] = s2[m]
      <4> HIDE DEF c
      <4>1. ConsumedSums(d1, l1, own, other)[m] = SumsOf(d1, l1, q2Lines)[m]
        BY <1>5, <2>5, <3>1, ConsumedRight DEF N
      <4>2. QED BY <1>7, <4>1 DEF c
    <3>3. m \in guessed <=> m \in right
      <4>1. CASE m = base
        <5>1. m \in base .. end /\ m \in 0 .. end
          BY <1>1, <2>1, <2>5, <4>1
        <5>2. ~CarryInto(s2, 0, m, FALSE)
          <6>1. CASE m = 0
            BY <1>9, <6>1
          <6>2. CASE m # 0
            <7>1. m > 0
              BY <2>5, <6>2
            <7>2. QED BY <3>1, <4>1, <7>1, Zenon
          <6>3. QED BY <6>1, <6>2
        <5>3. QED BY <1>8, <1>9, <4>1, <5>1, <5>2
      <4>2. CASE m # base
        <5>1. m - 1 \in base .. d /\ m - 1 < m /\ m - 1 \in Slots(r) /\ (m - 1) + 1 = m
          BY <1>1, <2>1, <2>4, <2>5, <4>2
        <5>2. m - 1 \notin S
          BY <2>3, <5>1
        <5>3. m - 1 \notin off
          <6> SUFFICES ASSUME m - 1 \in off PROVE FALSE
            OBVIOUS
          <6>1. \A i \in (m - 1) .. d - 1 : i = m - 1 \/ i \in m .. d - 1
            BY <2>5, <5>1
          <6>2. (m - 1) .. d - 1 \subseteq off
            BY <2>4, <6>1
          <6>3. QED BY <5>1, <5>2, <6>2 DEF S
        <5>4. QED BY <1>4, <5>1, <5>3
      <4>3. QED BY <4>1, <4>2
    <3>4. QED BY <1>10, <2>5, <2>6, <3>2, <3>3
  <2>8. QED BY <2>4, <2>5, <2>7
<1>12. {d \in wrong : reached(d)} = wrong
  BY <1>11
<1>13. WrongOf(r, own, other) = [d \in wrong |-> had[d]]
  BY <1>2, <1>12
<1>14. QED BY <1>13 DEF WrongIn, wrong, had

(* So a guessed interval of the second step holds its digits, those that   *)
(* the repair looks for excepted.                                          *)
LEMMA SecondHolds ==
  ASSUME Truth, NEW r, IsRange(r, q2Lines),
         NEW own, NEW other, WrongDigits(own), WrongDigits(other)
  PROVE  LET had == Speculated(ConsumedSums(d1, l1, own, other), r)
         IN  /\ WrongDigits(WrongOf(r, own, other))
             /\ HoldsDigits(had, r, d2, WrongOf(r, own, other))
             /\ [d \in {d \in DOMAIN had : had[d] # d2[d]} |-> had[d]] = WrongOf(r, own, other)
<1> DEFINE c == ConsumedSums(d1, l1, own, other)
           had == Speculated(c, r)
           N == q2Lines * DPL
           W == WrongOf(r, own, other)
<1>1. Slots(r) \subseteq 0 .. N - 1
  BY SecondLength, RangeSlots
<1>2. DOMAIN had = Slots(r)
  BY DEF Speculated
<1>3. W = [d \in {d \in Slots(r) : had[d] # d2[d]} |-> had[d]]
  <2>1. W = WrongIn(had, r)
    BY WrongReached
  <2> HIDE DEF W, had
  <2>2. QED BY <2>1 DEF WrongIn
<1>4. AreDigits(d1, l1, q2Lines)
  BY BothDigits
<1>5. ASSUME NEW d \in Slots(r) PROVE had[d] \in Digit
  <2>1. d \in 0 .. q2Lines * DPL - 1
    BY <1>1
  <2>2. c[d] \in 0 .. 18
    BY <1>4, <2>1, ConsumedIs
  <2>3. had[d] = Resolved(c[d], d \in Guessed(c, r))
    BY DEF Speculated
  <2>4. (d \in Guessed(c, r)) \in BOOLEAN
    OBVIOUS
  <2> HIDE DEF c
  <2>5. QED BY <2>2, <2>3, <2>4, ResolvedDigit
<1> HIDE DEF had, W, c
<1>6. WrongDigits(W)
  BY <1>3, <1>5 DEF WrongDigits
<1>7. HoldsDigits(had, r, d2, W)
  BY <1>2, <1>3 DEF HoldsDigits, Taken
<1>8. [d \in {d \in DOMAIN had : had[d] # d2[d]} |-> had[d]] = W
  BY <1>2, <1>3
<1>9. QED BY <1>6, <1>7, <1>8 DEF had, W, c

(* What is wrong in a buffer of second-step digits. *)
WrongPart(b) == [d \in {d \in DOMAIN b : b[d] # d2[d]} |-> b[d]]

(* What the two buffers hold after phases A and B of a round. *)
Buffers(t, k) ==
  [lo |-> Speculated(NeedLo(t, k), Round(t, k).rLo),
   hi |-> Speculated(NeedHi(t, k), Round(t, k).rHi)]

LEMMA BuffersHold ==
  ASSUME Truth, NEW t \in Thread, NEW k \in DOMAIN rounds[t]
  PROVE  LET r == Round(t, k)
             b == Buffers(t, k)
         IN  /\ WrongDigits(WrongLo(t, k)) /\ WrongDigits(WrongHi(t, k))
             /\ HoldsDigits(b.lo, r.rLo, d2, WrongLo(t, k))
             /\ HoldsDigits(b.hi, r.rHi, d2, WrongHi(t, k))
             /\ WrongPart(b.lo) = WrongLo(t, k) /\ WrongPart(b.hi) = WrongHi(t, k)
<1> DEFINE r == Round(t, k)
           A == RippleLo(t, k)
           B == RippleHi(t, k)
           x == r.rLo
           y == r.rHi
           lo == Speculated(ConsumedSums(d1, l1, A, B), x)
           hi == Speculated(ConsumedSums(d1, l1, B, A), y)
<1>1. /\ IsRange(x, q2Lines) /\ IsRange(y, q2Lines)
      /\ IsRange(FirstLo(r), q2Lines) /\ IsRange(FirstHi(r), q2Lines)
  BY RoundReads
<1>2. WrongDigits(A) /\ WrongDigits(B)
  BY <1>1, FirstHolds DEF RippleLo, RippleHi
<1>3. /\ Buffers(t, k) = [lo |-> lo, hi |-> hi]
      /\ WrongLo(t, k) = WrongOf(x, A, B) /\ WrongHi(t, k) = WrongOf(y, B, A)
  BY DEF Buffers, NeedLo, NeedHi, WrongLo, WrongHi
<1> HIDE DEF A, B, x, y
<1>4. /\ WrongDigits(WrongOf(x, A, B)) /\ HoldsDigits(lo, x, d2, WrongOf(x, A, B))
      /\ [d \in {d \in DOMAIN lo : lo[d] # d2[d]} |-> lo[d]] = WrongOf(x, A, B)
  BY <1>1, <1>2, SecondHolds
<1>5. /\ WrongDigits(WrongOf(y, B, A)) /\ HoldsDigits(hi, y, d2, WrongOf(y, B, A))
      /\ [d \in {d \in DOMAIN hi : hi[d] # d2[d]} |-> hi[d]] = WrongOf(y, B, A)
  BY <1>1, <1>2, SecondHolds
<1> HIDE DEF lo, hi
<1>6. Buffers(t, k).lo = lo /\ Buffers(t, k).hi = hi
  BY <1>3
<1>7. WrongPart(lo) = WrongOf(x, A, B) /\ WrongPart(hi) = WrongOf(y, B, A)
  BY <1>4, <1>5 DEF WrongPart
<1>8. QED BY <1>3, <1>4, <1>5, <1>6, <1>7 DEF x, y

-----------------------------------------------------------------------------
(* The threads on their walks *)

WalkType ==
  [n : Nat, at : {"A", "C", "repair"}, carry : BOOLEAN, carried1 : BOOLEAN,
   carried2 : BOOLEAN, carried3 : BOOLEAN, equal1 : BOOLEAN, equal2 : BOOLEAN]
FlagType ==
  [carried1 : BOOLEAN, carried2 : BOOLEAN, everCarried : BOOLEAN,
   pal1 : BOOLEAN, pal2 : BOOLEAN, rip1 : BOOLEAN, wrong2 : BOOLEAN]

(* A thread has been through the rounds before its own, has the second     *)
(* step's digits of its own in its buffers while it computes the outputs,  *)
(* and has been through all of them when it turns to its repairs.          *)
OnRounds(t) ==
  LET w == walk[t]
  IN  /\ \A k \in 0 .. w.n - 1 : k \in DOMAIN rounds[t]
      /\ w.at = "C" => w.n \in DOMAIN rounds[t] /\ scratch[t] = Buffers(t, w.n)
      /\ w.at = "repair" => w.n \notin DOMAIN rounds[t]

PassInv ==
  /\ Truth
  /\ pc \in {"pass", "resolve", "done"}
  /\ walk \in [Thread -> WalkType]
  /\ flags \in FlagType
  /\ DOMAIN scratch = Thread
  /\ \A t \in Thread : OnRounds(t)

(* The slots that the rounds of a thread read of the first step, compute   *)
(* of the second, and compute of the third.                                *)
FirstSlots(t) ==
  [k \in DOMAIN rounds[t] |-> Slots(FirstLo(Round(t, k))) \union Slots(FirstHi(Round(t, k)))]
SecondSlots(t) ==
  [k \in DOMAIN rounds[t] |-> Slots(Round(t, k).rLo) \union Slots(Round(t, k).rHi)]
ThirdSlots(t) ==
  [k \in DOMAIN rounds[t] |-> Slots(Round(t, k).lo) \union Slots(Round(t, k).hi)]

(* Whether round k sees a carry in its guesses of the second step, and     *)
(* whether the digits of the first equal their mirror images there.        *)
SecondCarries(t, k) ==
  \/ \E d \in Slots(Round(t, k).rLo) : NeedLo(t, k)[d] > 9
  \/ \E d \in Slots(Round(t, k).rHi) : NeedHi(t, k)[d] > 9
FirstEqual(t, k) ==
  /\ EqualIn(Round(t, k).rLo, d1, l1, RippleLo(t, k), RippleHi(t, k))
  /\ EqualIn(Round(t, k).rHi, d1, l1, RippleHi(t, k), RippleLo(t, k))

(* What the actions of a thread do to its place on the walk. *)
LEMMA EffectAB ==
  ASSUME PassInv, NEW t \in Thread, PhaseAB(t)
  PROVE  LET w == walk[t]
             v == walk'[t]
         IN  /\ walk' \in [Thread -> WalkType] /\ DOMAIN scratch' = Thread
             /\ w.at = "A" /\ w.n \in DOMAIN rounds[t] /\ v.n = w.n /\ v.at = "C"
             /\ v.carry = w.carry /\ v.carried3 = w.carried3 /\ v.equal2 = w.equal2
             /\ v.carried1 <=> w.carried1 \/ \E d \in FirstSlots(t)[w.n] : s1[d] > 9
             /\ v.carried2 <=> w.carried2 \/ SecondCarries(t, w.n)
             /\ v.equal1 <=> w.equal1 /\ FirstEqual(t, w.n)
             /\ scratch'[t] = Buffers(t, w.n)
             /\ \A u \in Thread : u # t => walk'[u] = walk[u] /\ scratch'[u] = scratch[u]
<1> DEFINE w == walk[t]
           r == Round(t, w.n)
           f == Speculated(s1, FirstLo(r))
           b == Speculated(s1, FirstHi(r))
           lo == Output(r.rLo, f, b, l1, FALSE)
           hi == Output(r.rHi, b, f, l1, FALSE)
           c1 == w.carried1 \/ SpeculatedCarried(s1, FirstLo(r)) \/ SpeculatedCarried(s1, FirstHi(r))
           c2 == w.carried2 \/ lo.carried \/ hi.carried
           e1 == w.equal1 /\ lo.equal /\ hi.equal
           x == lo.digit
           y == hi.digit
           v == [w EXCEPT !.at = "C", !.carried1 = c1, !.carried2 = c2, !.equal1 = e1]
<1>1. /\ walk \in [Thread -> WalkType] /\ DOMAIN scratch = Thread /\ Truth
      /\ w \in WalkType
  BY SMTT(60) DEF PassInv
<1>2. /\ w.at = "A" /\ w.n \in DOMAIN rounds[t]
      /\ walk' = [walk EXCEPT ![t] = v]
      /\ scratch' = [scratch EXCEPT ![t] = [lo |-> x, hi |-> y]]
  BY ZenonT(60) DEF PhaseAB
<1>3. /\ SecondGuess(lo, r.rLo, NeedLo(t, w.n), RippleLo(t, w.n), RippleHi(t, w.n))
      /\ SecondGuess(hi, r.rHi, NeedHi(t, w.n), RippleHi(t, w.n), RippleLo(t, w.n))
  BY <1>1, <1>2, LevelTwo
<1>4. c1 <=> w.carried1 \/ \E d \in FirstSlots(t)[w.n] : s1[d] > 9
  <2>1. IsRange(FirstLo(r), q2Lines) /\ IsRange(FirstHi(r), q2Lines)
    BY <1>1, <1>2, RoundReads
  <2>2. IsRange(FirstLo(r), N1Lines) /\ IsRange(FirstHi(r), N1Lines)
    BY <1>1, <2>1, FirstHolds
  <2>3. N1Lines \in Nat /\ \A d \in 0 .. N1Lines * DPL - 1 : s1[d] \in 0 .. 18
    BY <1>1, FirstIsStep DEF IsStep
  <2>4. FirstSlots(t)[w.n] = Slots(FirstLo(r)) \union Slots(FirstHi(r))
    BY <1>2 DEF FirstSlots
  <2> DEFINE A == FirstLo(r)
             B == FirstHi(r)
  <2>5. /\ SpeculatedCarried(s1, A) <=> \E d \in Slots(A) : s1[d] > 9
        /\ SpeculatedCarried(s1, B) <=> \E d \in Slots(B) : s1[d] > 9
    <3> HIDE DEF A, B
    <3>1. IsRange(A, N1Lines) /\ IsRange(B, N1Lines)
      BY <2>2 DEF A, B
    <3>2. QED BY <2>3, <3>1, GuessCarriesIs
  <2> HIDE DEF w, r
  <2>6. QED BY <2>4, <2>5, SMTT(60)
<1>5. c1 \in BOOLEAN /\ c2 \in BOOLEAN /\ e1 \in BOOLEAN
  OBVIOUS
<1> HIDE DEF c1, lo, hi, r, f, b
<1>6. /\ c2 <=> w.carried2 \/ SecondCarries(t, w.n)
      /\ e1 <=> w.equal1 /\ FirstEqual(t, w.n)
      /\ [lo |-> x, hi |-> y] = Buffers(t, w.n)
  <2> HIDE DEF w
  <2>1. QED BY <1>3 DEF SecondGuess, SecondCarries, FirstEqual, Buffers, r
<1> HIDE DEF c2, e1, x, y
<1>7. /\ v \in WalkType /\ v.n = w.n /\ v.at = "C" /\ v.carry = w.carry
      /\ v.carried3 = w.carried3 /\ v.equal2 = w.equal2
      /\ v.carried1 = c1 /\ v.carried2 = c2 /\ v.equal1 = e1
  <2> HIDE DEF w
  <2>1. QED BY <1>1, <1>5, ZenonT(60) DEF WalkType
<1> HIDE DEF v, w
<1>8. /\ walk' \in [Thread -> WalkType] /\ walk'[t] = v
      /\ \A u \in Thread : u # t => walk'[u] = walk[u]
  BY <1>1, <1>2, <1>7
<1>9. /\ DOMAIN scratch' = Thread /\ scratch'[t] = Buffers(t, w.n)
      /\ \A u \in Thread : u # t => scratch'[u] = scratch[u]
  BY <1>1, <1>2, <1>6
<1>10. QED BY <1>2, <1>4, <1>6, <1>7, <1>8, <1>9 DEF w

(* The outputs of the round a thread is at, and the sums they consumed: of *)
(* the third step, with the wrong digits of the second in them.            *)
LowOutput(t) ==
  Output(Round(t, walk[t].n).lo, scratch[t].lo, scratch[t].hi, l2, walk[t].carry)
HighOutput(t) ==
  Output(Round(t, walk[t].n).hi, scratch[t].hi, scratch[t].lo, l2, FALSE)
LowSums(t, k) == ConsumedSums(d2, l2, WrongLo(t, k), WrongHi(t, k))
HighSums(t, k) == ConsumedSums(d2, l2, WrongHi(t, k), WrongLo(t, k))

LEMMA OutputsAre ==
  ASSUME PassInv, NEW t \in Thread, walk[t].at = "C"
  PROVE  LET k == walk[t].n
             r == Round(t, k)
         IN  /\ k \in DOMAIN rounds[t]
             /\ Consumes(LowOutput(t), r.lo, LowSums(t, k), walk[t].carry)
             /\ Consumes(HighOutput(t), r.hi, HighSums(t, k), FALSE)
             /\ LowOutput(t).equal <=> EqualIn(r.lo, d2, l2, WrongLo(t, k), WrongHi(t, k))
             /\ HighOutput(t).equal <=> EqualIn(r.hi, d2, l2, WrongHi(t, k), WrongLo(t, k))
<1> DEFINE k == walk[t].n
           r == Round(t, k)
           f == scratch[t].lo
           b == scratch[t].hi
           wf == WrongLo(t, k)
           wb == WrongHi(t, k)
           c == walk[t].carry
<1>1. /\ Truth /\ k \in DOMAIN rounds[t] /\ c \in BOOLEAN
      /\ scratch[t] = Buffers(t, k)
  BY DEF PassInv, OnRounds, WalkType
<1>2. /\ r.lo[1] <= r.lo[2] /\ IsRange(r.lo, q2Lines)
      /\ r.hi[1] <= r.hi[2] /\ IsRange(r.hi, q2Lines)
      /\ IsRange(r.rLo, q2Lines) /\ IsRange(r.rHi, q2Lines)
      /\ InScratch(r.lo, r.rLo, r.rHi, l2 \div DPL, DivCeil(l2, DPL))
      /\ InScratch(r.hi, r.rHi, r.rLo, l2 \div DPL, DivCeil(l2, DPL))
  BY <1>1, RoundReads DEF q2Lines
<1>3. /\ WrongDigits(wf) /\ WrongDigits(wb)
      /\ HoldsDigits(f, r.rLo, d2, wf) /\ HoldsDigits(b, r.rHi, d2, wb)
  BY <1>1, BuffersHold
<1>4. AreDigits(d2, l2, q2Lines)
  BY <1>1, BothDigits
<1>5. /\ LowOutput(t) = Output(r.lo, f, b, l2, c) /\ HighOutput(t) = Output(r.hi, b, f, l2, FALSE)
      /\ LowSums(t, k) = ConsumedSums(d2, l2, wf, wb)
      /\ HighSums(t, k) = ConsumedSums(d2, l2, wb, wf)
  BY DEF LowOutput, HighOutput, LowSums, HighSums
<1> DEFINE lo == r.lo
           hi == r.hi
           x == r.rLo
           y == r.rHi
<1> HIDE DEF f, b, wf, wb, c, k, lo, hi, x, y
<1>6. /\ Consumes(Output(lo, f, b, l2, c), lo, ConsumedSums(d2, l2, wf, wb), c)
      /\ Output(lo, f, b, l2, c).equal <=> EqualIn(lo, d2, l2, wf, wb)
  <2>1. /\ lo[1] <= lo[2] /\ IsRange(lo, q2Lines) /\ IsRange(x, q2Lines) /\ IsRange(y, q2Lines)
        /\ InScratch(lo, x, y, l2 \div DPL, DivCeil(l2, DPL))
        /\ HoldsDigits(f, x, d2, wf) /\ HoldsDigits(b, y, d2, wb)
    BY <1>2, <1>3 DEF lo, x, y
  <2>2. QED BY <1>1, <1>3, <1>4, <2>1, OutputOf
<1>7. /\ Consumes(Output(hi, b, f, l2, FALSE), hi, ConsumedSums(d2, l2, wb, wf), FALSE)
      /\ Output(hi, b, f, l2, FALSE).equal <=> EqualIn(hi, d2, l2, wb, wf)
  <2>1. /\ hi[1] <= hi[2] /\ IsRange(hi, q2Lines) /\ IsRange(x, q2Lines) /\ IsRange(y, q2Lines)
        /\ InScratch(hi, y, x, l2 \div DPL, DivCeil(l2, DPL))
        /\ HoldsDigits(f, x, d2, wf) /\ HoldsDigits(b, y, d2, wb)
    BY <1>2, <1>3 DEF hi, x, y
  <2>2. QED BY <1>3, <1>4, <2>1, OutputOf, ZenonT(60)
<1>8. QED BY <1>1, <1>5, <1>6, <1>7 DEF lo, hi, wf, wb, c, k

LEMMA EffectC ==
  ASSUME PassInv, NEW t \in Thread, PhaseC(t)
  PROVE  LET w == walk[t]
             v == walk'[t]
             lo == LowOutput(t)
             hi == HighOutput(t)
         IN  /\ walk' \in [Thread -> WalkType]
             /\ w.at = "C" /\ w.n \in DOMAIN rounds[t] /\ w.n \in Nat
             /\ v.n = w.n + 1 /\ v.at = "A" /\ v.carry = lo.carry
             /\ v.carried1 = w.carried1 /\ v.carried2 = w.carried2 /\ v.equal1 = w.equal1
             /\ v.carried3 <=> w.carried3 \/ lo.carried \/ hi.carried
             /\ v.equal2 <=> w.equal2 /\ lo.equal /\ hi.equal
             /\ \A u \in Thread : u # t => walk'[u] = walk[u]
             /\ UNCHANGED <<scratch, flags>>
<1> DEFINE w == walk[t]
           lo == LowOutput(t)
           hi == HighOutput(t)
           c3 == w.carried3 \/ lo.carried \/ hi.carried
           eq == w.equal2 /\ lo.equal /\ hi.equal
           n1 == w.n + 1
           c == lo.carry
           v == [w EXCEPT !.n = n1, !.at = "A", !.carry = c, !.carried3 = c3, !.equal2 = eq]
<1>1. walk \in [Thread -> WalkType] /\ w \in WalkType
  BY DEF PassInv
<1>2. /\ w.at = "C" /\ walk' = [walk EXCEPT ![t] = v]
      /\ UNCHANGED <<scratch, flags>>
  BY ZenonT(60) DEF PhaseC, LowOutput, HighOutput
<1>3. w.n \in DOMAIN rounds[t]
  BY <1>2 DEF PassInv, OnRounds
<1>4. lo.carry \in BOOLEAN
  BY <1>2, OutputsAre DEF Consumes
<1>5. c3 \in BOOLEAN /\ eq \in BOOLEAN
  OBVIOUS
<1> HIDE DEF c3, eq, lo, hi, w
<1>6. w.n \in Nat /\ n1 \in Nat
  BY <1>1 DEF WalkType
<1> HIDE DEF n1, c
<1>7. /\ v \in WalkType /\ v.n = n1 /\ v.at = "A" /\ v.carry = c
      /\ v.carried1 = w.carried1 /\ v.carried2 = w.carried2 /\ v.equal1 = w.equal1
      /\ v.carried3 = c3 /\ v.equal2 = eq
  <2>1. c \in BOOLEAN
    BY <1>4 DEF c
  <2>2. QED BY <1>1, <1>5, <1>6, <2>1, ZenonT(60) DEF WalkType
<1> HIDE DEF v
<1>8. /\ walk' \in [Thread -> WalkType] /\ walk'[t] = v
      /\ \A u \in Thread : u # t => walk'[u] = walk[u]
  BY <1>1, <1>2, <1>7
<1>9. QED BY <1>2, <1>3, <1>6, <1>7, <1>8 DEF w, lo, hi, c3, eq, n1, c

(* Whether thread t has guessed a carry wrong at the first level, and      *)
(* holds a wrong digit at the second.                                      *)
Rip(t) == \E k \in DOMAIN rounds[t] : DOMAIN RippleLo(t, k) \union DOMAIN RippleHi(t, k) # {}
Wrong(t) == \E k \in DOMAIN rounds[t] : DOMAIN WrongLo(t, k) \union DOMAIN WrongHi(t, k) # {}

LEMMA EffectEnd ==
  ASSUME PassInv, NEW t \in Thread, PassEnd(t)
  PROVE  LET w == walk[t]
             v == walk'[t]
         IN  /\ walk' \in [Thread -> WalkType]
             /\ w.at = "A" /\ w.n \notin DOMAIN rounds[t]
             /\ v = [w EXCEPT !.at = "repair"] /\ v.at = "repair"
             /\ v.n = w.n /\ v.carry = w.carry
             /\ v.carried1 = w.carried1 /\ v.carried2 = w.carried2 /\ v.carried3 = w.carried3
             /\ v.equal1 = w.equal1 /\ v.equal2 = w.equal2
             /\ \A u \in Thread : u # t => walk'[u] = walk[u]
             /\ flags' \in FlagType
             /\ flags' = Raised(w, Rip(t), Wrong(t))
             /\ UNCHANGED scratch
<1> DEFINE w == walk[t]
           v == [w EXCEPT !.at = "repair"]
<1>1. walk \in [Thread -> WalkType] /\ w \in WalkType /\ flags \in FlagType
  BY DEF PassInv
<1>2. /\ w.at = "A" /\ walk' = [walk EXCEPT ![t] = v]
      /\ w.n \notin DOMAIN rounds[t]
      /\ flags' = Raised(w, Rip(t), Wrong(t))
      /\ UNCHANGED scratch
  BY DEF PassEnd, Rip, Wrong
<1>3. Rip(t) \in BOOLEAN /\ Wrong(t) \in BOOLEAN
  BY DEF Rip, Wrong
<1> HIDE DEF w
<1>4. /\ v \in WalkType /\ v.n = w.n /\ v.at = "repair" /\ v.carry = w.carry
      /\ v.carried1 = w.carried1 /\ v.carried2 = w.carried2 /\ v.carried3 = w.carried3
      /\ v.equal1 = w.equal1 /\ v.equal2 = w.equal2
  BY <1>1 DEF WalkType
<1>5. flags' \in FlagType
  BY <1>1, <1>2, <1>3 DEF Raised, FlagType, WalkType
<1> HIDE DEF v
<1>6. /\ walk' \in [Thread -> WalkType] /\ walk'[t] = v
      /\ \A u \in Thread : u # t => walk'[u] = walk[u]
  BY <1>1, <1>2, <1>4
<1>7. QED BY <1>2, <1>4, <1>5, <1>6 DEF v, w

LEMMA PassInit == Init => PassInv
<1> SUFFICES ASSUME Init PROVE PassInv
  OBVIOUS
<1>1. Truth
  BY TruthInit
<1> DEFINE v == [n |-> 0, at |-> "A", carry |-> FALSE, carried1 |-> FALSE,
                 carried2 |-> FALSE, carried3 |-> FALSE, equal1 |-> TRUE, equal2 |-> TRUE]
<1>2. /\ walk = [t \in Thread |-> v] /\ DOMAIN scratch = Thread /\ pc = "pass"
      /\ flags = [carried1 |-> FALSE, carried2 |-> FALSE, everCarried |-> FALSE,
                  pal1 |-> TRUE, pal2 |-> TRUE, rip1 |-> FALSE, wrong2 |-> FALSE]
  BY DEF Init
<1>3. v \in WalkType /\ v.n = 0 /\ v.at = "A"
  BY DEF WalkType
<1> HIDE DEF v
<1>4. walk \in [Thread -> WalkType] /\ \A t \in Thread : walk[t] = v
  BY <1>2, <1>3
<1>5. \A t \in Thread : OnRounds(t)
  BY <1>3, <1>4 DEF OnRounds
<1>6. flags \in FlagType
  BY <1>2 DEF FlagType
<1>7. QED BY <1>1, <1>2, <1>4, <1>5, <1>6 DEF PassInv

(* The repairs and what the coordinator does leave the walks alone. *)
LEMMA AfterPass ==
  ASSUME \/ StartResolve \/ Return \/ Done \/ UNCHANGED vars
         \/ \E t \in Thread : \E x \in repairs[t] : RepairLine(t, x)
         \/ pc = "resolve" /\ \E g \in Ranges : ResolveRange(g)
  PROVE  /\ UNCHANGED <<walk, scratch>>
         /\ \/ StartResolve
            \/ /\ UNCHANGED flags
               /\ \/ UNCHANGED pc
                  \/ pc = "resolve" /\ pc' = "done"
<1>1. ASSUME NEW t \in Thread, NEW x, RepairLine(t, x) PROVE UNCHANGED <<walk, scratch, flags, pc>>
  BY <1>1 DEF RepairLine
<1>2. ASSUME NEW g, ResolveRange(g) PROVE UNCHANGED <<walk, scratch, flags, pc>>
  BY <1>2 DEF ResolveRange
<1>3. Done \/ UNCHANGED vars => UNCHANGED <<walk, scratch, flags, pc>>
  BY DEF Done, vars
<1>4. StartResolve => UNCHANGED <<walk, scratch>>
  BY DEF StartResolve
<1>5. Return => UNCHANGED <<walk, scratch, flags>> /\ pc = "resolve" /\ pc' = "done"
  BY DEF Return
<1>6. QED BY <1>1, <1>2, <1>3, <1>4, <1>5, SMTT(60)

(* Buffers are a matter of the ground truth, and so is what is wrong in    *)
(* them.                                                                   *)
LEMMA BuffersKept ==
  ASSUME UNCHANGED truth
  PROVE  /\ \A t, k : /\ Buffers(t, k)' = Buffers(t, k) /\ Round(t, k)' = Round(t, k)
                      /\ WrongLo(t, k)' = WrongLo(t, k) /\ WrongHi(t, k)' = WrongHi(t, k)
         /\ \A t : Rip(t)' = Rip(t) /\ Wrong(t)' = Wrong(t)
<1>1. /\ UNCHANGED <<rounds, s1, d1, l1, s2, d2, q1, q1Lines>>
      /\ \A r : FirstLo(r)' = FirstLo(r) /\ FirstHi(r)' = FirstHi(r)
  BY DEF truth, FirstLo, FirstHi, q1, q1Lines
<1>2. \A t, k : Round(t, k)' = Round(t, k)
  BY <1>1 DEF Round
<1>3. \A t, k : RippleLo(t, k)' = RippleLo(t, k) /\ RippleHi(t, k)' = RippleHi(t, k)
  BY <1>1, <1>2 DEF RippleLo, RippleHi
<1>4. \A t, k : NeedLo(t, k)' = NeedLo(t, k) /\ NeedHi(t, k)' = NeedHi(t, k)
  BY <1>1, <1>3 DEF NeedLo, NeedHi
<1>5. \A r, a, b : WrongOf(r, a, b)' = WrongOf(r, a, b)
  BY <1>1 DEF WrongOf, Seeds
<1>6. \A t, k : WrongLo(t, k)' = WrongLo(t, k) /\ WrongHi(t, k)' = WrongHi(t, k)
  BY <1>2, <1>3, <1>5 DEF WrongLo, WrongHi
<1>7. \A t, k : Buffers(t, k)' = Buffers(t, k)
  BY <1>2, <1>4 DEF Buffers
<1>8. \A t : Rip(t)' = Rip(t) /\ Wrong(t)' = Wrong(t)
  BY <1>1, <1>3, <1>6 DEF Rip, Wrong
<1>9. QED BY <1>2, <1>6, <1>7, <1>8

LEMMA OnRoundsKept ==
  ASSUME NEW t, OnRounds(t), UNCHANGED truth, walk'[t] = walk[t], scratch'[t] = scratch[t]
  PROVE  OnRounds(t)'
<1>1. UNCHANGED rounds /\ \A k : Buffers(t, k)' = Buffers(t, k)
  BY BuffersKept DEF truth
<1>2. QED BY <1>1 DEF OnRounds

LEMMA PassStep == PassInv /\ [Next]_vars => PassInv'
<1> SUFFICES ASSUME PassInv, [Next]_vars PROVE PassInv'
  OBVIOUS
<1>1. UNCHANGED truth /\ UNCHANGED rounds
  BY TruthConstant DEF truth
<1>2. Truth'
  BY <1>1, TruthKept DEF PassInv
<1>3. /\ walk \in [Thread -> WalkType] /\ DOMAIN scratch = Thread
      /\ \A t \in Thread : OnRounds(t) /\ walk[t] \in WalkType
      /\ flags \in FlagType /\ pc \in {"pass", "resolve", "done"}
      /\ \A t \in Thread : \A k \in 0 .. walk[t].n - 1 : k \in DOMAIN rounds[t]
  BY DEF PassInv, OnRounds
<1>4. ASSUME NEW t \in Thread, PhaseAB(t) PROVE PassInv'
  <2>1. /\ walk' \in [Thread -> WalkType] /\ DOMAIN scratch' = Thread
        /\ walk[t].n \in DOMAIN rounds[t] /\ walk'[t].n = walk[t].n /\ walk'[t].at = "C"
        /\ scratch'[t] = Buffers(t, walk[t].n)
        /\ \A u \in Thread : u # t => walk'[u] = walk[u] /\ scratch'[u] = scratch[u]
    BY <1>4, EffectAB, SMTT(60)
  <2>2. UNCHANGED <<flags, pc>>
    BY <1>4 DEF PhaseAB
  <2>3. OnRounds(t)'
    BY <1>1, <1>3, <2>1, BuffersKept DEF OnRounds
  <2>4. \A u \in Thread : OnRounds(u)'
    BY <1>1, <1>3, <2>1, <2>3, OnRoundsKept
  <2>5. QED BY <1>2, <1>3, <2>1, <2>2, <2>4 DEF PassInv
<1>5. ASSUME NEW t \in Thread, PhaseC(t) PROVE PassInv'
  <2>1. /\ walk' \in [Thread -> WalkType]
        /\ walk[t].n \in DOMAIN rounds[t] /\ walk[t].n \in Nat
        /\ walk'[t].n = walk[t].n + 1 /\ walk'[t].at = "A"
        /\ \A u \in Thread : u # t => walk'[u] = walk[u]
        /\ UNCHANGED <<scratch, flags>>
    BY <1>5, EffectC
  <2>2. UNCHANGED pc
    BY <1>5, Zenon DEF PhaseC
  <2>3. OnRounds(t)'
    <3>1. \A k \in 0 .. walk'[t].n - 1 : k \in 0 .. walk[t].n - 1 \/ k = walk[t].n
      BY <2>1
    <3>2. QED BY <1>1, <1>3, <2>1, <3>1 DEF OnRounds
  <2>4. \A u \in Thread : OnRounds(u)'
    BY <1>1, <1>3, <2>1, <2>3, OnRoundsKept
  <2>5. QED BY <1>2, <1>3, <2>1, <2>2, <2>4 DEF PassInv
<1>6. ASSUME NEW t \in Thread, PassEnd(t) PROVE PassInv'
  <2>1. /\ walk' \in [Thread -> WalkType]
        /\ walk[t].n \notin DOMAIN rounds[t]
        /\ walk'[t].n = walk[t].n /\ walk'[t].at = "repair"
        /\ \A u \in Thread : u # t => walk'[u] = walk[u]
        /\ flags' \in FlagType
        /\ UNCHANGED scratch
    BY <1>6, EffectEnd
  <2>2. UNCHANGED pc
    BY <1>6 DEF PassEnd
  <2>3. OnRounds(t)'
    BY <1>1, <1>3, <2>1 DEF OnRounds
  <2>4. \A u \in Thread : OnRounds(u)'
    BY <1>1, <1>3, <2>1, <2>3, OnRoundsKept
  <2>5. QED BY <1>2, <1>3, <2>1, <2>2, <2>4 DEF PassInv
<1>7. ASSUME \/ StartResolve \/ Return \/ Done \/ UNCHANGED vars
             \/ \E t \in Thread : \E x \in repairs[t] : RepairLine(t, x)
             \/ pc = "resolve" /\ \E g \in Ranges : ResolveRange(g)
      PROVE  PassInv'
  <2>1. UNCHANGED <<walk, scratch>>
    BY <1>7, AfterPass
  <2>2. \A t \in Thread : OnRounds(t)'
    BY <1>1, <1>3, <2>1, OnRoundsKept
  <2>3. flags' \in FlagType /\ pc' \in {"pass", "resolve", "done"}
    <3>1. CASE StartResolve
      <4> DEFINE c2 == IF flags.rip1 THEN Generates(s2, l1) ELSE flags.carried2
                 c3 == IF flags.wrong2 THEN Generates(s3, l2) ELSE flags.everCarried
                 p2 == flags.pal2 \/ flags.rip1
      <4>1. /\ flags' = [flags EXCEPT !.carried2 = c2, !.everCarried = c3, !.pal2 = p2]
            /\ pc' = "resolve"
        BY <3>1 DEF StartResolve, ExactFlags3
      <4>2. c2 \in BOOLEAN /\ c3 \in BOOLEAN /\ p2 \in BOOLEAN
        BY <1>3 DEF FlagType, Generates
      <4> HIDE DEF c2, c3, p2
      <4>3. QED BY <1>3, <4>1, <4>2, ZenonT(60) DEF FlagType
    <3>2. CASE ~StartResolve
      BY <1>3, <1>7, <3>2, AfterPass
    <3>3. QED BY <3>1, <3>2
  <2>4. QED BY <1>2, <1>3, <2>1, <2>2, <2>3 DEF PassInv
<1>8. QED BY <1>4, <1>5, <1>6, <1>7 DEF Next

(* No wrong digit is overlooked: what a thread holds of the second step    *)
(* differs from the truth in exactly the digits its repair will look for,  *)
(* whichever level of guessing made them wrong.                            *)
THEOREM NoneOverlooked == Spec => []WrongDigitsFound
<1>1. PassInv => WrongDigitsFound
  <2> SUFFICES ASSUME PassInv, NEW t \in Thread, walk[t].at = "C"
               PROVE  /\ WrongPart(scratch[t].lo) = WrongLo(t, walk[t].n)
                      /\ WrongPart(scratch[t].hi) = WrongHi(t, walk[t].n)
    BY DEF WrongDigitsFound, WrongPart
  <2>1. Truth /\ walk[t].n \in DOMAIN rounds[t] /\ scratch[t] = Buffers(t, walk[t].n)
    BY DEF PassInv, OnRounds
  <2>2. QED BY <2>1, BuffersHold
<1>2. QED BY <1>1, PassInit, PassStep, PTL DEF Spec

-----------------------------------------------------------------------------
(* Steps without a carry *)

(* A first step without a carry leaves a palindrome, and the pass finds    *)
(* its digits equal to their mirror images wherever it looks.              *)
LEMMA NoFirstCarry ==
  ASSUME Truth, ~AnyCarried(source, l)
  PROVE  /\ IsPalindrome(First, l1)
         /\ \A t \in Thread : \A k \in DOMAIN rounds[t] : FirstEqual(t, k)
<1> DEFINE N == N1Lines * DPL
           M == q2Lines * DPL
<1>1. /\ l \in Nat \ {0} /\ source \in Number(l) /\ l1 \in Nat \ {0} /\ N1Lines \in Nat
      /\ l1 + 1 <= N /\ N \in Nat
  BY Lengths3, LineBase
<1>2. /\ l1 = l + Bit(PrescanGrow(source, l))
      /\ s1 = SumsOf(source, l, N1Lines) /\ d1 = DigitsOf(s1)
      /\ First = ReverseAdd(source, l)
  BY NumbersBetween DEF Truth, FirstSum
<1>3. q2Lines \in Nat /\ q2Lines <= N1Lines /\ M \in Nat
  BY SecondLength
<1>4. M <= N
  BY <1>1, <1>3, LinesAscend
<1> HIDE DEF l, N1Lines, q2Lines, First
<1>5. l1 <= N
  <2> HIDE DEF N
  <2>1. QED BY <1>1
<1>6. /\ IsPalindrome(First, l1)
      /\ \A d \in 0 .. N - 1 : d1[d] = IF d < l1 THEN d1[l1 - 1 - d] ELSE 0
      /\ \A r : IsRange(r, N1Lines) => Rippled(s1, r, l1) = {}
  BY <1>1, <1>2, <1>5, NoCarryIs
<1>7. ASSUME NEW out, IsRange(out, q2Lines), NEW a, NEW b, DOMAIN a = {}, DOMAIN b = {}
      PROVE  EqualIn(out, d1, l1, a, b)
  <2> SUFFICES ASSUME NEW d \in Slots(out)
               PROVE  Taken(d1, a, d) = IF d < l1 THEN Taken(d1, b, l1 - 1 - d) ELSE 0
    BY DEF EqualIn
  <2>1. d \in 0 .. M - 1
    BY <1>3, <1>7, RangeSlots
  <2>2. d \in 0 .. N - 1
    <3> HIDE DEF M, N
    <3>1. QED BY <1>1, <1>3, <1>4, <2>1
  <2>3. Taken(d1, a, d) = d1[d] /\ Taken(d1, b, l1 - 1 - d) = d1[l1 - 1 - d]
    BY <1>7 DEF Taken
  <2>4. QED BY <1>6, <2>2, <2>3
<1>8. ASSUME NEW t \in Thread, NEW k \in DOMAIN rounds[t] PROVE FirstEqual(t, k)
  <2> DEFINE r == Round(t, k)
  <2>1. /\ IsRange(r.rLo, q2Lines) /\ IsRange(r.rHi, q2Lines)
        /\ IsRange(FirstLo(r), q2Lines) /\ IsRange(FirstHi(r), q2Lines)
    BY RoundReads
  <2>2. IsRange(FirstLo(r), N1Lines) /\ IsRange(FirstHi(r), N1Lines)
    BY <2>1, FirstHolds
  <2>3. /\ DOMAIN RippleLo(t, k) = Rippled(s1, FirstLo(r), l1)
        /\ DOMAIN RippleHi(t, k) = Rippled(s1, FirstHi(r), l1)
    BY DEF RippleLo, RippleHi, RippleOf
  <2>4. DOMAIN RippleLo(t, k) = {} /\ DOMAIN RippleHi(t, k) = {}
    BY <1>6, <2>2, <2>3
  <2>5. QED BY <1>7, <2>1, <2>4 DEF FirstEqual
<1>9. QED BY <1>6, <1>8

(* Where a thread guessed no carry of the first step wrong, the sums of    *)
(* the second that it consumed are the true ones.                          *)
LEMMA NoRip ==
  ASSUME Truth, NEW t \in Thread, ~Rip(t), NEW k \in DOMAIN rounds[t]
  PROVE  /\ DOMAIN RippleLo(t, k) = {} /\ DOMAIN RippleHi(t, k) = {}
         /\ \A d \in 0 .. q2Lines * DPL - 1 : NeedLo(t, k)[d] = s2[d] /\ NeedHi(t, k)[d] = s2[d]
<1> DEFINE A == RippleLo(t, k)
           B == RippleHi(t, k)
<1>1. DOMAIN A = {} /\ DOMAIN B = {}
  BY DEF Rip
<1>2. WrongDigits(A) /\ WrongDigits(B)
  BY <1>1 DEF WrongDigits
<1>3. /\ AreDigits(d1, l1, q2Lines) /\ \A d \in 0 .. q2Lines * DPL - 1 : d >= l1 => d1[d] = 0
      /\ s2 = SumsOf(d1, l1, q2Lines)
  BY BothDigits DEF Truth
<1>4. NeedLo(t, k) = ConsumedSums(d1, l1, A, B) /\ NeedHi(t, k) = ConsumedSums(d1, l1, B, A)
  BY DEF NeedLo, NeedHi
<1> HIDE DEF A, B, q2Lines
<1>5. ASSUME NEW d \in 0 .. q2Lines * DPL - 1
      PROVE  NeedLo(t, k)[d] = s2[d] /\ NeedHi(t, k)[d] = s2[d]
  BY <1>1, <1>2, <1>3, <1>4, ConsumedRight
<1>6. QED BY <1>1, <1>5 DEF A, B

(* The same of the third step, where it holds no wrong digit.              *)
LEMMA NoWrong ==
  ASSUME Truth, NEW t \in Thread, ~Wrong(t), NEW k \in DOMAIN rounds[t]
  PROVE  \A d \in 0 .. q2Lines * DPL - 1 : LowSums(t, k)[d] = s3[d] /\ HighSums(t, k)[d] = s3[d]
<1> DEFINE A == WrongLo(t, k)
           B == WrongHi(t, k)
<1>1. DOMAIN A = {} /\ DOMAIN B = {}
  BY DEF Wrong
<1>2. WrongDigits(A) /\ WrongDigits(B)
  BY <1>1 DEF WrongDigits
<1>3. /\ AreDigits(d2, l2, q2Lines) /\ \A d \in 0 .. q2Lines * DPL - 1 : d >= l2 => d2[d] = 0
      /\ s3 = SumsOf(d2, l2, q2Lines)
  BY BothDigits DEF Truth
<1>4. LowSums(t, k) = ConsumedSums(d2, l2, A, B) /\ HighSums(t, k) = ConsumedSums(d2, l2, B, A)
  BY DEF LowSums, HighSums
<1> HIDE DEF A, B, q2Lines
<1>5. ASSUME NEW d \in 0 .. q2Lines * DPL - 1
      PROVE  LowSums(t, k)[d] = s3[d] /\ HighSums(t, k)[d] = s3[d]
  BY <1>1, <1>2, <1>3, <1>4, ConsumedRight
<1>6. QED BY <1>5

(* A second step without a carry leaves a palindrome, and where the first  *)
(* was guessed right the pass holds none of its digits wrong and finds     *)
(* them equal to their mirror images.                                      *)
LEMMA NoSecondCarry ==
  ASSUME Truth, ~AnyCarried(First, l1)
  PROVE  /\ IsPalindrome(Second, l2)
         /\ \A t \in Thread : ~Rip(t) => \A k \in DOMAIN rounds[t] :
              LET r == Round(t, k)
              IN  /\ EqualIn(r.lo, d2, l2, WrongLo(t, k), WrongHi(t, k))
                  /\ EqualIn(r.hi, d2, l2, WrongHi(t, k), WrongLo(t, k))
<1> DEFINE M == q2Lines * DPL
<1>1. /\ l1 \in Nat \ {0} /\ First \in Number(l1) /\ First = FirstSum
  BY Lengths3, NumbersBetween
<1>2. /\ l2 = l1 + Bit(PrescanGrow(First, l1)) /\ q2Lines \in Nat /\ l2 <= M /\ M \in Nat
      /\ l2 \in Nat
  BY <1>1, SecondLength
<1>3. /\ s2 = SumsOf(First, l1, q2Lines) /\ d2 = DigitsOf(s2)
      /\ Second = ReverseAdd(First, l1)
  BY <1>1, SecondIsStep, NumbersBetween DEF SecondSum
<1> HIDE DEF First, Second, q2Lines
<1>4. /\ IsPalindrome(Second, l2)
      /\ \A d \in 0 .. M - 1 : ~(s2[d] > 9)
      /\ \A d \in 0 .. M - 1 : d2[d] = IF d < l2 THEN d2[l2 - 1 - d] ELSE 0
  BY <1>1, <1>2, <1>3, NoCarryIs
<1>5. ASSUME NEW r, IsRange(r, q2Lines), NEW a, NEW b, DOMAIN a = {}, DOMAIN b = {}
      PROVE  DOMAIN WrongOf(r, a, b) = {}
  <2> DEFINE base == r[1] * DPL
  <2>1. Slots(r) \subseteq 0 .. M - 1
    BY <1>2, <1>5, RangeSlots
  <2>2. ASSUME NEW s \in Seeds(r, a, b) PROVE FALSE
    <3>1. s \in Slots(r) /\ CarryInto(s2, 0, s, FALSE)
      BY <1>5, <2>2 DEF Seeds
    <3>2. \E j \in 0 .. s - 1 : s2[j] > 9
      BY <3>1 DEF CarryInto
    <3> HIDE DEF M
    <3>3. \A j \in 0 .. s - 1 : j \in 0 .. M - 1
      BY <1>2, <2>1, <3>1
    <3>4. QED BY <1>4, <3>2, <3>3
  <2>3. Seeds(r, a, b) = {}
    BY <2>2
  <2>4. QED BY <2>3 DEF WrongOf
<1>6. ASSUME NEW out, IsRange(out, q2Lines), NEW a, NEW b, DOMAIN a = {}, DOMAIN b = {}
      PROVE  EqualIn(out, d2, l2, a, b)
  <2> SUFFICES ASSUME NEW d \in Slots(out)
               PROVE  Taken(d2, a, d) = IF d < l2 THEN Taken(d2, b, l2 - 1 - d) ELSE 0
    BY DEF EqualIn
  <2>1. d \in 0 .. M - 1
    BY <1>2, <1>6, RangeSlots
  <2>2. Taken(d2, a, d) = d2[d] /\ Taken(d2, b, l2 - 1 - d) = d2[l2 - 1 - d]
    BY <1>6 DEF Taken
  <2>3. QED BY <1>4, <2>1, <2>2
<1>7. ASSUME NEW t \in Thread, ~Rip(t), NEW k \in DOMAIN rounds[t]
      PROVE  LET r == Round(t, k)
             IN  /\ EqualIn(r.lo, d2, l2, WrongLo(t, k), WrongHi(t, k))
                 /\ EqualIn(r.hi, d2, l2, WrongHi(t, k), WrongLo(t, k))
  <2> DEFINE r == Round(t, k)
  <2>1. /\ IsRange(r.lo, q2Lines) /\ IsRange(r.hi, q2Lines)
        /\ IsRange(r.rLo, q2Lines) /\ IsRange(r.rHi, q2Lines)
    BY RoundReads
  <2>2. DOMAIN RippleLo(t, k) = {} /\ DOMAIN RippleHi(t, k) = {}
    BY <1>7, NoRip
  <2>3. DOMAIN WrongLo(t, k) = {} /\ DOMAIN WrongHi(t, k) = {}
    BY <1>5, <2>1, <2>2 DEF WrongLo, WrongHi
  <2>4. QED BY <1>6, <2>1, <2>3
<1>8. QED BY <1>4, <1>7

-----------------------------------------------------------------------------
(* The flags *)

(* Whether the first m rounds of a walk, over those slots, met a sum that  *)
(* carries.                                                                *)
Seen(slots, m, s) == \E k \in 0 .. m - 1 : \E d \in slots[k] : s[d] > 9

LEMMA SeenMore ==
  ASSUME NEW f, NEW m \in Nat, NEW s
  PROVE  /\ Seen(f, m + 1, s) <=> Seen(f, m, s) \/ \E d \in f[m] : s[d] > 9
         /\ ~Seen(f, 0, s)
<1> DEFINE A(k) == \E d \in f[k] : s[d] > 9
<1>1. \A i \in Nat : Seen(f, i, s) <=> \E k \in 0 .. i - 1 : A(k)
  BY DEF Seen
<1> HIDE DEF A
<1>2. ~Seen(f, 0, s)
  BY <1>1
<1>3. Seen(f, m + 1, s) <=> Seen(f, m, s) \/ A(m)
  BY <1>1
<1>4. QED BY <1>2, <1>3 DEF A

(* The rounds of which a thread has read the first step. *)
Read(t) == IF walk[t].at = "C" THEN walk[t].n + 1 ELSE walk[t].n

(* The flags a thread collects: where it guessed nothing wrong, they are   *)
(* those of the true sums it has met.                                      *)
ThreadFlags(t) ==
  LET w == walk[t]
  IN  /\ w.carried1 <=> Seen(FirstSlots(t), Read(t), s1)
      /\ ~Rip(t) => (w.carried2 <=> Seen(SecondSlots(t), Read(t), s2))
      /\ ~Wrong(t) => (w.carried3 <=> Seen(ThirdSlots(t), w.n, s3))
      /\ w.carry => w.carried3
      /\ ~AnyCarried(source, l) => w.equal1
      /\ ~Rip(t) /\ ~AnyCarried(First, l1) => w.equal2

(* The shared flags hold what the threads at their repairs have added.     *)
Collected ==
  LET added == {t \in Thread : walk[t].at = "repair"}
  IN  /\ flags.carried1 <=> \E t \in added : walk[t].carried1
      /\ flags.carried2 <=> \E t \in added : walk[t].carried2
      /\ flags.everCarried <=> \E t \in added : walk[t].carried3
      /\ flags.rip1 <=> \E t \in added : Rip(t)
      /\ flags.wrong2 <=> \E t \in added : Wrong(t)
      /\ ~AnyCarried(source, l) => flags.pal1
      /\ ~(\E t \in Thread : Rip(t)) /\ ~AnyCarried(First, l1) => flags.pal2

(* The flags are those of the true steps. *)
Exact ==
  /\ flags.everCarried <=> AnyCarried(Second, l2)
  /\ ~flags.carried1 /\ flags.pal1 <=> ~AnyCarried(source, l) /\ IsPalindrome(First, l1)
  /\ ~flags.carried2 /\ flags.pal2 <=> ~AnyCarried(First, l1) /\ IsPalindrome(Second, l2)

FlagInv ==
  /\ PassInv
  /\ \A t \in Thread : ThreadFlags(t)
  /\ pc = "pass" => Collected
  /\ pc # "pass" => Exact
  /\ pc = "done" =>
       /\ result.carried = flags.everCarried
       /\ result.mid1 = (~flags.carried1 /\ flags.pal1)
       /\ result.mid2 = (~flags.carried2 /\ flags.pal2)

LEMMA SlotsKept ==
  ASSUME UNCHANGED truth
  PROVE  /\ \A t, m : /\ Seen(FirstSlots(t), m, s1)' = Seen(FirstSlots(t), m, s1)
                      /\ Seen(SecondSlots(t), m, s2)' = Seen(SecondSlots(t), m, s2)
                      /\ Seen(ThirdSlots(t), m, s3)' = Seen(ThirdSlots(t), m, s3)
         /\ \A t : Rip(t)' = Rip(t) /\ Wrong(t)' = Wrong(t)
         /\ UNCHANGED <<AnyCarried(source, l), AnyCarried(First, l1), AnyCarried(Second, l2),
                        IsPalindrome(First, l1), IsPalindrome(Second, l2)>>
<1>1. /\ UNCHANGED <<rounds, s1, s2, s3, source, l1, d1, l2, d2, q1, q1Lines>>
      /\ \A r : FirstLo(r)' = FirstLo(r) /\ FirstHi(r)' = FirstHi(r)
  BY DEF truth, FirstLo, FirstHi, q1, q1Lines
<1>2. \A t, k : Round(t, k)' = Round(t, k)
  BY <1>1 DEF Round
<1>3. \A t : /\ FirstSlots(t)' = FirstSlots(t) /\ SecondSlots(t)' = SecondSlots(t)
             /\ ThirdSlots(t)' = ThirdSlots(t)
  BY <1>1, <1>2 DEF FirstSlots, SecondSlots, ThirdSlots
<1>4. \A t, m : /\ Seen(FirstSlots(t), m, s1)' = Seen(FirstSlots(t), m, s1)
                /\ Seen(SecondSlots(t), m, s2)' = Seen(SecondSlots(t), m, s2)
                /\ Seen(ThirdSlots(t), m, s3)' = Seen(ThirdSlots(t), m, s3)
  BY <1>1, <1>3 DEF Seen
<1>5. UNCHANGED <<AnyCarried(source, l), AnyCarried(First, l1), AnyCarried(Second, l2),
                  IsPalindrome(First, l1), IsPalindrome(Second, l2)>>
  BY <1>1 DEF l, First, Second
<1>6. QED BY <1>4, <1>5, BuffersKept

LEMMA ThreadFlagsKept ==
  ASSUME NEW t, ThreadFlags(t), UNCHANGED truth, walk'[t] = walk[t]
  PROVE  ThreadFlags(t)'
<1> DEFINE C1 == AnyCarried(source, l)
           C2 == AnyCarried(First, l1)
           A(m) == Seen(FirstSlots(t), m, s1)
           B(m) == Seen(SecondSlots(t), m, s2)
           C(m) == Seen(ThirdSlots(t), m, s3)
<1>1. /\ \A m : A(m)' = A(m) /\ B(m)' = B(m) /\ C(m)' = C(m)
      /\ Rip(t)' = Rip(t) /\ Wrong(t)' = Wrong(t) /\ C1' = C1 /\ C2' = C2
      /\ Read(t)' = Read(t)
  BY SlotsKept DEF Read
<1>2. /\ walk[t].carried1 <=> A(Read(t))
      /\ ~Rip(t) => (walk[t].carried2 <=> B(Read(t)))
      /\ ~Wrong(t) => (walk[t].carried3 <=> C(walk[t].n))
      /\ walk[t].carry => walk[t].carried3
      /\ ~C1 => walk[t].equal1
      /\ ~Rip(t) /\ ~C2 => walk[t].equal2
  BY DEF ThreadFlags
<1>3. A(Read(t))' = A(Read(t)) /\ B(Read(t))' = B(Read(t)) /\ C(walk[t].n)' = C(walk[t].n)
  BY SlotsKept DEF Read
<1>4. QED BY <1>1, <1>2, <1>3 DEF ThreadFlags

(* Phases A and B: the flags of the first step, and the carry flag of the  *)
(* second.                                                                 *)
LEMMA FlagsAB ==
  ASSUME PassInv, NEW t \in Thread, ThreadFlags(t), PhaseAB(t)
  PROVE  ThreadFlags(t)'
<1> DEFINE w == walk[t]
           v == walk'[t]
           k == w.n
           r == Round(t, k)
           C1 == AnyCarried(source, l)
           C2 == AnyCarried(First, l1)
<1>1. /\ UNCHANGED truth /\ Truth
      /\ w.at = "A" /\ k \in DOMAIN rounds[t] /\ k \in Nat /\ v.n = k /\ v.at = "C"
      /\ v.carry = w.carry /\ v.carried3 = w.carried3 /\ v.equal2 = w.equal2
      /\ v.carried1 <=> w.carried1 \/ \E d \in FirstSlots(t)[k] : s1[d] > 9
      /\ v.carried2 <=> w.carried2 \/ SecondCarries(t, k)
      /\ v.equal1 <=> w.equal1 /\ FirstEqual(t, k)
  BY EffectAB, TruthConstant DEF Next, PassInv, WalkType
<1>2. /\ w.carried1 <=> Seen(FirstSlots(t), k, s1)
      /\ ~Rip(t) => (w.carried2 <=> Seen(SecondSlots(t), k, s2))
      /\ ~Wrong(t) => (w.carried3 <=> Seen(ThirdSlots(t), k, s3))
      /\ w.carry => w.carried3
      /\ ~C1 => w.equal1
      /\ ~Rip(t) /\ ~C2 => w.equal2
  BY <1>1 DEF ThreadFlags, Read
<1>3. v.carried1 <=> Seen(FirstSlots(t), k + 1, s1)
  BY <1>1, <1>2, SeenMore
<1>4. ASSUME ~Rip(t) PROVE v.carried2 <=> Seen(SecondSlots(t), k + 1, s2)
  <2>1. /\ IsRange(r.rLo, q2Lines) /\ IsRange(r.rHi, q2Lines) /\ q2Lines \in Nat
    BY <1>1, RoundReads, SecondLength
  <2>2. /\ Slots(r.rLo) \subseteq 0 .. q2Lines * DPL - 1
        /\ Slots(r.rHi) \subseteq 0 .. q2Lines * DPL - 1
    BY <2>1, RangeSlots
  <2>3. \A d \in 0 .. q2Lines * DPL - 1 : NeedLo(t, k)[d] = s2[d] /\ NeedHi(t, k)[d] = s2[d]
    BY <1>1, <1>4, NoRip
  <2>4. SecondSlots(t)[k] = Slots(r.rLo) \union Slots(r.rHi)
    BY <1>1 DEF SecondSlots
  <2>5. SecondCarries(t, k) <=> \E d \in SecondSlots(t)[k] : s2[d] > 9
    BY <2>2, <2>3, <2>4 DEF SecondCarries
  <2>6. QED BY <1>1, <1>2, <1>4, <2>5, SeenMore
<1>5. ~C1 => v.equal1
  BY <1>1, <1>2, NoFirstCarry
<1>6. /\ \A m : /\ Seen(FirstSlots(t), m, s1)' = Seen(FirstSlots(t), m, s1)
                /\ Seen(SecondSlots(t), m, s2)' = Seen(SecondSlots(t), m, s2)
                /\ Seen(ThirdSlots(t), m, s3)' = Seen(ThirdSlots(t), m, s3)
      /\ Rip(t)' = Rip(t) /\ Wrong(t)' = Wrong(t) /\ C1' = C1 /\ C2' = C2
  BY <1>1, SlotsKept
<1>7. Read(t)' = k + 1
  BY <1>1 DEF Read
<1> HIDE DEF C1, C2, w, k
<1>8. /\ Seen(FirstSlots(t), Read(t), s1)' = Seen(FirstSlots(t), k + 1, s1)
      /\ Seen(SecondSlots(t), Read(t), s2)' = Seen(SecondSlots(t), k + 1, s2)
      /\ Seen(ThirdSlots(t), walk[t].n, s3)' = Seen(ThirdSlots(t), k, s3)
  <2>1. walk'[t].n = k
    BY <1>1
  <2>2. QED BY <1>1, <1>7, <2>1, SlotsKept
<1>9. QED BY <1>1, <1>2, <1>3, <1>4, <1>5, <1>6, <1>8 DEF ThreadFlags, C1, C2

(* Phase C: the carry flag of the third step, and the comparison of the    *)
(* second number with its mirror image.                                    *)
LEMMA FlagsC ==
  ASSUME PassInv, NEW t \in Thread, ThreadFlags(t), PhaseC(t)
  PROVE  ThreadFlags(t)'
<1> DEFINE w == walk[t]
           v == walk'[t]
           k == w.n
           r == Round(t, k)
           lo == LowOutput(t)
           hi == HighOutput(t)
           cl == LowSums(t, k)
           ch == HighSums(t, k)
           C1 == AnyCarried(source, l)
           C2 == AnyCarried(First, l1)
<1>1. /\ UNCHANGED truth /\ Truth
      /\ w.at = "C" /\ k \in DOMAIN rounds[t] /\ k \in Nat /\ v.n = k + 1 /\ v.at = "A"
      /\ v.carry = lo.carry /\ w.carry \in BOOLEAN
      /\ v.carried1 = w.carried1 /\ v.carried2 = w.carried2 /\ v.equal1 = w.equal1
      /\ v.carried3 <=> w.carried3 \/ lo.carried \/ hi.carried
      /\ v.equal2 <=> w.equal2 /\ lo.equal /\ hi.equal
  BY EffectC, TruthConstant DEF Next, PassInv, WalkType
<1>2. /\ w.carried1 <=> Seen(FirstSlots(t), k + 1, s1)
      /\ ~Rip(t) => (w.carried2 <=> Seen(SecondSlots(t), k + 1, s2))
      /\ ~Wrong(t) => (w.carried3 <=> Seen(ThirdSlots(t), k, s3))
      /\ w.carry => w.carried3
      /\ ~C1 => w.equal1
      /\ ~Rip(t) /\ ~C2 => w.equal2
  BY <1>1 DEF ThreadFlags, Read
<1>3. /\ Consumes(lo, r.lo, cl, w.carry) /\ Consumes(hi, r.hi, ch, FALSE)
      /\ lo.equal <=> EqualIn(r.lo, d2, l2, WrongLo(t, k), WrongHi(t, k))
      /\ hi.equal <=> EqualIn(r.hi, d2, l2, WrongHi(t, k), WrongLo(t, k))
  BY <1>1, OutputsAre
<1>4. /\ r.lo[1] <= r.lo[2] /\ IsRange(r.lo, q2Lines) /\ IsRange(r.hi, q2Lines)
      /\ q2Lines \in Nat
  BY <1>1, RoundReads, SecondLength
<1>5. /\ Slots(r.lo) \subseteq 0 .. q2Lines * DPL - 1 /\ (IsEmpty(r.lo) => Slots(r.lo) = {})
      /\ Slots(r.hi) \subseteq 0 .. q2Lines * DPL - 1 /\ (IsEmpty(r.hi) => Slots(r.hi) = {})
  BY <1>4, RangeSlots
<1> HIDE DEF lo, hi, cl, ch
<1>6. ASSUME lo.carry PROVE v.carried3
  <2>1. CASE IsEmpty(r.lo)
    <3>1. r.lo[1] = r.lo[2]
      BY <1>4, <2>1 DEF IsEmpty, IsRange
    <3>2. r.lo[2] * DPL \in Nat
      BY <1>4, RangeSlots, SMTT(60)
    <3>3. CarryInto(cl, r.lo[2] * DPL, r.lo[2] * DPL, w.carry)
      BY <1>3, <1>6, <3>1 DEF Consumes
    <3>4. w.carry
      BY <3>2, <3>3 DEF CarryInto
    <3>5. QED BY <1>1, <1>2, <3>4
  <2>2. CASE ~IsEmpty(r.lo)
    <3>1. CarryInto(cl, r.lo[1] * DPL, r.lo[2] * DPL, w.carry)
      BY <1>3, <1>6 DEF Consumes
    <3>2. w.carry \/ \E d \in Slots(r.lo) : cl[d] > 9
      BY <3>1, Zenon DEF CarryInto, Slots
    <3>3. lo.carried
      BY <1>3, <2>2, <3>2 DEF Consumes
    <3>4. QED BY <1>1, <3>3, SMTT(60)
  <2>3. QED BY <2>1, <2>2
<1>7. ASSUME ~Wrong(t) PROVE v.carried3 <=> Seen(ThirdSlots(t), k + 1, s3)
  <2>1. \A d \in 0 .. q2Lines * DPL - 1 : cl[d] = s3[d] /\ ch[d] = s3[d]
    BY <1>1, <1>7, NoWrong DEF cl, ch
  <2>2. /\ (\E d \in Slots(r.lo) : cl[d] > 9) <=> (\E d \in Slots(r.lo) : s3[d] > 9)
        /\ (\E d \in Slots(r.hi) : ch[d] > 9) <=> (\E d \in Slots(r.hi) : s3[d] > 9)
    BY <1>5, <2>1
  <2>3. ThirdSlots(t)[k] = Slots(r.lo) \union Slots(r.hi)
    BY <1>1 DEF ThirdSlots
  <2>4. Seen(ThirdSlots(t), k + 1, s3)
          <=> \/ Seen(ThirdSlots(t), k, s3)
              \/ \E d \in Slots(r.lo) : s3[d] > 9
              \/ \E d \in Slots(r.hi) : s3[d] > 9
    BY <1>1, <2>3, SeenMore
  <2>5. /\ lo.carried <=> ~IsEmpty(r.lo) /\ (w.carry \/ \E d \in Slots(r.lo) : cl[d] > 9)
        /\ hi.carried <=> ~IsEmpty(r.hi) /\ (\E d \in Slots(r.hi) : ch[d] > 9)
    BY <1>3 DEF Consumes
  <2> HIDE DEF w, k, r
  <2>6. QED BY <1>1, <1>2, <1>5, <1>7, <2>2, <2>4, <2>5
<1>8. ~Rip(t) /\ ~C2 => v.equal2
  BY <1>1, <1>2, <1>3, NoSecondCarry
<1>9. /\ Rip(t)' = Rip(t) /\ Wrong(t)' = Wrong(t) /\ C1' = C1 /\ C2' = C2
  BY <1>1, SlotsKept
<1>10. Read(t)' = k + 1
  BY <1>1 DEF Read
<1> HIDE DEF C1, C2, w, k
<1>11. /\ Seen(FirstSlots(t), Read(t), s1)' = Seen(FirstSlots(t), k + 1, s1)
       /\ Seen(SecondSlots(t), Read(t), s2)' = Seen(SecondSlots(t), k + 1, s2)
       /\ Seen(ThirdSlots(t), walk[t].n, s3)' = Seen(ThirdSlots(t), k + 1, s3)
  <2>1. walk'[t].n = k + 1
    BY <1>1
  <2>2. QED BY <1>1, <1>10, <2>1, SlotsKept
<1>12. QED BY <1>1, <1>2, <1>6, <1>7, <1>8, <1>9, <1>11 DEF ThreadFlags, C1, C2

(* When every thread is through, every slot of the number has been         *)
(* computed, and what it is computed from read.                            *)
LEMMA SlotsNested ==
  ASSUME Truth, NEW t \in Thread, NEW k \in DOMAIN rounds[t]
  PROVE  /\ ThirdSlots(t)[k] \subseteq SecondSlots(t)[k]
         /\ SecondSlots(t)[k] \subseteq FirstSlots(t)[k]
         /\ SecondSlots(t)[k] \subseteq 0 .. q2Lines * DPL - 1
         /\ FirstSlots(t)[k] \subseteq 0 .. q2Lines * DPL - 1
<1> DEFINE r == Round(t, k)
<1>1. /\ IsRange(r.lo, q2Lines) /\ IsRange(r.hi, q2Lines)
      /\ IsRange(r.rLo, q2Lines) /\ IsRange(r.rHi, q2Lines)
      /\ IsRange(FirstLo(r), q2Lines) /\ IsRange(FirstHi(r), q2Lines)
      /\ InScratch(r.lo, r.rLo, r.rHi, l2 \div DPL, q2Lines)
      /\ InScratch(r.hi, r.rHi, r.rLo, l2 \div DPL, q2Lines)
      /\ InScratch(r.rLo, FirstLo(r), FirstHi(r), q1, q1Lines)
      /\ InScratch(r.rHi, FirstHi(r), FirstLo(r), q1, q1Lines)
  BY RoundReads
<1>2. /\ l1 \in Nat \ {0} /\ l2 \in Nat \ {0} /\ q2Lines \in Nat
      /\ q2Lines = DivCeil(l2, DPL) /\ q1 = l1 \div DPL /\ q1Lines = DivCeil(l1, DPL)
  BY Lengths3, SecondLength DEF q2Lines, q1, q1Lines
<1>3. /\ FirstSlots(t)[k] = Slots(FirstLo(r)) \union Slots(FirstHi(r))
      /\ SecondSlots(t)[k] = Slots(r.rLo) \union Slots(r.rHi)
      /\ ThirdSlots(t)[k] = Slots(r.lo) \union Slots(r.hi)
  BY DEF FirstSlots, SecondSlots, ThirdSlots
<1> DEFINE a == r.lo
           b == r.hi
           x == r.rLo
           y == r.rHi
           A == FirstLo(r)
           B == FirstHi(r)
<1> HIDE DEF a, b, x, y, A, B, r, q1, q1Lines, q2Lines
<1>4. Slots(a) \subseteq Slots(x) /\ Slots(b) \subseteq Slots(y)
  BY <1>1, <1>2, ReadSlots DEF a, b, x, y
<1>5. Slots(x) \subseteq Slots(A) /\ Slots(y) \subseteq Slots(B)
  <2>1. /\ IsRange(x, q2Lines) /\ IsRange(y, q2Lines) /\ IsRange(A, q2Lines) /\ IsRange(B, q2Lines)
        /\ InScratch(x, A, B, l1 \div DPL, DivCeil(l1, DPL))
        /\ InScratch(y, B, A, l1 \div DPL, DivCeil(l1, DPL))
    BY <1>1, <1>2 DEF x, y, A, B
  <2>2. QED BY <1>2, <2>1, ReadSlots
<1>6. /\ Slots(A) \subseteq 0 .. q2Lines * DPL - 1 /\ Slots(B) \subseteq 0 .. q2Lines * DPL - 1
  BY <1>1, <1>2, RangeSlots DEF A, B
<1>7. QED BY <1>3, <1>4, <1>5, <1>6 DEF a, b, x, y, A, B

LEMMA SlotComputed ==
  ASSUME PassInv, \A t \in Thread : walk[t].at = "repair",
         NEW d \in 0 .. q2Lines * DPL - 1
  PROVE  \E t \in Thread : \E k \in 0 .. walk[t].n - 1 :
           k \in DOMAIN rounds[t] /\ d \in ThirdSlots(t)[k]
<1>1. /\ Truth /\ l2 \in Nat \ {0} /\ q2Lines = DivCeil(l2, DPL)
  BY SecondLength DEF PassInv, q2Lines
<1>2. PICK t \in Thread : \A m \in Nat : DoneAt(t, l2, m) =>
        \E k \in 0 .. m - 1 :
          /\ k \in DOMAIN RoundsOf(t, l2)
          /\ \/ d \in Slots(RoundsOf(t, l2)[k].at.lo)
             \/ d \in Slots(RoundsOf(t, l2)[k].at.hi)
  BY <1>1, SlotCovered
<1>3. rounds[t] = RoundsOf(t, l2)
  BY <1>1 DEF Truth
<1>4. walk[t].n \in Nat /\ DoneAt(t, l2, walk[t].n)
  BY <1>3 DEF PassInv, OnRounds, WalkType, DoneAt
<1>5. QED BY <1>2, <1>3, <1>4 DEF Round, ThirdSlots

(* Whether any thread met a sum that carries, over slots that lie between  *)
(* the outputs and the whole of the number.                                *)
LEMMA AllSeen ==
  ASSUME PassInv, \A t \in Thread : walk[t].at = "repair",
         NEW F, NEW s,
         \A t \in Thread : \A k \in DOMAIN rounds[t] :
           ThirdSlots(t)[k] \subseteq F[t][k] /\ F[t][k] \subseteq 0 .. q2Lines * DPL - 1
  PROVE  (\E t \in Thread : Seen(F[t], walk[t].n, s))
           <=> \E d \in 0 .. q2Lines * DPL - 1 : s[d] > 9
<1> DEFINE M == q2Lines * DPL
<1>1. \A t \in Thread : \A k \in 0 .. walk[t].n - 1 : k \in DOMAIN rounds[t]
  BY DEF PassInv, OnRounds
<1>2. \A d \in 0 .. M - 1 : \E t \in Thread : \E k \in 0 .. walk[t].n - 1 :
        k \in DOMAIN rounds[t] /\ d \in ThirdSlots(t)[k]
  BY SlotComputed
<1>3. \A t \in Thread : \A k \in DOMAIN rounds[t] :
        ThirdSlots(t)[k] \subseteq F[t][k] /\ F[t][k] \subseteq 0 .. M - 1
  OBVIOUS
<1> HIDE DEF M
<1>4. ASSUME NEW t \in Thread, Seen(F[t], walk[t].n, s) PROVE \E d \in 0 .. M - 1 : s[d] > 9
  <2>1. PICK k \in 0 .. walk[t].n - 1 : \E d \in F[t][k] : s[d] > 9
    BY <1>4 DEF Seen
  <2>2. QED BY <1>1, <1>3, <2>1
<1>5. ASSUME NEW d \in 0 .. M - 1, s[d] > 9 PROVE \E t \in Thread : Seen(F[t], walk[t].n, s)
  <2>1. PICK t \in Thread : \E k \in 0 .. walk[t].n - 1 :
          k \in DOMAIN rounds[t] /\ d \in ThirdSlots(t)[k]
    BY <1>2
  <2>2. PICK k \in 0 .. walk[t].n - 1 : k \in DOMAIN rounds[t] /\ d \in ThirdSlots(t)[k]
    BY <2>1
  <2>3. d \in F[t][k]
    BY <1>3, <2>2
  <2>4. QED BY <1>5, <2>2, <2>3 DEF Seen
<1>6. QED BY <1>4, <1>5 DEF M

(* So where no guess of a level was wrong, the flags of the threads tell   *)
(* of the whole steps.                                                     *)
LEMMA AllFlags ==
  ASSUME PassInv, \A t \in Thread : walk[t].at = "repair" /\ ThreadFlags(t)
  PROVE  /\ (\E t \in Thread : walk[t].carried1) <=> AnyCarried(source, l)
         /\ ~(\E t \in Thread : Rip(t)) =>
              ((\E t \in Thread : walk[t].carried2) <=> AnyCarried(First, l1))
         /\ ~(\E t \in Thread : Wrong(t)) =>
              ((\E t \in Thread : walk[t].carried3) <=> AnyCarried(Second, l2))
<1> DEFINE M == q2Lines * DPL
           N == N1Lines * DPL
           F1 == [t \in Thread |-> FirstSlots(t)]
           F2 == [t \in Thread |-> SecondSlots(t)]
           F3 == [t \in Thread |-> ThirdSlots(t)]
<1>1. /\ Truth
      /\ \A t \in Thread : /\ walk[t].at = "repair" /\ Read(t) = walk[t].n
                           /\ F1[t] = FirstSlots(t) /\ F2[t] = SecondSlots(t)
                           /\ F3[t] = ThirdSlots(t)
  BY DEF PassInv, Read
<1>2. \A t \in Thread :
        /\ walk[t].carried1 <=> Seen(F1[t], walk[t].n, s1)
        /\ ~Rip(t) => (walk[t].carried2 <=> Seen(F2[t], walk[t].n, s2))
        /\ ~Wrong(t) => (walk[t].carried3 <=> Seen(F3[t], walk[t].n, s3))
  <2> SUFFICES ASSUME NEW t \in Thread
               PROVE  /\ walk[t].carried1 <=> Seen(F1[t], walk[t].n, s1)
                      /\ ~Rip(t) => (walk[t].carried2 <=> Seen(F2[t], walk[t].n, s2))
                      /\ ~Wrong(t) => (walk[t].carried3 <=> Seen(F3[t], walk[t].n, s3))
    OBVIOUS
  <2>1. ThreadFlags(t)
    OBVIOUS
  <2> HIDE DEF F1, F2, F3
  <2>2. QED BY <1>1, <2>1 DEF ThreadFlags
<1>3. \A t \in Thread : \A k \in DOMAIN rounds[t] :
        /\ ThirdSlots(t)[k] \subseteq F1[t][k] /\ F1[t][k] \subseteq 0 .. M - 1
        /\ ThirdSlots(t)[k] \subseteq F2[t][k] /\ F2[t][k] \subseteq 0 .. M - 1
        /\ ThirdSlots(t)[k] \subseteq F3[t][k] /\ F3[t][k] \subseteq 0 .. M - 1
  <2> SUFFICES ASSUME NEW t \in Thread, NEW k \in DOMAIN rounds[t]
               PROVE  /\ ThirdSlots(t)[k] \subseteq F1[t][k] /\ F1[t][k] \subseteq 0 .. M - 1
                      /\ ThirdSlots(t)[k] \subseteq F2[t][k] /\ F2[t][k] \subseteq 0 .. M - 1
                      /\ ThirdSlots(t)[k] \subseteq F3[t][k] /\ F3[t][k] \subseteq 0 .. M - 1
    OBVIOUS
  <2>1. /\ ThirdSlots(t)[k] \subseteq SecondSlots(t)[k]
        /\ SecondSlots(t)[k] \subseteq FirstSlots(t)[k]
        /\ SecondSlots(t)[k] \subseteq 0 .. M - 1
        /\ FirstSlots(t)[k] \subseteq 0 .. M - 1
    BY <1>1, SlotsNested
  <2> HIDE DEF F1, F2, F3, M
  <2>2. QED BY <1>1, <2>1
<1> HIDE DEF F1, F2, F3
<1>4. /\ (\E t \in Thread : Seen(F1[t], walk[t].n, s1)) <=> \E d \in 0 .. M - 1 : s1[d] > 9
      /\ (\E t \in Thread : Seen(F2[t], walk[t].n, s2)) <=> \E d \in 0 .. M - 1 : s2[d] > 9
      /\ (\E t \in Thread : Seen(F3[t], walk[t].n, s3)) <=> \E d \in 0 .. M - 1 : s3[d] > 9
  BY <1>3, AllSeen
<1>5. /\ DOMAIN s2 = 0 .. M - 1 /\ DOMAIN s3 = 0 .. M - 1 /\ DOMAIN s1 = 0 .. N - 1
      /\ \A d \in DOMAIN s1 : d >= l1 => s1[d] = 0
  <2>1. DOMAIN s3 = Slots(<<0, q2Lines>>)
    BY <1>1 DEF Truth, SumsOf
  <2>2. DOMAIN s3 = 0 .. M - 1
    BY <1>1, <2>1, SecondLength, LineBase DEF Slots
  <2>3. QED BY <1>1, <2>2, FirstIsStep, SecondIsStep DEF IsStep
<1>6. (\E d \in DOMAIN s1 : s1[d] > 9) <=> \E d \in 0 .. M - 1 : s1[d] > 9
  <2>1. /\ l1 \in Nat /\ l1 <= M /\ M \in Nat /\ N \in Nat /\ M <= N
    BY <1>1, Lengths3, SecondLength, LinesAscend, LineBase
  <2> HIDE DEF M, N
  <2>2. QED BY <1>5, <2>1, SMTT(60)
<1>7. /\ AnyCarried(source, l) <=> \E d \in 0 .. M - 1 : s1[d] > 9
      /\ AnyCarried(First, l1) <=> \E d \in 0 .. M - 1 : s2[d] > 9
      /\ AnyCarried(Second, l2) <=> \E d \in 0 .. M - 1 : s3[d] > 9
  BY <1>1, <1>5, <1>6, CarriedBySums
<1> HIDE DEF M
<1>8. QED BY <1>2, <1>4, <1>7

(* What a thread adds when its walk ends. *)
LEMMA CollectedEnd ==
  ASSUME PassInv, Collected, NEW t \in Thread, ThreadFlags(t), PassEnd(t)
  PROVE  ThreadFlags(t)' /\ Collected'
<1> DEFINE w == walk[t]
           v == walk'[t]
           C1 == AnyCarried(source, l)
           C2 == AnyCarried(First, l1)
           added == {u \in Thread : walk[u].at = "repair"}
<1>1. /\ UNCHANGED truth /\ Truth
      /\ w.at = "A" /\ v.at = "repair" /\ v.n = w.n /\ v.carry = w.carry
      /\ v.carried1 = w.carried1 /\ v.carried2 = w.carried2 /\ v.carried3 = w.carried3
      /\ v.equal1 = w.equal1 /\ v.equal2 = w.equal2
      /\ \A u \in Thread : u # t => walk'[u] = walk[u]
      /\ flags' = Raised(w, Rip(t), Wrong(t))
  BY EffectEnd, TruthConstant DEF Next, PassInv
<1>2. /\ flags'.carried1 <=> flags.carried1 \/ w.carried1
      /\ flags'.carried2 <=> flags.carried2 \/ w.carried2
      /\ flags'.everCarried <=> flags.everCarried \/ w.carried3
      /\ flags'.pal1 <=> flags.pal1 /\ w.equal1
      /\ flags'.pal2 <=> flags.pal2 /\ w.equal2
      /\ flags'.rip1 <=> flags.rip1 \/ Rip(t)
      /\ flags'.wrong2 <=> flags.wrong2 \/ Wrong(t)
  BY <1>1 DEF Raised
<1>3. /\ w.carried1 <=> Seen(FirstSlots(t), w.n, s1)
      /\ ~Rip(t) => (w.carried2 <=> Seen(SecondSlots(t), w.n, s2))
      /\ ~Wrong(t) => (w.carried3 <=> Seen(ThirdSlots(t), w.n, s3))
      /\ w.carry => w.carried3
      /\ ~C1 => w.equal1
      /\ ~Rip(t) /\ ~C2 => w.equal2
  BY <1>1 DEF ThreadFlags, Read
<1>4. /\ \A u : Rip(u)' = Rip(u) /\ Wrong(u)' = Wrong(u)
      /\ C1' = C1 /\ C2' = C2
  BY <1>1, SlotsKept
<1>5. added' = added \union {t} /\ t \notin added
  BY <1>1
<1> HIDE DEF C1, C2, w
<1>6. ThreadFlags(t)'
  <2>1. Read(t)' = walk'[t].n /\ walk'[t].n = w.n
    BY <1>1 DEF Read
  <2>2. /\ Seen(FirstSlots(t), Read(t), s1)' = Seen(FirstSlots(t), w.n, s1)
        /\ Seen(SecondSlots(t), Read(t), s2)' = Seen(SecondSlots(t), w.n, s2)
        /\ Seen(ThirdSlots(t), walk[t].n, s3)' = Seen(ThirdSlots(t), w.n, s3)
    BY <1>1, <2>1, SlotsKept
  <2>3. QED BY <1>1, <1>3, <1>4, <2>2 DEF ThreadFlags, C1, C2
<1>7. /\ flags.carried1 <=> \E u \in added : walk[u].carried1
      /\ flags.carried2 <=> \E u \in added : walk[u].carried2
      /\ flags.everCarried <=> \E u \in added : walk[u].carried3
      /\ flags.rip1 <=> \E u \in added : Rip(u)
      /\ flags.wrong2 <=> \E u \in added : Wrong(u)
      /\ ~C1 => flags.pal1
      /\ ~(\E u \in Thread : Rip(u)) /\ ~C2 => flags.pal2
  BY DEF Collected, C1, C2
<1>8. \A u \in added : u \in Thread /\ walk'[u] = walk[u]
  BY <1>1, <1>5
<1> DEFINE more == added \union {t}
<1>9. /\ (\E u \in more : walk'[u].carried1) <=> w.carried1 \/ \E u \in added : walk[u].carried1
      /\ (\E u \in more : walk'[u].carried2) <=> w.carried2 \/ \E u \in added : walk[u].carried2
      /\ (\E u \in more : walk'[u].carried3) <=> w.carried3 \/ \E u \in added : walk[u].carried3
      /\ (\E u \in more : Rip(u)) <=> Rip(t) \/ \E u \in added : Rip(u)
      /\ (\E u \in more : Wrong(u)) <=> Wrong(t) \/ \E u \in added : Wrong(u)
  <2> HIDE DEF added
  <2>1. QED BY <1>1, <1>8
<1>10. /\ flags'.carried1 <=> \E u \in more : walk'[u].carried1
       /\ flags'.carried2 <=> \E u \in more : walk'[u].carried2
       /\ flags'.everCarried <=> \E u \in more : walk'[u].carried3
       /\ flags'.rip1 <=> \E u \in more : Rip(u)
       /\ flags'.wrong2 <=> \E u \in more : Wrong(u)
       /\ ~C1 => flags'.pal1
       /\ ~(\E u \in Thread : Rip(u)) /\ ~C2 => flags'.pal2
  <2> HIDE DEF added, more
  <2>1. QED BY <1>2, <1>3, <1>7, <1>9
<1>11. Collected'
  <2>1. {u \in Thread : walk'[u].at = "repair"} = more
    BY <1>5
  <2> HIDE DEF more, added
  <2>2. QED BY <1>4, <1>10, <2>1 DEF Collected, C1, C2
<1>12. QED BY <1>6, <1>11

(* A step that brings nobody to the repairs adds nothing. *)
LEMMA CollectedKept ==
  ASSUME Collected, UNCHANGED truth, UNCHANGED flags,
         \A u \in Thread : /\ (walk'[u].at = "repair") <=> (walk[u].at = "repair")
                           /\ walk[u].at = "repair" => walk'[u] = walk[u]
  PROVE  Collected'
<1> DEFINE C1 == AnyCarried(source, l)
           C2 == AnyCarried(First, l1)
           added == {u \in Thread : walk[u].at = "repair"}
<1>1. /\ \A u : Rip(u)' = Rip(u) /\ Wrong(u)' = Wrong(u)
      /\ C1' = C1 /\ C2' = C2
  BY SlotsKept
<1>2. {u \in Thread : walk'[u].at = "repair"} = added
  OBVIOUS
<1>3. \A u \in added : u \in Thread /\ walk'[u] = walk[u]
  OBVIOUS
<1> HIDE DEF C1, C2
<1>4. /\ flags.carried1 <=> \E u \in added : walk[u].carried1
      /\ flags.carried2 <=> \E u \in added : walk[u].carried2
      /\ flags.everCarried <=> \E u \in added : walk[u].carried3
      /\ flags.rip1 <=> \E u \in added : Rip(u)
      /\ flags.wrong2 <=> \E u \in added : Wrong(u)
      /\ ~C1 => flags.pal1
      /\ ~(\E u \in Thread : Rip(u)) /\ ~C2 => flags.pal2
  BY DEF Collected, C1, C2
<1> HIDE DEF added
<1>5. /\ flags'.carried1 <=> \E u \in added : walk'[u].carried1
      /\ flags'.carried2 <=> \E u \in added : walk'[u].carried2
      /\ flags'.everCarried <=> \E u \in added : walk'[u].carried3
      /\ flags'.rip1 <=> \E u \in added : Rip(u)'
      /\ flags'.wrong2 <=> \E u \in added : Wrong(u)'
      /\ ~C1 => flags'.pal1
      /\ ~(\E u \in Thread : Rip(u)') /\ ~C2 => flags'.pal2
  BY <1>1, <1>3, <1>4
<1>6. QED BY <1>1, <1>2, <1>5 DEF Collected, C1, C2

(* The coordinator makes exact flags of them. *)
LEMMA ResolveExact ==
  ASSUME PassInv, Collected, \A t \in Thread : ThreadFlags(t), StartResolve
  PROVE  Exact'
<1> DEFINE C1 == AnyCarried(source, l)
           C2 == AnyCarried(First, l1)
           C3 == AnyCarried(Second, l2)
           P1 == IsPalindrome(First, l1)
           P2 == IsPalindrome(Second, l2)
<1>1. /\ Truth /\ \A t \in Thread : walk[t].at = "repair"
      /\ flags' = ExactFlags3(flags) /\ flags \in FlagType /\ UNCHANGED truth
  BY TruthConstant DEF StartResolve, PassInv, Next
<1>2. {t \in Thread : walk[t].at = "repair"} = Thread
  BY <1>1
<1>3. /\ flags.carried1 <=> \E t \in Thread : walk[t].carried1
      /\ flags.carried2 <=> \E t \in Thread : walk[t].carried2
      /\ flags.everCarried <=> \E t \in Thread : walk[t].carried3
      /\ flags.rip1 <=> \E t \in Thread : Rip(t)
      /\ flags.wrong2 <=> \E t \in Thread : Wrong(t)
      /\ ~C1 => flags.pal1
      /\ ~(\E t \in Thread : Rip(t)) /\ ~C2 => flags.pal2
  BY <1>2 DEF Collected
<1>4. /\ (\E t \in Thread : walk[t].carried1) <=> C1
      /\ ~(\E t \in Thread : Rip(t)) => ((\E t \in Thread : walk[t].carried2) <=> C2)
      /\ ~(\E t \in Thread : Wrong(t)) => ((\E t \in Thread : walk[t].carried3) <=> C3)
  BY <1>1, AllFlags
<1>5. /\ Generates(s2, l1) <=> C2
      /\ Generates(s3, l2) <=> C3
      /\ ~C1 => P1
      /\ ~C2 => P2
  BY <1>1, CarriedBySums, NoFirstCarry, NoSecondCarry
<1> DEFINE c2 == IF flags.rip1 THEN Generates(s2, l1) ELSE flags.carried2
           c3 == IF flags.wrong2 THEN Generates(s3, l2) ELSE flags.everCarried
           p2 == flags.pal2 \/ flags.rip1
<1>6. flags' = [flags EXCEPT !.carried2 = c2, !.everCarried = c3, !.pal2 = p2]
  BY <1>1 DEF ExactFlags3
<1>7. c2 \in BOOLEAN /\ c3 \in BOOLEAN /\ p2 \in BOOLEAN
  BY <1>1 DEF FlagType, Generates
<1>8. /\ c2 <=> C2
      /\ c3 <=> C3
      /\ ~C2 => p2
  <2> HIDE DEF C1, C2, C3, P1, P2
  <2>1. CASE flags.rip1
    <3>1. c2 <=> C2
      BY <1>5, <2>1
    <3>2. p2
      BY <2>1
    <3>3. c3 <=> C3
      BY <1>3, <1>4, <1>5
    <3>4. QED BY <3>1, <3>2, <3>3
  <2>2. CASE ~flags.rip1
    <3>1. c2 <=> C2
      BY <1>3, <1>4, <2>2
    <3>2. ~C2 => p2
      BY <1>3, <2>2
    <3>3. c3 <=> C3
      BY <1>3, <1>4, <1>5
    <3>4. QED BY <3>1, <3>2, <3>3
  <2>3. QED BY <2>1, <2>2
<1> HIDE DEF c2, c3, p2
<1>9. /\ flags'.carried1 = flags.carried1 /\ flags'.pal1 = flags.pal1
      /\ flags'.carried2 = c2 /\ flags'.everCarried = c3 /\ flags'.pal2 = p2
  BY <1>1, <1>6, <1>7 DEF FlagType
<1> HIDE DEF C1, C2, C3, P1, P2
<1>10. /\ flags'.everCarried <=> C3
       /\ ~flags'.carried1 /\ flags'.pal1 <=> ~C1 /\ P1
       /\ ~flags'.carried2 /\ flags'.pal2 <=> ~C2 /\ P2
  BY <1>3, <1>4, <1>5, <1>8, <1>9
<1>11. C1' = C1 /\ C2' = C2 /\ C3' = C3 /\ P1' = P1 /\ P2' = P2
  BY <1>1, SlotsKept DEF C1, C2, C3, P1, P2
<1>12. QED BY <1>10, <1>11 DEF Exact, C1, C2, C3, P1, P2

LEMMA ExactKept ==
  ASSUME Exact, UNCHANGED truth, UNCHANGED flags
  PROVE  Exact'
<1> DEFINE C1 == AnyCarried(source, l)
           C2 == AnyCarried(First, l1)
           C3 == AnyCarried(Second, l2)
           P1 == IsPalindrome(First, l1)
           P2 == IsPalindrome(Second, l2)
<1>1. C1' = C1 /\ C2' = C2 /\ C3' = C3 /\ P1' = P1 /\ P2' = P2
  BY SlotsKept
<1>2. /\ flags.everCarried <=> C3
      /\ ~flags.carried1 /\ flags.pal1 <=> ~C1 /\ P1
      /\ ~flags.carried2 /\ flags.pal2 <=> ~C2 /\ P2
  BY DEF Exact
<1> HIDE DEF C1, C2, C3, P1, P2
<1>3. QED BY <1>1, <1>2 DEF Exact, C1, C2, C3, P1, P2

LEMMA FlagsInit == Init => FlagInv
<1> SUFFICES ASSUME Init PROVE FlagInv
  OBVIOUS
<1>1. /\ walk = [t \in Thread |->
                   [n |-> 0, at |-> "A", carry |-> FALSE, carried1 |-> FALSE,
                    carried2 |-> FALSE, carried3 |-> FALSE, equal1 |-> TRUE, equal2 |-> TRUE]]
      /\ flags = [carried1 |-> FALSE, carried2 |-> FALSE, everCarried |-> FALSE,
                  pal1 |-> TRUE, pal2 |-> TRUE, rip1 |-> FALSE, wrong2 |-> FALSE]
      /\ pc = "pass"
  BY DEF Init
<1>2. \A t \in Thread : ThreadFlags(t)
  BY <1>1, SeenMore DEF ThreadFlags, Read
<1>3. Collected
  BY <1>1 DEF Collected
<1>4. QED BY <1>1, <1>2, <1>3, PassInit DEF FlagInv

LEMMA FlagsStep == FlagInv /\ [Next]_vars => FlagInv'
<1> SUFFICES ASSUME FlagInv, [Next]_vars PROVE FlagInv'
  OBVIOUS
<1>1. /\ PassInv /\ PassInv' /\ UNCHANGED truth
      /\ \A t \in Thread : ThreadFlags(t)
      /\ pc = "pass" => Collected
      /\ pc # "pass" => Exact
  BY PassStep, TruthConstant DEF FlagInv
<1>2. ASSUME NEW t \in Thread, PhaseAB(t) PROVE FlagInv'
  <2>1. /\ walk[t].at = "A" /\ walk'[t].at = "C"
        /\ \A u \in Thread : u # t => walk'[u] = walk[u]
    BY <1>1, <1>2, EffectAB, SMTT(60)
  <2>2. UNCHANGED flags /\ pc = "pass" /\ pc' = "pass"
    BY <1>2 DEF PhaseAB
  <2>3. \A u \in Thread : ThreadFlags(u)'
    BY <1>1, <1>2, <2>1, FlagsAB, ThreadFlagsKept
  <2>4. Collected'
    BY <1>1, <2>1, <2>2, CollectedKept
  <2>5. QED BY <1>1, <2>2, <2>3, <2>4 DEF FlagInv
<1>3. ASSUME NEW t \in Thread, PhaseC(t) PROVE FlagInv'
  <2>1. /\ walk[t].at = "C" /\ walk'[t].at = "A"
        /\ \A u \in Thread : u # t => walk'[u] = walk[u]
        /\ UNCHANGED flags
    BY <1>1, <1>3, EffectC, SMTT(60)
  <2>2. pc = "pass" /\ pc' = "pass"
    BY <1>3, Zenon DEF PhaseC
  <2>3. \A u \in Thread : ThreadFlags(u)'
    BY <1>1, <1>3, <2>1, FlagsC, ThreadFlagsKept
  <2>4. Collected'
    BY <1>1, <2>1, <2>2, CollectedKept
  <2>5. QED BY <1>1, <2>2, <2>3, <2>4 DEF FlagInv
<1>4. ASSUME NEW t \in Thread, PassEnd(t) PROVE FlagInv'
  <2>1. \A u \in Thread : u # t => walk'[u] = walk[u]
    BY <1>1, <1>4, EffectEnd
  <2>2. pc = "pass" /\ pc' = "pass"
    BY <1>4 DEF PassEnd
  <2>3. ThreadFlags(t)' /\ Collected'
    BY <1>1, <1>4, <2>2, CollectedEnd
  <2>4. \A u \in Thread : ThreadFlags(u)'
    BY <1>1, <2>1, <2>3, ThreadFlagsKept
  <2>5. QED BY <1>1, <2>2, <2>3, <2>4 DEF FlagInv
<1>5. ASSUME \/ StartResolve \/ Return \/ Done \/ UNCHANGED vars
             \/ \E t \in Thread : \E x \in repairs[t] : RepairLine(t, x)
             \/ pc = "resolve" /\ \E g \in Ranges : ResolveRange(g)
      PROVE  FlagInv'
  <2>1. UNCHANGED walk
    BY <1>5, AfterPass
  <2>2. \A t \in Thread : ThreadFlags(t)'
    BY <1>1, <2>1, ThreadFlagsKept
  <2>3. CASE StartResolve
    <3>1. pc = "pass" /\ pc' = "resolve"
      BY <2>3 DEF StartResolve
    <3>2. Exact'
      BY <1>1, <2>3, <3>1, ResolveExact
    <3>3. QED BY <1>1, <2>2, <3>1, <3>2 DEF FlagInv
  <2>4. CASE ~StartResolve
    <3>1. UNCHANGED flags /\ (UNCHANGED pc \/ (pc = "resolve" /\ pc' = "done"))
      BY <1>5, <2>4, AfterPass
    <3>2. pc' = "pass" => Collected'
      <4>1. ASSUME pc' = "pass" PROVE Collected'
        <5>1. pc = "pass"
          BY <3>1, <4>1
        <5>2. QED BY <1>1, <2>1, <3>1, <5>1, CollectedKept
      <4>2. QED BY <4>1
    <3>3. pc' # "pass" => Exact'
      <4>1. ASSUME pc' # "pass" PROVE Exact'
        <5>1. pc # "pass"
          BY <3>1, <4>1
        <5>2. QED BY <1>1, <3>1, <5>1, ExactKept
      <4>2. QED BY <4>1
    <3>4. ASSUME pc' = "done"
          PROVE  /\ result'.carried = flags'.everCarried
                 /\ result'.mid1 = (~flags'.carried1 /\ flags'.pal1)
                 /\ result'.mid2 = (~flags'.carried2 /\ flags'.pal2)
      <4>1. CASE Return
        BY <4>1 DEF Return
      <4>2. CASE ~Return
        <5>1. UNCHANGED <<result, pc>>
          <6>1. ASSUME NEW t \in Thread, NEW x, RepairLine(t, x) PROVE UNCHANGED <<result, pc>>
            BY <6>1 DEF RepairLine
          <6>2. ASSUME NEW g, ResolveRange(g) PROVE UNCHANGED <<result, pc>>
            BY <6>2 DEF ResolveRange
          <6>3. Done \/ UNCHANGED vars => UNCHANGED <<result, pc>>
            BY DEF Done, vars
          <6>4. QED BY <1>5, <2>4, <4>2, <6>1, <6>2, <6>3
        <5>2. /\ result.carried = flags.everCarried
              /\ result.mid1 = (~flags.carried1 /\ flags.pal1)
              /\ result.mid2 = (~flags.carried2 /\ flags.pal2)
          BY <3>4, <5>1 DEF FlagInv
        <5>3. QED BY <3>1, <5>1, <5>2
      <4>3. QED BY <4>1, <4>2
    <3>5. QED BY <1>1, <2>2, <3>2, <3>3, <3>4 DEF FlagInv
  <2>5. QED BY <2>3, <2>4
<1>6. QED BY <1>2, <1>3, <1>4, <1>5 DEF Next

(* The flags of the triple step are exact: what they say of the two steps  *)
(* that are never seen, their carries and their palindromes, is so, and so *)
(* is the carry flag of the result, in whatever way the pass guessed       *)
(* wrong.                                                                  *)
THEOREM FlagsOfTheTripleStep == Spec => []FlagsExact
<1>1. FlagInv => FlagsExact
  <2> SUFFICES ASSUME FlagInv, pc = "done"
               PROVE  /\ result.carried = AnyCarried(Second, l2)
                      /\ result.mid1 <=> /\ ~AnyCarried(source, l)
                                         /\ IsPalindrome(First, l1)
                      /\ result.mid2 <=> ~AnyCarried(First, l1) /\ IsPalindrome(Second, l2)
    BY DEF FlagsExact, l
  <2>1. /\ result.carried = flags.everCarried
        /\ result.mid1 = (~flags.carried1 /\ flags.pal1)
        /\ result.mid2 = (~flags.carried2 /\ flags.pal2)
        /\ Exact /\ flags \in FlagType
    BY DEF FlagInv, PassInv
  <2>2. flags.everCarried \in BOOLEAN /\ AnyCarried(Second, l2) \in BOOLEAN
    BY <2>1 DEF FlagType, AnyCarried
  <2>3. QED BY <2>1, <2>2 DEF Exact
<1>2. QED BY <1>1, FlagsInit, FlagsStep, PTL DEF Spec

=============================================================================
