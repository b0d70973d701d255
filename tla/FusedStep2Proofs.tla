-------------------------- MODULE FusedStep2Proofs --------------------------
(***************************************************************************)
(* Theorems about the fused double step, for any pool, chunk size and      *)
(* proper numbers.                                                         *)
(***************************************************************************)
EXTENDS FusedStep2, ArithmeticProofs

-----------------------------------------------------------------------------
(* Ground truth *)

(* What no action changes. *)
Truth ==
  /\ source \in Start
  /\ l1 = l + Bit(PrescanGrow(source, l))
  /\ s1 = SumsOf(source, l, Q1Lines)
  /\ d1 = DigitsOf(s1)
  /\ s2 = SumsOf(d1, l1, Q1Lines)
  /\ rounds = [t \in Thread |-> RoundsOf(t, l1)]

LEMMA TruthInit == Init => Truth
  BY DEF Init, Truth

LEMMA TruthKept ==
  ASSUME Truth, UNCHANGED truth
  PROVE  Truth'
  BY DEF Truth, truth, l, Q1Lines

LEMMA TruthConstant ==
  ASSUME [Next]_vars
  PROVE  UNCHANGED truth
<1>1. ASSUME NEW t \in Thread, PhaseA(t) PROVE UNCHANGED truth
  BY <1>1 DEF PhaseA
<1>2. ASSUME NEW t \in Thread, PhaseB(t) PROVE UNCHANGED truth
  BY <1>2, Zenon DEF PhaseB
<1>3. ASSUME NEW t \in Thread, PassEnd(t) PROVE UNCHANGED truth
  BY <1>3 DEF PassEnd
<1>4. ASSUME NEW x, RepairLine(x) PROVE UNCHANGED truth
  BY <1>4 DEF RepairLine
<1>5. ASSUME NEW g, ResolveRange(g) PROVE UNCHANGED truth
  BY <1>5 DEF ResolveRange
<1>6. StartRepair \/ EndRepair \/ Return \/ Done \/ UNCHANGED vars => UNCHANGED truth
  BY DEF StartRepair, EndRepair, Return, Done, vars
<1>7. QED BY <1>1, <1>2, <1>3, <1>4, <1>5, <1>6 DEF Next

(* The number and its lines. *)
LEMMA Number1 ==
  ASSUME Truth
  PROVE  /\ l \in Nat \ {0} /\ source \in Number(l) /\ Proper(source, l)
         /\ l1 \in {l, l + 1} /\ l1 \in Nat \ {0}
         /\ Middle \in Number(l1) /\ Proper(Middle, l1)
         /\ Q1Lines \in Nat \ {0} /\ Q1Lines * DPL \in Nat /\ DPL \in Nat \ {0}
         /\ l1 <= Q1Lines * DPL
<1>1. l \in Nat /\ source \in Number(l) /\ Proper(source, l)
  BY StartAssumption DEF Truth, IsProper, l
<1>2. l \in Nat \ {0}
  BY <1>1 DEF Proper
<1>3. l1 = l + Bit(PrescanGrow(source, l))
  BY DEF Truth
<1> HIDE DEF l
<1>4. l1 \in {l, l + 1} /\ Middle \in Number(l1) /\ Proper(Middle, l1)
  BY <1>1, <1>2, <1>3, ReverseAddProper DEF Middle
<1>5. l1 \in Nat \ {0}
  BY <1>2, <1>4
<1>6. Q1Lines \in Nat \ {0} /\ l1 <= Q1Lines * DPL
  BY <1>5, LinesOfDigits DEF Q1Lines
<1>7. Q1Lines * DPL \in Nat /\ DPL \in Nat \ {0}
  BY <1>6, LineBase
<1>8. QED BY <1>1, <1>2, <1>4, <1>5, <1>6, <1>7

(* The first step's sums and digits. *)
LEMMA FirstStep ==
  ASSUME Truth
  PROVE  /\ DOMAIN s1 = 0 .. Q1Lines * DPL - 1 /\ DOMAIN d1 = DOMAIN s1
         /\ \A d \in DOMAIN s1 :
              /\ s1[d] \in 0 .. 18 /\ (d >= l => s1[d] = 0)
              /\ d1[d] = Resolved(s1[d], CarryInto(s1, 0, d, FALSE))
              /\ d1[d] \in Digit
              /\ d1[d] = IF d < l1 THEN Middle[d] ELSE 0
         /\ \A d \in 0 .. l - 1 : s1[d] = Sums(source, l)[d]
<1>1. /\ l \in Nat \ {0} /\ source \in Number(l) /\ Q1Lines \in Nat
      /\ l1 <= Q1Lines * DPL
  BY Number1
<1>2. /\ s1 = SumsOf(source, l, Q1Lines) /\ d1 = DigitsOf(s1)
      /\ l1 = l + Bit(PrescanGrow(source, l))
  BY DEF Truth
<1> HIDE DEF l, Q1Lines
<1>3. /\ IsStep(s1, d1, l1, Q1Lines)
      /\ \A d \in DOMAIN s1 : d >= l => s1[d] = 0
      /\ \A d \in 0 .. l - 1 : s1[d] = Sums(source, l)[d]
      /\ \A d \in DOMAIN s1 : d1[d] = IF d < l1 THEN Middle[d] ELSE 0
  BY <1>1, <1>2, StepIs DEF Middle
<1>4. QED BY <1>3 DEF IsStep

(* The second step's. *)
LEMMA SecondStep ==
  ASSUME Truth
  PROVE  /\ DOMAIN s2 = 0 .. Q1Lines * DPL - 1
         /\ \A d \in 0 .. l1 - 1 :
              /\ s2[d] = d1[d] + d1[l1 - 1 - d] /\ s2[l1 - 1 - d] = s2[d]
              /\ s2[d] = Sums(Middle, l1)[d]
         /\ \A d \in DOMAIN s2 : s2[d] \in 0 .. 18 /\ (d >= l1 => s2[d] = 0)
<1> DEFINE N == Q1Lines * DPL
           s == SumsOf(d1, l1, Q1Lines)
<1>1. /\ l1 \in Nat \ {0} /\ Q1Lines \in Nat /\ N \in Nat /\ l1 <= N
      /\ Middle \in Number(l1)
  BY Number1
<1>2. /\ DOMAIN s1 = 0 .. N - 1 /\ DOMAIN d1 = DOMAIN s1
      /\ \A d \in DOMAIN s1 : d1[d] \in Digit /\ d1[d] = IF d < l1 THEN Middle[d] ELSE 0
  BY FirstStep
<1>3. s2 = s
  BY DEF Truth
<1> HIDE DEF N
<1>4. \A d \in 0 .. l1 - 1 :
        d \in DOMAIN s1 /\ l1 - 1 - d \in DOMAIN s1 /\ d < l1 /\ l1 - 1 - d < l1
  BY <1>1, <1>2
<1>5. \A d \in 0 .. l1 - 1 : d1[d] \in Digit
  BY <1>2, <1>4
<1>6. /\ DOMAIN s = 0 .. N - 1
      /\ \A d \in 0 .. l1 - 1 : s[d] = d1[d] + d1[l1 - 1 - d] /\ s[l1 - 1 - d] = s[d]
      /\ \A d \in DOMAIN s : s[d] \in 0 .. 18 /\ (d >= l1 => s[d] = 0)
  BY <1>1, <1>5, SumsOfIs DEF N
<1> HIDE DEF s
<1>7. ASSUME NEW d \in 0 .. l1 - 1 PROVE s[d] = Sums(Middle, l1)[d]
  <2>1. Sums(Middle, l1)[d] = Middle[d] + Middle[l1 - 1 - d]
    BY <1>1, SumsType
  <2>2. d1[d] = Middle[d] /\ d1[l1 - 1 - d] = Middle[l1 - 1 - d]
    BY <1>2, <1>4
  <2>3. QED BY <1>6, <2>1, <2>2
<1>8. QED BY <1>3, <1>6, <1>7 DEF N

LEMMA FirstIsStep ==
  ASSUME Truth
  PROVE  IsStep(s1, d1, l1, Q1Lines)
<1> DEFINE N == Q1Lines * DPL
<1>1. /\ l \in Nat /\ l1 \in {l, l + 1} /\ N \in Nat
      /\ DOMAIN s1 = 0 .. N - 1 /\ DOMAIN d1 = DOMAIN s1
      /\ \A d \in DOMAIN s1 :
           /\ s1[d] \in 0 .. 18 /\ (d >= l => s1[d] = 0)
           /\ d1[d] = Resolved(s1[d], CarryInto(s1, 0, d, FALSE))
           /\ d1[d] \in Digit
           /\ d1[d] = IF d < l1 THEN Middle[d] ELSE 0
  BY FirstStep, Number1
<1> HIDE DEF N
<1>2. \A d \in DOMAIN s1 : d >= l1 => d >= l /\ ~(d < l1)
  BY <1>1
<1>3. \A d \in DOMAIN s1 : d >= l1 => s1[d] = 0 /\ d1[d] = 0
  BY <1>1, <1>2
<1>4. l1 \in Nat \ {0} /\ Q1Lines \in Nat /\ l1 <= Q1Lines * DPL
  BY Number1
<1>5. QED BY <1>1, <1>3, <1>4 DEF IsStep, N

LEMMA FirstDigits ==
  ASSUME Truth
  PROVE  AreDigits(d1, l1, Q1Lines)
BY FirstIsStep DEF IsStep, AreDigits

(* Whether a step carries is told by its sums, the second one's by one     *)
(* half of them.                                                           *)
LEMMA CarriedBySums ==
  ASSUME Truth
  PROVE  /\ AnyCarried(source, l) <=> \E d \in DOMAIN s1 : s1[d] > 9
         /\ AnyCarried(Middle, l1) <=> \E d \in DOMAIN s2 : s2[d] > 9
         /\ Generates(s2, l1) <=> AnyCarried(Middle, l1)
<1>1. /\ l \in Nat \ {0} /\ source \in Number(l) /\ l <= Q1Lines * DPL
      /\ l1 \in Nat \ {0} /\ Middle \in Number(l1) /\ l1 <= Q1Lines * DPL
      /\ Q1Lines \in Nat
  BY Number1
<1>2. s1 = SumsOf(source, l, Q1Lines)
  BY DEF Truth
<1>3. s2 = SumsOf(Middle, l1, Q1Lines)
  <2>1. /\ DOMAIN s1 = 0 .. Q1Lines * DPL - 1
        /\ \A d \in DOMAIN s1 : d1[d] = IF d < l1 THEN Middle[d] ELSE 0
    BY FirstStep
  <2>2. \A d \in 0 .. l1 - 1 : d1[d] = Middle[d]
    <3>1. \A d \in 0 .. l1 - 1 : d \in DOMAIN s1 /\ d < l1
      <4> DEFINE N == Q1Lines * DPL
      <4>1. N \in Nat /\ l1 <= N /\ DOMAIN s1 = 0 .. N - 1
        BY <1>1, <2>1, LineBase
      <4> HIDE DEF N
      <4>2. QED BY <1>1, <4>1
    <3>2. QED BY <2>1, <3>1
  <2>3. s2 = SumsOf(d1, l1, Q1Lines)
    BY DEF Truth
  <2>4. QED BY <1>1, <2>2, <2>3, SumsOfSame
<1> HIDE DEF l, Q1Lines
<1>4. /\ AnyCarried(source, l) <=> \E d \in DOMAIN s1 : s1[d] > 9
      /\ AnyCarried(Middle, l1) <=> \E d \in DOMAIN s2 : s2[d] > 9
      /\ Generates(s2, l1) <=> AnyCarried(Middle, l1)
  BY <1>1, <1>2, <1>3, CarriesAre, SMTT(60)
<1>5. QED BY <1>4

-----------------------------------------------------------------------------
(* What a round reads *)

(* The chunks of a round and its intervals are lines of the number, and    *)
(* the chunks read nothing else of the intermediate one.                   *)
LEMMA RoundReads ==
  ASSUME Truth, NEW t \in Thread, NEW k \in DOMAIN rounds[t]
  PROVE  LET r == Round(t, k)
             q == l1 \div DPL
         IN  /\ r.lo = <<r.lo[1], r.lo[2]>> /\ r.hi = <<r.hi[1], r.hi[2]>>
             /\ r.lo[1] <= r.lo[2] /\ r.hi[1] <= r.hi[2]
             /\ IsRange(r.lo, Q1Lines) /\ IsRange(r.hi, Q1Lines)
             /\ IsRange(r.rLo, Q1Lines) /\ IsRange(r.rHi, Q1Lines)
             /\ InScratch(r.lo, r.rLo, r.rHi, q, Q1Lines)
             /\ InScratch(r.hi, r.rHi, r.rLo, q, Q1Lines)
<1>1. l1 \in Nat \ {0}
  BY Number1
<1>2. k \in DOMAIN RoundsOf(t, l1) /\ Round(t, k) = RoundsOf(t, l1)[k].at
  BY DEF Round, Truth
<1>3. QED BY <1>1, <1>2, RoundLines DEF Q1Lines

(* The digits a pass computes for an interval are the true ones except     *)
(* those that the carry into it runs through and lands on: these are one   *)
(* too low, the nines among them nine too high.                            *)
LEMMA ScratchIs ==
  ASSUME Truth, NEW r, IsRange(r, Q1Lines), NEW d \in Slots(r)
  PROVE  LET had == Speculated(s1, r)[d]
         IN  /\ had \in Digit
             /\ d \notin Rippled(s1, r, l1) => had = d1[d]
             /\ d \in Rippled(s1, r, l1) => had - d1[d] \in {9, -1}
BY FirstIsStep, GuessIs

-----------------------------------------------------------------------------
(* What a round computes *)

(* The sums that the chunks of a round consume: the second step's, with    *)
(* the wrong digits of the round's intervals in them.                      *)
LowSums(t, k) == ConsumedSums(d1, l1, RippleLo(t, k), RippleHi(t, k))
HighSums(t, k) == ConsumedSums(d1, l1, RippleHi(t, k), RippleLo(t, k))

(* A digit of the intermediate number as interval r has it: its own if it  *)
(* is wrong, the true one everywhere else.                                 *)
HadDigit(r, p) ==
  IF p \in Rippled(s1, r, l1) THEN Speculated(s1, r)[p] ELSE d1[p]

LEMMA HadDigitIs ==
  ASSUME Truth, NEW r, IsRange(r, Q1Lines), NEW p \in 0 .. Q1Lines * DPL - 1
  PROVE  /\ HadDigit(r, p) \in Digit
         /\ p \in Slots(r) => HadDigit(r, p) = Speculated(s1, r)[p]
         /\ p \notin Rippled(s1, r, l1) => HadDigit(r, p) = d1[p]
         /\ p \in Rippled(s1, r, l1) =>
              p \in Slots(r) /\ p < l1 /\ HadDigit(r, p) - d1[p] \in {9, -1}
<1>1. Q1Lines \in Nat /\ l1 \in Nat
  BY Number1
<1>2. d1[p] \in Digit
  BY FirstStep
<1>3. ASSUME p \in Rippled(s1, r, l1) PROVE p \in Slots(r) /\ p < l1
  <2>1. r[1] * DPL \in Nat /\ r[2] * DPL \in Nat
    BY <1>1, RangeSlots
  <2>2. p \in r[1] * DPL .. MinOf(r[2] * DPL, l1) - 1
    BY <1>3 DEF Rippled
  <2>3. QED BY <1>1, <2>1, <2>2 DEF MinOf, Slots
<1>4. CASE p \in Rippled(s1, r, l1)
  <2>1. p \in Slots(r) /\ p < l1 /\ HadDigit(r, p) = Speculated(s1, r)[p]
    BY <1>3, <1>4 DEF HadDigit
  <2>2. QED BY <1>4, <2>1, ScratchIs
<1>5. CASE p \notin Rippled(s1, r, l1)
  <2>1. HadDigit(r, p) = d1[p]
    BY <1>5 DEF HadDigit
  <2>2. QED BY <1>2, <1>5, <2>1, ScratchIs
<1>6. QED BY <1>4, <1>5

LEMMA ConsumedAre ==
  ASSUME Truth, NEW fwd, NEW rev, IsRange(fwd, Q1Lines), IsRange(rev, Q1Lines)
  PROVE  LET c == ConsumedSums(d1, l1, RippleOf(s1, fwd, l1), RippleOf(s1, rev, l1))
         IN  /\ DOMAIN c = 0 .. Q1Lines * DPL - 1
             /\ \A d \in 0 .. Q1Lines * DPL - 1 :
                  /\ c[d] = HadDigit(fwd, d) + IF d < l1 THEN HadDigit(rev, l1 - 1 - d) ELSE 0
                  /\ c[d] \in 0 .. 18
<1> DEFINE wf == RippleOf(s1, fwd, l1)
           wb == RippleOf(s1, rev, l1)
<1>1. DOMAIN d1 = 0 .. Q1Lines * DPL - 1 /\ AreDigits(d1, l1, Q1Lines)
  BY FirstDigits, FirstStep
<1>2. WrongDigits(wf) /\ WrongDigits(wb)
  BY FirstIsStep, GuessHolds
<1>3. \A p : HadDigit(fwd, p) = Taken(d1, wf, p) /\ HadDigit(rev, p) = Taken(d1, wb, p)
  BY DEF HadDigit, Taken, RippleOf
<1>4. DOMAIN ConsumedSums(d1, l1, wf, wb) = DOMAIN d1
  BY DEF ConsumedSums
<1> HIDE DEF wf, wb
<1>5. QED BY <1>1, <1>2, <1>3, <1>4, ConsumedIs, SMTT(60) DEF wf, wb

(* Without wrong digits these are the second step's. *)
LEMMA NothingWrong ==
  ASSUME Truth, NEW fwd, NEW rev, IsRange(fwd, Q1Lines), IsRange(rev, Q1Lines),
         Rippled(s1, fwd, l1) = {}, Rippled(s1, rev, l1) = {},
         NEW d \in 0 .. Q1Lines * DPL - 1
  PROVE  ConsumedSums(d1, l1, RippleOf(s1, fwd, l1), RippleOf(s1, rev, l1))[d] = s2[d]
<1> DEFINE c == ConsumedSums(d1, l1, RippleOf(s1, fwd, l1), RippleOf(s1, rev, l1))
           N == Q1Lines * DPL
<1>1. /\ l1 \in Nat \ {0} /\ l1 <= N /\ N \in Nat
      /\ DOMAIN s1 = 0 .. N - 1
      /\ \A p \in DOMAIN s1 : d1[p] = IF p < l1 THEN Middle[p] ELSE 0
  BY Number1, FirstStep
<1>2. c[d] = HadDigit(fwd, d) + IF d < l1 THEN HadDigit(rev, l1 - 1 - d) ELSE 0
  BY ConsumedAre
<1>3. \A p : HadDigit(fwd, p) = d1[p] /\ HadDigit(rev, p) = d1[p]
  BY DEF HadDigit
<1>4. CASE d < l1
  <2>1. d \in 0 .. l1 - 1
    BY <1>1, <1>4
  <2>2. s2[d] = d1[d] + d1[l1 - 1 - d]
    BY <2>1, SecondStep
  <2>3. QED BY <1>2, <1>3, <1>4, <2>2
<1>5. CASE ~(d < l1)
  <2>1. d1[d] = 0
    BY <1>1, <1>5
  <2>2. s2[d] = 0
    <3>1. d >= l1
      BY <1>1, <1>5, SMTT(60)
    <3>2. QED BY <3>1, SecondStep
  <2>3. QED BY <1>2, <1>3, <1>5, <2>1, <2>2
<1>6. QED BY <1>4, <1>5

(* A chunk out is the second step's result on the sums it consumed, from   *)
(* its first line on and with that carry-in.                               *)
LEMMA OutputIs ==
  ASSUME Truth, NEW out, NEW fwd, NEW rev, NEW carryIn \in BOOLEAN,
         IsRange(out, Q1Lines), IsRange(fwd, Q1Lines), IsRange(rev, Q1Lines),
         out[1] <= out[2], InScratch(out, fwd, rev, l1 \div DPL, Q1Lines)
  PROVE  LET o == Output(out, Speculated(s1, fwd), Speculated(s1, rev), l1, carryIn)
             c == ConsumedSums(d1, l1, RippleOf(s1, fwd, l1), RippleOf(s1, rev, l1))
             lo == out[1] * DPL
             end == out[2] * DPL
         IN  /\ DOMAIN o.digit = Slots(out)
             /\ \A d \in Slots(out) :
                  o.digit[d] = Resolved(c[d], CarryInto(c, lo, d, carryIn))
             /\ o.carry \in BOOLEAN /\ o.carried \in BOOLEAN /\ o.equal \in BOOLEAN
             /\ o.carry <=> CarryInto(c, lo, end, carryIn)
             /\ o.carried <=> ~IsEmpty(out) /\ (carryIn \/ \E d \in Slots(out) : c[d] > 9)
             /\ o.equal <=> \A d \in Slots(out) :
                  HadDigit(fwd, d) = IF d < l1 THEN HadDigit(rev, l1 - 1 - d) ELSE 0
<1> DEFINE f == Speculated(s1, fwd)
           b == Speculated(s1, rev)
           wf == RippleOf(s1, fwd, l1)
           wb == RippleOf(s1, rev, l1)
<1>1. IsStep(s1, d1, l1, Q1Lines)
  BY FirstIsStep
<1>2. AreDigits(d1, l1, Q1Lines)
  BY FirstDigits
<1>3. /\ WrongDigits(wf) /\ WrongDigits(wb)
      /\ HoldsDigits(f, fwd, d1, wf) /\ HoldsDigits(b, rev, d1, wb)
  BY <1>1, GuessHolds
<1>4. \A p : HadDigit(fwd, p) = Taken(d1, wf, p) /\ HadDigit(rev, p) = Taken(d1, wb, p)
  BY DEF HadDigit, Taken, RippleOf
<1>5. InScratch(out, fwd, rev, l1 \div DPL, DivCeil(l1, DPL))
  BY DEF Q1Lines
<1> HIDE DEF f, b, wf, wb
<1> DEFINE o == Output(out, f, b, l1, carryIn)
           c == ConsumedSums(d1, l1, wf, wb)
           lo == out[1] * DPL
           end == out[2] * DPL
<1>6. /\ Consumes(o, out, c, carryIn)
      /\ o.equal <=> EqualIn(out, d1, l1, wf, wb)
  BY <1>2, <1>3, <1>5, OutputOf, SMTT(60)
<1> HIDE DEF o, c, lo, end
<1>7. QED BY <1>4, <1>6 DEF Consumes, EqualIn, o, c, lo, end, f, b, wf, wb

-----------------------------------------------------------------------------
(* The threads on their walks *)

WalkType ==
  [n : Nat, at : {"A", "B", "end"}, carry : BOOLEAN, carried1 : BOOLEAN,
   carried2 : BOOLEAN, equal : BOOLEAN]

(* A thread has been through the rounds before its own, has the digits of  *)
(* its own in its buffers while it computes the outputs, and has been      *)
(* through all of them when it ends.                                       *)
OnRounds(t) ==
  LET w == walk[t]
  IN  /\ \A k \in 0 .. w.n - 1 : k \in DOMAIN rounds[t]
      /\ w.at = "B" => /\ w.n \in DOMAIN rounds[t]
                       /\ scratch[t] = [lo |-> Speculated(s1, Round(t, w.n).rLo),
                                        hi |-> Speculated(s1, Round(t, w.n).rHi)]
      /\ w.at = "end" => w.n \notin DOMAIN rounds[t]

PassInv ==
  /\ Truth
  /\ pc \in {"pass", "repair", "resolve", "done"}
  /\ walk \in [Thread -> WalkType]
  /\ flags \in [carried1 : BOOLEAN, pal1 : BOOLEAN, everCarried : BOOLEAN]
  /\ DOMAIN scratch = Thread
  /\ \A t \in Thread : OnRounds(t)

(* What the three actions of a thread do to its place on the walk. *)
LEMMA EffectA ==
  ASSUME PassInv, NEW t \in Thread, PhaseA(t)
  PROVE  LET w == walk[t]
             v == walk'[t]
             r == Round(t, w.n)
         IN  /\ walk' \in [Thread -> WalkType] /\ DOMAIN scratch' = Thread
             /\ w.at = "A" /\ w.n \in DOMAIN rounds[t] /\ v.n = w.n /\ v.at = "B"
             /\ v.carry = w.carry /\ v.carried2 = w.carried2 /\ v.equal = w.equal
             /\ v.carried1 <=> \/ w.carried1 \/ SpeculatedCarried(s1, r.rLo)
                               \/ SpeculatedCarried(s1, r.rHi)
             /\ scratch'[t] = [lo |-> Speculated(s1, r.rLo), hi |-> Speculated(s1, r.rHi)]
             /\ \A u \in Thread : u # t => walk'[u] = walk[u] /\ scratch'[u] = scratch[u]
<1> DEFINE w == walk[t]
           r == Round(t, w.n)
           c == w.carried1 \/ SpeculatedCarried(s1, r.rLo) \/ SpeculatedCarried(s1, r.rHi)
           a == Speculated(s1, r.rLo)
           b == Speculated(s1, r.rHi)
<1>1. walk \in [Thread -> WalkType] /\ DOMAIN scratch = Thread
  BY DEF PassInv
<1>2. /\ w.at = "A" /\ w.n \in DOMAIN rounds[t]
      /\ walk' = [walk EXCEPT ![t] = [w EXCEPT !.at = "B", !.carried1 = c]]
      /\ scratch' = [scratch EXCEPT ![t] = [lo |-> a, hi |-> b]]
  BY DEF PhaseA
<1>3. c \in BOOLEAN
  OBVIOUS
<1>4. w \in WalkType
  BY <1>1
<1> DEFINE v == [w EXCEPT !.at = "B", !.carried1 = c]
<1> HIDE DEF c, a, b, r
<1>5. /\ v \in WalkType /\ v.n = w.n /\ v.at = "B" /\ v.carry = w.carry
      /\ v.carried2 = w.carried2 /\ v.equal = w.equal /\ v.carried1 = c
  BY <1>3, <1>4 DEF WalkType
<1> HIDE DEF v, w
<1>6. walk' = [walk EXCEPT ![t] = v]
  BY <1>2 DEF v
<1>7. /\ walk' \in [Thread -> WalkType] /\ walk'[t] = v
      /\ \A u \in Thread : u # t => walk'[u] = walk[u]
  BY <1>1, <1>5, <1>6
<1>8. /\ DOMAIN scratch' = Thread /\ scratch'[t] = [lo |-> a, hi |-> b]
      /\ \A u \in Thread : u # t => scratch'[u] = scratch[u]
  BY <1>1, <1>2
<1>9. QED BY <1>2, <1>5, <1>7, <1>8 DEF w, c, a, b, r

(* The outputs of the round a thread is at. *)
LowOutput(t) ==
  Output(Round(t, walk[t].n).lo, scratch[t].lo, scratch[t].hi, l1, walk[t].carry)
HighOutput(t) ==
  Output(Round(t, walk[t].n).hi, scratch[t].hi, scratch[t].lo, l1, FALSE)

(* They are what the round's consumed sums resolve to. *)
LEMMA LowOutputIs ==
  ASSUME PassInv, NEW t \in Thread, walk[t].at = "B"
  PROVE  LET k == walk[t].n
             r == Round(t, k)
             o == LowOutput(t)
             c == LowSums(t, k)
             lo == r.lo[1] * DPL
         IN  /\ DOMAIN o.digit = Slots(r.lo)
             /\ \A d \in Slots(r.lo) :
                  o.digit[d] = Resolved(c[d], CarryInto(c, lo, d, walk[t].carry))
             /\ o.carry \in BOOLEAN /\ o.carried \in BOOLEAN /\ o.equal \in BOOLEAN
             /\ o.carry <=> CarryInto(c, lo, r.lo[2] * DPL, walk[t].carry)
             /\ o.carried <=> ~IsEmpty(r.lo) /\ (walk[t].carry \/ \E d \in Slots(r.lo) : c[d] > 9)
             /\ o.equal <=> \A d \in Slots(r.lo) :
                  HadDigit(r.rLo, d) = IF d < l1 THEN HadDigit(r.rHi, l1 - 1 - d) ELSE 0
<1> DEFINE k == walk[t].n
           r == Round(t, k)
<1>1. /\ Truth /\ k \in DOMAIN rounds[t] /\ walk[t].carry \in BOOLEAN
      /\ scratch[t] = [lo |-> Speculated(s1, r.rLo), hi |-> Speculated(s1, r.rHi)]
  BY DEF PassInv, OnRounds, WalkType
<1>2. scratch[t].lo = Speculated(s1, r.rLo) /\ scratch[t].hi = Speculated(s1, r.rHi)
  BY <1>1
<1>3. /\ r.lo[1] <= r.lo[2] /\ IsRange(r.lo, Q1Lines)
      /\ IsRange(r.rLo, Q1Lines) /\ IsRange(r.rHi, Q1Lines)
      /\ InScratch(r.lo, r.rLo, r.rHi, l1 \div DPL, Q1Lines)
  BY <1>1, RoundReads
<1> HIDE DEF k, r
<1>4. LowOutput(t)
        = Output(r.lo, Speculated(s1, r.rLo), Speculated(s1, r.rHi), l1, walk[t].carry)
  BY <1>2 DEF LowOutput, k, r
<1>5. LowSums(t, k) = ConsumedSums(d1, l1, RippleOf(s1, r.rLo, l1), RippleOf(s1, r.rHi, l1))
  BY SMTT(60) DEF LowSums, RippleLo, RippleHi, r
<1> DEFINE f == Speculated(s1, r.rLo)
           b == Speculated(s1, r.rHi)
           o == Output(r.lo, f, b, l1, walk[t].carry)
           c == ConsumedSums(d1, l1, RippleOf(s1, r.rLo, l1), RippleOf(s1, r.rHi, l1))
           lo == r.lo[1] * DPL
<1>6. /\ DOMAIN o.digit = Slots(r.lo)
      /\ \A d \in Slots(r.lo) :
           o.digit[d] = Resolved(c[d], CarryInto(c, lo, d, walk[t].carry))
      /\ o.carry \in BOOLEAN /\ o.carried \in BOOLEAN /\ o.equal \in BOOLEAN
      /\ o.carry <=> CarryInto(c, lo, r.lo[2] * DPL, walk[t].carry)
      /\ o.carried <=> ~IsEmpty(r.lo) /\ (walk[t].carry \/ \E d \in Slots(r.lo) : c[d] > 9)
      /\ o.equal <=> \A d \in Slots(r.lo) :
           HadDigit(r.rLo, d) = IF d < l1 THEN HadDigit(r.rHi, l1 - 1 - d) ELSE 0
  BY <1>1, <1>3, OutputIs
<1> HIDE DEF o, c, lo
<1>7. QED BY <1>4, <1>5, <1>6, ZenonT(60) DEF o, c, lo, k, r

LEMMA HighOutputIs ==
  ASSUME PassInv, NEW t \in Thread, walk[t].at = "B"
  PROVE  LET k == walk[t].n
             r == Round(t, k)
             o == HighOutput(t)
             c == HighSums(t, k)
             lo == r.hi[1] * DPL
         IN  /\ DOMAIN o.digit = Slots(r.hi)
             /\ \A d \in Slots(r.hi) :
                  o.digit[d] = Resolved(c[d], CarryInto(c, lo, d, FALSE))
             /\ o.carry \in BOOLEAN /\ o.carried \in BOOLEAN /\ o.equal \in BOOLEAN
             /\ o.carry <=> CarryInto(c, lo, r.hi[2] * DPL, FALSE)
             /\ o.carried <=> ~IsEmpty(r.hi) /\ \E d \in Slots(r.hi) : c[d] > 9
             /\ o.equal <=> \A d \in Slots(r.hi) :
                  HadDigit(r.rHi, d) = IF d < l1 THEN HadDigit(r.rLo, l1 - 1 - d) ELSE 0
<1> DEFINE k == walk[t].n
           r == Round(t, k)
<1>1. /\ Truth /\ k \in DOMAIN rounds[t]
      /\ scratch[t] = [lo |-> Speculated(s1, r.rLo), hi |-> Speculated(s1, r.rHi)]
  BY DEF PassInv, OnRounds, WalkType
<1>2. scratch[t].lo = Speculated(s1, r.rLo) /\ scratch[t].hi = Speculated(s1, r.rHi)
  BY <1>1
<1>3. /\ r.hi[1] <= r.hi[2] /\ IsRange(r.hi, Q1Lines)
      /\ IsRange(r.rLo, Q1Lines) /\ IsRange(r.rHi, Q1Lines)
      /\ InScratch(r.hi, r.rHi, r.rLo, l1 \div DPL, Q1Lines)
  BY <1>1, RoundReads
<1> HIDE DEF k, r
<1>4. HighOutput(t)
        = Output(r.hi, Speculated(s1, r.rHi), Speculated(s1, r.rLo), l1, FALSE)
  BY <1>2 DEF HighOutput, k, r
<1>5. HighSums(t, k) = ConsumedSums(d1, l1, RippleOf(s1, r.rHi, l1), RippleOf(s1, r.rLo, l1))
  BY SMTT(60) DEF HighSums, RippleLo, RippleHi, r
<1> DEFINE f == Speculated(s1, r.rLo)
           b == Speculated(s1, r.rHi)
           o == Output(r.hi, b, f, l1, FALSE)
           c == ConsumedSums(d1, l1, RippleOf(s1, r.rHi, l1), RippleOf(s1, r.rLo, l1))
           lo == r.hi[1] * DPL
<1>6. /\ DOMAIN o.digit = Slots(r.hi)
      /\ \A d \in Slots(r.hi) :
           o.digit[d] = Resolved(c[d], CarryInto(c, lo, d, FALSE))
      /\ o.carry \in BOOLEAN /\ o.carried \in BOOLEAN /\ o.equal \in BOOLEAN
      /\ o.carry <=> CarryInto(c, lo, r.hi[2] * DPL, FALSE)
      /\ o.carried <=> ~IsEmpty(r.hi) /\ (FALSE \/ \E d \in Slots(r.hi) : c[d] > 9)
      /\ o.equal <=> \A d \in Slots(r.hi) :
           HadDigit(r.rHi, d) = IF d < l1 THEN HadDigit(r.rLo, l1 - 1 - d) ELSE 0
  BY <1>1, <1>3, OutputIs
<1> HIDE DEF o, c, lo
<1>7. QED BY <1>4, <1>5, <1>6, ZenonT(60) DEF o, c, lo, k, r

LEMMA EffectB ==
  ASSUME PassInv, NEW t \in Thread, PhaseB(t)
  PROVE  LET w == walk[t]
             v == walk'[t]
             lo == LowOutput(t)
             hi == HighOutput(t)
         IN  /\ walk' \in [Thread -> WalkType]
             /\ w.at = "B" /\ w.n \in DOMAIN rounds[t] /\ w.n \in Nat
             /\ v.n = w.n + 1 /\ v.at = "A"
             /\ v.carry = lo.carry /\ v.carried1 = w.carried1
             /\ v.carried2 <=> w.carried2 \/ lo.carried \/ hi.carried
             /\ v.equal <=> w.equal /\ lo.equal /\ hi.equal
             /\ \A u \in Thread : u # t => walk'[u] = walk[u]
             /\ dst' = Overlay(Overlay(dst, lo.digit), hi.digit)
             /\ chunkCarry' = IF IsEmpty(Round(t, w.n).hi) THEN chunkCarry
                              ELSE [chunkCarry EXCEPT ![ChunkSlot(t, w.n)] = hi.carry]
             /\ UNCHANGED <<scratch, blockCarry, flags>>
<1> DEFINE w == walk[t]
           lo == LowOutput(t)
           hi == HighOutput(t)
           c2 == w.carried2 \/ lo.carried \/ hi.carried
           eq == w.equal /\ lo.equal /\ hi.equal
           n1 == w.n + 1
           c == lo.carry
           v == [w EXCEPT !.n = n1, !.at = "A", !.carry = c, !.carried2 = c2, !.equal = eq]
<1>1. walk \in [Thread -> WalkType] /\ w \in WalkType
  BY DEF PassInv
<1>2. /\ w.at = "B" /\ walk' = [walk EXCEPT ![t] = v]
      /\ dst' = Overlay(Overlay(dst, lo.digit), hi.digit)
      /\ chunkCarry' = IF IsEmpty(Round(t, w.n).hi) THEN chunkCarry
                       ELSE [chunkCarry EXCEPT ![ChunkSlot(t, w.n)] = hi.carry]
      /\ UNCHANGED <<scratch, blockCarry, flags>>
  BY ZenonT(60) DEF PhaseB, LowOutput, HighOutput
<1>3. w.n \in DOMAIN rounds[t]
  BY <1>2 DEF PassInv, OnRounds
<1>4. lo.carry \in BOOLEAN
  BY <1>2, LowOutputIs
<1>5. c2 \in BOOLEAN /\ eq \in BOOLEAN
  OBVIOUS
<1> HIDE DEF c2, eq, lo, hi, w
<1>6. w.n \in Nat /\ n1 \in Nat
  BY <1>1 DEF WalkType
<1> HIDE DEF n1, c
<1>7. /\ v \in WalkType /\ v.n = n1 /\ v.at = "A" /\ v.carry = c
      /\ v.carried1 = w.carried1 /\ v.carried2 = c2 /\ v.equal = eq
  <2>1. c \in BOOLEAN
    BY <1>4 DEF c
  <2>2. QED BY <1>1, <1>5, <1>6, <2>1, ZenonT(60) DEF WalkType
<1> HIDE DEF v
<1>8. /\ walk' \in [Thread -> WalkType] /\ walk'[t] = v
      /\ \A u \in Thread : u # t => walk'[u] = walk[u]
  BY <1>1, <1>2, <1>7
<1>9. QED BY <1>2, <1>3, <1>6, <1>7, <1>8 DEF w, lo, hi, c2, eq, n1, c

LEMMA EffectEnd ==
  ASSUME PassInv, NEW t \in Thread, PassEnd(t)
  PROVE  LET w == walk[t]
             v == walk'[t]
         IN  /\ walk' \in [Thread -> WalkType]
             /\ w.at = "A" /\ w.n \notin DOMAIN rounds[t]
             /\ v.n = w.n /\ v.at = "end" /\ v.carry = w.carry
             /\ v.carried1 = w.carried1 /\ v.carried2 = w.carried2 /\ v.equal = w.equal
             /\ \A u \in Thread : u # t => walk'[u] = walk[u]
             /\ flags' \in [carried1 : BOOLEAN, pal1 : BOOLEAN, everCarried : BOOLEAN]
             /\ flags'.carried1 <=> flags.carried1 \/ w.carried1
             /\ flags'.pal1 <=> flags.pal1 /\ w.equal
             /\ flags'.everCarried <=> flags.everCarried \/ w.carried2
             /\ blockCarry' = [blockCarry EXCEPT ![t] = w.carry]
             /\ UNCHANGED <<scratch, dst, chunkCarry>>
<1> DEFINE w == walk[t]
           v == [w EXCEPT !.at = "end"]
<1>1. walk \in [Thread -> WalkType] /\ w \in WalkType
  BY DEF PassInv
<1>2. /\ w.at = "A" /\ walk' = [walk EXCEPT ![t] = v]
      /\ w.n \notin DOMAIN rounds[t]
      /\ flags' = [carried1    |-> flags.carried1 \/ w.carried1,
                   pal1        |-> flags.pal1 /\ w.equal,
                   everCarried |-> flags.everCarried \/ w.carried2]
      /\ blockCarry' = [blockCarry EXCEPT ![t] = w.carry]
      /\ UNCHANGED <<scratch, dst, chunkCarry>>
  BY DEF PassEnd
<1> HIDE DEF w
<1>3. /\ v \in WalkType /\ v.n = w.n /\ v.at = "end" /\ v.carry = w.carry
      /\ v.carried1 = w.carried1 /\ v.carried2 = w.carried2 /\ v.equal = w.equal
  BY <1>1 DEF WalkType
<1>4. /\ flags' \in [carried1 : BOOLEAN, pal1 : BOOLEAN, everCarried : BOOLEAN]
      /\ flags'.carried1 <=> flags.carried1 \/ w.carried1
      /\ flags'.pal1 <=> flags.pal1 /\ w.equal
      /\ flags'.everCarried <=> flags.everCarried \/ w.carried2
  BY <1>2
<1> HIDE DEF v
<1>5. /\ walk' \in [Thread -> WalkType] /\ walk'[t] = v
      /\ \A u \in Thread : u # t => walk'[u] = walk[u]
  BY <1>1, <1>2, <1>3
<1>6. QED BY <1>2, <1>3, <1>4, <1>5 DEF w

LEMMA PassInit == Init => PassInv
<1> SUFFICES ASSUME Init PROVE PassInv
  OBVIOUS
<1>1. Truth
  BY TruthInit
<1> DEFINE v == [n |-> 0, at |-> "A", carry |-> FALSE, carried1 |-> FALSE,
                 carried2 |-> FALSE, equal |-> TRUE]
<1>2. /\ walk = [t \in Thread |-> v] /\ DOMAIN scratch = Thread /\ pc = "pass"
      /\ flags = [carried1 |-> FALSE, pal1 |-> TRUE, everCarried |-> FALSE]
  BY DEF Init
<1>3. v \in WalkType /\ v.n = 0 /\ v.at = "A"
  BY DEF WalkType
<1> HIDE DEF v
<1>4. walk \in [Thread -> WalkType] /\ \A t \in Thread : walk[t] = v
  BY <1>2, <1>3
<1>5. \A t \in Thread : OnRounds(t)
  BY <1>3, <1>4 DEF OnRounds
<1>6. QED BY <1>1, <1>2, <1>4, <1>5 DEF PassInv

(* What the coordinator does after the pass leaves the walks alone. *)
LEMMA AfterPass ==
  ASSUME \/ StartRepair \/ EndRepair \/ Return \/ Done \/ UNCHANGED vars
         \/ \E x \in repairs : RepairLine(x)
         \/ pc = "resolve" /\ \E g \in Ranges : ResolveRange(g)
  PROVE  UNCHANGED <<walk, scratch>>
<1>1. ASSUME NEW x, RepairLine(x) PROVE UNCHANGED <<walk, scratch>>
  BY <1>1 DEF RepairLine
<1>2. ASSUME NEW g, ResolveRange(g) PROVE UNCHANGED <<walk, scratch>>
  BY <1>2 DEF ResolveRange
<1>3. StartRepair \/ EndRepair \/ Return \/ Done \/ UNCHANGED vars
        => UNCHANGED <<walk, scratch>>
  BY SMTT(60) DEF StartRepair, EndRepair, Return, Done, vars
<1>4. QED BY <1>1, <1>2, <1>3

(* A thread the step did not touch. *)
LEMMA OnRoundsKept ==
  ASSUME NEW t, OnRounds(t), UNCHANGED truth, walk'[t] = walk[t], scratch'[t] = scratch[t]
  PROVE  OnRounds(t)'
BY DEF OnRounds, Round, truth

LEMMA PassStep == PassInv /\ [Next]_vars => PassInv'
<1> SUFFICES ASSUME PassInv, [Next]_vars PROVE PassInv'
  OBVIOUS
<1>1. UNCHANGED truth
  BY TruthConstant
<1>2. Truth'
  BY <1>1, TruthKept DEF PassInv
<1>3. /\ walk \in [Thread -> WalkType] /\ DOMAIN scratch = Thread
      /\ \A t \in Thread : OnRounds(t) /\ walk[t] \in WalkType
      /\ flags \in [carried1 : BOOLEAN, pal1 : BOOLEAN, everCarried : BOOLEAN]
  BY DEF PassInv
<1>4. ASSUME NEW t \in Thread, PhaseA(t) PROVE PassInv'
  <2>1. /\ walk' \in [Thread -> WalkType] /\ DOMAIN scratch' = Thread
        /\ walk[t].n \in DOMAIN rounds[t] /\ walk'[t].n = walk[t].n /\ walk'[t].at = "B"
        /\ scratch'[t] = [lo |-> Speculated(s1, Round(t, walk[t].n).rLo),
                          hi |-> Speculated(s1, Round(t, walk[t].n).rHi)]
        /\ \A u \in Thread : u # t => walk'[u] = walk[u] /\ scratch'[u] = scratch[u]
    BY <1>4, EffectA
  <2>2. UNCHANGED <<flags, pc>>
    BY <1>4, SMTT(60) DEF PhaseA
  <2>3. OnRounds(t)'
    <3>1. UNCHANGED <<rounds, s1>>
      BY <1>1 DEF truth
    <3>2. \A k \in 0 .. walk[t].n - 1 : k \in DOMAIN rounds[t]
      BY <1>3 DEF OnRounds
    <3>3. QED BY <2>1, <3>1, <3>2 DEF OnRounds, Round
  <2>4. \A u \in Thread : OnRounds(u)'
    BY <1>1, <1>3, <2>1, <2>3, OnRoundsKept
  <2>5. QED BY <1>2, <2>1, <2>2, <2>4 DEF PassInv
<1>5. ASSUME NEW t \in Thread, PhaseB(t) PROVE PassInv'
  <2>1. /\ walk' \in [Thread -> WalkType]
        /\ walk[t].n \in DOMAIN rounds[t] /\ walk[t].n \in Nat
        /\ walk'[t].n = walk[t].n + 1 /\ walk'[t].at = "A"
        /\ \A u \in Thread : u # t => walk'[u] = walk[u]
        /\ UNCHANGED <<scratch, flags>>
    BY <1>5, EffectB
  <2>2. UNCHANGED pc
    BY <1>5, Zenon DEF PhaseB
  <2>3. OnRounds(t)'
    <3>1. UNCHANGED rounds
      BY <1>1 DEF truth
    <3>2. \A k \in 0 .. walk[t].n - 1 : k \in DOMAIN rounds[t]
      BY <1>3 DEF OnRounds
    <3>3. \A k \in 0 .. walk'[t].n - 1 : k \in 0 .. walk[t].n - 1 \/ k = walk[t].n
      BY <2>1
    <3>4. QED BY <2>1, <3>1, <3>2, <3>3 DEF OnRounds
  <2>4. \A u \in Thread : OnRounds(u)'
    BY <1>1, <1>3, <2>1, <2>3, OnRoundsKept
  <2>5. QED BY <1>2, <1>3, <2>1, <2>2, <2>4 DEF PassInv
<1>6. ASSUME NEW t \in Thread, PassEnd(t) PROVE PassInv'
  <2>1. /\ walk' \in [Thread -> WalkType]
        /\ walk[t].n \notin DOMAIN rounds[t]
        /\ walk'[t].n = walk[t].n /\ walk'[t].at = "end"
        /\ \A u \in Thread : u # t => walk'[u] = walk[u]
        /\ flags' \in [carried1 : BOOLEAN, pal1 : BOOLEAN, everCarried : BOOLEAN]
        /\ UNCHANGED scratch
    BY <1>6, EffectEnd
  <2>2. UNCHANGED pc
    BY <1>6 DEF PassEnd
  <2>3. OnRounds(t)'
    <3>1. UNCHANGED rounds
      BY <1>1 DEF truth
    <3>2. \A k \in 0 .. walk[t].n - 1 : k \in DOMAIN rounds[t]
      BY <1>3 DEF OnRounds
    <3>3. QED BY <2>1, <3>1, <3>2 DEF OnRounds
  <2>4. \A u \in Thread : OnRounds(u)'
    BY <1>1, <1>3, <2>1, <2>3, OnRoundsKept
  <2>5. QED BY <1>2, <1>3, <2>1, <2>2, <2>4 DEF PassInv
<1>7. ASSUME \/ StartRepair \/ EndRepair \/ Return \/ Done \/ UNCHANGED vars
             \/ \E x \in repairs : RepairLine(x)
             \/ pc = "resolve" /\ \E g \in Ranges : ResolveRange(g)
      PROVE  PassInv'
  <2>1. UNCHANGED <<walk, scratch>>
    BY <1>7, AfterPass
  <2>2. \A t \in Thread : OnRounds(t)'
    BY <1>1, <1>3, <2>1, OnRoundsKept
  <2>3. /\ flags' \in [carried1 : BOOLEAN, pal1 : BOOLEAN, everCarried : BOOLEAN]
        /\ pc' \in {"pass", "repair", "resolve", "done"}
    <3>1. CASE StartRepair
      <4> DEFINE c == SecondCarried(AnyRipple)
      <4>1. flags' = [flags EXCEPT !.everCarried = c] /\ pc' = "repair"
        BY <3>1 DEF StartRepair
      <4>2. c \in BOOLEAN
        BY <1>3 DEF SecondCarried, Generates
      <4> HIDE DEF c
      <4>3. QED BY <1>3, <4>1, <4>2
    <3>2. CASE EndRepair \/ Return \/ Done \/ UNCHANGED vars
      BY <1>3, <3>2 DEF EndRepair, Return, Done, vars, PassInv
    <3>3. CASE \E x \in repairs : RepairLine(x)
      <4>1. UNCHANGED <<flags, pc>>
        BY <3>3 DEF RepairLine
      <4>2. QED BY <1>3, <4>1 DEF PassInv
    <3>4. CASE \E g \in Ranges : ResolveRange(g)
      <4>1. UNCHANGED <<flags, pc>>
        BY <3>4 DEF ResolveRange
      <4>2. QED BY <1>3, <4>1 DEF PassInv
    <3>5. QED BY <1>7, <3>1, <3>2, <3>3, <3>4
  <2>4. QED BY <1>2, <1>3, <2>1, <2>2, <2>3 DEF PassInv
<1>8. QED BY <1>4, <1>5, <1>6, <1>7 DEF Next

-----------------------------------------------------------------------------
(* The flags *)

(* A guessed interval carries when one of its sums does. *)
LEMMA GuessCarries ==
  ASSUME Truth, NEW r, IsRange(r, Q1Lines)
  PROVE  SpeculatedCarried(s1, r) <=> \E d \in Slots(r) : s1[d] > 9
<1>1. Q1Lines \in Nat /\ \A d \in 0 .. Q1Lines * DPL - 1 : s1[d] \in 0 .. 18
  BY Number1, FirstStep
<1>2. QED BY <1>1, GuessCarriesIs

(* A first step without a carry leaves a palindrome of the same length,    *)
(* and no digit the pass could guess wrongly.                              *)
LEMMA NoCarry ==
  ASSUME Truth, ~AnyCarried(source, l)
  PROVE  /\ l1 = l /\ IsPalindrome(Middle, l1)
         /\ \A d \in 0 .. l1 - 1 : d1[l1 - 1 - d] = d1[d]
         /\ \A d \in 0 .. Q1Lines * DPL - 1 : ~(d < l1) => d1[d] = 0
         /\ \A r : IsRange(r, Q1Lines) => Rippled(s1, r, l1) = {}
<1>1. /\ l \in Nat \ {0} /\ source \in Number(l) /\ l1 \in Nat \ {0} /\ l1 <= Q1Lines * DPL
      /\ Q1Lines \in Nat /\ Q1Lines * DPL \in Nat
  BY Number1
<1>2. /\ l1 = l + Bit(PrescanGrow(source, l))
      /\ s1 = SumsOf(source, l, Q1Lines) /\ d1 = DigitsOf(s1)
  BY DEF Truth
<1> HIDE DEF l, Q1Lines
<1>3. /\ l1 = l /\ IsPalindrome(Middle, l1)
      /\ \A d \in 0 .. Q1Lines * DPL - 1 : d1[d] = IF d < l1 THEN d1[l1 - 1 - d] ELSE 0
      /\ \A r : IsRange(r, Q1Lines) => Rippled(s1, r, l1) = {}
  BY <1>1, <1>2, NoCarryIs DEF Middle
<1>4. \A d \in 0 .. l1 - 1 : d \in 0 .. Q1Lines * DPL - 1 /\ d < l1
  <2> DEFINE N == Q1Lines * DPL
  <2> HIDE DEF N
  <2>1. N \in Nat /\ l1 <= N
    BY <1>1 DEF N
  <2>2. QED BY <1>1, <2>1 DEF N
<1>5. QED BY <1>3, <1>4

(* Its digits then equal their mirror images wherever the pass looks.      *)
LEMMA NoCarryEqual ==
  ASSUME Truth, ~AnyCarried(source, l),
         NEW fwd, NEW rev, IsRange(fwd, Q1Lines), IsRange(rev, Q1Lines),
         NEW d \in 0 .. Q1Lines * DPL - 1
  PROVE  HadDigit(fwd, d) = IF d < l1 THEN HadDigit(rev, l1 - 1 - d) ELSE 0
<1>1. Rippled(s1, fwd, l1) = {} /\ Rippled(s1, rev, l1) = {}
  BY NoCarry
<1>2. HadDigit(fwd, d) = d1[d] /\ HadDigit(rev, l1 - 1 - d) = d1[l1 - 1 - d]
  BY <1>1 DEF HadDigit
<1>3. CASE d < l1
  <2>1. d \in 0 .. l1 - 1
    BY <1>3, Number1
  <2>2. d1[l1 - 1 - d] = d1[d]
    BY <2>1, NoCarry
  <2>3. QED BY <1>2, <1>3, <2>2
<1>4. CASE ~(d < l1)
  BY <1>2, <1>4, NoCarry, SMTT(60)
<1>5. QED BY <1>3, <1>4

(* Whether one of the first m rounds of a thread read a sum of the first   *)
(* step that carries, and computed one of the second.                      *)
ReadCarry(t, m) ==
  \E k \in 0 .. m - 1 : \E d \in Slots(Round(t, k).rLo) \union Slots(Round(t, k).rHi) :
    s1[d] > 9
MadeCarry(t, m) ==
  \E k \in 0 .. m - 1 : \E d \in Slots(Round(t, k).lo) \union Slots(Round(t, k).hi) :
    s2[d] > 9

(* The flags a thread collects.                                            *)
ThreadFlags(t) ==
  LET w == walk[t]
  IN  /\ w.carried1 <=> ReadCarry(t, IF w.at = "B" THEN w.n + 1 ELSE w.n)
      /\ w.carry => w.carried2
      /\ ~AnyRipple => (w.carried2 <=> MadeCarry(t, w.n))
      /\ ~AnyCarried(source, l) => w.equal

(* What they make of the step's, and what the coordinator does of these.   *)
FlagInv ==
  /\ PassInv
  /\ \A t \in Thread : ThreadFlags(t)
  /\ pc = "pass" =>
       /\ flags.carried1 <=> \E t \in Thread : walk[t].at = "end" /\ walk[t].carried1
       /\ flags.everCarried <=> \E t \in Thread : walk[t].at = "end" /\ walk[t].carried2
       /\ ~AnyCarried(source, l) => flags.pal1
  /\ pc # "pass" =>
       /\ flags.everCarried <=> AnyCarried(Middle, l1)
       /\ (~flags.carried1 /\ flags.pal1)
            <=> (~AnyCarried(source, l) /\ IsPalindrome(Middle, l1))

LEMMA ThreadFlagsKept ==
  ASSUME NEW t, ThreadFlags(t), UNCHANGED truth, walk'[t] = walk[t]
  PROVE  ThreadFlags(t)'
BY SMTT(60) DEF ThreadFlags, ReadCarry, MadeCarry, AnyRipple, RippleLo, RippleHi, Round, Middle, l,
       truth

LEMMA ReadMore ==
  ASSUME NEW t, NEW m \in Nat
  PROVE  /\ ReadCarry(t, m + 1)
              <=> \/ ReadCarry(t, m)
                  \/ \E d \in Slots(Round(t, m).rLo) : s1[d] > 9
                  \/ \E d \in Slots(Round(t, m).rHi) : s1[d] > 9
         /\ MadeCarry(t, m + 1)
              <=> \/ MadeCarry(t, m)
                  \/ \E d \in Slots(Round(t, m).lo) : s2[d] > 9
                  \/ \E d \in Slots(Round(t, m).hi) : s2[d] > 9
         /\ ~ReadCarry(t, 0) /\ ~MadeCarry(t, 0)
<1> DEFINE A(k) == \E d \in Slots(Round(t, k).rLo) \union Slots(Round(t, k).rHi) : s1[d] > 9
           B(k) == \E d \in Slots(Round(t, k).lo) \union Slots(Round(t, k).hi) : s2[d] > 9
<1>1. ASSUME NEW i \in Nat
      PROVE  /\ ReadCarry(t, i) <=> \E k \in 0 .. i - 1 : A(k)
             /\ MadeCarry(t, i) <=> \E k \in 0 .. i - 1 : B(k)
  BY DEF ReadCarry, MadeCarry
<1>2. /\ A(m) <=> \/ \E d \in Slots(Round(t, m).rLo) : s1[d] > 9
                  \/ \E d \in Slots(Round(t, m).rHi) : s1[d] > 9
      /\ B(m) <=> \/ \E d \in Slots(Round(t, m).lo) : s2[d] > 9
                  \/ \E d \in Slots(Round(t, m).hi) : s2[d] > 9
  OBVIOUS
<1> HIDE DEF A, B
<1>3. ~ReadCarry(t, 0) /\ ~MadeCarry(t, 0)
  BY <1>1
<1>4. ReadCarry(t, m + 1) <=> ReadCarry(t, m) \/ A(m)
  BY <1>1
<1>5. MadeCarry(t, m + 1) <=> MadeCarry(t, m) \/ B(m)
  BY <1>1
<1>6. QED BY <1>2, <1>3, <1>4, <1>5

(* Where nothing was guessed wrong, nothing is wrong in any round. *)
LEMMA NoRipple ==
  ASSUME ~AnyRipple, NEW t \in Thread, NEW k \in DOMAIN rounds[t]
  PROVE  /\ Rippled(s1, Round(t, k).rLo, l1) = {}
         /\ Rippled(s1, Round(t, k).rHi, l1) = {}
<1>1. <<t, k>> \in AllRounds(rounds)
  BY DEF AllRounds
<1>2. DOMAIN RippleLo(t, k) \union DOMAIN RippleHi(t, k) = {}
  BY <1>1 DEF AnyRipple
<1>3. /\ DOMAIN RippleLo(t, k) = Rippled(s1, Round(t, k).rLo, l1)
      /\ DOMAIN RippleHi(t, k) = Rippled(s1, Round(t, k).rHi, l1)
  BY DEF RippleLo, RippleHi, RippleOf
<1>4. QED BY <1>2, <1>3

LEMMA FlagsInit == Init => FlagInv
<1> SUFFICES ASSUME Init PROVE FlagInv
  OBVIOUS
<1>1. PassInv
  BY PassInit
<1>2. /\ walk = [t \in Thread |->
                   [n |-> 0, at |-> "A", carry |-> FALSE, carried1 |-> FALSE,
                    carried2 |-> FALSE, equal |-> TRUE]]
      /\ flags = [carried1 |-> FALSE, pal1 |-> TRUE, everCarried |-> FALSE]
      /\ pc = "pass"
  BY DEF Init
<1>3. \A t \in Thread : ThreadFlags(t)
  BY <1>2, ReadMore DEF ThreadFlags
<1>4. QED BY <1>1, <1>2, <1>3 DEF FlagInv

(* One round: what its outputs do to the thread's flags. *)
LEMMA RoundFlags ==
  ASSUME PassInv, NEW t \in Thread, ThreadFlags(t), walk[t].at = "B"
  PROVE  LET w == walk[t]
             lo == LowOutput(t)
             hi == HighOutput(t)
         IN  /\ lo.carry => w.carried2 \/ lo.carried
             /\ ~AnyRipple => (w.carried2 \/ lo.carried \/ hi.carried
                                 <=> MadeCarry(t, w.n + 1))
             /\ ~AnyCarried(source, l) => lo.equal /\ hi.equal
<1> DEFINE w == walk[t]
           k == w.n
           r == Round(t, k)
           lo == LowOutput(t)
           hi == HighOutput(t)
           cl == LowSums(t, k)
           ch == HighSums(t, k)
<1>1. /\ Truth /\ k \in DOMAIN rounds[t] /\ w.carry \in BOOLEAN /\ k \in Nat
  BY DEF PassInv, OnRounds, WalkType
<1>2. /\ lo.carry <=> CarryInto(cl, r.lo[1] * DPL, r.lo[2] * DPL, w.carry)
      /\ lo.carried <=> ~IsEmpty(r.lo) /\ (w.carry \/ \E d \in Slots(r.lo) : cl[d] > 9)
      /\ lo.equal <=> \A d \in Slots(r.lo) :
           HadDigit(r.rLo, d) = IF d < l1 THEN HadDigit(r.rHi, l1 - 1 - d) ELSE 0
  BY LowOutputIs
<1>3. /\ hi.carried <=> ~IsEmpty(r.hi) /\ \E d \in Slots(r.hi) : ch[d] > 9
      /\ hi.equal <=> \A d \in Slots(r.hi) :
           HadDigit(r.rHi, d) = IF d < l1 THEN HadDigit(r.rLo, l1 - 1 - d) ELSE 0
  BY HighOutputIs
<1>4. /\ r.lo[1] <= r.lo[2] /\ IsRange(r.lo, Q1Lines) /\ IsRange(r.hi, Q1Lines)
      /\ IsRange(r.rLo, Q1Lines) /\ IsRange(r.rHi, Q1Lines)
  BY <1>1, RoundReads
<1>5. Q1Lines \in Nat
  BY <1>1, Number1, SMTT(60)
<1>6. /\ Slots(r.lo) \subseteq 0 .. Q1Lines * DPL - 1 /\ (IsEmpty(r.lo) => Slots(r.lo) = {})
      /\ Slots(r.hi) \subseteq 0 .. Q1Lines * DPL - 1 /\ (IsEmpty(r.hi) => Slots(r.hi) = {})
  BY <1>4, <1>5, RangeSlots
<1>7. /\ w.carry => w.carried2
      /\ ~AnyRipple => (w.carried2 <=> MadeCarry(t, k))
  BY DEF ThreadFlags
<1>8. /\ cl = ConsumedSums(d1, l1, RippleOf(s1, r.rLo, l1), RippleOf(s1, r.rHi, l1))
      /\ ch = ConsumedSums(d1, l1, RippleOf(s1, r.rHi, l1), RippleOf(s1, r.rLo, l1))
  BY DEF LowSums, HighSums, RippleLo, RippleHi
<1> HIDE DEF w, k, r, lo, hi, cl, ch
<1>9. ASSUME lo.carry PROVE w.carried2 \/ lo.carried
  <2>1. CASE IsEmpty(r.lo)
    <3>1. r.lo[1] = r.lo[2]
      BY <1>4, <2>1 DEF IsEmpty, IsRange
    <3>2. r.lo[2] * DPL \in Nat
      BY <1>4, <1>5, RangeSlots
    <3>3. CarryInto(cl, r.lo[2] * DPL, r.lo[2] * DPL, w.carry)
      BY <1>2, <1>9, <3>1
    <3>4. w.carry
      BY <3>2, <3>3 DEF CarryInto
    <3>5. QED BY <1>7, <3>4
  <2>2. CASE ~IsEmpty(r.lo)
    <3>1. CarryInto(cl, r.lo[1] * DPL, r.lo[2] * DPL, w.carry)
      BY <1>2, <1>9
    <3>2. w.carry \/ \E d \in Slots(r.lo) : cl[d] > 9
      BY <3>1, Zenon DEF CarryInto, Slots
    <3>3. QED BY <1>2, <2>2, <3>2
  <2>3. QED BY <2>1, <2>2
<1>10. ASSUME ~AnyRipple
       PROVE  w.carried2 \/ lo.carried \/ hi.carried <=> MadeCarry(t, k + 1)
  <2>1. Rippled(s1, r.rLo, l1) = {} /\ Rippled(s1, r.rHi, l1) = {}
    BY <1>1, <1>10, NoRipple DEF r
  <2>2. \A d \in 0 .. Q1Lines * DPL - 1 : cl[d] = s2[d] /\ ch[d] = s2[d]
    BY <1>1, <1>4, <1>8, <2>1, NothingWrong
  <2>3. (\E d \in Slots(r.lo) : cl[d] > 9) <=> (\E d \in Slots(r.lo) : s2[d] > 9)
    BY <1>6, <2>2
  <2>4. (\E d \in Slots(r.hi) : ch[d] > 9) <=> (\E d \in Slots(r.hi) : s2[d] > 9)
    BY <1>6, <2>2
  <2>5. MadeCarry(t, k + 1)
          <=> \/ MadeCarry(t, k)
              \/ \E d \in Slots(r.lo) : s2[d] > 9
              \/ \E d \in Slots(r.hi) : s2[d] > 9
    BY <1>1, ReadMore DEF r
  <2>6. QED BY <1>2, <1>3, <1>6, <1>7, <1>10, <2>3, <2>4, <2>5
<1>11. ASSUME ~AnyCarried(source, l) PROVE lo.equal /\ hi.equal
  <2>1. \A d \in Slots(r.lo) :
           HadDigit(r.rLo, d) = IF d < l1 THEN HadDigit(r.rHi, l1 - 1 - d) ELSE 0
    BY <1>1, <1>4, <1>6, <1>11, NoCarryEqual
  <2>2. \A d \in Slots(r.hi) :
           HadDigit(r.rHi, d) = IF d < l1 THEN HadDigit(r.rLo, l1 - 1 - d) ELSE 0
    BY <1>1, <1>4, <1>6, <1>11, NoCarryEqual
  <2>3. QED BY <1>2, <1>3, <2>1, <2>2
<1>12. QED BY <1>9, <1>10, <1>11 DEF w, k, lo, hi

(* When every thread is through, every slot of the number has been read    *)
(* and computed.                                                           *)
LEMMA SlotComputed ==
  ASSUME PassInv, \A t \in Thread : walk[t].at = "end",
         NEW d \in 0 .. Q1Lines * DPL - 1
  PROVE  \E t \in Thread : \E k \in 0 .. walk[t].n - 1 :
           /\ k \in DOMAIN rounds[t]
           /\ d \in Slots(Round(t, k).lo) \union Slots(Round(t, k).hi)
<1>1. /\ Truth /\ l1 \in Nat \ {0} /\ Q1Lines = DivCeil(l1, DPL)
  BY Number1 DEF PassInv, Q1Lines
<1>2. PICK t \in Thread : \A m \in Nat : DoneAt(t, l1, m) =>
        \E k \in 0 .. m - 1 :
          /\ k \in DOMAIN RoundsOf(t, l1)
          /\ \/ d \in Slots(RoundsOf(t, l1)[k].at.lo)
             \/ d \in Slots(RoundsOf(t, l1)[k].at.hi)
  BY <1>1, SlotCovered
<1>3. rounds[t] = RoundsOf(t, l1)
  BY <1>1 DEF Truth
<1>4. walk[t].n \in Nat /\ DoneAt(t, l1, walk[t].n)
  BY <1>3 DEF PassInv, OnRounds, WalkType, DoneAt
<1>5. QED BY <1>2, <1>3, <1>4 DEF Round

LEMMA SlotsRead ==
  ASSUME Truth, NEW t \in Thread, NEW k \in DOMAIN rounds[t]
  PROVE  /\ Slots(Round(t, k).lo) \subseteq Slots(Round(t, k).rLo)
         /\ Slots(Round(t, k).hi) \subseteq Slots(Round(t, k).rHi)
<1> DEFINE r == Round(t, k)
<1>1. /\ IsRange(r.lo, Q1Lines) /\ IsRange(r.hi, Q1Lines)
      /\ IsRange(r.rLo, Q1Lines) /\ IsRange(r.rHi, Q1Lines)
      /\ InScratch(r.lo, r.rLo, r.rHi, l1 \div DPL, Q1Lines)
      /\ InScratch(r.hi, r.rHi, r.rLo, l1 \div DPL, Q1Lines)
  BY RoundReads
<1>2. l1 \in Nat \ {0} /\ Q1Lines \in Nat /\ Q1Lines = DivCeil(l1, DPL)
  BY Number1 DEF Q1Lines
<1> HIDE DEF r, Q1Lines
<1>3. QED BY <1>1, <1>2, ReadSlots DEF r

LEMMA AllFlags ==
  ASSUME PassInv, \A t \in Thread : walk[t].at = "end" /\ ThreadFlags(t)
  PROVE  /\ (\E t \in Thread : walk[t].carried1) <=> AnyCarried(source, l)
         /\ ~AnyRipple => ((\E t \in Thread : walk[t].carried2) <=> AnyCarried(Middle, l1))
<1> DEFINE N == Q1Lines * DPL
<1>1. /\ Truth /\ Q1Lines \in Nat
      /\ \A t \in Thread : /\ walk[t].at = "end" /\ walk[t].n \in Nat
                           /\ \A k \in 0 .. walk[t].n - 1 : k \in DOMAIN rounds[t]
  BY Number1 DEF PassInv, OnRounds, WalkType
<1>2. DOMAIN s1 = 0 .. N - 1 /\ DOMAIN s2 = 0 .. N - 1
  BY <1>1, FirstStep, SecondStep
<1>3. \A t \in Thread : \A k \in DOMAIN rounds[t] :
        /\ Slots(Round(t, k).lo) \subseteq Slots(Round(t, k).rLo)
        /\ Slots(Round(t, k).hi) \subseteq Slots(Round(t, k).rHi)
        /\ Slots(Round(t, k).rLo) \union Slots(Round(t, k).rHi) \subseteq 0 .. N - 1
  <2> SUFFICES ASSUME NEW t \in Thread, NEW k \in DOMAIN rounds[t]
               PROVE  /\ Slots(Round(t, k).lo) \subseteq Slots(Round(t, k).rLo)
                      /\ Slots(Round(t, k).hi) \subseteq Slots(Round(t, k).rHi)
                      /\ Slots(Round(t, k).rLo) \union Slots(Round(t, k).rHi) \subseteq 0 .. N - 1
    OBVIOUS
  <2>1. IsRange(Round(t, k).rLo, Q1Lines) /\ IsRange(Round(t, k).rHi, Q1Lines)
    BY <1>1, RoundReads
  <2>2. QED BY <1>1, <2>1, SlotsRead, RangeSlots
<1>4. \A d \in 0 .. N - 1 : \E t \in Thread : \E k \in 0 .. walk[t].n - 1 :
           /\ k \in DOMAIN rounds[t]
           /\ d \in Slots(Round(t, k).lo) \union Slots(Round(t, k).hi)
  BY SlotComputed
<1> HIDE DEF N
<1>5. (\E t \in Thread : walk[t].carried1) <=> \E t \in Thread : ReadCarry(t, walk[t].n)
  BY DEF ThreadFlags
<1>6. (\E t \in Thread : ReadCarry(t, walk[t].n)) <=> \E d \in 0 .. N - 1 : s1[d] > 9
  <2>1. ASSUME NEW t \in Thread, ReadCarry(t, walk[t].n) PROVE \E d \in 0 .. N - 1 : s1[d] > 9
    <3>1. PICK k \in 0 .. walk[t].n - 1 :
            \E d \in Slots(Round(t, k).rLo) \union Slots(Round(t, k).rHi) : s1[d] > 9
      BY <2>1 DEF ReadCarry
    <3>2. k \in DOMAIN rounds[t]
      BY <1>1
    <3>3. QED BY <1>3, <3>1, <3>2
  <2>2. ASSUME NEW d \in 0 .. N - 1, s1[d] > 9 PROVE \E t \in Thread : ReadCarry(t, walk[t].n)
    <3>1. PICK t \in Thread : \E k \in 0 .. walk[t].n - 1 :
           /\ k \in DOMAIN rounds[t]
           /\ d \in Slots(Round(t, k).lo) \union Slots(Round(t, k).hi)
      BY <1>4
    <3>4. PICK k \in 0 .. walk[t].n - 1 :
           /\ k \in DOMAIN rounds[t]
           /\ d \in Slots(Round(t, k).lo) \union Slots(Round(t, k).hi)
      BY <3>1
    <3>2. d \in Slots(Round(t, k).rLo) \union Slots(Round(t, k).rHi)
      BY <1>3, <3>4
    <3>3. QED BY <2>2, <3>2 DEF ReadCarry
  <2>3. QED BY <2>1, <2>2
<1>7. ASSUME ~AnyRipple
      PROVE  (\E t \in Thread : walk[t].carried2) <=> \E t \in Thread : MadeCarry(t, walk[t].n)
  BY <1>7 DEF ThreadFlags
<1>8. (\E t \in Thread : MadeCarry(t, walk[t].n)) <=> \E d \in 0 .. N - 1 : s2[d] > 9
  <2>1. ASSUME NEW t \in Thread, MadeCarry(t, walk[t].n) PROVE \E d \in 0 .. N - 1 : s2[d] > 9
    <3>1. PICK k \in 0 .. walk[t].n - 1 :
            \E d \in Slots(Round(t, k).lo) \union Slots(Round(t, k).hi) : s2[d] > 9
      BY <2>1 DEF MadeCarry
    <3>2. k \in DOMAIN rounds[t]
      BY <1>1
    <3>3. QED BY <1>3, <3>1, <3>2
  <2>2. ASSUME NEW d \in 0 .. N - 1, s2[d] > 9 PROVE \E t \in Thread : MadeCarry(t, walk[t].n)
    <3>1. PICK t \in Thread : \E k \in 0 .. walk[t].n - 1 :
           /\ k \in DOMAIN rounds[t]
           /\ d \in Slots(Round(t, k).lo) \union Slots(Round(t, k).hi)
      BY <1>4
    <3>4. PICK k \in 0 .. walk[t].n - 1 :
           /\ k \in DOMAIN rounds[t]
           /\ d \in Slots(Round(t, k).lo) \union Slots(Round(t, k).hi)
      BY <3>1
    <3>2. QED BY <2>2, <3>4 DEF MadeCarry
  <2>3. QED BY <2>1, <2>2
<1>9. /\ AnyCarried(source, l) <=> \E d \in DOMAIN s1 : s1[d] > 9
      /\ AnyCarried(Middle, l1) <=> \E d \in DOMAIN s2 : s2[d] > 9
  BY <1>1, CarriedBySums
<1>10. QED BY <1>2, <1>5, <1>6, <1>7, <1>8, <1>9

LEMMA FlagsStep == FlagInv /\ [Next]_vars => FlagInv'
<1> SUFFICES ASSUME FlagInv, [Next]_vars PROVE FlagInv'
  OBVIOUS
<1> DEFINE C1 == AnyCarried(source, l)
           C2 == AnyCarried(Middle, l1)
           Pal == IsPalindrome(Middle, l1)
<1>1. /\ PassInv /\ PassInv' /\ UNCHANGED truth
      /\ \A t \in Thread : ThreadFlags(t)
  BY PassStep, TruthConstant DEF FlagInv
<1>2. UNCHANGED <<C1, C2, Pal>>
  BY <1>1 DEF truth, Middle, l
<1>3. /\ pc = "pass" =>
           /\ flags.carried1 <=> \E t \in Thread : walk[t].at = "end" /\ walk[t].carried1
           /\ flags.everCarried <=> \E t \in Thread : walk[t].at = "end" /\ walk[t].carried2
           /\ ~C1 => flags.pal1
      /\ pc # "pass" => /\ flags.everCarried <=> C2
                        /\ (~flags.carried1 /\ flags.pal1) <=> (~C1 /\ Pal)
  BY DEF FlagInv
<1>4. ASSUME /\ \A t \in Thread : ThreadFlags(t)'
             /\ pc' = "pass" =>
                  /\ flags'.carried1 <=> \E t \in Thread : walk'[t].at = "end" /\ walk'[t].carried1
                  /\ flags'.everCarried <=> \E t \in Thread : walk'[t].at = "end" /\ walk'[t].carried2
                  /\ ~C1 => flags'.pal1
             /\ pc' # "pass" => /\ flags'.everCarried <=> C2
                                /\ (~flags'.carried1 /\ flags'.pal1) <=> (~C1 /\ Pal)
      PROVE  FlagInv'
  BY <1>1, <1>2, <1>4 DEF FlagInv
<1>5. \A t \in Thread : walk[t].n \in Nat
  BY <1>1 DEF PassInv, WalkType
<1>6. /\ C1' = C1 /\ AnyRipple' = AnyRipple
      /\ \A t, m : ReadCarry(t, m)' = ReadCarry(t, m) /\ MadeCarry(t, m)' = MadeCarry(t, m)
  BY <1>1 DEF ReadCarry, MadeCarry, AnyRipple, RippleLo, RippleHi, Round, l, truth
<1>7. ASSUME NEW t \in Thread, PhaseA(t) PROVE FlagInv'
  <2> DEFINE w == walk[t]
             v == walk'[t]
             k == w.n
             r == Round(t, k)
  <2>1. /\ w.at = "A" /\ k \in DOMAIN rounds[t] /\ v.n = k /\ v.at = "B"
        /\ v.carry = w.carry /\ v.carried2 = w.carried2 /\ v.equal = w.equal
        /\ v.carried1 <=> \/ w.carried1 \/ SpeculatedCarried(s1, r.rLo)
                          \/ SpeculatedCarried(s1, r.rHi)
        /\ \A u \in Thread : u # t => walk'[u] = walk[u]
    BY <1>1, <1>7, EffectA, ZenonT(60)
  <2>2. UNCHANGED <<flags, pc>> /\ pc = "pass"
    BY <1>7 DEF PhaseA
  <2>3. v.carried1 <=> ReadCarry(t, k + 1)
    <3>1. IsRange(r.rLo, Q1Lines) /\ IsRange(r.rHi, Q1Lines)
      BY <1>1, <2>1, RoundReads DEF PassInv
    <3>2. /\ SpeculatedCarried(s1, r.rLo) <=> \E d \in Slots(r.rLo) : s1[d] > 9
          /\ SpeculatedCarried(s1, r.rHi) <=> \E d \in Slots(r.rHi) : s1[d] > 9
      BY <1>1, <3>1, GuessCarries DEF PassInv
    <3>3. w.carried1 <=> ReadCarry(t, k)
      BY <1>1, <2>1 DEF ThreadFlags
    <3>4. QED BY <1>5, <2>1, <3>2, <3>3, ReadMore
  <2>4. ThreadFlags(t)'
    <3>1. /\ w.carry => w.carried2
          /\ ~AnyRipple => (w.carried2 <=> MadeCarry(t, k))
          /\ ~C1 => w.equal
      BY <1>1 DEF ThreadFlags
    <3> HIDE DEF C1, k, w, r
    <3>2. QED BY <1>6, <2>1, <2>3, <3>1 DEF ThreadFlags, C1
  <2>5. \A u \in Thread : ThreadFlags(u)'
    BY <1>1, <2>1, <2>4, ThreadFlagsKept
  <2> HIDE DEF C1, C2, Pal
  <2>6. /\ (\E u \in Thread : walk'[u].at = "end" /\ walk'[u].carried1)
             <=> \E u \in Thread : walk[u].at = "end" /\ walk[u].carried1
        /\ (\E u \in Thread : walk'[u].at = "end" /\ walk'[u].carried2)
             <=> \E u \in Thread : walk[u].at = "end" /\ walk[u].carried2
    BY <2>1
  <2>7. QED BY <1>3, <1>4, <2>2, <2>5, <2>6
<1>8. ASSUME NEW t \in Thread, PhaseB(t) PROVE FlagInv'
  <2> DEFINE w == walk[t]
             v == walk'[t]
             k == w.n
             lo == LowOutput(t)
             hi == HighOutput(t)
  <2>1. /\ w.at = "B" /\ v.n = k + 1 /\ v.at = "A"
        /\ v.carry = lo.carry /\ v.carried1 = w.carried1
        /\ v.carried2 <=> w.carried2 \/ lo.carried \/ hi.carried
        /\ v.equal <=> w.equal /\ lo.equal /\ hi.equal
        /\ \A u \in Thread : u # t => walk'[u] = walk[u]
        /\ UNCHANGED flags
    BY <1>1, <1>8, EffectB
  <2>2. UNCHANGED pc /\ pc = "pass"
    BY <1>8, Zenon DEF PhaseB
  <2>3. /\ lo.carry => w.carried2 \/ lo.carried
        /\ ~AnyRipple => (w.carried2 \/ lo.carried \/ hi.carried <=> MadeCarry(t, k + 1))
        /\ ~C1 => lo.equal /\ hi.equal
    BY <1>1, <2>1, RoundFlags
  <2>4. ThreadFlags(t)'
    <3>1. /\ w.carried1 <=> ReadCarry(t, k + 1)
          /\ ~C1 => w.equal
      BY <1>1, <2>1 DEF ThreadFlags
    <3> HIDE DEF C1, k, w, lo, hi
    <3>2. QED BY <1>6, <2>1, <2>3, <3>1 DEF ThreadFlags, C1
  <2>5. \A u \in Thread : ThreadFlags(u)'
    BY <1>1, <2>1, <2>4, ThreadFlagsKept
  <2> HIDE DEF C1, C2, Pal
  <2>6. /\ (\E u \in Thread : walk'[u].at = "end" /\ walk'[u].carried1)
             <=> \E u \in Thread : walk[u].at = "end" /\ walk[u].carried1
        /\ (\E u \in Thread : walk'[u].at = "end" /\ walk'[u].carried2)
             <=> \E u \in Thread : walk[u].at = "end" /\ walk[u].carried2
    BY <2>1
  <2>7. QED BY <1>3, <1>4, <2>1, <2>2, <2>5, <2>6
<1>9. ASSUME NEW t \in Thread, PassEnd(t) PROVE FlagInv'
  <2> DEFINE w == walk[t]
             v == walk'[t]
  <2>1. /\ w.at = "A" /\ v.n = w.n /\ v.at = "end" /\ v.carry = w.carry
        /\ v.carried1 = w.carried1 /\ v.carried2 = w.carried2 /\ v.equal = w.equal
        /\ \A u \in Thread : u # t => walk'[u] = walk[u]
        /\ flags'.carried1 <=> flags.carried1 \/ w.carried1
        /\ flags'.pal1 <=> flags.pal1 /\ w.equal
        /\ flags'.everCarried <=> flags.everCarried \/ w.carried2
    BY <1>1, <1>9, EffectEnd
  <2>2. UNCHANGED pc /\ pc = "pass"
    BY <1>9 DEF PassEnd
  <2>3. /\ w.carried1 <=> ReadCarry(t, w.n)
        /\ w.carry => w.carried2
        /\ ~AnyRipple => (w.carried2 <=> MadeCarry(t, w.n))
        /\ ~C1 => w.equal
    BY <1>1, <2>1 DEF ThreadFlags
  <2>4. ThreadFlags(t)'
    <3> HIDE DEF C1, w
    <3>1. QED BY <1>6, <2>1, <2>3 DEF ThreadFlags, C1
  <2>5. \A u \in Thread : ThreadFlags(u)'
    BY <1>1, <2>1, <2>4, ThreadFlagsKept
  <2> HIDE DEF C1, C2, Pal
  <2>6. /\ (\E u \in Thread : walk'[u].at = "end" /\ walk'[u].carried1)
             <=> \/ \E u \in Thread : walk[u].at = "end" /\ walk[u].carried1
                 \/ w.carried1
        /\ (\E u \in Thread : walk'[u].at = "end" /\ walk'[u].carried2)
             <=> \/ \E u \in Thread : walk[u].at = "end" /\ walk[u].carried2
                 \/ w.carried2
    BY <2>1
  <2>7. QED BY <1>3, <1>4, <2>1, <2>2, <2>3, <2>5, <2>6
<1>10. ASSUME \/ StartRepair \/ EndRepair \/ Return \/ Done \/ UNCHANGED vars
              \/ \E x \in repairs : RepairLine(x)
              \/ pc = "resolve" /\ \E g \in Ranges : ResolveRange(g)
       PROVE  FlagInv'
  <2>1. UNCHANGED walk
    BY <1>10, AfterPass
  <2>2. \A u \in Thread : ThreadFlags(u)'
    BY <1>1, <2>1, ThreadFlagsKept
  <2>3. CASE StartRepair
    <3>1. /\ \A t \in Thread : walk[t].at = "end"
          /\ flags' = [flags EXCEPT !.everCarried = SecondCarried(AnyRipple)]
          /\ pc = "pass" /\ pc' # "pass"
      BY <2>3 DEF StartRepair
    <3>2. /\ (\E t \in Thread : walk[t].carried1) <=> C1
          /\ ~AnyRipple => ((\E t \in Thread : walk[t].carried2) <=> C2)
      BY <1>1, <3>1, AllFlags
    <3>3. /\ flags.carried1 <=> C1
          /\ ~AnyRipple => (flags.everCarried <=> C2)
          /\ ~C1 => flags.pal1
      BY <1>3, <3>1, <3>2
    <3>4. SecondCarried(AnyRipple) <=> C2
      <4>1. Generates(s2, l1) <=> C2
        BY <1>1, CarriedBySums DEF PassInv
      <4> HIDE DEF C2
      <4>2. CASE AnyRipple
        BY <4>1, <4>2 DEF SecondCarried
      <4>3. CASE ~AnyRipple
        BY <3>3, <4>3 DEF SecondCarried
      <4>4. QED BY <4>2, <4>3
    <3>5. ~C1 => Pal
      BY <1>1, NoCarry DEF PassInv
    <3>6. flags \in [carried1 : BOOLEAN, pal1 : BOOLEAN, everCarried : BOOLEAN]
      BY <1>1 DEF PassInv
    <3>7. /\ flags'.carried1 = flags.carried1 /\ flags'.pal1 = flags.pal1
          /\ flags'.everCarried = SecondCarried(AnyRipple)
      BY <3>1, <3>6
    <3> HIDE DEF C1, C2, Pal
    <3>8. QED BY <1>4, <2>2, <3>1, <3>3, <3>4, <3>5, <3>7
  <2>4. CASE UNCHANGED vars
    <3>1. UNCHANGED <<flags, pc>>
      BY <2>4 DEF vars
    <3> HIDE DEF C1, C2, Pal
    <3>2. QED BY <1>3, <1>4, <2>1, <2>2, <3>1
  <2>5. CASE \/ EndRepair \/ Return \/ Done
             \/ \E x \in repairs : RepairLine(x)
             \/ pc = "resolve" /\ \E g \in Ranges : ResolveRange(g)
    <3>1. UNCHANGED flags /\ pc # "pass" /\ pc' # "pass"
      <4>1. ASSUME NEW x, RepairLine(x) PROVE UNCHANGED flags /\ pc # "pass" /\ pc' # "pass"
        BY <4>1 DEF RepairLine
      <4>2. ASSUME NEW g, pc = "resolve", ResolveRange(g)
            PROVE  UNCHANGED flags /\ pc # "pass" /\ pc' # "pass"
        BY <4>2 DEF ResolveRange
      <4>3. EndRepair \/ Return \/ Done => UNCHANGED flags /\ pc # "pass" /\ pc' # "pass"
        BY DEF EndRepair, Return, Done, vars
      <4>4. QED BY <2>5, <4>1, <4>2, <4>3
    <3> HIDE DEF C1, C2, Pal
    <3>2. QED BY <1>3, <1>4, <2>2, <3>1
  <2>6. QED BY <1>10, <2>3, <2>4, <2>5
<1>11. QED BY <1>7, <1>8, <1>9, <1>10 DEF Next

(* The flags of the double step are exact: what they say of the step that  *)
(* is never seen, its carries and its palindrome, is so, and so is the     *)
(* carry flag of the result, wrong guesses or not.                         *)
THEOREM FlagsOfTheStep == Spec => []FlagsExact
<1>1. Init => FlagInv
  BY FlagsInit
<1>2. FlagInv /\ [Next]_vars => FlagInv'
  BY FlagsStep
<1>3. FlagInv => FlagsExact
  <2> SUFFICES ASSUME FlagInv, pc = "done" PROVE
        /\ flags.everCarried = AnyCarried(Middle, l1)
        /\ (~flags.carried1 /\ flags.pal1)
             <=> (~AnyCarried(source, l) /\ IsPalindrome(Middle, l1))
    BY DEF FlagsExact
  <2>1. /\ flags.everCarried <=> AnyCarried(Middle, l1)
        /\ (~flags.carried1 /\ flags.pal1)
             <=> (~AnyCarried(source, l) /\ IsPalindrome(Middle, l1))
    BY DEF FlagInv
  <2>2. flags.everCarried \in BOOLEAN /\ AnyCarried(Middle, l1) \in BOOLEAN
    BY DEF FlagInv, PassInv, AnyCarried
  <2>3. QED BY <2>1, <2>2
<1>4. QED BY <1>1, <1>2, <1>3, PTL DEF Spec

-----------------------------------------------------------------------------
(* One repair *)

(* A column computed from a sum that is wrong by what one or two wrong     *)
(* digits make of it comes out wrong; the digit of a column tells whether  *)
(* it received a carry.                                                    *)
LEMMA WrongSumShows ==
  ASSUME NEW v \in 0 .. 18, NEW u \in 0 .. 18, NEW c \in BOOLEAN,
         v - u \in {-1, -2, 8, 9, 18}
  PROVE  Resolved(v, c) # Resolved(u, c)
BY DEF Resolved, Bit

LEMMA DigitTellsCarry ==
  ASSUME NEW v \in 0 .. 18, NEW c \in BOOLEAN, NEW e \in BOOLEAN,
         Resolved(v, c) = Resolved(v, e)
  PROVE  c <=> e
BY DEF Resolved, Bit

(* The carries of a chain, from a slot in the middle on. *)
LEMMA CarryFrom ==
  ASSUME NEW s, NEW lo \in Nat, NEW m \in Nat, NEW d \in Nat, lo <= m, m <= d,
         NEW c, c <=> CarryInto(s, lo, m, FALSE)
  PROVE  CarryInto(s, lo, d, FALSE) <=> CarryInto(s, m, d, c)
<1>1. CarryInto(s, lo, d, FALSE) <=> CarryInto(s, m, d, CarryInto(s, lo, m, FALSE))
  <2>1. FALSE \in BOOLEAN
    OBVIOUS
  <2>2. QED BY <2>1, CarrySplit
<1>2. CarryInto(s, m, d, CarryInto(s, lo, m, FALSE)) <=> CarryInto(s, m, d, c)
  BY Zenon DEF CarryInto
<1>3. QED BY <1>1, <1>2

(* The digits of columns lo .. end-1 that one carry chain from base on     *)
(* computes from sums s.                                                   *)
Chained(s, base, d) == Resolved(s[d], CarryInto(s, base, d, FALSE))

(* A chain of lines base .. cap-1 that was computed from sums cs, and one  *)
(* line of it that consumed wrong ones, with none wrong below.             *)
OneWrong(x, stored, sums, consumed, cs, base, line, cap) ==
  /\ base <= line /\ line < cap
  /\ x.chain[1] = base /\ x.chain[2] = cap /\ x.key[4] = line
  /\ \A d \in base * DPL .. cap * DPL - 1 :
       /\ sums[d] \in 0 .. 18 /\ cs[d] \in 0 .. 18
       /\ stored[d] = Chained(cs, base * DPL, d)
       /\ d \notin LineSlots(line) => cs[d] = sums[d]
  /\ \A d \in LineSlots(line) : cs[d] - sums[d] \in {0, -1, -2, 8, 9, 18}
  /\ \E d \in LineSlots(line) : cs[d] # sums[d]
  /\ \A d \in base * DPL .. line * DPL - 1 : consumed[d] = sums[d]

(* A repair r makes the chain of slots b .. e-1 that was computed from cs  *)
(* what the sums make of it.                                               *)
MakesRight(r, stored, sums, cs, b, e) ==
  /\ DOMAIN r.digit \subseteq b .. e - 1
  /\ \A d \in b .. e - 1 :
       Chained(sums, b, d) = IF d \in DOMAIN r.digit THEN r.digit[d] ELSE stored[d]
  /\ r.atEnd => (r.carry <=> CarryInto(sums, b, e, FALSE))
  /\ ~r.atEnd => (CarryInto(cs, b, e, FALSE) <=> CarryInto(sums, b, e, FALSE))

(* A chain of which one line consumed wrong sums.  The repair of this line *)
(* goes up to a line that comes out as stored: what it then has rewritten  *)
(* is right, and what it has not was right.                                *)
LEMMA RepairedIs ==
  ASSUME NEW x, NEW stored, NEW sums, NEW consumed, NEW cs,
         NEW base \in Nat, NEW line \in Nat, NEW cap \in Nat,
         OneWrong(x, stored, sums, consumed, cs, base, line, cap)
  PROVE  MakesRight(Repaired(x, stored, sums, consumed), stored, sums, cs, base * DPL, cap * DPL)
<1> DEFINE b == base * DPL
           m == line * DPL
           e == cap * DPL
           carry == CarryInto(consumed, x.chain[1] * DPL, x.key[4] * DPL, FALSE)
           c == Receiving(sums, x.key[4] * DPL, x.chain[2] * DPL, carry)
           right(d) == Resolved(sums[d], d \in c)
           agrees(k) == \A d \in Slots(<<k, k + 1>>) : stored[d] = right(d)
           first(k) == /\ k = cap \/ agrees(k)
                       /\ \A j \in line .. k - 1 : ~agrees(j)
           end == CHOOSE k \in line .. cap : first(k)
           r == Repaired(x, stored, sums, consumed)
<1> USE DEF OneWrong
<1>0. /\ b \in Nat /\ m \in Nat /\ e \in Nat /\ b <= m /\ m < e
      /\ DPL \in Nat \ {0} /\ m + DPL <= e
  <2>1. b \in Nat /\ m \in Nat /\ e \in Nat /\ (line + 1) * DPL = m + DPL /\ DPL \in Nat \ {0}
    BY LineMultiple
  <2>2. b <= m
    BY LinesAscend
  <2>3. m + DPL <= e
    BY <2>1, LinesAscend
  <2> HIDE DEF b, m, e
  <2>4. QED BY <2>1, <2>2, <2>3
<1>1. /\ b \in Nat /\ m \in Nat /\ e \in Nat /\ b <= m /\ m < e
      /\ \A k \in line .. cap - 1 : /\ LineSlots(k) \subseteq m .. e - 1
                                    /\ Slots(<<k, k + 1>>) = LineSlots(k)
      /\ LineSlots(line) = m .. m + DPL - 1 /\ DPL \in Nat \ {0} /\ m + DPL <= e
  <2>1. \A k \in line .. cap - 1 : LineSlots(k) \subseteq m .. e - 1
    <3>1. line <= cap
      OBVIOUS
    <3>2. QED BY <3>1, SlotsOfLines
  <2>2. (line + 1) * DPL = m + DPL /\ DPL \in Nat \ {0}
    BY LineMultiple
  <2>4. \A k \in line .. cap - 1 : Slots(<<k, k + 1>>) = LineSlots(k)
    BY DEF Slots, LineSlots
  <2>5. LineSlots(line) = m .. m + DPL - 1
    BY <2>2 DEF LineSlots
  <2> HIDE DEF b, m, e
  <2>6. QED BY <1>0, <2>1, <2>2, <2>4, <2>5
<1>2. carry \in BOOLEAN /\ (carry <=> CarryInto(sums, b, m, FALSE))
  <2>1. carry = CarryInto(consumed, b, m, FALSE)
    OBVIOUS
  <2> HIDE DEF b, m, carry
  <2>2. \A i \in b .. m - 1 : consumed[i] = sums[i]
    BY DEF b, m
  <2>3. CarryInto(consumed, b, m, FALSE) <=> CarryInto(sums, b, m, FALSE)
    BY <1>0, <2>2, CarryOfEqual
  <2>4. QED BY <2>1, <2>3, CarryIsBoolean
<1>3. \A d \in m .. e : d \in c <=> CarryInto(sums, b, d, FALSE)
  <2>1. c = Receiving(sums, m, e, carry)
    OBVIOUS
  <2> HIDE DEF b, m, e, carry, c
  <2>2. ASSUME NEW d \in m .. e PROVE d \in c <=> CarryInto(sums, b, d, FALSE)
    <3>1. d \in c <=> CarryInto(sums, m, d, carry)
      BY <2>1 DEF Receiving
    <3>2. d \in Nat /\ m <= d
      BY <1>0
    <3>3. CarryInto(sums, b, d, FALSE) <=> CarryInto(sums, m, d, carry)
      BY <1>0, <1>2, <3>2, CarryFrom
    <3>4. QED BY <3>1, <3>3
  <2>3. QED BY <2>2
<1>4. \A d \in m .. e - 1 : right(d) = Chained(sums, b, d)
  <2> HIDE DEF b, m, e, c
  <2>1. ASSUME NEW d \in m .. e - 1 PROVE right(d) = Chained(sums, b, d)
    <3>1. d \in m .. e
      BY <1>0
    <3>2. d \in c <=> CarryInto(sums, b, d, FALSE)
      BY <1>3, <3>1
    <3>3. Resolved(sums[d], d \in c) = Resolved(sums[d], CarryInto(sums, b, d, FALSE))
      BY ONLY <3>2, ResolvedSame
    <3>4. QED BY <3>3 DEF Chained
  <2>2. QED BY <2>1
<1>5. r = [digit |-> [d \in Slots(<<line, end>>) |-> right(d)], atEnd |-> end = cap, carry |-> e \in c]
  BY DEF Repaired
<1>6. end \in line .. cap /\ first(end)
  <2> DEFINE S == {k \in line .. cap : k = cap \/ agrees(k)}
  <2>1. S \in SUBSET Nat /\ cap \in S
    <3> HIDE DEF agrees
    <3>1. QED OBVIOUS
  <2>2. PICK k \in S : \A j \in S : k <= j
    <3> HIDE DEF S
    <3>1. QED BY <2>1, LeastElement
  <2>3. k \in line .. cap /\ first(k)
    <3> HIDE DEF agrees
    <3>1. QED BY <2>2
  <2> HIDE DEF first
  <2>4. QED BY <2>3
<1> HIDE DEF end, r
<1>7. ~agrees(line)
  <2>1. PICK f \in LineSlots(line) : /\ cs[f] # sums[f]
                                     /\ \A j \in LineSlots(line) : cs[j] # sums[j] => f <= j
    <3> DEFINE W == {d \in LineSlots(line) : cs[d] # sums[d]}
    <3>1. W \in SUBSET Nat /\ W # {}
      <4>1. LineSlots(line) \subseteq Nat
        BY LineBase
      <4>2. QED BY <4>1
    <3>2. PICK f \in W : \A j \in W : f <= j
      <4> HIDE DEF W
      <4>1. QED BY <3>1, LeastElement
    <3>3. QED BY <3>2
  <2> HIDE DEF b, m, e, c, right
  <2>2. f \in m .. e - 1 /\ f \in m .. m + DPL - 1
    BY <1>1
  <2>3. \A j \in b .. f - 1 : cs[j] = sums[j]
    BY <1>1, <2>1, <2>2, SMTT(60) DEF b, e
  <2>4. CarryInto(cs, b, f, FALSE) <=> CarryInto(sums, b, f, FALSE)
    <3>1. f \in Nat
      BY <1>0, <2>2
    <3>2. QED BY <1>0, <2>3, <3>1, CarryOfEqual
  <2>5. Chained(cs, b, f) # Chained(sums, b, f)
    <3> DEFINE g == CarryInto(sums, b, f, FALSE)
    <3>1. g \in BOOLEAN /\ Chained(sums, b, f) = Resolved(sums[f], g)
      BY CarryIsBoolean DEF Chained
    <3>2. Chained(cs, b, f) = Resolved(cs[f], g)
      <4>1. Resolved(cs[f], CarryInto(cs, b, f, FALSE)) = Resolved(cs[f], CarryInto(sums, b, f, FALSE))
        BY ONLY <2>4, ResolvedSame
      <4>2. QED BY <4>1 DEF Chained
    <3>3. cs[f] \in 0 .. 18 /\ sums[f] \in 0 .. 18
      BY <1>1, <2>2 DEF b, e
    <3>4. cs[f] - sums[f] \in {-1, -2, 8, 9, 18}
      BY <2>1, <3>3
    <3> HIDE DEF g
    <3>5. QED BY <3>1, <3>2, <3>3, <3>4, WrongSumShows, SMTT(60)
  <2>6. stored[f] = Chained(cs, b, f) /\ right(f) = Chained(sums, b, f)
    BY <1>1, <1>4, <2>2 DEF b, e
  <2>7. QED BY <1>1, <2>5, <2>6
<1>8. end > line
  <2>1. end # line
    <3> HIDE DEF agrees
    <3>1. QED BY <1>6, <1>7
  <2>2. QED BY <1>6, <2>1
<1> DEFINE z == end * DPL
<1>9. /\ z \in Nat /\ m + DPL <= z /\ z <= e /\ (end < cap => z + DPL <= e)
      /\ Slots(<<line, end>>) = m .. z - 1
      /\ end < cap => z \in LineSlots(end)
  <2>1. z \in Nat /\ (end + 1) * DPL = z + DPL /\ (line + 1) * DPL = m + DPL
    BY <1>6, LineMultiple
  <2>2. m + DPL <= z
    BY <1>6, <1>8, <2>1, LinesAscend
  <2>3. z <= e
    BY <1>6, LinesAscend
  <2>4. end < cap => z + DPL <= e
    BY <1>6, <2>1, LinesAscend
  <2>5. Slots(<<line, end>>) = m .. z - 1
    BY DEF Slots
  <2>6. end < cap => z \in LineSlots(end)
    <3> HIDE DEF m, e
    <3>1. QED BY <1>1, <2>1, SMTT(60) DEF LineSlots, z
  <2> HIDE DEF b, m, e, z
  <2>7. QED BY <1>6, <2>1, <2>2, <2>3, <2>4, <2>5, <2>6
<1>10. ASSUME end < cap
       PROVE  \A d \in z .. e : CarryInto(cs, b, d, FALSE) <=> CarryInto(sums, b, d, FALSE)
  <2>1. stored[z] = right(z)
    <3>1. agrees(end)
      <4> HIDE DEF agrees
      <4>1. QED BY <1>6, <1>10
    <3>2. z \in Slots(<<end, end + 1>>)
      <4> HIDE DEF z
      <4>1. QED BY <1>1, <1>6, <1>9, <1>10
    <3> HIDE DEF right, z
    <3>3. QED BY <3>1, <3>2
  <2> HIDE DEF b, m, e, z, right
  <2>2. z \in m .. e - 1 /\ z \in b .. e - 1 /\ DPL \in Nat \ {0} /\ z >= m + DPL
    BY <1>1, <1>9, <1>10
  <2>3. Chained(cs, b, z) = Chained(sums, b, z)
    BY <1>4, <2>1, <2>2 DEF b, e
  <2>4. cs[z] = sums[z] /\ sums[z] \in 0 .. 18
    BY <1>1, <2>2 DEF b, e
  <2>5. CarryInto(cs, b, z, FALSE) <=> CarryInto(sums, b, z, FALSE)
    <3>1. Resolved(sums[z], CarryInto(cs, b, z, FALSE)) = Resolved(sums[z], CarryInto(sums, b, z, FALSE))
      BY <2>3, <2>4 DEF Chained
    <3>2. CarryInto(cs, b, z, FALSE) \in BOOLEAN /\ CarryInto(sums, b, z, FALSE) \in BOOLEAN
      BY CarryIsBoolean
    <3>3. QED BY <2>4, <3>1, <3>2, DigitTellsCarry
  <2>6. ASSUME NEW d \in z .. e
        PROVE  CarryInto(cs, b, d, FALSE) <=> CarryInto(sums, b, d, FALSE)
    <3> DEFINE g == CarryInto(sums, b, z, FALSE)
    <3>0. d \in Nat /\ z \in Nat /\ z <= d /\ b <= z
      BY <1>0, <2>2
    <3>1. \A i \in z .. d - 1 : cs[i] = sums[i]
      BY <1>1, <2>2 DEF b, e
    <3>2. CarryInto(cs, z, d, g) <=> CarryInto(sums, z, d, g)
      BY <3>0, <3>1, CarryOfEqual
    <3>3. CarryInto(sums, b, d, FALSE) <=> CarryInto(sums, z, d, g)
      <4>1. g <=> CarryInto(sums, b, z, FALSE)
        OBVIOUS
      <4> HIDE DEF g
      <4>2. QED BY <1>0, <3>0, <4>1, CarryFrom
    <3>4. CarryInto(cs, b, d, FALSE) <=> CarryInto(cs, z, d, g)
      <4>1. g <=> CarryInto(cs, b, z, FALSE)
        BY <2>5
      <4> HIDE DEF g
      <4>2. QED BY <1>0, <3>0, <4>1, CarryFrom
    <3> HIDE DEF g
    <3>5. QED BY <3>2, <3>3, <3>4
  <2>7. QED BY <2>6
<1>11. DOMAIN r.digit = m .. z - 1 /\ (r.atEnd <=> end = cap) /\ (r.carry <=> e \in c)
       /\ \A d \in m .. z - 1 : r.digit[d] = Chained(sums, b, d)
  <2>1. /\ r.digit = [d \in m .. z - 1 |-> right(d)]
        /\ r.atEnd = (end = cap) /\ r.carry = (e \in c)
    BY <1>5, <1>9
  <2>2. \A d \in m .. z - 1 : d \in m .. e - 1
    <3> HIDE DEF z, m, e
    <3>1. QED BY <1>1, <1>9, SMTT(60)
  <2> HIDE DEF z, m, e, b, c, right, end
  <2>3. QED BY <1>4, <2>1, <2>2, ZenonT(60)
<1>12. \A d \in b .. e - 1 : d \notin m .. z - 1 => stored[d] = Chained(sums, b, d)
  <2> HIDE DEF z, m, e, right, end
  <2>1. ASSUME NEW d \in b .. e - 1, d \notin m .. z - 1
        PROVE  stored[d] = Chained(sums, b, d)
    <3>0. stored[d] = Chained(cs, b, d) /\ (d \notin LineSlots(line) => cs[d] = sums[d])
      BY DEF b, e
    <3> HIDE DEF b
    <3>1. d < m \/ (z <= d /\ end < cap)
      <4>1. end = cap => z = e
        BY DEF z, e
      <4>2. QED BY <1>1, <1>6, <1>9, <2>1, <4>1
    <3>2. cs[d] = sums[d]
      BY <1>1, <1>9, <3>0, <3>1, SMTT(60)
    <3>3. CASE d < m
      <4>1. \A i \in b .. d - 1 : cs[i] = sums[i]
        BY <1>1, <3>3 DEF b, e
      <4>2. d \in Nat
        BY <1>0
      <4>3. CarryInto(cs, b, d, FALSE) <=> CarryInto(sums, b, d, FALSE)
        BY <1>0, <4>1, <4>2, CarryOfEqual
      <4>4. Resolved(cs[d], CarryInto(cs, b, d, FALSE)) = Resolved(cs[d], CarryInto(sums, b, d, FALSE))
        BY ONLY <4>3, ResolvedSame
      <4>5. QED BY <3>0, <3>2, <4>4 DEF Chained
    <3>4. CASE z <= d /\ end < cap
      <4>1. d \in z .. e
        BY <1>0, <1>9, <3>4
      <4>2. CarryInto(cs, b, d, FALSE) <=> CarryInto(sums, b, d, FALSE)
        BY <1>10, <3>4, <4>1
      <4>3. Resolved(cs[d], CarryInto(cs, b, d, FALSE)) = Resolved(cs[d], CarryInto(sums, b, d, FALSE))
        BY ONLY <4>2, ResolvedSame
      <4>4. QED BY <3>0, <3>2, <4>3 DEF Chained
    <3>5. QED BY <3>1, <3>3, <3>4
  <2>2. QED BY <2>1
<1>13. e \in c <=> CarryInto(sums, b, e, FALSE)
  <2> HIDE DEF b, m, e, c
  <2>1. e \in m .. e
    BY <1>0
  <2>2. QED BY <1>3, <2>1
<1>14. end # cap => (CarryInto(cs, b, e, FALSE) <=> CarryInto(sums, b, e, FALSE))
  <2> HIDE DEF b, m, e, z
  <2>1. ASSUME end # cap PROVE end < cap /\ e \in z .. e
    BY <1>0, <1>6, <1>9, <2>1
  <2>2. QED BY <1>10, <2>1
<1>15. DOMAIN r.digit \subseteq b .. e - 1
  <2> HIDE DEF b, m, e, z
  <2>1. QED BY <1>1, <1>9, <1>11, SMTT(60)
<1>16. \A d \in b .. e - 1 :
         Chained(sums, b, d) = IF d \in DOMAIN r.digit THEN r.digit[d] ELSE stored[d]
  <2> HIDE DEF b, m, e, z
  <2>1. QED BY <1>11, <1>12
<1>17. QED
  <2>1. /\ r.atEnd => (r.carry <=> CarryInto(sums, b, e, FALSE))
        /\ ~r.atEnd => (CarryInto(cs, b, e, FALSE) <=> CarryInto(sums, b, e, FALSE))
    <3> HIDE DEF b, m, e, z, c
    <3>1. QED BY <1>11, <1>13, <1>14
  <2>2. MakesRight(r, stored, sums, cs, b, e)
    BY <1>15, <1>16, <2>1 DEF MakesRight
  <2>3. QED BY <2>2 DEF r

-----------------------------------------------------------------------------
(* The chunks of a walk, one after the other *)

LEMMA WalkAscends ==
  ASSUME NEW n \in Nat \ {0}, NEW t \in Thread,
         NEW k \in 0 .. DivCeil(n, DPL), NEW j \in 0 .. k
  PROVE  LET w == WalkOf(t, n)
         IN  w[j].low <= w[k].low /\ w[k].high <= w[j].high /\ w[j].ord <= w[k].ord
<1> DEFINE w == WalkOf(t, n)
           Q == DivCeil(n, DPL)
           P(m) == w[j].low <= w[m].low /\ w[m].high <= w[j].high /\ w[j].ord <= w[m].ord
           Wrong == {m \in j .. Q : ~P(m)}
<1>1. Q \in Nat \ {0}
  BY BlocksOfThread
<1>2. \A m \in 0 .. Q : w[m].low \in Nat /\ w[m].high \in Nat /\ w[m].ord \in Nat
  BY WalkStates DEF OnWalk
<1>3. ASSUME NEW m \in 0 .. Q - 1
      PROVE  /\ w[m].low <= w[m + 1].low /\ w[m + 1].high <= w[m].high
             /\ w[m].ord <= w[m + 1].ord
  <2> DEFINE v == w[m]
             u == w[m + 1]
             r == RoundFrom(t, v, n)
  <2>1. u = NextRound(t, v, n)
    BY WalkSteps
  <2>2. OnWalk(t, n, v)
    <3>1. m \in 0 .. Q
      BY <1>1
    <3>2. QED BY <3>1, WalkStates
  <2>3. /\ v.low \in Nat /\ v.high \in Nat /\ v.low <= LowEndOf(t, n)
        /\ HighStartOf(t, n) <= v.high /\ v.ord \in Nat
    BY <2>2 DEF OnWalk
  <2>4. v.low <= r.lo[2] /\ r.hi[1] <= v.high
    BY <2>3, RoundShape
  <2>5. u.low = r.lo[2] /\ u.high = r.hi[1] /\ u.ord = v.ord + Bit(~IsEmpty(r.hi))
    BY <2>1 DEF NextRound, After
  <2>6. Bit(~IsEmpty(r.hi)) \in {0, 1}
    BY DEF Bit
  <2> HIDE DEF u, v, r
  <2>7. v.ord <= v.ord + Bit(~IsEmpty(r.hi))
    BY <2>3, <2>6
  <2>8. QED BY <2>4, <2>5, <2>7 DEF u, v
<1> HIDE DEF w, Q
<1>4. P(j)
  <2>1. j \in 0 .. Q
    BY <1>1 DEF Q
  <2>2. QED BY <1>2, <2>1
<1>5. Wrong = {}
  <2> SUFFICES ASSUME Wrong # {} PROVE FALSE
    OBVIOUS
  <2>0. j \in Nat /\ k \in 0 .. Q /\ j <= k
    BY <1>1 DEF Q
  <2>1. PICK m \in Wrong : \A i \in Wrong : m <= i
    <3>1. Wrong \in SUBSET Nat
      BY <1>1, <2>0
    <3> HIDE DEF Wrong
    <3>2. QED BY <3>1, LeastElement
  <2>2. m \in j .. Q /\ m # j
    BY <1>4
  <2>3. m - 1 \in 0 .. Q - 1 /\ m - 1 \in 0 .. Q /\ m \in 0 .. Q /\ m - 1 \in j .. Q /\ m - 1 + 1 = m /\ ~(m <= m - 1)
    BY <1>1, <2>0, <2>2
  <2>4. P(m - 1)
    BY <2>1, <2>3
  <2>5. /\ w[m - 1].low <= w[m].low /\ w[m].high <= w[m - 1].high
        /\ w[m - 1].ord <= w[m].ord
    BY <1>3, <2>3
  <2>6. P(m)
    <3> DEFINE a1 == w[j].low
               a2 == w[m - 1].low
               a3 == w[m].low
               b1 == w[j].high
               b2 == w[m - 1].high
               b3 == w[m].high
               c1 == w[j].ord
               c2 == w[m - 1].ord
               c3 == w[m].ord
    <3>1. /\ a1 \in Nat /\ a2 \in Nat /\ a3 \in Nat /\ b1 \in Nat /\ b2 \in Nat /\ b3 \in Nat
          /\ c1 \in Nat /\ c2 \in Nat /\ c3 \in Nat
      <4>1. j \in 0 .. Q
        BY <2>0, <1>1
      <4>2. QED BY <1>2, <2>3, <4>1
    <3>2. a1 <= a2 /\ a2 <= a3 /\ b3 <= b2 /\ b2 <= b1 /\ c1 <= c2 /\ c2 <= c3
      BY <2>4, <2>5
    <3> HIDE DEF a1, a2, a3, b1, b2, b3, c1, c2, c3
    <3>3. a1 <= a3 /\ b3 <= b1 /\ c1 <= c3
      BY <3>1, <3>2
    <3>4. QED BY <3>3 DEF a1, a3, b1, b3, c1, c3
  <2>7. QED BY <2>1, <2>6
<1>6. P(k)
  <2>1. k \in j .. Q
    BY <1>1 DEF Q
  <2> HIDE DEF P
  <2>2. QED BY <1>5, <2>1
<1>7. QED BY <1>6 DEF w

(* Where the low chunks have got to before round k. *)
LowAt(t, k) ==
  IF k \in DOMAIN rounds[t] THEN Round(t, k).lo[1] ELSE LowEndOf(t, l1)

(* The chunks of a round within the thread's blocks, and against those of  *)
(* the rounds before: the low ones ascend, the high ones descend, and      *)
(* these are numbered.                                                     *)
LEMMA ChunksOfRound ==
  ASSUME Truth, NEW t \in Thread, NEW k \in DOMAIN rounds[t]
  PROVE  LET r == Round(t, k)
         IN  /\ k \in Nat /\ k + 1 \in Nat /\ \A j \in 0 .. k : j \in DOMAIN rounds[t]
             /\ r.lo[1] \in Nat /\ r.lo[2] \in Nat /\ r.hi[1] \in Nat /\ r.hi[2] \in Nat
             /\ LowStartOf(t, l1) <= r.lo[1] /\ r.lo[1] <= r.lo[2] /\ r.lo[2] <= LowEndOf(t, l1)
             /\ HighStartOf(t, l1) <= r.hi[1] /\ r.hi[1] <= r.hi[2] /\ r.hi[2] <= HighEndOf(t, l1)
             /\ LowAt(t, k) = r.lo[1] /\ LowAt(t, k + 1) = r.lo[2]
             /\ rounds[t][k].ord \in Nat
             /\ ~IsEmpty(r.hi) => rounds[t][k].ord < FusedHiStride(Q1Lines)
             /\ \A j \in 0 .. k - 1 :
                  LET p == Round(t, j)
                  IN  /\ p.lo[2] <= r.lo[1] /\ r.hi[2] <= p.hi[1]
                      /\ ~IsEmpty(p.hi) => rounds[t][j].ord < rounds[t][k].ord
<1> DEFINE w == WalkOf(t, l1)
           Q == DivCeil(l1, DPL)
           R == RoundsOf(t, l1)
           r == Round(t, k)
           le == LowEndOf(t, l1)
           hs == HighStartOf(t, l1)
<1>1. l1 \in Nat \ {0} /\ Q \in Nat \ {0} /\ Q = Q1Lines
  BY Number1, BlocksOfThread DEF Q1Lines
<1>2. rounds[t] = R /\ \A j : Round(t, j) = R[j].at
  BY DEF Truth, Round
<1>3. \A j : j \in DOMAIN R <=> j \in 0 .. Q - 1 /\ (w[j].low < le \/ hs < w[j].high)
  BY <1>1, RoundsAre
<1>4. k \in 0 .. Q - 1 /\ k \in Nat /\ k + 1 \in 0 .. Q /\ k + 1 \in Nat
  BY <1>1, <1>2, <1>3
<1>5. \A j \in 0 .. k + 1 :
        /\ w[j].low <= w[k + 1].low /\ w[k + 1].high <= w[j].high /\ w[j].ord <= w[k + 1].ord
        /\ j <= k => w[j].low <= w[k].low /\ w[k].high <= w[j].high /\ w[j].ord <= w[k].ord
  BY <1>1, <1>4, WalkAscends
<1>6. \A j \in 0 .. Q :
        /\ OnWalk(t, l1, w[j])
        /\ w[j].low \in Nat /\ w[j].high \in Nat /\ w[j].ord \in Nat
        /\ LowStartOf(t, l1) <= w[j].low /\ w[j].low <= le
        /\ hs <= w[j].high /\ w[j].high <= HighEndOf(t, l1)
  BY <1>1, WalkStates DEF OnWalk
<1>7. \A j \in DOMAIN R :
        /\ R[j].at.lo = <<w[j].low, w[j + 1].low>>
        /\ R[j].at.hi = <<w[j + 1].high, w[j].high>>
        /\ R[j].ord = w[j].ord /\ w[j + 1].ord = w[j].ord + Bit(w[j + 1].high < w[j].high)
        /\ R[j].at = RoundFrom(t, w[j], l1)
  BY <1>1, RoundStep
<1>8. /\ le \in Nat /\ hs \in Nat /\ LowStartOf(t, l1) \in Nat /\ HighEndOf(t, l1) \in Nat
  BY <1>1, BlocksOfThread
<1> HIDE DEF w, Q, R, le, hs
<1>9. ASSUME NEW j \in 0 .. k PROVE j \in DOMAIN R
  <2>1. j \in 0 .. Q /\ k \in 0 .. Q /\ j \in 0 .. Q - 1 /\ j \in 0 .. k + 1 /\ j <= k
    BY <1>1, <1>4
  <2>2. w[k].low < le \/ hs < w[k].high
    BY <1>2, <1>3
  <2>3. w[j].low <= w[k].low /\ w[k].high <= w[j].high
    BY <1>5, <2>1
  <2> DEFINE a == w[j].low
             b == w[k].low
             c == w[j].high
             d == w[k].high
  <2>4. a \in Nat /\ b \in Nat /\ c \in Nat /\ d \in Nat
    BY <1>6, <2>1
  <2> HIDE DEF a, b, c, d
  <2>5. a < le \/ hs < c
    BY <1>8, <2>2, <2>3, <2>4 DEF a, b, c, d
  <2>6. QED BY <1>3, <2>1, <2>5 DEF a, c
<1>10. k \in DOMAIN R /\ k \in 0 .. Q
  BY <1>1, <1>2, <1>4
<1>11. /\ r.lo[1] = w[k].low /\ r.lo[2] = w[k + 1].low
       /\ r.hi[1] = w[k + 1].high /\ r.hi[2] = w[k].high
       /\ rounds[t][k].ord = w[k].ord
  BY <1>2, <1>7, <1>10
<1>12. /\ r.lo[1] \in Nat /\ r.lo[2] \in Nat /\ r.hi[1] \in Nat /\ r.hi[2] \in Nat
       /\ LowStartOf(t, l1) <= r.lo[1] /\ r.lo[1] <= r.lo[2] /\ r.lo[2] <= le
       /\ hs <= r.hi[1] /\ r.hi[1] <= r.hi[2] /\ r.hi[2] <= HighEndOf(t, l1)
       /\ rounds[t][k].ord \in Nat
  <2>1. k \in 0 .. k + 1
    BY <1>4
  <2>2. QED BY <1>4, <1>5, <1>6, <1>10, <1>11, <2>1
<1>13. LowAt(t, k) = r.lo[1]
  BY <1>2, <1>10 DEF LowAt
<1>14. LowAt(t, k + 1) = r.lo[2]
  <2>1. CASE k + 1 \in DOMAIN R
    <3>1. Round(t, k + 1).lo[1] = w[k + 1].low
      BY <1>2, <1>7, <2>1
    <3>2. QED BY <1>2, <1>11, <2>1, <3>1 DEF LowAt
  <2>2. CASE k + 1 \notin DOMAIN R
    <3>1. \A j \in 0 .. k + 1 - 1 : j \in DOMAIN R
      BY <1>4, <1>9
    <3>2. w[k + 1].low = le
      BY <1>1, <1>4, <2>2, <3>1, Covered DEF w, R, le
    <3>3. QED BY <1>2, <1>11, <2>2, <3>2 DEF LowAt, le
  <2>3. QED BY <2>1, <2>2
<1>15. ~IsEmpty(r.hi) => rounds[t][k].ord < FusedHiStride(Q1Lines)
  <2>1. r = RoundFrom(t, w[k], l1) /\ OnWalk(t, l1, w[k])
    BY <1>2, <1>6, <1>7, <1>10
  <2>2. ~IsEmpty(r.hi) => w[k].ord < FusedHiStride(DivCeil(l1, DPL))
    BY <1>1, <2>1, SlotLeft
  <2>3. QED BY <1>1, <1>11, <2>2 DEF Q
<1>16. ASSUME NEW j \in 0 .. k - 1
       PROVE  LET p == Round(t, j)
              IN  /\ p.lo[2] <= r.lo[1] /\ r.hi[2] <= p.hi[1]
                  /\ ~IsEmpty(p.hi) => rounds[t][j].ord < rounds[t][k].ord
  <2> DEFINE p == Round(t, j)
  <2>1. j \in 0 .. k /\ j + 1 \in 0 .. k + 1 /\ j + 1 <= k /\ j \in 0 .. Q /\ j + 1 \in 0 .. Q /\ k \in 0 .. Q
    BY <1>1, <1>4
  <2>2. j \in DOMAIN R
    BY <1>9, <2>1
  <2>3. /\ p.lo[2] = w[j + 1].low /\ p.hi[1] = w[j + 1].high /\ p.hi[2] = w[j].high
        /\ rounds[t][j].ord = w[j].ord
        /\ w[j + 1].ord = w[j].ord + Bit(w[j + 1].high < w[j].high)
    BY <1>2, <1>7, <2>2
  <2>4. w[j + 1].low <= w[k].low /\ w[k].high <= w[j + 1].high /\ w[j + 1].ord <= w[k].ord
    BY <1>5, <2>1
  <2>5. ASSUME ~IsEmpty(p.hi) PROVE rounds[t][j].ord < rounds[t][k].ord
    <3> DEFINE a == w[j].ord
               b == w[k].ord
               c == w[j + 1].ord
    <3>1. a \in Nat /\ b \in Nat /\ c \in Nat /\ w[j + 1].high \in Nat /\ w[j].high \in Nat
      BY <1>6, <2>1
    <3>2. w[j + 1].high < w[j].high
      BY <2>3, <2>5, <3>1 DEF IsEmpty
    <3>3. c = a + 1 /\ c <= b
      BY <2>3, <2>4, <3>2 DEF Bit
    <3> HIDE DEF a, b, c
    <3>4. a < b
      BY <3>1, <3>3
    <3>5. QED BY <1>11, <2>3, <3>4 DEF a, b
  <2>6. QED BY <1>11, <2>3, <2>4, <2>5
<1>17. \A j \in 0 .. k : j \in DOMAIN rounds[t]
  BY <1>2, <1>9
<1> HIDE DEF r
<1>18. QED BY <1>4, <1>12, <1>13, <1>14, <1>15, <1>16, <1>17 DEF r, le, hs

-----------------------------------------------------------------------------
(* The carry chains *)

(* A thread's low block is one chain, each of its high chunks another.     *)
LowChain(t) == <<LowStartOf(t, l1), LowEndOf(t, l1)>>

Clear(r, u) == r[2] <= u[1] \/ u[2] <= r[1]

LEMMA ClearSlots ==
  ASSUME NEW r, NEW u, r[1] \in Nat, r[2] \in Nat, u[1] \in Nat, u[2] \in Nat, Clear(r, u),
         NEW d \in Slots(r)
  PROVE  d \notin Slots(u)
<1>1. /\ r[1] * DPL \in Nat /\ r[2] * DPL \in Nat /\ u[1] * DPL \in Nat /\ u[2] * DPL \in Nat
  BY LineMultiple
<1>2. r[2] <= u[1] => r[2] * DPL <= u[1] * DPL
  BY LinesAscend
<1>3. u[2] <= r[1] => u[2] * DPL <= r[1] * DPL
  BY LinesAscend
<1> DEFINE a == r[1] * DPL
           b == r[2] * DPL
           c == u[1] * DPL
           e == u[2] * DPL
<1>4. d \in a .. b - 1 /\ (d \in Slots(u) <=> d \in c .. e - 1)
  BY DEF Slots
<1>5. b <= c \/ e <= a
  BY <1>2, <1>3 DEF Clear
<1> HIDE DEF a, b, c, e
<1>6. d \notin c .. e - 1
  BY <1>1, <1>4, <1>5 DEF a, b, c, e
<1>7. QED BY <1>4, <1>6

(* No two chains share a line. *)
LEMMA ChainsClear ==
  ASSUME Truth, NEW t \in Thread, NEW u \in Thread
  PROVE  /\ LowStartOf(t, l1) \in Nat /\ LowEndOf(t, l1) \in Nat
         /\ LowStartOf(t, l1) <= LowEndOf(t, l1) /\ LowEndOf(t, l1) <= Q1Lines
         /\ t # u => Clear(LowChain(t), LowChain(u))
         /\ \A k \in DOMAIN rounds[u] : /\ Clear(LowChain(t), Round(u, k).hi)
                                        /\ Clear(Round(u, k).hi, LowChain(t))
         /\ \A j \in DOMAIN rounds[t], k \in DOMAIN rounds[u] :
              t # u \/ j # k => Clear(Round(t, j).hi, Round(u, k).hi)
<1> DEFINE B == BlockBounds(Q1Lines)
           Q == Q1Lines
<1>1. l1 \in Nat \ {0} /\ Q \in Nat \ {0} /\ Q = DivCeil(l1, DPL)
  BY Number1 DEF Q1Lines
<1>2. /\ \A k \in 0 .. NumBlocks : B[k] \in Nat
      /\ \A k, m \in 0 .. NumBlocks : k <= m => B[k] <= B[m]
      /\ B[NumBlocks] = Q
  <2>1. Q \in Nat
    BY <1>1
  <2>2. QED BY <2>1, BoundsAscend
<1>3. \A v \in Thread : /\ LowStartOf(v, l1) = B[v] /\ LowEndOf(v, l1) = B[v + 1]
                        /\ HighStartOf(v, l1) = B[HighBlock(v)]
                        /\ HighEndOf(v, l1) = B[HighBlock(v) + 1]
  BY <1>1 DEF LowStartOf, LowEndOf, HighStartOf, HighEndOf
<1> HIDE DEF B, Q
<1>4. /\ NumThreads \in Nat \ {0} /\ NumBlocks = 2 * NumThreads
      /\ \A v \in Thread : v \in Nat /\ v < NumThreads /\ HighBlock(v) = NumBlocks - 1 - v
  BY Blocks DEF HighBlock
<1>5. \A v \in Thread : /\ v \in 0 .. NumBlocks /\ v + 1 \in 0 .. NumBlocks
                        /\ HighBlock(v) \in 0 .. NumBlocks /\ HighBlock(v) + 1 \in 0 .. NumBlocks
  BY <1>4
<1>6. /\ B[t] \in Nat /\ B[t + 1] \in Nat /\ B[t] <= B[t + 1] /\ B[t + 1] <= Q
  <2>1. t <= t + 1 /\ t + 1 <= NumBlocks /\ NumBlocks \in 0 .. NumBlocks
    BY <1>4
  <2>2. QED BY <1>2, <1>5, <2>1
<1>7. ASSUME t # u PROVE Clear(LowChain(t), LowChain(u))
  <2>1. t + 1 <= u \/ u + 1 <= t
    BY <1>4, <1>7
  <2>2. B[t + 1] <= B[u] \/ B[u + 1] <= B[t]
    BY <1>2, <1>5, <2>1
  <2>3. QED BY <1>3, <2>2 DEF Clear, LowChain
<1>8. ASSUME NEW v \in Thread, NEW k \in DOMAIN rounds[v]
      PROVE  LET h == Round(v, k).hi
             IN  /\ h[1] \in Nat /\ h[2] \in Nat /\ B[HighBlock(v)] <= h[1] /\ h[1] <= h[2]
                 /\ h[2] <= B[HighBlock(v) + 1]
                 /\ B[HighBlock(v)] \in Nat /\ B[HighBlock(v) + 1] \in Nat
  BY <1>2, <1>3, <1>5, <1>8, ChunksOfRound
<1>9. ASSUME NEW k \in DOMAIN rounds[u]
      PROVE  Clear(LowChain(t), Round(u, k).hi) /\ Clear(Round(u, k).hi, LowChain(t))
  <2>1. t + 1 <= HighBlock(u)
    BY <1>4
  <2>2. B[t + 1] <= B[HighBlock(u)]
    BY <1>2, <1>5, <2>1
  <2>3. B[t + 1] <= Round(u, k).hi[1]
    BY <1>6, <1>8, <2>2
  <2>4. QED BY <1>3, <2>3 DEF Clear, LowChain
<1>10. ASSUME NEW j \in DOMAIN rounds[t], NEW k \in DOMAIN rounds[u], t # u \/ j # k
       PROVE  Clear(Round(t, j).hi, Round(u, k).hi)
  <2>1. CASE t # u
    <3>1. HighBlock(t) + 1 <= HighBlock(u) \/ HighBlock(u) + 1 <= HighBlock(t)
      BY <1>4, <2>1
    <3>2. B[HighBlock(t) + 1] <= B[HighBlock(u)] \/ B[HighBlock(u) + 1] <= B[HighBlock(t)]
      BY <1>2, <1>5, <3>1
    <3>3. Round(t, j).hi[2] <= Round(u, k).hi[1] \/ Round(u, k).hi[2] <= Round(t, j).hi[1]
      <4> DEFINE a1 == Round(t, j).hi[1]
                 a2 == Round(t, j).hi[2]
                 b1 == Round(u, k).hi[1]
                 b2 == Round(u, k).hi[2]
                 p1 == B[HighBlock(t)]
                 p2 == B[HighBlock(t) + 1]
                 q1 == B[HighBlock(u)]
                 q2 == B[HighBlock(u) + 1]
      <4>1. /\ a1 \in Nat /\ a2 \in Nat /\ p1 \in Nat /\ p2 \in Nat /\ p1 <= a1 /\ a2 <= p2
        BY <1>8
      <4>2. /\ b1 \in Nat /\ b2 \in Nat /\ q1 \in Nat /\ q2 \in Nat /\ q1 <= b1 /\ b2 <= q2
        BY <1>8
      <4>3. p2 <= q1 \/ q2 <= p1
        BY <3>2
      <4> HIDE DEF a1, a2, b1, b2, p1, p2, q1, q2
      <4>4. a2 <= b1 \/ b2 <= a1
        BY <4>1, <4>2, <4>3
      <4>5. QED BY <4>4 DEF a1, a2, b1, b2
    <3>4. QED BY <3>3 DEF Clear
  <2>2. CASE t = u
    <3>1. j # k /\ k \in DOMAIN rounds[t]
      BY <1>10, <2>2
    <3>2. j \in Nat /\ k \in Nat
      BY <2>2, <3>1, ChunksOfRound
    <3>3. CASE j < k
      <4>1. j \in 0 .. k - 1
        BY <3>2, <3>3
      <4>2. Round(t, k).hi[2] <= Round(t, j).hi[1]
        BY <3>1, <4>1, ChunksOfRound
      <4>3. QED BY <2>2, <4>2 DEF Clear
    <3>4. CASE k < j
      <4>1. k \in 0 .. j - 1
        BY <3>2, <3>4
      <4>2. Round(t, j).hi[2] <= Round(t, k).hi[1]
        BY <4>1, ChunksOfRound
      <4>3. QED BY <2>2, <4>2 DEF Clear
    <3>5. QED BY <3>1, <3>2, <3>3, <3>4
  <2>3. QED BY <2>1, <2>2
<1>11. QED BY <1>3, <1>6, <1>7, <1>9, <1>10 DEF Q

(* Every high chunk has a carry slot, and one of its own. *)
LEMMA SlotsOfChunks ==
  ASSUME Truth, NEW t \in Thread, NEW j \in DOMAIN rounds[t], ~IsEmpty(Round(t, j).hi)
  PROVE  /\ ChunkSlot(t, j) \in 0 .. NumThreads * FusedHiStride(Q1Lines) - 1
         /\ \A u \in Thread : \A k \in DOMAIN rounds[u] :
              ~IsEmpty(Round(u, k).hi) /\ (t # u \/ j # k) => ChunkSlot(t, j) # ChunkSlot(u, k)
<1> DEFINE S == FusedHiStride(Q1Lines)
           a == rounds[t][j].ord
           p == NumThreads - 1 - t
<1>1. a \in Nat /\ a < S /\ j \in Nat
  BY ChunksOfRound
<1>2. S \in Nat
  <2>1. Q1Lines \in Nat /\ NumBlocks \in Nat \ {0} /\ CHUNK_LINES \in Nat \ {0}
    BY Number1, Blocks, LineAssumption
  <2>2. Q1Lines \div NumBlocks \in Nat
    BY <2>1, Quotient
  <2>3. (Q1Lines \div NumBlocks) \div CHUNK_LINES \in Nat
    BY <2>1, <2>2, Quotient
  <2>4. QED BY <2>3 DEF FusedHiStride
<1>3. /\ NumThreads \in Nat \ {0} /\ NumBlocks = 2 * NumThreads
      /\ \A v \in Thread : v \in Nat /\ v < NumThreads /\ HighBlock(v) = NumBlocks - 1 - v
  BY Blocks DEF HighBlock
<1>4. p \in Nat /\ p < NumThreads
  BY <1>3
<1>5. \A v \in Thread : \A k : ChunkSlot(v, k) = (NumThreads - 1 - v) * S + rounds[v][k].ord
  BY <1>3 DEF ChunkSlot, FusedSlot
<1> HIDE DEF S, a, p
<1>6. ChunkSlot(t, j) = p * S + a
  BY <1>5 DEF p, a
<1>7. p * S + a \in 0 .. NumThreads * S - 1
  <2>1. (p + 1) * S <= NumThreads * S /\ (p + 1) * S = p * S + S /\ p * S \in Nat
    BY <1>2, <1>3, <1>4
  <2>2. NumThreads * S \in Nat
    BY <1>2, <1>3
  <2> DEFINE x == p * S
             y == NumThreads * S
  <2>3. x + S <= y /\ x \in Nat /\ y \in Nat
    BY <2>1, <2>2
  <2> HIDE DEF x, y
  <2>4. x + a \in 0 .. y - 1
    BY <1>1, <1>2, <2>3
  <2>5. QED BY <2>4 DEF x, y
<1>8. ASSUME NEW u \in Thread, NEW k \in DOMAIN rounds[u],
             ~IsEmpty(Round(u, k).hi), t # u \/ j # k
      PROVE  ChunkSlot(t, j) # ChunkSlot(u, k)
  <2> DEFINE b == rounds[u][k].ord
             q == NumThreads - 1 - u
  <2>1. b \in Nat /\ b < S /\ k \in Nat
    BY <1>8, ChunksOfRound DEF S
  <2>2. q \in Nat /\ (t # u => p # q)
    BY <1>3 DEF p
  <2>3. ChunkSlot(u, k) = q * S + b
    BY <1>5
  <2>4. CASE t # u
    <3> HIDE DEF b, q
    <3>1. p * S + a # q * S + b
      <4>1. p < q => (p + 1) * S <= q * S
        BY <1>2, <1>4, <2>2
      <4>2. q < p => (q + 1) * S <= p * S
        BY <1>2, <1>4, <2>2
      <4>3. (p + 1) * S = p * S + S /\ (q + 1) * S = q * S + S /\ p * S \in Nat /\ q * S \in Nat
        BY <1>2, <1>4, <2>2
      <4> DEFINE x == p * S
                 y == q * S
      <4>4. x \in Nat /\ y \in Nat /\ (x + S <= y \/ y + S <= x)
        <5>1. p < q \/ q < p
          BY <1>4, <2>2, <2>4
        <5>2. QED BY <4>1, <4>2, <4>3, <5>1
      <4> HIDE DEF x, y
      <4>5. x + a # y + b
        BY <1>1, <1>2, <2>1, <4>4
      <4>6. QED BY <4>5 DEF x, y
    <3>2. QED BY <1>6, <2>3, <3>1
  <2>5. CASE t = u
    <3>1. j # k /\ k \in DOMAIN rounds[t]
      BY <1>8, <2>5
    <3>2. a # b
      <4>1. CASE j < k
        <5>1. j \in 0 .. k - 1
          BY <1>1, <2>1, <4>1
        <5>2. a < b
          BY <2>5, <3>1, <5>1, ChunksOfRound DEF a
        <5> HIDE DEF b
        <5>3. QED BY <1>1, <2>1, <5>2
      <4>2. CASE k < j
        <5>1. k \in 0 .. j - 1
          BY <1>1, <2>1, <4>2
        <5>2. b < a
          BY <1>8, <2>5, <5>1, ChunksOfRound DEF a
        <5> HIDE DEF b
        <5>3. QED BY <1>1, <2>1, <5>2
      <4>3. QED BY <1>1, <2>1, <3>1, <4>1, <4>2
    <3>3. p = q
      BY <2>5 DEF p
    <3> HIDE DEF b, q
    <3>4. p * S \in Int
      BY <1>2, <1>4
    <3> DEFINE x == p * S
    <3>5. ChunkSlot(t, j) = x + a /\ ChunkSlot(u, k) = x + b /\ x \in Int
      BY <1>6, <2>3, <3>3, <3>4
    <3> HIDE DEF x
    <3>6. QED BY <1>1, <2>1, <3>2, <3>5
  <2>6. QED BY <2>4, <2>5
<1>9. QED BY <1>6, <1>7, <1>8 DEF S

-----------------------------------------------------------------------------
(* What a chain has read *)

(* Every line of the blocks is in the chunk of some round. *)
LEMMA RoundOfLine ==
  ASSUME Truth, NEW t \in Thread
  PROVE  /\ \A x \in LowStartOf(t, l1) .. LowEndOf(t, l1) - 1 :
              \E k \in DOMAIN rounds[t] : x \in Lines(Round(t, k).lo)
         /\ \A x \in HighStartOf(t, l1) .. HighEndOf(t, l1) - 1 :
              \E k \in DOMAIN rounds[t] : x \in Lines(Round(t, k).hi)
<1> DEFINE R == RoundsOf(t, l1)
           Q == DivCeil(l1, DPL)
           Out == {m \in Nat : m \notin DOMAIN R}
<1>1. l1 \in Nat \ {0} /\ Q \in Nat \ {0}
  BY Number1, BlocksOfThread
<1>2. rounds[t] = R /\ \A j : Round(t, j) = R[j].at
  BY DEF Truth, Round
<1>3. Q \in Out
  <2>1. Q \notin DOMAIN R
    <3>1. \A k \in DOMAIN R : k \in 0 .. Q - 1
      BY <1>1, RoundsAre
    <3> HIDE DEF R
    <3>2. QED BY <1>1, <3>1
  <2>2. QED BY <1>1, <2>1
<1> HIDE DEF R, Q
<1>4. PICK m \in Out : \A j \in Out : m <= j
  <2>1. Out \in SUBSET Nat /\ Out # {}
    BY <1>3
  <2> HIDE DEF Out
  <2>2. QED BY <2>1, LeastElement
<1>5. \A k \in 0 .. m - 1 : k \in DOMAIN R
  BY <1>4
<1>6. m \in Nat /\ m \notin DOMAIN R
  BY <1>4
<1>7. /\ \A x \in LowStartOf(t, l1) .. LowEndOf(t, l1) - 1 :
           \E k \in 0 .. m - 1 : x \in Lines(R[k].at.lo)
      /\ \A x \in HighStartOf(t, l1) .. HighEndOf(t, l1) - 1 :
           \E k \in 0 .. m - 1 : x \in Lines(R[k].at.hi)
  BY <1>1, <1>5, <1>6, Covered DEF R
<1>8. QED BY <1>2, <1>5, <1>7

(* The sums that a low block's chain has consumed: each of its slots was   *)
(* computed in one round, and reads what this one had.                     *)
LowRound(t, d) == CHOOSE k \in DOMAIN rounds[t] : d \in Slots(Round(t, k).lo)
LowRead(t) == [d \in Slots(LowChain(t)) |-> LowSums(t, LowRound(t, d))[d]]

LEMMA LowReadIs ==
  ASSUME Truth, NEW t \in Thread, NEW k \in DOMAIN rounds[t], NEW d \in Slots(Round(t, k).lo)
  PROVE  d \in Slots(LowChain(t)) /\ LowRead(t)[d] = LowSums(t, k)[d]
<1> DEFINE r == Round(t, k)
           ls == LowStartOf(t, l1)
           le == LowEndOf(t, l1)
<1>1. /\ r.lo[1] \in Nat /\ r.lo[2] \in Nat /\ ls <= r.lo[1] /\ r.lo[2] <= le /\ k \in Nat
      /\ ls \in Nat /\ le \in Nat
  BY ChunksOfRound, ChainsClear
<1>2. d \in Slots(LowChain(t))
  <2>1. /\ ls * DPL <= r.lo[1] * DPL /\ r.lo[2] * DPL <= le * DPL
        /\ ls * DPL \in Nat /\ le * DPL \in Nat /\ r.lo[1] * DPL \in Nat /\ r.lo[2] * DPL \in Nat
    BY <1>1, LinesAscend, LineMultiple
  <2>2. LowChain(t)[1] = ls /\ LowChain(t)[2] = le
    BY DEF LowChain
  <2> DEFINE a == ls * DPL
             b == r.lo[1] * DPL
             c == r.lo[2] * DPL
             e == le * DPL
  <2>3. d \in b .. c - 1 /\ Slots(LowChain(t)) = a .. e - 1
    BY <2>2 DEF Slots
  <2>4. a \in Nat /\ b \in Nat /\ c \in Nat /\ e \in Nat /\ a <= b /\ c <= e
    BY <2>1
  <2> HIDE DEF a, b, c, e
  <2>5. QED BY <2>3, <2>4
<1>3. ASSUME NEW j \in DOMAIN rounds[t], d \in Slots(Round(t, j).lo) PROVE j = k
  <2>1. /\ j \in Nat /\ Round(t, j).lo[1] \in Nat /\ Round(t, j).lo[2] \in Nat
    BY ChunksOfRound
  <2>2. j < k => Clear(Round(t, j).lo, r.lo)
    <3>1. j < k => j \in 0 .. k - 1
      BY <1>1, <2>1
    <3>2. QED BY <3>1, ChunksOfRound DEF Clear
  <2>3. k < j => Clear(Round(t, j).lo, r.lo)
    <3>1. k < j => k \in 0 .. j - 1
      BY <1>1, <2>1
    <3>2. QED BY <3>1, ChunksOfRound DEF Clear
  <2>4. ~Clear(Round(t, j).lo, r.lo)
    BY <1>1, <1>3, <2>1, ClearSlots
  <2>5. QED BY <1>1, <2>1, <2>2, <2>3, <2>4
<1>4. LowRound(t, d) = k
  BY <1>3 DEF LowRound
<1>5. QED BY <1>2, <1>4 DEF LowRead

(* Consumed sums are the true ones where no wrong digit was read, and off  *)
(* by what one or two of them make elsewhere.                              *)
LEMMA ConsumedDiffers ==
  ASSUME Truth, NEW fwd, NEW rev, IsRange(fwd, Q1Lines), IsRange(rev, Q1Lines),
         NEW d \in 0 .. Q1Lines * DPL - 1
  PROVE  LET c == ConsumedSums(d1, l1, RippleOf(s1, fwd, l1), RippleOf(s1, rev, l1))
         IN  /\ s2[d] \in 0 .. 18 /\ c[d] \in 0 .. 18
             /\ c[d] - s2[d] \in {0, -1, -2, 8, 9, 18}
             /\ c[d] # s2[d] <=> \/ d \in Rippled(s1, fwd, l1)
                                 \/ d < l1 /\ l1 - 1 - d \in Rippled(s1, rev, l1)
<1> DEFINE c == ConsumedSums(d1, l1, RippleOf(s1, fwd, l1), RippleOf(s1, rev, l1))
           N == Q1Lines * DPL
           F == HadDigit(fwd, d)
           G == HadDigit(rev, l1 - 1 - d)
           f == d1[d]
           g == d1[l1 - 1 - d]
           inF == d \in Rippled(s1, fwd, l1)
           inG == l1 - 1 - d \in Rippled(s1, rev, l1)
<1>1. l1 \in Nat \ {0} /\ N \in Nat /\ l1 <= N
  BY Number1
<1>2. c[d] = F + (IF d < l1 THEN G ELSE 0) /\ c[d] \in 0 .. 18
  BY ConsumedAre
<1>3. /\ F \in Digit /\ (~inF => F = f) /\ (inF => d < l1 /\ F - f \in {9, -1})
  BY HadDigitIs
<1>4. f \in Digit /\ s2[d] \in 0 .. 18 /\ (d >= l1 => s2[d] = 0 /\ f = 0)
      /\ (d < l1 => s2[d] = f + g)
  <2>1. DOMAIN s1 = 0 .. N - 1 /\ DOMAIN s2 = 0 .. N - 1
    BY FirstStep, SecondStep
  <2>2. f \in Digit /\ (d >= l1 => f = 0)
    <3>1. d \in DOMAIN s1
      BY <2>1
    <3>2. d1[d] \in Digit /\ d1[d] = IF d < l1 THEN Middle[d] ELSE 0
      BY <3>1, FirstStep
    <3>3. d >= l1 => ~(d < l1)
      BY <1>1
    <3>4. QED BY <3>2, <3>3
  <2>3. s2[d] \in 0 .. 18 /\ (d >= l1 => s2[d] = 0)
    BY <2>1, SecondStep
  <2>4. d < l1 => s2[d] = f + g
    <3>1. d < l1 => d \in 0 .. l1 - 1
      BY <1>1
    <3>2. QED BY <3>1, SecondStep
  <2>5. QED BY <2>2, <2>3, <2>4
<1>5. ASSUME d < l1
      PROVE  G \in Digit /\ g \in Digit /\ (~inG => G = g) /\ (inG => G - g \in {9, -1})
  <2>1. l1 - 1 - d \in 0 .. N - 1
    BY <1>1, <1>5
  <2>2. DOMAIN s1 = 0 .. N - 1
    BY FirstStep
  <2>3. g \in Digit
    BY <2>1, <2>2, FirstStep
  <2>4. QED BY <2>1, <2>3, HadDigitIs
<1> HIDE DEF c, N, F, G, f, g, inF, inG
<1>6. CASE d < l1
  <2>1. c[d] = F + G /\ s2[d] = f + g
    BY <1>2, <1>4, <1>6
  <2>2. c[d] - s2[d] = (F - f) + (G - g)
    BY <1>3, <1>4, <1>5, <1>6, <2>1 DEF Digit
  <2>3. F - f \in Int /\ G - g \in Int
    BY <1>3, <1>4, <1>5, <1>6 DEF Digit
  <2>4. /\ ~inF => F - f = 0
        /\ ~inG => G - g = 0
        /\ inF => F - f = 9 \/ F - f = -1
        /\ inG => G - g = 9 \/ G - g = -1
    BY <1>3, <1>4, <1>5, <1>6 DEF Digit
  <2>5. c[d] \in Int /\ s2[d] \in Int
    BY <1>2, <1>4
  <2> DEFINE x == F - f
             y == G - g
             z == c[d] - s2[d]
  <2>6. /\ z = x + y /\ x \in Int /\ y \in Int
        /\ (~inF => x = 0) /\ (~inG => y = 0)
        /\ (inF => x = 9 \/ x = -1) /\ (inG => y = 9 \/ y = -1)
    BY <2>2, <2>3, <2>4
  <2>7. z = 0 <=> c[d] = s2[d]
    BY <2>5
  <2> HIDE DEF x, y, z
  <2>8. z \in {0, -1, -2, 8, 9, 18} /\ (z # 0 <=> inF \/ inG)
    BY <2>6
  <2>9. QED BY <1>2, <1>4, <1>6, <2>7, <2>8 DEF c, z, inF, inG
<1>7. CASE ~(d < l1)
  <2>1. ~inF /\ d >= l1
    BY <1>1, <1>3, <1>7
  <2>2. c[d] = 0 /\ s2[d] = 0
    BY <1>2, <1>3, <1>4, <1>7, <2>1
  <2>3. QED BY <1>7, <2>1, <2>2 DEF c, inF
<1>8. QED BY <1>6, <1>7

(* The lines of a chunk that are taken for repair are those with a wrong   *)
(* sum.                                                                    *)
LEMMA AffectedIs ==
  ASSUME Truth, NEW out, NEW fwd, NEW rev,
         IsRange(out, Q1Lines), IsRange(fwd, Q1Lines), IsRange(rev, Q1Lines),
         NEW x \in Nat
  PROVE  LET f == RippleOf(s1, fwd, l1)
             g == RippleOf(s1, rev, l1)
         IN  x \in Affected(out, f, g, l1)
               <=> /\ x \in Lines(out)
                   /\ \E d \in LineSlots(x) : ConsumedSums(d1, l1, f, g)[d] # s2[d]
<1> DEFINE f == RippleOf(s1, fwd, l1)
           g == RippleOf(s1, rev, l1)
           c == ConsumedSums(d1, l1, f, g)
           N == Q1Lines * DPL
           W == DOMAIN f \union {l1 - 1 - p : p \in DOMAIN g}
<1>1. l1 \in Nat \ {0} /\ N \in Nat /\ l1 <= N /\ Q1Lines \in Nat
  BY Number1
<1>2. DOMAIN f = Rippled(s1, fwd, l1) /\ DOMAIN g = Rippled(s1, rev, l1)
  BY DEF RippleOf
<1>3. \A d \in 0 .. N - 1 :
        c[d] # s2[d] <=> (d \in Rippled(s1, fwd, l1)
                            \/ (d < l1 /\ l1 - 1 - d \in Rippled(s1, rev, l1)))
  BY ConsumedDiffers
<1>4. \A p \in Rippled(s1, fwd, l1) : p \in Nat /\ p < l1
  BY <1>1, RangeSlots DEF Rippled, MinOf
<1>5. \A p \in Rippled(s1, rev, l1) : p \in Nat /\ p < l1
  BY <1>1, RangeSlots DEF Rippled, MinOf
<1>6. x \in Affected(out, f, g, l1) <=> x \in Lines(out) /\ \E d \in W : x = d \div DPL
  BY DEF Affected
<1> HIDE DEF f, g, c, N
<1>7. \A d \in W : d \in 0 .. l1 - 1
  BY <1>1, <1>2, <1>4, <1>5
<1>8. \A d \in 0 .. l1 - 1 : d \in W <=> c[d] # s2[d]
  <2> SUFFICES ASSUME NEW d \in 0 .. l1 - 1 PROVE d \in W <=> c[d] # s2[d]
    OBVIOUS
  <2>1. d \in 0 .. N - 1 /\ d < l1
    BY <1>1
  <2>2. (\E p \in Rippled(s1, rev, l1) : d = l1 - 1 - p) <=> l1 - 1 - d \in Rippled(s1, rev, l1)
    <3>1. \A p \in Rippled(s1, rev, l1) : d = l1 - 1 - p => p = l1 - 1 - d
      BY <1>1, <1>5
    <3>2. d = l1 - 1 - (l1 - 1 - d)
      BY <1>1
    <3>3. QED BY <3>1, <3>2
  <2>3. QED BY <1>2, <1>3, <2>1, <2>2
<1>9. ASSUME x \in Lines(out)
      PROVE  (\E d \in W : x = d \div DPL) <=> \E d \in LineSlots(x) : c[d] # s2[d]
  <2>1. \A d \in Nat : d \in LineSlots(x) <=> d \div DPL = x
    <3> SUFFICES ASSUME NEW d \in Nat PROVE d \in LineSlots(x) <=> d \div DPL = x
      OBVIOUS
    <3>1. d \div DPL \in Nat /\ (d < x * DPL <=> d \div DPL < x)
          /\ (d < (x + 1) * DPL <=> d \div DPL < x + 1)
      BY LineOfSlot
    <3>2. x * DPL \in Nat /\ (x + 1) * DPL \in Nat
      <4>1. x + 1 \in Nat
        OBVIOUS
      <4>2. QED BY <4>1, LineMultiple
    <3> DEFINE a == x * DPL
               b == (x + 1) * DPL
               e == d \div DPL
    <3>3. d \in LineSlots(x) <=> d \in a .. b - 1
      BY DEF LineSlots
    <3>4. e \in Nat /\ (d < a <=> e < x) /\ (d < b <=> e < x + 1) /\ a \in Nat /\ b \in Nat
      BY <3>1, <3>2
    <3> HIDE DEF a, b, e
    <3>5. d \in a .. b - 1 <=> e = x
      BY <3>4
    <3>6. QED BY <3>3, <3>5 DEF e
  <2>2. LineSlots(x) \subseteq 0 .. N - 1
    <3>1. x \in out[1] .. out[2] - 1 /\ out[1] \in Nat /\ out[2] \in Nat /\ out[2] <= Q1Lines
      BY <1>9 DEF Lines, IsRange
    <3>2. x \in 0 .. Q1Lines - 1 /\ 0 <= Q1Lines /\ 0 \in Nat
      BY <1>1, <3>1
    <3>3. LineSlots(x) \subseteq 0 * DPL .. Q1Lines * DPL - 1
      BY <1>1, <3>2, SlotsOfLines
    <3>4. 0 * DPL = 0
      BY LineAssumption
    <3>5. QED BY <3>3, <3>4 DEF N
  <2>3. \A d \in 0 .. N - 1 : c[d] # s2[d] => d \in 0 .. l1 - 1
    BY <1>1, <1>3, <1>4
  <2>4. ASSUME NEW d \in W, x = d \div DPL PROVE \E e \in LineSlots(x) : c[e] # s2[e]
    BY <1>7, <1>8, <2>1, <2>4
  <2>5. ASSUME NEW d \in LineSlots(x), c[d] # s2[d] PROVE \E e \in W : x = e \div DPL
    BY <1>8, <2>1, <2>2, <2>3, <2>5
  <2> HIDE DEF W
  <2>6. QED BY <2>4, <2>5
<1>10. QED BY <1>6, <1>9 DEF f, g, c

-----------------------------------------------------------------------------
(* The carry the repair takes a line to have had *)

(* A round after the first, while the low block lasts.  Its intervals      *)
(* start no lower than its low chunk and end no higher than the mirror     *)
(* line of that chunk, where the interval of the round before started.     *)
LEMMA RoundAbove ==
  ASSUME Truth, NEW t \in Thread, NEW k \in DOMAIN rounds[t],
         LowStartOf(t, l1) < Round(t, k).lo[1], Round(t, k).lo[1] < LowEndOf(t, l1)
  PROVE  LET r == Round(t, k)
             p == Round(t, k - 1)
             a == r.lo[1]
             m == l1 \div DPL - a
         IN  /\ k - 1 \in DOMAIN rounds[t] /\ k - 1 # k
             /\ p.lo[2] = a /\ p.lo[1] \in Nat /\ p.lo[1] < a
             /\ m \in Nat /\ m + a = l1 \div DPL
             /\ a <= r.rLo[1] /\ r.rHi[2] <= m + 1
             /\ p.rHi[1] = m /\ m + 1 <= p.rHi[2]
<1> DEFINE w == WalkOf(t, l1)
           Q == DivCeil(l1, DPL)
           R == RoundsOf(t, l1)
           q == l1 \div DPL
           ls == LowStartOf(t, l1)
           le == LowEndOf(t, l1)
           hs == HighStartOf(t, l1)
           r == Round(t, k)
           p == Round(t, k - 1)
           a == w[k].low
           b == w[k].high
           a0 == w[k - 1].low
           b0 == w[k - 1].high
           a2 == w[k + 1].low
           b2 == w[k + 1].high
<1>1. /\ l1 \in Nat \ {0} /\ rounds[t] = R /\ \A j : Round(t, j) = R[j].at
      /\ k \in DOMAIN R /\ k \in Nat /\ \A j \in 0 .. k : j \in DOMAIN R
      /\ r.lo[1] = a
  <2>1. l1 \in Nat \ {0}
    BY Number1
  <2>2. rounds[t] = R /\ \A j : Round(t, j) = R[j].at
    BY DEF Truth, Round
  <2>3. k \in DOMAIN R
    BY <2>2
  <2>4. k \in Nat /\ \A j \in 0 .. k : j \in DOMAIN R
    BY <2>2, ChunksOfRound
  <2>5. R[k].at.lo = <<w[k].low, w[k + 1].low>>
    BY <2>1, <2>3, RoundStep
  <2>6. r.lo[1] = a
    BY <2>2, <2>5
  <2>7. QED BY <2>1, <2>2, <2>3, <2>4, <2>6
<1>2. /\ q \in Nat /\ Q \in Nat \ {0} /\ q <= Q /\ Q <= q + 1
      /\ ls \in Nat /\ le \in Nat /\ hs \in Nat /\ le <= hs /\ le + hs \in {Q - 1, Q}
  BY <1>1, BlocksOfThread
<1>3. /\ OnWalk(t, l1, w[k]) /\ OnWalk(t, l1, w[k + 1])
      /\ R[k].at.lo = <<a, a2>> /\ R[k].at.hi = <<b2, b>> /\ b2 <= b
      /\ a < le <=> a < a2
      /\ R[k].at.rLo = IntervalUnion(R[k].at.lo, BackwardOf(R[k].at.hi, q, Q))
      /\ R[k].at.rHi = IntervalUnion(R[k].at.hi, BackwardOf(R[k].at.lo, q, Q))
  BY <1>1, RoundStep
<1>4. w[0].low = ls
  <2>1. w[0] = WalkBegin(t, l1)
    BY <1>1, WalkSteps
  <2> HIDE DEF w
  <2>2. QED BY <2>1 DEF WalkBegin
<1> HIDE DEF w, Q, R, q, ls, le, hs, r, p
<1>5. ls < a /\ a < le
  BY <1>1 DEF ls, le, r
<1>6. k # 0
  BY <1>1, <1>2, <1>3, <1>4, <1>5 DEF OnWalk
<1>7. k - 1 \in DOMAIN R /\ k - 1 # k /\ k - 1 + 1 = k
  BY <1>1, <1>6
<1>8. /\ OnWalk(t, l1, w[k - 1])
      /\ R[k - 1].at.lo = <<a0, a>> /\ a0 <= a /\ R[k - 1].at.hi = <<b, b0>> /\ b <= b0
      /\ a0 < le <=> a0 < a
      /\ a0 < le /\ hs < b0 => b = MinOf(MaxOf(q - a, hs), b0)
      /\ R[k - 1].at.rHi = IntervalUnion(R[k - 1].at.hi, BackwardOf(R[k - 1].at.lo, q, Q))
  <2>1. k - 1 \in DOMAIN RoundsOf(t, l1)
    BY <1>7, SMTT(60) DEF R
  <2>2. QED BY <1>1, <1>7, <2>1, RoundStep, SMTT(60) DEF w, R, q, Q, le, hs
<1>9. /\ a \in Nat /\ b \in Nat /\ a0 \in Nat /\ b0 \in Nat /\ a2 \in Nat /\ b2 \in Nat
      /\ hs <= b /\ hs <= b2
  BY <1>3, <1>8 DEF OnWalk, hs
<1>10. b <= hs \/ a + b <= q
  <2>1. \/ a = ls
        \/ b <= hs \/ a + b <= q
        \/ b <= hs
    BY <1>3 DEF OnWalk, ls, hs, q
  <2> HIDE DEF a, b
  <2>2. QED BY <1>2, <1>5, <2>1
<1>11. R[k].at = r /\ R[k - 1].at = p
  BY <1>1 DEF r, p
<1> HIDE DEF a, b, a0, b0, a2, b2
<1>12. a0 < a /\ a <= q /\ q - a < Q /\ a > 0
  BY <1>2, <1>5, <1>8, <1>9
<1>13. a <= r.rLo[1]
  <2>1. r.lo = <<a, a2>> /\ r.hi = <<b2, b>> /\ ~IsEmpty(r.lo)
        /\ r.rLo = IntervalUnion(r.lo, BackwardOf(r.hi, q, Q))
    BY <1>3, <1>5, <1>9, <1>11 DEF IsEmpty
  <2> DEFINE u == BackwardOf(r.hi, q, Q)
  <2>2. CASE IsEmpty(u)
    <3> HIDE DEF u
    <3>1. r.rLo = r.lo
      BY <2>1, <2>2 DEF IntervalUnion, u
    <3>2. QED BY <1>9, <2>1, <3>1
  <2>3. CASE ~IsEmpty(u)
    <3>1. ~IsEmpty(r.hi)
      <4>1. IsEmpty(<<0, 0>>)
        BY DEF IsEmpty
      <4>2. QED BY <2>3, <4>1 DEF BackwardOf
    <3>2. b2 < b
      BY <1>9, <2>1, <3>1 DEF IsEmpty
    <3>3. a + b <= q
      BY <1>2, <1>9, <1>10, <3>2
    <3>4. u[1] = MaxOf(q - b, 0)
      BY <2>1, <3>1 DEF BackwardOf
    <3>5. u[1] >= a /\ u[1] \in Int
      BY <1>2, <1>9, <3>3, <3>4 DEF MaxOf
    <3> HIDE DEF u
    <3>6. r.rLo[1] = MinOf(a, u[1])
      BY <2>1, <2>3 DEF IntervalUnion, u
    <3>7. QED BY <1>9, <3>5, <3>6 DEF MinOf
  <2>4. QED BY <2>2, <2>3
<1>14. r.rHi[2] <= q - a + 1
  <2>1. r.lo = <<a, a2>> /\ r.hi = <<b2, b>> /\ ~IsEmpty(r.lo)
        /\ r.rHi = IntervalUnion(r.hi, BackwardOf(r.lo, q, Q))
    BY <1>3, <1>5, <1>9, <1>11 DEF IsEmpty
  <2> DEFINE u == BackwardOf(r.lo, q, Q)
  <2>2. u[2] = MinOf(MaxOf(q - a + 1, 0), Q)
    BY <2>1 DEF BackwardOf
  <2>3. u[2] <= q - a + 1 /\ u[2] \in Int
    BY <1>2, <1>9, <1>12, <2>2 DEF MinOf, MaxOf
  <2> HIDE DEF u
  <2>4. CASE IsEmpty(r.hi)
    BY <2>1, <2>3, <2>4 DEF IntervalUnion, u
  <2>5. CASE ~IsEmpty(r.hi)
    <3>1. b2 < b
      BY <1>9, <2>1, <2>5 DEF IsEmpty
    <3>2. b <= q - a
      BY <1>2, <1>9, <1>10, <3>1
    <3>3. r.rHi[2] = b \/ r.rHi[2] = MaxOf(b, u[2])
      BY <2>1, <2>5 DEF IntervalUnion, u
    <3>4. QED BY <1>2, <1>9, <2>3, <3>2, <3>3 DEF MaxOf
  <2>6. QED BY <2>4, <2>5
<1>15. p.rHi[1] = q - a /\ q - a + 1 <= p.rHi[2]
  <2>1. p.lo = <<a0, a>> /\ p.hi = <<b, b0>> /\ ~IsEmpty(p.lo)
        /\ p.rHi = IntervalUnion(p.hi, BackwardOf(p.lo, q, Q))
    BY <1>8, <1>9, <1>11, <1>12 DEF IsEmpty
  <2> DEFINE u == BackwardOf(p.lo, q, Q)
  <2>2. u[1] = MaxOf(q - a, 0) /\ u[2] = MinOf(MaxOf(q - a0 + 1, 0), Q)
    BY <2>1 DEF BackwardOf
  <2>3. u[1] = q - a /\ u[2] \in Int /\ q - a + 1 <= u[2]
    BY <1>2, <1>9, <1>12, <2>2 DEF MinOf, MaxOf
  <2> HIDE DEF u
  <2>4. CASE IsEmpty(p.hi)
    BY <2>1, <2>3, <2>4 DEF IntervalUnion, u
  <2>5. CASE ~IsEmpty(p.hi)
    <3>1. b < b0
      BY <1>9, <2>1, <2>5 DEF IsEmpty
    <3>2. b = MinOf(MaxOf(q - a, hs), b0)
      BY <1>2, <1>5, <1>8, <1>9, <1>12, <3>1
    <3>3. q - a <= b
      BY <1>2, <1>9, <3>1, <3>2 DEF MinOf, MaxOf
    <3>4. ~IsEmpty(u)
      BY <1>2, <1>9, <2>3 DEF IsEmpty
    <3>5. p.rHi = <<MinOf(b, u[1]), MaxOf(b0, u[2])>>
      BY <2>1, <2>5, <3>4 DEF IntervalUnion, u
    <3>6. QED BY <1>2, <1>9, <2>3, <3>3, <3>5 DEF MinOf, MaxOf
  <2>6. QED BY <2>4, <2>5
<1>16. p.lo[2] = a /\ p.lo[1] = a0
  BY <1>8, <1>11
<1>17. q - a \in Nat /\ q - a + a = q
  BY <1>2, <1>9, <1>12
<1>18. QED BY <1>1, <1>7, <1>9, <1>12, <1>13, <1>14, <1>15, <1>16, <1>17 DEF r, p, q

(* What a pass computes for an interval is speculative. *)
LEMMA SpeculatedIs ==
  ASSUME Truth, NEW r, IsRange(r, Q1Lines)
  PROVE  Speculative(s1, Speculated(s1, r), r[1] * DPL, r[2] * DPL)
<1> DEFINE lo == r[1] * DPL
           end == r[2] * DPL
           N == Q1Lines * DPL
           out == Speculated(s1, r)
<1>1. Q1Lines \in Nat /\ lo \in Nat /\ end \in Nat /\ Slots(r) \subseteq 0 .. N - 1
  BY Number1, RangeSlots
<1>2. Slots(r) = lo .. end - 1
  BY DEF Slots
<1>3. \A i \in 0 .. N - 1 : s1[i] \in 0 .. 18
  <2>1. DOMAIN s1 = 0 .. N - 1
    BY FirstStep
  <2>2. QED BY <2>1, FirstStep
<1>4. \A i \in Slots(r) : out[i] = Resolved(s1[i], i \in Guessed(s1, r))
  BY DEF Speculated
<1> HIDE DEF lo, end, out, N
<1>5. ASSUME NEW i \in lo .. end - 1
      PROVE  s1[i] \in 0 .. 18 /\ out[i] = Resolved(s1[i], CarryInto(s1, lo, i, FALSE))
  <2>1. i \in lo .. end /\ i \in 0 .. N - 1 /\ i \in Slots(r)
    BY <1>1, <1>2
  <2>2. i \in Guessed(s1, r) <=> CarryInto(s1, lo, i, FALSE)
    BY <2>1, Zenon DEF Guessed, Receiving, lo, end
  <2>3. Resolved(s1[i], i \in Guessed(s1, r)) = Resolved(s1[i], CarryInto(s1, lo, i, FALSE))
    BY ONLY <2>2, ResolvedSame
  <2>4. QED BY <1>3, <1>4, <2>1, <2>3
<1>6. QED BY <1>5 DEF Speculative, lo, end, out

(* A digit that the carry into one interval makes wrong is wrong in every  *)
(* interval that starts between that one's start and the digit.            *)
LEMMA RippleReaches ==
  ASSUME Truth, NEW r, NEW u, IsRange(r, Q1Lines), IsRange(u, Q1Lines),
         NEW p \in Rippled(s1, r, l1), r[1] <= u[1], u[1] * DPL <= p, p < u[2] * DPL
  PROVE  p \in Rippled(s1, u, l1)
<1> DEFINE b == r[1] * DPL
           c == u[1] * DPL
           e == r[2] * DPL
           f == u[2] * DPL
           hadR == Speculated(s1, r)
           hadU == Speculated(s1, u)
<1>1. b \in Nat /\ c \in Nat /\ e \in Nat /\ f \in Nat /\ l1 \in Nat \ {0} /\ b <= c
  <2>1. b \in Nat /\ c \in Nat /\ e \in Nat /\ f \in Nat /\ l1 \in Nat \ {0}
    BY Number1, RangeSlots
  <2>2. b <= c
    BY LinesAscend DEF IsRange
  <2>3. QED BY <2>1, <2>2
<1>2. /\ p \in b .. MinOf(e, l1) - 1 /\ b > 0 /\ CarryInto(s1, 0, b, FALSE)
      /\ \A j \in b .. p - 1 : hadR[j] = 9
  BY DEF Rippled
<1>3. Speculative(s1, hadR, b, e) /\ Speculative(s1, hadU, c, f)
  BY SpeculatedIs
<1>4. p \in Rippled(s1, u, l1) <=>
        /\ p \in c .. MinOf(f, l1) - 1
        /\ c > 0 /\ CarryInto(s1, 0, c, FALSE) /\ \A j \in c .. p - 1 : hadU[j] = 9
  BY DEF Rippled
<1>11. c <= p /\ p < f
  OBVIOUS
<1> HIDE DEF b, c, e, f, hadR, hadU
<1>5. p \in Nat /\ b <= p /\ p <= e /\ p < l1 /\ b <= e /\ p \in b .. e
  BY <1>1, <1>2 DEF MinOf
<1>6. \A j \in b .. p - 1 : s1[j] = 9
  <2>1. (\A i \in b .. p - 1 : hadR[i] = 9) <=> (\A i \in b .. p - 1 : s1[i] = 9)
    <3>1. b \in Nat /\ e \in Nat /\ b <= e /\ p \in b .. e /\ Speculative(s1, hadR, b, e)
      BY <1>1, <1>3, <1>5
    <3>2. QED BY ONLY <3>1, NineRun
  <2>2. QED BY <1>2, <2>1
<1>7. CarryInto(s1, 0, c, FALSE)
  <2>1. CarryInto(s1, 0, c, FALSE) <=> CarryInto(s1, b, c, CarryInto(s1, 0, b, FALSE))
    BY <1>1, CarryFromZero
  <2>2. \A i \in b .. c - 1 : s1[i] = 9
    BY <1>1, <1>5, <1>6, <1>11
  <2>3. QED BY <1>2, <2>1, <2>2 DEF CarryInto
<1>8. \A j \in c .. p - 1 : hadU[j] = 9
  <2>1. p \in c .. f /\ c <= f
    BY <1>1, <1>5, <1>11
  <2>2. (\A i \in c .. p - 1 : hadU[i] = 9) <=> (\A i \in c .. p - 1 : s1[i] = 9)
    <3>1. c \in Nat /\ f \in Nat /\ c <= f /\ p \in c .. f /\ Speculative(s1, hadU, c, f)
      BY <1>1, <1>3, <2>1
    <3>2. QED BY ONLY <3>1, NineRun
  <2>3. \A i \in c .. p - 1 : s1[i] = 9
    BY <1>1, <1>5, <1>6
  <2>4. QED BY <2>2, <2>3
<1>9. p \in c .. MinOf(f, l1) - 1 /\ c > 0
  BY <1>1, <1>2, <1>5, <1>11 DEF MinOf
<1>10. QED BY <1>4, <1>7, <1>8, <1>9

(* If a line is the only one of its block's chain to be repaired, its      *)
(* round read nothing wrong below it: a digit of the mirror interval that  *)
(* is wrong for a slot of an earlier chunk is the one the carry runs into  *)
(* at that interval's end, and the round that computed the slot had it     *)
(* wrong as well.                                                          *)
LEMMA ReadBelow ==
  ASSUME Truth, NEW t \in Thread, NEW k \in DOMAIN rounds[t],
         NEW line \in Lines(Round(t, k).lo),
         \A j \in DOMAIN rounds[t] : \A x \in Nat :
           x \in Affected(Round(t, j).lo, RippleLo(t, j), RippleHi(t, j), l1)
             => j = k /\ x = line,
         NEW d \in LowStartOf(t, l1) * DPL .. line * DPL - 1
  PROVE  LowSums(t, k)[d] = s2[d]
<1> DEFINE r == Round(t, k)
           p == Round(t, k - 1)
           a == r.lo[1]
           q == l1 \div DPL
           m == q - a
           c == LowSums(t, k)
           N == Q1Lines * DPL
           z == d \div DPL
           e == l1 - 1 - d
<1>1. /\ l1 \in Nat \ {0} /\ N \in Nat /\ l1 <= N /\ DPL \in Nat \ {0} /\ Q1Lines \in Nat
  BY Number1
<1>2. /\ a \in Nat /\ r.lo[2] \in Nat /\ LowStartOf(t, l1) \in Nat /\ LowEndOf(t, l1) <= Q1Lines
      /\ LowStartOf(t, l1) <= a /\ a <= r.lo[2] /\ r.lo[2] <= LowEndOf(t, l1) /\ k \in Nat
      /\ LowEndOf(t, l1) \in Nat
  BY ChunksOfRound, ChainsClear
<1>3. line \in Nat /\ a <= line /\ line < r.lo[2] /\ line < Q1Lines
  <2>1. line \in a .. r.lo[2] - 1
    BY DEF Lines
  <2> HIDE DEF r
  <2>2. QED BY <1>1, <1>2, <2>1
<1>4. /\ d \in Nat /\ d < line * DPL /\ d < N /\ LowStartOf(t, l1) * DPL <= d
  <2>1. LowStartOf(t, l1) * DPL \in Nat /\ line * DPL \in Nat /\ line * DPL <= N
    BY <1>1, <1>2, <1>3, LineMultiple, LinesAscend
  <2> HIDE DEF N
  <2>2. QED BY <1>1, <2>1
<1>5. /\ z \in Nat /\ d \in LineSlots(z) /\ \A x \in Nat : d < x * DPL <=> z < x
  BY <1>4, LineOfSlot
<1>6. /\ IsRange(r.lo, Q1Lines) /\ IsRange(r.rLo, Q1Lines) /\ IsRange(r.rHi, Q1Lines)
  BY RoundReads
<1>7. c = ConsumedSums(d1, l1, RippleOf(s1, r.rLo, l1), RippleOf(s1, r.rHi, l1))
  BY DEF LowSums, RippleLo, RippleHi
<1>8. c[d] # s2[d] <=> (d \in Rippled(s1, r.rLo, l1) \/ (d < l1 /\ e \in Rippled(s1, r.rHi, l1)))
  <2>1. d \in 0 .. Q1Lines * DPL - 1
    BY <1>1, <1>4
  <2>2. QED BY <1>6, <1>7, <2>1, ConsumedDiffers
<1> HIDE DEF c, r, q, z, e, N
<1>9. z < line
  BY <1>3, <1>4, <1>5
<1>10. CASE a <= z
  <2>1. z \in Lines(r.lo) /\ z # line
    BY <1>2, <1>3, <1>5, <1>9, <1>10 DEF Lines
  <2>2. z \notin Affected(r.lo, RippleLo(t, k), RippleHi(t, k), l1)
    BY <1>5, <2>1 DEF r
  <2>3. \A i \in LineSlots(z) : c[i] = s2[i]
    <3>1. RippleLo(t, k) = RippleOf(s1, r.rLo, l1) /\ RippleHi(t, k) = RippleOf(s1, r.rHi, l1)
      BY DEF r, RippleLo, RippleHi
    <3>2. QED BY <1>5, <1>6, <1>7, <2>1, <2>2, <3>1, AffectedIs
  <2>4. QED BY <1>5, <2>3 DEF c
<1>11. CASE z < a
  <2> SUFFICES ASSUME c[d] # s2[d] PROVE FALSE
    BY DEF c
  <2>0. LowStartOf(t, l1) < a /\ a < LowEndOf(t, l1)
    <3>1. ~(d < LowStartOf(t, l1) * DPL)
      <4>1. LowStartOf(t, l1) * DPL \in Nat
        BY <1>2, LineMultiple
      <4>2. QED BY <1>4, <4>1
    <3>2. ~(z < LowStartOf(t, l1))
      BY <1>2, <1>5, <3>1
    <3>3. QED BY <1>2, <1>3, <1>5, <1>11, <3>2
  <2>1. /\ k - 1 \in DOMAIN rounds[t] /\ k - 1 # k
        /\ p.lo[2] = a /\ p.lo[1] \in Nat /\ p.lo[1] < a
        /\ m \in Nat /\ m + a = q
        /\ a <= r.rLo[1] /\ r.rHi[2] <= m + 1
        /\ p.rHi[1] = m /\ m + 1 <= p.rHi[2]
    BY <2>0, RoundAbove DEF r, q
  <2> HIDE DEF p, m
  <2>2. /\ IsRange(p.lo, Q1Lines) /\ IsRange(p.rLo, Q1Lines) /\ IsRange(p.rHi, Q1Lines)
    BY <2>1, RoundReads DEF p
  <2> DEFINE aD == a * DPL
             mD == m * DPL
  <2>3. /\ aD \in Nat /\ mD \in Nat /\ aD + mD <= l1 /\ d < aD
        /\ (m + 1) * DPL = mD + DPL /\ aD - DPL \in Nat /\ (a - 1) * DPL = aD - DPL
    <3>1. aD \in Nat /\ mD \in Nat /\ (m + 1) * DPL = mD + DPL
      BY <1>2, <2>1, LineMultiple
    <3>2. q * DPL <= l1
      BY <1>1, Quotient DEF q
    <3>3. q * DPL = aD + mD
      BY <1>1, <1>2, <2>1
    <3>4. d < aD
      BY <1>2, <1>5, <1>11
    <3>5. a - 1 \in Nat
      BY <1>2, <2>1
    <3>6. (a - 1) * DPL \in Nat /\ (a - 1 + 1) * DPL = (a - 1) * DPL + DPL /\ a - 1 + 1 = a
      <4>1. a - 1 + 1 = a
        BY <1>2
      <4>2. QED BY <3>5, <4>1, LineMultiple
    <3> DEFINE y == (a - 1) * DPL
    <3>7. y \in Nat /\ aD = y + DPL
      BY <3>6
    <3> HIDE DEF aD, mD, y
    <3>8. aD - DPL = y
      BY <1>1, <3>7
    <3>9. QED BY <3>1, <3>2, <3>3, <3>4, <3>7, <3>8 DEF y
  <2>4. d \notin Rippled(s1, r.rLo, l1)
    <3>1. \A i \in Rippled(s1, r.rLo, l1) : i >= r.rLo[1] * DPL
      <4>1. r.rLo[1] * DPL \in Nat
        BY <1>6, LineMultiple DEF IsRange
      <4>2. r.rLo[2] * DPL \in Nat
        BY <1>6, LineMultiple DEF IsRange
      <4>3. QED BY <1>1, <4>1, <4>2 DEF Rippled, MinOf
    <3>2. aD <= r.rLo[1] * DPL /\ r.rLo[1] * DPL \in Nat
      BY <1>2, <1>6, <2>1, LinesAscend, LineMultiple DEF IsRange
    <3> HIDE DEF aD
    <3>3. QED BY <1>4, <2>3, <3>1, <3>2
  <2>5. d < l1 /\ e \in Rippled(s1, r.rHi, l1)
    BY <1>8, <2>4
  <2>6. /\ r.rHi[1] * DPL <= e /\ e < r.rHi[2] * DPL /\ e \in Nat
        /\ r.rHi[1] * DPL \in Nat /\ r.rHi[2] * DPL \in Nat /\ r.rHi[1] \in Nat /\ r.rHi[2] \in Nat
    <3>1. /\ r.rHi[1] * DPL \in Nat /\ r.rHi[2] * DPL \in Nat
          /\ r.rHi[1] \in Nat /\ r.rHi[2] \in Nat
      BY <1>6, LineMultiple DEF IsRange
    <3>2. e \in r.rHi[1] * DPL .. MinOf(r.rHi[2] * DPL, l1) - 1
      BY <2>5 DEF Rippled
    <3>3. QED BY <1>1, <3>1, <3>2 DEF MinOf
  <2>7. e < mD + DPL
    <3>1. r.rHi[2] * DPL <= (m + 1) * DPL
      BY <2>1, <2>6, LinesAscend
    <3>2. QED BY <1>1, <2>3, <2>6, <3>1
  <2>8. mD <= e /\ aD - DPL <= d
    <3> HIDE DEF aD, mD
    <3>1. e = l1 - 1 - d
      BY DEF e
    <3>2. QED BY <1>1, <1>4, <2>3, <2>7, <3>1
  <2>9. r.rHi[1] <= m
    <3>1. r.rHi[1] * DPL < (m + 1) * DPL
      <4> HIDE DEF mD
      <4>1. (m + 1) * DPL = mD + DPL /\ mD + DPL \in Nat
        BY <1>1, <2>3
      <4>2. QED BY <2>6, <2>7, <4>1
    <3>2. r.rHi[1] < m + 1
      BY <1>1, <2>1, <2>6, <3>1, Cancel
    <3>3. QED BY <2>1, <2>6, <3>2
  <2>10. e \in Rippled(s1, p.rHi, l1)
    <3>1. p.rHi[1] * DPL <= e
      BY <2>1, <2>8
    <3>2. e < p.rHi[2] * DPL
      <4>1. (m + 1) * DPL <= p.rHi[2] * DPL /\ p.rHi[2] * DPL \in Nat
        <5>1. m + 1 \in Nat /\ p.rHi[2] \in Nat /\ m + 1 <= p.rHi[2]
          BY <2>1, <2>2 DEF IsRange
        <5>2. QED BY <5>1, LinesAscend, LineMultiple
      <4> HIDE DEF mD
      <4>2. QED BY <1>1, <2>3, <2>6, <2>7, <4>1
    <3>3. r.rHi[1] <= p.rHi[1]
      BY <2>1, <2>9
    <3>4. QED BY <1>6, <2>2, <2>5, <3>1, <3>2, <3>3, RippleReaches
  <2>11. z = a - 1
    <3>1. ~(d < (a - 1) * DPL)
      <4> HIDE DEF aD
      <4>1. QED BY <1>1, <1>4, <2>3, <2>8
    <3>2. a - 1 \in Nat
      BY <1>2, <2>1
    <3>3. ~(z < a - 1)
      BY <1>5, <3>1, <3>2
    <3>4. QED BY <1>2, <1>5, <1>11, <3>3
  <2>12. z \in Lines(p.lo)
    BY <1>2, <2>1, <2>11 DEF Lines
  <2>13. ConsumedSums(d1, l1, RippleOf(s1, p.rLo, l1), RippleOf(s1, p.rHi, l1))[d] # s2[d]
    <3>1. d \in 0 .. Q1Lines * DPL - 1
      BY <1>1, <1>4 DEF N
    <3>2. QED BY <2>2, <2>5, <2>10, <3>1, ConsumedDiffers DEF e
  <2>14. z \in Affected(p.lo, RippleOf(s1, p.rLo, l1), RippleOf(s1, p.rHi, l1), l1)
    BY <1>5, <2>2, <2>12, <2>13, AffectedIs
  <2>15. z \in Affected(p.lo, RippleLo(t, k - 1), RippleHi(t, k - 1), l1)
    BY <2>14 DEF RippleLo, RippleHi, p
  <2>16. QED BY <1>5, <2>1, <2>15 DEF p
<1>12. QED BY <1>2, <1>5, <1>10, <1>11

-----------------------------------------------------------------------------
(* The pass fills the chains *)

(* A buffer holds what the chain r makes of sums s, and that carry has     *)
(* been recorded for it.                                                   *)
Held(b, s, r, carry) ==
  /\ \A d \in Slots(r) : b[d] = Chained(s, r[1] * DPL, d)
  /\ carry \in BOOLEAN /\ (carry <=> CarryInto(s, r[1] * DPL, r[2] * DPL, FALSE))

(* What a thread has done of its low chain, and the high ones it is        *)
(* through with.                                                           *)
PassHeld(t) ==
  LET w == walk[t]
  IN  /\ Held(dst, LowRead(t), <<LowStartOf(t, l1), LowAt(t, w.n)>>, w.carry)
      /\ \A k \in 0 .. w.n - 1 : ~IsEmpty(Round(t, k).hi) =>
           Held(dst, HighSums(t, k), Round(t, k).hi, chunkCarry[ChunkSlot(t, k)])
      /\ w.at = "end" => blockCarry[t] = w.carry

Buffers ==
  /\ DOMAIN dst = Slots(<<0, DivCeil(l1 + 1, DPL)>>)
  /\ DOMAIN blockCarry = Thread
  /\ DOMAIN chunkCarry = 0 .. NumThreads * FusedHiStride(Q1Lines) - 1

LEMMA HeldKept ==
  ASSUME NEW b, NEW c, NEW s, NEW r, NEW carry, Held(b, s, r, carry),
         \A d \in Slots(r) : c[d] = b[d]
  PROVE  Held(c, s, r, carry)
BY DEF Held

(* The destination has a slot above the intermediate number. *)
LEMMA RoomIs ==
  ASSUME Truth, Buffers
  PROVE  /\ 0 .. Q1Lines * DPL - 1 \subseteq DOMAIN dst
         /\ l1 \in DOMAIN dst /\ \A d \in DOMAIN dst : d \in Nat
         /\ DivCeil(l1 + 1, DPL) \in {Q1Lines, Q1Lines + 1}
<1> DEFINE N == Q1Lines * DPL
           M == DivCeil(l1 + 1, DPL) * DPL
           P == DivCeil(l1 + 1, DPL)
<1>1. l1 \in Nat \ {0} /\ N \in Nat /\ l1 <= N /\ Q1Lines \in Nat \ {0} /\ l1 + 1 \in Nat \ {0}
  BY Number1
<1>2. P \in Nat \ {0} /\ M \in Nat /\ l1 + 1 <= M
  <2>1. P \in Nat \ {0} /\ l1 + 1 <= M
    BY <1>1, LinesOfDigits
  <2>2. QED BY <2>1, LineMultiple
<1>3. Q1Lines <= P
  <2>1. \A x \in Nat : l1 <= x * DPL <=> Q1Lines <= x
    BY <1>1, LinesOfDigits DEF Q1Lines
  <2>2. l1 <= M
    <3> HIDE DEF M
    <3>1. QED BY <1>1, <1>2
  <2>3. QED BY <1>2, <2>1, <2>2
<1>4. P <= Q1Lines + 1
  <2>1. \A x \in Nat : l1 + 1 <= x * DPL <=> P <= x
    BY <1>1, LinesOfDigits
  <2>2. (Q1Lines + 1) * DPL = N + DPL /\ DPL \in Nat \ {0} /\ Q1Lines + 1 \in Nat
    BY <1>1, LineMultiple
  <2>3. l1 + 1 <= (Q1Lines + 1) * DPL
    <3> HIDE DEF N
    <3>1. QED BY <1>1, <2>2
  <2>4. QED BY <2>1, <2>2, <2>3
<1>5. N <= M
  BY <1>1, <1>2, <1>3, LinesAscend
<1>6. DOMAIN dst = 0 .. M - 1
  <2>1. 0 * DPL = 0
    BY LineAssumption
  <2>2. QED BY <2>1 DEF Buffers, Slots
<1> HIDE DEF N, M, P
<1>7. 0 .. N - 1 \subseteq DOMAIN dst /\ l1 \in DOMAIN dst /\ \A d \in DOMAIN dst : d \in Nat
  BY <1>1, <1>2, <1>5, <1>6
<1>8. P \in {Q1Lines, Q1Lines + 1}
  BY <1>1, <1>2, <1>3, <1>4
<1>9. QED BY <1>7, <1>8 DEF N, P

(* All this is a matter of the number and its rounds. *)
LEMMA TruthOnly ==
  ASSUME UNCHANGED truth, NEW t
  PROVE  /\ LowRead(t)' = LowRead(t) /\ LowChain(t)' = LowChain(t)
         /\ LowStartOf(t, l1)' = LowStartOf(t, l1) /\ LowEndOf(t, l1)' = LowEndOf(t, l1)
         /\ \A k : /\ LowAt(t, k)' = LowAt(t, k)
                   /\ Round(t, k)' = Round(t, k) /\ HighSums(t, k)' = HighSums(t, k)
                   /\ LowSums(t, k)' = LowSums(t, k)
                   /\ RippleLo(t, k)' = RippleLo(t, k) /\ RippleHi(t, k)' = RippleHi(t, k)
                   /\ ChunkSlot(t, k)' = ChunkSlot(t, k)
         /\ Q1Lines' = Q1Lines
<1>1. UNCHANGED <<l1, s1, d1, s2, rounds>>
  BY DEF truth
<1>2. Q1Lines' = Q1Lines
  BY <1>1 DEF Q1Lines
<1>3. \A k : Round(t, k)' = Round(t, k)
  BY <1>1 DEF Round
<1>4. \A k : RippleLo(t, k)' = RippleLo(t, k) /\ RippleHi(t, k)' = RippleHi(t, k)
  BY <1>1, <1>3 DEF RippleLo, RippleHi
<1>5. \A k : HighSums(t, k)' = HighSums(t, k) /\ LowSums(t, k)' = LowSums(t, k)
  BY <1>1, <1>4 DEF HighSums, LowSums
<1>6. \A k : ChunkSlot(t, k)' = ChunkSlot(t, k)
  BY <1>1, <1>2 DEF ChunkSlot
<1>7. /\ LowStartOf(t, l1)' = LowStartOf(t, l1) /\ LowEndOf(t, l1)' = LowEndOf(t, l1)
      /\ LowChain(t)' = LowChain(t)
  BY <1>1 DEF LowChain
<1>8. \A k : LowAt(t, k)' = LowAt(t, k)
  BY <1>1, <1>3, <1>7 DEF LowAt
<1>9. LowRead(t)' = LowRead(t)
  <2>1. \A d : LowRound(t, d)' = LowRound(t, d)
    BY <1>1, <1>3 DEF LowRound
  <2>2. QED BY <1>5, <1>7, <2>1 DEF LowRead
<1>10. QED BY <1>2, <1>3, <1>4, <1>5, <1>6, <1>7, <1>8, <1>9

(* The slots a round writes, and no others. *)
LEMMA RoundWrites ==
  ASSUME PassInv, Buffers, NEW t \in Thread, PhaseB(t)
  PROVE  LET r == Round(t, walk[t].n)
         IN  /\ DOMAIN dst' = DOMAIN dst
             /\ \A d \in Slots(r.lo) : dst'[d] = LowOutput(t).digit[d]
             /\ \A d \in Slots(r.hi) : dst'[d] = HighOutput(t).digit[d]
             /\ \A d \in 0 .. Q1Lines * DPL - 1 :
                  d \notin Slots(r.lo) /\ d \notin Slots(r.hi) => dst'[d] = dst[d]
             /\ \A d \in DOMAIN dst : d >= Q1Lines * DPL => dst'[d] = dst[d]
<1> DEFINE k == walk[t].n
           r == Round(t, k)
           lo == LowOutput(t)
           hi == HighOutput(t)
           N == Q1Lines * DPL
<1>1. /\ walk[t].at = "B" /\ k \in DOMAIN rounds[t] /\ Truth
      /\ dst' = Overlay(Overlay(dst, lo.digit), hi.digit)
  BY EffectB DEF PassInv
<1>2. DOMAIN lo.digit = Slots(r.lo)
  BY <1>1, LowOutputIs
<1>3. DOMAIN hi.digit = Slots(r.hi)
  BY <1>1, HighOutputIs
<1>4. IsRange(r.lo, Q1Lines) /\ IsRange(r.hi, Q1Lines) /\ Q1Lines \in Nat /\ N \in Nat
  BY <1>1, RoundReads, Number1
<1>5. Slots(r.lo) \subseteq 0 .. N - 1 /\ Slots(r.hi) \subseteq 0 .. N - 1
  BY <1>4, RangeSlots
<1>6. 0 .. N - 1 \subseteq DOMAIN dst
  BY <1>1, RoomIs
<1>7. \A d \in Slots(r.lo) : d \notin Slots(r.hi)
  <2>1. Clear(r.lo, r.hi)
    <3>1. r.lo[2] <= LowEndOf(t, l1) /\ HighStartOf(t, l1) <= r.hi[1] /\ r.lo[2] \in Nat /\ r.hi[1] \in Nat
      BY <1>1, ChunksOfRound
    <3>2. LowEndOf(t, l1) <= HighStartOf(t, l1) /\ LowEndOf(t, l1) \in Nat /\ HighStartOf(t, l1) \in Nat
      BY <1>1, Number1, BlocksOfThread
    <3> HIDE DEF r
    <3>3. QED BY <3>1, <3>2 DEF Clear
  <2>2. QED BY <1>4, <2>1, ClearSlots DEF IsRange
<1> HIDE DEF lo, hi, r, N
<1>8. /\ DOMAIN dst' = DOMAIN dst
      /\ \A d \in DOMAIN dst :
           dst'[d] = IF d \in DOMAIN hi.digit THEN hi.digit[d]
                     ELSE IF d \in DOMAIN lo.digit THEN lo.digit[d] ELSE dst[d]
  BY <1>1 DEF Overlay
<1>9. \A d \in Slots(r.lo) : dst'[d] = lo.digit[d]
  BY <1>2, <1>3, <1>5, <1>6, <1>7, <1>8
<1>10. \A d \in Slots(r.hi) : dst'[d] = hi.digit[d]
  BY <1>3, <1>5, <1>6, <1>8
<1>11. \A d \in 0 .. N - 1 : d \notin Slots(r.lo) /\ d \notin Slots(r.hi) => dst'[d] = dst[d]
  BY <1>2, <1>3, <1>6, <1>8
<1>12. \A d \in DOMAIN dst : d >= N => dst'[d] = dst[d]
  <2>1. \A d \in 0 .. N - 1 : ~(d >= N)
    BY <1>4
  <2>2. QED BY <1>2, <1>3, <1>5, <1>8, <2>1
<1>13. QED BY <1>8, <1>9, <1>10, <1>11, <1>12 DEF r, lo, hi, N

(* The thread itself, one round on: its low chain goes on where it was,    *)
(* and its high chunk is a chain of its own.                               *)
LEMMA RoundHeld ==
  ASSUME PassInv, Buffers, NEW t \in Thread, PhaseB(t), PassHeld(t), UNCHANGED truth
  PROVE  PassHeld(t)'
<1> DEFINE w == walk[t]
           k == w.n
           r == Round(t, k)
           lo == LowOutput(t)
           hi == HighOutput(t)
           ls == LowStartOf(t, l1)
           s == LowRead(t)
           c == LowSums(t, k)
           N == Q1Lines * DPL
           b == ls * DPL
           m == r.lo[1] * DPL
           e == r.lo[2] * DPL
<1>1. /\ Truth /\ w.at = "B" /\ k \in DOMAIN rounds[t] /\ k \in Nat
      /\ walk'[t].n = k + 1 /\ walk'[t].at = "A" /\ walk'[t].carry = lo.carry
      /\ chunkCarry' = IF IsEmpty(r.hi) THEN chunkCarry
                       ELSE [chunkCarry EXCEPT ![ChunkSlot(t, k)] = hi.carry]
  BY EffectB DEF PassInv
<1>2. /\ DOMAIN lo.digit = Slots(r.lo)
      /\ \A d \in Slots(r.lo) : lo.digit[d] = Resolved(c[d], CarryInto(c, m, d, w.carry))
      /\ lo.carry \in BOOLEAN /\ (lo.carry <=> CarryInto(c, m, e, w.carry))
  BY <1>1, LowOutputIs
<1>3. /\ DOMAIN hi.digit = Slots(r.hi)
      /\ \A d \in Slots(r.hi) :
           hi.digit[d] = Chained(HighSums(t, k), r.hi[1] * DPL, d)
      /\ hi.carry \in BOOLEAN
      /\ hi.carry <=> CarryInto(HighSums(t, k), r.hi[1] * DPL, r.hi[2] * DPL, FALSE)
  BY <1>1, HighOutputIs DEF Chained
<1>4. /\ DOMAIN dst' = DOMAIN dst
      /\ \A d \in Slots(r.lo) : dst'[d] = lo.digit[d]
      /\ \A d \in Slots(r.hi) : dst'[d] = hi.digit[d]
      /\ \A d \in 0 .. N - 1 :
           d \notin Slots(r.lo) /\ d \notin Slots(r.hi) => dst'[d] = dst[d]
  BY RoundWrites
<1>5. /\ r.lo[1] \in Nat /\ r.lo[2] \in Nat /\ r.hi[1] \in Nat /\ r.hi[2] \in Nat
      /\ ls \in Nat /\ ls <= r.lo[1] /\ r.lo[1] <= r.lo[2] /\ LowEndOf(t, l1) \in Nat
      /\ r.lo[2] <= LowEndOf(t, l1) /\ LowEndOf(t, l1) <= Q1Lines
      /\ LowAt(t, k) = r.lo[1] /\ LowAt(t, k + 1) = r.lo[2]
      /\ \A j \in 0 .. k : j \in DOMAIN rounds[t]
  BY <1>1, ChunksOfRound, ChainsClear
<1>6. /\ b \in Nat /\ m \in Nat /\ e \in Nat /\ b <= m /\ m <= e /\ N \in Nat /\ e <= N
      /\ Slots(r.lo) = m .. e - 1
  <2>1. b \in Nat /\ m \in Nat /\ e \in Nat /\ b <= m /\ m <= e
    BY <1>5, LineMultiple, LinesAscend
  <2>2. N \in Nat /\ Q1Lines \in Nat
    BY <1>1, Number1
  <2>3. r.lo[2] <= Q1Lines
    <3> HIDE DEF r
    <3>1. QED BY <1>5, <2>2
  <2>4. e <= N
    BY <1>5, <2>2, <2>3, LinesAscend
  <2>5. QED BY <2>1, <2>2, <2>4 DEF Slots
<1>7. /\ Held(dst, s, <<ls, r.lo[1]>>, w.carry)
      /\ \A j \in 0 .. k - 1 : ~IsEmpty(Round(t, j).hi) =>
           Held(dst, HighSums(t, j), Round(t, j).hi, chunkCarry[ChunkSlot(t, j)])
  BY <1>5 DEF PassHeld
<1>8. /\ \A d \in b .. m - 1 : dst[d] = Chained(s, b, d)
      /\ w.carry \in BOOLEAN /\ (w.carry <=> CarryInto(s, b, m, FALSE))
  BY <1>7 DEF Held, Slots
<1>9. \A d \in Slots(r.lo) : s[d] = c[d]
  BY <1>1, LowReadIs
<1>10. \A j \in DOMAIN rounds[t] : Clear(LowChain(t), Round(t, j).hi)
                                   /\ Clear(Round(t, j).hi, LowChain(t))
  BY <1>1, ChainsClear
<1> HIDE DEF w, r, lo, hi, s, c, b, m, e, N
<1>11. ASSUME NEW d \in m .. e
       PROVE  CarryInto(c, m, d, w.carry) <=> CarryInto(s, b, d, FALSE)
  <2>1. d \in Nat /\ m <= d /\ \A i \in m .. d - 1 : s[i] = c[i]
    BY <1>6, <1>9
  <2>2. CarryInto(s, m, d, w.carry) <=> CarryInto(c, m, d, w.carry)
    BY <1>6, <2>1, CarryOfEqual
  <2>3. CarryInto(s, b, d, FALSE) <=> CarryInto(s, m, d, w.carry)
    BY <1>6, <1>8, <2>1, CarryFrom
  <2>4. QED BY <2>2, <2>3
<1>12. \A d \in m .. e - 1 : dst'[d] = Chained(s, b, d)
  <2> SUFFICES ASSUME NEW d \in m .. e - 1 PROVE dst'[d] = Chained(s, b, d)
    OBVIOUS
  <2>1. d \in m .. e
    BY <1>6
  <2>2. dst'[d] = Resolved(c[d], CarryInto(c, m, d, w.carry)) /\ s[d] = c[d]
    BY <1>2, <1>4, <1>6, <1>9
  <2>3. CarryInto(c, m, d, w.carry) <=> CarryInto(s, b, d, FALSE)
    BY <1>11, <2>1
  <2>4. Resolved(c[d], CarryInto(c, m, d, w.carry)) = Resolved(c[d], CarryInto(s, b, d, FALSE))
    BY ONLY <2>3, ResolvedSame
  <2>5. QED BY <2>2, <2>4 DEF Chained
<1>13. \A d \in Slots(LowChain(t)) : d \in 0 .. N - 1 /\ \A j \in DOMAIN rounds[t] : d \notin Slots(Round(t, j).hi)
  <2>1. Slots(LowChain(t)) \subseteq 0 .. N - 1
    <3>1. IsRange(LowChain(t), Q1Lines)
      BY <1>5 DEF IsRange, LowChain
    <3>2. Q1Lines \in Nat
      BY <1>1, Number1
    <3>3. QED BY <3>1, <3>2, RangeSlots DEF N
  <2>2. ASSUME NEW d \in Slots(LowChain(t)), NEW j \in DOMAIN rounds[t]
        PROVE  d \notin Slots(Round(t, j).hi)
    <3>1. LowChain(t)[1] \in Nat /\ LowChain(t)[2] \in Nat
      BY <1>5 DEF LowChain
    <3>2. Round(t, j).hi[1] \in Nat /\ Round(t, j).hi[2] \in Nat
      BY <1>1, ChunksOfRound
    <3>3. QED BY <1>10, <3>1, <3>2, ClearSlots
  <2>3. QED BY <2>1, <2>2
<1>14. \A d \in b .. m - 1 : dst'[d] = dst[d]
  <2> SUFFICES ASSUME NEW d \in b .. m - 1 PROVE dst'[d] = dst[d]
    OBVIOUS
  <2>1. d \in Slots(LowChain(t))
    <3>1. m <= LowEndOf(t, l1) * DPL /\ LowEndOf(t, l1) * DPL \in Nat
      <4>1. r.lo[1] <= LowEndOf(t, l1)
        BY <1>5
      <4>2. QED BY <1>5, <4>1, LinesAscend, LineMultiple DEF m
    <3>2. LowChain(t)[1] = ls /\ LowChain(t)[2] = LowEndOf(t, l1)
      BY DEF LowChain
    <3>3. QED BY <1>6, <3>1, <3>2 DEF Slots, b
  <2>2. d \in 0 .. N - 1 /\ d \notin Slots(r.hi) /\ d \notin Slots(r.lo)
    <3>1. d \notin Slots(r.lo)
      BY <1>6
    <3>2. QED BY <1>1, <1>13, <2>1, <3>1 DEF r
  <2>3. QED BY <1>4, <2>2
<1>15. Held(dst', s, <<ls, r.lo[2]>>, lo.carry)
  <2>1. \A d \in b .. e - 1 : dst'[d] = Chained(s, b, d)
    <3> SUFFICES ASSUME NEW d \in b .. e - 1 PROVE dst'[d] = Chained(s, b, d)
      OBVIOUS
    <3>1. d \in b .. m - 1 \/ d \in m .. e - 1
      BY <1>6
    <3>2. QED BY <1>8, <1>12, <1>14, <3>1
  <2>2. lo.carry <=> CarryInto(s, b, e, FALSE)
    <3>1. e \in m .. e
      BY <1>6
    <3>2. QED BY <1>2, <1>11, <3>1
  <2>3. QED BY <1>2, <2>1, <2>2 DEF Held, Slots, b, e
<1>16. ASSUME NEW j \in 0 .. k - 1, ~IsEmpty(Round(t, j).hi)
       PROVE  Held(dst', HighSums(t, j), Round(t, j).hi, chunkCarry'[ChunkSlot(t, j)])
  <2>1. j \in DOMAIN rounds[t] /\ j # k
    BY <1>1, <1>5
  <2>2. /\ Round(t, j).hi[1] \in Nat /\ Round(t, j).hi[2] \in Nat
        /\ IsRange(Round(t, j).hi, Q1Lines)
    BY <1>1, <2>1, ChunksOfRound, RoundReads
  <2>3. ASSUME NEW d \in Slots(Round(t, j).hi) PROVE dst'[d] = dst[d]
    <3>1. d \in 0 .. N - 1
      <4>1. Q1Lines \in Nat
        BY <1>1, Number1
      <4>2. QED BY <2>2, <4>1, RangeSlots DEF N
    <3>2. Clear(Round(t, j).hi, r.hi)
      BY <1>1, <2>1, ChainsClear DEF r
    <3>3. d \notin Slots(r.hi)
      BY <1>5, <2>2, <3>2, ClearSlots
    <3>4. d \notin Slots(r.lo)
      <4>1. d \in Slots(r.lo) => d \in Slots(LowChain(t))
        BY <1>1, LowReadIs DEF r
      <4>2. QED BY <1>13, <2>1, <4>1
    <3>5. QED BY <1>4, <3>1, <3>3, <3>4
  <2>4. chunkCarry'[ChunkSlot(t, j)] = chunkCarry[ChunkSlot(t, j)]
    <3>1. CASE IsEmpty(r.hi)
      BY <1>1, <3>1
    <3>2. CASE ~IsEmpty(r.hi)
      <4>1. ChunkSlot(t, j) # ChunkSlot(t, k)
        BY <1>1, <1>16, <2>1, <3>2, SlotsOfChunks DEF r
      <4>2. QED
        <5>1. ChunkSlot(t, j) \in DOMAIN chunkCarry
          BY <1>1, <1>16, <2>1, SlotsOfChunks DEF Buffers
        <5>2. QED BY <1>1, <3>2, <4>1, <5>1
    <3>3. QED BY <3>1, <3>2
  <2>5. Held(dst, HighSums(t, j), Round(t, j).hi, chunkCarry[ChunkSlot(t, j)])
    BY <1>7, <1>16
  <2>6. QED BY <2>3, <2>4, <2>5, HeldKept
<1>17. ASSUME ~IsEmpty(r.hi)
       PROVE  Held(dst', HighSums(t, k), r.hi, chunkCarry'[ChunkSlot(t, k)])
  <2>1. chunkCarry'[ChunkSlot(t, k)] = hi.carry
    <3>1. ChunkSlot(t, k) \in DOMAIN chunkCarry
      BY <1>1, <1>17, SlotsOfChunks DEF Buffers, r
    <3>2. QED BY <1>1, <1>17, <3>1
  <2>2. QED BY <1>3, <1>4, <2>1 DEF Held
<1>18. \A j \in 0 .. k + 1 - 1 : ~IsEmpty(Round(t, j).hi) =>
         Held(dst', HighSums(t, j), Round(t, j).hi, chunkCarry'[ChunkSlot(t, j)])
  <2>1. \A j \in 0 .. k + 1 - 1 : j \in 0 .. k - 1 \/ j = k
    BY <1>1
  <2>2. QED BY <1>16, <1>17, <2>1 DEF r
<1>19. /\ LowRead(t)' = LowRead(t) /\ LowStartOf(t, l1)' = ls
       /\ \A j : /\ LowAt(t, j)' = LowAt(t, j) /\ Round(t, j)' = Round(t, j)
                 /\ HighSums(t, j)' = HighSums(t, j) /\ ChunkSlot(t, j)' = ChunkSlot(t, j)
  BY TruthOnly
<1>20. /\ walk'[t].n = k + 1 /\ walk'[t].at # "end" /\ walk'[t].carry = lo.carry
  BY <1>1
<1>21. /\ Held(dst', LowRead(t), <<ls, LowAt(t, k + 1)>>, walk'[t].carry)
  BY <1>5, <1>15, <1>20 DEF s
<1>22. LowAt(t, walk[t].n)' = LowAt(t, k + 1)
  <2>1. UNCHANGED <<l1, rounds>>
    BY DEF truth
  <2>2. QED BY <1>19, <1>20, <2>1 DEF LowAt, Round
<1>23. Held(dst, LowRead(t), <<LowStartOf(t, l1), LowAt(t, walk[t].n)>>, walk[t].carry)'
  BY <1>19, <1>21, <1>22 DEF Held
<1>24. (\A j \in 0 .. walk[t].n - 1 : ~IsEmpty(Round(t, j).hi) =>
           Held(dst, HighSums(t, j), Round(t, j).hi, chunkCarry[ChunkSlot(t, j)]))'
  <2>1. ASSUME NEW j
        PROVE  /\ Held(dst, HighSums(t, j), Round(t, j).hi, chunkCarry[ChunkSlot(t, j)])'
                  <=> Held(dst', HighSums(t, j), Round(t, j).hi, chunkCarry'[ChunkSlot(t, j)])
               /\ IsEmpty(Round(t, j).hi)' <=> IsEmpty(Round(t, j).hi)
    BY <1>19 DEF Held
  <2>2. \A j \in 0 .. walk'[t].n - 1 : IsEmpty(Round(t, j).hi)' \/
           Held(dst, HighSums(t, j), Round(t, j).hi, chunkCarry[ChunkSlot(t, j)])'
    <3> SUFFICES ASSUME NEW j \in 0 .. walk'[t].n - 1, ~IsEmpty(Round(t, j).hi)'
                 PROVE Held(dst, HighSums(t, j), Round(t, j).hi, chunkCarry[ChunkSlot(t, j)])'
      OBVIOUS
    <3>1. j \in 0 .. k + 1 - 1
      BY <1>1
    <3>2. ~IsEmpty(Round(t, j).hi)
      BY <2>1
    <3>3. Held(dst', HighSums(t, j), Round(t, j).hi, chunkCarry'[ChunkSlot(t, j)])
      BY <1>18, <3>1, <3>2
    <3>4. QED BY <2>1, <3>3
  <2>3. QED BY <2>2
<1>25. QED BY <1>20, <1>23, <1>24 DEF PassHeld

(* What the threads do elsewhere does not touch it. *)
LEMMA PassHeldKept ==
  ASSUME UNCHANGED truth, NEW t, PassHeld(t),
         walk'[t].n = walk[t].n, walk'[t].carry = walk[t].carry,
         walk'[t].at = "end" => blockCarry'[t] = walk[t].carry,
         \A d \in Slots(<<LowStartOf(t, l1), LowAt(t, walk[t].n)>>) : dst'[d] = dst[d],
         \A k \in 0 .. walk[t].n - 1 : ~IsEmpty(Round(t, k).hi) =>
           /\ \A d \in Slots(Round(t, k).hi) : dst'[d] = dst[d]
           /\ chunkCarry'[ChunkSlot(t, k)] = chunkCarry[ChunkSlot(t, k)]
  PROVE  PassHeld(t)'
<1> DEFINE k == walk[t].n
           ls == LowStartOf(t, l1)
<1>1. /\ LowRead(t)' = LowRead(t) /\ LowStartOf(t, l1)' = ls
      /\ \A j : /\ LowAt(t, j)' = LowAt(t, j) /\ Round(t, j)' = Round(t, j)
                /\ HighSums(t, j)' = HighSums(t, j) /\ ChunkSlot(t, j)' = ChunkSlot(t, j)
  BY TruthOnly
<1>2. /\ Held(dst, LowRead(t), <<ls, LowAt(t, k)>>, walk[t].carry)
      /\ \A j \in 0 .. k - 1 : ~IsEmpty(Round(t, j).hi) =>
           Held(dst, HighSums(t, j), Round(t, j).hi, chunkCarry[ChunkSlot(t, j)])
  BY DEF PassHeld
<1>3. LowAt(t, walk[t].n)' = LowAt(t, k)
  <2>1. UNCHANGED <<l1, rounds>>
    BY DEF truth
  <2>2. QED BY <1>1, <2>1 DEF LowAt, Round
<1>4. Held(dst', LowRead(t), <<ls, LowAt(t, k)>>, walk'[t].carry)
  BY <1>2, HeldKept
<1>5. Held(dst, LowRead(t), <<LowStartOf(t, l1), LowAt(t, walk[t].n)>>, walk[t].carry)'
  BY <1>1, <1>3, <1>4 DEF Held
<1>6. ASSUME NEW j \in 0 .. k - 1, ~IsEmpty(Round(t, j).hi)
      PROVE  Held(dst', HighSums(t, j), Round(t, j).hi, chunkCarry'[ChunkSlot(t, j)])
  <2>1. /\ \A d \in Slots(Round(t, j).hi) : dst'[d] = dst[d]
        /\ chunkCarry'[ChunkSlot(t, j)] = chunkCarry[ChunkSlot(t, j)]
    BY <1>6
  <2>2. Held(dst, HighSums(t, j), Round(t, j).hi, chunkCarry[ChunkSlot(t, j)])
    BY <1>2, <1>6
  <2>3. QED BY <2>1, <2>2, HeldKept
<1>7. (\A j \in 0 .. walk[t].n - 1 : ~IsEmpty(Round(t, j).hi) =>
           Held(dst, HighSums(t, j), Round(t, j).hi, chunkCarry[ChunkSlot(t, j)]))'
  <2>1. ASSUME NEW j
        PROVE  /\ Held(dst, HighSums(t, j), Round(t, j).hi, chunkCarry[ChunkSlot(t, j)])'
                  <=> Held(dst', HighSums(t, j), Round(t, j).hi, chunkCarry'[ChunkSlot(t, j)])
               /\ IsEmpty(Round(t, j).hi)' <=> IsEmpty(Round(t, j).hi)
    BY <1>1 DEF Held
  <2>2. \A j \in 0 .. walk'[t].n - 1 : IsEmpty(Round(t, j).hi)' \/
           Held(dst, HighSums(t, j), Round(t, j).hi, chunkCarry[ChunkSlot(t, j)])'
    BY <1>6, <2>1
  <2>3. QED BY <2>2
<1>8. QED BY <1>5, <1>7 DEF PassHeld

(* The slots that a thread has filled are its own. *)
LEMMA FilledOwn ==
  ASSUME PassInv, NEW t \in Thread, NEW u \in Thread, t # u, NEW k \in DOMAIN rounds[u],
         NEW r \in {Round(u, k).lo, Round(u, k).hi}
  PROVE  /\ \A d \in Slots(<<LowStartOf(t, l1), LowAt(t, walk[t].n)>>) :
              d \in 0 .. Q1Lines * DPL - 1 /\ d \notin Slots(r)
         /\ \A j \in 0 .. walk[t].n - 1 : \A d \in Slots(Round(t, j).hi) :
              d \in 0 .. Q1Lines * DPL - 1 /\ d \notin Slots(r)
<1> DEFINE c == LowChain(t)
           n == walk[t].n
           f == <<LowStartOf(t, l1), LowAt(t, n)>>
<1>1. /\ Truth /\ n \in Nat /\ Q1Lines \in Nat /\ \A j \in 0 .. n - 1 : j \in DOMAIN rounds[t]
  <2>1. Truth /\ OnRounds(t) /\ walk[t] \in WalkType
    BY DEF PassInv
  <2>2. QED BY <2>1, Number1 DEF OnRounds, WalkType
<1>2. /\ Round(u, k).lo[1] \in Nat /\ Round(u, k).lo[2] \in Nat
      /\ Round(u, k).hi[1] \in Nat /\ Round(u, k).hi[2] \in Nat
      /\ LowStartOf(u, l1) <= Round(u, k).lo[1] /\ Round(u, k).lo[2] <= LowEndOf(u, l1)
  BY <1>1, ChunksOfRound
<1>3. /\ c[1] \in Nat /\ c[2] \in Nat /\ c[1] <= c[2] /\ c[2] <= Q1Lines
      /\ LowStartOf(u, l1) \in Nat /\ LowEndOf(u, l1) \in Nat
      /\ Clear(c, LowChain(u)) /\ Clear(c, Round(u, k).hi)
  BY <1>1, ChainsClear DEF LowChain
<1>4. Clear(c, Round(u, k).lo)
  <2> DEFINE a == Round(u, k).lo[1]
             b == Round(u, k).lo[2]
             p == LowStartOf(u, l1)
             q == LowEndOf(u, l1)
  <2>1. c[2] <= p \/ q <= c[1]
    BY <1>3 DEF Clear, LowChain
  <2>2. p <= a /\ b <= q /\ a \in Nat /\ b \in Nat /\ p \in Nat /\ q \in Nat /\ c[1] \in Nat /\ c[2] \in Nat
    BY <1>2, <1>3
  <2> HIDE DEF a, b, p, q, c
  <2>3. c[2] <= a \/ b <= c[1]
    BY <2>1, <2>2
  <2>4. QED BY <2>3 DEF Clear, a, b
<1>5. r[1] \in Nat /\ r[2] \in Nat /\ Clear(c, r)
  BY <1>2, <1>3, <1>4
<1>6. \A d \in Slots(f) : d \in Slots(c)
  <2>1. LowAt(t, n) \in Nat /\ LowAt(t, n) <= c[2]
    <3>1. CASE n \in DOMAIN rounds[t]
      <4>1. LowAt(t, n) = Round(t, n).lo[1]
        BY <3>1 DEF LowAt
      <4>2. /\ Round(t, n).lo[1] \in Nat /\ Round(t, n).lo[2] \in Nat
            /\ Round(t, n).lo[1] <= Round(t, n).lo[2]
            /\ Round(t, n).lo[2] <= LowEndOf(t, l1)
        BY <1>1, <3>1, ChunksOfRound
      <4>3. c[2] = LowEndOf(t, l1) /\ LowEndOf(t, l1) \in Nat
        BY <1>3 DEF LowChain
      <4> HIDE DEF n
      <4>4. QED BY <4>1, <4>2, <4>3
    <3>2. CASE n \notin DOMAIN rounds[t]
      <4>1. LowAt(t, n) = c[2]
        BY <3>2 DEF LowAt, LowChain
      <4>2. QED BY <1>3, <4>1
    <3>3. QED BY <3>1, <3>2
  <2>2. LowAt(t, n) * DPL <= c[2] * DPL /\ LowAt(t, n) * DPL \in Nat /\ c[2] * DPL \in Nat /\ c[1] * DPL \in Nat
    BY <1>3, <2>1, LinesAscend, LineMultiple
  <2>3. Slots(f) = c[1] * DPL .. LowAt(t, n) * DPL - 1 /\ Slots(c) = c[1] * DPL .. c[2] * DPL - 1
    BY DEF Slots, LowChain
  <2> HIDE DEF c, f, n
  <2>4. QED BY <2>2, <2>3
<1>7. \A d \in Slots(c) : d \in 0 .. Q1Lines * DPL - 1
  BY <1>1, <1>3, RangeSlots DEF IsRange
<1>8. \A d \in Slots(c) : d \notin Slots(r)
  BY <1>3, <1>5, ClearSlots
<1>9. ASSUME NEW j \in 0 .. n - 1, NEW d \in Slots(Round(t, j).hi)
      PROVE  d \in 0 .. Q1Lines * DPL - 1 /\ d \notin Slots(r)
  <2> DEFINE h == Round(t, j).hi
  <2>1. j \in DOMAIN rounds[t]
    BY <1>1
  <2>2. h[1] \in Nat /\ h[2] \in Nat /\ IsRange(h, Q1Lines)
    BY <1>1, <2>1, ChunksOfRound, RoundReads
  <2>3. d \in 0 .. Q1Lines * DPL - 1
    BY <1>1, <1>9, <2>2, RangeSlots
  <2>4. Clear(h, Round(u, k).hi) /\ Clear(h, LowChain(u))
    BY <1>1, <2>1, ChainsClear
  <2>5. CASE r = Round(u, k).hi
    BY <1>2, <1>9, <2>2, <2>3, <2>4, <2>5, ClearSlots
  <2>6. CASE r = Round(u, k).lo
    <3>1. \A e \in Slots(r) : e \in Slots(LowChain(u))
      BY <1>1, <2>6, LowReadIs
    <3>2. d \notin Slots(LowChain(u))
      BY <1>3, <1>9, <2>2, <2>4, ClearSlots DEF LowChain
    <3>3. QED BY <2>3, <3>1, <3>2
  <2>7. QED BY <2>5, <2>6
<1>10. QED BY <1>6, <1>7, <1>8, <1>9

(* Every step of the pass keeps all of it. *)
LEMMA PassHeldStep ==
  ASSUME PassInv, Buffers, \A u \in Thread : PassHeld(u), UNCHANGED truth,
         NEW t \in Thread, PhaseA(t) \/ PhaseB(t) \/ PassEnd(t), NEW u \in Thread
  PROVE  PassHeld(u)'
<1>1. PassHeld(u) /\ PassInv
  OBVIOUS
<1>2. CASE PhaseA(t)
  <2>1. UNCHANGED <<dst, blockCarry, chunkCarry>>
    BY <1>2 DEF PhaseA, carries
  <2>2. /\ walk'[u].n = walk[u].n /\ walk'[u].carry = walk[u].carry
        /\ walk'[u].at = "end" => walk[u].at = "end"
    BY <1>2, EffectA
  <2>3. walk[u].at = "end" => blockCarry[u] = walk[u].carry
    BY <1>1 DEF PassHeld
  <2>4. QED BY <1>1, <2>1, <2>2, <2>3, PassHeldKept
<1>3. CASE PassEnd(t)
  <2>1. UNCHANGED <<dst, chunkCarry>> /\ blockCarry' = [blockCarry EXCEPT ![t] = walk[t].carry]
    BY <1>3, EffectEnd
  <2>2. /\ walk'[u].n = walk[u].n /\ walk'[u].carry = walk[u].carry
        /\ walk'[u].at = "end" => u = t \/ walk[u].at = "end"
    BY <1>3, EffectEnd
  <2>3. walk[u].at = "end" => blockCarry[u] = walk[u].carry
    BY <1>1 DEF PassHeld
  <2>4. walk'[u].at = "end" => blockCarry'[u] = walk[u].carry
    <3>1. t \in DOMAIN blockCarry /\ u \in DOMAIN blockCarry
      BY DEF Buffers
    <3>2. QED BY <2>1, <2>2, <2>3, <3>1
  <2>5. QED BY <1>1, <2>1, <2>2, <2>4, PassHeldKept
<1>4. CASE PhaseB(t) /\ u # t
  <2> DEFINE k == walk[t].n
             r == Round(t, k)
             N == Q1Lines * DPL
  <2>1. /\ k \in DOMAIN rounds[t] /\ walk'[u] = walk[u] /\ UNCHANGED blockCarry
        /\ chunkCarry' = IF IsEmpty(r.hi) THEN chunkCarry
                         ELSE [chunkCarry EXCEPT ![ChunkSlot(t, k)] = HighOutput(t).carry]
    BY <1>4, EffectB
  <2>2. \A d \in 0 .. N - 1 : d \notin Slots(r.lo) /\ d \notin Slots(r.hi) => dst'[d] = dst[d]
    BY <1>4, RoundWrites
  <2>3. walk'[u].at = "end" => blockCarry'[u] = walk[u].carry
    BY <1>1, <2>1 DEF PassHeld
  <2>4. /\ \A d \in Slots(<<LowStartOf(u, l1), LowAt(u, walk[u].n)>>) :
             d \in 0 .. N - 1 /\ d \notin Slots(r.lo) /\ d \notin Slots(r.hi)
        /\ \A j \in 0 .. walk[u].n - 1 : \A d \in Slots(Round(u, j).hi) :
             d \in 0 .. N - 1 /\ d \notin Slots(r.lo) /\ d \notin Slots(r.hi)
    BY <1>4, <2>1, FilledOwn
  <2>5. ASSUME NEW j \in 0 .. walk[u].n - 1, ~IsEmpty(Round(u, j).hi)
        PROVE  chunkCarry'[ChunkSlot(u, j)] = chunkCarry[ChunkSlot(u, j)]
    <3>1. Truth /\ j \in DOMAIN rounds[u]
      <4>1. OnRounds(u) /\ Truth
        BY DEF PassInv
      <4>2. QED BY <4>1 DEF OnRounds
    <3>2. CASE IsEmpty(r.hi)
      BY <2>1, <3>2
    <3>3. CASE ~IsEmpty(r.hi)
      <4>1. ChunkSlot(u, j) # ChunkSlot(t, k) /\ ChunkSlot(u, j) \in DOMAIN chunkCarry
        BY <1>4, <2>1, <2>5, <3>1, <3>3, SlotsOfChunks DEF Buffers
      <4>2. QED BY <2>1, <3>3, <4>1
    <3>4. QED BY <3>2, <3>3
  <2>6. QED BY <1>1, <2>1, <2>2, <2>3, <2>4, <2>5, PassHeldKept
<1>5. CASE PhaseB(t) /\ u = t
  BY <1>1, <1>5, RoundHeld
<1>6. QED BY <1>2, <1>3, <1>4, <1>5

(* At first nothing has been filled. *)
LEMMA PassHeldInit ==
  ASSUME Init, NEW t \in Thread
  PROVE  PassHeld(t)
<1>1. Truth /\ walk[t].n = 0 /\ walk[t].at = "A" /\ walk[t].carry = FALSE
  BY TruthInit DEF Init
<1>2. LowAt(t, 0) = LowStartOf(t, l1) /\ LowStartOf(t, l1) \in Nat
  <2>1. LowStartOf(t, l1) \in Nat
    BY <1>1, ChainsClear
  <2>2. QED
    <3> DEFINE R == RoundsOf(t, l1)
               w == WalkOf(t, l1)
    <3>1. l1 \in Nat \ {0} /\ rounds[t] = R
      BY <1>1, Number1 DEF Truth
    <3>2. w[0].low = LowStartOf(t, l1) /\ w[0].high = HighEndOf(t, l1)
      <4>1. w[0] = WalkBegin(t, l1)
        BY <3>1, WalkSteps
      <4> HIDE DEF w
      <4>2. QED BY <4>1 DEF WalkBegin
    <3>3. CASE 0 \in DOMAIN R
      <4>1. R[0].at.lo[1] = w[0].low
        BY <3>1, <3>3, RoundStep
      <4>2. QED BY <2>1, <3>1, <3>2, <3>3, <4>1 DEF LowAt, Round
    <3>4. CASE 0 \notin DOMAIN R
      <4>1. w[0].low = LowEndOf(t, l1)
        <5>1. \A k \in 0 .. 0 - 1 : k \in DOMAIN R
          OBVIOUS
        <5>2. QED BY <3>1, <3>4, <5>1, Covered
      <4>2. QED BY <2>1, <3>1, <3>2, <3>4, <4>1 DEF LowAt
    <3>5. QED BY <3>3, <3>4
<1>3. Held(dst, LowRead(t), <<LowStartOf(t, l1), LowAt(t, 0)>>, FALSE)
  <2> DEFINE b == LowStartOf(t, l1) * DPL
  <2>1. b \in Nat
    BY <1>2, LineMultiple
  <2>2. Slots(<<LowStartOf(t, l1), LowStartOf(t, l1)>>) = {}
    <3>1. b .. b - 1 = {}
      <4> HIDE DEF b
      <4>1. QED BY <2>1
    <3>2. QED BY <3>1 DEF Slots
  <2>3. ~CarryInto(LowRead(t), b, b, FALSE)
    <3> HIDE DEF b
    <3>1. QED BY <2>1 DEF CarryInto
  <2>4. QED BY <1>2, <2>2, <2>3 DEF Held
<1>4. \A k \in 0 .. walk[t].n - 1 : FALSE
  BY <1>1
<1>5. Held(dst, LowRead(t), <<LowStartOf(t, l1), LowAt(t, walk[t].n)>>, walk[t].carry)
  BY <1>1, <1>3
<1>6. QED BY <1>1, <1>4, <1>5 DEF PassHeld

-----------------------------------------------------------------------------
(* From the pass to the repair *)

(* The two chunks of a round by their sides, as the keys of the repairs    *)
(* number them.                                                            *)
ChunkAt(t, k, side) == IF side = 0 THEN Round(t, k).lo ELSE Round(t, k).hi
SumsAt(t, k, side) == IF side = 0 THEN LowSums(t, k) ELSE HighSums(t, k)

(* The chains, their lines, the carries recorded for them, the sums they   *)
(* were computed from, and the chain a repair belongs to.                  *)
Chains ==
  {c \in Thread \X {0, 1} \X Nat :
     IF c[2] = 0 THEN c[3] = 0
     ELSE c[3] \in DOMAIN rounds[c[1]] /\ ~IsEmpty(Round(c[1], c[3]).hi)}
ChainAt(c) == IF c[2] = 0 THEN LowChain(c[1]) ELSE Round(c[1], c[3]).hi
Recorded(c) == IF c[2] = 0 THEN blockCarry[c[1]] ELSE chunkCarry[ChunkSlot(c[1], c[3])]
ReadBy(c) == IF c[2] = 0 THEN LowRead(c[1]) ELSE HighSums(c[1], c[3])
ChainOf(x) == <<x.key[1], x.key[3], IF x.key[3] = 0 THEN 0 ELSE x.key[2]>>

LEMMA SideSums ==
  ASSUME Truth, NEW t \in Thread, NEW k \in DOMAIN rounds[t], NEW side \in {0, 1},
         NEW d \in 0 .. Q1Lines * DPL - 1
  PROVE  /\ s2[d] \in 0 .. 18 /\ SumsAt(t, k, side)[d] \in 0 .. 18
         /\ SumsAt(t, k, side)[d] - s2[d] \in {0, -1, -2, 8, 9, 18}
<1> DEFINE r == Round(t, k)
<1>1. IsRange(r.rLo, Q1Lines) /\ IsRange(r.rHi, Q1Lines)
  BY RoundReads
<1>2. CASE side = 0
  <2>1. SumsAt(t, k, side) = ConsumedSums(d1, l1, RippleOf(s1, r.rLo, l1), RippleOf(s1, r.rHi, l1))
    BY <1>2 DEF SumsAt, LowSums, RippleLo, RippleHi
  <2>2. QED BY <1>1, <2>1, ConsumedDiffers
<1>3. CASE side = 1
  <2>1. SumsAt(t, k, side) = ConsumedSums(d1, l1, RippleOf(s1, r.rHi, l1), RippleOf(s1, r.rLo, l1))
    BY <1>3 DEF SumsAt, HighSums, RippleLo, RippleHi
  <2>2. QED BY <1>1, <2>1, ConsumedDiffers
<1>4. QED BY <1>2, <1>3

(* The lines of one chunk that are repaired. *)
AffectedAt(t, k, side) ==
  IF side = 0 THEN Affected(Round(t, k).lo, RippleLo(t, k), RippleHi(t, k), l1)
  ELSE Affected(Round(t, k).hi, RippleHi(t, k), RippleLo(t, k), l1)

LEMMA SideAffected ==
  ASSUME Truth, NEW t \in Thread, NEW k \in DOMAIN rounds[t], NEW side \in {0, 1},
         NEW line \in Nat
  PROVE  line \in AffectedAt(t, k, side)
           <=> /\ line \in Lines(ChunkAt(t, k, side))
               /\ \E d \in LineSlots(line) : SumsAt(t, k, side)[d] # s2[d]
<1> DEFINE r == Round(t, k)
           f == RippleOf(s1, r.rLo, l1)
           g == RippleOf(s1, r.rHi, l1)
<1>1. /\ IsRange(r.rLo, Q1Lines) /\ IsRange(r.rHi, Q1Lines)
      /\ IsRange(r.lo, Q1Lines) /\ IsRange(r.hi, Q1Lines)
  BY RoundReads
<1>2. RippleLo(t, k) = f /\ RippleHi(t, k) = g
  BY DEF RippleLo, RippleHi
<1>3. CASE side = 0
  <2>1. /\ AffectedAt(t, k, side) = Affected(r.lo, f, g, l1) /\ ChunkAt(t, k, side) = r.lo
        /\ SumsAt(t, k, side) = ConsumedSums(d1, l1, f, g)
    BY <1>2, <1>3 DEF AffectedAt, ChunkAt, SumsAt, LowSums
  <2>2. line \in Affected(r.lo, f, g, l1)
               <=> /\ line \in Lines(r.lo)
                   /\ \E d \in LineSlots(line) : ConsumedSums(d1, l1, f, g)[d] # s2[d]
    BY <1>1, AffectedIs
  <2> HIDE DEF f, g, r
  <2>3. QED BY <2>1, <2>2
<1>4. CASE side = 1
  <2>1. /\ AffectedAt(t, k, side) = Affected(r.hi, g, f, l1) /\ ChunkAt(t, k, side) = r.hi
        /\ SumsAt(t, k, side) = ConsumedSums(d1, l1, g, f)
    BY <1>2, <1>4 DEF AffectedAt, ChunkAt, SumsAt, HighSums
  <2>2. line \in Affected(r.hi, g, f, l1)
               <=> /\ line \in Lines(r.hi)
                   /\ \E d \in LineSlots(line) : ConsumedSums(d1, l1, g, f)[d] # s2[d]
    BY <1>1, AffectedIs
  <2> HIDE DEF f, g, r
  <2>3. QED BY <2>1, <2>2
<1>5. QED BY <1>3, <1>4

(* What is repaired: lines that consumed a wrong sum, all of them. *)
LEMMA ConsumersAre ==
  ASSUME Truth
  PROVE  /\ \A x \in Consumers :
              LET t == x.key[1]
                  k == x.key[2]
                  side == x.key[3]
                  line == x.key[4]
              IN  /\ t \in Thread /\ k \in DOMAIN rounds[t] /\ k \in Nat /\ side \in {0, 1}
                  /\ line \in Nat /\ line \in AffectedAt(t, k, side)
                  /\ x.chain = ChainAt(ChainOf(x)) /\ ChainOf(x) \in Chains
                  /\ ConsumedSums(d1, l1, x.fwd, x.rev) = SumsAt(t, k, side)
         /\ \A t \in Thread : \A k \in DOMAIN rounds[t] : \A side \in {0, 1} :
              \A line \in AffectedAt(t, k, side) :
                \E x \in Consumers : x.key = <<t, k, side, line>>
<1>1. DivCeil(l1, DPL) = Q1Lines
  BY DEF Q1Lines
<1> DEFINE chain(t, k, side) == IF side = 0 THEN LowChain(t) ELSE Round(t, k).hi
           fwd(t, k, side) == IF side = 0 THEN RippleLo(t, k) ELSE RippleHi(t, k)
           rev(t, k, side) == IF side = 0 THEN RippleHi(t, k) ELSE RippleLo(t, k)
           rec(t, k, side, line) == [key |-> <<t, k, side, line>>, fwd |-> fwd(t, k, side),
                                     rev |-> rev(t, k, side), chain |-> chain(t, k, side)]
<1>2. ASSUME NEW t \in Thread, NEW k \in DOMAIN rounds[t]
      PROVE  RoundConsumers(t, k, Round(t, k), RippleLo(t, k), RippleHi(t, k), l1)
               = {rec(t, k, 0, line) : line \in AffectedAt(t, k, 0)}
                   \union {rec(t, k, 1, line) : line \in AffectedAt(t, k, 1)}
  BY DEF RoundConsumers, ConsumersOf, AffectedAt, LowChain, LowStartOf, LowEndOf
<1>3. AllRounds(rounds) = UNION {{t} \X DOMAIN rounds[t] : t \in Thread}
  BY DEF AllRounds
<1>4. ASSUME NEW x \in Consumers
      PROVE  \E t \in Thread : \E k \in DOMAIN rounds[t] : \E side \in {0, 1} :
               \E line \in AffectedAt(t, k, side) : x = rec(t, k, side, line)
  <2>1. PICK p \in AllRounds(rounds) :
          x \in RoundConsumers(p[1], p[2], Round(p[1], p[2]), RippleLo(p[1], p[2]),
                               RippleHi(p[1], p[2]), l1)
    BY <1>4 DEF Consumers
  <2>2. p[1] \in Thread /\ p[2] \in DOMAIN rounds[p[1]]
    BY <1>3
  <2> HIDE DEF rec
  <2>3. QED BY <1>2, <2>1, <2>2
<1>5. ASSUME NEW t \in Thread, NEW k \in DOMAIN rounds[t], NEW side \in {0, 1},
             NEW line \in AffectedAt(t, k, side)
      PROVE  \E x \in Consumers : x.key = <<t, k, side, line>>
  <2>1. <<t, k>> \in AllRounds(rounds) /\ <<t, k>>[1] = t /\ <<t, k>>[2] = k
    BY <1>3
  <2>2. rec(t, k, side, line) \in RoundConsumers(t, k, Round(t, k), RippleLo(t, k), RippleHi(t, k), l1)
    <3> HIDE DEF rec
    <3>1. QED BY <1>2
  <2>3. rec(t, k, side, line) \in Consumers
    <3> HIDE DEF rec
    <3>1. QED BY <2>1, <2>2 DEF Consumers
  <2>4. rec(t, k, side, line).key = <<t, k, side, line>>
    OBVIOUS
  <2>5. QED BY <2>3, <2>4
<1>6. ASSUME NEW t \in Thread, NEW k \in DOMAIN rounds[t], NEW side \in {0, 1},
             NEW line \in AffectedAt(t, k, side), NEW x,
             x.key = <<t, k, side, line>>, x.chain = chain(t, k, side),
             x.fwd = fwd(t, k, side), x.rev = rev(t, k, side)
      PROVE  /\ x.key = <<t, k, side, line>> /\ line \in Nat /\ k \in Nat
             /\ x.chain = ChainAt(ChainOf(x)) /\ ChainOf(x) \in Chains
             /\ ConsumedSums(d1, l1, x.fwd, x.rev) = SumsAt(t, k, side)
  <2>1. /\ x.key = <<t, k, side, line>> /\ x.chain = chain(t, k, side)
        /\ x.fwd = fwd(t, k, side) /\ x.rev = rev(t, k, side)
    BY <1>6
  <2>2. /\ k \in Nat /\ IsRange(Round(t, k).lo, Q1Lines) /\ IsRange(Round(t, k).hi, Q1Lines)
    BY ChunksOfRound, RoundReads
  <2>3. line \in Lines(ChunkAt(t, k, side))
    BY DEF AffectedAt, ChunkAt, Affected
  <2>4. line \in Nat /\ (side = 1 => ~IsEmpty(Round(t, k).hi))
    <3> DEFINE r == ChunkAt(t, k, side)
    <3>1. r[1] \in Nat /\ r[2] \in Nat
      BY <2>2 DEF ChunkAt, IsRange
    <3>2. line \in r[1] .. r[2] - 1
      BY <2>3 DEF Lines
    <3>3. side = 1 => r = Round(t, k).hi
      BY DEF ChunkAt
    <3> HIDE DEF r
    <3>4. line \in Nat /\ r[1] < r[2]
      BY <3>1, <3>2
    <3>5. ~(r[1] >= r[2])
      BY <3>1, <3>4
    <3>6. QED BY <3>3, <3>4, <3>5 DEF IsEmpty
  <2>5. ConsumedSums(d1, l1, x.fwd, x.rev) = SumsAt(t, k, side)
    BY <2>1 DEF SumsAt, LowSums, HighSums
  <2>6. ChainOf(x) = <<t, side, IF side = 0 THEN 0 ELSE k>>
    BY <2>1 DEF ChainOf
  <2>7. ChainOf(x) \in Chains
    BY <2>2, <2>4, <2>6 DEF Chains
  <2>8. x.chain = ChainAt(ChainOf(x))
    BY <2>1, <2>6 DEF ChainAt
  <2>9. QED BY <2>1, <2>2, <2>4, <2>5, <2>7, <2>8
<1>7. ASSUME NEW x \in Consumers
      PROVE  LET t == x.key[1]
                 k == x.key[2]
                 side == x.key[3]
                 line == x.key[4]
             IN  /\ t \in Thread /\ k \in DOMAIN rounds[t] /\ k \in Nat /\ side \in {0, 1}
                 /\ line \in Nat /\ line \in AffectedAt(t, k, side)
                 /\ x.chain = ChainAt(ChainOf(x)) /\ ChainOf(x) \in Chains
                 /\ ConsumedSums(d1, l1, x.fwd, x.rev) = SumsAt(t, k, side)
  <2> HIDE DEF rec
  <2>1. PICK t \in Thread : \E k \in DOMAIN rounds[t] : \E side \in {0, 1} :
             \E line \in AffectedAt(t, k, side) : x = rec(t, k, side, line)
    BY <1>4
  <2>2. PICK k \in DOMAIN rounds[t] : \E side \in {0, 1} :
             \E line \in AffectedAt(t, k, side) : x = rec(t, k, side, line)
    BY <2>1
  <2>3. PICK side \in {0, 1} : \E line \in AffectedAt(t, k, side) : x = rec(t, k, side, line)
    BY <2>2
  <2>4. PICK line \in AffectedAt(t, k, side) : x = rec(t, k, side, line)
    BY <2>3
  <2>5. /\ x.key = <<t, k, side, line>> /\ line \in Nat /\ k \in Nat
        /\ x.chain = ChainAt(ChainOf(x)) /\ ChainOf(x) \in Chains
        /\ ConsumedSums(d1, l1, x.fwd, x.rev) = SumsAt(t, k, side)
    <3>1. /\ x.key = <<t, k, side, line>> /\ x.chain = chain(t, k, side)
          /\ x.fwd = fwd(t, k, side) /\ x.rev = rev(t, k, side)
      <4> HIDE DEF chain, fwd, rev
      <4>1. QED BY <2>4 DEF rec
    <3> HIDE DEF chain, fwd, rev
    <3>2. QED BY <1>6, <3>1, ZenonT(60)
  <2>6. QED BY <2>5
<1> HIDE DEF rec
<1>8. QED BY <1>5, <1>7

LEMMA ChainIs ==
  ASSUME Truth, NEW c \in Chains
  PROVE  /\ c[1] \in Thread /\ c[2] \in {0, 1} /\ c = <<c[1], c[2], c[3]>>
         /\ c[2] = 0 => c[3] = 0
         /\ c[2] = 1 => c[3] \in DOMAIN rounds[c[1]] /\ ~IsEmpty(Round(c[1], c[3]).hi)
         /\ ChainAt(c)[1] \in Nat /\ ChainAt(c)[2] \in Nat /\ ChainAt(c)[1] <= ChainAt(c)[2]
         /\ ChainAt(c)[2] <= Q1Lines
         /\ Slots(ChainAt(c)) = ChainAt(c)[1] * DPL .. ChainAt(c)[2] * DPL - 1
         /\ \A d \in Slots(ChainAt(c)) : d \in 0 .. Q1Lines * DPL - 1
<1>1. /\ c[1] \in Thread /\ c[2] \in {0, 1} /\ c = <<c[1], c[2], c[3]>>
      /\ c[2] = 0 => c[3] = 0
      /\ c[2] = 1 => c[3] \in DOMAIN rounds[c[1]] /\ ~IsEmpty(Round(c[1], c[3]).hi)
  BY DEF Chains
<1>2. /\ ChainAt(c)[1] \in Nat /\ ChainAt(c)[2] \in Nat /\ ChainAt(c)[1] <= ChainAt(c)[2]
      /\ ChainAt(c)[2] <= Q1Lines
  <2>1. CASE c[2] = 0
    <3>1. /\ LowStartOf(c[1], l1) \in Nat /\ LowEndOf(c[1], l1) \in Nat
          /\ LowStartOf(c[1], l1) <= LowEndOf(c[1], l1) /\ LowEndOf(c[1], l1) <= Q1Lines
      BY <1>1, ChainsClear
    <3>2. QED BY <2>1, <3>1 DEF ChainAt, LowChain
  <2>2. CASE c[2] = 1
    <3> DEFINE h == Round(c[1], c[3]).hi
    <3>1. h[1] \in Nat /\ h[2] \in Nat /\ h[1] <= h[2] /\ IsRange(h, Q1Lines)
      BY <1>1, <2>2, ChunksOfRound, RoundReads
    <3>2. QED BY <2>2, <3>1 DEF ChainAt, IsRange
  <2>3. QED BY <1>1, <2>1, <2>2
<1>3. \A d \in Slots(ChainAt(c)) : d \in 0 .. Q1Lines * DPL - 1
  BY <1>2, Number1, RangeSlots DEF IsRange
<1>4. QED BY <1>1, <1>2, <1>3 DEF Slots

(* No two chains share a slot. *)
LEMMA ChainsApart ==
  ASSUME Truth, NEW c \in Chains, NEW e \in Chains, c # e
  PROVE  /\ Clear(ChainAt(c), ChainAt(e))
         /\ \A d \in Slots(ChainAt(c)) : d \notin Slots(ChainAt(e))
<1>1. /\ c[1] \in Thread /\ c[2] \in {0, 1} /\ c = <<c[1], c[2], c[3]>>
      /\ c[2] = 0 => c[3] = 0
      /\ c[2] = 1 => c[3] \in DOMAIN rounds[c[1]]
      /\ e[1] \in Thread /\ e[2] \in {0, 1} /\ e = <<e[1], e[2], e[3]>>
      /\ e[2] = 0 => e[3] = 0
      /\ e[2] = 1 => e[3] \in DOMAIN rounds[e[1]]
  BY ChainIs
<1>2. c[1] # e[1] \/ c[2] # e[2] \/ c[3] # e[3]
  BY <1>1
<1>3. Clear(ChainAt(c), ChainAt(e))
  <2>1. CASE c[2] = 0 /\ e[2] = 0
    <3>1. c[1] # e[1]
      BY <1>1, <1>2, <2>1
    <3>2. QED BY <1>1, <2>1, <3>1, ChainsClear DEF ChainAt
  <2>2. CASE c[2] = 0 /\ e[2] = 1
    BY <1>1, <2>2, ChainsClear DEF ChainAt
  <2>3. CASE c[2] = 1 /\ e[2] = 0
    BY <1>1, <2>3, ChainsClear DEF ChainAt
  <2>4. CASE c[2] = 1 /\ e[2] = 1
    <3>1. c[1] # e[1] \/ c[3] # e[3]
      BY <1>2, <2>4
    <3>2. QED BY <1>1, <2>4, <3>1, ChainsClear DEF ChainAt
  <2>5. QED BY <1>1, <2>1, <2>2, <2>3, <2>4
<1>4. /\ ChainAt(c)[1] \in Nat /\ ChainAt(c)[2] \in Nat
      /\ ChainAt(e)[1] \in Nat /\ ChainAt(e)[2] \in Nat
  BY ChainIs
<1>5. QED BY <1>3, <1>4, ClearSlots

(* What a chain reads at a slot, and that a wrong sum has its line         *)
(* repaired.                                                               *)
LEMMA ReadByIs ==
  ASSUME Truth, NEW c \in Chains, NEW d \in Slots(ChainAt(c))
  PROVE  \E k \in DOMAIN rounds[c[1]] :
           /\ k \in Nat /\ d \in Slots(ChunkAt(c[1], k, c[2]))
           /\ ReadBy(c)[d] = SumsAt(c[1], k, c[2])[d]
           /\ c[2] = 1 => k = c[3]
<1>1. /\ c[1] \in Thread /\ c[2] \in {0, 1}
      /\ c[2] = 1 => c[3] \in DOMAIN rounds[c[1]]
      /\ ChainAt(c)[1] \in Nat /\ ChainAt(c)[2] \in Nat /\ ChainAt(c)[2] <= Q1Lines
      /\ Q1Lines \in Nat
  BY ChainIs, Number1
<1>2. CASE c[2] = 1
  <2>1. c[3] \in Nat
    BY <1>1, <1>2, ChunksOfRound
  <2>2. QED BY <1>1, <1>2, <2>1 DEF ChainAt, ChunkAt, ReadBy, SumsAt
<1>3. CASE c[2] = 0
  <2> DEFINE x == d \div DPL
             r == LowChain(c[1])
  <2>1. ChainAt(c) = r /\ r[1] \in Nat /\ r[2] \in Nat /\ IsRange(r, Q1Lines)
    BY <1>1, <1>3 DEF ChainAt, IsRange
  <2>2. d \in 0 .. Q1Lines * DPL - 1 /\ x \in Lines(r)
    <3>1. d \in 0 .. Q1Lines * DPL - 1
      BY ChainIs
    <3>2. d \in Nat
      BY <3>1
    <3>3. QED BY <1>1, <2>1, <3>1, <3>2, RangeSlots
  <2>3. x \in LowStartOf(c[1], l1) .. LowEndOf(c[1], l1) - 1
    BY <2>2 DEF Lines, LowChain
  <2>4. PICK k \in DOMAIN rounds[c[1]] : x \in Lines(Round(c[1], k).lo)
    BY <1>1, <2>3, RoundOfLine
  <2>5. IsRange(Round(c[1], k).lo, Q1Lines) /\ k \in Nat
    BY <1>1, RoundReads, ChunksOfRound
  <2>6. d \in Slots(Round(c[1], k).lo)
    <3>1. d \in Nat
      BY <2>2
    <3>2. QED BY <1>1, <2>4, <2>5, <3>1, RangeSlots
  <2>7. LowRead(c[1])[d] = LowSums(c[1], k)[d]
    BY <1>1, <2>6, LowReadIs
  <2>8. QED BY <1>3, <2>5, <2>6, <2>7 DEF ChunkAt, ReadBy, SumsAt
<1>4. QED BY <1>1, <1>2, <1>3

LEMMA WrongIsRepaired ==
  ASSUME Truth, NEW c \in Chains, NEW d \in Slots(ChainAt(c))
  PROVE  /\ s2[d] \in 0 .. 18 /\ ReadBy(c)[d] \in 0 .. 18
         /\ ReadBy(c)[d] - s2[d] \in {0, -1, -2, 8, 9, 18}
         /\ ReadBy(c)[d] # s2[d] =>
              \E x \in Consumers : ChainOf(x) = c /\ d \in LineSlots(x.key[4])
<1> DEFINE t == c[1]
           side == c[2]
           line == d \div DPL
<1>1. /\ t \in Thread /\ side \in {0, 1} /\ c = <<c[1], c[2], c[3]>>
      /\ side = 0 => c[3] = 0
      /\ d \in 0 .. Q1Lines * DPL - 1
  BY ChainIs
<1>2. PICK k \in DOMAIN rounds[t] :
        /\ k \in Nat /\ d \in Slots(ChunkAt(t, k, side))
        /\ ReadBy(c)[d] = SumsAt(t, k, side)[d]
        /\ side = 1 => k = c[3]
  BY ReadByIs
<1>3. /\ s2[d] \in 0 .. 18 /\ ReadBy(c)[d] \in 0 .. 18
      /\ ReadBy(c)[d] - s2[d] \in {0, -1, -2, 8, 9, 18}
  BY <1>1, <1>2, SideSums
<1>4. ASSUME ReadBy(c)[d] # s2[d]
      PROVE  \E x \in Consumers : ChainOf(x) = c /\ d \in LineSlots(x.key[4])
  <2>1. d \in Nat /\ Q1Lines \in Nat
    BY <1>1, Number1
  <2>2. IsRange(ChunkAt(t, k, side), Q1Lines)
    BY <1>1, RoundReads DEF ChunkAt
  <2>3. line \in Lines(ChunkAt(t, k, side))
    BY <1>2, <2>1, <2>2, RangeSlots
  <2>4. line \in Nat /\ d \in LineSlots(line)
    BY <2>1, LineOfSlot
  <2>5. line \in AffectedAt(t, k, side)
    <3>1. \E e \in LineSlots(line) : SumsAt(t, k, side)[e] # s2[e]
      BY <1>2, <1>4, <2>4
    <3>2. QED BY <1>1, <2>3, <2>4, <3>1, SideAffected
  <2>6. PICK x \in Consumers : x.key = <<t, k, side, line>>
    BY <1>1, <2>5, ConsumersAre
  <2>7. x.key[1] = t /\ x.key[2] = k /\ x.key[3] = side /\ x.key[4] = line
    BY <2>6
  <2>8. ChainOf(x) = c
    BY <1>1, <1>2, <2>7 DEF ChainOf
  <2>9. QED BY <2>4, <2>7, <2>8
<1>5. QED BY <1>3, <1>4

(* What the buffer and the carries hold of a chain. *)
ChainHeld(c, s) == Held(dst, s, ChainAt(c), Recorded(c))

LEMMA HeldSame ==
  ASSUME NEW b, NEW s, NEW u, NEW r, NEW carry, Held(b, s, r, carry),
         r[1] \in Nat, r[2] \in Nat, r[1] <= r[2], \A d \in Slots(r) : s[d] = u[d]
  PROVE  Held(b, u, r, carry)
<1> DEFINE m == r[1] * DPL
           e == r[2] * DPL
<1>1. m \in Nat /\ e \in Nat /\ m <= e /\ Slots(r) = m .. e - 1
  BY LineMultiple, LinesAscend DEF Slots
<1>2. /\ \A d \in Slots(r) : b[d] = Chained(s, m, d)
      /\ carry \in BOOLEAN /\ (carry <=> CarryInto(s, m, e, FALSE))
  BY DEF Held
<1> HIDE DEF m, e
<1>3. ASSUME NEW d \in m .. e PROVE CarryInto(s, m, d, FALSE) <=> CarryInto(u, m, d, FALSE)
  <2>1. d \in Nat /\ \A i \in m .. d - 1 : s[i] = u[i]
    BY <1>1
  <2>2. QED BY <1>1, <2>1, CarryOfEqual
<1>4. ASSUME NEW d \in Slots(r) PROVE b[d] = Chained(u, m, d)
  <2>1. d \in m .. e /\ s[d] = u[d]
    BY <1>1
  <2>2. CarryInto(s, m, d, FALSE) <=> CarryInto(u, m, d, FALSE)
    BY <1>3, <2>1
  <2>3. Resolved(s[d], CarryInto(s, m, d, FALSE)) = Resolved(s[d], CarryInto(u, m, d, FALSE))
    BY ONLY <2>2, ResolvedSame
  <2>4. QED BY <1>2, <2>1, <2>3 DEF Chained
<1>5. carry <=> CarryInto(u, m, e, FALSE)
  <2>1. e \in m .. e
    BY <1>1
  <2>2. QED BY <1>2, <1>3, <2>1
<1>6. QED BY <1>2, <1>4, <1>5 DEF Held, m, e

(* All threads through: every chain holds what it read makes of it. *)
LEMMA PassEnded ==
  ASSUME PassInv, \A t \in Thread : PassHeld(t) /\ walk[t].at = "end", NEW c \in Chains
  PROVE  ChainHeld(c, ReadBy(c))
<1> DEFINE t == c[1]
           n == walk[t].n
<1>1. /\ Truth /\ t \in Thread /\ c[2] \in {0, 1}
      /\ c[2] = 1 => c[3] \in DOMAIN rounds[t] /\ ~IsEmpty(Round(t, c[3]).hi)
  BY ChainIs DEF PassInv
<1>2. n \in Nat /\ n \notin DOMAIN rounds[t]
  <2>1. OnRounds(t) /\ walk[t] \in WalkType /\ walk[t].at = "end"
    BY <1>1 DEF PassInv
  <2>2. QED BY <2>1 DEF OnRounds, WalkType
<1>3. PassHeld(t) /\ walk[t].at = "end"
  BY <1>1
<1>4. CASE c[2] = 0
  <2>1. LowAt(t, n) = LowEndOf(t, l1)
    BY <1>2 DEF LowAt
  <2>2. Held(dst, LowRead(t), <<LowStartOf(t, l1), LowEndOf(t, l1)>>, blockCarry[t])
    BY <1>3, <2>1 DEF PassHeld
  <2>3. QED BY <1>4, <2>2 DEF ChainHeld, ChainAt, Recorded, ReadBy, LowChain
<1>5. CASE c[2] = 1
  <2>1. c[3] \in 0 .. n - 1
    <3>1. c[3] \in Nat /\ \A j \in 0 .. c[3] : j \in DOMAIN rounds[t]
      BY <1>1, <1>5, ChunksOfRound
    <3>2. n \notin 0 .. c[3]
      BY <1>2, <3>1
    <3> HIDE DEF n
    <3>3. QED BY <1>2, <3>1, <3>2
  <2>2. Held(dst, HighSums(t, c[3]), Round(t, c[3]).hi, chunkCarry[ChunkSlot(t, c[3])])
    BY <1>1, <1>3, <1>5, <2>1 DEF PassHeld
  <2>3. QED BY <1>5, <2>2 DEF ChainHeld, ChainAt, Recorded, ReadBy
<1>6. QED BY <1>1, <1>4, <1>5

(* A chain of which no line is repaired read nothing wrong. *)
LEMMA NothingToRepair ==
  ASSUME Truth, NEW c \in Chains, ChainHeld(c, ReadBy(c)),
         \A x \in Consumers : ChainOf(x) # c
  PROVE  ChainHeld(c, s2)
<1>1. \A d \in Slots(ChainAt(c)) : ReadBy(c)[d] = s2[d]
  BY WrongIsRepaired
<1>2. /\ ChainAt(c)[1] \in Nat /\ ChainAt(c)[2] \in Nat /\ ChainAt(c)[1] <= ChainAt(c)[2]
  BY ChainIs
<1>3. QED BY <1>1, <1>2, HeldSame DEF ChainHeld

(* The one line of a chain that is repaired: the sums it consumed are off  *)
(* there and nowhere else in the chain.                                    *)
LEMMA OneWrongLine ==
  ASSUME Truth, Apart(Consumers), NEW x \in Consumers
  PROVE  LET c == ChainOf(x)
             line == x.key[4]
         IN  /\ c \in Chains /\ x.chain = ChainAt(c) /\ line \in Nat
             /\ ChainAt(c)[1] <= line /\ line < ChainAt(c)[2]
             /\ \A d \in Slots(ChainAt(c)) : d \notin LineSlots(line) => ReadBy(c)[d] = s2[d]
             /\ \A d \in LineSlots(line) : d \in Slots(ChainAt(c))
             /\ \E d \in LineSlots(line) : ReadBy(c)[d] # s2[d]
             /\ \A d \in ChainAt(c)[1] * DPL .. line * DPL - 1 :
                  ConsumedSums(d1, l1, x.fwd, x.rev)[d] = s2[d]
<1> DEFINE c == ChainOf(x)
           t == x.key[1]
           k == x.key[2]
           side == x.key[3]
           line == x.key[4]
           out == ChunkAt(t, k, side)
           r == ChainAt(c)
<1>1. /\ t \in Thread /\ k \in DOMAIN rounds[t] /\ k \in Nat /\ side \in {0, 1}
      /\ line \in Nat /\ line \in AffectedAt(t, k, side)
      /\ x.chain = r /\ c \in Chains
      /\ ConsumedSums(d1, l1, x.fwd, x.rev) = SumsAt(t, k, side)
  BY ConsumersAre
<1>2. c[1] = t /\ c[2] = side /\ (side = 1 => c[3] = k)
  BY <1>1 DEF ChainOf
<1>3. line \in Lines(out) /\ \E d \in LineSlots(line) : SumsAt(t, k, side)[d] # s2[d]
  BY <1>1, SideAffected
<1>4. /\ r[1] \in Nat /\ r[2] \in Nat /\ r[1] <= r[2] /\ r[2] <= Q1Lines
      /\ Slots(r) = r[1] * DPL .. r[2] * DPL - 1
      /\ \A d \in Slots(r) : d \in 0 .. Q1Lines * DPL - 1
  BY <1>1, ChainIs, SMTT(60)
<1>5. /\ out[1] \in Nat /\ out[2] \in Nat /\ r[1] <= out[1] /\ out[2] <= r[2]
      /\ \A d \in Slots(out) : ReadBy(c)[d] = SumsAt(t, k, side)[d]
  <2>1. CASE side = 0
    <3>1. out = Round(t, k).lo /\ r = LowChain(t) /\ ReadBy(c) = LowRead(t)
          /\ SumsAt(t, k, side) = LowSums(t, k)
      BY <1>2, <2>1 DEF ChunkAt, ChainAt, ReadBy, SumsAt
    <3>2. /\ Round(t, k).lo[1] \in Nat /\ Round(t, k).lo[2] \in Nat
          /\ LowStartOf(t, l1) <= Round(t, k).lo[1] /\ Round(t, k).lo[2] <= LowEndOf(t, l1)
      BY <1>1, ChunksOfRound
    <3>3. \A d \in Slots(Round(t, k).lo) : LowRead(t)[d] = LowSums(t, k)[d]
      BY <1>1, LowReadIs
    <3>4. r[1] = LowStartOf(t, l1) /\ r[2] = LowEndOf(t, l1)
      BY <3>1 DEF LowChain
    <3> HIDE DEF out, r, c, t, k, side
    <3>5. QED BY <3>1, <3>2, <3>3, <3>4
  <2>2. CASE side = 1
    <3>1. out = Round(t, k).hi /\ r = Round(t, k).hi /\ ReadBy(c) = HighSums(t, k)
          /\ SumsAt(t, k, side) = HighSums(t, k)
      BY <1>2, <2>2 DEF ChunkAt, ChainAt, ReadBy, SumsAt
    <3> HIDE DEF out, r, c, t, k, side
    <3>2. QED BY <1>4, <3>1
  <2>3. QED BY <1>1, <2>1, <2>2
<1>6. r[1] <= line /\ line < r[2] /\ out[1] <= line /\ line < out[2]
  <2>1. line \in out[1] .. out[2] - 1
    BY <1>3 DEF Lines
  <2> HIDE DEF r, out, line
  <2>2. QED BY <1>1, <1>4, <1>5, <2>1, SMTT(60)
<1>7. \A d \in LineSlots(line) : d \in Slots(r) /\ d \in Slots(out)
  <2>1. ASSUME NEW u, u[1] \in Nat, u[2] \in Nat, u[1] <= line, line < u[2],
               NEW d \in LineSlots(line)
        PROVE  d \in Slots(u)
    <3> DEFINE a == line * DPL
               b == (line + 1) * DPL
               p == u[1] * DPL
               q == u[2] * DPL
    <3>1. p <= a /\ b <= q /\ p \in Nat /\ q \in Nat /\ a \in Nat /\ b \in Nat
      <4>1. line \in Nat /\ line + 1 \in Nat
        BY <1>1
      <4> HIDE DEF line
      <4>2. p <= a /\ b <= q
        BY <2>1, <4>1, LinesAscend
      <4>3. QED BY <2>1, <4>1, <4>2, LineMultiple
    <3>2. d \in a .. b - 1 /\ Slots(u) = p .. q - 1
      BY <2>1 DEF LineSlots, Slots
    <3> HIDE DEF a, b, p, q
    <3>3. QED BY <3>1, <3>2
  <2> HIDE DEF r, out, line
  <2>2. QED BY <1>4, <1>5, <1>6, <2>1
<1>8. ASSUME NEW d \in Slots(r), d \notin LineSlots(line) PROVE ReadBy(c)[d] = s2[d]
  <2>1. SUFFICES ASSUME ReadBy(c)[d] # s2[d] PROVE FALSE
    OBVIOUS
  <2>2. PICK y \in Consumers : ChainOf(y) = c /\ d \in LineSlots(y.key[4])
    BY <1>1, <1>8, <2>1, WrongIsRepaired
  <2>3. y.chain = x.chain
    BY <1>1, <2>2, ConsumersAre
  <2>4. y = x
    BY <2>3 DEF Apart
  <2>5. QED BY <1>8, <2>2, <2>4
<1>9. \E d \in LineSlots(line) : ReadBy(c)[d] # s2[d]
  BY <1>3, <1>5, <1>7
<1>10. ASSUME NEW d \in r[1] * DPL .. line * DPL - 1
       PROVE  SumsAt(t, k, side)[d] = s2[d]
  <2>1. CASE side = 0
    <3>1. ASSUME NEW j \in DOMAIN rounds[t], NEW z \in Nat,
                 z \in Affected(Round(t, j).lo, RippleLo(t, j), RippleHi(t, j), l1)
          PROVE  j = k /\ z = line
      <4>1. z \in AffectedAt(t, j, 0)
        BY <3>1 DEF AffectedAt
      <4>2. PICK y \in Consumers : y.key = <<t, j, 0, z>>
        BY <1>1, <4>1, ConsumersAre
      <4>3. y.key[1] = t /\ y.key[2] = j /\ y.key[3] = 0 /\ y.key[4] = z
        BY <4>2
      <4>4. ChainOf(y) = c
        BY <2>1, <4>3 DEF ChainOf
      <4>5. y.chain = x.chain
        BY <1>1, <4>4, ConsumersAre
      <4>6. y = x
        BY <4>5 DEF Apart
      <4>7. QED BY <4>3, <4>6
    <3>2. line \in Lines(Round(t, k).lo) /\ SumsAt(t, k, side) = LowSums(t, k)
      BY <1>3, <2>1 DEF ChunkAt, SumsAt
    <3>3. r[1] = LowStartOf(t, l1)
      BY <1>2, <2>1 DEF ChainAt, LowChain
    <3>4. d \in LowStartOf(t, l1) * DPL .. line * DPL - 1
      BY <1>10, <3>3
    <3> HIDE DEF t, k, line, c, r, side
    <3>5. LowSums(t, k)[d] = s2[d]
      BY <1>1, <3>1, <3>2, <3>4, ReadBelow
    <3>6. QED BY <3>2, <3>5
  <2>2. CASE side = 1
    <3>1. ReadBy(c) = SumsAt(t, k, side)
      BY <1>2, <2>2 DEF ReadBy, SumsAt
    <3>2. d \in Slots(r) /\ d \notin LineSlots(line)
      <4> DEFINE a == r[1] * DPL
                 b == line * DPL
                 e == r[2] * DPL
      <4>1. a \in Nat /\ b \in Nat /\ e \in Nat /\ b <= e
        <5>1. line \in Nat /\ r[1] \in Nat /\ r[2] \in Nat /\ line < r[2]
          BY <1>1, <1>4, <1>6
        <5> HIDE DEF line, r
        <5>2. line <= r[2]
          BY <5>1
        <5>3. QED BY <5>1, <5>2, LinesAscend, LineMultiple
      <4>2. d \in a .. b - 1 /\ Slots(r) = a .. e - 1 /\ \A i \in LineSlots(line) : b <= i
        <5>1. \A i \in LineSlots(line) : b <= i
          BY <1>1, LineBase
        <5>2. QED BY <1>4, <1>10, <5>1
      <4> HIDE DEF a, b, e
      <4>3. d \in a .. e - 1 /\ ~(b <= d)
        BY <4>1, <4>2
      <4>4. QED BY <4>2, <4>3
    <3>3. ReadBy(c)[d] = s2[d]
      BY <1>8, <3>2
    <3>4. QED BY <3>1, <3>3
  <2>3. QED BY <1>1, <2>1, <2>2
<1>11. QED BY <1>1, <1>6, <1>7, <1>8, <1>9, <1>10

(* Its repair makes the chain right, digits and recorded carry. *)
LEMMA RepairOne ==
  ASSUME Truth, Buffers, Apart(Consumers), NEW x \in Consumers,
         ChainHeld(ChainOf(x), ReadBy(ChainOf(x)))
  PROVE  LET c == ChainOf(x)
             r == Repaired(x, dst, s2, ConsumedSums(d1, l1, x.fwd, x.rev))
         IN  /\ c \in Chains /\ DOMAIN r.digit \subseteq Slots(ChainAt(c))
             /\ Held(Overlay(dst, r.digit), s2, ChainAt(c),
                     IF r.atEnd THEN r.carry ELSE Recorded(c))
<1> DEFINE c == ChainOf(x)
           line == x.key[4]
           u == ChainAt(c)
           cs == ReadBy(c)
           consumed == ConsumedSums(d1, l1, x.fwd, x.rev)
           r == Repaired(x, dst, s2, consumed)
           base == u[1]
           cap == u[2]
           b == base * DPL
           e == cap * DPL
<1>1. /\ c \in Chains /\ x.chain = u /\ line \in Nat
      /\ u[1] <= line /\ line < u[2]
      /\ \A d \in Slots(u) : d \notin LineSlots(line) => cs[d] = s2[d]
      /\ \A d \in LineSlots(line) : d \in Slots(u)
      /\ \E d \in LineSlots(line) : cs[d] # s2[d]
      /\ \A d \in u[1] * DPL .. line * DPL - 1 : consumed[d] = s2[d]
  BY OneWrongLine
<1>2. /\ u[1] \in Nat /\ u[2] \in Nat /\ Slots(u) = b .. e - 1
      /\ \A d \in Slots(u) : d \in 0 .. Q1Lines * DPL - 1
  BY <1>1, ChainIs
<1>3. \A d \in Slots(u) : /\ s2[d] \in 0 .. 18 /\ cs[d] \in 0 .. 18
                          /\ cs[d] - s2[d] \in {0, -1, -2, 8, 9, 18}
  BY <1>1, WrongIsRepaired
<1>4. /\ \A d \in Slots(u) : dst[d] = Chained(cs, b, d)
      /\ Recorded(c) \in BOOLEAN /\ (Recorded(c) <=> CarryInto(cs, b, e, FALSE))
  BY DEF ChainHeld, Held
<1>5. \A d \in DOMAIN dst : TRUE
  OBVIOUS
<1>6. r.carry \in BOOLEAN
  BY DEF Repaired
<1>7. /\ DOMAIN r.digit \subseteq b .. e - 1
      /\ \A d \in b .. e - 1 :
           Chained(s2, b, d) = IF d \in DOMAIN r.digit THEN r.digit[d] ELSE dst[d]
      /\ r.atEnd => (r.carry <=> CarryInto(s2, b, e, FALSE))
      /\ ~r.atEnd => (CarryInto(cs, b, e, FALSE) <=> CarryInto(s2, b, e, FALSE))
  <2> HIDE DEF c, cs, consumed, line, u
  <2>1. /\ base \in Nat /\ cap \in Nat /\ base <= line /\ line < cap /\ line \in Nat
        /\ x.chain[1] = base /\ x.chain[2] = cap /\ x.key[4] = line
    BY <1>1, <1>2 DEF line
  <2>2. \A d \in b .. e - 1 :
           /\ s2[d] \in 0 .. 18 /\ cs[d] \in 0 .. 18
           /\ dst[d] = Chained(cs, b, d)
           /\ d \notin LineSlots(line) => cs[d] = s2[d]
    BY <1>1, <1>2, <1>3, <1>4
  <2>3. /\ \A d \in LineSlots(line) : cs[d] - s2[d] \in {0, -1, -2, 8, 9, 18}
        /\ \E d \in LineSlots(line) : cs[d] # s2[d]
        /\ \A d \in b .. line * DPL - 1 : consumed[d] = s2[d]
    BY <1>1, <1>3
  <2>4. OneWrong(x, dst, s2, consumed, cs, base, line, cap)
    BY <2>1, <2>2, <2>3 DEF OneWrong
  <2>5. MakesRight(r, dst, s2, cs, b, e)
    <3> HIDE DEF base, cap
    <3>1. QED BY <2>1, <2>4, RepairedIs
  <2>6. QED BY <2>5 DEF MakesRight
<1>8. \A d \in b .. e - 1 : d \in DOMAIN dst
  BY <1>2, RoomIs
<1> HIDE DEF c, cs, consumed, line, u, r, b, e
<1>9. \A d \in b .. e - 1 : Overlay(dst, r.digit)[d] = Chained(s2, b, d)
  BY <1>7, <1>8 DEF Overlay
<1> DEFINE carry == IF r.atEnd THEN r.carry ELSE Recorded(c)
<1>10. carry \in BOOLEAN /\ (carry <=> CarryInto(s2, b, e, FALSE))
  BY <1>4, <1>6, <1>7
<1>11. Held(Overlay(dst, r.digit), s2, u, carry)
  <2> HIDE DEF carry
  <2>1. QED BY <1>2, <1>9, <1>10 DEF Held, b, e
<1>12. QED BY <1>1, <1>2, <1>7, <1>11 DEF c, r, u, consumed

-----------------------------------------------------------------------------
(* The invariant of the result *)

(* While lines are repaired a chain holds what it read makes of it, until  *)
(* its line is done: then, what the true sums do.                          *)
RepairHeld ==
  \A c \in Chains :
    ChainHeld(c, IF \E x \in repairs : ChainOf(x) = c THEN ReadBy(c) ELSE s2)

(* While carries are resolved the number is right below the next line, and *)
(* the chains above are on a guess.                                        *)
ResolveHeld ==
  LET done == range.line * DPL
  IN  /\ range.line \in 0 .. Q1Lines
      /\ range.carry \in BOOLEAN /\ (range.carry <=> CarryInto(s2, 0, done, FALSE))
      /\ \A d \in 0 .. done - 1 : dst[d] = Chained(s2, 0, d)
      /\ \A c \in Chains : range.line <= ChainAt(c)[1] => ChainHeld(c, s2)

CleanAbove == \A d \in DOMAIN dst : d >= Q1Lines * DPL => dst[d] = 0

Result ==
  /\ digits = NumDigits(Wanted)
  /\ \A d \in DOMAIN dst : dst[d] = IF d < digits THEN Wanted[d] ELSE 0

ResultInv ==
  /\ PassInv /\ Buffers
  /\ pc \in {"pass", "repair"} => range = [line |-> 0, carry |-> FALSE]
  /\ pc = "pass" => CleanAbove /\ \A t \in Thread : PassHeld(t)
  /\ pc # "pass" => consumers = Consumers
  /\ pc = "repair" => repairs \subseteq consumers
  /\ pc = "repair" /\ Apart(consumers) => CleanAbove /\ RepairHeld
  /\ pc = "resolve" /\ Apart(consumers) => CleanAbove /\ ResolveHeld
  /\ pc = "done" /\ Apart(consumers) => Result

(* The chains are a matter of the number and its rounds, too. *)
LEMMA ChainsSame ==
  ASSUME UNCHANGED truth
  PROVE  /\ Q1Lines' = Q1Lines /\ Chains' = Chains /\ Consumers' = Consumers
         /\ Wanted' = Wanted /\ s2' = s2 /\ l1' = l1
         /\ \A c : ChainAt(c)' = ChainAt(c) /\ ReadBy(c)' = ReadBy(c)
<1>1. UNCHANGED <<source, l1, s1, d1, s2, rounds>>
  BY DEF truth
<1>2. \A t : \A k : /\ Round(t, k)' = Round(t, k) /\ HighSums(t, k)' = HighSums(t, k)
                    /\ RippleLo(t, k)' = RippleLo(t, k) /\ RippleHi(t, k)' = RippleHi(t, k)
  BY TruthOnly
<1>3. Q1Lines' = Q1Lines /\ \A t : LowRead(t)' = LowRead(t) /\ LowChain(t)' = LowChain(t)
  BY TruthOnly
<1>4. Chains' = Chains
  BY <1>1, <1>2 DEF Chains
<1>5. \A c : ChainAt(c)' = ChainAt(c) /\ ReadBy(c)' = ReadBy(c)
  BY <1>2, <1>3 DEF ChainAt, ReadBy
<1>6. Consumers' = Consumers
  BY <1>1, <1>2 DEF Consumers
<1>7. Wanted' = Wanted
  BY <1>1 DEF Wanted, Middle, l
<1>8. QED BY <1>1, <1>3, <1>4, <1>5, <1>6, <1>7

LEMMA ResultInit == Init => ResultInv
<1> SUFFICES ASSUME Init PROVE ResultInv
  OBVIOUS
<1>1. PassInv /\ \A t \in Thread : PassHeld(t)
  BY PassInit, PassHeldInit
<1>2. pc = "pass" /\ range = [line |-> 0, carry |-> FALSE]
  BY DEF Init
<1>3. /\ dst = [d \in Slots(<<0, DivCeil(l1 + 1, DPL)>>) |-> IF d < Q1Lines * DPL THEN 9 ELSE 0]
      /\ blockCarry = [t \in Thread |-> FALSE]
      /\ chunkCarry = [i \in 0 .. NumThreads * FusedHiStride(Q1Lines) - 1 |-> FALSE]
  BY DEF Init
<1>4. Buffers
  BY <1>3 DEF Buffers
<1>5. CleanAbove
  <2>1. Q1Lines * DPL \in Nat
    BY <1>1, Number1 DEF PassInv
  <2>2. \A d \in DOMAIN dst : d \in Nat
    BY <1>1, <1>4, RoomIs DEF PassInv
  <2> DEFINE N == Q1Lines * DPL
  <2> HIDE DEF N
  <2>3. \A d \in DOMAIN dst : dst[d] = IF d < N THEN 9 ELSE 0
    BY <1>3 DEF N
  <2>4. \A d \in DOMAIN dst : d >= N => dst[d] = 0
    BY <2>1, <2>2, <2>3 DEF N
  <2>5. QED BY <2>4 DEF CleanAbove, N
<1>6. QED BY <1>1, <1>2, <1>4, <1>5 DEF ResultInv

(* A step of the pass. *)
LEMMA ResultPass ==
  ASSUME ResultInv, PassInv', UNCHANGED truth, NEW t \in Thread,
         PhaseA(t) \/ PhaseB(t) \/ PassEnd(t)
  PROVE  ResultInv'
<1>1. /\ PassInv /\ Buffers /\ pc = "pass" /\ pc' = "pass" /\ range' = range
      /\ \A u \in Thread : PassHeld(u)
      /\ CleanAbove /\ range = [line |-> 0, carry |-> FALSE]
  <2>1. pc = "pass" /\ pc' = "pass" /\ range' = range
    BY Zenon DEF PhaseA, PhaseB, PassEnd
  <2>2. QED BY <2>1 DEF ResultInv
<1>2. \A u \in Thread : PassHeld(u)'
  BY <1>1, PassHeldStep
<1>3. Q1Lines' = Q1Lines /\ l1' = l1
  BY ChainsSame
<1>4. /\ DOMAIN dst' = DOMAIN dst /\ DOMAIN blockCarry' = DOMAIN blockCarry
      /\ DOMAIN chunkCarry' = DOMAIN chunkCarry
      /\ \A d \in DOMAIN dst : d >= Q1Lines * DPL => dst'[d] = dst[d]
  <2>1. CASE PhaseA(t)
    BY <2>1 DEF PhaseA, carries
  <2>2. CASE PhaseB(t)
    <3>1. UNCHANGED blockCarry /\ DOMAIN chunkCarry' = DOMAIN chunkCarry
      <4>1. UNCHANGED blockCarry
            /\ chunkCarry' = IF IsEmpty(Round(t, walk[t].n).hi) THEN chunkCarry
                             ELSE [chunkCarry EXCEPT ![ChunkSlot(t, walk[t].n)] = HighOutput(t).carry]
        BY <1>1, <2>2, EffectB
      <4>2. QED BY <4>1
    <3>2. /\ DOMAIN dst' = DOMAIN dst
          /\ \A d \in DOMAIN dst : d >= Q1Lines * DPL => dst'[d] = dst[d]
      BY <1>1, <2>2, RoundWrites
    <3>3. QED BY <3>1, <3>2
  <2>3. CASE PassEnd(t)
    <3>1. UNCHANGED <<dst, chunkCarry>> /\ DOMAIN blockCarry' = DOMAIN blockCarry
      BY <2>3 DEF PassEnd
    <3>2. QED BY <3>1
  <2>4. QED BY <2>1, <2>2, <2>3
<1>5. Buffers'
  BY <1>1, <1>3, <1>4 DEF Buffers
<1>6. CleanAbove'
  BY <1>1, <1>3, <1>4 DEF CleanAbove
<1>7. QED BY <1>1, <1>2, <1>5, <1>6 DEF ResultInv

(* All threads through: what is to repair is found. *)
LEMMA ResultStart ==
  ASSUME ResultInv, PassInv', UNCHANGED truth, StartRepair
  PROVE  ResultInv'
<1>1. /\ PassInv /\ Buffers /\ pc = "pass" /\ pc' = "repair" /\ range' = range
      /\ \A u \in Thread : PassHeld(u) /\ walk[u].at = "end"
      /\ CleanAbove /\ range = [line |-> 0, carry |-> FALSE]
      /\ UNCHANGED <<dst, blockCarry, chunkCarry>>
      /\ consumers' = Consumers /\ repairs' = Consumers
  <2>1. /\ pc = "pass" /\ pc' = "repair" /\ range' = range
        /\ \A u \in Thread : walk[u].at = "end"
        /\ UNCHANGED <<dst, blockCarry, chunkCarry>>
        /\ consumers' = Consumers /\ repairs' = Consumers
    BY DEF StartRepair, carries
  <2>2. QED BY <2>1 DEF ResultInv
<1>2. /\ Q1Lines' = Q1Lines /\ Chains' = Chains /\ Consumers' = Consumers /\ s2' = s2 /\ l1' = l1
      /\ \A c : ChainAt(c)' = ChainAt(c) /\ ReadBy(c)' = ReadBy(c)
  BY ChainsSame
<1>3. Buffers' /\ CleanAbove'
  BY <1>1, <1>2 DEF Buffers, CleanAbove
<1>4. ASSUME NEW c \in Chains
      PROVE  ChainHeld(c, IF \E x \in Consumers : ChainOf(x) = c THEN ReadBy(c) ELSE s2)
  <2>1. ChainHeld(c, ReadBy(c))
    BY <1>1, PassEnded
  <2>2. CASE \E x \in Consumers : ChainOf(x) = c
    BY <2>1, <2>2
  <2>3. CASE ~\E x \in Consumers : ChainOf(x) = c
    <3>1. Truth
      BY <1>1 DEF PassInv
    <3>2. ChainHeld(c, s2)
      BY <2>1, <2>3, <3>1, NothingToRepair
    <3>3. QED BY <2>3, <3>2
  <2>4. QED BY <2>2, <2>3
<1>5. \A c : Recorded(c)' = Recorded(c)
  <2>1. rounds' = rounds /\ \A t : \A k : ChunkSlot(t, k)' = ChunkSlot(t, k)
    BY TruthOnly DEF truth
  <2>2. QED BY <1>1, <2>1 DEF Recorded
<1>6. RepairHeld'
  <2>1. \A c \in Chains : ChainHeld(c, IF \E x \in repairs' : ChainOf(x) = c THEN ReadBy(c) ELSE s2)
    BY <1>1, <1>4
  <2>2. \A c \in Chains :
          Held(dst', IF \E x \in repairs' : ChainOf(x) = c THEN ReadBy(c) ELSE s2,
               ChainAt(c), Recorded(c))
    BY <1>1, <2>1 DEF ChainHeld
  <2>3. ASSUME NEW c \in Chains
        PROVE  Held(dst', IF \E x \in repairs' : ChainOf(x) = c THEN ReadBy(c)' ELSE s2',
                    ChainAt(c)', Recorded(c)')
    BY <1>2, <1>5, <2>2
  <2>4. QED BY <1>2, <2>3 DEF RepairHeld, ChainHeld, ChainOf, Held
<1>7. QED BY <1>1, <1>2, <1>3, <1>6 DEF ResultInv

(* What a repair does to the recorded carries: it touches that of its      *)
(* chain only.                                                             *)
LEMMA RecordOne ==
  ASSUME Truth, Buffers, UNCHANGED truth, NEW x \in Consumers, NEW carry, Record(x, carry)
  PROVE  /\ DOMAIN blockCarry' = DOMAIN blockCarry /\ DOMAIN chunkCarry' = DOMAIN chunkCarry
         /\ Recorded(ChainOf(x))' = carry
         /\ \A c \in Chains : c # ChainOf(x) => Recorded(c)' = Recorded(c)
<1> DEFINE t == x.key[1]
           k == x.key[2]
           side == x.key[3]
           e == ChainOf(x)
<1>1. /\ t \in Thread /\ k \in DOMAIN rounds[t] /\ side \in {0, 1} /\ e \in Chains
  BY ConsumersAre
<1>2. e = <<t, side, IF side = 0 THEN 0 ELSE k>>
  BY DEF ChainOf
<1>3. e[1] = t /\ e[2] = side /\ (side = 1 => e[3] = k) /\ (side = 0 => e[3] = 0)
  BY <1>2, <1>1
<1>4. rounds' = rounds /\ \A u : \A j : ChunkSlot(u, j)' = ChunkSlot(u, j)
  BY TruthOnly DEF truth
<1>5. t \in DOMAIN blockCarry
  BY <1>1 DEF Buffers
<1>6. \A c \in Chains : /\ c[1] \in Thread /\ c[2] \in {0, 1} /\ c = <<c[1], c[2], c[3]>>
                        /\ c[2] = 0 => c[3] = 0
                        /\ c[2] = 1 => c[3] \in DOMAIN rounds[c[1]] /\ ~IsEmpty(Round(c[1], c[3]).hi)
  BY ChainIs
<1>7. x.key[1] = t /\ x.key[2] = k /\ x.key[3] = side
  OBVIOUS
<1> HIDE DEF t, k, side, e
<1>8. CASE side = 0
  <2>1. blockCarry' = [blockCarry EXCEPT ![t] = carry] /\ chunkCarry' = chunkCarry
    BY <1>7, <1>8 DEF Record
  <2>2. Recorded(e)' = carry
    <3>1. Recorded(e)' = blockCarry'[t]
      BY <1>3, <1>8 DEF Recorded
    <3>2. QED BY <1>5, <2>1, <3>1
  <2>3. ASSUME NEW c \in Chains, c # e PROVE Recorded(c)' = Recorded(c)
    <3>1. CASE c[2] = 1
      BY <1>4, <2>1, <3>1 DEF Recorded
    <3>2. CASE c[2] = 0
      <4>1. c[1] # t
        BY <1>2, <1>6, <1>8, <2>3, <3>2
      <4>2. blockCarry'[c[1]] = blockCarry[c[1]]
        BY <1>6, <2>1, <4>1 DEF Buffers
      <4>3. QED BY <3>2, <4>2 DEF Recorded
    <3>3. QED BY <1>6, <3>1, <3>2
  <2>4. QED BY <2>1, <2>2, <2>3 DEF e
<1>9. CASE side = 1
  <2>1. chunkCarry' = [chunkCarry EXCEPT ![ChunkSlot(t, k)] = carry] /\ blockCarry' = blockCarry
    BY <1>7, <1>9 DEF Record
  <2>2. ~IsEmpty(Round(t, k).hi)
    BY <1>1, <1>3, <1>6, <1>9
  <2>3. ChunkSlot(t, k) \in DOMAIN chunkCarry
    BY <1>1, <2>2, SlotsOfChunks DEF Buffers
  <2>4. Recorded(e)' = carry
    <3>1. Recorded(e)' = chunkCarry'[ChunkSlot(t, k)]
      BY <1>3, <1>4, <1>9 DEF Recorded
    <3>2. QED BY <2>1, <2>3, <3>1
  <2>5. ASSUME NEW c \in Chains, c # e PROVE Recorded(c)' = Recorded(c)
    <3>1. CASE c[2] = 0
      BY <2>1, <3>1 DEF Recorded
    <3>2. CASE c[2] = 1
      <4>1. c[1] # t \/ c[3] # k
        BY <1>2, <1>6, <1>9, <2>5, <3>2
      <4>2. /\ ChunkSlot(c[1], c[3]) # ChunkSlot(t, k) /\ ChunkSlot(c[1], c[3]) \in DOMAIN chunkCarry
        BY <1>1, <1>6, <2>2, <3>2, <4>1, SlotsOfChunks DEF Buffers
      <4>3. chunkCarry'[ChunkSlot(c[1], c[3])] = chunkCarry[ChunkSlot(c[1], c[3])]
        BY <2>1, <4>2
      <4>4. QED BY <1>4, <3>2, <4>3 DEF Recorded
    <3>3. QED BY <1>6, <3>1, <3>2
  <2>6. QED BY <2>1, <2>4, <2>5 DEF e
<1>10. QED BY <1>1, <1>8, <1>9

(* One line is repaired: its chain becomes right, the others stay. *)
LEMMA ResultRepair ==
  ASSUME ResultInv, PassInv', UNCHANGED truth, NEW x \in repairs, RepairLine(x)
  PROVE  ResultInv'
<1> DEFINE r == Repaired(x, dst, s2, ConsumedSums(d1, l1, x.fwd, x.rev))
           e == ChainOf(x)
<1>1. /\ pc = "repair" /\ pc' = "repair" /\ range' = range /\ consumers' = consumers
      /\ dst' = Overlay(dst, r.digit)
      /\ IF r.atEnd THEN Record(x, r.carry) ELSE UNCHANGED carries
      /\ repairs' = repairs \ {x}
  BY DEF RepairLine
<1>2. /\ PassInv /\ Truth /\ Buffers /\ consumers = Consumers /\ repairs \subseteq Consumers
      /\ range = [line |-> 0, carry |-> FALSE]
      /\ Apart(Consumers) => CleanAbove /\ RepairHeld
      /\ x \in Consumers
  BY <1>1 DEF ResultInv, PassInv
<1>3. /\ Q1Lines' = Q1Lines /\ Chains' = Chains /\ Consumers' = Consumers /\ s2' = s2 /\ l1' = l1
      /\ \A c : ChainAt(c)' = ChainAt(c) /\ ReadBy(c)' = ReadBy(c)
  BY ChainsSame
<1>4. /\ DOMAIN blockCarry' = DOMAIN blockCarry /\ DOMAIN chunkCarry' = DOMAIN chunkCarry
      /\ Recorded(e)' = IF r.atEnd THEN r.carry ELSE Recorded(e)
      /\ \A c \in Chains : c # e => Recorded(c)' = Recorded(c)
  <2> HIDE DEF r
  <2>1. CASE r.atEnd
    BY <1>1, <1>2, <2>1, RecordOne
  <2>2. CASE ~r.atEnd
    <3>1. UNCHANGED <<blockCarry, chunkCarry>>
      BY <1>1, <2>2 DEF carries
    <3>2. rounds' = rounds /\ \A t : \A k : ChunkSlot(t, k)' = ChunkSlot(t, k)
      BY TruthOnly DEF truth
    <3>3. \A c : Recorded(c)' = Recorded(c)
      BY <3>1, <3>2 DEF Recorded
    <3>4. Recorded(e)' = Recorded(e)
      BY <3>1, <3>2 DEF Recorded
    <3>5. QED BY <2>2, <3>1, <3>3, <3>4
  <2>3. QED BY <2>1, <2>2
<1>5. DOMAIN dst' = DOMAIN dst
  BY <1>1 DEF Overlay
<1>6. Buffers'
  BY <1>2, <1>3, <1>4, <1>5 DEF Buffers
<1>7. ASSUME Apart(Consumers) PROVE CleanAbove' /\ RepairHeld'
  <2>1. CleanAbove /\ RepairHeld
    BY <1>2, <1>7
  <2>2. e \in Chains /\ ChainHeld(e, ReadBy(e))
    <3>1. e \in Chains
      BY <1>2, ConsumersAre
    <3>2. \E y \in repairs : ChainOf(y) = e
      OBVIOUS
    <3> HIDE DEF e
    <3>3. QED BY <2>1, <3>1, <3>2 DEF RepairHeld
  <2>3. /\ DOMAIN r.digit \subseteq Slots(ChainAt(e))
        /\ Held(Overlay(dst, r.digit), s2, ChainAt(e), IF r.atEnd THEN r.carry ELSE Recorded(e))
    BY <1>2, <1>7, <2>2, RepairOne
  <2>4. \A d \in DOMAIN dst : d \notin Slots(ChainAt(e)) => dst'[d] = dst[d]
    BY <1>1, <2>3 DEF Overlay
  <2>5. \A c \in Chains : \A d \in Slots(ChainAt(c)) :
          d \in 0 .. Q1Lines * DPL - 1 /\ d \in DOMAIN dst
    <3>1. \A c \in Chains : \A d \in Slots(ChainAt(c)) : d \in 0 .. Q1Lines * DPL - 1
      BY <1>2, ChainIs
    <3>2. QED BY <1>2, <3>1, RoomIs
  <2>6. CleanAbove'
    <3>1. Q1Lines * DPL \in Nat
      BY <1>2, Number1
    <3>2. \A d \in 0 .. Q1Lines * DPL - 1 : ~(d >= Q1Lines * DPL)
      BY <3>1
    <3>3. \A d \in DOMAIN dst : d >= Q1Lines * DPL => d \notin Slots(ChainAt(e))
      BY <2>2, <2>5, <3>2
    <3>4. QED BY <1>3, <1>5, <2>1, <2>4, <3>3 DEF CleanAbove
  <2>7. \A y \in repairs' : ChainOf(y) # e
    <3> SUFFICES ASSUME NEW y \in repairs', ChainOf(y) = e PROVE FALSE
      OBVIOUS
    <3>1. y \in Consumers /\ y # x
      BY <1>1, <1>2
    <3>2. y.chain = ChainAt(ChainOf(y)) /\ x.chain = ChainAt(ChainOf(x))
      BY <1>2, <3>1, ConsumersAre
    <3>3. y.chain = x.chain
      BY <3>2
    <3>4. QED BY <1>2, <1>7, <3>1, <3>3 DEF Apart
  <2> HIDE DEF e, r
  <2>8. ASSUME NEW c \in Chains
        PROVE  Held(dst', IF \E y \in repairs' : ChainOf(y) = c THEN ReadBy(c) ELSE s2,
                    ChainAt(c), Recorded(c)')
    <3>1. CASE c = e
      BY <1>1, <1>4, <2>3, <2>7, <3>1
    <3>2. CASE c # e
      <4>1. (\E y \in repairs' : ChainOf(y) = c) <=> (\E y \in repairs : ChainOf(y) = c)
        BY <1>1, <3>2 DEF e
      <4>2. ChainHeld(c, IF \E y \in repairs : ChainOf(y) = c THEN ReadBy(c) ELSE s2)
        BY <2>1 DEF RepairHeld
      <4>3. Held(dst, IF \E y \in repairs : ChainOf(y) = c THEN ReadBy(c) ELSE s2,
                 ChainAt(c), Recorded(c))
        BY <4>2 DEF ChainHeld
      <4>4. \A d \in Slots(ChainAt(c)) : dst'[d] = dst[d]
        <5>1. \A d \in Slots(ChainAt(c)) : d \notin Slots(ChainAt(e))
          BY <1>2, <2>2, <3>2, ChainsApart
        <5>2. QED BY <2>4, <2>5, <5>1
      <4>5. Held(dst', IF \E y \in repairs : ChainOf(y) = c THEN ReadBy(c) ELSE s2,
                 ChainAt(c), Recorded(c))
        BY <4>3, <4>4, HeldKept
      <4>6. Recorded(c)' = Recorded(c)
        BY <1>4, <3>2
      <4>7. QED BY <4>1, <4>5, <4>6
    <3>3. QED BY <3>1, <3>2
  <2>9. RepairHeld'
    <3>1. ASSUME NEW c \in Chains
          PROVE  Held(dst', IF \E y \in repairs' : ChainOf(y) = c THEN ReadBy(c)' ELSE s2',
                      ChainAt(c)', Recorded(c)')
      BY <1>3, <2>8
    <3>2. QED BY <1>3, <3>1 DEF RepairHeld, ChainHeld, ChainOf, Held
  <2>10. QED BY <2>6, <2>9
<1>8. consumers' = Consumers /\ repairs' \subseteq consumers' /\ Consumers' = Consumers
  BY <1>1, <1>2, <1>3
<1>9. QED BY <1>1, <1>2, <1>6, <1>7, <1>8 DEF ResultInv

(* Nothing left to repair. *)
LEMMA ResultResolve ==
  ASSUME ResultInv, PassInv', UNCHANGED truth, EndRepair
  PROVE  ResultInv'
<1>1. /\ pc = "repair" /\ pc' = "resolve" /\ range' = range /\ consumers' = consumers
      /\ repairs = {} /\ UNCHANGED <<dst, blockCarry, chunkCarry>>
  BY DEF EndRepair, carries
<1>2. /\ PassInv /\ Truth /\ Buffers /\ consumers = Consumers
      /\ range = [line |-> 0, carry |-> FALSE]
      /\ Apart(Consumers) => CleanAbove /\ RepairHeld
  BY <1>1 DEF ResultInv, PassInv
<1>3. /\ Q1Lines' = Q1Lines /\ Chains' = Chains /\ Consumers' = Consumers /\ s2' = s2 /\ l1' = l1
      /\ \A c : ChainAt(c)' = ChainAt(c) /\ ReadBy(c)' = ReadBy(c)
  BY ChainsSame
<1>4. Buffers'
  BY <1>1, <1>2, <1>3 DEF Buffers
<1>5. \A c : Recorded(c)' = Recorded(c)
  <2>1. rounds' = rounds /\ \A t : \A k : ChunkSlot(t, k)' = ChunkSlot(t, k)
    BY TruthOnly DEF truth
  <2>2. QED BY <1>1, <2>1 DEF Recorded
<1>6. ASSUME Apart(Consumers) PROVE CleanAbove' /\ ResolveHeld'
  <2>1. CleanAbove'
    BY <1>1, <1>2, <1>3, <1>6 DEF CleanAbove
  <2>2. \A c \in Chains : ChainHeld(c, s2)
    BY <1>1, <1>2, <1>6 DEF RepairHeld
  <2>3. ASSUME NEW c \in Chains PROVE Held(dst', s2', ChainAt(c)', Recorded(c)')
    <3>1. Held(dst, s2, ChainAt(c), Recorded(c))
      BY <2>2 DEF ChainHeld
    <3>2. QED BY <1>1, <1>3, <1>5, <3>1
  <2>4. \A c \in Chains' : ChainHeld(c, s2)'
    BY <1>3, <2>3 DEF ChainHeld, Held
  <2>5. range'.line = 0 /\ range'.carry = FALSE
    BY <1>1, <1>2
  <2>6. 0 * DPL = 0 /\ 0 \in 0 .. Q1Lines
    BY <1>2, Number1, LineAssumption
  <2>7. ~CarryInto(s2', 0, 0, FALSE)
    BY DEF CarryInto
  <2>8. \A d \in 0 .. 0 - 1 : FALSE
    OBVIOUS
  <2>9. /\ range'.line \in 0 .. Q1Lines' /\ range'.carry \in BOOLEAN
        /\ range'.carry <=> CarryInto(s2', 0, range'.line * DPL, FALSE)
        /\ \A d \in 0 .. range'.line * DPL - 1 : FALSE
    BY <1>3, <2>5, <2>6, <2>7, <2>8
  <2>10. QED BY <2>1, <2>4, <2>9 DEF ResolveHeld
<1>7. QED BY <1>1, <1>2, <1>3, <1>4, <1>6 DEF ResultInv

(* What the resolution works on are the chains and their recorded carries. *)
LEMMA RangesAre ==
  ASSUME Truth, NEW g \in Ranges
  PROVE  \E c \in Chains : /\ g.start = ChainAt(c)[1] /\ g.end = ChainAt(c)[2]
                           /\ g.carry = Recorded(c) /\ g.start < g.end
<1> DEFINE bounds == BlockBounds(Q1Lines)
           hi(x) == rounds[x[1]][x[2]].at.hi
<1>1. Q1Lines = DivCeil(l1, DPL)
  BY DEF Q1Lines
<1>2. CASE g \in {[start |-> bounds[t], end |-> bounds[t + 1], carry |-> blockCarry[t]] :
                    t \in {t \in Thread : bounds[t] < bounds[t + 1]}}
  <2>1. PICK t \in Thread : /\ bounds[t] < bounds[t + 1]
                            /\ g.start = bounds[t] /\ g.end = bounds[t + 1] /\ g.carry = blockCarry[t]
    BY <1>2
  <2>2. bounds[t] = LowStartOf(t, l1) /\ bounds[t + 1] = LowEndOf(t, l1)
    BY <1>1 DEF LowStartOf, LowEndOf
  <2> DEFINE c == <<t, 0, 0>>
  <2>3. c \in Chains /\ c[1] = t /\ c[2] = 0
    BY DEF Chains
  <2> HIDE DEF c
  <2>4. ChainAt(c) = <<LowStartOf(t, l1), LowEndOf(t, l1)>> /\ Recorded(c) = blockCarry[t]
    BY <2>3 DEF ChainAt, Recorded, LowChain
  <2> HIDE DEF bounds
  <2>5. QED BY <2>1, <2>2, <2>3, <2>4
<1>3. CASE g \in {[start |-> hi(x)[1], end |-> hi(x)[2],
                   carry |-> chunkCarry[FusedSlot(x[1], rounds[x[1]][x[2]].ord, Q1Lines)]] :
                    x \in {x \in AllRounds(rounds) : ~IsEmpty(hi(x))}}
  <2>1. PICK x \in AllRounds(rounds) :
          /\ ~IsEmpty(hi(x)) /\ g.start = hi(x)[1] /\ g.end = hi(x)[2]
          /\ g.carry = chunkCarry[FusedSlot(x[1], rounds[x[1]][x[2]].ord, Q1Lines)]
    BY <1>3
  <2>2. x[1] \in Thread /\ x[2] \in DOMAIN rounds[x[1]]
    BY SMTT(60) DEF AllRounds
  <2>3. x[2] \in Nat /\ hi(x) = Round(x[1], x[2]).hi
    BY <2>2, ChunksOfRound DEF Round
  <2> DEFINE c == <<x[1], 1, x[2]>>
  <2>4. c \in Chains /\ c[1] = x[1] /\ c[2] = 1 /\ c[3] = x[2]
    BY <2>1, <2>2, <2>3 DEF Chains
  <2> HIDE DEF c
  <2>5. ChainAt(c) = hi(x)
        /\ Recorded(c) = chunkCarry[FusedSlot(x[1], rounds[x[1]][x[2]].ord, Q1Lines)]
    BY <2>3, <2>4 DEF ChainAt, Recorded, ChunkSlot
  <2>6. ChainAt(c)[1] \in Nat /\ ChainAt(c)[2] \in Nat
    BY <2>4, ChainIs
  <2> HIDE DEF hi
  <2>7. g.start < g.end
    <3>1. ~(hi(x)[1] >= hi(x)[2]) /\ hi(x)[1] \in Nat /\ hi(x)[2] \in Nat
      BY <2>1, <2>5, <2>6 DEF IsEmpty
    <3>2. QED BY <2>1, <3>1
  <2>8. QED BY <2>1, <2>4, <2>5, <2>7, SMTT(60)
<1>4. QED BY <1>2, <1>3 DEF Ranges, RangesOf

(* RangesExact, from the invariant. *)
LEMMA ResultRanges == ResultInv => RangesExact
<1> SUFFICES ASSUME ResultInv, pc = "resolve", range.line = 0, Apart(consumers),
                    NEW g \in Ranges
             PROVE  LET c(d) == CarryInto(s2, g.start * DPL, d, FALSE)
                    IN  /\ \A d \in Slots(<<g.start, g.end>>) : dst[d] = Resolved(s2[d], c(d))
                        /\ g.carry = c(g.end * DPL)
  BY DEF RangesExact
<1>1. Truth /\ ResolveHeld
  BY DEF ResultInv, PassInv
<1>2. PICK c \in Chains : /\ g.start = ChainAt(c)[1] /\ g.end = ChainAt(c)[2]
                          /\ g.carry = Recorded(c) /\ g.start < g.end
  BY <1>1, RangesAre
<1>3. 0 <= ChainAt(c)[1]
  BY <1>1, ChainIs
<1>4. Held(dst, s2, ChainAt(c), Recorded(c))
  BY <1>1, <1>3 DEF ResolveHeld, ChainHeld
<1>5. /\ \A d \in Slots(ChainAt(c)) : dst[d] = Chained(s2, g.start * DPL, d)
      /\ Recorded(c) \in BOOLEAN
      /\ Recorded(c) <=> CarryInto(s2, g.start * DPL, g.end * DPL, FALSE)
  BY <1>2, <1>4 DEF Held
<1>6. Slots(<<g.start, g.end>>) = Slots(ChainAt(c))
  BY <1>2 DEF Slots
<1>7. CarryInto(s2, g.start * DPL, g.end * DPL, FALSE) \in BOOLEAN
  BY CarryIsBoolean
<1>8. g.carry = CarryInto(s2, g.start * DPL, g.end * DPL, FALSE)
  BY <1>2, <1>5, <1>7
<1>9. QED BY <1>5, <1>6, <1>8 DEF Chained

(* The room above the number cuts the top range short, but no increment    *)
(* gets there: the slot above the intermediate number sums to zero.        *)
LEMMA RoomHarmless ==
  ASSUME Truth, NEW x \in Nat, NEW y \in Nat, x < y, y <= Q1Lines,
         NEW out, Speculative(s2, out, x * DPL, y * DPL)
  PROVE  LET lo == x * DPL
             end == y * DPL
             clip == MinOf(end, l1 + 1)
         IN  /\ Increment(out, lo, clip) = Increment(out, lo, end)
             /\ Escapes(out, lo, clip) <=> Escapes(out, lo, end)
<1> DEFINE lo == x * DPL
           end == y * DPL
           N == Q1Lines * DPL
           clip == MinOf(end, l1 + 1)
<1>1. l1 \in Nat \ {0} /\ Q1Lines \in Nat \ {0} /\ N \in Nat /\ l1 <= N
  BY Number1
<1>2. lo \in Nat /\ end \in Nat /\ lo <= end /\ end <= N
  <2>1. x <= y
    OBVIOUS
  <2>2. QED BY <1>1, <2>1, LineMultiple, LinesAscend
<1>3. lo <= l1
  <2> DEFINE m == Q1Lines - 1
  <2>1. m \in Nat /\ x <= m
    BY <1>1
  <2>2. m * DPL < l1
    BY <1>1, LinesOfDigits DEF Q1Lines
  <2> HIDE DEF m
  <2>3. lo <= m * DPL /\ m * DPL \in Nat
    BY <2>1, LinesAscend, LineMultiple
  <2> HIDE DEF lo
  <2>4. QED BY <1>1, <1>2, <2>2, <2>3
<1>4. Speculative(s2, out, lo, end)
  OBVIOUS
<1> HIDE DEF lo, end, N
<1>5. CASE end <= l1 + 1
  <2>1. clip = end
    BY <1>1, <1>2, <1>5 DEF MinOf
  <2>2. QED BY <2>1 DEF lo, end
<1>6. CASE ~(end <= l1 + 1)
  <2>1. clip = l1 + 1 /\ clip \in Nat /\ clip < end /\ l1 < N /\ l1 \in lo .. clip - 1
        /\ l1 \in lo .. end - 1 /\ clip \in lo .. end
    BY <1>1, <1>2, <1>3, <1>6 DEF MinOf
  <2>2. s2[l1] = 0
    <3>1. l1 \in 0 .. N - 1
      BY <1>1, <2>1
    <3>2. l1 >= l1 /\ DOMAIN s2 = 0 .. N - 1
      BY <1>1, SecondStep DEF N
    <3>3. QED BY <3>1, <3>2, SecondStep
  <2> HIDE DEF clip
  <2>3. ASSUME \A i \in lo .. clip - 1 : out[i] = 9 PROVE FALSE
    <3>1. clip \in lo .. end /\ Speculative(s2, out, lo, end)
      BY <1>4, <2>1
    <3>2. (\A i \in lo .. clip - 1 : out[i] = 9) <=> (\A i \in lo .. clip - 1 : s2[i] = 9)
      BY ONLY <1>2, <3>1, NineRun
    <3>3. s2[l1] = 9
      BY <2>1, <2>3, <3>2
    <3>4. QED BY <2>2, <3>3
  <2>4. ~Escapes(out, lo, clip) /\ ~Escapes(out, lo, end)
    BY <1>2, <2>1, <2>3 DEF Escapes
  <2>5. ASSUME NEW d \in DOMAIN out
        PROVE  (d \in lo .. clip - 1 /\ \A i \in lo .. d - 1 : out[i] = 9)
                 <=> (d \in lo .. end - 1 /\ \A i \in lo .. d - 1 : out[i] = 9)
    <3>1. lo .. clip - 1 \subseteq lo .. end - 1
      BY <1>2, <2>1
    <3>2. ASSUME d \in lo .. end - 1, d \notin lo .. clip - 1
          PROVE  lo .. clip - 1 \subseteq lo .. d - 1
      BY <1>2, <2>1, <3>2
    <3>3. QED BY <2>3, <3>1, <3>2
  <2>6. Increment(out, lo, clip) = Increment(out, lo, end)
    BY <2>5 DEF Increment
  <2>7. QED BY <2>4, <2>6 DEF lo, end, clip
<1>7. QED BY <1>5, <1>6

(* One range resolved: its digits are those of the sum, and so is the      *)
(* carry out of it.                                                        *)
LEMMA RangeMade ==
  ASSUME Truth, Buffers, ResolveHeld, NEW g \in Ranges, ResolveRange(g),
         NEW e \in Chains, g.start = ChainAt(e)[1], g.end = ChainAt(e)[2],
         g.carry = Recorded(e), g.start < g.end
  PROVE  LET lo == range.line * DPL
             end == g.end * DPL
         IN  /\ DOMAIN dst' = DOMAIN dst
             /\ \A d \in DOMAIN dst : d \notin lo .. end - 1 => dst'[d] = dst[d]
             /\ \A d \in lo .. end - 1 : dst'[d] = Chained(s2, 0, d)
             /\ range'.line = g.end /\ g.start = range.line
             /\ range'.carry \in BOOLEAN
             /\ range'.carry <=> CarryInto(s2, 0, end, FALSE)
<1> DEFINE x == range.line
           y == g.end
           lo == x * DPL
           end == y * DPL
           clip == MinOf(end, l1 + 1)
<1>1. /\ g.start = x
      /\ dst' = IF range.carry THEN Increment(dst, lo, clip) ELSE dst
      /\ range'.line = y
      /\ range'.carry = (g.carry \/ (range.carry /\ Escapes(dst, lo, clip)))
  BY DEF ResolveRange
<1>2. /\ x \in Nat /\ y \in Nat /\ x < y /\ y <= Q1Lines /\ x <= y
      /\ Slots(ChainAt(e)) = lo .. end - 1
      /\ \A d \in lo .. end - 1 : d \in 0 .. Q1Lines * DPL - 1
  <2>1. /\ ChainAt(e)[1] \in Nat /\ ChainAt(e)[2] \in Nat /\ ChainAt(e)[1] <= ChainAt(e)[2]
        /\ ChainAt(e)[2] <= Q1Lines
        /\ Slots(ChainAt(e)) = ChainAt(e)[1] * DPL .. ChainAt(e)[2] * DPL - 1
        /\ \A d \in Slots(ChainAt(e)) : d \in 0 .. Q1Lines * DPL - 1
    BY ChainIs
  <2>2. ChainAt(e)[1] = x /\ ChainAt(e)[2] = y
    BY <1>1
  <2>3. x < y
    BY <1>1
  <2> HIDE DEF x, y
  <2>4. QED BY <2>1, <2>2, <2>3
<1>3. lo \in Nat /\ end \in Nat /\ lo <= end
  <2> HIDE DEF x, y
  <2>1. QED BY <1>2, LineMultiple, LinesAscend
<1>4. /\ range.carry \in BOOLEAN /\ (range.carry <=> CarryInto(s2, 0, lo, FALSE))
      /\ range.line <= ChainAt(e)[1]
  <2>1. range.line <= ChainAt(e)[1]
    BY <1>1, <1>2
  <2>2. QED BY <2>1 DEF ResolveHeld
<1>5. Held(dst, s2, ChainAt(e), Recorded(e))
  BY <1>4 DEF ResolveHeld, ChainHeld
<1>6. /\ \A d \in lo .. end - 1 : dst[d] = Chained(s2, lo, d)
      /\ g.carry \in BOOLEAN /\ (g.carry <=> CarryInto(s2, lo, end, FALSE))
  BY <1>1, <1>2, <1>5 DEF Held
<1>7. lo .. end - 1 \subseteq DOMAIN dst
  BY <1>2, RoomIs
<1>8. Speculative(s2, dst, lo, end)
  <2>1. \A d \in 0 .. Q1Lines * DPL - 1 : s2[d] \in 0 .. 18
    BY SecondStep
  <2>2. \A d \in lo .. end - 1 : s2[d] \in 0 .. 18
    BY <1>2, <2>1
  <2> HIDE DEF lo, end
  <2>3. QED BY <1>6, <2>2 DEF Speculative, Chained
<1>9. /\ Increment(dst, lo, clip) = Increment(dst, lo, end)
      /\ Escapes(dst, lo, clip) <=> Escapes(dst, lo, end)
  <2> HIDE DEF x, y
  <2>1. QED BY <1>2, <1>8, RoomHarmless
<1> HIDE DEF x, y, lo, end, clip
<1>10. ASSUME NEW d \in lo .. end
       PROVE  CarryInto(s2, 0, d, FALSE) <=> CarryInto(s2, lo, d, CarryInto(s2, 0, lo, FALSE))
  <2>1. d \in Nat /\ lo <= d
    BY <1>3
  <2>2. QED BY ONLY <1>3, <2>1, CarryFromZero
<1>11. end \in lo .. end /\ \A d \in lo .. end - 1 : d \in lo .. end
  BY <1>3
<1>12. CASE ~range.carry
  <2>1. dst' = dst
    BY <1>1, <1>12
  <2>2. \A d \in lo .. end : CarryInto(s2, 0, d, FALSE) <=> CarryInto(s2, lo, d, FALSE)
    BY <1>4, <1>10, <1>12 DEF CarryInto
  <2>3. ASSUME NEW d \in lo .. end - 1 PROVE dst[d] = Chained(s2, 0, d)
    <3>1. CarryInto(s2, lo, d, FALSE) <=> CarryInto(s2, 0, d, FALSE)
      BY <1>11, <2>2
    <3>2. Resolved(s2[d], CarryInto(s2, lo, d, FALSE)) = Resolved(s2[d], CarryInto(s2, 0, d, FALSE))
      BY ONLY <3>1, ResolvedSame
    <3>3. QED BY <1>6, <3>2 DEF Chained
  <2>4. range'.carry <=> CarryInto(s2, 0, end, FALSE)
    BY <1>1, <1>6, <1>11, <1>12, <2>2
  <2>5. range'.carry \in BOOLEAN
    BY <1>1
  <2>6. QED BY <1>1, <2>1, <2>3, <2>4, <2>5 DEF x, y, lo, end
<1>13. CASE range.carry
  <2>1. CarryInto(s2, 0, lo, FALSE)
    BY <1>4, <1>13
  <2>2. /\ \A d \in lo .. end - 1 :
             Increment(dst, lo, end)[d] = Resolved(s2[d], CarryInto(s2, lo, d, TRUE))
        /\ CarryInto(s2, lo, end, TRUE)
             <=> CarryInto(s2, lo, end, FALSE) \/ Escapes(dst, lo, end)
    BY ONLY <1>3, <1>7, <1>8, SpeculationSound
  <2>3. \A d \in lo .. end : CarryInto(s2, 0, d, FALSE) <=> CarryInto(s2, lo, d, TRUE)
    BY <1>10, <2>1 DEF CarryInto
  <2>4. dst' = Increment(dst, lo, end)
    BY <1>1, <1>9, <1>13
  <2>5. /\ DOMAIN dst' = DOMAIN dst
        /\ \A d \in DOMAIN dst : d \notin lo .. end - 1 => dst'[d] = dst[d]
    BY <2>4 DEF Increment
  <2>6. ASSUME NEW d \in lo .. end - 1 PROVE dst'[d] = Chained(s2, 0, d)
    <3>1. CarryInto(s2, lo, d, TRUE) <=> CarryInto(s2, 0, d, FALSE)
      BY <1>11, <2>3
    <3>2. Resolved(s2[d], CarryInto(s2, lo, d, TRUE)) = Resolved(s2[d], CarryInto(s2, 0, d, FALSE))
      BY ONLY <3>1, ResolvedSame
    <3>3. QED BY <2>2, <2>4, <3>2 DEF Chained
  <2>7. range'.carry <=> CarryInto(s2, 0, end, FALSE)
    BY <1>1, <1>6, <1>9, <1>11, <1>13, <2>2, <2>3
  <2>8. range'.carry \in BOOLEAN
    BY <1>1
  <2>9. QED BY <1>1, <2>5, <2>6, <2>7, <2>8 DEF x, y, lo, end
<1>14. QED BY <1>4, <1>12, <1>13

(* One range resolved: the others stay as they are. *)
LEMMA ResultRange ==
  ASSUME ResultInv, PassInv', UNCHANGED truth, pc = "resolve", NEW g \in Ranges, ResolveRange(g)
  PROVE  ResultInv'
<1>1. /\ pc' = pc /\ consumers' = consumers /\ UNCHANGED <<blockCarry, chunkCarry>>
      /\ DOMAIN dst' = DOMAIN dst
  BY DEF ResolveRange, carries, Increment
<1>2. /\ PassInv /\ Truth /\ Buffers /\ consumers = Consumers
      /\ Apart(Consumers) => CleanAbove /\ ResolveHeld
  BY DEF ResultInv, PassInv
<1>3. /\ Q1Lines' = Q1Lines /\ Chains' = Chains /\ Consumers' = Consumers /\ s2' = s2 /\ l1' = l1
      /\ \A c : ChainAt(c)' = ChainAt(c) /\ ReadBy(c)' = ReadBy(c)
  BY ChainsSame
<1>4. Buffers'
  BY <1>1, <1>2, <1>3 DEF Buffers
<1>5. \A c : Recorded(c)' = Recorded(c)
  <2>1. rounds' = rounds /\ \A t : \A k : ChunkSlot(t, k)' = ChunkSlot(t, k)
    BY TruthOnly DEF truth
  <2>2. QED BY <1>1, <2>1 DEF Recorded
<1>6. ASSUME Apart(Consumers) PROVE CleanAbove' /\ ResolveHeld'
  <2> DEFINE x == range.line
             y == g.end
             lo == x * DPL
             end == y * DPL
             N == Q1Lines * DPL
  <2>1. CleanAbove /\ ResolveHeld
    BY <1>2, <1>6
  <2>2. PICK e \in Chains : /\ g.start = ChainAt(e)[1] /\ g.end = ChainAt(e)[2]
                            /\ g.carry = Recorded(e) /\ g.start < g.end
    BY <1>2, RangesAre
  <2>3. /\ \A d \in DOMAIN dst : d \notin lo .. end - 1 => dst'[d] = dst[d]
        /\ \A d \in lo .. end - 1 : dst'[d] = Chained(s2, 0, d)
        /\ range'.line = y /\ g.start = x
        /\ range'.carry \in BOOLEAN
        /\ range'.carry <=> CarryInto(s2, 0, end, FALSE)
    BY <1>2, <2>1, <2>2, RangeMade
  <2>4. /\ x \in Nat /\ y \in Nat /\ x < y /\ y <= Q1Lines /\ x <= y /\ Q1Lines \in Nat
        /\ Slots(ChainAt(e)) = lo .. end - 1
        /\ \A d \in lo .. end - 1 : d \in 0 .. N - 1
    <3>1. /\ ChainAt(e)[1] \in Nat /\ ChainAt(e)[2] \in Nat /\ ChainAt(e)[1] <= ChainAt(e)[2]
          /\ ChainAt(e)[2] <= Q1Lines
          /\ Slots(ChainAt(e)) = ChainAt(e)[1] * DPL .. ChainAt(e)[2] * DPL - 1
          /\ \A d \in Slots(ChainAt(e)) : d \in 0 .. Q1Lines * DPL - 1
      BY <1>2, ChainIs
    <3>2. ChainAt(e)[1] = x /\ ChainAt(e)[2] = y /\ x < y /\ Q1Lines \in Nat
      BY <1>2, <2>2, <2>3, Number1
    <3> HIDE DEF x, y
    <3>3. QED BY <3>1, <3>2
  <2>5. lo \in Nat /\ end \in Nat /\ lo <= end /\ N \in Nat
    <3> HIDE DEF x, y
    <3>1. QED BY <2>4, LineMultiple, LinesAscend
  <2>6. \A d \in 0 .. N - 1 : d \in DOMAIN dst
    BY <1>2, RoomIs
  <2>7. \A d \in 0 .. lo - 1 : dst[d] = Chained(s2, 0, d)
    BY <2>1 DEF ResolveHeld
  <2>8. \A c \in Chains : x <= ChainAt(c)[1] => ChainHeld(c, s2)
    BY <2>1 DEF ResolveHeld
  <2>9. CleanAbove'
    <3>1. \A d \in DOMAIN dst : d >= N => dst[d] = 0
      BY <2>1 DEF CleanAbove
    <3> HIDE DEF lo, end, N
    <3>2. \A d \in DOMAIN dst : d >= N => d \notin lo .. end - 1
      <4>1. \A d \in 0 .. N - 1 : ~(d >= N)
        BY <2>5
      <4>2. QED BY <2>4, <4>1
    <3>3. \A d \in DOMAIN dst' : d >= N => dst'[d] = 0
      BY <1>1, <2>3, <3>1, <3>2
    <3>4. QED BY <1>3, <3>3 DEF CleanAbove, N
  <2>10. \A d \in 0 .. end - 1 : dst'[d] = Chained(s2, 0, d)
    <3> HIDE DEF lo, end, N, x, y
    <3> SUFFICES ASSUME NEW d \in 0 .. end - 1 PROVE dst'[d] = Chained(s2, 0, d)
      OBVIOUS
    <3>1. CASE d \in lo .. end - 1
      BY <2>3, <3>1
    <3>2. CASE d \notin lo .. end - 1
      <4>1. d \in 0 .. lo - 1
        BY <2>5, <3>2
      <4>2. d \in 0 .. N - 1
        <5>1. lo <= N
          <6>1. x <= Q1Lines
            BY <2>4
          <6>2. QED BY <2>4, <6>1, LinesAscend DEF lo, N
        <5>2. QED BY <2>5, <4>1, <5>1
      <4>3. QED BY <2>3, <2>6, <2>7, <3>2, <4>1, <4>2
    <3>3. QED BY <3>1, <3>2
  <2>11. ASSUME NEW c \in Chains, y <= ChainAt(c)[1]
         PROVE  Held(dst', s2, ChainAt(c), Recorded(c))
    <3> HIDE DEF lo, end, N
    <3>1. ChainAt(c)[1] \in Nat /\ ChainAt(e)[1] = x /\ \A d \in Slots(ChainAt(c)) : d \in 0 .. N - 1
      BY <1>2, <2>2, <2>3, ChainIs DEF N
    <3> HIDE DEF x, y
    <3>2. x <= ChainAt(c)[1] /\ ChainAt(c)[1] # x
      BY <2>4, <2>11, <3>1
    <3>3. c # e
      BY <3>1, <3>2
    <3>4. \A d \in Slots(ChainAt(c)) : d \notin Slots(ChainAt(e))
      BY <1>2, <3>3, ChainsApart
    <3>5. \A d \in Slots(ChainAt(c)) : dst'[d] = dst[d]
      BY <2>3, <2>4, <2>6, <3>1, <3>4
    <3>6. Held(dst, s2, ChainAt(c), Recorded(c))
      BY <2>8, <3>2 DEF ChainHeld
    <3>7. QED BY <3>5, <3>6, HeldKept
  <2>12. ResolveHeld'
    <3>1. y \in 0 .. Q1Lines
      <4> HIDE DEF x, y
      <4>1. QED BY <2>4
    <3>2. ASSUME NEW c \in Chains, range'.line <= ChainAt(c)[1]
          PROVE  Held(dst', s2', ChainAt(c)', Recorded(c)')
      BY <1>3, <1>5, <2>3, <2>11, <3>2
    <3>3. \A c \in Chains' : range'.line <= ChainAt(c)'[1] => ChainHeld(c, s2)'
      BY <1>3, <3>2 DEF ChainHeld, Held
    <3>4. /\ range'.line \in 0 .. Q1Lines' /\ range'.carry \in BOOLEAN
          /\ range'.carry <=> CarryInto(s2', 0, range'.line * DPL, FALSE)
          /\ \A d \in 0 .. range'.line * DPL - 1 : dst'[d] = Chained(s2', 0, d)
      BY <1>3, <2>3, <2>10, <3>1
    <3>5. QED BY <3>3, <3>4 DEF ResolveHeld, Chained
  <2>13. QED BY <2>9, <2>12
<1>7. QED BY <1>1, <1>2, <1>3, <1>4, <1>6 DEF ResultInv

(* The carries of the second step, from its sums; above the intermediate   *)
(* number there are none.                                                  *)
LEMMA SecondCarries ==
  ASSUME Truth
  PROVE  LET S == Sums(Middle, l1)
         IN  /\ \A d \in 0 .. l1 : CarryInto(s2, 0, d, FALSE) <=> CarryInto(S, 0, d, FALSE)
             /\ \A d \in l1 + 1 .. Q1Lines * DPL : ~CarryInto(s2, 0, d, FALSE)
             /\ PrescanGrow(Middle, l1) <=> CarryInto(s2, 0, l1, FALSE)
<1> DEFINE S == Sums(Middle, l1)
           N == Q1Lines * DPL
<1>1. l1 \in Nat \ {0} /\ N \in Nat /\ l1 <= N /\ Middle \in Number(l1)
  BY Number1
<1>2. /\ DOMAIN s2 = 0 .. N - 1
      /\ \A d \in 0 .. l1 - 1 : s2[d] = S[d]
      /\ \A d \in DOMAIN s2 : d >= l1 => s2[d] = 0
  BY SecondStep
<1> HIDE DEF S, N
<1>3. ASSUME NEW d \in 0 .. l1 PROVE CarryInto(s2, 0, d, FALSE) <=> CarryInto(S, 0, d, FALSE)
  <2>1. d \in Nat /\ \A i \in 0 .. d - 1 : s2[i] = S[i]
    BY <1>1, <1>2
  <2>2. QED BY <2>1, CarryOfEqual
<1>4. ASSUME NEW d \in l1 + 1 .. N PROVE ~CarryInto(s2, 0, d, FALSE)
  <2> DEFINE e == d - 1
  <2>1. e \in Nat /\ d = e + 1 /\ e \in 0 .. N - 1 /\ e >= l1 /\ 0 <= e
    BY <1>1
  <2>2. s2[e] = 0
    BY <1>2, <2>1
  <2> HIDE DEF e
  <2>3. CarryInto(s2, 0, e + 1, FALSE)
          <=> s2[e] > 9 \/ (s2[e] = 9 /\ CarryInto(s2, 0, e, FALSE))
    <3>1. s2[e] \in Int /\ 0 \in Nat /\ FALSE \in BOOLEAN
      BY <2>2
    <3>2. QED BY <2>1, <3>1, CarryRecurrence
  <2>4. ~(s2[e] > 9) /\ s2[e] # 9
    BY <2>2
  <2>5. ~CarryInto(s2, 0, e + 1, FALSE)
    BY ONLY <2>3, <2>4
  <2>6. QED BY <2>1, <2>5
<1>5. PrescanGrow(Middle, l1) <=> CarryInto(s2, 0, l1, FALSE)
  <2>1. PrescanGrow(Middle, l1) <=> CarryInto(S, 0, l1, FALSE)
    BY <1>1, PrescanExact DEF S
  <2>2. l1 \in 0 .. l1
    BY <1>1
  <2>3. QED BY <1>3, <2>1, <2>2
<1>6. QED BY <1>3, <1>4, <1>5 DEF S, N

(* The number the two steps make. *)
LEMMA WantedIs ==
  ASSUME Truth
  PROVE  /\ NumDigits(Wanted) = l1 + Bit(PrescanGrow(Middle, l1))
         /\ \A d \in 0 .. l1 - 1 : Wanted[d] = Chained(s2, 0, d)
         /\ PrescanGrow(Middle, l1) => Wanted[l1] = 1
<1> DEFINE S == Sums(Middle, l1)
           grow == PrescanGrow(Middle, l1)
           m == l1 + Bit(grow)
<1>1. l1 \in Nat \ {0} /\ Middle \in Number(l1) /\ Proper(Middle, l1)
  BY Number1
<1>2. m \in {l1, l1 + 1} /\ ReverseAdd(Middle, l1) \in Number(m)
  BY <1>1, ReverseAddProper
<1>3. NumDigits(Wanted) = m
  <2>1. m \in Nat /\ Wanted \in Number(m)
    BY <1>1, <1>2 DEF Wanted
  <2> HIDE DEF m
  <2>2. QED BY <2>1, NumDigitsOfNumber
<1>4. Wanted = [d \in 0 .. l1 - 1 + Bit(grow) |->
                  IF d = l1 THEN 1 ELSE Resolved(S[d], CarryInto(S, 0, d, FALSE))]
  BY DEF Wanted, ReverseAdd
<1>5. ASSUME NEW d \in 0 .. l1 - 1 PROVE Wanted[d] = Chained(s2, 0, d)
  <2>1. d \in 0 .. l1 - 1 + Bit(grow) /\ d # l1 /\ d \in 0 .. l1
    BY <1>1 DEF Bit
  <2>2. Wanted[d] = Resolved(S[d], CarryInto(S, 0, d, FALSE))
    BY <1>4, <2>1
  <2>3. s2[d] = S[d] /\ (CarryInto(s2, 0, d, FALSE) <=> CarryInto(S, 0, d, FALSE))
    BY <2>1, SecondStep, SecondCarries
  <2>4. Resolved(S[d], CarryInto(s2, 0, d, FALSE)) = Resolved(S[d], CarryInto(S, 0, d, FALSE))
    BY ONLY <2>3, ResolvedSame, ZenonT(60)
  <2>5. QED BY <2>2, <2>3, <2>4 DEF Chained
<1>6. ASSUME grow PROVE Wanted[l1] = 1
  <2>1. l1 \in 0 .. l1 - 1 + Bit(grow)
    BY <1>1, <1>6 DEF Bit
  <2>2. QED BY <1>4, <2>1
<1>7. QED BY <1>3, <1>5, <1>6

(* The resolution has reached the end of the number: a carry is left only  *)
(* where it grew, and the slot above it tells that it did.                 *)
LEMMA ResultReturn ==
  ASSUME ResultInv, PassInv', UNCHANGED truth, Return
  PROVE  ResultInv'
<1>1. /\ pc = "resolve" /\ pc' = "done" /\ consumers' = consumers
      /\ UNCHANGED <<blockCarry, chunkCarry>>
      /\ range.line = Q1Lines
      /\ dst' = IF range.carry THEN [dst EXCEPT ![l1] = 1] ELSE dst
      /\ digits' = l1 + Bit(dst'[l1] # 0)
  BY DEF Return, carries
<1>2. /\ PassInv /\ Truth /\ Buffers /\ consumers = Consumers
      /\ Apart(Consumers) => CleanAbove /\ ResolveHeld
  BY <1>1 DEF ResultInv, PassInv
<1>3. /\ Q1Lines' = Q1Lines /\ Consumers' = Consumers /\ Wanted' = Wanted /\ l1' = l1
  BY ChainsSame
<1>4. DOMAIN dst' = DOMAIN dst
  BY <1>1
<1>5. Buffers'
  BY <1>1, <1>2, <1>3, <1>4 DEF Buffers
<1>6. ASSUME Apart(Consumers) PROVE Result'
  <2> DEFINE N == Q1Lines * DPL
             grow == PrescanGrow(Middle, l1)
  <2>1. /\ range.carry \in BOOLEAN /\ (range.carry <=> CarryInto(s2, 0, N, FALSE))
        /\ \A d \in 0 .. N - 1 : dst[d] = Chained(s2, 0, d)
        /\ \A d \in DOMAIN dst : d >= N => dst[d] = 0
    BY <1>1, <1>2, <1>6 DEF ResolveHeld, CleanAbove
  <2>2. l1 \in Nat \ {0} /\ N \in Nat /\ l1 <= N
    BY <1>2, Number1
  <2>3. l1 \in DOMAIN dst /\ \A d \in DOMAIN dst : d \in Nat
    BY <1>2, RoomIs
  <2>4. /\ \A d \in l1 + 1 .. N : ~CarryInto(s2, 0, d, FALSE)
        /\ grow <=> CarryInto(s2, 0, l1, FALSE)
    BY <1>2, SecondCarries
  <2>5. \A d \in 0 .. N - 1 : d >= l1 => s2[d] = 0
    BY <1>2, SecondStep
  <2> HIDE DEF N, grow
  <2>6. range.carry => N = l1 /\ grow
    <3>1. N # l1 => N \in l1 + 1 .. N
      BY <2>2
    <3>2. QED BY <2>1, <2>4, <3>1
  <2>7. /\ \A d \in DOMAIN dst : d # l1 => dst'[d] = dst[d]
        /\ dst'[l1] = IF range.carry THEN 1 ELSE dst[l1]
    BY <1>1, <2>3
  <2>8. dst'[l1] = Bit(grow)
    <3>1. CASE range.carry
      BY <2>6, <2>7, <3>1 DEF Bit
    <3>2. CASE ~range.carry /\ N = l1
      <4>1. ~grow
        BY <2>1, <2>4, <3>2
      <4>2. dst[l1] = 0
        <5>1. l1 >= N
          BY <2>2, <3>2
        <5>2. QED BY <2>1, <2>3, <5>1
      <4>3. QED BY <2>7, <3>2, <4>1, <4>2 DEF Bit
    <3>3. CASE ~range.carry /\ N # l1
      <4>1. l1 \in 0 .. N - 1 /\ l1 >= l1
        BY <2>2, <3>3
      <4>2. dst[l1] = Resolved(0, CarryInto(s2, 0, l1, FALSE))
        BY <2>1, <2>5, <4>1 DEF Chained
      <4>3. Resolved(0, CarryInto(s2, 0, l1, FALSE)) = Resolved(0, grow)
        BY ONLY <2>4, ResolvedSame
      <4>4. Resolved(0, grow) = Bit(grow)
        BY DEF Resolved, Bit
      <4>5. QED BY <2>7, <3>3, <4>2, <4>3, <4>4
    <3>4. QED BY <2>1, <3>1, <3>2, <3>3
  <2>9. digits' = l1 + Bit(grow)
    <3>1. (dst'[l1] # 0) <=> grow
      BY <2>8 DEF Bit
    <3>2. Bit(dst'[l1] # 0) = Bit(grow)
      BY ONLY <3>1 DEF Bit
    <3>3. QED BY <1>1, <3>2
  <2>10. /\ NumDigits(Wanted) = l1 + Bit(grow)
         /\ \A d \in 0 .. l1 - 1 : Wanted[d] = Chained(s2, 0, d)
         /\ grow => Wanted[l1] = 1
    BY <1>2, WantedIs DEF grow
  <2>11. ASSUME NEW d \in DOMAIN dst
         PROVE  dst'[d] = IF d < digits' THEN Wanted[d] ELSE 0
    <3>1. d \in Nat /\ Bit(grow) \in {0, 1} /\ (grow <=> Bit(grow) = 1)
      BY <2>3 DEF Bit
    <3>2. CASE d < l1
      <4>1. d \in 0 .. l1 - 1 /\ d # l1 /\ d \in 0 .. N - 1 /\ d < digits'
        BY <2>2, <2>9, <3>1, <3>2
      <4>2. QED BY <2>1, <2>7, <2>10, <4>1
    <3>3. CASE d = l1
      <4>1. d < digits' <=> grow
        BY <2>2, <2>9, <3>1, <3>3
      <4>2. QED BY <2>8, <2>10, <3>1, <3>3, <4>1
    <3>4. CASE d > l1
      <4>1. ~(d < digits') /\ d # l1
        BY <2>2, <2>9, <3>1, <3>4
      <4>2. dst[d] = 0
        <5>1. CASE d >= N
          BY <2>1, <5>1
        <5>2. CASE ~(d >= N)
          <6>1. d \in 0 .. N - 1 /\ d \in l1 + 1 .. N /\ d >= l1
            BY <2>2, <3>1, <3>4, <5>2
          <6>2. s2[d] = 0 /\ ~CarryInto(s2, 0, d, FALSE)
            BY <2>4, <2>5, <6>1
          <6>3. dst[d] = Resolved(0, CarryInto(s2, 0, d, FALSE))
            BY <2>1, <6>1, <6>2 DEF Chained
          <6>4. Resolved(0, CarryInto(s2, 0, d, FALSE)) = 0
            BY <6>2 DEF Resolved, Bit
          <6>5. QED BY <6>3, <6>4
        <5>3. QED BY <5>1, <5>2
      <4>3. QED BY <2>7, <4>1, <4>2
    <3>5. QED BY <2>2, <3>1, <3>2, <3>3, <3>4
  <2>12. QED BY <1>3, <1>4, <2>9, <2>10, <2>11 DEF Result
<1>7. QED BY <1>1, <1>2, <1>3, <1>5, <1>6 DEF ResultInv

(* A step that changes nothing. *)
LEMMA ResultStutter ==
  ASSUME ResultInv, PassInv', UNCHANGED vars
  PROVE  ResultInv'
<1>1. /\ UNCHANGED truth /\ UNCHANGED <<blockCarry, chunkCarry, dst, pc, range, consumers, repairs,
                                         digits, walk>>
  BY DEF vars, carries
<1>2. /\ Q1Lines' = Q1Lines /\ Chains' = Chains /\ Consumers' = Consumers /\ s2' = s2 /\ l1' = l1
      /\ Wanted' = Wanted
      /\ \A c : ChainAt(c)' = ChainAt(c) /\ ReadBy(c)' = ReadBy(c)
  BY <1>1, ChainsSame
<1>3. \A t : \A k : ChunkSlot(t, k)' = ChunkSlot(t, k)
  BY <1>1, TruthOnly
<1>4. \A c : Recorded(c)' = Recorded(c)
  <2>1. rounds' = rounds
    BY <1>1 DEF truth
  <2>2. QED BY <1>1, <1>3, <2>1 DEF Recorded
<1>5. PassInv
  BY DEF ResultInv
<1>6. Buffers' <=> Buffers
  BY <1>1, <1>2 DEF Buffers
<1>7. CleanAbove' <=> CleanAbove
  BY <1>1, <1>2 DEF CleanAbove
<1>8. Result' <=> Result
  BY <1>1, <1>2 DEF Result
<1>9. \A c, s : Held(dst', s, ChainAt(c)', Recorded(c)') <=> Held(dst, s, ChainAt(c), Recorded(c))
  BY <1>1, <1>2, <1>4
<1>10. RepairHeld => RepairHeld'
  <2> SUFFICES ASSUME RepairHeld PROVE RepairHeld'
    OBVIOUS
  <2>1. ASSUME NEW c \in Chains
        PROVE  Held(dst', IF \E x \in repairs' : ChainOf(x) = c THEN ReadBy(c)' ELSE s2',
                    ChainAt(c)', Recorded(c)')
    <3>1. ChainHeld(c, IF \E x \in repairs : ChainOf(x) = c THEN ReadBy(c) ELSE s2)
      BY DEF RepairHeld
    <3>2. QED BY <1>1, <1>2, <1>4, <3>1 DEF ChainHeld
  <2>2. QED BY <1>2, <2>1 DEF RepairHeld, ChainHeld, ChainOf, Held
<1>11. ResolveHeld => ResolveHeld'
  <2> SUFFICES ASSUME ResolveHeld PROVE ResolveHeld'
    OBVIOUS
  <2>1. ASSUME NEW c \in Chains, range'.line <= ChainAt(c)'[1]
        PROVE  Held(dst', s2', ChainAt(c)', Recorded(c)')
    <3>1. ChainHeld(c, s2)
      BY <1>1, <1>2, <2>1 DEF ResolveHeld
    <3>2. QED BY <1>1, <1>2, <1>4, <3>1 DEF ChainHeld
  <2>2. \A c \in Chains' : range'.line <= ChainAt(c)'[1] => ChainHeld(c, s2)'
    BY <1>2, <2>1 DEF ChainHeld, Held
  <2>3. QED BY <1>1, <1>2, <2>2 DEF ResolveHeld, Chained
<1>12. ASSUME NEW t \in Thread, PassHeld(t) PROVE PassHeld(t)'
  <2>1. walk[t].at = "end" => blockCarry[t] = walk[t].carry
    BY <1>12 DEF PassHeld
  <2>2. QED BY <1>1, <1>12, <2>1, PassHeldKept
<1>13. QED BY <1>1, <1>2, <1>6, <1>7, <1>8, <1>10, <1>11, <1>12 DEF ResultInv

LEMMA ResultStep == ResultInv /\ [Next]_vars => ResultInv'
<1> SUFFICES ASSUME ResultInv, [Next]_vars PROVE ResultInv'
  OBVIOUS
<1>1. UNCHANGED truth
  BY TruthConstant
<1>2. PassInv'
  <2>1. PassInv
    BY DEF ResultInv
  <2>2. QED BY <2>1, PassStep
<1>3. ASSUME NEW t \in Thread, PhaseA(t) \/ PhaseB(t) \/ PassEnd(t) PROVE ResultInv'
  BY <1>1, <1>2, <1>3, ResultPass
<1>4. ASSUME NEW x \in repairs, RepairLine(x) PROVE ResultInv'
  BY <1>1, <1>2, <1>4, ResultRepair
<1>5. ASSUME pc = "resolve", NEW g \in Ranges, ResolveRange(g) PROVE ResultInv'
  BY <1>1, <1>2, <1>5, ResultRange
<1>6. CASE StartRepair
  BY <1>1, <1>2, <1>6, ResultStart
<1>7. CASE EndRepair
  BY <1>1, <1>2, <1>7, ResultResolve
<1>8. CASE Return
  BY <1>1, <1>2, <1>8, ResultReturn
<1>9. CASE Done \/ UNCHANGED vars
  BY <1>2, <1>9, ResultStutter DEF Done
<1>10. QED BY <1>3, <1>4, <1>5, <1>6, <1>7, <1>8, <1>9 DEF Next

(* The repair leaves every range as the true sums make it (RangesExact):   *)
(* whatever the interleaving of the pass, however far the carries run.     *)
THEOREM RangesAfterRepair == Spec => []RangesExact
<1>1. Init => ResultInv
  BY ResultInit
<1>2. ResultInv /\ [Next]_vars => ResultInv'
  BY ResultStep
<1>3. ResultInv => RangesExact
  BY ResultRanges
<1>4. QED BY <1>1, <1>2, <1>3, PTL DEF Spec

(* The double step makes what two single steps do, digits, length and the  *)
(* padding, wherever no chain had two lines to repair                      *)
(* (TwoStepsUnlessRepairedTwice).                                          *)
THEOREM TwoStepsInOne == Spec => []TwoStepsUnlessRepairedTwice
<1>1. Init => ResultInv
  BY ResultInit
<1>2. ResultInv /\ [Next]_vars => ResultInv'
  BY ResultStep
<1>3. ResultInv => TwoStepsUnlessRepairedTwice
  BY DEF ResultInv, Result, TwoStepsUnlessRepairedTwice
<1>4. QED BY <1>1, <1>2, <1>3, PTL DEF Spec

=============================================================================
