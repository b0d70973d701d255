-------------------------- MODULE PackedLoopProofs --------------------------
(***************************************************************************)
(* From any numbers, over any ranges, with reports at any interval and     *)
(* fusion from any length on, the packed loop is the reference loop: the   *)
(* steps it fuses run over no report, over no palindrome and not past the  *)
(* end, and what it rewinds to is what the reference loop has there.       *)
(***************************************************************************)
EXTENDS PackedLoop, ArithmeticProofs

-----------------------------------------------------------------------------
(* The invariant *)

Clean(x, n) == DOMAIN x \subseteq Nat /\ \A d \in DOMAIN x : d >= n => x[d] = 0

(* The buffers between iterations: the current number and nothing above    *)
(* it, and in the other one nothing above it either, which is what a step  *)
(* that grows by a line relies on.                                         *)
Buffers ==
  /\ digits \in Nat \ {0} /\ IsProper(Current)
  /\ 0 .. DivCeil(digits, DPL) * DPL - 1 \subseteq DOMAIN a[cur]
  /\ Clean(a[cur], digits) /\ Clean(a[1 - cur], digits)

(* After a step and before its report the reference loop has sent that     *)
(* report already.                                                         *)
ToReport ==
  pc = "report" =>
    ref = [number |-> Current, carried |-> carried, i |-> i + 1,
           reports |-> Reported(i, Current, sent)]

LoopInv ==
  /\ pc \in {"test", "step", "report", "out"}
  /\ i \in Nat /\ end \in Nat
  /\ cur \in {0, 1} /\ DOMAIN a = {0, 1}
  /\ pc # "out" => Buffers /\ rewound = 0
  /\ pc = "step" => ~RefStops(ref)
  /\ InStepWithReference /\ ToReport /\ EndsLikeReference /\ CleanWhileRunning

-----------------------------------------------------------------------------
(* Numbers *)

Plus(x) == ReverseAdd(x, NumDigits(x))
Carries(x) == AnyCarried(x, NumDigits(x))

LEMMA ProperPlus ==
  ASSUME NEW x, IsProper(x)
  PROVE  /\ NumDigits(x) \in Nat \ {0} /\ x \in Number(NumDigits(x))
         /\ IsProper(Plus(x))
         /\ NumDigits(Plus(x)) = NumDigits(x) + Bit(PrescanGrow(x, NumDigits(x)))
         /\ NumDigits(Plus(x)) \in {NumDigits(x), NumDigits(x) + 1}
         /\ ~Carries(x) => ~PrescanGrow(x, NumDigits(x))
<1> DEFINE n == NumDigits(x)
           m == n + Bit(PrescanGrow(x, n))
<1>1. n \in Nat \ {0} /\ x \in Number(n) /\ Proper(x, n)
  BY DEF IsProper, Proper
<1>2. m \in {n, n + 1} /\ Plus(x) \in Number(m) /\ Proper(Plus(x), m)
  BY <1>1, ReverseAddProper DEF Plus
<1>3. m \in Nat
  BY <1>1, <1>2
<1>4. NumDigits(Plus(x)) = m
  BY <1>2, <1>3, NumDigitsOfNumber
<1>5. IsProper(Plus(x))
  BY <1>2, <1>3, <1>4 DEF IsProper
<1>6. ASSUME PrescanGrow(x, n) PROVE Carries(x)
  <2>1. CarryInto(Sums(x, n), 0, n, FALSE)
    BY <1>1, <1>6, PrescanExact
  <2>2. n \in 1 .. n
    BY <1>1
  <2>3. QED BY <2>1, <2>2 DEF Carries, AnyCarried
<1>7. QED BY <1>1, <1>2, <1>4, <1>5, <1>6

(* The numbers a fused step goes through are the reference loop's. *)
LEMMA ThroughSteps ==
  /\ Through[0] = Current
  /\ \A n \in 1 .. 3 : Through[n] = Plus(Through[n - 1])
<1> DEFINE x1 == Plus(Current)
           x2 == Plus(x1)
           x3 == Plus(x2)
           f == [n \in 0 .. 3 |-> IF n = 0 THEN Current ELSE IF n = 1 THEN x1
                                  ELSE IF n = 2 THEN x2 ELSE x3]
           Body(g) == [n \in 0 .. 3 |-> IF n = 0 THEN Current ELSE Plus(g[n - 1])]
<1>1. Through = CHOOSE g : g = Body(g)
  BY DEF Through, Plus
<1>2. f = Body(f)
  <2>1. /\ f[0] = Current /\ f[1] = x1 /\ f[2] = x2 /\ f[3] = x3
    OBVIOUS
  <2> HIDE DEF x1, x2, x3
  <2>2. /\ x1 = Plus(f[0]) /\ x2 = Plus(f[1]) /\ x3 = Plus(f[2])
    BY <2>1 DEF x1, x2, x3
  <2>3. QED BY <2>2
<1> HIDE DEF f
<1>3. Through = Body(Through)
  <2> HIDE DEF Body
  <2>1. QED BY <1>1, <1>2
<1>4. QED BY <1>3

LEMMA ThroughProper ==
  ASSUME IsProper(Current)
  PROVE  /\ IsProper(Through[0]) /\ IsProper(Through[1])
         /\ IsProper(Through[2]) /\ IsProper(Through[3])
<1>1. IsProper(Through[0])
  BY ThroughSteps
<1>2. IsProper(Through[1])
  BY <1>1, ThroughSteps, ProperPlus
<1>3. IsProper(Through[2])
  BY <1>2, ThroughSteps, ProperPlus
<1>4. IsProper(Through[3])
  BY <1>3, ThroughSteps, ProperPlus
<1>5. QED BY <1>1, <1>2, <1>3, <1>4

-----------------------------------------------------------------------------
(* The single step on whole lines *)

(* The lines of a number of n digits, and the column sums of a pass over   *)
(* lines that begin with such a number.                                    *)
LineDigits(n) == DivCeil(n, DPL) * DPL
Columns(x, n) == [d \in 0 .. LineDigits(n) - 1 |-> x[d] + IF d < n THEN x[n - 1 - d] ELSE 0]

Holds(x, X, n) == \A d \in 0 .. n - 1 : x[d] = X[d]
Padded(x, n) == \A d \in n .. LineDigits(n) - 1 : x[d] = 0

(* What the pass leaves in the destination y. *)
Filled(x, y, n) ==
  LET s == Columns(x, n)
      out == n + Bit(PrescanGrow(x, n))
      old == Resize(y, DivCeil(out, DPL))
  IN  [d \in DOMAIN old |->
         IF d < LineDigits(n) THEN Resolved(s[d], CarryInto(s, 0, d, FALSE))
         ELSE IF d = out - 1 /\ CarryInto(s, 0, LineDigits(n), FALSE) THEN 1 ELSE old[d]]

LEMMA SingleFills ==
  ASSUME NEW p
  PROVE  Single(p) =
           [a |-> [p.a EXCEPT ![1 - p.cur] = Filled(p.a[p.cur], p.a[1 - p.cur], p.digits)],
            cur |-> 1 - p.cur,
            digits |-> p.digits + Bit(PrescanGrow(p.a[p.cur], p.digits))]
BY DEF Single, Filled, Columns, LineDigits

LEMMA SlotsOfDigits ==
  ASSUME NEW n \in Nat \ {0}
  PROVE  /\ LineDigits(n) \in Nat \ {0} /\ n <= LineDigits(n)
         /\ \A m \in Nat \ {0} : m <= n => LineDigits(m) <= LineDigits(n)
<1>1. DivCeil(n, DPL) \in Nat \ {0} /\ n <= LineDigits(n)
  BY LinesOfDigits DEF LineDigits
<1>2. LineDigits(n) \in Nat
  BY <1>1, LineMultiple DEF LineDigits
<1>3. ASSUME NEW m \in Nat \ {0}, m <= n PROVE LineDigits(m) <= LineDigits(n)
  <2>1. m <= DivCeil(n, DPL) * DPL
    BY <1>1, <1>2, <1>3 DEF LineDigits
  <2>2. DivCeil(m, DPL) \in Nat /\ DivCeil(m, DPL) <= DivCeil(n, DPL)
    BY <1>1, <2>1, LinesOfDigits
  <2>3. QED BY <1>1, <2>2, LinesAscend DEF LineDigits
<1>4. QED BY <1>1, <1>2, <1>3

(* The columns below n are the number's; those above sum to zero if the    *)
(* lines are padded with zeros, and then no carry goes past slot n.        *)
LEMMA ColumnsOfNumber ==
  ASSUME NEW n \in Nat \ {0}, NEW X \in Number(n), NEW x, Holds(x, X, n)
  PROVE  /\ PrescanGrow(x, n) <=> PrescanGrow(X, n)
         /\ \A d \in 0 .. n - 1 : Columns(x, n)[d] = Sums(X, n)[d]
         /\ \A d \in 0 .. n :
              CarryInto(Columns(x, n), 0, d, FALSE) <=> CarryInto(Sums(X, n), 0, d, FALSE)
         /\ Padded(x, n) =>
              \A d \in n .. LineDigits(n) - 1 :
                 /\ Columns(x, n)[d] = 0
                 /\ ~CarryInto(Columns(x, n), 0, d + 1, FALSE)
<1>1. LineDigits(n) \in Nat /\ n <= LineDigits(n)
  BY SlotsOfDigits
<1>2. \A d \in 0 .. n - 1 : n - 1 - d \in 0 .. n - 1
  OBVIOUS
<1>3. \A d \in 0 .. n - 1 : Sums(x, n)[d] = Sums(X, n)[d]
  BY <1>2 DEF Sums, Holds
<1>4. PrescanGrow(x, n) <=> PrescanGrow(X, n)
  BY <1>3 DEF PrescanGrow
<1>5. \A d \in 0 .. n - 1 : d \in 0 .. LineDigits(n) - 1 /\ d < n
  BY <1>1
<1>6. \A d \in 0 .. n - 1 : Columns(x, n)[d] = Sums(X, n)[d]
  BY <1>2, <1>5 DEF Columns, Sums, Holds
<1>7. ASSUME NEW d \in 0 .. n
      PROVE  CarryInto(Columns(x, n), 0, d, FALSE) <=> CarryInto(Sums(X, n), 0, d, FALSE)
  <2>1. \A j \in 0 .. d - 1 : Columns(x, n)[j] = Sums(X, n)[j]
    BY <1>6
  <2>2. d \in Nat /\ 0 \in Nat /\ FALSE \in BOOLEAN
    OBVIOUS
  <2>3. QED BY <2>1, <2>2, CarryOfEqual
<1>8. ASSUME Padded(x, n), NEW d \in n .. LineDigits(n) - 1
      PROVE  Columns(x, n)[d] = 0 /\ ~CarryInto(Columns(x, n), 0, d + 1, FALSE)
  <2>1. d \in 0 .. LineDigits(n) - 1 /\ ~(d < n)
    BY <1>1
  <2>2. Columns(x, n)[d] = 0
    BY <1>8, <2>1 DEF Columns, Padded
  <2>3. ~CarryInto(Columns(x, n), 0, d + 1, FALSE)
    <3> DEFINE s == Columns(x, n)
    <3>1. s[d] = 0
      BY <2>2
    <3> HIDE DEF s
    <3>2. d \in 0 .. d /\ d \in Int /\ d + 1 - 1 = d
      BY <2>1
    <3>3. ~(s[d] > 9) /\ s[d] # 9
      BY <3>1
    <3>4. \A j \in 0 .. d : j # d => d \in j + 1 .. d
      BY <2>1
    <3>5. QED BY <3>2, <3>3, <3>4 DEF CarryInto, s
  <2>4. QED BY <2>2, <2>3
<1>9. QED BY <1>4, <1>6, <1>7, <1>8

(* A pass over a number computes the reference's sum and nothing above it, *)
(* if its lines are padded with zeros and the buffer it grows into has     *)
(* zeros above the number too.  If the sum does not grow, neither matters  *)
(* to its digits.                                                          *)
LEMMA FilledIs ==
  ASSUME NEW n \in Nat \ {0}, NEW X \in Number(n), NEW x, Holds(x, X, n), NEW y,
         Padded(x, n) \/ ~PrescanGrow(X, n)
  PROVE  LET out == n + Bit(PrescanGrow(x, n))
             f == Filled(x, y, n)
         IN  /\ out = n + Bit(PrescanGrow(X, n))
             /\ DOMAIN f = 0 .. LineDigits(out) - 1
             /\ [d \in 0 .. out - 1 |-> f[d]] = ReverseAdd(X, n)
             /\ Padded(x, n) /\ (out = n \/ Clean(y, n)) => Clean(f, out)
<1> DEFINE out == n + Bit(PrescanGrow(x, n))
           s == Columns(x, n)
           old == Resize(y, DivCeil(out, DPL))
           f == Filled(x, y, n)
           into(d) == CarryInto(s, 0, d, FALSE)
           grown == PrescanGrow(X, n)
<1>1. out = n + Bit(grown) /\ out \in {n, n + 1} /\ out \in Nat \ {0}
  <2>1. PrescanGrow(x, n) <=> grown
    BY ColumnsOfNumber
  <2> HIDE DEF grown
  <2>2. QED BY <2>1 DEF Bit
<1>2. /\ LineDigits(n) \in Nat /\ n <= LineDigits(n)
      /\ LineDigits(out) \in Nat /\ out <= LineDigits(out) /\ LineDigits(n) <= LineDigits(out)
  BY <1>1, SlotsOfDigits
<1>3. DOMAIN old = 0 .. LineDigits(out) - 1
  BY DEF Resize, LineDigits
<1>4. \A d \in 0 .. LineDigits(out) - 1 :
        f[d] = IF d < LineDigits(n) THEN Resolved(s[d], into(d))
               ELSE IF d = out - 1 /\ into(LineDigits(n)) THEN 1 ELSE old[d]
  BY <1>3 DEF Filled
<1>5. DOMAIN f = 0 .. LineDigits(out) - 1
  BY <1>3 DEF Filled
<1> HIDE DEF f
<1>6. /\ \A d \in 0 .. n - 1 : s[d] = Sums(X, n)[d]
      /\ \A d \in 0 .. n : into(d) <=> CarryInto(Sums(X, n), 0, d, FALSE)
      /\ Padded(x, n) => \A d \in n .. LineDigits(n) - 1 : s[d] = 0 /\ ~into(d + 1)
  BY ColumnsOfNumber
<1>7. into(n) <=> grown
  <2>1. n \in 0 .. n
    OBVIOUS
  <2>2. n \in Nat
    OBVIOUS
  <2>3. QED BY <1>6, <2>1, <2>2, PrescanExact
<1>8. ASSUME NEW d \in 0 .. n - 1
      PROVE  f[d] = Resolved(Sums(X, n)[d], CarryInto(Sums(X, n), 0, d, FALSE))
  <2>1. d \in 0 .. LineDigits(out) - 1 /\ d < LineDigits(n) /\ d \in 0 .. n
    BY <1>2
  <2>2. f[d] = Resolved(s[d], into(d))
    BY <1>4, <2>1
  <2>3. s[d] = Sums(X, n)[d] /\ (into(d) <=> CarryInto(Sums(X, n), 0, d, FALSE))
    BY <1>6, <2>1
  <2> HIDE DEF s, into
  <2>4. QED BY ONLY <2>2, <2>3, ResolvedSame, ZenonT(60)
<1>9. ASSUME grown PROVE f[n] = 1
  <2>1. Padded(x, n) /\ out = n + 1 /\ into(n)
    BY <1>1, <1>7, <1>9 DEF Bit
  <2>2. n \in 0 .. LineDigits(out) - 1
    BY <1>2, <2>1
  <2>3. CASE n < LineDigits(n)
    <3>0. n \in n .. LineDigits(n) - 1
      BY <1>2, <2>3
    <3>1. s[n] = 0
      BY <1>6, <2>1, <3>0
    <3>2. f[n] = Resolved(s[n], into(n))
      BY <1>4, <2>2, <2>3
    <3> HIDE DEF s, into
    <3>3. QED BY <2>1, <3>1, <3>2 DEF Resolved, Bit
  <2>4. CASE n = LineDigits(n)
    <3> HIDE DEF s, into, old, out
    <3>1. ~(n < LineDigits(n)) /\ n = out - 1
      BY <1>2, <2>1, <2>4
    <3>2. into(LineDigits(n))
      BY <2>1, <2>4
    <3>3. QED BY <1>4, <2>2, <3>1, <3>2
  <2>5. QED BY <1>2, <2>3, <2>4
<1>10. [d \in 0 .. out - 1 |-> f[d]] = ReverseAdd(X, n)
  <2> DEFINE r(d) == IF d = n THEN 1
                     ELSE Resolved(Sums(X, n)[d], CarryInto(Sums(X, n), 0, d, FALSE))
  <2>1. ASSUME NEW d \in 0 .. out - 1 PROVE f[d] = r(d)
    <3>1. CASE d < n
      <4>1. d \in 0 .. n - 1 /\ d # n
        BY <1>1, <3>1
      <4>2. QED BY <1>8, <4>1
    <3>2. CASE ~(d < n)
      <4>1. d = n /\ out # n
        BY <1>1, <3>2
      <4>2. grown
        BY <1>1, <4>1 DEF Bit
      <4>3. QED BY <1>9, <4>1, <4>2
    <3>3. QED BY <3>1, <3>2
  <2>2. 0 .. out - 1 = 0 .. n - 1 + Bit(PrescanGrow(X, n))
    BY <1>1 DEF Bit
  <2>3. ReverseAdd(X, n) = [d \in 0 .. n - 1 + Bit(PrescanGrow(X, n)) |-> r(d)]
    BY DEF ReverseAdd
  <2> HIDE DEF r, out
  <2>4. QED BY <2>1, <2>2, <2>3
<1>11. ASSUME Padded(x, n), out = n \/ Clean(y, n) PROVE Clean(f, out)
  <2> SUFFICES ASSUME NEW d \in 0 .. LineDigits(out) - 1, d >= out PROVE f[d] = 0
    BY <1>5 DEF Clean
  <2>1. d \in Nat /\ d >= n
    BY <1>1
  <2>2. CASE d < LineDigits(n)
    <3>1. d \in n .. LineDigits(n) - 1
      BY <1>2, <2>1, <2>2
    <3>2. s[d] = 0
      BY <1>6, <1>11, <3>1
    <3>3. ~into(d)
      <4>1. CASE d = n
        <5>1. ~grown
          BY <1>1, <4>1 DEF Bit
        <5>2. ~into(n)
          BY <1>7, <5>1
        <5> HIDE DEF into
        <5>3. QED BY <4>1, <5>2
      <4>2. CASE d # n
        <5>1. d - 1 \in n .. LineDigits(n) - 1 /\ d - 1 + 1 = d
          BY <3>1, <4>2, <1>2
        <5>2. ~into(d - 1 + 1)
          BY <1>6, <1>11, <5>1
        <5>3. QED BY <5>1, <5>2
      <4>3. QED BY <4>1, <4>2
    <3>4. f[d] = Resolved(s[d], into(d))
      BY <1>4, <2>2
    <3> HIDE DEF s, into
    <3>5. QED BY <3>2, <3>3, <3>4 DEF Resolved, Bit
  <2>3. CASE ~(d < LineDigits(n))
    <3>1. d # out - 1
      BY <1>1
    <3>2. f[d] = old[d]
      BY <1>4, <2>3, <3>1
    <3>3. old[d] = IF d \in DOMAIN y THEN y[d] ELSE 0
      BY DEF Resize, LineDigits
    <3>4. out # n
      BY <1>2, <2>3
    <3>5. QED BY <1>11, <2>1, <3>2, <3>3, <3>4 DEF Clean
  <2>4. QED BY <2>2, <2>3
<1>12. QED BY <1>1, <1>5, <1>10, <1>11 DEF f

(* The packed integer p holds the number X, in whole lines. *)
Packs(p, X) ==
  /\ p.cur \in {0, 1} /\ DOMAIN p.a = {0, 1}
  /\ p.digits = NumDigits(X)
  /\ [d \in 0 .. p.digits - 1 |-> p.a[p.cur][d]] = X
  /\ 0 .. LineDigits(p.digits) - 1 \subseteq DOMAIN p.a[p.cur]

(* A single step makes the number the reference's next one and leaves its  *)
(* input in the other buffer, which is what a rewind relies on.            *)
LEMMA SingleIs ==
  ASSUME NEW p, NEW X, IsProper(X), Packs(p, X),
         Padded(p.a[p.cur], p.digits) \/ ~PrescanGrow(X, NumDigits(X))
  PROVE  /\ Packs(Single(p), Plus(X))
         /\ Single(p).cur = 1 - p.cur /\ Single(p).a[p.cur] = p.a[p.cur]
         /\ Padded(p.a[p.cur], p.digits)
              /\ (~PrescanGrow(X, NumDigits(X)) \/ Clean(p.a[1 - p.cur], p.digits))
            => Clean(Single(p).a[1 - p.cur], Single(p).digits)
<1> DEFINE x == p.a[p.cur]
           y == p.a[1 - p.cur]
           n == p.digits
           f == Filled(x, y, n)
           out == n + Bit(PrescanGrow(x, n))
           r == Single(p)
<1>1. /\ n = NumDigits(X) /\ n \in Nat \ {0} /\ X \in Number(n)
      /\ NumDigits(Plus(X)) = n + Bit(PrescanGrow(X, n))
      /\ Plus(X) = ReverseAdd(X, n)
  BY ProperPlus, SMTT(60) DEF Packs, Plus
<1>2. Holds(x, X, n)
  <2> SUFFICES ASSUME NEW d \in 0 .. n - 1 PROVE x[d] = X[d]
    BY DEF Holds
  <2>1. [e \in 0 .. n - 1 |-> x[e]] = X
    BY DEF Packs
  <2>2. [e \in 0 .. n - 1 |-> x[e]][d] = x[d]
    OBVIOUS
  <2>3. QED BY <2>1, <2>2
<1>3. Padded(x, n) \/ ~PrescanGrow(X, n)
  BY <1>1
<1>4. /\ out = n + Bit(PrescanGrow(X, n))
      /\ DOMAIN f = 0 .. LineDigits(out) - 1
      /\ [d \in 0 .. out - 1 |-> f[d]] = ReverseAdd(X, n)
      /\ Padded(x, n) /\ (out = n \/ Clean(y, n)) => Clean(f, out)
  <2> HIDE DEF x, y, n
  <2>1. QED BY <1>1, <1>2, <1>3, FilledIs
<1>5. r = [a |-> [p.a EXCEPT ![1 - p.cur] = f], cur |-> 1 - p.cur, digits |-> out]
  BY SingleFills
<1> HIDE DEF f, out, r
<1>6. /\ 1 - p.cur \in {0, 1} /\ 1 - p.cur # p.cur
      /\ 1 - p.cur \in DOMAIN p.a /\ p.cur \in DOMAIN p.a /\ DOMAIN p.a = {0, 1}
  BY DEF Packs
<1>7. /\ r.cur = 1 - p.cur /\ r.digits = out
      /\ r.a[1 - p.cur] = f /\ r.a[p.cur] = p.a[p.cur] /\ DOMAIN r.a = {0, 1}
  BY <1>5, <1>6
<1>8. Packs(r, Plus(X))
  BY <1>1, <1>4, <1>6, <1>7 DEF Packs
<1>9. ~PrescanGrow(X, n) => out = n
  BY <1>1, <1>4 DEF Bit
<1>10. QED BY <1>1, <1>4, <1>7, <1>8, <1>9 DEF r

Now == [a |-> a, cur |-> cur, digits |-> digits]

LEMMA NowPacks ==
  ASSUME Buffers, cur \in {0, 1}, DOMAIN a = {0, 1}
  PROVE  /\ Packs(Now, Current) /\ Padded(a[cur], digits)
         /\ IsProper(Current) /\ digits = NumDigits(Current)
<1>1. digits \in Nat \ {0} /\ DOMAIN Current = 0 .. digits - 1
  BY DEF Buffers, Current
<1>2. digits = NumDigits(Current)
  BY <1>1, FS_Interval DEF NumDigits
<1>3. LineDigits(digits) \in Nat /\ digits <= LineDigits(digits)
  BY <1>1, SlotsOfDigits
<1>4. 0 .. LineDigits(digits) - 1 \subseteq DOMAIN a[cur]
  BY DEF Buffers, LineDigits
<1>5. Packs(Now, Current)
  BY <1>2, <1>4 DEF Packs, Now, Current
<1>6. \A d \in digits .. LineDigits(digits) - 1 : d \in 0 .. LineDigits(digits) - 1 /\ d >= digits
  BY <1>1, <1>3
<1>7. Padded(a[cur], digits)
  BY <1>4, <1>6 DEF Padded, Buffers, Clean
<1>8. QED BY <1>2, <1>5, <1>7 DEF Buffers

(* A fused step holds the last of the numbers it goes through, and leaves  *)
(* its input in the other buffer.                                          *)
LEMMA FusedIs ==
  ASSUME Buffers, cur \in {0, 1}, DOMAIN a = {0, 1}, NEW n \in {2, 3}
  PROVE  /\ Packs(Fused(n), Through[n])
         /\ Fused(n).cur = 1 - cur /\ Fused(n).a[cur] = a[cur]
         /\ DOMAIN Fused(n).a = {0, 1}
         /\ Clean(Fused(n).a[1 - cur], Fused(n).digits)
<1> DEFINE y == Through[n]
           before == NumDigits(Through[n - 1])
           m == NumDigits(y)
           b == a[1 - cur]
           old == Resize(b, DivCeil(before + 1, DPL))
           new == [d \in DOMAIN old |->
                     IF d \in DOMAIN y THEN y[d]
                     ELSE IF d < DivCeil(before, DPL) * DPL THEN 0 ELSE old[d]]
           r == Fused(n)
<1>1. /\ IsProper(Current) /\ digits = NumDigits(Current) /\ digits \in Nat \ {0}
  BY NowPacks DEF Buffers
<1>2. /\ IsProper(Through[1]) /\ IsProper(Through[2]) /\ IsProper(Through[3])
  BY <1>1, ThroughProper
<1>3. /\ IsProper(Through[n - 1]) /\ before \in Nat \ {0}
      /\ before >= digits /\ m \in {before, before + 1}
      /\ DOMAIN y = 0 .. m - 1 /\ y \in Number(m)
  <2>1. NumDigits(Through[1]) \in {digits, digits + 1}
    BY <1>1, ThroughSteps, ProperPlus
  <2>2. NumDigits(Through[2]) \in {NumDigits(Through[1]), NumDigits(Through[1]) + 1}
    BY <1>2, ThroughSteps, ProperPlus
  <2>3. NumDigits(Through[3]) \in {NumDigits(Through[2]), NumDigits(Through[2]) + 1}
    BY <1>2, ThroughSteps, ProperPlus
  <2>4. y \in Number(m)
    BY <1>2, ProperPlus
  <2>5. IsProper(Through[n - 1])
    BY <1>2
  <2>6. before \in Nat \ {0}
    BY <2>5, ProperPlus
  <2>7. before >= digits /\ m \in {before, before + 1}
    BY <1>1, <2>1, <2>2, <2>3
  <2>8. DOMAIN y = 0 .. m - 1
    BY <2>4 DEF Number
  <2>9. QED BY <2>4, <2>5, <2>6, <2>7, <2>8
<1>4. r = [a |-> [a EXCEPT ![1 - cur] = new], cur |-> 1 - cur, digits |-> m]
  BY DEF Fused
<1>5. DOMAIN old = 0 .. LineDigits(before + 1) - 1
  BY DEF Resize, LineDigits
<1>6. /\ DOMAIN new = 0 .. LineDigits(before + 1) - 1
      /\ \A d \in 0 .. LineDigits(before + 1) - 1 :
           new[d] = IF d \in DOMAIN y THEN y[d] ELSE IF d < LineDigits(before) THEN 0 ELSE old[d]
  BY <1>5 DEF LineDigits
<1> HIDE DEF before, m, y, new, r
<1>7. /\ LineDigits(before) \in Nat /\ before <= LineDigits(before)
      /\ LineDigits(before + 1) \in Nat /\ before + 1 <= LineDigits(before + 1)
      /\ LineDigits(m) <= LineDigits(before + 1) /\ LineDigits(m) \in Nat
  <2>1. before + 1 \in Nat \ {0} /\ m \in Nat \ {0} /\ m <= before + 1
    BY <1>3
  <2>2. QED BY <1>3, <2>1, SlotsOfDigits
<1>8. [d \in 0 .. m - 1 |-> new[d]] = y
  <2>1. \A d \in 0 .. m - 1 : d \in 0 .. LineDigits(before + 1) - 1
    BY <1>3, <1>7, SMTT(60)
  <2>2. \A d \in 0 .. m - 1 : new[d] = y[d]
    BY <1>3, <1>6, <2>1
  <2>3. y = [d \in 0 .. m - 1 |-> y[d]]
    BY <1>3 DEF Number
  <2>4. QED BY <2>2, <2>3
<1>9. Clean(new, m)
  <2> SUFFICES ASSUME NEW d \in 0 .. LineDigits(before + 1) - 1, d >= m PROVE new[d] = 0
    BY <1>6 DEF Clean
  <2>1. d \notin DOMAIN y
    BY <1>3
  <2>2. CASE d < LineDigits(before)
    BY <1>6, <2>1, <2>2
  <2>3. CASE ~(d < LineDigits(before))
    <3>1. new[d] = old[d]
      BY <1>6, <2>1, <2>3
    <3>2. old[d] = IF d \in DOMAIN b THEN b[d] ELSE 0
      BY DEF Resize, LineDigits
    <3>3. d >= digits
      BY <1>1, <1>3, <1>7, <2>3, SMTT(60)
    <3>4. QED BY <3>1, <3>2, <3>3 DEF Buffers, Clean
  <2>4. QED BY <2>2, <2>3
<1>10. /\ r.cur = 1 - cur /\ r.digits = m
       /\ r.a[1 - cur] = new /\ r.a[cur] = a[cur] /\ DOMAIN r.a = {0, 1}
       /\ 1 - cur \in {0, 1}
  BY <1>4
<1>11. 0 .. LineDigits(m) - 1 \subseteq DOMAIN new
  BY <1>6, <1>7
<1>12. Packs(r, y)
  BY <1>8, <1>10, <1>11 DEF Packs, m
<1>13. QED BY <1>9, <1>10, <1>12 DEF r, y

(* A rewind to the first palindrome of a fused step rebuilds the number    *)
(* that is one: nothing carried on the way to it, so the steps before it   *)
(* did not grow the number into lines the fused step has written.          *)
Back(n) == [a |-> Fused(n).a, cur |-> cur, digits |-> digits]

LEMMA RewoundIs ==
  ASSUME Buffers, cur \in {0, 1}, DOMAIN a = {0, 1}, NEW n \in {2, 3},
         NEW k \in {1, 2}, ~CarriedAt(k)
  PROVE  /\ Packs(Rewound(Back(n), k), Through[k])
         /\ k = 1 => Clean(Rewound(Back(n), k).a[1 - cur], Rewound(Back(n), k).digits)
         /\ Rewound(Back(n), k).cur = IF k = 1 THEN 1 - cur ELSE cur
<1> DEFINE p == Back(n)
           q == Single(p)
           X == Current
           X1 == Through[1]
<1>1. /\ Packs(Now, X) /\ Padded(a[cur], digits) /\ IsProper(X) /\ digits = NumDigits(X)
  BY NowPacks
<1>2. /\ Fused(n).a[cur] = a[cur] /\ DOMAIN Fused(n).a = {0, 1}
  BY FusedIs
<1>3. /\ p.cur = cur /\ p.digits = digits /\ p.a[p.cur] = a[cur] /\ DOMAIN p.a = {0, 1}
  BY <1>2 DEF Back
<1>4. Packs(p, X) /\ Padded(p.a[p.cur], p.digits)
  BY <1>1, <1>3 DEF Packs, Now
<1> HIDE DEF p, q, X, X1
<1>5. /\ Packs(q, Plus(X)) /\ q.cur = 1 - p.cur
      /\ ~PrescanGrow(X, NumDigits(X)) => Clean(q.a[1 - p.cur], q.digits)
  BY <1>1, <1>4, SingleIs DEF q
<1>6. X1 = Plus(X) /\ Through[2] = Plus(X1)
  BY ThroughSteps DEF X, X1
<1>7. CASE k = 1
  <2>1. ~PrescanGrow(X, NumDigits(X))
    BY <1>1, <1>7, ProperPlus, ThroughSteps DEF CarriedAt, Carries, X
  <2>2. Rewound(p, k) = q
    BY <1>7 DEF Rewound, q
  <2>3. QED BY <1>3, <1>5, <1>6, <1>7, <2>1, <2>2 DEF p, X1
<1>8. CASE k = 2
  <2>1. IsProper(X1)
    BY <1>1, <1>6, ProperPlus
  <2>2. ~PrescanGrow(X1, NumDigits(X1))
    BY <1>8, <2>1, ProperPlus DEF CarriedAt, Carries, X1
  <2>3. Packs(q, X1)
    BY <1>5, <1>6
  <2>4. Packs(Single(q), Plus(X1)) /\ Single(q).cur = 1 - q.cur
    BY <2>1, <2>2, <2>3, SingleIs
  <2>5. Rewound(p, k) = Single(q)
    BY <1>8 DEF Rewound, q
  <2>6. 1 - q.cur = cur
    BY <1>3, <1>5
  <2>7. QED BY <1>6, <1>8, <2>4, <2>5, <2>6 DEF p
<1>9. QED BY <1>7, <1>8

-----------------------------------------------------------------------------
(* The reference loop, from where the packed one is *)

RefAt(x, c, n, reports) == [number |-> x, carried |-> c, i |-> n, reports |-> reports]

LEMMA RefStep ==
  ASSUME NEW x, NEW c, NEW n, NEW reports, ~RefStops(RefAt(x, c, n, reports))
  PROVE  RefIterate(RefAt(x, c, n, reports))
           = RefAt(Plus(x), Carries(x), n + 1, Reported(n, Plus(x), reports))
BY DEF RefIterate, RefAt, Plus, Carries

LEMMA RefStopsAt ==
  ASSUME NEW n \in Nat, end \in Nat, NEW reports, NEW k \in 1 .. 3
  PROVE  RefStops(RefAt(Through[k], CarriedAt(k), n, reports))
           <=> n >= end \/ PalindromeAt(k)
BY DEF RefStops, RefAt, PalindromeAt

(* The reference loop k iterations from here, if nothing was to be reported*)
(* before the last of them.                                                *)
RefAhead(k) ==
  RefAt(Through[k], CarriedAt(k), i + k, Reported(i + k - 1, Through[k], sent))

LEMMA RefFurther ==
  ASSUME i \in Nat, end \in Nat, NEW k \in {1, 2}, ~Multiple(i + k - 1, LOG_MASK),
         ~PalindromeAt(k), i + k < end
  PROVE  RefIterate(RefAhead(k)) = RefAhead(k + 1)
<1>1. Through[k + 1] = Plus(Through[k]) /\ CarriedAt(k + 1) = Carries(Through[k])
  <2>1. k + 1 \in 1 .. 3 /\ k + 1 - 1 = k
    OBVIOUS
  <2>2. QED BY <2>1, ThroughSteps DEF CarriedAt, Carries
<1>2. RefAhead(k) = RefAt(Through[k], CarriedAt(k), i + k, sent)
  BY DEF RefAhead, Reported, Multiple
<1>3. ~RefStops(RefAhead(k))
  <2>1. i + k \in Nat /\ ~(i + k >= end) /\ k \in 1 .. 3
    OBVIOUS
  <2>2. QED BY <1>2, <2>1, RefStopsAt
<1>4. RefIterate(RefAhead(k))
        = RefAt(Through[k + 1], CarriedAt(k + 1), i + k + 1,
                Reported(i + k, Through[k + 1], sent))
  BY <1>1, <1>2, <1>3, RefStep
<1>5. i + k + 1 = i + (k + 1) /\ i + (k + 1) - 1 = i + k
  OBVIOUS
<1>6. QED BY ONLY <1>4, <1>5 DEF RefAhead

LEMMA RefFirst ==
  ASSUME i \in Nat, ref = RefAt(Current, carried, i, sent), ~RefStops(ref)
  PROVE  RefIterate(ref) = RefAhead(1)
<1>1. Through[1] = Plus(Current) /\ CarriedAt(1) = Carries(Current)
  BY ThroughSteps DEF CarriedAt, Carries
<1>2. i + 1 - 1 = i
  OBVIOUS
<1>3. QED BY <1>1, <1>2, RefStep DEF RefAhead

-----------------------------------------------------------------------------
(* The invariant holds, action by action *)

LEMMA Became ==
  ASSUME NEW p, NEW X, Packs(p, X), Become(p)
  PROVE  /\ a' = p.a /\ cur' = p.cur /\ digits' = NumDigits(X) /\ digits' = p.digits
         /\ cur' \in {0, 1} /\ DOMAIN a' = {0, 1}
         /\ Current' = X
         /\ 0 .. DivCeil(digits', DPL) * DPL - 1 \subseteq DOMAIN a'[cur']
BY DEF Packs, Become, Current, LineDigits

(* After a step that went through. *)
LEMMA StepToReport ==
  ASSUME LoopInv, pc = "step", NEW p, NEW X,
         Packs(p, X), IsProper(X), NumDigits(X) >= digits, Become(p),
         p.cur = 1 - cur, p.a[cur] = a[cur], Clean(p.a[1 - cur], p.digits),
         i' \in Nat, end' = end, pc' = "report", sent' = sent, rewound' = rewound,
         ref' = RefAt(X, carried', i' + 1, Reported(i', X, sent))
  PROVE  LoopInv'
<1>1. /\ Buffers /\ rewound = 0 /\ end \in Nat /\ cur \in {0, 1}
  BY DEF LoopInv
<1>2. /\ a' = p.a /\ cur' = 1 - cur /\ digits' = NumDigits(X) /\ digits' = p.digits
      /\ cur' \in {0, 1} /\ DOMAIN a' = {0, 1}
      /\ Current' = X
      /\ 0 .. DivCeil(digits', DPL) * DPL - 1 \subseteq DOMAIN a'[cur']
  BY Became
<1>3. 1 - cur' = cur
  BY <1>1, <1>2
<1>4. digits' \in Nat \ {0} /\ digits \in Nat /\ digits' >= digits
  BY <1>1, <1>2, ProperPlus, ZenonT(60) DEF Buffers
<1>5. Clean(a[cur], digits')
  <2>1. Clean(a[cur], digits)
    BY <1>1 DEF Buffers
  <2>2. \A d \in Nat : d >= digits' => d >= digits
    BY <1>4
  <2>3. QED BY <2>1, <2>2 DEF Clean
<1>6. Clean(a'[cur'], digits') /\ Clean(a'[1 - cur'], digits')
  BY <1>2, <1>3, <1>5
<1>7. Buffers'
  BY <1>2, <1>4, <1>6 DEF Buffers
<1>8. InStepWithReference' /\ EndsLikeReference'
  BY DEF InStepWithReference, EndsLikeReference
<1>9. ToReport'
  BY <1>2 DEF ToReport, RefAt
<1>10. CleanWhileRunning'
  BY <1>6 DEF CleanWhileRunning, Clean
<1>11. QED BY <1>1, <1>2, <1>7, <1>8, <1>9, <1>10 DEF LoopInv

LEMMA ThroughGrows ==
  ASSUME IsProper(Current), digits = NumDigits(Current)
  PROVE  \A n \in 0 .. 3 : IsProper(Through[n]) /\ NumDigits(Through[n]) >= digits
<1>1. /\ IsProper(Through[0]) /\ IsProper(Through[1])
      /\ IsProper(Through[2]) /\ IsProper(Through[3])
  BY ThroughProper
<1>2. \A n \in 1 .. 3 : NumDigits(Through[n - 1]) \in Nat
                        /\ NumDigits(Through[n]) >= NumDigits(Through[n - 1])
  <2> SUFFICES ASSUME NEW n \in 1 .. 3
               PROVE  NumDigits(Through[n - 1]) \in Nat
                        /\ NumDigits(Through[n]) >= NumDigits(Through[n - 1])
    OBVIOUS
  <2>1. IsProper(Through[n - 1])
    <3>1. n - 1 \in {0, 1, 2}
      OBVIOUS
    <3>2. QED BY <1>1, <3>1
  <2>2. Through[n] = Plus(Through[n - 1])
    BY ThroughSteps
  <2>3. QED BY <2>1, <2>2, ProperPlus
<1>3. /\ 1 \in 1 .. 3 /\ 2 \in 1 .. 3 /\ 3 \in 1 .. 3 /\ 1 - 1 = 0 /\ 2 - 1 = 1 /\ 3 - 1 = 2
  OBVIOUS
<1>4. NumDigits(Through[3]) \in Int
  BY <1>1, ProperPlus
<1>5. /\ NumDigits(Through[0]) = digits
      /\ NumDigits(Through[1]) >= digits /\ NumDigits(Through[2]) >= digits
      /\ NumDigits(Through[3]) >= digits
  <2>1. NumDigits(Through[0]) = digits
    BY ThroughSteps
  <2>2. \A u, v, w, x \in Int : v >= u /\ w >= v /\ x >= w => w >= u /\ x >= u
    OBVIOUS
  <2>3. /\ NumDigits(Through[0]) \in Int /\ NumDigits(Through[1]) \in Int
        /\ NumDigits(Through[2]) \in Int
        /\ NumDigits(Through[1]) >= NumDigits(Through[0])
        /\ NumDigits(Through[2]) >= NumDigits(Through[1])
        /\ NumDigits(Through[3]) >= NumDigits(Through[2])
    BY <1>2, <1>3
  <2>4. QED BY <1>4, <2>1, <2>2, <2>3
<1>6. ASSUME NEW n \in 0 .. 3
      PROVE  IsProper(Through[n]) /\ NumDigits(Through[n]) >= digits
  <2>1. CASE n = 0
    <3>1. digits \in Nat
      BY ProperPlus
    <3>2. QED BY <1>1, <1>5, <2>1, <3>1
  <2>2. CASE n = 1
    BY <1>1, <1>5, <2>2
  <2>3. CASE n = 2
    BY <1>1, <1>5, <2>3
  <2>4. CASE n = 3
    BY <1>1, <1>5, <2>4
  <2>5. QED BY <2>1, <2>2, <2>3, <2>4
<1>7. QED BY <1>6

(* A fused step that met no palindrome is at the reference loop's number   *)
(* that many iterations on.                                                *)
LEMMA FusedThrough ==
  ASSUME LoopInv, pc = "step", NEW n \in {2, 3}, \A k \in 1 .. n - 1 : ~PalindromeAt(k),
         ~Multiple(i, LOG_MASK), n = 3 => ~Multiple(i + 1, LOG_MASK), i + n <= end,
         FusedStep(n), UNCHANGED <<end, sent>>
  PROVE  LoopInv'
<1>1. /\ Buffers /\ cur \in {0, 1} /\ DOMAIN a = {0, 1}
      /\ i \in Nat /\ end \in Nat /\ ~RefStops(ref)
      /\ ref = RefAt(Current, carried, i, sent)
  BY DEF LoopInv, InStepWithReference, RefAt
<1>2. /\ Become(Fused(n)) /\ carried' = CarriedAt(n) /\ i' = i + n - 1
      /\ ref' = IF n = 2 THEN RefIterate(RefIterate(ref))
                ELSE RefIterate(RefIterate(RefIterate(ref)))
      /\ pc' = "report" /\ rewound' = rewound
  BY DEF FusedStep
<1>3. ref' = RefAhead(n)
  <2>1. RefIterate(ref) = RefAhead(1)
    BY <1>1, RefFirst
  <2>2. RefIterate(RefAhead(1)) = RefAhead(2)
    <3>1. i + 1 < end /\ i + 1 - 1 = i /\ 1 \in 1 .. n - 1 /\ 1 + 1 = 2 /\ 1 \in {1, 2}
      BY <1>1
    <3>2. ~PalindromeAt(1) /\ ~Multiple(i + 1 - 1, LOG_MASK)
      BY <3>1
    <3>3. RefIterate(RefAhead(1)) = RefAhead(1 + 1)
      BY <1>1, <3>1, <3>2, RefFurther
    <3>4. QED BY <3>1, <3>3
  <2>3. n = 3 => RefIterate(RefAhead(2)) = RefAhead(3)
    <3> SUFFICES ASSUME n = 3 PROVE RefIterate(RefAhead(2)) = RefAhead(3)
      OBVIOUS
    <3>1. i + 2 < end /\ i + 2 - 1 = i + 1 /\ 2 \in 1 .. n - 1 /\ 2 + 1 = 3 /\ 2 \in {1, 2}
      BY <1>1
    <3>2. ~PalindromeAt(2) /\ ~Multiple(i + 2 - 1, LOG_MASK)
      BY <3>1
    <3>3. RefIterate(RefAhead(2)) = RefAhead(2 + 1)
      BY <1>1, <3>1, <3>2, RefFurther
    <3>4. QED BY <3>1, <3>3
  <2>4. QED BY <1>2, <2>1, <2>2, <2>3
<1>4. /\ i' \in Nat /\ i' + 1 = i + n /\ i' = i + n - 1
  BY <1>1, <1>2
<1>5. ref' = RefAt(Through[n], carried', i' + 1, Reported(i', Through[n], sent))
  BY ONLY <1>2, <1>3, <1>4 DEF RefAhead
<1>6. IsProper(Current) /\ digits = NumDigits(Current) /\ n \in 0 .. 3
  BY <1>1, NowPacks
<1>7. IsProper(Through[n]) /\ NumDigits(Through[n]) >= digits
  BY <1>6, ThroughGrows
<1>8. QED BY <1>1, <1>2, <1>4, <1>5, <1>7, FusedIs, StepToReport

(* A fused step that went through a palindrome ends where the reference    *)
(* loop ends, on the same number.                                          *)
LEMMA FusedRewound ==
  ASSUME LoopInv, pc = "step", NEW n \in {2, 3}, ~\A k \in 1 .. n - 1 : ~PalindromeAt(k),
         ~Multiple(i, LOG_MASK), n = 3 => ~Multiple(i + 1, LOG_MASK), i + n <= end,
         FusedStep(n), UNCHANGED <<end, sent>>
  PROVE  LoopInv'
<1>1. /\ Buffers /\ cur \in {0, 1} /\ DOMAIN a = {0, 1}
      /\ i \in Nat /\ end \in Nat /\ ~RefStops(ref)
      /\ ref = RefAt(Current, carried, i, sent)
  BY DEF LoopInv, InStepWithReference, RefAt
<1>2. {k \in 1 .. n - 1 : PalindromeAt(k)} # {}
  OBVIOUS
<1>3. PICK k \in {m \in 1 .. n - 1 : PalindromeAt(m)} :
        /\ \A j \in {m \in 1 .. n - 1 : PalindromeAt(m)} : k <= j
        /\ Become(Rewound(Back(n), k))
        /\ rewound' = k /\ i' = i + k /\ pc' = "out"
        /\ ref' = IF k = 1 THEN RefIterate(ref) ELSE RefIterate(RefIterate(ref))
  BY <1>2 DEF FusedStep, Back
<1>4. /\ k \in 1 .. n - 1 /\ k \in {1, 2} /\ PalindromeAt(k)
      /\ i + k < end
      /\ k = 2 => n = 3
  BY <1>1, <1>3
<1> DEFINE p == Rewound(Back(n), k)
<1>5. /\ Packs(p, Through[k])
      /\ k = 1 => Clean(p.a[1 - cur], p.digits)
      /\ p.cur = IF k = 1 THEN 1 - cur ELSE cur
  <2>1. ~CarriedAt(k)
    BY <1>4 DEF PalindromeAt
  <2>2. QED BY <1>1, <1>4, <2>1, RewoundIs
<1> HIDE DEF p
<1>6. /\ a' = p.a /\ cur' = p.cur /\ digits' = NumDigits(Through[k]) /\ digits' = p.digits
      /\ cur' \in {0, 1} /\ DOMAIN a' = {0, 1} /\ Current' = Through[k]
  BY <1>3, <1>5, Became DEF p
<1>7. ref' = RefAhead(k)
  <2>1. RefIterate(ref) = RefAhead(1)
    BY <1>1, RefFirst
  <2>2. k = 2 => RefIterate(RefAhead(1)) = RefAhead(2)
    <3> SUFFICES ASSUME k = 2 PROVE RefIterate(RefAhead(1)) = RefAhead(2)
      OBVIOUS
    <3>1. i + 1 < end /\ i + 1 - 1 = i /\ 1 \in 1 .. n - 1 /\ 1 + 1 = 2 /\ 1 \in {1, 2}
      BY <1>1, <1>4
    <3>2. ~PalindromeAt(1) /\ ~Multiple(i + 1 - 1, LOG_MASK)
      BY <1>3, <3>1
    <3>3. RefIterate(RefAhead(1)) = RefAhead(1 + 1)
      BY <1>1, <3>1, <3>2, RefFurther
    <3>4. QED BY <3>1, <3>3
  <2>3. QED BY <1>3, <1>4, <2>1, <2>2
<1>8. Reported(i + k - 1, Through[k], sent) = sent
  <2>1. ~Multiple(i + k - 1, LOG_MASK)
    <3>1. CASE k = 1
      <4>1. i + k - 1 = i
        BY <1>1, <3>1
      <4>2. QED BY <4>1
    <3>2. CASE k = 2
      <4>1. i + k - 1 = i + 1
        BY <1>1, <3>2
      <4>2. QED BY <1>4, <3>2, <4>1
    <3>3. QED BY <1>4, <3>1, <3>2
  <2>2. QED BY <2>1 DEF Reported, Multiple
<1>9. ref' = RefAt(Through[k], CarriedAt(k), i', sent')
  BY <1>3, <1>7, <1>8 DEF RefAhead
<1>10. IsPalindrome(Current', digits') /\ ~CarriedAt(k)
  BY <1>4, <1>6 DEF PalindromeAt
<1>11. EndsLikeReference'
  BY <1>6, <1>9, <1>10 DEF EndsLikeReference, RefStops, RefAt
<1>12. CleanWhileRunning'
  BY <1>3, <1>4, <1>5, <1>6 DEF CleanWhileRunning, Clean
<1>13. i' \in Nat /\ end' \in Nat
  BY <1>1, <1>3, <1>4
<1>14. InStepWithReference' /\ ToReport'
  BY <1>3 DEF InStepWithReference, ToReport
<1>15. QED BY <1>3, <1>6, <1>11, <1>12, <1>13, <1>14 DEF LoopInv

LEMMA LoopInit == Init => LoopInv
<1> SUFFICES ASSUME Init PROVE LoopInv
  OBVIOUS
<1>1. PICK x \in Start :
        /\ digits = NumDigits(x)
        /\ a = [b \in {0, 1} |->
                  IF b = 0 THEN Resize(x, DivCeil(NumDigits(x), DPL)) ELSE <<>>]
        /\ \E r \in Ranges :
             /\ i = r[1] /\ end = r[2]
             /\ ref = [number |-> x, carried |-> TRUE, i |-> r[1], reports |-> <<>>]
  BY DEF Init
<1>2. i \in Nat /\ end \in Nat
      /\ ref = [number |-> x, carried |-> TRUE, i |-> i, reports |-> <<>>]
  BY <1>1, RangeAssumption
<1>3. /\ cur = 0 /\ carried = TRUE /\ pc = "test" /\ sent = <<>> /\ rewound = 0
  BY DEF Init
<1>4. IsProper(x) /\ digits \in Nat \ {0} /\ x \in Number(digits)
  BY <1>1, NumberAssumption, ProperPlus
<1>5. /\ DOMAIN a = {0, 1} /\ a[1 - cur] = <<>>
      /\ a[cur] = [d \in 0 .. LineDigits(digits) - 1 |-> IF d \in DOMAIN x THEN x[d] ELSE 0]
  BY <1>1, <1>3 DEF Resize, LineDigits
<1>6. LineDigits(digits) \in Nat /\ digits <= LineDigits(digits) /\ DOMAIN x = 0 .. digits - 1
  BY <1>4, SlotsOfDigits DEF Number
<1>7. Current = x
  <2>1. \A d \in 0 .. digits - 1 : a[cur][d] = x[d]
    <3> SUFFICES ASSUME NEW d \in 0 .. digits - 1 PROVE a[cur][d] = x[d]
      OBVIOUS
    <3>1. d \in 0 .. LineDigits(digits) - 1 /\ d \in DOMAIN x
      BY <1>4, <1>6
    <3>2. QED BY <1>5, <3>1
  <2>2. x = [d \in 0 .. digits - 1 |-> x[d]]
    BY <1>4 DEF Number
  <2>3. QED BY <2>1, <2>2 DEF Current
<1>8. Clean(a[cur], digits)
  <2>1. DOMAIN a[cur] \subseteq Nat
    BY <1>5, <1>6
  <2>2. ASSUME NEW d \in DOMAIN a[cur], d >= digits PROVE a[cur][d] = 0
    <3>1. d \notin DOMAIN x
      BY <1>4, <1>6, <2>2
    <3>2. QED BY <1>5, <3>1
  <2>3. QED BY <2>1, <2>2 DEF Clean
<1>9. Clean(a[1 - cur], digits)
  <2>1. DOMAIN <<>> = {}
    OBVIOUS
  <2>2. QED BY <1>5, <2>1 DEF Clean
<1>10. Buffers
  BY <1>4, <1>5, <1>7, <1>8, <1>9 DEF Buffers, LineDigits
<1>11. InStepWithReference
  BY <1>2, <1>3, <1>7 DEF InStepWithReference
<1>12. CleanWhileRunning
  BY <1>8 DEF CleanWhileRunning, Clean
<1>13. ToReport /\ EndsLikeReference
  BY <1>3 DEF ToReport, EndsLikeReference
<1>14. QED BY <1>2, <1>3, <1>5, <1>10, <1>11, <1>12, <1>13 DEF LoopInv

(* The loop's condition is the reference loop's. *)
LEMMA LoopTest == LoopInv /\ Test => LoopInv'
<1> SUFFICES ASSUME LoopInv, Test PROVE LoopInv'
  OBVIOUS
<1>1. /\ pc = "test" /\ Buffers /\ cur \in {0, 1} /\ DOMAIN a = {0, 1} /\ rewound = 0
      /\ i \in Nat /\ end \in Nat
      /\ ref = RefAt(Current, carried, i, sent)
  BY DEF LoopInv, Test, InStepWithReference, RefAt
<1>2. digits = NumDigits(Current)
  BY <1>1, NowPacks
<1>3. RefStops(ref) <=> ~(i < end /\ ~(~carried /\ IsPalindrome(Current, digits)))
  BY <1>1, <1>2 DEF RefStops, RefAt
<1>4. UNCHANGED <<a, cur, digits, carried, i, end, sent, receiver, rewound, ref>>
  BY DEF Test, packedInt
<1>5. /\ Current' = Current /\ Buffers' /\ RefStops(ref)' = RefStops(ref)
  BY <1>1, <1>4 DEF Current, Buffers, RefStops
<1>6. CleanWhileRunning'
  BY <1>1, <1>4 DEF CleanWhileRunning, Buffers, Clean
<1>7. CASE pc' = "step"
  <2>1. ~RefStops(ref)
    BY <1>3, <1>7 DEF Test
  <2>2. InStepWithReference' /\ ToReport' /\ EndsLikeReference'
    BY <1>1, <1>4, <1>5, <1>7 DEF InStepWithReference, ToReport, EndsLikeReference, RefAt
  <2>3. QED BY <1>1, <1>4, <1>5, <1>6, <1>7, <2>1, <2>2 DEF LoopInv
<1>8. CASE pc' = "out"
  <2>1. RefStops(ref) /\ (i < end => IsPalindrome(Current, digits))
    BY <1>3, <1>8 DEF Test
  <2>2. EndsLikeReference'
    BY <1>1, <1>4, <1>5, <2>1 DEF EndsLikeReference, RefAt
  <2>3. InStepWithReference' /\ ToReport'
    BY <1>8 DEF InStepWithReference, ToReport
  <2>4. QED BY <1>1, <1>4, <1>6, <1>8, <2>2, <2>3 DEF LoopInv
<1>9. QED BY <1>7, <1>8 DEF Test

LEMMA LoopFused ==
  ASSUME LoopInv, Triple \/ Double
  PROVE  LoopInv'
<1>1. i \in Nat
  BY DEF LoopInv
<1>2. PICK n \in {2, 3} :
        /\ pc = "step" /\ FusedStep(n) /\ UNCHANGED <<end, sent>>
        /\ ~Multiple(i, LOG_MASK) /\ i + n <= end
        /\ n = 3 => ~Multiple(i + 1, LOG_MASK)
  BY DEF Triple, Double, TripleAllowed, DoubleAllowed, FusedAllowed
<1>3. CASE \A k \in 1 .. n - 1 : ~PalindromeAt(k)
  BY <1>2, <1>3, FusedThrough
<1>4. CASE ~\A k \in 1 .. n - 1 : ~PalindromeAt(k)
  BY <1>2, <1>4, FusedRewound
<1>5. QED BY <1>3, <1>4

LEMMA LoopSingle == LoopInv /\ SingleStep => LoopInv'
<1> SUFFICES ASSUME LoopInv, SingleStep PROVE LoopInv'
  OBVIOUS
<1>1. /\ pc = "step" /\ Buffers /\ cur \in {0, 1} /\ DOMAIN a = {0, 1}
      /\ i \in Nat /\ end \in Nat /\ ~RefStops(ref)
      /\ ref = RefAt(Current, carried, i, sent)
  BY DEF LoopInv, SingleStep, InStepWithReference, RefAt
<1>2. /\ Become(Single(Now)) /\ carried' = CarriedAt(1) /\ ref' = RefIterate(ref)
      /\ pc' = "report" /\ i' = i /\ end' = end /\ sent' = sent /\ rewound' = rewound
  BY DEF SingleStep, Now
<1>3. /\ Packs(Now, Current) /\ Padded(a[cur], digits)
      /\ IsProper(Current) /\ digits = NumDigits(Current)
  BY <1>1, NowPacks
<1>4. /\ Now.a = a /\ Now.cur = cur /\ Now.digits = digits
  BY DEF Now
<1>5. /\ Packs(Single(Now), Plus(Current))
      /\ Single(Now).cur = 1 - cur /\ Single(Now).a[cur] = a[cur]
      /\ Clean(Single(Now).a[1 - cur], Single(Now).digits)
  <2>1. Clean(Now.a[1 - Now.cur], Now.digits)
    BY <1>1, <1>4 DEF Buffers
  <2>2. Padded(Now.a[Now.cur], Now.digits)
    BY <1>3, <1>4
  <2>3. /\ Packs(Single(Now), Plus(Current))
        /\ Single(Now).cur = 1 - Now.cur /\ Single(Now).a[Now.cur] = Now.a[Now.cur]
        /\ Clean(Single(Now).a[1 - Now.cur], Single(Now).digits)
    BY <1>3, <2>1, <2>2, SingleIs
  <2>4. QED BY <1>4, <2>3
<1>6. Through[1] = Plus(Current)
  BY ThroughSteps
<1>7. IsProper(Plus(Current)) /\ NumDigits(Plus(Current)) >= digits
  <2>1. 1 \in 0 .. 3
    OBVIOUS
  <2>2. QED BY <1>3, <1>6, <2>1, ThroughGrows
<1>8. ref' = RefAt(Plus(Current), carried', i' + 1, Reported(i', Plus(Current), sent))
  <2>1. i + 1 - 1 = i
    BY <1>1
  <2>2. QED BY <1>1, <1>2, <1>6, <2>1, RefFirst DEF RefAhead
<1>9. QED BY <1>1, <1>2, <1>5, <1>7, <1>8, StepToReport

LEMMA LoopReport == LoopInv /\ SendReport => LoopInv'
<1> SUFFICES ASSUME LoopInv, SendReport PROVE LoopInv'
  OBVIOUS
<1>1. /\ pc = "report" /\ Buffers /\ cur \in {0, 1} /\ DOMAIN a = {0, 1} /\ rewound = 0
      /\ i \in Nat /\ end \in Nat
      /\ ref = [number |-> Current, carried |-> carried, i |-> i + 1,
                reports |-> Reported(i, Current, sent)]
  BY DEF LoopInv, SendReport, ToReport
<1>2. UNCHANGED <<a, cur, digits, carried, end, receiver, rewound, ref>>
  BY DEF SendReport, packedInt
<1>3. Current' = Current /\ Buffers'
  BY <1>1, <1>2 DEF Current, Buffers
<1>4. CleanWhileRunning'
  BY <1>1, <1>2 DEF CleanWhileRunning, Buffers, Clean
<1>5. CASE Multiple(i, LOG_MASK) /\ ~receiver
  <2>1. pc' = "out" /\ i' = i /\ ~receiver'
    BY <1>2, <1>5 DEF SendReport
  <2>2. InStepWithReference' /\ ToReport' /\ EndsLikeReference'
    BY <2>1 DEF InStepWithReference, ToReport, EndsLikeReference
  <2>3. QED BY <1>1, <1>2, <1>4, <2>1, <2>2 DEF LoopInv
<1>6. CASE ~(Multiple(i, LOG_MASK) /\ ~receiver)
  <2>1. pc' = "test" /\ i' = i + 1 /\ sent' = Reported(i, Current, sent)
    BY <1>6 DEF SendReport
  <2>2. InStepWithReference' /\ ToReport' /\ EndsLikeReference'
    BY <1>1, <1>2, <1>3, <2>1 DEF InStepWithReference, ToReport, EndsLikeReference
  <2>3. QED BY <1>1, <1>2, <1>3, <1>4, <2>1, <2>2 DEF LoopInv
<1>7. QED BY <1>5, <1>6

(* Nothing but who receives the reports changes, or nothing does. *)
LEMMA LoopStutters ==
  ASSUME LoopInv, UNCHANGED <<packedInt, carried, i, end, pc, sent, rewound, ref>>,
         receiver' => receiver
  PROVE  LoopInv'
<1>1. UNCHANGED <<a, cur, digits, carried, i, end, pc, sent, rewound, ref>>
  BY DEF packedInt
<1>2. /\ Current' = Current /\ RefStops(ref)' = RefStops(ref)
  BY <1>1 DEF Current, RefStops
<1>3. Buffers => Buffers'
  BY <1>1, <1>2 DEF Buffers
<1>4. InStepWithReference' /\ ToReport' /\ CleanWhileRunning'
  BY <1>1, <1>2 DEF LoopInv, InStepWithReference, ToReport, CleanWhileRunning
<1>5. EndsLikeReference'
  BY <1>1, <1>2 DEF LoopInv, EndsLikeReference
<1>6. QED BY <1>1, <1>2, <1>3, <1>4, <1>5 DEF LoopInv

LEMMA LoopNext == LoopInv /\ [Next]_vars => LoopInv'
<1> SUFFICES ASSUME LoopInv, [Next]_vars PROVE LoopInv'
  OBVIOUS
<1>1. CASE Test
  BY <1>1, LoopTest
<1>2. CASE Triple \/ Double
  BY <1>2, LoopFused
<1>3. CASE SingleStep
  BY <1>3, LoopSingle
<1>4. CASE SendReport
  BY <1>4, LoopReport
<1>5. CASE ReceiverLeaves
  BY <1>5, LoopStutters DEF ReceiverLeaves
<1>6. CASE UNCHANGED vars
  BY <1>6, LoopStutters DEF vars
<1>7. QED BY <1>1, <1>2, <1>3, <1>4, <1>5, <1>6 DEF Next, Ended

-----------------------------------------------------------------------------
(* The theorems *)

(* Between iterations the packed loop has the number, the flag, the        *)
(* iteration and the reports of the reference loop: iterate_packed fuses   *)
(* no steps over a report, over a palindrome or past the end of the range. *)
THEOREM LoopIsReference == Spec => []InStepWithReference
<1>1. LoopInv => InStepWithReference
  BY DEF LoopInv
<1>2. QED BY <1>1, LoopInit, LoopNext, PTL DEF Spec

(* The loop ends at the iteration and with the number at which the         *)
(* reference loop ends, whether a step, or a rewind into a fused one, got  *)
(* it there.                                                               *)
THEOREM LoopEndsRight == Spec => []EndsLikeReference
<1>1. LoopInv => EndsLikeReference
  BY DEF LoopInv
<1>2. QED BY <1>1, LoopInit, LoopNext, PTL DEF Spec

(* The lines above the number hold zeros while the loop runs, and after a  *)
(* rewind of one step: every single step can take its padding for granted. *)
THEOREM LoopStaysClean == Spec => []CleanWhileRunning
<1>1. LoopInv => CleanWhileRunning
  BY DEF LoopInv
<1>2. QED BY <1>1, LoopInit, LoopNext, PTL DEF Spec

=============================================================================
