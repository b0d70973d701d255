-------------------------- MODULE ArithmeticProofs --------------------------
(***************************************************************************)
(* The arithmetic under every engine.  Of digits: a carry is decided in a  *)
(* range or passed through it, and what a speculated range needs when a    *)
(* carry enters it late.  Of the layout: the blocks divide the lines of a  *)
(* number of any length among any number of threads, and chunks of any     *)
(* size stay within their block.  Of the steps of a fused walk: what its   *)
(* held buffers cover, and where a step without carries equals the true    *)
(* one.                                                                    *)
(***************************************************************************)
EXTENDS Fused, FiniteSetTheorems, WellFoundedInduction, TLAPS

(* A set of naturals that is not empty has a least element. *)
LEMMA LeastElement ==
  ASSUME NEW S \in SUBSET Nat, S # {}
  PROVE  \E m \in S : \A k \in S : m <= k
<1> DEFINE R == {ss \in Nat \X Nat : ss[1] < ss[2]}
<1>1. R = OpToRel(<, Nat)
  BY DEF OpToRel
<1>2. IsWellFoundedOn(R, Nat)
  BY <1>1, NatLessThanWellFounded
<1>3. PICK m \in S : \A y \in S : ~(<<y, m>> \in R)
  BY <1>2, WFMin
<1>4. ASSUME NEW k \in S PROVE m <= k
  <2>1. ~(<<k, m>> \in R) BY <1>3
  <2>2. k \in Nat /\ m \in Nat OBVIOUS
  <2>3. ~(k < m) BY <2>1, <2>2
  <2>4. QED BY <2>2, <2>3
<1>5. QED BY <1>4

(* The carry into the slot an addition starts at is its carry-in. *)
LEMMA CarryAtBase ==
  ASSUME NEW s, NEW lo \in Nat, NEW cin \in BOOLEAN
  PROVE  CarryInto(s, lo, lo, cin) <=> cin
BY DEF CarryInto

(* One column up: it generates a carry, or it is nine and passes one on.   *)
LEMMA CarryRecurrence ==
  ASSUME NEW s, NEW lo \in Nat, NEW d \in Nat, lo <= d, s[d] \in Int,
         NEW cin \in BOOLEAN
  PROVE  CarryInto(s, lo, d + 1, cin)
           <=> s[d] > 9 \/ (s[d] = 9 /\ CarryInto(s, lo, d, cin))
<1>1. lo .. d + 1 - 1 = lo .. d - 1 \union {d}
  OBVIOUS
<1>2. \A j \in lo .. d - 1 : j + 1 .. d + 1 - 1 = j + 1 .. d - 1 \union {d}
  OBVIOUS
<1>3. ASSUME CarryInto(s, lo, d + 1, cin), ~(s[d] > 9)
      PROVE  s[d] = 9 /\ CarryInto(s, lo, d, cin)
  <2>1. CASE cin /\ \A i \in lo .. d + 1 - 1 : s[i] = 9
    BY <1>1, <2>1 DEF CarryInto
  <2>2. CASE \E j \in lo .. d + 1 - 1 :
               s[j] > 9 /\ \A i \in j + 1 .. d + 1 - 1 : s[i] = 9
    BY <1>1, <1>2, <1>3, <2>2 DEF CarryInto
  <2>3. QED BY <1>3, <2>1, <2>2 DEF CarryInto
<1>4. ASSUME s[d] > 9 PROVE CarryInto(s, lo, d + 1, cin)
  <2>1. \A i \in d + 1 .. d + 1 - 1 : s[i] = 9
    OBVIOUS
  <2>2. QED BY <1>1, <1>4, <2>1 DEF CarryInto
<1>5. ASSUME s[d] = 9, CarryInto(s, lo, d, cin)
      PROVE  CarryInto(s, lo, d + 1, cin)
  <2>1. CASE cin /\ \A i \in lo .. d - 1 : s[i] = 9
    BY <1>1, <1>5, <2>1 DEF CarryInto
  <2>2. CASE \E j \in lo .. d - 1 :
               s[j] > 9 /\ \A i \in j + 1 .. d - 1 : s[i] = 9
    BY <1>1, <1>2, <1>5, <2>2 DEF CarryInto
  <2>3. QED BY <1>5, <2>1, <2>2 DEF CarryInto
<1>6. QED BY <1>3, <1>4, <1>5

(* An addition may be cut anywhere: the carry out of the lower part is the *)
(* carry into the upper one.                                               *)
LEMMA CarrySplit ==
  ASSUME NEW s, NEW lo \in Nat, NEW m \in Nat, NEW d \in Nat,
         lo <= m, m <= d, NEW cin \in BOOLEAN
  PROVE  CarryInto(s, lo, d, cin) <=> CarryInto(s, m, d, CarryInto(s, lo, m, cin))
<1> DEFINE c == CarryInto(s, lo, m, cin)
<1>1. lo .. d - 1 = lo .. m - 1 \union m .. d - 1
  OBVIOUS
<1>2. \A j \in lo .. m - 1 : j + 1 .. d - 1 = j + 1 .. m - 1 \union m .. d - 1
  OBVIOUS
<1>3. ASSUME CarryInto(s, lo, d, cin) PROVE CarryInto(s, m, d, c)
  <2>1. CASE cin /\ \A i \in lo .. d - 1 : s[i] = 9
    BY <1>1, <2>1 DEF CarryInto
  <2>2. CASE \E j \in m .. d - 1 :
               s[j] > 9 /\ \A i \in j + 1 .. d - 1 : s[i] = 9
    BY <2>2 DEF CarryInto
  <2>3. CASE \E j \in lo .. m - 1 :
               s[j] > 9 /\ \A i \in j + 1 .. d - 1 : s[i] = 9
    BY <1>2, <2>3 DEF CarryInto
  <2>4. QED BY <1>1, <1>3, <2>1, <2>2, <2>3 DEF CarryInto
<1>4. ASSUME CarryInto(s, m, d, c) PROVE CarryInto(s, lo, d, cin)
  <2>1. CASE \E j \in m .. d - 1 :
               s[j] > 9 /\ \A i \in j + 1 .. d - 1 : s[i] = 9
    BY <1>1, <2>1 DEF CarryInto
  <2>2. CASE c /\ \A i \in m .. d - 1 : s[i] = 9
    <3>1. CASE cin /\ \A i \in lo .. m - 1 : s[i] = 9
      BY <1>1, <2>2, <3>1 DEF CarryInto
    <3>2. CASE \E j \in lo .. m - 1 :
                 s[j] > 9 /\ \A i \in j + 1 .. m - 1 : s[i] = 9
      BY <1>1, <1>2, <2>2, <3>2 DEF CarryInto
    <3>3. QED BY <2>2, <3>1, <3>2 DEF CarryInto
  <2>3. QED BY <1>4, <2>1, <2>2 DEF CarryInto
<1>5. QED BY <1>3, <1>4

(* A column of two digits always resolves to a digit, with or without a    *)
(* carry from below.                                                       *)
LEMMA ResolvedDigit ==
  ASSUME NEW v \in 0 .. 18, NEW c \in BOOLEAN
  PROVE  Resolved(v, c) \in Digit
BY DEF Resolved, Digit, Bit

(* The digits out of the range lo .. end-1 are what the columns s resolve  *)
(* to on a carry-in of zero.                                               *)
Speculative(s, out, lo, end) ==
  \A i \in lo .. end - 1 :
    /\ s[i] \in 0 .. 18
    /\ out[i] = Resolved(s[i], CarryInto(s, lo, i, FALSE))

(* The digits a range of columns resolves to on a carry-in of zero: they   *)
(* begin with a run of nines exactly where the column sums do.             *)
LEMMA NineRun ==
  ASSUME NEW s, NEW out, NEW lo \in Nat, NEW end \in Nat, lo <= end,
         Speculative(s, out, lo, end),
         NEW d \in lo .. end
  PROVE  (\A i \in lo .. d - 1 : out[i] = 9) <=> (\A i \in lo .. d - 1 : s[i] = 9)
<1>1. ASSUME NEW i \in lo .. d - 1, \A k \in lo .. i - 1 : s[k] = 9
      PROVE  out[i] = Resolved(s[i], FALSE)
  <2>1. ~CarryInto(s, lo, i, FALSE)
    <3> SUFFICES ASSUME NEW j \in lo .. i - 1, s[j] > 9 PROVE FALSE
      BY DEF CarryInto
    <3>1. QED BY <1>1
  <2>2. CarryInto(s, lo, i, FALSE) = FALSE
    BY <2>1 DEF CarryInto
  <2>3. i \in lo .. end - 1
    OBVIOUS
  <2>4. out[i] = Resolved(s[i], CarryInto(s, lo, i, FALSE))
    BY <2>3 DEF Speculative
  <2>5. QED BY <2>2, <2>4
<1>2. ASSUME \A i \in lo .. d - 1 : s[i] = 9, NEW i \in lo .. d - 1
      PROVE  out[i] = 9
  <2>1. \A k \in lo .. i - 1 : s[k] = 9
    BY <1>2
  <2>2. out[i] = Resolved(s[i], FALSE)
    BY <1>1, <2>1
  <2>3. s[i] = 9
    BY <1>2
  <2>4. QED BY <2>2, <2>3 DEF Resolved, Bit
<1>3. ASSUME \A i \in lo .. d - 1 : out[i] = 9
      PROVE  \A i \in lo .. d - 1 : s[i] = 9
  <2> DEFINE Others == {i \in lo .. d - 1 : s[i] # 9}
  <2> SUFFICES ASSUME Others # {} PROVE FALSE
    OBVIOUS
  <2>1. Others \in SUBSET Nat
    OBVIOUS
  <2>2. PICK m \in Others : \A k \in Others : m <= k
    BY <2>1, LeastElement
  <2>3. \A k \in lo .. m - 1 : s[k] = 9
    BY <2>2
  <2>4. out[m] = Resolved(s[m], FALSE)
    BY <1>1, <2>2, <2>3
  <2>5. s[m] \in 0 .. 18 /\ s[m] # 9 /\ out[m] = 9
    <3>1. m \in lo .. end - 1 /\ m \in lo .. d - 1
      BY <2>2
    <3>2. QED BY <1>3, <2>2, <3>1 DEF Speculative
  <2>6. QED BY <2>4, <2>5 DEF Resolved, Bit
<1>4. QED BY <1>2, <1>3

(* The speculation of the engines is sound.  A range of columns added with *)
(* a carry-in of zero and incremented at its base holds what it would have *)
(* held with a carry-in of one, and its true carry out is the speculative  *)
(* one, unless the increment ran through the whole range: then it is one.  *)
(* This is what resolve_carries relies on for each range.                  *)
THEOREM SpeculationSound ==
  ASSUME NEW s, NEW out, NEW lo \in Nat, NEW end \in Nat, lo <= end,
         lo .. end - 1 \subseteq DOMAIN out,
         Speculative(s, out, lo, end)
  PROVE  /\ \A d \in lo .. end - 1 :
              Increment(out, lo, end)[d]
                = Resolved(s[d], CarryInto(s, lo, d, TRUE))
         /\ CarryInto(s, lo, end, TRUE)
              <=> CarryInto(s, lo, end, FALSE) \/ Escapes(out, lo, end)
<1>1. \A d \in lo .. end :
        (\A i \in lo .. d - 1 : out[i] = 9) <=> (\A i \in lo .. d - 1 : s[i] = 9)
  BY NineRun
<1>2. \A d \in lo .. end :
        CarryInto(s, lo, d, TRUE)
          <=> CarryInto(s, lo, d, FALSE) \/ \A i \in lo .. d - 1 : s[i] = 9
  BY DEF CarryInto
<1>3. ASSUME NEW d \in lo .. end - 1
      PROVE  Increment(out, lo, end)[d]
               = Resolved(s[d], CarryInto(s, lo, d, TRUE))
  <2>1. d \in DOMAIN out /\ d \in lo .. end /\ s[d] \in 0 .. 18
    <3>1. d \in DOMAIN out
      OBVIOUS
    <3>2. d \in lo .. end
      OBVIOUS
    <3>3. QED BY <3>1, <3>2 DEF Speculative
  <2>2. out[d] = Resolved(s[d], CarryInto(s, lo, d, FALSE))
    BY DEF Speculative
  <2>3. CASE \A i \in lo .. d - 1 : s[i] = 9
    <3>1. \A i \in lo .. d - 1 : out[i] = 9
      BY <1>1, <2>1, <2>3
    <3>2. Increment(out, lo, end)[d] = IF out[d] = 9 THEN 0 ELSE out[d] + 1
      BY <2>1, <3>1 DEF Increment
    <3>3. CarryInto(s, lo, d, FALSE) = FALSE
      BY <2>3 DEF CarryInto
    <3>4. CarryInto(s, lo, d, TRUE) = TRUE
      BY <2>3 DEF CarryInto
    <3>5. out[d] = Resolved(s[d], FALSE)
      BY <2>2, <3>3
    <3>6. Increment(out, lo, end)[d] = Resolved(s[d], TRUE)
      BY <2>1, <3>2, <3>5 DEF Resolved, Bit
    <3>7. QED BY <3>4, <3>6
  <2>4. CASE ~\A i \in lo .. d - 1 : s[i] = 9
    <3>1. ~\A i \in lo .. d - 1 : out[i] = 9
      BY <1>1, <2>1, <2>4
    <3>2. Increment(out, lo, end)[d] = out[d]
      BY <2>1, <3>1 DEF Increment
    <3>3. CarryInto(s, lo, d, TRUE) = CarryInto(s, lo, d, FALSE)
      BY <2>4 DEF CarryInto
    <3>4. QED BY <2>2, <3>2, <3>3
  <2>5. QED BY <2>3, <2>4
<1>4. CarryInto(s, lo, end, TRUE)
        <=> CarryInto(s, lo, end, FALSE) \/ Escapes(out, lo, end)
  <2>1. end \in lo .. end
    OBVIOUS
  <2>2. Escapes(out, lo, end) <=> \A i \in lo .. end - 1 : s[i] = 9
    BY <1>1, <2>1 DEF Escapes
  <2>3. QED BY <1>2, <2>1, <2>2
<1>5. QED BY <1>3, <1>4

(* The sums of a number's columns are symmetric, and none exceeds 18.      *)
LEMMA SumsType ==
  ASSUME NEW n \in Nat, NEW x \in Number(n), NEW d \in 0 .. n - 1
  PROVE  /\ Sums(x, n)[d] = x[d] + x[n - 1 - d]
         /\ Sums(x, n)[d] \in 0 .. 18
         /\ n - 1 - d \in 0 .. n - 1
         /\ Sums(x, n)[n - 1 - d] = Sums(x, n)[d]
<1>1. n - 1 - d \in 0 .. n - 1 /\ n - 1 - (n - 1 - d) = d
  OBVIOUS
<1>2. x[d] \in 0 .. 9 /\ x[n - 1 - d] \in 0 .. 9
  BY <1>1 DEF Number, Digit
<1>3. /\ Sums(x, n)[d] = x[d] + x[n - 1 - d]
      /\ Sums(x, n)[n - 1 - d] = x[n - 1 - d] + x[d]
  BY <1>1 DEF Sums
<1>4. QED BY <1>1, <1>2, <1>3

(* Nothing carries in a step exactly when no column sum exceeds nine.      *)
LEMMA CarriedIffGenerated ==
  ASSUME NEW n \in Nat, NEW x \in Number(n)
  PROVE  AnyCarried(x, n) <=> \E d \in 0 .. n - 1 : Sums(x, n)[d] > 9
<1> DEFINE s == Sums(x, n)
<1>1. ASSUME NEW d \in 1 .. n, CarryInto(s, 0, d, FALSE)
      PROVE  \E j \in 0 .. n - 1 : s[j] > 9
  BY <1>1 DEF CarryInto
<1>2. ASSUME NEW j \in 0 .. n - 1, s[j] > 9
      PROVE  CarryInto(s, 0, j + 1, FALSE)
  <2>1. s[j] \in Int
    BY SumsType
  <2>2. j \in Nat /\ 0 <= j
    OBVIOUS
  <2>3. QED BY <1>2, <2>1, <2>2, CarryRecurrence
<1>3. \A j \in 0 .. n - 1 : j + 1 \in 1 .. n
  OBVIOUS
<1>4. QED BY <1>1, <1>2, <1>3 DEF AnyCarried

(* A step that carries nowhere yields a palindrome of the same length.     *)
THEOREM NoCarryNoAsymmetry ==
  ASSUME NEW n \in Nat \ {0}, NEW x \in Number(n), ~AnyCarried(x, n)
  PROVE  /\ ReverseAdd(x, n) = Sums(x, n)
         /\ IsPalindrome(ReverseAdd(x, n), n)
<1> DEFINE s == Sums(x, n)
<1>1. \A d \in 0 .. n - 1 : s[d] \in 0 .. 18 /\ ~(s[d] > 9)
  BY CarriedIffGenerated, SumsType
<1>2. PrescanGrow(x, n) = FALSE
  BY <1>1 DEF PrescanGrow
<1>3. \A d \in 0 .. n - 1 : CarryInto(s, 0, d, FALSE) = FALSE
  BY <1>1 DEF CarryInto
<1>4. \A d \in 0 .. n - 1 : Resolved(s[d], FALSE) = s[d]
  BY <1>1 DEF Resolved, Bit
<1>5. ReverseAdd(x, n) = [d \in 0 .. n - 1 |-> s[d]]
  <2>1. 0 .. n - 1 + Bit(PrescanGrow(x, n)) = 0 .. n - 1
    BY <1>2 DEF Bit
  <2>2. \A d \in 0 .. n - 1 :
          (IF d = n THEN 1 ELSE Resolved(s[d], CarryInto(s, 0, d, FALSE))) = s[d]
    <3> SUFFICES ASSUME NEW d \in 0 .. n - 1
                 PROVE  (IF d = n THEN 1
                         ELSE Resolved(s[d], CarryInto(s, 0, d, FALSE))) = s[d]
      OBVIOUS
    <3>1. d # n
      OBVIOUS
    <3>2. Resolved(s[d], CarryInto(s, 0, d, FALSE)) = s[d]
      BY <1>3, <1>4
    <3>3. QED BY <3>1, <3>2
  <2>3. QED BY <2>1, <2>2 DEF ReverseAdd
<1>6. ReverseAdd(x, n) = s
  BY <1>5 DEF Sums
<1>7. \A d \in 0 .. n \div 2 - 1 : d \in 0 .. n - 1
  OBVIOUS
<1>8. IsPalindrome(s, n)
  BY <1>7, SumsType DEF IsPalindrome
<1>9. QED BY <1>6, <1>8

(* A number of n digits has n digits. *)
LEMMA NumDigitsOfNumber ==
  ASSUME NEW n \in Nat, NEW x \in Number(n)
  PROVE  NumDigits(x) = n
<1>1. DOMAIN x = 0 .. n - 1
  BY DEF Number
<1>2. Cardinality(0 .. n - 1) = n
  BY FS_Interval
<1>3. QED BY <1>1, <1>2 DEF NumDigits

(* The prescan is exact: the number grows exactly when the addition's last *)
(* column emits a carry.                                                   *)
LEMMA PrescanExact ==
  ASSUME NEW n \in Nat, NEW x \in Number(n)
  PROVE  PrescanGrow(x, n) <=> CarryInto(Sums(x, n), 0, n, FALSE)
BY DEF PrescanGrow, CarryInto

(* The result of a step is again a number without leading zeros, of one    *)
(* digit more exactly when the prescan says so ("prescan missed growth").  *)
THEOREM ReverseAddProper ==
  ASSUME NEW n \in Nat \ {0}, NEW x \in Number(n), Proper(x, n)
  PROVE  LET m == n + Bit(PrescanGrow(x, n))
         IN  /\ m \in {n, n + 1}
             /\ ReverseAdd(x, n) \in Number(m)
             /\ Proper(ReverseAdd(x, n), m)
<1> DEFINE m == n + Bit(PrescanGrow(x, n))
           s == Sums(x, n)
           y == ReverseAdd(x, n)
<1>1. /\ m \in {n, n + 1}
      /\ PrescanGrow(x, n) => m = n + 1
      /\ ~PrescanGrow(x, n) => m = n
  BY DEF Bit
<1> DEFINE digit(d) == IF d = n THEN 1
                       ELSE Resolved(s[d], CarryInto(s, 0, d, FALSE))
<1>2. y = [d \in 0 .. m - 1 |-> digit(d)]
  <2>1. n - 1 + Bit(PrescanGrow(x, n)) = m - 1
    BY DEF Bit
  <2>2. y = [d \in 0 .. n - 1 + Bit(PrescanGrow(x, n)) |-> digit(d)]
    BY DEF ReverseAdd
  <2>3. QED BY <2>1, <2>2
<1> HIDE DEF m, s, y
<1>3. \A d \in 0 .. n - 1 :
        y[d] = Resolved(s[d], CarryInto(s, 0, d, FALSE))
  <2> SUFFICES ASSUME NEW d \in 0 .. n - 1
               PROVE  y[d] = Resolved(s[d], CarryInto(s, 0, d, FALSE))
    OBVIOUS
  <2>1. d \in 0 .. m - 1 /\ d # n
    BY <1>1
  <2>2. y[d] = digit(d)
    BY <1>2, <2>1
  <2>3. QED BY <2>1, <2>2
<1>4. \A d \in 0 .. n - 1 : y[d] \in Digit
  <2> SUFFICES ASSUME NEW d \in 0 .. n - 1 PROVE y[d] \in Digit
    OBVIOUS
  <2>1. s[d] \in 0 .. 18
    BY SumsType DEF s
  <2>2. CarryInto(s, 0, d, FALSE) \in BOOLEAN
    BY DEF CarryInto
  <2>3. QED BY <1>3, <2>1, <2>2, ResolvedDigit
<1>5. PrescanGrow(x, n) => y[n] = 1
  <2> SUFFICES ASSUME PrescanGrow(x, n) PROVE y[n] = 1
    OBVIOUS
  <2>1. n \in 0 .. m - 1
    BY <1>1
  <2>2. y[n] = digit(n)
    BY <1>2, <2>1
  <2>3. QED BY <2>2
<1>6. y \in Number(m)
  <2>1. \A d \in 0 .. m - 1 : y[d] \in Digit
    BY <1>1, <1>4, <1>5 DEF Digit
  <2>2. y = [d \in 0 .. m - 1 |-> y[d]]
    BY <1>2
  <2>3. QED BY <2>1, <2>2 DEF Number
<1>7. Proper(y, m)
  <2>1. CASE PrescanGrow(x, n)
    <3>1. m > 0 /\ m - 1 = n /\ y[n] = 1
      BY <1>1, <1>5, <2>1
    <3>2. QED BY <3>1 DEF Proper
  <2>2. CASE ~PrescanGrow(x, n)
    <3>1. n - 1 \in Nat /\ n - 1 \in 0 .. n - 1 /\ 0 \in 0 .. n - 1
      OBVIOUS
    <3>2. s[n - 1] = x[n - 1] + x[0] /\ s[n - 1] \in 0 .. 18
      <4>1. n - 1 - (n - 1) = 0
        OBVIOUS
      <4>2. QED BY <3>1, <4>1, SumsType DEF s
    <3>3. x[n - 1] \in 1 .. 9 /\ x[0] \in 0 .. 9
      BY <3>1 DEF Proper, Number, Digit
    <3>4. ~CarryInto(s, 0, n - 1 + 1, FALSE)
      <4>1. n - 1 + 1 = n
        OBVIOUS
      <4>2. ~CarryInto(s, 0, n, FALSE)
        BY <2>2, PrescanExact DEF s
      <4>3. QED BY <4>1, <4>2
    <3>5. /\ ~(s[n - 1] > 9)
          /\ ~(s[n - 1] = 9 /\ CarryInto(s, 0, n - 1, FALSE))
      <4>1. s[n - 1] \in Int /\ 0 <= n - 1
        BY <3>1, <3>2
      <4>2. QED BY <3>1, <3>4, <4>1, CarryRecurrence
    <3>6. Resolved(s[n - 1], CarryInto(s, 0, n - 1, FALSE)) # 0
      <4> DEFINE v == s[n - 1]
                 c == CarryInto(s, 0, n - 1, FALSE)
      <4>1. v \in 1 .. 9 /\ (v = 9 => ~c)
        <5>1. v \in 1 .. 18
          BY <3>2, <3>3
        <5>2. ~(v > 9)
          BY <3>5
        <5>3. v = 9 => ~c
          BY <3>5
        <5> HIDE DEF v, c
        <5>4. v \in 1 .. 9
          BY <5>1, <5>2
        <5>5. QED BY <5>3, <5>4
      <4>2. Bit(c) \in {0, 1}
        BY DEF Bit
      <4> HIDE DEF v, c
      <4>3. Resolved(v, c) = v + Bit(c)
        BY <4>1, <4>2 DEF Resolved
      <4>4. Resolved(v, c) # 0
        BY <4>1, <4>2, <4>3
      <4>5. QED BY <4>4 DEF v, c
    <3>7. QED BY <1>1, <1>3, <2>2, <3>1, <3>6 DEF Proper
  <2>3. QED BY <2>1, <2>2
<1>8. QED BY <1>1, <1>6, <1>7 DEF m, y

LEMMA CarryIsBoolean ==
  ASSUME NEW s, NEW lo, NEW d, NEW cin \in BOOLEAN
  PROVE  CarryInto(s, lo, d, cin) \in BOOLEAN
  BY DEF CarryInto

LEMMA ResolvedSame ==
  ASSUME NEW v, NEW c, NEW e, c <=> e
  PROVE  Resolved(v, c) = Resolved(v, e)
  BY DEF Resolved, Bit

(* Carries look at columns below only, so equal columns have equal carries. *)
LEMMA CarryOfEqual ==
  ASSUME NEW s, NEW r, NEW lo \in Nat, NEW d \in Nat, NEW cin,
         \A i \in lo .. d - 1 : s[i] = r[i]
  PROVE  CarryInto(s, lo, d, cin) <=> CarryInto(r, lo, d, cin)
  BY DEF CarryInto

(* Something carries in a range if a carry enters it or a column of it     *)
(* generates one.                                                          *)
LEMMA CarriedInRange ==
  ASSUME NEW s, NEW lo \in Nat, NEW end \in Nat, lo <= end, NEW c \in BOOLEAN,
         \A i \in lo .. end - 1 : s[i] \in Int
  PROVE  (\E d \in lo .. end : CarryInto(s, lo, d, c))
           <=> c \/ \E j \in lo .. end - 1 : s[j] > 9
<1>1. ASSUME NEW d \in lo .. end, CarryInto(s, lo, d, c)
      PROVE  c \/ \E j \in lo .. end - 1 : s[j] > 9
  BY <1>1 DEF CarryInto
<1>2. ASSUME c PROVE \E d \in lo .. end : CarryInto(s, lo, d, c)
  <2>1. CarryInto(s, lo, lo, c)
    BY <1>2, CarryAtBase
  <2>2. lo \in lo .. end
    OBVIOUS
  <2>3. QED BY <2>1, <2>2
<1>3. ASSUME NEW j \in lo .. end - 1, s[j] > 9
      PROVE  \E d \in lo .. end : CarryInto(s, lo, d, c)
  <2>1. j \in Nat /\ lo <= j /\ s[j] \in Int /\ j + 1 \in lo .. end
    OBVIOUS
  <2>2. QED BY <1>3, <2>1, CarryRecurrence
<1>4. QED BY <1>1, <1>2, <1>3

(* The carries of a whole pass, from a range's base on. *)
LEMMA CarryFromZero ==
  ASSUME NEW s, NEW m \in Nat, NEW d \in Nat, m <= d
  PROVE  CarryInto(s, 0, d, FALSE) <=> CarryInto(s, m, d, CarryInto(s, 0, m, FALSE))
<1>1. 0 \in Nat /\ 0 <= m /\ FALSE \in BOOLEAN
  OBVIOUS
<1>2. QED BY <1>1, CarrySplit

-----------------------------------------------------------------------------
(* Quotients, blocks and chunks *)

LEMMA Blocks ==
  /\ NumThreads \in Nat \ {0} /\ NumBlocks = 2 * NumThreads
  /\ \A t \in Thread : /\ t \in Nat /\ t < NumThreads
                       /\ HighBlock(t) \in Nat
                       /\ NumThreads <= HighBlock(t) /\ HighBlock(t) < NumBlocks
  BY PoolAssumption DEF Thread, NumBlocks, HighBlock

(* A quotient is where its multiple of the divisor stops fitting. *)
LEMMA Quotient ==
  ASSUME NEW m \in Nat, NEW b \in Nat \ {0}
  PROVE  /\ m \div b \in Nat
         /\ (m \div b) * b <= m
         /\ m < (m \div b) * b + b
  OBVIOUS

LEMMA QuotientMonotone ==
  ASSUME NEW m \in Nat, NEW n \in Nat, m <= n, NEW b \in Nat \ {0}
  PROVE  m \div b <= n \div b
<1>1. /\ m \div b \in Nat /\ n \div b \in Nat
      /\ (m \div b) * b <= m /\ n < (n \div b) * b + b
  BY Quotient
<1>2. ASSUME n \div b < m \div b PROVE FALSE
  <2>1. (n \div b) * b + b <= (m \div b) * b
    BY <1>1, <1>2
  <2>2. QED BY <1>1, <2>1
<1>3. QED BY <1>1, <1>2

(* The boundaries of the blocks ascend from the first line to the last.    *)
LEMMA BoundsAscend ==
  ASSUME NEW lines \in Nat
  PROVE  /\ \A k \in 0 .. NumBlocks : BlockBounds(lines)[k] \in Nat
         /\ \A k, m \in 0 .. NumBlocks :
              k <= m => BlockBounds(lines)[k] <= BlockBounds(lines)[m]
         /\ BlockBounds(lines)[0] = 0
         /\ BlockBounds(lines)[NumBlocks] = lines
<1>1. NumBlocks \in Nat \ {0}
  BY Blocks
<1>2. ASSUME NEW k \in 0 .. NumBlocks
      PROVE  BlockBounds(lines)[k] = (k * lines) \div NumBlocks /\ k * lines \in Nat
  BY <1>1 DEF BlockBounds
<1>3. ASSUME NEW k \in 0 .. NumBlocks, NEW m \in 0 .. NumBlocks, k <= m
      PROVE  BlockBounds(lines)[k] <= BlockBounds(lines)[m]
  <2>1. k * lines <= m * lines
    BY <1>1, <1>3
  <2>2. QED BY <1>1, <1>2, <2>1, QuotientMonotone
<1>4. BlockBounds(lines)[0] = 0
  <2>1. 0 \div NumBlocks = 0
    BY <1>1
  <2>2. 0 * lines = 0
    OBVIOUS
  <2>3. QED BY <1>1, <1>2, <2>1, <2>2
<1>5. BlockBounds(lines)[NumBlocks] = lines
  <2>1. (NumBlocks * lines) \div NumBlocks = lines
    BY <1>1
  <2>2. QED BY <1>1, <1>2, <2>1
<1>6. QED BY <1>1, <1>2, <1>3, <1>4, <1>5, Quotient

(* Every line lies in a block: the last one that starts no later.          *)
LEMMA BlocksCover ==
  ASSUME NEW lines \in Nat, NEW x \in 0 .. lines - 1
  PROVE  \E j \in 0 .. NumBlocks - 1 :
           BlockBounds(lines)[j] <= x /\ x < BlockBounds(lines)[j + 1]
<1> DEFINE top == (x + 1) * NumBlocks - 1
           j == top \div lines
<1>1. NumBlocks \in Nat \ {0} /\ lines \in Nat \ {0}
  BY Blocks
<1>2. top \in Nat /\ top < lines * NumBlocks
  <2>1. (x + 1) * NumBlocks >= NumBlocks
    BY <1>1
  <2>2. (x + 1) * NumBlocks <= lines * NumBlocks
    BY <1>1
  <2>3. (x + 1) * NumBlocks \in Nat
    BY <1>1
  <2>4. QED BY <1>1, <2>1, <2>2, <2>3
<1> HIDE DEF top
<1>3. j \in Nat /\ j * lines <= top /\ top < j * lines + lines
  BY <1>1, <1>2, Quotient
<1> HIDE DEF j
<1>4. j \in 0 .. NumBlocks - 1
  <2>1. ASSUME j >= NumBlocks PROVE FALSE
    <3>1. j * lines >= lines * NumBlocks
      BY <1>1, <1>3, <2>1
    <3>2. QED BY <1>1, <1>2, <1>3, <3>1
  <2>2. QED BY <1>1, <1>3, <2>1
<1>5. BlockBounds(lines)[j] <= x
  <2> DEFINE q == (j * lines) \div NumBlocks
  <2>1. j * lines \in Nat /\ q \in Nat /\ q * NumBlocks <= j * lines
    BY <1>1, <1>3, Quotient
  <2> HIDE DEF q
  <2>2. ASSUME q >= x + 1 PROVE FALSE
    <3>1. q * NumBlocks >= (x + 1) * NumBlocks
      BY <1>1, <2>1, <2>2
    <3>2. j * lines <= (x + 1) * NumBlocks - 1
      BY <1>3 DEF top
    <3>3. /\ (x + 1) * NumBlocks \in Nat /\ q * NumBlocks \in Nat
          /\ j * lines \in Nat /\ q * NumBlocks <= j * lines
      BY <1>1, <2>1
    <3>4. QED BY ONLY <3>1, <3>2, <3>3
  <2>3. BlockBounds(lines)[j] = q
    BY <1>1, <1>4 DEF BlockBounds, q
  <2>4. QED BY <2>1, <2>2, <2>3
<1>6. x < BlockBounds(lines)[j + 1]
  <2> DEFINE q == ((j + 1) * lines) \div NumBlocks
  <2>1. /\ (j + 1) * lines \in Nat /\ (j + 1) * lines = j * lines + lines
        /\ q \in Nat /\ (j + 1) * lines < q * NumBlocks + NumBlocks
    BY <1>1, <1>3, Quotient
  <2> HIDE DEF q
  <2>2. ASSUME q <= x PROVE FALSE
    <3>1. q * NumBlocks + NumBlocks <= (x + 1) * NumBlocks
      BY <1>1, <2>1, <2>2
    <3>2. (x + 1) * NumBlocks - 1 < j * lines + lines
      BY <1>3 DEF top
    <3>3. /\ (x + 1) * NumBlocks \in Nat /\ q * NumBlocks \in Nat
          /\ j * lines \in Nat /\ NumBlocks \in Nat /\ lines \in Nat
          /\ j * lines + lines < q * NumBlocks + NumBlocks
      BY <1>1, <1>3, <2>1
    <3>4. QED BY ONLY <3>1, <3>2, <3>3
  <2>3. BlockBounds(lines)[j + 1] = q
    BY <1>1, <1>4 DEF BlockBounds, q
  <2>4. QED BY <2>1, <2>2, <2>3
<1>7. QED BY <1>4, <1>5, <1>6

(* The lines of thread t in a pass. *)
OwnLines(t, bounds) ==
  (bounds[t] .. bounds[t + 1] - 1)
    \union (bounds[HighBlock(t)] .. bounds[HighBlock(t) + 1] - 1)

(* The threads divide the lines of a number among them. *)
LEMMA OwnLinesDivide ==
  ASSUME NEW lines \in Nat
  PROVE  LET bounds == BlockBounds(lines)
         IN  /\ \A t, u \in Thread :
                  t # u => OwnLines(t, bounds) \intersect OwnLines(u, bounds) = {}
             /\ UNION {OwnLines(t, bounds) : t \in Thread} = 0 .. lines - 1
<1> DEFINE bounds == BlockBounds(lines)
<1>1. /\ \A k \in 0 .. NumBlocks : bounds[k] \in Nat
      /\ \A k, m \in 0 .. NumBlocks : k <= m => bounds[k] <= bounds[m]
      /\ bounds[0] = 0 /\ bounds[NumBlocks] = lines
  BY BoundsAscend
<1>2. \A x \in 0 .. lines - 1 :
        \E j \in 0 .. NumBlocks - 1 : bounds[j] <= x /\ x < bounds[j + 1]
  BY BlocksCover
<1> HIDE DEF bounds
<1>3. ASSUME NEW j \in 0 .. NumBlocks - 1, NEW k \in 0 .. NumBlocks - 1, j # k
      PROVE  (bounds[j] .. bounds[j + 1] - 1) \intersect
               (bounds[k] .. bounds[k + 1] - 1) = {}
  <2>1. /\ bounds[j] \in Nat /\ bounds[j + 1] \in Nat
        /\ bounds[k] \in Nat /\ bounds[k + 1] \in Nat
    BY <1>1, Blocks
  <2>2. bounds[j + 1] <= bounds[k] \/ bounds[k + 1] <= bounds[j]
    <3>1. CASE j < k   BY <1>1, <3>1, Blocks
    <3>2. CASE k < j   BY <1>1, <3>2, Blocks
    <3>3. QED BY <1>3, <3>1, <3>2, Blocks
  <2>3. QED BY <2>1, <2>2
<1>4. ASSUME NEW t \in Thread, NEW u \in Thread, t # u
      PROVE  OwnLines(t, bounds) \intersect OwnLines(u, bounds) = {}
  <2>1. /\ t \in 0 .. NumBlocks - 1 /\ u \in 0 .. NumBlocks - 1
        /\ HighBlock(t) \in 0 .. NumBlocks - 1 /\ HighBlock(u) \in 0 .. NumBlocks - 1
        /\ t # HighBlock(u) /\ HighBlock(t) # u /\ HighBlock(t) # HighBlock(u)
    BY <1>4, Blocks DEF HighBlock
  <2>2. /\ (bounds[t] .. bounds[t + 1] - 1) \intersect
             (bounds[u] .. bounds[u + 1] - 1) = {}
        /\ (bounds[t] .. bounds[t + 1] - 1) \intersect
             (bounds[HighBlock(u)] .. bounds[HighBlock(u) + 1] - 1) = {}
        /\ (bounds[HighBlock(t)] .. bounds[HighBlock(t) + 1] - 1) \intersect
             (bounds[u] .. bounds[u + 1] - 1) = {}
        /\ (bounds[HighBlock(t)] .. bounds[HighBlock(t) + 1] - 1) \intersect
             (bounds[HighBlock(u)] .. bounds[HighBlock(u) + 1] - 1) = {}
    BY <1>3, <1>4, <2>1
  <2>3. QED BY ONLY <2>2 DEF OwnLines
<1>5. ASSUME NEW t \in Thread
      PROVE  OwnLines(t, bounds) \subseteq 0 .. lines - 1
  <2>1. /\ t \in 0 .. NumBlocks - 1 /\ t + 1 \in 0 .. NumBlocks
        /\ HighBlock(t) \in 0 .. NumBlocks - 1 /\ HighBlock(t) + 1 \in 0 .. NumBlocks
        /\ NumBlocks \in Nat
    BY Blocks
  <2>2. /\ bounds[t] \in Nat /\ bounds[t + 1] \in Nat /\ bounds[t + 1] <= lines
        /\ bounds[HighBlock(t)] \in Nat /\ bounds[HighBlock(t) + 1] \in Nat
        /\ bounds[HighBlock(t) + 1] <= lines
    BY <1>1, <2>1
  <2>3. QED BY <2>2 DEF OwnLines
<1>6. ASSUME NEW x \in 0 .. lines - 1
      PROVE  \E t \in Thread : x \in OwnLines(t, bounds)
  <2>1. PICK j \in 0 .. NumBlocks - 1 : bounds[j] <= x /\ x < bounds[j + 1]
    BY <1>2
  <2>2. x \in bounds[j] .. bounds[j + 1] - 1
    BY <1>1, <2>1, Blocks
  <2>3. CASE j < NumThreads
    <3>1. j \in Thread
      BY <2>3, Blocks DEF Thread
    <3>2. QED BY <2>2, <3>1 DEF OwnLines
  <2>4. CASE ~(j < NumThreads)
    <3>1. HighBlock(j) \in Thread /\ HighBlock(HighBlock(j)) = j
      BY <2>4, Blocks DEF Thread, HighBlock
    <3>2. x \in OwnLines(HighBlock(j), bounds)
      BY <2>2, <3>1 DEF OwnLines
    <3>3. QED BY <3>1, <3>2
  <2>5. QED BY <2>3, <2>4
<1>7. UNION {OwnLines(t, bounds) : t \in Thread} = 0 .. lines - 1
  BY <1>5, <1>6
<1>8. QED BY <1>4, <1>7 DEF bounds

(* Chunks end within their block, past where they start. *)
LEMMA ChunkEndWithin ==
  ASSUME NEW x \in Nat, NEW limit \in Nat, x < limit
  PROVE  ChunkEnd(x, limit) \in Nat /\ x < ChunkEnd(x, limit) /\ ChunkEnd(x, limit) <= limit
<1>1. CHUNK_LINES \in Nat \ {0}
  BY LineAssumption
<1>2. x \div CHUNK_LINES \in Nat /\ x < (x \div CHUNK_LINES) * CHUNK_LINES + CHUNK_LINES
  BY <1>1, Quotient
<1>3. /\ (x \div CHUNK_LINES + 1) * CHUNK_LINES
           = (x \div CHUNK_LINES) * CHUNK_LINES + CHUNK_LINES
      /\ (x \div CHUNK_LINES) * CHUNK_LINES \in Nat
  BY <1>1, <1>2
<1>4. QED BY <1>1, <1>2, <1>3 DEF ChunkEnd, MinOf

LEMMA Cancel ==
  ASSUME NEW m \in Int, NEW n \in Int, NEW b \in Nat \ {0}
  PROVE  /\ m * b < n * b => m < n
         /\ m * b <= n * b => m <= n
<1>1. ASSUME n <= m PROVE n * b <= m * b
  BY <1>1
<1>2. ASSUME n < m PROVE n * b < m * b
  <2>1. (n + 1) * b <= m * b
    BY <1>2
  <2>2. (n + 1) * b = n * b + b
    OBVIOUS
  <2>3. QED BY <2>1, <2>2
<1>3. m * b \in Int /\ n * b \in Int
  OBVIOUS
<1>4. QED BY <1>1, <1>2, <1>3

(* No block has more lines than the quotient and one. *)
LEMMA BlockSize ==
  ASSUME NEW lines \in Nat, NEW k \in 0 .. NumBlocks - 1
  PROVE  BlockBounds(lines)[k + 1] <= BlockBounds(lines)[k] + lines \div NumBlocks + 1
<1> DEFINE B == NumBlocks
           a == (k * lines) \div B
           c == ((k + 1) * lines) \div B
           s == lines \div B
<1>1. B \in Nat \ {0} /\ k \in Nat
  BY Blocks
<1>2. /\ k * lines \in Nat /\ (k + 1) * lines \in Nat
      /\ (k + 1) * lines = k * lines + lines
  BY <1>1
<1>3. /\ BlockBounds(lines)[k] = a /\ BlockBounds(lines)[k + 1] = c
  BY <1>1 DEF BlockBounds
<1>4. /\ a \in Nat /\ k * lines < a * B + B
      /\ c \in Nat /\ c * B <= k * lines + lines
      /\ s \in Nat /\ lines < s * B + B
  BY <1>1, <1>2, Quotient
<1> HIDE DEF a, c, s, B
<1>5. /\ (a + s + 2) * B = a * B + s * B + B + B
      /\ a * B \in Nat /\ s * B \in Nat /\ c * B \in Nat
  BY <1>1, <1>4
<1>6. c * B < (a + s + 2) * B
  BY <1>1, <1>2, <1>4, <1>5
<1>7. c < a + s + 2
  BY <1>1, <1>4, <1>6, Cancel
<1>8. QED BY <1>3, <1>4, <1>7 DEF s, B

(* The boundaries mirror each other, to within a line. *)
LEMMA BoundsMirror ==
  ASSUME NEW lines \in Nat, NEW k \in 0 .. NumBlocks
  PROVE  BlockBounds(lines)[k] + BlockBounds(lines)[NumBlocks - k] \in {lines - 1, lines}
<1> DEFINE B == NumBlocks
           a == (k * lines) \div B
           c == ((B - k) * lines) \div B
<1>1. B \in Nat \ {0} /\ k \in Nat /\ B - k \in Nat
  BY Blocks
<1>2. /\ k * lines \in Nat /\ (B - k) * lines \in Nat
      /\ k * lines + (B - k) * lines = lines * B
  BY <1>1
<1>3. /\ BlockBounds(lines)[k] = a /\ BlockBounds(lines)[NumBlocks - k] = c
  BY <1>1 DEF BlockBounds
<1>4. /\ a \in Nat /\ a * B <= k * lines /\ k * lines < a * B + B
      /\ c \in Nat /\ c * B <= (B - k) * lines /\ (B - k) * lines < c * B + B
  BY <1>1, <1>2, Quotient
<1> HIDE DEF a, c, B
<1>5. /\ (a + c) * B = a * B + c * B /\ (a + c + 2) * B = a * B + c * B + B + B
      /\ a * B \in Nat /\ c * B \in Nat /\ lines * B \in Nat
  BY <1>1, <1>4
<1>6. (a + c) * B <= lines * B /\ lines * B < (a + c + 2) * B
  BY <1>1, <1>2, <1>4, <1>5
<1>7. a + c <= lines /\ lines < a + c + 2
  BY <1>1, <1>4, <1>6, Cancel
<1>8. QED BY <1>3, <1>4, <1>7

-----------------------------------------------------------------------------
(* Lines of digits *)

LEMMA LineMultiple ==
  ASSUME NEW x \in Nat
  PROVE  x * DPL \in Nat /\ (x + 1) * DPL = x * DPL + DPL /\ DPL \in Nat \ {0}
  BY LineAssumption

LEMMA LinesAscend ==
  ASSUME NEW x \in Nat, NEW y \in Nat
  PROVE  /\ x < y => (x + 1) * DPL <= y * DPL
         /\ x <= y <=> x * DPL <= y * DPL
<1>1. DPL \in Nat \ {0} /\ x * DPL \in Nat /\ y * DPL \in Nat
  BY LineAssumption
<1>2. ASSUME x < y PROVE (x + 1) * DPL <= y * DPL
  <2>1. y - (x + 1) \in Nat
    BY <1>2
  <2>2. (y - (x + 1)) * DPL \in Nat
    BY <1>1, <2>1
  <2>3. y * DPL = (x + 1) * DPL + (y - (x + 1)) * DPL
    BY <1>1
  <2>4. QED BY <1>1, <2>2, <2>3
<1>3. ASSUME y < x PROVE (y + 1) * DPL <= x * DPL
  <2>1. x - (y + 1) \in Nat
    BY <1>3
  <2>2. (x - (y + 1)) * DPL \in Nat
    BY <1>1, <2>1
  <2>3. x * DPL = (y + 1) * DPL + (x - (y + 1)) * DPL
    BY <1>1
  <2>4. QED BY <1>1, <2>2, <2>3
<1>4. (x + 1) * DPL = x * DPL + DPL /\ (y + 1) * DPL = y * DPL + DPL
  BY <1>1
<1>5. QED BY <1>1, <1>2, <1>3, <1>4

(* A number of n digits fits its lines, the top one not empty. *)
LEMMA LinesOfDigits ==
  ASSUME NEW n \in Nat \ {0}
  PROVE  /\ DivCeil(n, DPL) \in Nat \ {0}
         /\ n <= DivCeil(n, DPL) * DPL
         /\ (DivCeil(n, DPL) - 1) * DPL < n
         /\ \A x \in Nat : n <= x * DPL <=> DivCeil(n, DPL) <= x
<1> DEFINE q == DivCeil(n, DPL)
<1>1. DPL \in Nat \ {0} /\ n + DPL - 1 \in Nat
  BY LineAssumption
<1>2. q \in Nat /\ q * DPL <= n + DPL - 1 /\ n + DPL - 1 < q * DPL + DPL
  BY <1>1, Quotient DEF DivCeil
<1> HIDE DEF q
<1>3. q * DPL \in Nat
  BY <1>2, LineMultiple
<1>4. q # 0
  BY <1>1, <1>2
<1>5. q - 1 \in Nat /\ (q - 1) * DPL + DPL = q * DPL /\ (q - 1) * DPL \in Nat
  <2>1. q - 1 \in Nat
    BY <1>2, <1>4
  <2>2. (q - 1) * DPL \in Nat /\ (q - 1 + 1) * DPL = (q - 1) * DPL + DPL
    BY <2>1, LineMultiple
  <2>3. q - 1 + 1 = q
    BY <1>2
  <2>4. QED BY <2>1, <2>2, <2>3
<1>6. n <= q * DPL /\ (q - 1) * DPL < n
  BY <1>1, <1>2, <1>3, <1>5
<1>7. ASSUME NEW x \in Nat PROVE n <= x * DPL <=> q <= x
  <2>1. q <= x => q * DPL <= x * DPL
    BY <1>2, LinesAscend
  <2>2. x <= q - 1 => x * DPL <= (q - 1) * DPL
    BY <1>5, LinesAscend
  <2>3. x * DPL \in Nat
    BY LineMultiple
  <2>4. QED BY <1>2, <1>3, <1>5, <1>6, <2>1, <2>2, <2>3
<1>8. QED BY <1>2, <1>4, <1>6, <1>7 DEF q

(* The slots of a line. *)
LineSlots(x) == x * DPL .. (x + 1) * DPL - 1

LEMMA LineBase ==
  ASSUME NEW x \in Nat
  PROVE  /\ x * DPL \in Nat /\ (x + 1) * DPL = x * DPL + DPL
         /\ DPL \in Nat \ {0}
         /\ \A d \in LineSlots(x) : d \in Nat /\ x * DPL <= d /\ d < (x + 1) * DPL
  BY LineAssumption DEF LineSlots

(* Every slot is in one line. *)
LEMMA LineOfSlot ==
  ASSUME NEW d \in Nat
  PROVE  /\ d \div DPL \in Nat /\ d \in LineSlots(d \div DPL)
         /\ \A x \in Nat : d < x * DPL <=> d \div DPL < x
<1> DEFINE k == d \div DPL
<1>1. /\ DPL \in Nat \ {0} /\ k \in Nat /\ k * DPL <= d /\ d < k * DPL + DPL
  BY LineAssumption, Quotient
<1> HIDE DEF k
<1>2. (k + 1) * DPL = k * DPL + DPL /\ k * DPL \in Nat
  BY <1>1, LineBase
<1>3. d \in LineSlots(k)
  BY <1>1, <1>2 DEF LineSlots
<1>4. ASSUME NEW x \in Nat PROVE d < x * DPL <=> k < x
  <2>1. k < x => (k + 1) * DPL <= x * DPL
    BY <1>1, LinesAscend
  <2>2. x <= k => x * DPL <= k * DPL
    BY <1>1, LinesAscend
  <2>3. x * DPL \in Nat
    BY LineBase
  <2>4. QED BY <1>1, <1>2, <2>1, <2>2, <2>3
<1>5. QED BY <1>1, <1>3, <1>4 DEF k

(* Lines x .. y-1 are the slots from x's first to y's first. *)
LEMMA SlotsOfLines ==
  ASSUME NEW x \in Nat, NEW y \in Nat, x <= y
  PROVE  /\ x * DPL \in Nat /\ y * DPL \in Nat /\ x * DPL <= y * DPL
         /\ \A d \in x * DPL .. y * DPL - 1 :
              d \div DPL \in x .. y - 1 /\ d \in LineSlots(d \div DPL)
         /\ \A z \in x .. y - 1 : LineSlots(z) \subseteq x * DPL .. y * DPL - 1
<1>1. x * DPL \in Nat /\ y * DPL \in Nat /\ x * DPL <= y * DPL
  BY LineBase, LinesAscend
<1>2. ASSUME NEW d \in x * DPL .. y * DPL - 1
      PROVE  d \div DPL \in x .. y - 1 /\ d \in LineSlots(d \div DPL)
  <2>1. d \in Nat /\ ~(d < x * DPL) /\ d < y * DPL
    BY <1>1
  <2>2. /\ d \div DPL \in Nat /\ d \in LineSlots(d \div DPL)
        /\ d < x * DPL <=> d \div DPL < x
        /\ d < y * DPL <=> d \div DPL < y
    BY <2>1, LineOfSlot
  <2>3. QED BY <2>1, <2>2
<1>3. ASSUME NEW z \in x .. y - 1
      PROVE  LineSlots(z) \subseteq x * DPL .. y * DPL - 1
  <2>1. z \in Nat /\ x <= z /\ z < y
    OBVIOUS
  <2>2. z * DPL \in Nat /\ x * DPL <= z * DPL /\ (z + 1) * DPL <= y * DPL
    BY <2>1, LineBase, LinesAscend
  <2>3. (z + 1) * DPL \in Nat
    BY <2>1, LineBase
  <2>4. QED BY <1>1, <2>2, <2>3 DEF LineSlots
<1>4. QED BY <1>1, <1>2, <1>3

-----------------------------------------------------------------------------
(* The intervals of a round *)

Interval == Int \X Int

LEMMA UnionContains ==
  ASSUME NEW r \in Interval, NEW u \in Interval
  PROVE  /\ IntervalUnion(r, u) \in Interval
         /\ Lines(r) \subseteq Lines(IntervalUnion(r, u))
         /\ Lines(u) \subseteq Lines(IntervalUnion(r, u))
  BY DEF Interval, IntervalUnion, IsEmpty, Lines, MinOf, MaxOf

(* The two lines a mirror image lies in, as far as the number has them.    *)
MirrorLines(q, k, limit) == {q - 1 - k, q - k} \intersect (0 .. limit - 1)

LEMMA BackwardContains ==
  ASSUME NEW r \in Interval, NEW q \in Int, NEW limit \in Int
  PROVE  /\ BackwardOf(r, q, limit) \in Interval
         /\ \A k \in Lines(r) : MirrorLines(q, k, limit) \subseteq Lines(BackwardOf(r, q, limit))
<1>1. BackwardOf(r, q, limit) \in Interval
  BY DEF Interval, BackwardOf, MinOf, MaxOf
<1>2. ASSUME NEW k \in Lines(r), NEW m \in MirrorLines(q, k, limit)
      PROVE  m \in Lines(BackwardOf(r, q, limit))
  <2>1. r[1] \in Int /\ r[2] \in Int /\ k \in Int /\ r[1] <= k /\ k < r[2]
    BY DEF Interval, Lines
  <2>2. m \in 0 .. limit - 1 /\ q - r[2] <= m /\ m < q - r[1] + 1
    BY <2>1 DEF MirrorLines
  <2>3. BackwardOf(r, q, limit) =
          <<MaxOf(q - r[2], 0), MinOf(MaxOf(q - r[1] + 1, 0), limit)>>
    BY <2>1 DEF BackwardOf, IsEmpty
  <2>4. QED BY <2>1, <2>2, <2>3 DEF Lines, MinOf, MaxOf
<1>3. QED BY <1>1, <1>2

(* If both buffers hold what their own chunk needs forward and what the    *)
(* other one's needs backward, nothing is read outside them.               *)
LEMMA PairReads ==
  ASSUME NEW r \in Interval, NEW u \in Interval, NEW q \in Int, NEW limit \in Int
  PROVE  LET fwd == IntervalUnion(r, BackwardOf(u, q, limit))
             rev == IntervalUnion(u, BackwardOf(r, q, limit))
         IN  /\ fwd \in Interval /\ rev \in Interval
             /\ InScratch(r, fwd, rev, q, limit)
             /\ InScratch(u, rev, fwd, q, limit)
<1> DEFINE fwd == IntervalUnion(r, BackwardOf(u, q, limit))
           rev == IntervalUnion(u, BackwardOf(r, q, limit))
<1>1. BackwardOf(r, q, limit) \in Interval /\ BackwardOf(u, q, limit) \in Interval
  BY BackwardContains
<1>2. /\ fwd \in Interval /\ rev \in Interval
      /\ Lines(r) \subseteq Lines(fwd) /\ Lines(u) \subseteq Lines(rev)
      /\ Lines(BackwardOf(u, q, limit)) \subseteq Lines(fwd)
      /\ Lines(BackwardOf(r, q, limit)) \subseteq Lines(rev)
  BY <1>1, UnionContains
<1> HIDE DEF fwd, rev
<1>3. InScratch(r, fwd, rev, q, limit)
  BY <1>2, BackwardContains DEF InScratch, MirrorLines
<1>4. InScratch(u, rev, fwd, q, limit)
  BY <1>2, BackwardContains DEF InScratch, MirrorLines
<1>5. QED BY <1>2, <1>3, <1>4 DEF fwd, rev

-----------------------------------------------------------------------------
(* The walk of one thread *)

(* The blocks of thread t in a number of n digits. *)
LowStartOf(t, n) == BlockBounds(DivCeil(n, DPL))[t]
LowEndOf(t, n) == BlockBounds(DivCeil(n, DPL))[t + 1]
HighStartOf(t, n) == BlockBounds(DivCeil(n, DPL))[HighBlock(t)]
HighEndOf(t, n) == BlockBounds(DivCeil(n, DPL))[HighBlock(t) + 1]

(* The number's lines, and its blocks against each other and against the   *)
(* line that the number's end mirrors.                                     *)
LEMMA BlocksOfThread ==
  ASSUME NEW n \in Nat \ {0}, NEW t \in Thread
  PROVE  LET q == n \div DPL
             lines == DivCeil(n, DPL)
             s == lines \div NumBlocks
         IN  /\ q \in Nat /\ lines \in Nat \ {0} /\ s \in Nat
             /\ q <= lines /\ lines <= q + 1
             /\ LowStartOf(t, n) \in Nat /\ LowEndOf(t, n) \in Nat
             /\ HighStartOf(t, n) \in Nat /\ HighEndOf(t, n) \in Nat
             /\ LowStartOf(t, n) <= LowEndOf(t, n) /\ LowEndOf(t, n) <= LowStartOf(t, n) + s + 1
             /\ HighStartOf(t, n) <= HighEndOf(t, n) /\ HighEndOf(t, n) <= HighStartOf(t, n) + s + 1
             /\ LowEndOf(t, n) <= HighStartOf(t, n) /\ HighEndOf(t, n) <= lines
             /\ LowEndOf(t, n) + HighStartOf(t, n) \in {lines - 1, lines}
             /\ LowStartOf(t, n) + HighEndOf(t, n) \in {lines - 1, lines}
             /\ LowStartOf(t, n) = LowEndOf(t, n) => s = 0
<1> DEFINE q == n \div DPL
           lines == DivCeil(n, DPL)
           s == lines \div NumBlocks
           low == LowStartOf(t, n)
           lowEnd == LowEndOf(t, n)
           high == HighStartOf(t, n)
           highEnd == HighEndOf(t, n)
<1>1. /\ NumBlocks \in Nat \ {0} /\ t \in 0 .. NumBlocks - 1 /\ t + 1 \in 0 .. NumBlocks
      /\ HighBlock(t) \in 0 .. NumBlocks - 1 /\ HighBlock(t) + 1 \in 0 .. NumBlocks
      /\ t \in 0 .. NumBlocks /\ HighBlock(t) \in 0 .. NumBlocks
      /\ NumBlocks \in 0 .. NumBlocks /\ t + 1 <= HighBlock(t)
      /\ NumBlocks - (t + 1) = HighBlock(t) /\ NumBlocks - t = HighBlock(t) + 1
  BY Blocks DEF HighBlock
<1>2. DPL \in Nat \ {0} /\ n + DPL - 1 \in Nat
  BY LineAssumption
<1>3. q \in Nat /\ lines \in Nat \ {0}
  BY <1>2, Quotient, LinesOfDigits
<1>4. low \in Nat /\ lowEnd \in Nat /\ high \in Nat /\ highEnd \in Nat
  BY <1>1, <1>3, BoundsAscend DEF LowStartOf, LowEndOf, HighStartOf, HighEndOf
<1>5. q <= lines /\ lines <= q + 1
  <2>2. /\ q * DPL <= n /\ n < q * DPL + DPL
        /\ lines * DPL <= n + DPL - 1 /\ n + DPL - 1 < lines * DPL + DPL
    BY <1>2, Quotient DEF DivCeil
  <2>3. /\ (lines + 1) * DPL = lines * DPL + DPL /\ (q + 2) * DPL = q * DPL + DPL + DPL
        /\ lines * DPL \in Nat /\ q * DPL \in Nat
    BY <1>2, <1>3
  <2> HIDE DEF q, lines
  <2>4. q * DPL < (lines + 1) * DPL /\ lines * DPL < (q + 2) * DPL
    BY <1>2, <2>2, <2>3
  <2>5. q < lines + 1 /\ lines < q + 2
    BY <1>2, <1>3, <2>4, Cancel
  <2>6. QED BY <1>3, <2>5
<1>6. s \in Nat
  BY <1>3, <1>1, Quotient
<1> HIDE DEF q, lines
<1>7. low <= lowEnd /\ high <= highEnd /\ lowEnd <= high /\ highEnd <= lines
  <2>1. /\ \A k, m \in 0 .. NumBlocks :
             k <= m => BlockBounds(lines)[k] <= BlockBounds(lines)[m]
        /\ BlockBounds(lines)[NumBlocks] = lines
    BY <1>3, BoundsAscend
  <2>2. t <= t + 1 /\ HighBlock(t) <= HighBlock(t) + 1 /\ HighBlock(t) + 1 <= NumBlocks
    BY <1>1
  <2>3. QED BY <1>1, <2>1, <2>2 DEF LowStartOf, LowEndOf, HighStartOf, HighEndOf, lines
<1>8. lowEnd <= low + s + 1 /\ highEnd <= high + s + 1
  BY <1>3, <1>1, BlockSize DEF LowStartOf, LowEndOf, HighStartOf, HighEndOf, lines
<1>9. lowEnd + high \in {lines - 1, lines} /\ low + highEnd \in {lines - 1, lines}
  <2>1. /\ BlockBounds(lines)[t] + BlockBounds(lines)[NumBlocks - t]
             \in {lines - 1, lines}
        /\ BlockBounds(lines)[t + 1] + BlockBounds(lines)[NumBlocks - (t + 1)]
             \in {lines - 1, lines}
    BY <1>3, <1>1, BoundsMirror
  <2>2. QED BY <1>1, <2>1 DEF LowStartOf, LowEndOf, HighStartOf, HighEndOf, lines
<1>10. ASSUME low = lowEnd PROVE s = 0
  <2> DEFINE B == NumBlocks
             a == (t * lines) \div B
             c == ((t + 1) * lines) \div B
  <2>1. low = a /\ lowEnd = c
    BY <1>1 DEF LowStartOf, LowEndOf, BlockBounds, lines
  <2>2. /\ t * lines \in Nat /\ (t + 1) * lines \in Nat
        /\ (t + 1) * lines = t * lines + lines
    BY <1>3, <1>1
  <2>3. a \in Nat /\ a * B <= t * lines /\ t * lines + lines < c * B + B
    BY <1>1, <2>2, Quotient
  <2>4. a = c
    BY <1>10, <2>1
  <2> HIDE DEF a, c
  <2>5. lines < B
    BY <1>3, <1>1, <2>2, <2>3, <2>4
  <2>6. s * B <= lines
    BY <1>3, <1>1, Quotient
  <2>7. ASSUME s >= 1 PROVE FALSE
    <3>1. s * B >= B
      BY <1>1, <1>6, <2>7
    <3>2. s * B \in Nat
      BY <1>1, <1>6
    <3>3. QED BY <1>3, <1>1, <2>5, <2>6, <3>1, <3>2
  <2>8. QED BY <1>6, <2>7
<1>11. QED BY <1>3, <1>4, <1>5, <1>6, <1>7, <1>8, <1>9, <1>10 DEF q, lines

LEMMA ChunkGrid ==
  ASSUME NEW x \in Nat, NEW limit \in Nat, x < limit
  PROVE  LET n == ChunkEnd(x, limit)
         IN  /\ n \in Nat /\ x < n /\ n <= limit /\ n - x <= CHUNK_LINES
             /\ n < limit => n = (n \div CHUNK_LINES) * CHUNK_LINES
             /\ x \div CHUNK_LINES + 1 <= DivCeil(n, CHUNK_LINES)
             /\ x = (x \div CHUNK_LINES) * CHUNK_LINES =>
                  DivCeil(x, CHUNK_LINES) = x \div CHUNK_LINES
<1> DEFINE n == ChunkEnd(x, limit)
           C == CHUNK_LINES
           k == x \div C
           d == DivCeil(n, C)
<1>1. /\ C \in Nat \ {0} /\ n \in Nat /\ x < n /\ n <= limit
  BY ChunkEndWithin, LineAssumption
<1>2. k \in Nat /\ k * C <= x /\ x < k * C + C
  BY <1>1, Quotient
<1>3. (k + 1) * C = k * C + C /\ k * C \in Nat
  BY <1>1, <1>2
<1>4. n = MinOf((k + 1) * C, limit)
  BY DEF ChunkEnd
<1>5. n - x <= C
  <2> HIDE DEF n, k, C
  <2>1. QED BY <1>1, <1>2, <1>3, <1>4 DEF MinOf
<1>6. ASSUME n < limit PROVE n = (n \div C) * C
  <2>1. n = (k + 1) * C
    BY <1>1, <1>3, <1>4, <1>6 DEF MinOf
  <2>2. ((k + 1) * C) \div C = k + 1
    BY <1>1, <1>2
  <2> HIDE DEF n, k, C
  <2>3. QED BY <2>1, <2>2
<1>7. k + 1 <= d
  <2>1. n + C - 1 \in Nat
    BY <1>1
  <2>2. d \in Nat /\ n + C - 1 < d * C + C
    BY <1>1, <2>1, Quotient DEF DivCeil
  <2> HIDE DEF n, k, C, d
  <2>3. (d + 1) * C = d * C + C /\ d * C \in Nat
    BY <1>1, <2>2
  <2>4. (k + 1) * C < (d + 1) * C
    BY <1>1, <1>2, <1>3, <2>2, <2>3
  <2>5. k + 1 < d + 1
    BY <1>1, <1>2, <2>2, <2>4, Cancel
  <2>6. QED BY <1>2, <2>2, <2>5
<1>8. ASSUME x = k * C PROVE DivCeil(x, C) = k
  <2>1. x + C - 1 \in Nat
    BY <1>1
  <2> DEFINE e == (x + C - 1) \div C
  <2>2. e \in Nat /\ e * C <= x + C - 1 /\ x + C - 1 < e * C + C
    BY <1>1, <2>1, Quotient
  <2>3. DivCeil(x, C) = e
    BY DEF DivCeil
  <2> HIDE DEF k, C, e
  <2>4. (e + 1) * C = e * C + C /\ e * C \in Nat
    BY <1>1, <2>2
  <2>5. e * C < (k + 1) * C /\ k * C < (e + 1) * C
    BY <1>1, <1>2, <1>3, <1>8, <2>2, <2>4
  <2>6. e < k + 1 /\ k < e + 1
    BY <1>1, <1>2, <2>2, <2>5, Cancel
  <2>7. QED BY <1>2, <2>2, <2>3, <2>6
<1>9. QED BY <1>1, <1>5, <1>6, <1>7, <1>8


(* The two chunks of a round that starts at v, and its two intervals. *)
LEMMA RoundShape ==
  ASSUME NEW n \in Nat \ {0}, NEW t \in Thread, NEW v,
         v.low \in Nat, v.high \in Nat, v.low <= LowEndOf(t, n), HighStartOf(t, n) <= v.high
  PROVE  LET r == RoundFrom(t, v, n)
             q == n \div DPL
         IN  /\ r.lo = <<v.low, IF v.low < LowEndOf(t, n)
                                THEN ChunkEnd(v.low, LowEndOf(t, n)) ELSE v.low>>
             /\ r.lo[2] \in Nat /\ v.low <= r.lo[2] /\ r.lo[2] <= LowEndOf(t, n)
             /\ v.low < LowEndOf(t, n) <=> v.low < r.lo[2]
             /\ r.lo[2] - v.low <= CHUNK_LINES
             /\ r.hi = <<r.hi[1], v.high>>
             /\ r.hi[1] \in Nat /\ HighStartOf(t, n) <= r.hi[1] /\ r.hi[1] <= v.high
             /\ v.low < LowEndOf(t, n) /\ HighStartOf(t, n) < v.high =>
                  r.hi[1] = MinOf(MaxOf(q - r.lo[2], HighStartOf(t, n)), v.high)
             /\ v.low >= LowEndOf(t, n) /\ HighStartOf(t, n) < v.high => r.hi[1] < v.high
             /\ r.rLo = IntervalUnion(r.lo, BackwardOf(r.hi, q, DivCeil(n, DPL)))
             /\ r.rHi = IntervalUnion(r.hi, BackwardOf(r.lo, q, DivCeil(n, DPL)))
<1> DEFINE q == n \div DPL
           lowEnd == LowEndOf(t, n)
           highStart == HighStartOf(t, n)
           part == LowPart(v.low, lowEnd)
           y == IF v.low < lowEnd THEN ChunkEnd(v.low, lowEnd) ELSE v.low
           g == ((v.high - 1) \div CHUNK_LINES) * CHUNK_LINES
           x == IF v.high > highStart THEN HighBase(part, v.high, highStart, q) ELSE v.high
           r == RoundFrom(t, v, n)
<1>1. lowEnd \in Nat /\ highStart \in Nat /\ q \in Nat /\ CHUNK_LINES \in Nat \ {0}
  BY BlocksOfThread, LineAssumption, SMTT(60)
<1>2. /\ r.lo = part /\ part = <<v.low, y>>
      /\ r.hi = IF v.high > highStart
                THEN <<HighBase(part, v.high, highStart, q), v.high>>
                ELSE <<v.high, v.high>>
      /\ r.rLo = IntervalUnion(r.lo, BackwardOf(r.hi, q, DivCeil(n, DPL)))
      /\ r.rHi = IntervalUnion(r.hi, BackwardOf(r.lo, q, DivCeil(n, DPL)))
  BY DEF RoundFrom, RoundAt, LowPart, LowEndOf, HighStartOf
<1>3. /\ y \in Nat /\ v.low <= y /\ y <= lowEnd /\ y - v.low <= CHUNK_LINES
      /\ v.low < lowEnd <=> v.low < y
  <2>1. CASE v.low < lowEnd
    BY <1>1, <2>1, ChunkGrid
  <2>2. CASE ~(v.low < lowEnd)
    BY <1>1, <2>2
  <2>3. QED BY <2>1, <2>2
<1>4. ASSUME v.high > highStart PROVE g \in Nat /\ g < v.high
  <2>1. v.high - 1 \in Nat
    BY <1>1, <1>4
  <2>2. (v.high - 1) \div CHUNK_LINES \in Nat /\ g <= v.high - 1
    BY <1>1, <2>1, Quotient
  <2>3. g \in Nat
    BY <1>1, <2>2
  <2>4. QED BY <1>1, <2>2, <2>3
<1>5. IsEmpty(part) <=> ~(v.low < lowEnd)
  BY <1>1, <1>2, <1>3 DEF IsEmpty
<1>6. HighBase(part, v.high, highStart, q)
        = IF v.low < lowEnd THEN MinOf(MaxOf(q - y, highStart), v.high) ELSE MaxOf(g, highStart)
  <2>1. part[2] = y
    BY <1>2
  <2>2. QED BY <1>5, <2>1 DEF HighBase
<1> HIDE DEF y, g, part, r, q, lowEnd, highStart
<1>7. /\ x \in Nat /\ highStart <= x /\ x <= v.high
      /\ v.low < lowEnd /\ highStart < v.high => x = MinOf(MaxOf(q - y, highStart), v.high)
      /\ v.low >= lowEnd /\ highStart < v.high => x < v.high
  <2>1. CASE v.high > highStart /\ v.low < lowEnd
    BY <1>1, <1>3, <1>6, <2>1 DEF MinOf, MaxOf
  <2>2. CASE v.high > highStart /\ ~(v.low < lowEnd)
    BY <1>1, <1>4, <1>6, <2>2 DEF MaxOf
  <2>3. CASE ~(v.high > highStart)
    BY <1>1, <2>3 DEF highStart
  <2>4. QED BY <2>1, <2>2, <2>3
<1> HIDE DEF x
<1>8. r.hi = <<x, v.high>>
  BY <1>2 DEF x
<1>9. r.lo = <<v.low, y>>
  BY <1>2
<1>10. r.lo[2] = y /\ r.hi[1] = x
  BY <1>8, <1>9
<1>11. QED BY <1>2, <1>3, <1>7, <1>8, <1>9, <1>10 DEF y, r, q, lowEnd, highStart

(* Where a walk can be: within its blocks, and such that the high chunks   *)
(* left to do face the low ones.  Each low chunk brings at most one high   *)
(* chunk, and at most one is left when they are done: by then the low      *)
(* chunks lie on the line grid.                                            *)
OnWalk(t, n, v) ==
  /\ v.low \in Nat /\ v.high \in Nat /\ v.ord \in Nat
  /\ LowStartOf(t, n) <= v.low /\ v.low <= LowEndOf(t, n)
  /\ HighStartOf(t, n) <= v.high /\ v.high <= HighEndOf(t, n)
  /\ \/ v.low = LowStartOf(t, n) /\ v.ord = 0 /\ v.high = HighEndOf(t, n)
     \/ /\ LowStartOf(t, n) < v.low
        /\ v.ord <= DivCeil(v.low, CHUNK_LINES) - LowStartOf(t, n) \div CHUNK_LINES
        /\ v.high <= HighStartOf(t, n) \/ v.low + v.high <= n \div DPL
        /\ v.low < LowEndOf(t, n) => v.low = (v.low \div CHUNK_LINES) * CHUNK_LINES
     \/ v.low = LowEndOf(t, n) /\ v.high <= HighStartOf(t, n)

WalkBegin(t, n) == [low |-> LowStartOf(t, n), high |-> HighEndOf(t, n), ord |-> 0]

LEMMA WalkBegins ==
  ASSUME NEW n \in Nat \ {0}, NEW t \in Thread
  PROVE  OnWalk(t, n, WalkBegin(t, n))
BY BlocksOfThread DEF OnWalk, WalkBegin

(* A round leaves the walk where it can be, and gets ahead. *)
LEMMA WalkRound ==
  ASSUME NEW n \in Nat \ {0}, NEW t \in Thread, NEW v, OnWalk(t, n, v),
         v.low < LowEndOf(t, n) \/ HighStartOf(t, n) < v.high
  PROVE  LET u == NextRound(t, v, n)
         IN  /\ OnWalk(t, n, u)
             /\ v.low <= u.low /\ u.high <= v.high
             /\ v.low < u.low \/ u.high < v.high
<1> DEFINE u == NextRound(t, v, n)
           r == RoundFrom(t, v, n)
           q == n \div DPL
           C == CHUNK_LINES
           ls == LowStartOf(t, n)
           le == LowEndOf(t, n)
           hs == HighStartOf(t, n)
           he == HighEndOf(t, n)
           e == ls \div C
           d == DivCeil(u.low, C)
<1>1. /\ v.low \in Nat /\ v.high \in Nat /\ C \in Nat \ {0} /\ v.ord \in Nat
      /\ ls \in Nat /\ le \in Nat /\ hs \in Nat /\ he \in Nat
      /\ q \in Nat /\ e \in Nat
      /\ ls <= v.low /\ v.low <= le /\ hs <= v.high /\ v.high <= he
  BY BlocksOfThread, LineAssumption, Quotient DEF OnWalk
<1>2. /\ u.low = r.lo[2] /\ u.high = r.hi[1]
      /\ u.ord = v.ord + Bit(~IsEmpty(r.hi))
  BY DEF NextRound, After
<1>3. u.ord \in Nat /\ u.ord <= v.ord + 1
  BY <1>1, <1>2 DEF Bit
<1>4. /\ u.low \in Nat /\ v.low <= u.low /\ u.low <= le
      /\ v.low < le => v.low < u.low /\ u.low = ChunkEnd(v.low, le)
      /\ v.low >= le => u.low = v.low
      /\ u.high \in Nat /\ hs <= u.high /\ u.high <= v.high
      /\ v.low < le /\ hs < v.high => u.high = MinOf(MaxOf(q - u.low, hs), v.high)
      /\ v.low >= le /\ hs < v.high => u.high < v.high
  <2>1. /\ r.lo = <<v.low, IF v.low < le THEN ChunkEnd(v.low, le) ELSE v.low>>
        /\ r.lo[2] \in Nat /\ v.low <= r.lo[2] /\ r.lo[2] <= le
        /\ v.low < le <=> v.low < r.lo[2]
        /\ r.hi[1] \in Nat /\ hs <= r.hi[1] /\ r.hi[1] <= v.high
        /\ v.low < le /\ hs < v.high => r.hi[1] = MinOf(MaxOf(q - r.lo[2], hs), v.high)
        /\ v.low >= le /\ hs < v.high => r.hi[1] < v.high
    BY <1>1, RoundShape
  <2> HIDE DEF r, u, q, ls, le, hs, he
  <2>2. QED BY <1>1, <1>2, <2>1
<1>5. v.low < u.low \/ u.high < v.high
  BY <1>1, <1>4
<1>6. CASE v.low < le
  <2>1. /\ u.low < le => u.low = (u.low \div C) * C
        /\ v.low \div C + 1 <= d
        /\ v.low = (v.low \div C) * C => DivCeil(v.low, C) = v.low \div C
    <3> DEFINE y == ChunkEnd(v.low, le)
    <3>1. /\ y < le => y = (y \div C) * C
          /\ v.low \div C + 1 <= DivCeil(y, C)
          /\ v.low = (v.low \div C) * C => DivCeil(v.low, C) = v.low \div C
      BY <1>1, <1>6, ChunkGrid
    <3>2. u.low = y
      BY <1>4, <1>6
    <3> HIDE DEF y, u, le
    <3>3. QED BY <3>1, <3>2
  <2>2. v.low \div C \in Nat /\ d \in Nat /\ e <= v.low \div C
    <3>1. u.low + C - 1 \in Nat
      BY <1>1, <1>4
    <3>2. QED BY <1>1, <1>4, <3>1, Quotient, QuotientMonotone DEF DivCeil
  <2> HIDE DEF u, d, C, q, ls, le, hs, he, e
  <2>3. u.high <= hs \/ u.low + u.high <= q
    BY <1>1, <1>4, <1>6 DEF MinOf, MaxOf
  <2>4. u.ord <= d - e
    <3>1. CASE v.low = ls /\ v.ord = 0
      BY <1>1, <1>3, <2>1, <2>2, <3>1
    <3>2. CASE v.ord <= DivCeil(v.low, C) - e /\ v.low = (v.low \div C) * C
      BY <1>1, <1>3, <2>1, <2>2, <3>2
    <3>3. QED BY <1>1, <1>6, <3>1, <3>2 DEF OnWalk, C, e, ls, le
  <2>5. ls < u.low
    BY <1>1, <1>4, <1>6
  <2>6. u.high <= he
    BY <1>1, <1>4
  <2>7. QED BY <1>3, <1>4, <1>5, <1>1, <2>1, <2>3, <2>4, <2>5, <2>6
           DEF OnWalk, u, d, C, q, ls, le, hs, he, e
<1>7. CASE ~(v.low < le)
  <2>1. /\ le + hs \in {DivCeil(n, DPL) - 1, DivCeil(n, DPL)} /\ q <= DivCeil(n, DPL)
        /\ DivCeil(n, DPL) <= q + 1 /\ DivCeil(n, DPL) \in Nat
        /\ ls = le => DivCeil(n, DPL) \div NumBlocks = 0
        /\ he <= hs + DivCeil(n, DPL) \div NumBlocks + 1
    BY BlocksOfThread
  <2>2. hs < v.high
    BY <1>7
  <2>3. v.high <= hs + 1
    <3>1. CASE v.low = ls
      BY <1>1, <1>7, <2>1, <3>1
    <3>2. CASE v.low + v.high <= q
      BY <1>1, <1>7, <2>1, <3>2
    <3>3. v.low = ls \/ v.low + v.high <= q
      BY <1>1, <2>2 DEF OnWalk
    <3>4. QED BY <3>1, <3>2, <3>3
  <2> HIDE DEF u, d, C, q, ls, le, hs, he, e
  <2>4. u.low = le /\ u.high <= hs /\ u.high <= he
    BY <1>1, <1>4, <1>7, <2>2, <2>3
  <2>5. QED BY <1>1, <1>3, <1>4, <1>5, <2>4 DEF OnWalk, u, d, C, q, ls, le, hs, he, e
<1>8. QED BY <1>6, <1>7

(* Every high chunk has a carry slot. *)
LEMMA SlotLeft ==
  ASSUME NEW n \in Nat \ {0}, NEW t \in Thread, NEW v, OnWalk(t, n, v),
         ~IsEmpty(RoundFrom(t, v, n).hi)
  PROVE  v.ord < FusedHiStride(DivCeil(n, DPL))
<1> DEFINE C == CHUNK_LINES
           s == DivCeil(n, DPL) \div NumBlocks
           ls == LowStartOf(t, n)
           e == ls \div C
           f == s \div C
           d == DivCeil(v.low, C)
<1>1. /\ C \in Nat \ {0} /\ s \in Nat /\ v.low \in Nat /\ v.low <= LowEndOf(t, n)
      /\ LowEndOf(t, n) <= ls + s + 1 /\ ls \in Nat /\ LowEndOf(t, n) \in Nat
      /\ v.low + C - 1 \in Nat /\ v.ord \in Nat
  BY BlocksOfThread, LineAssumption DEF OnWalk
<1>2. /\ e \in Nat /\ f \in Nat /\ d \in Nat
      /\ ls < e * C + C /\ s < f * C + C /\ d * C <= v.low + C - 1
  BY <1>1, Quotient DEF DivCeil
<1>3. FusedHiStride(DivCeil(n, DPL)) = f + 3
  BY DEF FusedHiStride
<1>4. HighStartOf(t, n) < v.high
  <2>1. LET r == RoundFrom(t, v, n)
        IN  /\ r.hi = <<r.hi[1], v.high>> /\ r.hi[1] \in Nat /\ r.hi[1] <= v.high
            /\ HighStartOf(t, n) <= r.hi[1] /\ v.high \in Nat /\ HighStartOf(t, n) \in Nat
    BY RoundShape, BlocksOfThread, SMTT(60) DEF OnWalk
  <2>2. RoundFrom(t, v, n).hi[2] = v.high
    BY <2>1
  <2>3. QED BY <2>1, <2>2 DEF IsEmpty
<1>5. v.ord = 0 \/ v.ord <= d - e
  BY <1>1, <1>4, BlocksOfThread DEF OnWalk
<1> HIDE DEF C, s, e, f, d, ls
<1>6. CASE v.ord = 0
  BY <1>2, <1>3, <1>6
<1>7. CASE v.ord <= d - e
  <2>1. /\ (e + f + 3) * C = e * C + f * C + C + C + C
        /\ e * C \in Nat /\ f * C \in Nat /\ d * C \in Nat
    BY <1>1, <1>2
  <2>2. d * C < (e + f + 3) * C
    BY <1>1, <1>2, <2>1
  <2>3. d < e + f + 3
    BY <1>1, <1>2, <2>2, Cancel
  <2>4. QED BY <1>1, <1>2, <1>3, <1>7, <2>3
<1>8. QED BY <1>5, <1>6, <1>7

-----------------------------------------------------------------------------
(* The rounds of a thread *)

(* The walk as RoundsOf computes it, with the end of each round. *)
WalkOf(t, n) ==
  CHOOSE w : w = [k \in 0 .. DivCeil(n, DPL) |->
                    IF k = 0 THEN WalkBegin(t, n) ELSE NextRound(t, w[k - 1], n)]

(* Such a function exists: it is defined round by round. *)
LEMMA WalkEquation ==
  ASSUME NEW n \in Nat \ {0}, NEW t \in Thread
  PROVE  WalkOf(t, n) = [k \in 0 .. DivCeil(n, DPL) |->
           IF k = 0 THEN WalkBegin(t, n) ELSE NextRound(t, WalkOf(t, n)[k - 1], n)]
<1> DEFINE P(m) == \E w : w = [k \in 0 .. m |->
                     IF k = 0 THEN WalkBegin(t, n) ELSE NextRound(t, w[k - 1], n)]
           Missing == {m \in Nat : ~P(m)}
<1>1. P(0)
  <2> DEFINE w == [k \in 0 .. 0 |-> WalkBegin(t, n)]
  <2>1. w = [k \in 0 .. 0 |->
               IF k = 0 THEN WalkBegin(t, n) ELSE NextRound(t, w[k - 1], n)]
    <3>1. \A k \in 0 .. 0 : k = 0
      OBVIOUS
    <3>2. QED BY <3>1, Zenon
  <2>2. QED BY <2>1
<1>2. ASSUME NEW m \in Nat, P(m) PROVE P(m + 1)
  <2>1. PICK w : w = [k \in 0 .. m |->
                  IF k = 0 THEN WalkBegin(t, n) ELSE NextRound(t, w[k - 1], n)]
    BY <1>2
  <2> DEFINE u == [k \in 0 .. m + 1 |->
                     IF k = m + 1 THEN NextRound(t, w[m], n) ELSE w[k]]
  <2>2. ASSUME NEW k \in 0 .. m + 1
        PROVE  u[k] = IF k = 0 THEN WalkBegin(t, n) ELSE NextRound(t, u[k - 1], n)
    <3>1. CASE k = m + 1
      <4>1. k # 0 /\ k - 1 = m /\ m \in 0 .. m + 1 /\ m # m + 1
        BY <3>1
      <4>2. u[k] = NextRound(t, w[m], n) /\ u[k - 1] = w[m]
        BY <3>1, <4>1
      <4>3. QED BY <4>1, <4>2
    <3>2. CASE k = 0
      <4>1. 0 \in 0 .. m /\ 0 # m + 1
        OBVIOUS
      <4>2. w[0] = WalkBegin(t, n)
        BY <2>1, <4>1
      <4>3. QED BY <3>2, <4>1, <4>2
    <3>3. CASE k # 0 /\ k # m + 1
      <4>1. k \in 0 .. m /\ k - 1 \in 0 .. m + 1 /\ k - 1 # m + 1
        BY <3>3
      <4>2. u[k] = w[k] /\ u[k - 1] = w[k - 1]
        BY <3>3, <4>1
      <4>3. w[k] = NextRound(t, w[k - 1], n)
        BY <2>1, <3>3, <4>1
      <4>4. QED BY <3>3, <4>2, <4>3
    <3>4. QED BY <3>1, <3>2, <3>3
  <2>3. u = [k \in 0 .. m + 1 |-> u[k]]
    OBVIOUS
  <2> HIDE DEF u
  <2>4. u = [k \in 0 .. m + 1 |->
               IF k = 0 THEN WalkBegin(t, n) ELSE NextRound(t, u[k - 1], n)]
    BY <2>2, <2>3, Zenon
  <2>5. QED BY <2>4
<1> HIDE DEF P
<1>3. Missing = {}
  <2> SUFFICES ASSUME Missing # {} PROVE FALSE
    OBVIOUS
  <2>1. PICK m \in Missing : \A k \in Missing : m <= k
    <3>1. Missing \in SUBSET Nat
      OBVIOUS
    <3>2. QED BY <3>1, LeastElement
  <2>2. m # 0
    BY <1>1
  <2>3. m - 1 \in Nat /\ m - 1 + 1 = m /\ ~(m <= m - 1)
    BY <2>2
  <2>4. P(m - 1)
    BY <2>1, <2>3
  <2>5. P(m)
    BY <1>2, <2>3, <2>4
  <2>6. QED BY <2>5
<1>4. P(DivCeil(n, DPL))
  BY <1>3, BlocksOfThread
<1>5. QED BY <1>4, Zenon DEF P, WalkOf

LEMMA WalkSteps ==
  ASSUME NEW n \in Nat \ {0}, NEW t \in Thread
  PROVE  /\ DOMAIN WalkOf(t, n) = 0 .. DivCeil(n, DPL)
         /\ WalkOf(t, n)[0] = WalkBegin(t, n)
         /\ \A k \in 0 .. DivCeil(n, DPL) - 1 :
              WalkOf(t, n)[k + 1] = NextRound(t, WalkOf(t, n)[k], n)
<1> DEFINE w == WalkOf(t, n)
           Q == DivCeil(n, DPL)
<1>1. Q \in Nat \ {0}
  BY BlocksOfThread
<1>2. w = [k \in 0 .. Q |-> IF k = 0 THEN WalkBegin(t, n) ELSE NextRound(t, w[k - 1], n)]
  BY WalkEquation
<1> HIDE DEF w, Q
<1>3. /\ DOMAIN w = 0 .. Q
      /\ \A k \in 0 .. Q :
           w[k] = IF k = 0 THEN WalkBegin(t, n) ELSE NextRound(t, w[k - 1], n)
  <2> DEFINE u == [k \in 0 .. Q |-> IF k = 0 THEN WalkBegin(t, n) ELSE NextRound(t, w[k - 1], n)]
  <2>1. /\ DOMAIN u = 0 .. Q
        /\ \A k \in 0 .. Q :
             u[k] = IF k = 0 THEN WalkBegin(t, n) ELSE NextRound(t, w[k - 1], n)
    OBVIOUS
  <2>2. w = u
    BY <1>2
  <2> HIDE DEF u
  <2>3. QED BY <2>1, <2>2
<1>4. w[0] = WalkBegin(t, n)
  <2>1. 0 \in 0 .. Q
    BY <1>1
  <2>2. QED BY <1>3, <2>1
<1>5. ASSUME NEW k \in 0 .. Q - 1 PROVE w[k + 1] = NextRound(t, w[k], n)
  <2>1. k + 1 \in 0 .. Q /\ k + 1 # 0 /\ k + 1 - 1 = k
    BY <1>1
  <2>2. w[k + 1] = NextRound(t, w[k + 1 - 1], n)
    BY <1>3, <2>1
  <2>3. QED BY <2>1, <2>2
<1>6. QED BY <1>3, <1>4, <1>5 DEF w, Q

(* What is left of the blocks after k rounds: each takes a line at least,  *)
(* so that no walk is longer than the number.                              *)
LEMMA WalkStates ==
  ASSUME NEW n \in Nat \ {0}, NEW t \in Thread, NEW k \in 0 .. DivCeil(n, DPL)
  PROVE  LET v == WalkOf(t, n)[k]
         IN  /\ OnWalk(t, n, v)
             /\ (LowEndOf(t, n) - v.low) + (v.high - HighStartOf(t, n)) <= DivCeil(n, DPL) - k
<1> DEFINE w == WalkOf(t, n)
           Q == DivCeil(n, DPL)
           le == LowEndOf(t, n)
           hs == HighStartOf(t, n)
           P(m) == OnWalk(t, n, w[m]) /\ (le - w[m].low) + (w[m].high - hs) <= Q - m
           Wrong == {m \in 0 .. Q : ~P(m)}
<1>1. /\ Q \in Nat \ {0} /\ le \in Nat /\ hs \in Nat /\ LowStartOf(t, n) \in Nat
      /\ HighEndOf(t, n) \in Nat
      /\ le <= hs /\ HighEndOf(t, n) <= Q /\ LowStartOf(t, n) <= le
      /\ hs <= HighEndOf(t, n)
  BY BlocksOfThread
<1>2. /\ w[0] = WalkBegin(t, n)
      /\ \A m \in 0 .. Q - 1 : w[m + 1] = NextRound(t, w[m], n)
  BY WalkSteps
<1> HIDE DEF w, Q, le, hs
<1>3. P(0)
  <2>1. OnWalk(t, n, w[0])
    BY <1>2, WalkBegins
  <2>2. w[0].low = LowStartOf(t, n) /\ w[0].high = HighEndOf(t, n)
    BY <1>2 DEF WalkBegin
  <2>3. QED BY <1>1, <2>1, <2>2
<1>4. ASSUME NEW m \in 0 .. Q - 1, P(m) PROVE P(m + 1)
  <2> DEFINE v == w[m]
             u == w[m + 1]
  <2>1. u = NextRound(t, v, n)
    BY <1>2
  <2>2. /\ v.low \in Nat /\ v.high \in Nat /\ v.low <= le /\ hs <= v.high /\ m \in Nat
    BY <1>1, <1>4 DEF OnWalk, le, hs
  <2>3. CASE v.low < le \/ hs < v.high
    <3>1. /\ OnWalk(t, n, u) /\ v.low <= u.low /\ u.high <= v.high
          /\ v.low < u.low \/ u.high < v.high
      BY <1>4, <2>1, <2>3, WalkRound DEF le, hs
    <3>2. u.low \in Nat /\ u.high \in Nat
      BY <3>1 DEF OnWalk
    <3> HIDE DEF u, v
    <3>3. (le - u.low) + (u.high - hs) <= Q - (m + 1)
      BY <1>1, <1>4, <2>2, <3>1, <3>2 DEF v
    <3>4. QED BY <3>1, <3>3 DEF u
  <2>4. CASE ~(v.low < le \/ hs < v.high)
    <3>1. v.low = le /\ v.high = hs
      BY <1>1, <2>2, <2>4
    <3>2. LET r == RoundFrom(t, v, n)
          IN  /\ r.lo[2] \in Nat /\ v.low <= r.lo[2] /\ r.lo[2] <= le
              /\ r.hi = <<r.hi[1], v.high>>
              /\ r.hi[1] \in Nat /\ hs <= r.hi[1] /\ r.hi[1] <= v.high
      BY <1>1, <2>2, RoundShape DEF le, hs
    <3>3. LET r == RoundFrom(t, v, n)
          IN  r.lo[2] = le /\ r.hi[1] = hs /\ IsEmpty(r.hi)
      <4>1. RoundFrom(t, v, n).hi[2] = v.high
        BY <3>2
      <4>2. QED BY <1>1, <3>1, <3>2, <4>1 DEF IsEmpty
    <3>4. u.low = le /\ u.high = hs /\ u.ord = v.ord
      <4>1. v.ord \in Nat
        BY <1>4 DEF OnWalk
      <4>2. QED BY <2>1, <3>3, <4>1 DEF NextRound, After, Bit
    <3>5. OnWalk(t, n, u)
      BY <1>1, <1>4, <3>1, <3>4 DEF OnWalk, le, hs
    <3>6. QED BY <1>1, <2>2, <3>4, <3>5
  <2>5. QED BY <2>3, <2>4
<1> HIDE DEF P
<1>5. Wrong = {}
  <2> SUFFICES ASSUME Wrong # {} PROVE FALSE
    OBVIOUS
  <2>1. PICK m \in Wrong : \A j \in Wrong : m <= j
    <3>1. Wrong \in SUBSET Nat
      BY <1>1
    <3>2. QED BY <3>1, LeastElement
  <2>2. m \in 0 .. Q /\ m # 0
    BY <1>3
  <2>3. m - 1 \in 0 .. Q - 1 /\ m - 1 \in 0 .. Q /\ m - 1 + 1 = m /\ ~(m <= m - 1)
    BY <1>1, <2>2
  <2>4. P(m - 1)
    BY <2>1, <2>3
  <2>5. P(m)
    BY <1>4, <2>3, <2>4
  <2>6. QED BY <2>5
<1>6. P(k)
  BY <1>5 DEF Q
<1>7. QED BY <1>6 DEF P, w, Q, le, hs

(* The rounds are the states of the walk that are not its end. *)
LEMMA RoundsAre ==
  ASSUME NEW n \in Nat \ {0}, NEW t \in Thread
  PROVE  LET w == WalkOf(t, n)
             R == RoundsOf(t, n)
         IN  /\ \A k : k \in DOMAIN R <=>
                  /\ k \in 0 .. DivCeil(n, DPL) - 1
                  /\ w[k].low < LowEndOf(t, n) \/ HighStartOf(t, n) < w[k].high
             /\ \A k \in DOMAIN R : R[k].at = RoundFrom(t, w[k], n) /\ R[k].ord = w[k].ord
<1> DEFINE w == WalkOf(t, n)
           R == RoundsOf(t, n)
           Q == DivCeil(n, DPL)
           le == LowEndOf(t, n)
           hs == HighStartOf(t, n)
           D == {k \in DOMAIN w : ~Finished(t, w[k].low, w[k].high, BlockBounds(Q))}
<1>1. R = [k \in D |-> [at |-> RoundFrom(t, w[k], n), ord |-> w[k].ord]]
  BY DEF RoundsOf, WalkOf, WalkBegin, LowStartOf, HighEndOf
<1>2. DOMAIN w = 0 .. Q
  BY WalkSteps
<1>3. /\ Q \in Nat \ {0} /\ le \in Nat /\ hs \in Nat
  BY BlocksOfThread
<1>4. ASSUME NEW k \in 0 .. Q
      PROVE  Finished(t, w[k].low, w[k].high, BlockBounds(Q))
               <=> ~(w[k].low < le \/ hs < w[k].high)
  <2>1. w[k].low \in Nat /\ w[k].high \in Nat
    BY WalkStates DEF OnWalk
  <2> HIDE DEF w
  <2>2. Finished(t, w[k].low, w[k].high, BlockBounds(Q)) <=> w[k].low >= le /\ w[k].high <= hs
    BY DEF Finished, LowEndOf, HighStartOf
  <2> HIDE DEF le, hs
  <2>3. QED BY <1>3, <2>1, <2>2
<1>5. ~(w[Q].low < le \/ hs < w[Q].high)
  <2>1. Q \in 0 .. Q
    BY <1>3
  <2>2. /\ OnWalk(t, n, w[Q])
        /\ (le - w[Q].low) + (w[Q].high - hs) <= Q - Q
    BY <2>1, WalkStates
  <2>3. w[Q].low \in Nat /\ w[Q].high \in Nat /\ w[Q].low <= le /\ hs <= w[Q].high
    BY <2>2 DEF OnWalk
  <2> HIDE DEF w, Q, le, hs
  <2>4. QED BY <1>3, <2>2, <2>3
<1>6. DOMAIN R = D
  BY <1>1
<1>7. \A k : k \in D <=> k \in 0 .. Q - 1 /\ (w[k].low < le \/ hs < w[k].high)
  <2>1. \A k : k \in D <=> k \in 0 .. Q /\ (w[k].low < le \/ hs < w[k].high)
    BY <1>2, <1>4
  <2>2. \A k : k \in 0 .. Q <=> k \in 0 .. Q - 1 \/ k = Q
    BY <1>3
  <2> HIDE DEF D, w, Q, le, hs
  <2>3. QED BY <1>5, <2>1, <2>2
<1>8. \A k \in DOMAIN R : R[k].at = RoundFrom(t, w[k], n) /\ R[k].ord = w[k].ord
  <2> HIDE DEF w, D, R
  <2>1. QED BY <1>1, <1>6, SMTT(60)
<1>9. QED BY <1>6, <1>7, <1>8

(* One round: its chunks are what the walk goes through. *)
LEMMA RoundStep ==
  ASSUME NEW n \in Nat \ {0}, NEW t \in Thread, NEW k \in DOMAIN RoundsOf(t, n)
  PROVE  LET v == WalkOf(t, n)[k]
             u == WalkOf(t, n)[k + 1]
             r == RoundsOf(t, n)[k].at
             q == n \div DPL
             lines == DivCeil(n, DPL)
         IN  /\ k \in 0 .. lines - 1 /\ OnWalk(t, n, v) /\ OnWalk(t, n, u)
             /\ r = RoundFrom(t, v, n) /\ RoundsOf(t, n)[k].ord = v.ord
             /\ r.lo = <<v.low, u.low>> /\ v.low <= u.low
             /\ r.hi = <<u.high, v.high>> /\ u.high <= v.high
             /\ u.ord = v.ord + Bit(u.high < v.high)
             /\ v.low < LowEndOf(t, n) <=> v.low < u.low
             /\ v.low < LowEndOf(t, n) /\ HighStartOf(t, n) < v.high =>
                  u.high = MinOf(MaxOf(q - u.low, HighStartOf(t, n)), v.high)
             /\ r.rLo = IntervalUnion(r.lo, BackwardOf(r.hi, q, lines))
             /\ r.rHi = IntervalUnion(r.hi, BackwardOf(r.lo, q, lines))
<1> DEFINE v == WalkOf(t, n)[k]
           u == WalkOf(t, n)[k + 1]
           r == RoundsOf(t, n)[k].at
           q == n \div DPL
           lines == DivCeil(n, DPL)
<1>1. lines \in Nat \ {0} /\ HighStartOf(t, n) \in Nat /\ LowEndOf(t, n) \in Nat
  BY BlocksOfThread
<1>2. /\ k \in 0 .. lines - 1
      /\ r = RoundFrom(t, v, n) /\ RoundsOf(t, n)[k].ord = v.ord
  BY RoundsAre
<1>3. k \in 0 .. lines /\ k + 1 \in 0 .. lines
  BY <1>1, <1>2
<1>4. OnWalk(t, n, v) /\ OnWalk(t, n, u)
  BY <1>3, WalkStates
<1>5. u = NextRound(t, v, n)
  BY <1>2, WalkSteps
<1> HIDE DEF v, u, r
<1>6. u.low = r.lo[2] /\ u.high = r.hi[1] /\ u.ord = v.ord + Bit(~IsEmpty(r.hi))
  BY <1>2, <1>5 DEF NextRound, After
<1>7. /\ v.low \in Nat /\ v.high \in Nat /\ v.low <= LowEndOf(t, n)
      /\ HighStartOf(t, n) <= v.high /\ u.low \in Nat /\ u.high \in Nat
  BY <1>4 DEF OnWalk
<1>8. /\ r.lo = <<v.low, IF v.low < LowEndOf(t, n)
                         THEN ChunkEnd(v.low, LowEndOf(t, n)) ELSE v.low>>
      /\ r.lo[2] \in Nat /\ v.low <= r.lo[2]
      /\ v.low < LowEndOf(t, n) <=> v.low < r.lo[2]
      /\ r.hi = <<r.hi[1], v.high>> /\ r.hi[1] <= v.high
      /\ v.low < LowEndOf(t, n) /\ HighStartOf(t, n) < v.high =>
           r.hi[1] = MinOf(MaxOf(q - r.lo[2], HighStartOf(t, n)), v.high)
      /\ r.rLo = IntervalUnion(r.lo, BackwardOf(r.hi, q, lines))
      /\ r.rHi = IntervalUnion(r.hi, BackwardOf(r.lo, q, lines))
  BY <1>2, <1>7, RoundShape
<1>9. r.lo = <<v.low, u.low>> /\ r.hi = <<u.high, v.high>>
  BY <1>6, <1>8
<1>10. IsEmpty(r.hi) <=> ~(u.high < v.high)
  BY <1>7, <1>9 DEF IsEmpty
<1>11. u.ord = v.ord + Bit(u.high < v.high)
  BY <1>6, <1>10 DEF Bit
<1>12. QED BY <1>2, <1>4, <1>6, <1>8, <1>9, <1>11 DEF v, u, r

-----------------------------------------------------------------------------
(* The sums and the digits of a step, as the fused steps define them *)

LEMMA SumsOfIs ==
  ASSUME NEW x, NEW n \in Nat \ {0}, NEW lines \in Nat, n <= lines * DPL,
         \A d \in 0 .. n - 1 : x[d] \in Digit
  PROVE  LET s == SumsOf(x, n, lines)
         IN  /\ DOMAIN s = 0 .. lines * DPL - 1
             /\ \A d \in 0 .. n - 1 : s[d] = x[d] + x[n - 1 - d] /\ s[n - 1 - d] = s[d]
             /\ \A d \in DOMAIN s : s[d] \in 0 .. 18 /\ (d >= n => s[d] = 0)
<1> DEFINE s == SumsOf(x, n, lines)
           N == lines * DPL
<1>1. DPL \in Nat \ {0} /\ N \in Nat
  BY LineBase
<1>2. Slots(<<0, lines>>) = 0 .. N - 1
  BY <1>1 DEF Slots
<1> HIDE DEF N
<1>3. s = [d \in 0 .. N - 1 |-> IF d < n THEN x[d] + x[n - 1 - d] ELSE 0]
  BY <1>2 DEF SumsOf
<1> HIDE DEF s
<1>4. DOMAIN s = 0 .. N - 1
  BY <1>3
<1>5. ASSUME NEW d \in 0 .. n - 1
      PROVE  s[d] = x[d] + x[n - 1 - d] /\ s[n - 1 - d] = s[d] /\ s[d] \in 0 .. 18
  <2>1. /\ d \in 0 .. N - 1 /\ n - 1 - d \in 0 .. N - 1 /\ n - 1 - d \in 0 .. n - 1
        /\ n - 1 - (n - 1 - d) = d /\ d < n /\ n - 1 - d < n
    BY <1>1 DEF N
  <2>2. x[d] \in 0 .. 9 /\ x[n - 1 - d] \in 0 .. 9
    BY <2>1 DEF Digit
  <2>3. s[d] = x[d] + x[n - 1 - d] /\ s[n - 1 - d] = x[n - 1 - d] + x[n - 1 - (n - 1 - d)]
    BY <1>3, <2>1
  <2>4. QED BY <2>1, <2>2, <2>3
<1>6. ASSUME NEW d \in 0 .. N - 1
      PROVE  s[d] \in 0 .. 18 /\ (d >= n => s[d] = 0)
  <2>1. CASE d < n
    <3>1. d \in 0 .. n - 1
      BY <2>1
    <3>2. QED BY <1>5, <2>1, <3>1
  <2>2. CASE ~(d < n)
    BY <1>3, <2>2
  <2>3. QED BY <2>1, <2>2
<1>7. QED BY <1>4, <1>5, <1>6 DEF s, N

LEMMA DigitsOfIs ==
  ASSUME NEW s, NEW lines \in Nat, DOMAIN s = 0 .. lines * DPL - 1
  PROVE  /\ DOMAIN DigitsOf(s) = DOMAIN s
         /\ \A d \in DOMAIN s :
              DigitsOf(s)[d] = Resolved(s[d], CarryInto(s, 0, d, FALSE))
<1> DEFINE N == lines * DPL
<1>1. N \in Nat
  BY LineBase
<1> HIDE DEF N
<1>2. DOMAIN s = 0 .. N - 1
  BY DEF N
<1>3. NumDigits(s) = N
  <2>1. Cardinality(0 .. N - 1) = N
    BY <1>1, FS_Interval
  <2>2. QED BY <1>2, <2>1 DEF NumDigits
<1>4. ASSUME NEW d \in DOMAIN s
      PROVE  d \in Receiving(s, 0, NumDigits(s), FALSE) <=> CarryInto(s, 0, d, FALSE)
  <2>1. d \in 0 .. NumDigits(s)
    <3>1. \A i \in 0 .. N - 1 : i \in 0 .. N
      BY ONLY <1>1
    <3>2. d \in 0 .. N - 1
      BY ONLY <1>2, d \in DOMAIN s
    <3>3. QED BY ONLY <1>3, <3>1, <3>2
  <2>2. QED BY <2>1, Zenon DEF Receiving
<1>5. ASSUME NEW d \in DOMAIN s
      PROVE  DigitsOf(s)[d] = Resolved(s[d], CarryInto(s, 0, d, FALSE))
  <2>1. DigitsOf(s)[d] = Resolved(s[d], d \in Receiving(s, 0, NumDigits(s), FALSE))
    BY DEF DigitsOf
  <2>2. QED BY ONLY <1>4, <2>1, ResolvedSame, ZenonT(60)
<1>6. DOMAIN DigitsOf(s) = DOMAIN s
  BY DEF DigitsOf
<1>7. QED BY <1>5, <1>6

(* A step with sums s and digits y, the result of m digits, in so many     *)
(* lines; the digits of a step are those of the result, and zero above.    *)
IsStep(s, y, m, lines) ==
  /\ m \in Nat \ {0} /\ lines \in Nat /\ m <= lines * DPL
  /\ DOMAIN s = 0 .. lines * DPL - 1 /\ DOMAIN y = DOMAIN s
  /\ \A d \in DOMAIN s :
       /\ s[d] \in 0 .. 18 /\ y[d] \in Digit
       /\ y[d] = Resolved(s[d], CarryInto(s, 0, d, FALSE))
       /\ d >= m => s[d] = 0 /\ y[d] = 0

LEMMA StepIs ==
  ASSUME NEW n \in Nat \ {0}, NEW x \in Number(n),
         NEW m, m = n + Bit(PrescanGrow(x, n)), NEW lines \in Nat, m <= lines * DPL
  PROVE  LET s == SumsOf(x, n, lines)
             y == DigitsOf(s)
         IN  /\ m \in {n, n + 1} /\ IsStep(s, y, m, lines)
             /\ \A d \in DOMAIN s : d >= n => s[d] = 0
             /\ \A d \in 0 .. n - 1 : s[d] = Sums(x, n)[d] /\ s[n - 1 - d] = s[d]
             /\ \A d \in DOMAIN s : y[d] = IF d < m THEN ReverseAdd(x, n)[d] ELSE 0
<1> DEFINE N == lines * DPL
           S == Sums(x, n)
           s == SumsOf(x, n, lines)
           y == DigitsOf(s)
           sum == ReverseAdd(x, n)
<1>1. /\ m \in {n, n + 1} /\ m \in Nat \ {0} /\ N \in Nat /\ m <= N /\ n <= N
      /\ n \in Nat \ {0} /\ x \in Number(n)
  <2>1. N \in Nat /\ m <= N
    BY LineBase
  <2> HIDE DEF N
  <2>2. m \in {n, n + 1}
    BY DEF Bit
  <2>3. QED BY <2>1, <2>2
<1>2. m = n + Bit(PrescanGrow(x, n))
  OBVIOUS
<1>3. /\ DOMAIN s = 0 .. N - 1
      /\ \A d \in 0 .. n - 1 : s[d] = x[d] + x[n - 1 - d] /\ s[n - 1 - d] = s[d]
      /\ \A d \in DOMAIN s : s[d] \in 0 .. 18 /\ (d >= n => s[d] = 0)
  <2>1. \A d \in 0 .. n - 1 : x[d] \in Digit
    BY DEF Number
  <2>2. n <= lines * DPL
    BY <1>1
  <2>3. QED BY <2>1, <2>2, SumsOfIs
<1>4. /\ DOMAIN y = DOMAIN s
      /\ \A d \in DOMAIN s : y[d] = Resolved(s[d], CarryInto(s, 0, d, FALSE))
  <2> HIDE DEF s
  <2>1. QED BY <1>3, DigitsOfIs
<1> HIDE DEF N, s, y, sum
<1>5. \A d \in 0 .. n - 1 : s[d] = S[d]
  BY <1>1, <1>3, SumsType
<1>6. ASSUME NEW d \in 0 .. n PROVE CarryInto(s, 0, d, FALSE) <=> CarryInto(S, 0, d, FALSE)
  <2>1. \A i \in 0 .. d - 1 : s[i] = S[i]
    BY <1>1, <1>5
  <2>2. d \in Nat
    BY <1>1
  <2> HIDE DEF S
  <2>3. QED BY <2>1, <2>2, CarryOfEqual
<1>7. ASSUME NEW d \in DOMAIN s PROVE y[d] = IF d < m THEN sum[d] ELSE 0
  <2>1. d \in 0 .. N - 1 /\ d \in Nat
    BY <1>1, <1>3
  <2>2. sum = [i \in 0 .. n - 1 + Bit(PrescanGrow(x, n)) |->
                    IF i = n THEN 1 ELSE Resolved(S[i], CarryInto(S, 0, i, FALSE))]
    BY DEF sum, ReverseAdd, S
  <2> HIDE DEF S
  <2>3. CASE d < n
    <3>1. d \in 0 .. n - 1 /\ d \in 0 .. n /\ d # n /\ d < m
      BY <1>1, <2>1, <2>3
    <3>2. d \in 0 .. n - 1 + Bit(PrescanGrow(x, n))
      BY <1>1, <3>1 DEF Bit
    <3>3. sum[d] = Resolved(S[d], CarryInto(S, 0, d, FALSE))
      BY <2>2, <3>1, <3>2
    <3>4. y[d] = Resolved(S[d], CarryInto(s, 0, d, FALSE))
      BY <1>4, <1>5, <3>1
    <3>5. CarryInto(s, 0, d, FALSE) <=> CarryInto(S, 0, d, FALSE)
      BY <1>6, <3>1
    <3>6. QED BY ONLY <3>1, <3>3, <3>4, <3>5, ResolvedSame, ZenonT(60)
  <2>4. CASE d = n
    <3>1. s[d] = 0
      BY <1>3, <1>1, <2>4
    <3>2. CarryInto(s, 0, d, FALSE) <=> PrescanGrow(x, n)
      <4>1. PrescanGrow(x, n) <=> CarryInto(Sums(x, n), 0, n, FALSE)
        BY <1>1, PrescanExact
      <4>2. n \in 0 .. n
        BY <1>1
      <4>3. CarryInto(s, 0, n, FALSE) <=> CarryInto(S, 0, n, FALSE)
        BY <1>6, <4>2
      <4>4. QED BY <2>4, <4>1, <4>3 DEF S
    <3>3. y[d] = Bit(PrescanGrow(x, n))
      <4>1. y[d] = Resolved(0, CarryInto(s, 0, d, FALSE))
        BY <1>4, <3>1
      <4>2. y[d] = Resolved(0, PrescanGrow(x, n))
        BY <3>2, <4>1, ResolvedSame
      <4>3. QED BY <4>2 DEF Resolved, Bit
    <3>4. CASE PrescanGrow(x, n)
      <4>1. m = n + 1 /\ Bit(PrescanGrow(x, n)) = 1
        BY <1>1, <1>2, <3>4 DEF Bit
      <4>2. d \in 0 .. n - 1 + Bit(PrescanGrow(x, n)) /\ d < m
        BY <1>1, <2>4, <4>1
      <4>3. sum[d] = 1
        BY <2>2, <2>4, <4>2
      <4>4. QED BY <3>3, <4>1, <4>2, <4>3
    <3>5. CASE ~PrescanGrow(x, n)
      <4>1. m = n /\ Bit(PrescanGrow(x, n)) = 0
        BY <1>1, <1>2, <3>5 DEF Bit
      <4>2. QED BY <1>1, <2>4, <3>3, <4>1
    <3>6. QED BY <3>4, <3>5
  <2>5. CASE d > n
    <3>1. s[d] = 0 /\ ~(d < m)
      BY <1>1, <1>3, <2>1, <2>5
    <3>2. PICK e \in DOMAIN s : e \in Nat /\ d = e + 1 /\ e >= n
      <4>1. d - 1 \in DOMAIN s /\ d - 1 \in Nat /\ d = d - 1 + 1 /\ d - 1 >= n
        BY <1>1, <1>3, <2>1, <2>5, SMTT(60)
      <4>2. QED BY <4>1
    <3>3. s[e] = 0 /\ s[e] \in Int /\ 0 \in Nat /\ 0 <= e /\ FALSE \in BOOLEAN
      BY <1>3, <3>2
    <3>4. ~CarryInto(s, 0, d, FALSE)
      <4>1. CarryInto(s, 0, e + 1, FALSE)
              <=> s[e] > 9 \/ (s[e] = 9 /\ CarryInto(s, 0, e, FALSE))
        BY <3>2, <3>3, CarryRecurrence, ZenonT(60)
      <4>2. ~(s[e] > 9) /\ s[e] # 9
        BY <3>3
      <4>3. ~CarryInto(s, 0, e + 1, FALSE)
        BY ONLY <4>1, <4>2
      <4>4. QED BY <3>2, <4>3
    <3>5. y[d] = Resolved(0, FALSE)
      BY ONLY <1>4, <3>1, <3>4, ResolvedSame, ZenonT(60)
    <3>6. QED BY <3>1, <3>5 DEF Resolved, Bit
  <2>6. QED BY <1>1, <2>1, <2>3, <2>4, <2>5
<1>8. ASSUME NEW d \in DOMAIN s PROVE y[d] \in Digit
  <2>1. CarryInto(s, 0, d, FALSE) \in BOOLEAN
    BY CarryIsBoolean
  <2>2. QED BY <1>3, <1>4, <2>1, ResolvedDigit, ZenonT(60)
<1>9. IsStep(s, y, m, lines)
  <2>1. \A d \in DOMAIN s : d >= m => s[d] = 0 /\ y[d] = 0
    BY <1>1, <1>3, <1>7, SMTT(60)
  <2>2. QED BY <1>1, <1>3, <1>4, <1>8, <2>1 DEF IsStep, N
<1>10. QED BY <1>1, <1>3, <1>5, <1>7, <1>9 DEF s, y, sum

(* The sums and the prescan look at the digits of a number only.           *)
LEMMA SumsOfSame ==
  ASSUME NEW n \in Nat \ {0}, NEW x, NEW z, \A d \in 0 .. n - 1 : x[d] = z[d],
         NEW lines \in Nat
  PROVE  SumsOf(x, n, lines) = SumsOf(z, n, lines) /\ PrescanGrow(x, n) = PrescanGrow(z, n)
<1>1. \A d \in 0 .. n - 1 : n - 1 - d \in 0 .. n - 1 /\ x[n - 1 - d] = z[n - 1 - d]
  OBVIOUS
<1>2. Sums(x, n) = Sums(z, n)
  BY <1>1 DEF Sums
<1>3. \A d \in Slots(<<0, lines>>) : d < n => d \in 0 .. n - 1
  BY LineBase DEF Slots
<1>4. SumsOf(x, n, lines) = SumsOf(z, n, lines)
  BY <1>1, <1>3 DEF SumsOf
<1>5. QED BY <1>2, <1>4 DEF PrescanGrow

(* Whether a step carries is told by its sums, and by one half of them.    *)
LEMMA CarriesAre ==
  ASSUME NEW n \in Nat \ {0}, NEW x \in Number(n), NEW lines \in Nat, n <= lines * DPL
  PROVE  LET s == SumsOf(x, n, lines)
         IN  /\ AnyCarried(x, n) <=> \E d \in DOMAIN s : s[d] > 9
             /\ Generates(s, n) <=> AnyCarried(x, n)
<1> DEFINE N == lines * DPL
           h == DivCeil(n, 2)
           s == SumsOf(x, n, lines)
<1>1. N \in Nat /\ n <= N
  BY LineBase
<1>2. /\ DOMAIN s = 0 .. N - 1
      /\ \A d \in DOMAIN s : s[d] \in 0 .. 18 /\ (d >= n => s[d] = 0)
      /\ \A d \in 0 .. n - 1 : s[d] = x[d] + x[n - 1 - d] /\ s[n - 1 - d] = s[d]
  <2>1. \A d \in 0 .. n - 1 : x[d] \in Digit
    BY DEF Number
  <2>2. QED BY <2>1, SumsOfIs, SMTT(60)
<1>3. \A d \in 0 .. n - 1 : s[d] = Sums(x, n)[d]
  BY <1>2, SumsType
<1>4. h \in Nat /\ n <= 2 * h /\ 2 * h <= n + 1
  BY DEF DivCeil
<1> HIDE DEF N, h, s
<1>5. AnyCarried(x, n) <=> \E d \in 0 .. n - 1 : Sums(x, n)[d] > 9
  BY CarriedIffGenerated
<1>6. AnyCarried(x, n) <=> \E d \in DOMAIN s : s[d] > 9
  <2>1. \A d \in 0 .. n - 1 : d \in DOMAIN s
    BY <1>1, <1>2
  <2>2. \A d \in DOMAIN s : s[d] > 9 => d \in 0 .. n - 1
    BY <1>1, <1>2
  <2>3. QED BY <1>3, <1>5, <2>1, <2>2
<1>7. \A d \in 0 .. n - 1 : d \in DOMAIN s /\ n - 1 - d \in 0 .. n - 1
  BY <1>1, <1>2
<1>8. \A d \in DOMAIN s : s[d] > 9 => d \in 0 .. n - 1
  BY <1>1, <1>2
<1>9. ASSUME Generates(s, n) PROVE \E d \in DOMAIN s : s[d] > 9
  <2>1. PICK d \in 0 .. h - 1 : s[d] >= 10
    BY <1>9 DEF Generates, h
  <2>2. d \in 0 .. n - 1
    BY <1>4
  <2>3. d \in DOMAIN s /\ s[d] \in 0 .. 18
    BY <1>2, <1>7, <2>2
  <2>4. QED BY <2>1, <2>3
<1>10. ASSUME NEW d \in DOMAIN s, s[d] > 9 PROVE Generates(s, n)
  <2>1. d \in 0 .. n - 1 /\ s[d] \in 0 .. 18
    BY <1>2, <1>8, <1>10
  <2>2. d \in 0 .. h - 1 \/ n - 1 - d \in 0 .. h - 1
    BY <1>4, <2>1
  <2>3. s[n - 1 - d] = s[d]
    BY <1>2, <2>1
  <2>4. s[d] >= 10
    BY <1>10, <2>1
  <2>5. QED BY <2>2, <2>3, <2>4 DEF Generates, h
<1>11. QED BY <1>6, <1>9, <1>10 DEF s

-----------------------------------------------------------------------------
(* What a round reads and computes *)

(* An interval of lines of a number. *)
IsRange(r, lines) == r[1] \in Nat /\ r[2] \in Nat /\ r[2] <= lines

LEMMA RangeSlots ==
  ASSUME NEW r, NEW lines \in Nat, IsRange(r, lines)
  PROVE  /\ r[1] * DPL \in Nat /\ r[2] * DPL \in Nat
         /\ r[1] <= r[2] => r[1] * DPL <= r[2] * DPL
         /\ Slots(r) \subseteq 0 .. lines * DPL - 1
         /\ \A d \in Nat : d \in Slots(r) <=> d \div DPL \in Lines(r)
         /\ IsEmpty(r) => Slots(r) = {}
<1>1. /\ r[1] \in Nat /\ r[2] \in Nat /\ r[2] <= lines
  BY DEF IsRange
<1> DEFINE a == r[1]
           b == r[2]
<1> HIDE DEF a, b
<1>2. /\ a * DPL \in Nat /\ b * DPL \in Nat /\ lines * DPL \in Nat
      /\ b * DPL <= lines * DPL /\ (a <= b <=> a * DPL <= b * DPL)
      /\ (b <= a <=> b * DPL <= a * DPL)
      /\ a \in Nat /\ b \in Nat
  BY <1>1, LineBase, LinesAscend DEF a, b
<1>3. Slots(r) = a * DPL .. b * DPL - 1 /\ Lines(r) = a .. b - 1 /\ (IsEmpty(r) <=> b <= a)
  BY <1>1 DEF Slots, Lines, IsEmpty, a, b
<1>4. Slots(r) \subseteq 0 .. lines * DPL - 1
  BY <1>2, <1>3
<1>5. ASSUME NEW d \in Nat PROVE d \in Slots(r) <=> d \div DPL \in Lines(r)
  <2>1. /\ d \div DPL \in Nat
        /\ d < a * DPL <=> d \div DPL < a
        /\ d < b * DPL <=> d \div DPL < b
    BY <1>2, LineOfSlot
  <2> DEFINE k == d \div DPL
  <2> HIDE DEF k
  <2>2. k \in Nat /\ (d < a * DPL <=> k < a) /\ (d < b * DPL <=> k < b)
    BY <2>1 DEF k
  <2>3. d \in a * DPL .. b * DPL - 1 <=> k \in a .. b - 1
    BY <1>2, <2>2
  <2>4. QED BY <1>3, <2>3 DEF k
<1>6. IsEmpty(r) => Slots(r) = {}
  BY <1>2, <1>3
<1>7. QED BY <1>2, <1>4, <1>5, <1>6 DEF a, b

(* Line k of a number of n digits and the two lines of its mirror image.   *)
LEMMA MirrorLine ==
  ASSUME NEW n \in Nat \ {0}, NEW d \in 0 .. n - 1
  PROVE  (n - 1 - d) \div DPL \in MirrorLines(n \div DPL, d \div DPL, DivCeil(n, DPL))
<1> DEFINE q == n \div DPL
           k == d \div DPL
           m == (n - 1 - d) \div DPL
           lines == DivCeil(n, DPL)
<1>1. DPL \in Nat \ {0} /\ lines \in Nat /\ n <= lines * DPL /\ lines * DPL \in Nat
  BY LinesOfDigits, LineBase
<1>2. /\ q \in Nat /\ q * DPL <= n /\ n < q * DPL + DPL
      /\ k \in Nat /\ k * DPL <= d /\ d < k * DPL + DPL
      /\ m \in Nat /\ m * DPL <= n - 1 - d /\ n - 1 - d < m * DPL + DPL
  BY <1>1, Quotient
<1>3. m < lines
  <2>1. n - 1 - d \in Nat /\ n - 1 - d < lines * DPL
    BY <1>1
  <2>2. QED BY <1>1, <2>1, LineOfSlot
<1> HIDE DEF q, k, m, lines
<1>4. /\ (m + k) * DPL = m * DPL + k * DPL /\ (q + 1) * DPL = q * DPL + DPL
      /\ (m + k + 2) * DPL = m * DPL + k * DPL + DPL + DPL
      /\ m * DPL \in Nat /\ k * DPL \in Nat /\ q * DPL \in Nat
  BY <1>1, <1>2
<1>5. (m + k) * DPL < (q + 1) * DPL /\ q * DPL < (m + k + 2) * DPL
  BY <1>1, <1>2, <1>4
<1>6. m + k < q + 1 /\ q < m + k + 2
  BY <1>1, <1>2, <1>5, Cancel
<1>7. m \in {q - 1 - k, q - k} /\ m \in 0 .. lines - 1
  BY <1>1, <1>2, <1>3, <1>6
<1>8. QED BY <1>7 DEF MirrorLines, q, k, m, lines

LEMMA ReadSlots ==
  ASSUME NEW n \in Nat \ {0}, NEW lines \in Nat, NEW out, NEW fwd, NEW rev,
         IsRange(out, lines), IsRange(fwd, lines), IsRange(rev, lines),
         InScratch(out, fwd, rev, n \div DPL, DivCeil(n, DPL)), NEW d \in Slots(out)
  PROVE  /\ d \in Slots(fwd)
         /\ d < n => n - 1 - d \in Slots(rev)
         /\ d >= n => n - 1 - d \notin Slots(rev)
<1>1. lines \in Nat
  OBVIOUS
<1>2. d \in Nat /\ d \div DPL \in Lines(out)
  <2>1. d \in Nat
    BY <1>1, RangeSlots
  <2>2. QED BY <1>1, <2>1, RangeSlots
<1>3. /\ d \div DPL \in Lines(fwd)
      /\ MirrorLines(n \div DPL, d \div DPL, DivCeil(n, DPL)) \subseteq Lines(rev)
  BY <1>2 DEF InScratch, MirrorLines
<1>4. d \in Slots(fwd)
  BY <1>1, <1>2, <1>3, RangeSlots
<1>5. ASSUME d < n PROVE n - 1 - d \in Slots(rev)
  <2>1. d \in 0 .. n - 1 /\ n - 1 - d \in Nat
    BY <1>2, <1>5
  <2>2. (n - 1 - d) \div DPL \in Lines(rev)
    BY <1>3, <2>1, MirrorLine
  <2>3. QED BY <1>1, <2>1, <2>2, RangeSlots
<1>6. ASSUME d >= n PROVE n - 1 - d \notin Slots(rev)
  <2>1. Slots(rev) \subseteq 0 .. lines * DPL - 1
    BY <1>1, RangeSlots
  <2>2. n - 1 - d < 0
    BY <1>2, <1>6
  <2>3. QED BY <2>1, <2>2
<1>7. QED BY <1>4, <1>5, <1>6

(* An interval, and what it needs of the number. *)
LEMMA UnionInRange ==
  ASSUME NEW lines \in Nat, NEW q \in Nat, q <= lines,
         NEW r, r = <<r[1], r[2]>>, IsRange(r, lines),
         NEW u, u = <<u[1], u[2]>>, IsRange(u, lines)
  PROVE  IsRange(IntervalUnion(r, BackwardOf(u, q, lines)), lines)
<1> DEFINE b == BackwardOf(u, q, lines)
<1>1. IsRange(b, lines)
  BY DEF IsRange, BackwardOf, MinOf, MaxOf
<1> HIDE DEF b
<1>2. IsRange(IntervalUnion(r, b), lines)
  BY <1>1 DEF IsRange, IntervalUnion, MinOf, MaxOf
<1>3. QED BY <1>2 DEF b

(* The digits a pass computes for an interval are the true ones except     *)
(* those that the carry into it runs through and lands on: these are one   *)
(* too low, the nines among them nine too high.                            *)
LEMMA GuessIs ==
  ASSUME NEW s, NEW y, NEW m, NEW lines, IsStep(s, y, m, lines),
         NEW r, IsRange(r, lines), NEW d \in Slots(r)
  PROVE  LET had == Speculated(s, r)[d]
         IN  /\ had \in Digit
             /\ d \notin Rippled(s, r, m) => had = y[d]
             /\ d \in Rippled(s, r, m) => had - y[d] \in {9, -1}
<1> DEFINE lo == r[1] * DPL
           end == r[2] * DPL
           N == lines * DPL
           out == Speculated(s, r)
           c0 == CarryInto(s, 0, lo, FALSE)
           c == CarryInto(s, 0, d, FALSE)
           g == CarryInto(s, lo, d, FALSE)
<1>1. lines \in Nat /\ m \in Nat \ {0} /\ m <= N /\ N \in Nat
  BY LineBase DEF IsStep
<1>2. lo \in Nat /\ end \in Nat /\ Slots(r) \subseteq 0 .. N - 1
  BY <1>1, RangeSlots
<1>3. Slots(r) = lo .. end - 1
  BY DEF Slots
<1>4. /\ DOMAIN s = 0 .. N - 1
      /\ \A i \in DOMAIN s :
           /\ s[i] \in 0 .. 18 /\ (i >= m => s[i] = 0 /\ y[i] = 0)
           /\ y[i] = Resolved(s[i], CarryInto(s, 0, i, FALSE))
  BY DEF IsStep
<1>5. /\ DOMAIN out = Slots(r)
      /\ \A i \in Slots(r) : out[i] = Resolved(s[i], i \in Guessed(s, r))
  BY DEF Speculated
<1> HIDE DEF N, lo, end, out, c0, c, g
<1>6. ASSUME NEW i \in Slots(r)
      PROVE  out[i] = Resolved(s[i], CarryInto(s, lo, i, FALSE))
  <2>1. i \in lo .. end
    BY <1>2, <1>3
  <2>2. i \in Guessed(s, r) <=> CarryInto(s, lo, i, FALSE)
    BY <2>1, Zenon DEF Guessed, Receiving, lo, end
  <2>3. QED BY ONLY <1>5, <2>2, ResolvedSame, ZenonT(60)
<1>7. d \in lo .. end - 1 /\ d \in Nat /\ lo <= d /\ lo <= end /\ d \in DOMAIN s /\ d < end
  BY <1>2, <1>3, <1>4
<1>8. Speculative(s, out, lo, end)
  <2>1. \A i \in lo .. end - 1 : s[i] \in 0 .. 18
    BY <1>2, <1>3, <1>4
  <2>2. QED BY <1>3, <1>6, <2>1 DEF Speculative
<1>9. (\A i \in lo .. d - 1 : out[i] = 9) <=> (\A i \in lo .. d - 1 : s[i] = 9)
  <2>1. d \in lo .. end
    BY <1>2, <1>7
  <2>2. QED BY <1>2, <1>7, <1>8, <2>1, NineRun
<1>10. c <=> CarryInto(s, lo, d, c0)
  BY <1>2, <1>7, CarryFromZero DEF c, c0
<1>11. out[d] = Resolved(s[d], g) /\ y[d] = Resolved(s[d], c) /\ s[d] \in 0 .. 18
  BY <1>4, <1>6, <1>7 DEF g, c
<1>12. out[d] \in Digit
  <2>1. g \in BOOLEAN
    BY CarryIsBoolean DEF g
  <2>2. QED BY <1>11, <2>1, ResolvedDigit
<1>13. d \in Rippled(s, r, m) <=> d < m /\ lo > 0 /\ c0 /\ \A i \in lo .. d - 1 : s[i] = 9
  <2>1. Rippled(s, r, m) = {p \in lo .. MinOf(end, m) - 1 :
                                lo > 0 /\ c0 /\ \A j \in lo .. p - 1 : out[j] = 9}
    BY DEF Rippled, lo, end, c0, out
  <2>2. d \in lo .. MinOf(end, m) - 1 <=> d < m
    BY <1>1, <1>2, <1>7 DEF MinOf
  <2>3. QED BY <1>9, <2>1, <2>2, Zenon
<1>14. CASE c0 /\ \A i \in lo .. d - 1 : s[i] = 9
  <2>1. ~g
    BY <1>14 DEF CarryInto, g
  <2>2. c
    <3>1. CarryInto(s, lo, d, TRUE)
      BY <1>14 DEF CarryInto
    <3>2. c0 = TRUE
      BY <1>14 DEF c0, CarryInto
    <3>3. QED BY <1>10, <3>1, <3>2
  <2>3. lo > 0
    <3>1. CASE lo = 0
      <4>1. ~c0
        BY <3>1 DEF c0, CarryInto
      <4>2. QED BY <1>14, <4>1
    <3>2. QED BY <1>2, <3>1
  <2>4. out[d] = Resolved(s[d], FALSE) /\ y[d] = Resolved(s[d], TRUE)
    BY ONLY <1>11, <2>1, <2>2, ResolvedSame, ZenonT(60)
  <2>5. out[d] - y[d] \in {9, -1}
    BY <1>11, <2>4 DEF Resolved, Bit
  <2>6. d < m
    <3>1. ASSUME ~(d < m) PROVE FALSE
      <4>0. d >= m
        BY <1>1, <1>7, <3>1
      <4>1. s[d] = 0 /\ y[d] = 0
        BY <1>4, <1>7, <4>0
      <4>2. QED BY <2>4, <4>1 DEF Resolved, Bit
    <3>2. QED BY <3>1
  <2>7. d \in Rippled(s, r, m)
    BY <1>13, <1>14, <2>3, <2>6
  <2>8. QED BY <1>12, <2>5, <2>7 DEF out
<1>15. CASE ~(c0 /\ \A i \in lo .. d - 1 : s[i] = 9)
  <2>1. d \notin Rippled(s, r, m)
    BY <1>13, <1>15
  <2>2. g <=> c
    <3>1. c <=> \/ \E j \in lo .. d - 1 : s[j] > 9 /\ \A i \in j + 1 .. d - 1 : s[i] = 9
                \/ c0 /\ \A i \in lo .. d - 1 : s[i] = 9
      BY <1>10, Zenon DEF CarryInto
    <3>2. g <=> \E j \in lo .. d - 1 : s[j] > 9 /\ \A i \in j + 1 .. d - 1 : s[i] = 9
      BY DEF CarryInto, g
    <3>3. QED BY <1>15, <3>1, <3>2, Zenon
  <2>3. out[d] = y[d]
    BY <1>11, <2>2, ResolvedSame
  <2>4. QED BY <1>12, <2>1, <2>3 DEF out
<1>16. QED BY <1>14, <1>15

(* A guessed interval carries when one of its sums does. *)
LEMMA GuessCarriesIs ==
  ASSUME NEW s, NEW lines \in Nat, \A d \in 0 .. lines * DPL - 1 : s[d] \in 0 .. 18,
         NEW r, IsRange(r, lines)
  PROVE  SpeculatedCarried(s, r) <=> \E d \in Slots(r) : s[d] > 9
<1> DEFINE lo == r[1] * DPL
           end == r[2] * DPL
           N == lines * DPL
<1>1. /\ lines \in Nat /\ lo \in Nat /\ end \in Nat
      /\ r[1] <= r[2] => lo <= end
      /\ Slots(r) \subseteq 0 .. N - 1 /\ Slots(r) = lo .. end - 1
      /\ IsEmpty(r) => Slots(r) = {}
  BY RangeSlots DEF Slots
<1>2. \A d \in 0 .. N - 1 : s[d] \in Int
  <2>1. \A d \in 0 .. N - 1 : s[d] \in 0 .. 18
    OBVIOUS
  <2> HIDE DEF N
  <2>2. QED BY <2>1
<1>3. r[1] \in Nat /\ r[2] \in Nat
  BY DEF IsRange
<1> HIDE DEF lo, end, N
<1>4. CASE IsEmpty(r)
  BY <1>1, <1>4 DEF SpeculatedCarried
<1>5. CASE ~IsEmpty(r)
  <2>1. lo <= end
    BY <1>1, <1>3, <1>5 DEF IsEmpty
  <2>2. \A i \in lo .. end - 1 : s[i] \in Int
    BY <1>1, <1>2
  <2>3. (\E d \in lo .. end : CarryInto(s, lo, d, FALSE))
           <=> FALSE \/ \E j \in lo .. end - 1 : s[j] > 9
    BY <1>1, <2>1, <2>2, CarriedInRange
  <2>4. Guessed(s, r) # {} <=> \E d \in lo .. end : CarryInto(s, lo, d, FALSE)
    BY DEF Guessed, Receiving, lo, end
  <2>5. QED BY <1>1, <1>5, <2>3, <2>4 DEF SpeculatedCarried
<1>6. QED BY <1>4, <1>5

-----------------------------------------------------------------------------
(* The chunks cover the number *)

LEMMA Covered ==
  ASSUME NEW n \in Nat \ {0}, NEW t \in Thread, NEW m \in Nat,
         \A k \in 0 .. m - 1 : k \in DOMAIN RoundsOf(t, n),
         m \notin DOMAIN RoundsOf(t, n)
  PROVE  LET w == WalkOf(t, n)
         IN  /\ m \in 0 .. DivCeil(n, DPL)
             /\ w[m].low = LowEndOf(t, n) /\ w[m].high = HighStartOf(t, n)
             /\ \A x \in LowStartOf(t, n) .. LowEndOf(t, n) - 1 :
                  \E k \in 0 .. m - 1 : x \in Lines(RoundsOf(t, n)[k].at.lo)
             /\ \A x \in HighStartOf(t, n) .. HighEndOf(t, n) - 1 :
                  \E k \in 0 .. m - 1 : x \in Lines(RoundsOf(t, n)[k].at.hi)
<1> DEFINE w == WalkOf(t, n)
           R == RoundsOf(t, n)
           Q == DivCeil(n, DPL)
           ls == LowStartOf(t, n)
           le == LowEndOf(t, n)
           hs == HighStartOf(t, n)
           he == HighEndOf(t, n)
<1>1. /\ Q \in Nat \ {0} /\ ls \in Nat /\ le \in Nat /\ hs \in Nat /\ he \in Nat
  BY BlocksOfThread
<1>2. \A k : k \in DOMAIN R <=>
        k \in 0 .. Q - 1 /\ (w[k].low < le \/ hs < w[k].high)
  BY RoundsAre
<1>3. \A k \in 0 .. Q :
        /\ w[k].low \in Nat /\ w[k].high \in Nat /\ w[k].low <= le /\ hs <= w[k].high
        /\ (le - w[k].low) + (w[k].high - hs) <= Q - k
  BY WalkStates DEF OnWalk
<1>4. \A k \in DOMAIN R : /\ R[k].at.lo = <<w[k].low, w[k + 1].low>>
                          /\ R[k].at.hi = <<w[k + 1].high, w[k].high>>
  BY RoundStep
<1>11. w[0] = WalkBegin(t, n)
  BY WalkSteps
<1> HIDE DEF w
<1>5. w[0].low = ls /\ w[0].high = he
  BY <1>11 DEF WalkBegin
<1> HIDE DEF R, Q, ls, le, hs, he
<1>6. m \in 0 .. Q
  <2>1. CASE m = 0
    BY <1>1, <2>1
  <2>2. CASE m # 0
    <3>1. m - 1 \in 0 .. m - 1
      BY <2>2
    <3>2. m - 1 \in DOMAIN R
      BY <3>1 DEF R
    <3>3. QED BY <1>1, <1>2, <3>2
  <2>3. QED BY <2>1, <2>2
<1>7. w[m].low = le /\ w[m].high = hs
  <2> DEFINE a == w[m].low
             b == w[m].high
  <2>1. /\ a \in Nat /\ b \in Nat /\ a <= le /\ hs <= b
        /\ (le - a) + (b - hs) <= Q - m
    BY <1>3, <1>6
  <2>2. m # Q => ~(a < le \/ hs < b)
    <3>1. m # Q => m \in 0 .. Q - 1
      BY <1>1, <1>6
    <3>2. QED BY <1>2, <3>1 DEF R
  <2> HIDE DEF a, b
  <2>3. a = le /\ b = hs
    BY <1>1, <2>1, <2>2
  <2>4. QED BY <2>3 DEF a, b
<1>8. ASSUME NEW x \in ls .. le - 1
      PROVE  \E k \in 0 .. m - 1 : x \in Lines(R[k].at.lo)
  <2> DEFINE Past == {k \in 0 .. m : x < w[k].low}
  <2>1. m \in Past
    BY <1>1, <1>6, <1>7
  <2>2. PICK k \in Past : \A j \in Past : k <= j
    <3>1. Past \in SUBSET Nat /\ Past # {}
      BY <2>1
    <3>2. QED BY <3>1, LeastElement
  <2>3. k # 0
    BY <1>1, <1>5
  <2>4. k - 1 \in 0 .. m - 1 /\ k - 1 \in 0 .. m /\ k - 1 \in 0 .. Q /\ k - 1 + 1 = k
    BY <1>1, <1>6, <2>3
  <2>5. ~(x < w[k - 1].low) /\ x < w[k].low
    BY <2>2, <2>4
  <2>6. w[k - 1].low \in Nat /\ w[k].low \in Nat
    <3>1. k \in 0 .. m /\ m \in 0 .. Q
      BY <1>6, <2>2
    <3>2. k \in 0 .. Q /\ k - 1 \in 0 .. Q
      BY <1>1, <2>4, <3>1
    <3>3. QED BY <1>3, <3>2
  <2>7. R[k - 1].at.lo = <<w[k - 1].low, w[k].low>>
    <3>1. k - 1 \in DOMAIN R
      BY <2>4 DEF R
    <3>2. QED BY <1>4, <2>4, <3>1
  <2>8. x \in Lines(R[k - 1].at.lo)
    BY <1>1, <2>5, <2>6, <2>7 DEF Lines
  <2>9. QED BY <2>4, <2>8
<1>9. ASSUME NEW x \in hs .. he - 1
      PROVE  \E k \in 0 .. m - 1 : x \in Lines(R[k].at.hi)
  <2> DEFINE Past == {k \in 0 .. m : w[k].high <= x}
  <2>1. m \in Past
    BY <1>1, <1>6, <1>7
  <2>2. PICK k \in Past : \A j \in Past : k <= j
    <3>1. Past \in SUBSET Nat /\ Past # {}
      BY <2>1
    <3>2. QED BY <3>1, LeastElement
  <2>3. k # 0
    BY <1>1, <1>5
  <2>4. k - 1 \in 0 .. m - 1 /\ k - 1 \in 0 .. m /\ k - 1 \in 0 .. Q /\ k - 1 + 1 = k
    BY <1>1, <1>6, <2>3
  <2>5. ~(w[k - 1].high <= x) /\ w[k].high <= x
    BY <2>2, <2>4
  <2>6. w[k - 1].high \in Nat /\ w[k].high \in Nat
    <3>1. k \in 0 .. m /\ m \in 0 .. Q
      BY <1>6, <2>2
    <3>2. k \in 0 .. Q /\ k - 1 \in 0 .. Q
      BY <1>1, <2>4, <3>1
    <3>3. QED BY <1>3, <3>2
  <2>7. R[k - 1].at.hi = <<w[k].high, w[k - 1].high>>
    <3>1. k - 1 \in DOMAIN R
      BY <2>4 DEF R
    <3>2. QED BY <1>4, <2>4, <3>1
  <2>8. x \in Lines(R[k - 1].at.hi)
    BY <1>1, <2>5, <2>6, <2>7 DEF Lines
  <2>9. QED BY <2>4, <2>8
<1>10. QED BY <1>6, <1>7, <1>8, <1>9 DEF w, R, Q, ls, le, hs, he

LEMMA EveryLine ==
  ASSUME NEW n \in Nat \ {0}, NEW x \in 0 .. DivCeil(n, DPL) - 1
  PROVE  \E t \in Thread : \/ x \in LowStartOf(t, n) .. LowEndOf(t, n) - 1
                           \/ x \in HighStartOf(t, n) .. HighEndOf(t, n) - 1
<1> DEFINE Q == DivCeil(n, DPL)
<1>1. Q \in Nat \ {0}
  BY LinesOfDigits
<1>2. PICK j \in 0 .. NumBlocks - 1 : BlockBounds(Q)[j] <= x /\ x < BlockBounds(Q)[j + 1]
  BY <1>1, BlocksCover
<1>3. NumThreads \in Nat \ {0} /\ NumBlocks = 2 * NumThreads
  BY Blocks
<1>4. CASE j < NumThreads
  <2>1. j \in Thread
    BY <1>3, <1>4 DEF Thread
  <2>2. /\ LowStartOf(j, n) = BlockBounds(Q)[j] /\ LowEndOf(j, n) = BlockBounds(Q)[j + 1]
        /\ LowStartOf(j, n) \in Nat /\ LowEndOf(j, n) \in Nat
    BY <2>1, BlocksOfThread DEF LowStartOf, LowEndOf
  <2> HIDE DEF Q
  <2>3. x \in LowStartOf(j, n) .. LowEndOf(j, n) - 1
    BY <1>1, <1>2, <2>2 DEF Q
  <2>4. QED BY <2>1, <2>3
<1>5. CASE ~(j < NumThreads)
  <2> DEFINE t == NumBlocks - 1 - j
  <2>1. t \in Thread /\ HighBlock(t) = j
    BY <1>3, <1>5 DEF Thread, HighBlock
  <2> HIDE DEF t
  <2>2. /\ HighStartOf(t, n) = BlockBounds(Q)[j] /\ HighEndOf(t, n) = BlockBounds(Q)[j + 1]
        /\ HighStartOf(t, n) \in Nat /\ HighEndOf(t, n) \in Nat
    BY <2>1, BlocksOfThread DEF HighStartOf, HighEndOf
  <2> HIDE DEF Q
  <2>3. x \in HighStartOf(t, n) .. HighEndOf(t, n) - 1
    BY <1>1, <1>2, <2>2, SMTT(60) DEF Q
  <2>4. QED BY <2>1, <2>3
<1>6. QED BY <1>4, <1>5

-----------------------------------------------------------------------------
(* Outputs made from what two buffers hold *)

(* The chunks of a round and what it reads for them are lines of the       *)
(* number, and the chunks read nothing else of the number before it.       *)
LEMMA RoundLines ==
  ASSUME NEW n \in Nat \ {0}, NEW t \in Thread, NEW k \in DOMAIN RoundsOf(t, n)
  PROVE  LET r == RoundsOf(t, n)[k].at
             q == n \div DPL
             lines == DivCeil(n, DPL)
         IN  /\ r.lo = <<r.lo[1], r.lo[2]>> /\ r.hi = <<r.hi[1], r.hi[2]>>
             /\ r.lo[1] <= r.lo[2] /\ r.hi[1] <= r.hi[2]
             /\ IsRange(r.lo, lines) /\ IsRange(r.hi, lines)
             /\ IsRange(r.rLo, lines) /\ IsRange(r.rHi, lines)
             /\ r.rLo \in Interval /\ r.rHi \in Interval
             /\ InScratch(r.lo, r.rLo, r.rHi, q, lines)
             /\ InScratch(r.hi, r.rHi, r.rLo, q, lines)
<1> DEFINE r == RoundsOf(t, n)[k].at
           q == n \div DPL
           lines == DivCeil(n, DPL)
           v == WalkOf(t, n)[k]
           u == WalkOf(t, n)[k + 1]
<1>1. /\ OnWalk(t, n, v) /\ OnWalk(t, n, u)
      /\ r.lo = <<v.low, u.low>> /\ v.low <= u.low
      /\ r.hi = <<u.high, v.high>> /\ u.high <= v.high
      /\ r.rLo = IntervalUnion(r.lo, BackwardOf(r.hi, q, lines))
      /\ r.rHi = IntervalUnion(r.hi, BackwardOf(r.lo, q, lines))
  BY RoundStep
<1>2. /\ q \in Nat /\ lines \in Nat /\ q <= lines
      /\ LowEndOf(t, n) \in Nat /\ HighStartOf(t, n) \in Nat /\ HighEndOf(t, n) \in Nat
      /\ LowEndOf(t, n) <= HighStartOf(t, n) /\ HighStartOf(t, n) <= HighEndOf(t, n)
      /\ HighEndOf(t, n) <= lines
  BY BlocksOfThread, SMTT(60)
<1>3. /\ v.low \in Nat /\ u.low \in Nat /\ u.low <= LowEndOf(t, n) /\ u.high \in Nat
      /\ v.high \in Nat /\ v.high <= HighEndOf(t, n)
  BY <1>1 DEF OnWalk
<1> HIDE DEF r, q, u, v, lines
<1>4. /\ r.lo[1] = v.low /\ r.lo[2] = u.low /\ r.hi[1] = u.high /\ r.hi[2] = v.high
  BY <1>1
<1>5. /\ r.lo = <<r.lo[1], r.lo[2]>> /\ r.hi = <<r.hi[1], r.hi[2]>>
      /\ r.lo[1] <= r.lo[2] /\ r.hi[1] <= r.hi[2]
      /\ IsRange(r.lo, lines) /\ IsRange(r.hi, lines)
  BY <1>1, <1>2, <1>3, <1>4 DEF IsRange
<1>6. IsRange(r.rLo, lines) /\ IsRange(r.rHi, lines)
  BY <1>1, <1>2, <1>5, UnionInRange
<1>7. /\ InScratch(r.lo, r.rLo, r.rHi, q, lines)
      /\ InScratch(r.hi, r.rHi, r.rLo, q, lines)
      /\ r.rLo \in Interval /\ r.rHi \in Interval
  <2>1. r.lo \in Interval /\ r.hi \in Interval
    BY <1>1, <1>3 DEF Interval
  <2>2. q \in Int /\ lines \in Int
    BY <1>2
  <2>3. QED BY <1>1, <2>1, <2>2, PairReads
<1>8. QED BY <1>5, <1>6, <1>7 DEF r, q, lines

(* A digit where some are wrong: y has the others. *)
Taken(y, wrong, p) == IF p \in DOMAIN wrong THEN wrong[p] ELSE y[p]

(* A buffer that holds digits y of interval r, those in wrong excepted.    *)
HoldsDigits(b, r, y, wrong) ==
  /\ DOMAIN b = Slots(r)
  /\ \A p \in Slots(r) : b[p] = Taken(y, wrong, p)

(* Digits of a number of n digits in so many lines, and wrong ones.        *)
AreDigits(y, n, lines) ==
  /\ n \in Nat \ {0} /\ lines \in Nat /\ n <= lines * DPL
  /\ \A p \in 0 .. lines * DPL - 1 : p \in DOMAIN y /\ y[p] \in Digit
WrongDigits(wrong) == \A p \in DOMAIN wrong : wrong[p] \in Digit

LEMMA ConsumedIs ==
  ASSUME NEW y, NEW n, NEW lines, AreDigits(y, n, lines),
         NEW fwd, NEW rev, WrongDigits(fwd), WrongDigits(rev),
         NEW d \in 0 .. lines * DPL - 1
  PROVE  LET c == ConsumedSums(y, n, fwd, rev)
         IN  /\ d \in DOMAIN c
             /\ c[d] = Taken(y, fwd, d) + IF d < n THEN Taken(y, rev, n - 1 - d) ELSE 0
             /\ c[d] \in 0 .. 18
<1> DEFINE N == lines * DPL
           c == ConsumedSums(y, n, fwd, rev)
<1>1. n \in Nat \ {0} /\ N \in Nat /\ n <= N
  BY LineBase DEF AreDigits
<1>2. \A p \in 0 .. N - 1 : Taken(y, fwd, p) \in 0 .. 9 /\ Taken(y, rev, p) \in 0 .. 9
  BY DEF AreDigits, WrongDigits, Taken, Digit
<1>3. d \in DOMAIN y
  BY DEF AreDigits
<1>4. /\ d \in DOMAIN c
      /\ c[d] = Taken(y, fwd, d) + IF d < n THEN Taken(y, rev, n - 1 - d) ELSE 0
  BY <1>3 DEF ConsumedSums, Taken
<1>5. d < n => n - 1 - d \in 0 .. N - 1
  <2> HIDE DEF N
  <2>1. d \in 0 .. N - 1
    BY DEF N
  <2>2. QED BY <1>1, <2>1
<1>6. c[d] \in 0 .. 18
  <2>1. Taken(y, fwd, d) \in 0 .. 9 /\ (d < n => Taken(y, rev, n - 1 - d) \in 0 .. 9)
    BY <1>2, <1>5
  <2> HIDE DEF c, N
  <2>2. QED BY <1>4, <2>1
<1>7. QED BY <1>4, <1>6

(* Where nothing is wrong the sums consumed are the true ones.             *)
LEMMA ConsumedRight ==
  ASSUME NEW y, NEW n, NEW lines, AreDigits(y, n, lines),
         NEW fwd, NEW rev, WrongDigits(fwd), WrongDigits(rev),
         NEW d \in 0 .. lines * DPL - 1,
         d >= n => y[d] = 0,
         d \notin DOMAIN fwd, d < n => n - 1 - d \notin DOMAIN rev
  PROVE  ConsumedSums(y, n, fwd, rev)[d] = SumsOf(y, n, lines)[d]
<1> DEFINE N == lines * DPL
           c == ConsumedSums(y, n, fwd, rev)
<1>1. n \in Nat \ {0} /\ lines \in Nat /\ N \in Nat
  BY LineBase DEF AreDigits
<1>2. c[d] = Taken(y, fwd, d) + IF d < n THEN Taken(y, rev, n - 1 - d) ELSE 0
  BY ConsumedIs
<1>3. Taken(y, fwd, d) = y[d] /\ (d < n => Taken(y, rev, n - 1 - d) = y[n - 1 - d])
  BY DEF Taken
<1>4. SumsOf(y, n, lines)[d] = IF d < n THEN y[d] + y[n - 1 - d] ELSE 0
  <2>1. d \in Slots(<<0, lines>>)
    BY <1>1, LineBase DEF Slots
  <2>2. QED BY <2>1 DEF SumsOf
<1>5. d \in Int /\ (~(d < n) => d >= n)
  BY <1>1
<1> HIDE DEF c
<1>6. QED BY <1>2, <1>3, <1>4, <1>5 DEF c

(* An output is the next step on the sums it consumed, from its first line *)
(* on and with that carry-in.                                              *)
Consumes(o, out, c, carryIn) ==
  /\ DOMAIN o.digit = Slots(out)
  /\ \A d \in Slots(out) :
       o.digit[d] = Resolved(c[d], CarryInto(c, out[1] * DPL, d, carryIn))
  /\ o.carry \in BOOLEAN /\ o.carried \in BOOLEAN /\ o.equal \in BOOLEAN
  /\ o.carry <=> CarryInto(c, out[1] * DPL, out[2] * DPL, carryIn)
  /\ o.carried <=> ~IsEmpty(out) /\ (carryIn \/ \E d \in Slots(out) : c[d] > 9)

(* Whether the digits taken there equal their mirror images.               *)
EqualIn(out, y, n, fwd, rev) ==
  \A d \in Slots(out) :
    Taken(y, fwd, d) = IF d < n THEN Taken(y, rev, n - 1 - d) ELSE 0

LEMMA OutputOf ==
  ASSUME NEW y, NEW n, NEW lines, AreDigits(y, n, lines),
         NEW fwd, NEW rev, WrongDigits(fwd), WrongDigits(rev),
         NEW out, NEW rf, NEW rb, NEW f, NEW b, NEW carryIn \in BOOLEAN,
         IsRange(out, lines), IsRange(rf, lines), IsRange(rb, lines), out[1] <= out[2],
         InScratch(out, rf, rb, n \div DPL, DivCeil(n, DPL)),
         HoldsDigits(f, rf, y, fwd), HoldsDigits(b, rb, y, rev)
  PROVE  /\ Consumes(Output(out, f, b, n, carryIn), out, ConsumedSums(y, n, fwd, rev), carryIn)
         /\ Output(out, f, b, n, carryIn).equal <=> EqualIn(out, y, n, fwd, rev)
<1> DEFINE o == Output(out, f, b, n, carryIn)
           c == ConsumedSums(y, n, fwd, rev)
           lo == out[1] * DPL
           end == out[2] * DPL
           s == [d \in Slots(out) |-> At(f, d) + At(b, n - 1 - d)]
           R == Receiving(s, lo, end, carryIn)
           N == lines * DPL
<1>1. n \in Nat \ {0} /\ lines \in Nat /\ N \in Nat /\ n <= N
  BY LineBase DEF AreDigits
<1>2. /\ lo \in Nat /\ end \in Nat /\ lo <= end
      /\ Slots(out) \subseteq 0 .. N - 1 /\ Slots(out) = lo .. end - 1
  BY <1>1, RangeSlots DEF Slots
<1>3. /\ DOMAIN f = Slots(rf) /\ DOMAIN b = Slots(rb)
      /\ \A p \in Slots(rf) : f[p] = Taken(y, fwd, p)
      /\ \A p \in Slots(rb) : b[p] = Taken(y, rev, p)
  BY DEF HoldsDigits
<1>4. \A d \in 0 .. N - 1 :
        /\ c[d] = Taken(y, fwd, d) + IF d < n THEN Taken(y, rev, n - 1 - d) ELSE 0
        /\ c[d] \in 0 .. 18
  BY ConsumedIs
<1>5. /\ o.digit = [d \in Slots(out) |-> Resolved(s[d], d \in R)]
      /\ o.carry = (end \in R)
      /\ o.carried = (~IsEmpty(out) /\ R # {})
      /\ o.equal = (\A d \in Slots(out) : At(f, d) = At(b, n - 1 - d))
  BY DEF Output
<1> HIDE DEF o, c, s, R, lo, end, N
<1>6. ASSUME NEW d \in Slots(out)
      PROVE  /\ At(f, d) = Taken(y, fwd, d)
             /\ At(b, n - 1 - d) = IF d < n THEN Taken(y, rev, n - 1 - d) ELSE 0
             /\ s[d] = c[d]
  <2>1. d \in 0 .. N - 1
    BY <1>2
  <2>2. /\ d \in Slots(rf)
        /\ d < n => n - 1 - d \in Slots(rb)
        /\ d >= n => n - 1 - d \notin Slots(rb)
    BY <1>1, ReadSlots
  <2>3. At(f, d) = Taken(y, fwd, d)
    BY <1>3, <2>2 DEF At
  <2>4. At(b, n - 1 - d) = IF d < n THEN Taken(y, rev, n - 1 - d) ELSE 0
    <3>1. CASE d < n
      BY <1>3, <2>2, <3>1 DEF At
    <3>2. CASE ~(d < n)
      <4>1. d >= n
        BY <1>1, <2>1, <3>2
      <4>2. QED BY <1>3, <2>2, <3>2, <4>1 DEF At
    <3>3. QED BY <3>1, <3>2
  <2>5. s[d] = At(f, d) + At(b, n - 1 - d)
    BY DEF s
  <2>6. QED BY <1>4, <2>1, <2>3, <2>4, <2>5
<1>7. ASSUME NEW d \in lo .. end
      PROVE  d \in R <=> CarryInto(c, lo, d, carryIn)
  <2>1. \A i \in lo .. d - 1 : i \in Slots(out)
    BY <1>2
  <2>2. \A i \in lo .. d - 1 : s[i] = c[i]
    BY <1>6, <2>1
  <2>3. CarryInto(s, lo, d, carryIn) <=> CarryInto(c, lo, d, carryIn)
    <3>1. d \in Nat
      BY <1>2
    <3>2. QED BY <1>2, <2>2, <3>1, CarryOfEqual
  <2>4. d \in R <=> CarryInto(s, lo, d, carryIn)
    BY Zenon DEF R, Receiving
  <2>5. QED BY <2>3, <2>4
<1>8. ASSUME NEW d \in Slots(out)
      PROVE  o.digit[d] = Resolved(c[d], CarryInto(c, lo, d, carryIn))
  <2>1. o.digit[d] = Resolved(s[d], d \in R)
    BY <1>5
  <2>2. s[d] = c[d] /\ d \in lo .. end
    BY <1>2, <1>6
  <2>3. QED BY ONLY <1>7, <2>1, <2>2, ResolvedSame, ZenonT(60)
<1>9. o.carry <=> CarryInto(c, lo, end, carryIn)
  <2>1. end \in lo .. end
    BY <1>2
  <2>2. QED BY <1>5, <1>7, <2>1
<1>10. R # {} <=> carryIn \/ \E d \in Slots(out) : c[d] > 9
  <2>1. \A i \in lo .. end - 1 : c[i] \in Int
    <3>1. \A i \in lo .. end - 1 : i \in 0 .. N - 1
      BY <1>2
    <3>2. QED BY <1>4, <3>1
  <2>2. (\E d \in lo .. end : CarryInto(c, lo, d, carryIn))
           <=> carryIn \/ \E j \in lo .. end - 1 : c[j] > 9
    BY <1>2, <2>1, CarriedInRange
  <2>3. R \subseteq lo .. end
    BY DEF R, Receiving
  <2>4. R # {} <=> \E d \in lo .. end : CarryInto(c, lo, d, carryIn)
    BY <1>7, <2>3
  <2>5. QED BY <1>2, <2>2, <2>4
<1>11. o.equal <=> \A d \in Slots(out) :
         Taken(y, fwd, d) = IF d < n THEN Taken(y, rev, n - 1 - d) ELSE 0
  BY <1>5, <1>6
<1>12. DOMAIN o.digit = Slots(out) /\ o.carry \in BOOLEAN /\ o.carried \in BOOLEAN /\ o.equal \in BOOLEAN
  BY <1>5
<1>13. o.carried <=> ~IsEmpty(out) /\ (carryIn \/ \E d \in Slots(out) : c[d] > 9)
  BY <1>5, <1>10
<1>14. Consumes(o, out, c, carryIn)
  BY <1>8, <1>9, <1>12, <1>13 DEF Consumes, lo, end
<1>15. o.equal <=> EqualIn(out, y, n, fwd, rev)
  BY <1>11 DEF EqualIn
<1>16. QED BY <1>14, <1>15 DEF o, c

(* A guessed interval holds the true digits, those it guessed wrong        *)
(* excepted.                                                               *)
LEMMA GuessHolds ==
  ASSUME NEW s, NEW y, NEW m, NEW lines, IsStep(s, y, m, lines),
         NEW r, IsRange(r, lines)
  PROVE  /\ WrongDigits(RippleOf(s, r, m)) /\ DOMAIN RippleOf(s, r, m) = Rippled(s, r, m)
         /\ HoldsDigits(Speculated(s, r), r, y, RippleOf(s, r, m))
         /\ Rippled(s, r, m) \subseteq Slots(r)
         /\ \A p \in Rippled(s, r, m) : p < m
<1> DEFINE had == Speculated(s, r)
           wrong == RippleOf(s, r, m)
           W == Rippled(s, r, m)
<1>1. DOMAIN wrong = W /\ \A p \in W : wrong[p] = had[p]
  BY DEF RippleOf
<1>2. m \in Nat \ {0} /\ lines \in Nat
  BY DEF IsStep
<1>3. W \subseteq Slots(r) /\ \A p \in W : p < m
  <2>1. r[1] * DPL \in Nat /\ r[2] * DPL \in Nat
    BY <1>2, RangeSlots
  <2>2. W \subseteq r[1] * DPL .. MinOf(r[2] * DPL, m) - 1
    BY DEF Rippled
  <2> HIDE DEF W
  <2>3. QED BY <1>2, <2>1, <2>2 DEF MinOf, Slots
<1>4. DOMAIN had = Slots(r)
  BY DEF Speculated
<1>5. \A p \in Slots(r) : had[p] \in Digit /\ (p \notin W => had[p] = y[p])
  BY GuessIs
<1> HIDE DEF had, wrong, W
<1>6. WrongDigits(wrong)
  BY <1>1, <1>3, <1>5 DEF WrongDigits
<1>7. HoldsDigits(had, r, y, wrong)
  BY <1>1, <1>4, <1>5 DEF HoldsDigits, Taken
<1>8. QED BY <1>1, <1>3, <1>6, <1>7 DEF had, wrong, W

(* A step without a carry leaves a palindrome of the same length, and no   *)
(* digit a pass could guess wrongly.                                       *)
LEMMA NoCarryIs ==
  ASSUME NEW n \in Nat \ {0}, NEW x \in Number(n), ~AnyCarried(x, n),
         NEW m, m = n + Bit(PrescanGrow(x, n)), NEW lines \in Nat, m <= lines * DPL
  PROVE  LET s == SumsOf(x, n, lines)
             y == DigitsOf(s)
         IN  /\ m = n /\ IsPalindrome(ReverseAdd(x, n), m)
             /\ \A d \in 0 .. lines * DPL - 1 : ~(s[d] > 9)
             /\ \A d \in 0 .. lines * DPL - 1 : y[d] = IF d < m THEN y[m - 1 - d] ELSE 0
             /\ \A r : IsRange(r, lines) => Rippled(s, r, m) = {}
<1> DEFINE s == SumsOf(x, n, lines)
           y == DigitsOf(s)
           N == lines * DPL
           z == ReverseAdd(x, n)
<1>1. /\ m \in {n, n + 1} /\ IsStep(s, y, m, lines)
      /\ \A d \in DOMAIN s : d >= n => s[d] = 0
      /\ \A d \in 0 .. n - 1 : s[d] = Sums(x, n)[d]
      /\ \A d \in DOMAIN s : y[d] = IF d < m THEN z[d] ELSE 0
  BY StepIs
<1>2. N \in Nat /\ m <= N /\ m = n + Bit(PrescanGrow(x, n))
  BY LineBase
<1>3. z = Sums(x, n) /\ IsPalindrome(z, n)
  BY NoCarryNoAsymmetry
<1>4. \A d \in 0 .. n - 1 : ~(Sums(x, n)[d] > 9)
  BY CarriedIffGenerated
<1>5. m = n
  <2>1. PrescanGrow(x, n) = FALSE
    BY <1>4 DEF PrescanGrow
  <2>2. Bit(PrescanGrow(x, n)) = 0
    BY <2>1 DEF Bit
  <2>3. QED BY <1>2, <2>2
<1>6. DOMAIN s = 0 .. N - 1
  BY <1>1 DEF IsStep
<1> HIDE DEF s, y, N, z
<1>7. \A d \in 0 .. N - 1 : ~(s[d] > 9)
  <2> SUFFICES ASSUME NEW d \in 0 .. N - 1 PROVE ~(s[d] > 9)
    OBVIOUS
  <2>1. CASE d < n
    <3>1. d \in 0 .. n - 1
      BY <2>1
    <3>2. QED BY <1>1, <1>4, <3>1
  <2>2. CASE ~(d < n)
    <3>1. d >= n
      BY <2>2
    <3>2. QED BY <1>1, <1>6, <3>1
  <2>3. QED BY <2>1, <2>2
<1>8. ASSUME NEW d \in 0 .. N - 1 PROVE y[d] = IF d < m THEN y[m - 1 - d] ELSE 0
  <2>1. CASE d < m
    <3>1. d \in 0 .. n - 1 /\ m - 1 - d \in 0 .. N - 1 /\ m - 1 - d < m /\ m - 1 - d = n - 1 - d
      BY <1>2, <1>5, <2>1
    <3>2. y[d] = z[d] /\ y[m - 1 - d] = z[n - 1 - d]
      BY <1>1, <1>6, <2>1, <3>1
    <3>3. z[n - 1 - d] = z[d]
      BY <1>3, <3>1, SumsType
    <3>4. QED BY <2>1, <3>2, <3>3
  <2>2. CASE ~(d < m)
    BY <1>1, <1>6, <2>2
  <2>3. QED BY <2>1, <2>2
<1>9. ASSUME NEW r, IsRange(r, lines) PROVE Rippled(s, r, m) = {}
  <2> DEFINE base == r[1] * DPL
  <2> SUFFICES ASSUME NEW p \in Rippled(s, r, m) PROVE FALSE
    OBVIOUS
  <2>1. base \in Nat /\ r[2] * DPL \in Nat
    BY <1>9, RangeSlots
  <2>2. p \in base .. MinOf(r[2] * DPL, m) - 1 /\ CarryInto(s, 0, base, FALSE)
    BY DEF Rippled
  <2>3. base < m
    BY <1>5, <2>1, <2>2 DEF MinOf
  <2>4. PICK j \in 0 .. base - 1 : s[j] > 9
    BY <2>2 DEF CarryInto
  <2> HIDE DEF base
  <2>5. j \in 0 .. N - 1
    BY <1>2, <1>5, <2>1, <2>3, <2>4
  <2>6. QED BY <1>7, <2>4, <2>5
<1>10. QED BY <1>3, <1>5, <1>7, <1>8, <1>9 DEF s, y, N, z

(* A thread has been through its rounds over a number of n digits. *)
DoneAt(t, n, m) ==
  m \notin DOMAIN RoundsOf(t, n) /\ \A k \in 0 .. m - 1 : k \in DOMAIN RoundsOf(t, n)

(* Every slot of the number has a thread that computes it on its rounds.   *)
LEMMA SlotCovered ==
  ASSUME NEW n \in Nat \ {0}, NEW d \in 0 .. DivCeil(n, DPL) * DPL - 1
  PROVE  \E t \in Thread : \A m \in Nat : DoneAt(t, n, m) =>
           \E k \in 0 .. m - 1 :
             /\ k \in DOMAIN RoundsOf(t, n)
             /\ \/ d \in Slots(RoundsOf(t, n)[k].at.lo)
                \/ d \in Slots(RoundsOf(t, n)[k].at.hi)
<1> DEFINE x == d \div DPL
           lines == DivCeil(n, DPL)
<1>1. lines \in Nat /\ DPL \in Nat \ {0} /\ lines * DPL \in Nat
  BY LinesOfDigits, LineBase
<1>2. d \in Nat /\ d < lines * DPL
  BY <1>1
<1>3. x \in 0 .. lines - 1
  <2>1. x \in Nat /\ x < lines
    BY <1>1, <1>2, LineOfSlot
  <2> HIDE DEF x, lines
  <2>2. QED BY <1>1, <2>1
<1> HIDE DEF x
<1>4. PICK t \in Thread : \/ x \in LowStartOf(t, n) .. LowEndOf(t, n) - 1
                          \/ x \in HighStartOf(t, n) .. HighEndOf(t, n) - 1
  BY <1>3, EveryLine
<1>5. ASSUME NEW m \in Nat, DoneAt(t, n, m)
      PROVE  \E k \in 0 .. m - 1 :
               /\ k \in DOMAIN RoundsOf(t, n)
               /\ \/ d \in Slots(RoundsOf(t, n)[k].at.lo)
                  \/ d \in Slots(RoundsOf(t, n)[k].at.hi)
  <2>1. m \notin DOMAIN RoundsOf(t, n) /\ \A k \in 0 .. m - 1 : k \in DOMAIN RoundsOf(t, n)
    BY <1>5 DEF DoneAt
  <2>2. PICK k \in 0 .. m - 1 : \/ x \in Lines(RoundsOf(t, n)[k].at.lo)
                               \/ x \in Lines(RoundsOf(t, n)[k].at.hi)
    BY <1>4, <2>1, Covered
  <2>3. k \in DOMAIN RoundsOf(t, n)
    BY <2>1
  <2>4. IsRange(RoundsOf(t, n)[k].at.lo, lines) /\ IsRange(RoundsOf(t, n)[k].at.hi, lines)
    BY <2>3, RoundLines
  <2>5. d \in Slots(RoundsOf(t, n)[k].at.lo) \/ d \in Slots(RoundsOf(t, n)[k].at.hi)
    BY <1>1, <1>2, <2>2, <2>4, RangeSlots DEF x
  <2>6. QED BY <2>3, <2>5
<1>6. QED BY <1>5

=============================================================================
