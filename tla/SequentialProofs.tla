--------------------------- MODULE SequentialProofs ---------------------------
(***************************************************************************)
(* Theorems about what nothing runs beside: the iteration that every       *)
(* engine implements, and the reads of a pass of the packed engine.        *)
(*                                                                         *)
(* The iteration, from every starting number: the hard theorem is about    *)
(* what the loops miss.  A step that carried may yield a palindrome, which *)
(* is not looked at.  The next step then carries nowhere and yields        *)
(* another, for numbers of any length.  The argument is about an           *)
(* addition's column sums s, its carries c (0 or 1) and its digits y.  If  *)
(* the result has as many columns as digits, the lowest carry breaks the   *)
(* symmetry one column further out, on the other side.  If it has grown,   *)
(* the leading 1 is the lowest digit too, and from there column by column  *)
(* every sum is 0 or 11.                                                   *)
(*                                                                         *)
(* The rounds: whatever the length of the number, the number of threads    *)
(* and the size of the chunks, each round of a fused pass materializes all *)
(* the lines that it reads, and they fit its buffers.                      *)
(*                                                                         *)
(* The funnel: it reads the mirror image of any line of any number, at     *)
(* every width a build can have.  The heart of it is that the descending   *)
(* indices wrap around twice without harm: as bytes, modulo 256, and in    *)
(* the two planes, modulo their length, which divides 256.                 *)
(***************************************************************************)
EXTENDS ReverseAddLoop, RoundWalk, Funnel, ArithmeticProofs

-----------------------------------------------------------------------------
(* The iteration *)

(* A proper number of n digits is a number of its own length. *)
LEMMA ProperLength ==
  ASSUME NEW n \in Nat \ {0}, NEW x \in Number(n), Proper(x, n)
  PROVE  IsProper(x) /\ NumDigits(x) = n
BY NumDigitsOfNumber DEF IsProper

LEMMA StepType ==
  ASSUME TypeOK, Step
  PROVE  TypeOK'
<1> DEFINE n == NumDigits(number)
           m == n + Bit(PrescanGrow(number, n))
<1>1. n \in Nat \ {0} /\ number \in Number(n) /\ Proper(number, n)
  BY DEF TypeOK, IsProper, Proper
<1>2. /\ m \in Nat \ {0}
      /\ number' \in Number(m)
      /\ Proper(number', m)
  BY <1>1, ReverseAddProper DEF Step
<1>3. IsProper(number')
  BY <1>2, ProperLength
<1>4. carried' \in BOOLEAN
  BY DEF Step, AnyCarried
<1>5. QED BY <1>3, <1>4 DEF TypeOK, IsProper

LEMMA StepCarryFree ==
  ASSUME TypeOK, Step
  PROVE  CarryFreeIsPalindrome'
<1> DEFINE n == NumDigits(number)
<1> SUFFICES ASSUME ~carried'
             PROVE  IsPalindrome(number', NumDigits(number'))
  BY DEF CarryFreeIsPalindrome
<1>1. n \in Nat \ {0} /\ number \in Number(n)
  BY DEF TypeOK, IsProper, Proper
<1>2. ~AnyCarried(number, n)
  BY DEF Step
<1>3. number' = Sums(number, n) /\ IsPalindrome(number', n)
  BY <1>1, <1>2, NoCarryNoAsymmetry DEF Step
<1>4. DOMAIN number' = DOMAIN number
  BY <1>1, <1>3 DEF Sums, Number
<1>5. NumDigits(number') = n
  BY <1>4 DEF NumDigits
<1>6. QED BY <1>3, <1>5

(* Every number a run goes through is a proper one: digits only, and no    *)
(* leading zero.                                                           *)
THEOREM TypeCorrect == Spec => []TypeOK
<1>1. Init => TypeOK
  BY StartAssumption DEF Init, TypeOK
<1>2. TypeOK /\ [Next]_vars => TypeOK'
  <2>1. CASE Step
    BY <2>1, StepType
  <2>2. CASE UNCHANGED vars
    BY <2>2 DEF vars, TypeOK
  <2>3. QED BY <2>1, <2>2 DEF Next
<1>3. QED BY <1>1, <1>2, PTL DEF Spec

(* Whenever a step carries nowhere, its result is a palindrome: the test   *)
(* the loops reserve for such steps always succeeds.                       *)
THEOREM CarryFreeTestSucceeds == Spec => []CarryFreeIsPalindrome
<1>1. Init => CarryFreeIsPalindrome
  BY DEF Init, CarryFreeIsPalindrome
<1>2. TypeOK /\ CarryFreeIsPalindrome /\ [Next]_vars => CarryFreeIsPalindrome'
  <2>1. CASE TypeOK /\ Step
    BY <2>1, StepCarryFree
  <2>2. CASE CarryFreeIsPalindrome /\ UNCHANGED vars
    BY <2>2 DEF vars, CarryFreeIsPalindrome
  <2>3. QED BY <2>1, <2>2 DEF Next
<1>3. QED BY <1>1, <1>2, TypeCorrect, PTL DEF Spec

-----------------------------------------------------------------------------
(* Palindromes after a carry *)

(* An addition of a number of n digits and its reversal, carry by carry.   *)
Addition(n, s, c, y) ==
  /\ s \in [0 .. n - 1 -> 0 .. 18]
  /\ \A d \in 0 .. n - 1 : s[n - 1 - d] = s[d]
  /\ c \in [0 .. n -> {0, 1}]
  /\ c[0] = 0
  /\ \A d \in 0 .. n - 1 : c[d + 1] = 1 <=> s[d] + c[d] > 9
  /\ \A d \in 0 .. n - 1 : y[d] = s[d] + c[d] - 10 * c[d + 1]

(* One column of it and the mirrored one, as plain facts. *)
LEMMA Column ==
  ASSUME NEW n \in Nat \ {0}, NEW s, NEW c, NEW y, Addition(n, s, c, y),
         NEW d \in 0 .. n - 1
  PROVE  /\ s[d] \in 0 .. 18 /\ c[d] \in {0, 1} /\ c[d + 1] \in {0, 1}
         /\ c[d + 1] = 1 <=> s[d] + c[d] > 9
         /\ y[d] = s[d] + c[d] - 10 * c[d + 1]
         /\ n - 1 - d \in 0 .. n - 1
         /\ s[n - 1 - d] = s[d]
         /\ c[n - 1 - d] \in {0, 1} /\ c[n - d] \in {0, 1}
         /\ c[n - d] = 1 <=> s[d] + c[n - 1 - d] > 9
         /\ y[n - 1 - d] = s[d] + c[n - 1 - d] - 10 * c[n - d]
<1>1. /\ d \in 0 .. n /\ d + 1 \in 0 .. n
      /\ n - 1 - d \in 0 .. n - 1 /\ n - 1 - d \in 0 .. n
      /\ n - d \in 0 .. n /\ n - 1 - d + 1 = n - d
  OBVIOUS
<1>2. s[n - 1 - d] = s[d]
  BY DEF Addition
<1>3. /\ s[d] \in 0 .. 18 /\ c[d] \in {0, 1} /\ c[d + 1] \in {0, 1}
      /\ c[n - 1 - d] \in {0, 1} /\ c[n - d] \in {0, 1}
  BY <1>1 DEF Addition
<1>4. /\ c[d + 1] = 1 <=> s[d] + c[d] > 9
      /\ y[d] = s[d] + c[d] - 10 * c[d + 1]
  BY DEF Addition
<1>5. /\ c[n - 1 - d + 1] = 1 <=> s[n - 1 - d] + c[n - 1 - d] > 9
      /\ y[n - 1 - d] = s[n - 1 - d] + c[n - 1 - d] - 10 * c[n - 1 - d + 1]
  BY <1>1 DEF Addition
<1>6. QED BY <1>1, <1>2, <1>3, <1>4, <1>5

(* A palindrome of as many digits as columns: nothing carried. *)
LEMMA SameLengthNoCarry ==
  ASSUME NEW n \in Nat \ {0}, NEW s, NEW c, NEW y, Addition(n, s, c, y),
         c[n] = 0, \A d \in 0 .. n - 1 : y[d] = y[n - 1 - d]
  PROVE  \A d \in 0 .. n : c[d] = 0
<1> DEFINE S == {d \in 0 .. n : c[d] = 1}
<1> SUFFICES ASSUME S # {} PROVE FALSE
  BY ZenonT(60) DEF Addition
<1>1. PICK m \in S : \A k \in S : m <= k
  <2>1. S \in SUBSET Nat
    OBVIOUS
  <2>2. QED BY <2>1, LeastElement
<1>2. m \in 1 .. n /\ c[m] = 1
  BY <1>1 DEF Addition
<1> DEFINE d == m - 1
<1>3. d \in 0 .. n - 1 /\ d + 1 = m /\ d \in 0 .. n
  BY <1>2
<1>4. c[d] = 0
  <2>1. d \notin S
    BY <1>1, <1>3
  <2>2. c[d] \in {0, 1}
    BY <1>3, Column
  <2>3. QED BY <1>3, <2>1, <2>2
<1>5. s[d] > 9 /\ c[n - d] = 1
  <2>1. s[d] + c[d] > 9 /\ s[d] \in 0 .. 18
    BY <1>2, <1>3, Column
  <2>2. s[d] > 9
    BY <1>4, <2>1
  <2>3. c[n - 1 - d] \in {0, 1} /\ (c[n - d] = 1 <=> s[d] + c[n - 1 - d] > 9)
    BY <1>3, Column
  <2>4. QED BY <2>1, <2>2, <2>3
<1>6. CASE d = 0
  BY <1>5, <1>6
<1>7. CASE d # 0
  <2> DEFINE e == d - 1
  <2>1. e \in 0 .. n - 1 /\ e + 1 = d /\ n - 1 - e = n - d /\ e \in 0 .. n
    BY <1>3, <1>7
  <2>2. c[e] = 0
    <3>1. e \notin S
      BY <1>1, <1>3, <2>1
    <3>2. c[e] \in {0, 1}
      BY <2>1, Column
    <3>3. QED BY <2>1, <3>1, <3>2
  <2>3. y[e] = s[e] /\ s[e] \in 0 .. 18
    <3>1. y[e] = s[e] + c[e] - 10 * c[e + 1] /\ s[e] \in 0 .. 18
      BY <2>1, Column
    <3>2. QED BY <1>4, <2>1, <2>2, <3>1
  <2>4. y[n - 1 - e] = s[e] + 1 - 10 * c[n - e] /\ c[n - e] \in {0, 1}
    <3>1. /\ y[n - 1 - e] = s[e] + c[n - 1 - e] - 10 * c[n - e]
          /\ c[n - e] \in {0, 1}
      BY <2>1, Column
    <3>2. c[n - 1 - e] = 1
      BY <1>5, <2>1
    <3>3. QED BY <3>1, <3>2
  <2>5. y[e] = y[n - 1 - e]
    BY <2>1
  <2>6. QED BY <2>3, <2>4, <2>5
<1>8. QED BY <1>6, <1>7

(* A palindrome that has grown: every column sum is 0 or 11. *)
THEOREM GrownSums ==
  ASSUME NEW n \in Nat \ {0}, NEW s, NEW c, NEW y, Addition(n, s, c, y),
         c[n] = 1, y[n] = 1, \A d \in 0 .. n : y[d] = y[n - d]
  PROVE  \A d \in 0 .. n - 1 : s[d] \in {0, 11}
<1> DEFINE S == {d \in 0 .. n - 1 : s[d] \notin {0, 11}}
<1> SUFFICES ASSUME S # {} PROVE FALSE
  OBVIOUS
<1>1. PICK m \in S : \A k \in S : m <= k
  <2>1. S \in SUBSET Nat
    OBVIOUS
  <2>2. QED BY <2>1, LeastElement
<1>2. m \in 0 .. n - 1 /\ s[m] \in 0 .. 18 /\ s[m] # 0 /\ s[m] # 11
  BY <1>1, Column
<1>3. CASE m = 0
  <2>1. y[0] = 1
    <3>1. 0 \in 0 .. n /\ n - 0 = n
      OBVIOUS
    <3>2. QED BY <3>1
  <2>2. /\ y[0] = s[0] + c[0] - 10 * c[0 + 1] /\ c[0 + 1] \in {0, 1}
        /\ c[n - 1 - 0] \in {0, 1}
        /\ c[n - 0] = 1 <=> s[0] + c[n - 1 - 0] > 9
    BY <1>2, <1>3, Column
  <2>3. c[0] = 0 /\ c[n - 0] = 1
    BY DEF Addition
  <2>4. s[0] + c[n - 1 - 0] > 9 /\ s[0] = 1 + 10 * c[0 + 1]
    BY <1>2, <1>3, <2>1, <2>2, <2>3
  <2>5. QED BY <1>2, <1>3, <2>2, <2>4
<1>4. CASE m # 0
  <2> DEFINE e == m - 1
  <2>1. e \in 0 .. n - 1 /\ e + 1 = m /\ n - 1 - e = n - m /\ n - e = n - m + 1
    BY <1>2, <1>4
  <2>2. s[e] \in {0, 11}
    BY <1>1, <1>2, <2>1
  <2>3. /\ c[e] \in {0, 1} /\ c[m] \in {0, 1}
        /\ c[m] = 1 <=> s[e] + c[e] > 9
        /\ c[n - m] \in {0, 1} /\ c[n - e] \in {0, 1}
        /\ c[n - e] = 1 <=> s[e] + c[n - m] > 9
        /\ y[n - m] = s[e] + c[n - m] - 10 * c[n - e]
    BY <2>1, Column
  <2>4. y[n - m] = c[m] + c[n - m]
    BY <2>2, <2>3
  <2>5. /\ y[m] = s[m] + c[m] - 10 * c[m + 1] /\ c[m + 1] \in {0, 1}
        /\ c[n - 1 - m] \in {0, 1}
        /\ c[n - m] = 1 <=> s[m] + c[n - 1 - m] > 9
    BY <1>2, Column
  <2>6. y[m] = y[n - m]
    BY <1>2
  <2>7. s[m] = 10 * c[m + 1] + c[n - m]
    BY <1>2, <2>3, <2>4, <2>5, <2>6
  <2>8. s[m] \in {1, 10}
    BY <1>2, <2>3, <2>5, <2>7
  <2>9. QED BY <2>3, <2>5, <2>7, <2>8
<1>5. QED BY <1>3, <1>4

(* So its digits are at most 2. *)
LEMMA GrownDigits ==
  ASSUME NEW n \in Nat \ {0}, NEW s, NEW c, NEW y, Addition(n, s, c, y),
         c[n] = 1, y[n] = 1, \A d \in 0 .. n : y[d] = y[n - d]
  PROVE  \A d \in 0 .. n : y[d] \in 0 .. 2
<1> SUFFICES ASSUME NEW d \in 0 .. n - 1 PROVE y[d] \in 0 .. 2
  OBVIOUS
<1>1. s[d] \in {0, 11}
  BY GrownSums
<1>2. /\ c[d] \in {0, 1} /\ c[d + 1] \in {0, 1}
      /\ c[d + 1] = 1 <=> s[d] + c[d] > 9
      /\ y[d] = s[d] + c[d] - 10 * c[d + 1]
  BY Column
<1>3. QED BY <1>1, <1>2

-----------------------------------------------------------------------------

Carries(x, n) == [d \in 0 .. n |-> Bit(CarryInto(Sums(x, n), 0, d, FALSE))]

(* The step of the engines is such an addition, and its carry out is the   *)
(* leading one of a number that grows.                                     *)
LEMMA StepAdds ==
  ASSUME NEW n \in Nat \ {0}, NEW x \in Number(n)
  PROVE  /\ Addition(n, Sums(x, n), Carries(x, n), ReverseAdd(x, n))
         /\ Carries(x, n)[n] = Bit(PrescanGrow(x, n))
         /\ PrescanGrow(x, n) => ReverseAdd(x, n)[n] = 1
<1> DEFINE s == Sums(x, n)
           c == Carries(x, n)
           y == ReverseAdd(x, n)
           g == Bit(PrescanGrow(x, n))
           carry(d) == CarryInto(s, 0, d, FALSE)
<1>1. s \in [0 .. n - 1 -> 0 .. 18]
  <2>1. \A d \in 0 .. n - 1 : s[d] \in 0 .. 18
    BY SumsType
  <2>2. s = [d \in 0 .. n - 1 |-> s[d]]
    BY DEF Sums
  <2>3. QED BY <2>1, <2>2
<1>2. \A d \in 0 .. n - 1 : s[n - 1 - d] = s[d]
  BY SumsType
<1>3. \A d \in 0 .. n : c[d] = Bit(carry(d)) /\ c[d] \in {0, 1}
  BY DEF Carries, Bit
<1>4. c \in [0 .. n -> {0, 1}]
  <2>1. c = [d \in 0 .. n |-> c[d]]
    BY DEF Carries
  <2>2. QED BY <1>3, <2>1
<1>5. c[0] = 0
  <2>1. ~carry(0)
    BY CarryAtBase
  <2>2. 0 \in 0 .. n
    OBVIOUS
  <2>3. c[0] = Bit(carry(0))
    BY <1>3, <2>2
  <2>4. QED BY <2>1, <2>3 DEF Bit
<1>6. \A d \in 0 .. n - 1 : carry(d + 1) <=> s[d] > 9 \/ (s[d] = 9 /\ carry(d))
  <2> SUFFICES ASSUME NEW d \in 0 .. n - 1
               PROVE  carry(d + 1) <=> s[d] > 9 \/ (s[d] = 9 /\ carry(d))
    OBVIOUS
  <2>1. d \in Nat /\ 0 <= d /\ s[d] \in Int
    BY <1>1, SMTT(60)
  <2>2. QED BY <2>1, CarryRecurrence
<1>7. \A d \in 0 .. n - 1 : y[d] = Resolved(s[d], carry(d))
  <2> SUFFICES ASSUME NEW d \in 0 .. n - 1
               PROVE  y[d] = Resolved(s[d], carry(d))
    OBVIOUS
  <2>1. d \in 0 .. n - 1 + g /\ d # n
    BY DEF Bit
  <2>2. QED BY <2>1 DEF ReverseAdd
<1> HIDE DEF s, c, y, carry
<1>8. ASSUME NEW d \in 0 .. n - 1
      PROVE  /\ c[d + 1] = 1 <=> s[d] + c[d] > 9
             /\ y[d] = s[d] + c[d] - 10 * c[d + 1]
  <2>1. s[d] \in 0 .. 18 /\ d \in 0 .. n /\ d + 1 \in 0 .. n
    BY <1>1
  <2>2. CASE carry(d)
    <3>1. c[d] = 1
      BY <1>3, <2>1, <2>2 DEF Bit
    <3>2. c[d + 1] = 1 <=> s[d] >= 9
      <4>1. carry(d + 1) <=> s[d] >= 9
        BY <1>6, <2>1, <2>2
      <4>2. QED BY <1>3, <2>1, <4>1 DEF Bit
    <3>3. y[d] = (IF s[d] >= 9 THEN s[d] - 10 ELSE s[d]) + 1
      BY <1>7, <2>1, <2>2 DEF Resolved, Bit
    <3>4. c[d + 1] \in {0, 1}
      BY <1>3, <2>1
    <3>5. QED BY <2>1, <3>1, <3>2, <3>3, <3>4
  <2>3. CASE ~carry(d)
    <3>1. c[d] = 0
      BY <1>3, <2>1, <2>3 DEF Bit
    <3>2. c[d + 1] = 1 <=> s[d] > 9
      <4>1. carry(d + 1) <=> s[d] > 9
        BY <1>6, <2>1, <2>3
      <4>2. QED BY <1>3, <2>1, <4>1 DEF Bit
    <3>3. y[d] = IF s[d] > 9 THEN s[d] - 10 ELSE s[d]
      BY <1>7, <2>1, <2>3 DEF Resolved, Bit
    <3>4. c[d + 1] \in {0, 1}
      BY <1>3, <2>1
    <3>5. QED BY <2>1, <3>1, <3>2, <3>3, <3>4
  <2>4. QED BY <2>2, <2>3
<1>9. Addition(n, s, c, y)
  BY <1>1, <1>2, <1>4, <1>5, <1>8 DEF Addition
<1>10. c[n] = Bit(PrescanGrow(x, n))
  <2>1. carry(n) <=> PrescanGrow(x, n)
    BY PrescanExact DEF carry, s
  <2>2. n \in 0 .. n
    OBVIOUS
  <2>3. QED BY <1>3, <2>1, <2>2 DEF Bit
<1>11. PrescanGrow(x, n) => y[n] = 1
  <2> SUFFICES ASSUME PrescanGrow(x, n) PROVE y[n] = 1
    OBVIOUS
  <2>1. n \in 0 .. n - 1 + g
    BY DEF Bit
  <2>2. QED BY <2>1 DEF ReverseAdd, y
<1>12. QED BY <1>9, <1>10, <1>11 DEF s, c, y

(* A palindrome equals its mirror image everywhere, not only in the half   *)
(* that is_palindrome compares.                                            *)
LEMMA Mirrored ==
  ASSUME NEW m \in Nat, NEW y, IsPalindrome(y, m)
  PROVE  \A d \in 0 .. m - 1 : y[d] = y[m - 1 - d]
<1> SUFFICES ASSUME NEW d \in 0 .. m - 1 PROVE y[d] = y[m - 1 - d]
  OBVIOUS
<1>1. \A k \in 0 .. m \div 2 - 1 : y[k] = y[m - 1 - k]
  BY DEF IsPalindrome
<1>2. CASE d \in 0 .. m \div 2 - 1
  BY <1>1, <1>2
<1>3. CASE m - 1 - d \in 0 .. m \div 2 - 1
  <2>1. m - 1 - (m - 1 - d) = d
    OBVIOUS
  <2>2. QED BY <1>1, <1>3, <2>1
<1>4. CASE d = m - 1 - d
  BY <1>4
<1>5. QED BY <1>2, <1>3, <1>4

(* The step after a carrying step to a palindrome carries nowhere. *)
THEOREM SkippedOnce ==
  ASSUME NEW n \in Nat \ {0}, NEW x \in Number(n), Proper(x, n),
         AnyCarried(x, n),
         NEW m, m = n + Bit(PrescanGrow(x, n)),
         IsPalindrome(ReverseAdd(x, n), m)
  PROVE  ~AnyCarried(ReverseAdd(x, n), m)
<1> DEFINE s == Sums(x, n)
           c == Carries(x, n)
           y == ReverseAdd(x, n)
<1>1. m \in Nat \ {0} /\ y \in Number(m)
  BY ReverseAddProper
<1>2. Addition(n, s, c, y) /\ c[n] = Bit(PrescanGrow(x, n))
      /\ (PrescanGrow(x, n) => y[n] = 1)
  BY StepAdds
<1>3. \A d \in 0 .. m - 1 : y[d] = y[m - 1 - d]
  BY <1>1, Mirrored
<1>4. CASE ~PrescanGrow(x, n)
  <2>1. m = n /\ c[n] = 0
    BY <1>2, <1>4 DEF Bit
  <2>2. \A d \in 0 .. n : c[d] = 0
    BY <1>2, <1>3, <2>1, SameLengthNoCarry
  <2>3. ~AnyCarried(x, n)
    <3>1. \A d \in 0 .. n : c[d] = Bit(CarryInto(Sums(x, n), 0, d, FALSE))
      BY DEF Carries
    <3>2. ASSUME NEW d \in 1 .. n, CarryInto(Sums(x, n), 0, d, FALSE)
          PROVE  FALSE
      <4>1. d \in 0 .. n
        OBVIOUS
      <4>2. c[d] = 1
        BY <3>1, <3>2, <4>1 DEF Bit
      <4>3. c[d] = 0
        BY <2>2, <4>1
      <4>4. QED BY <4>2, <4>3
    <3>3. QED BY <3>2 DEF AnyCarried
  <2>4. QED BY <2>3
<1>5. CASE PrescanGrow(x, n)
  <2>1. m = n + 1 /\ c[n] = 1 /\ y[n] = 1
    BY <1>2, <1>5 DEF Bit
  <2>2. \A d \in 0 .. n : y[d] = y[n - d]
    BY <1>3, <2>1
  <2>3. \A d \in 0 .. n : y[d] \in 0 .. 2
    BY <1>2, <2>1, <2>2, GrownDigits
  <2>4. \A d \in 0 .. m - 1 : ~(Sums(y, m)[d] > 9)
    <3> SUFFICES ASSUME NEW d \in 0 .. m - 1 PROVE ~(Sums(y, m)[d] > 9)
      OBVIOUS
    <3>1. d \in 0 .. n /\ m - 1 - d \in 0 .. n
      BY <2>1
    <3>2. y[d] \in 0 .. 2 /\ y[m - 1 - d] \in 0 .. 2
      BY <2>3, <3>1
    <3>3. Sums(y, m)[d] = y[d] + y[m - 1 - d]
      BY <1>1, SumsType
    <3>4. QED BY <3>2, <3>3
  <2>5. QED BY <1>1, <2>4, CarriedIffGenerated
<1>6. QED BY <1>4, <1>5

(* In every run, whatever its starting number: a palindrome the loops do   *)
(* not look at is followed by a step that carries nowhere, so by one they  *)
(* find.                                                                   *)
THEOREM SkippedIsFollowed == Spec => SkippedPalindromeIsFollowed
<1> DEFINE Followed ==
      carried' /\ IsPalindrome(number', NumDigits(number'))
        => ~AnyCarried(number', NumDigits(number'))
<1>1. TypeOK /\ [Next]_vars => [Followed]_vars
  <2> SUFFICES ASSUME TypeOK, Step, carried',
                      IsPalindrome(number', NumDigits(number'))
               PROVE  ~AnyCarried(number', NumDigits(number'))
    BY DEF Next
  <2> DEFINE n == NumDigits(number)
             m == n + Bit(PrescanGrow(number, n))
  <2>1. n \in Nat \ {0} /\ number \in Number(n) /\ Proper(number, n)
    BY DEF TypeOK, IsProper, Proper
  <2>2. number' = ReverseAdd(number, n) /\ AnyCarried(number, n)
    BY DEF Step
  <2>3. NumDigits(number') = m
    <3>1. m \in Nat \ {0} /\ number' \in Number(m)
      BY <2>1, <2>2, ReverseAddProper
    <3>2. QED BY <3>1, NumDigitsOfNumber
  <2>4. QED BY <2>1, <2>2, <2>3, SkippedOnce
<1>2. QED BY <1>1, TypeCorrect, PTL DEF Spec, SkippedPalindromeIsFollowed

-----------------------------------------------------------------------------
(* The rounds *)

Left == [low |-> low, high |-> high, ord |-> ord]

(* What is left of the thread's blocks is what a walk can leave, and the   *)
(* first step's result is no longer than the second's, nor shorter by more *)
(* than a digit.                                                           *)
WalkInv ==
  /\ l1 \in Nat /\ l2 \in Nat \ {0} /\ l1 \in {l2, l2 - 1}
  /\ t \in Thread
  /\ OnWalk(t, l2, Left)

LEMMA RoundIs ==
  ASSUME WalkInv
  PROVE  /\ Round = RoundFrom(t, Left, l2)
         /\ Done <=> ~(low < LowEndOf(t, l2) \/ HighStartOf(t, l2) < high)
         /\ low \in Nat /\ high \in Nat /\ ord \in Nat
<1>1. low \in Nat /\ high \in Nat /\ ord \in Nat
  BY DEF WalkInv, OnWalk, Left
<1>2. Round = RoundFrom(t, Left, l2)
  BY DEF Round, RoundFrom, Left, Bounds, q2, Q2Lines
<1>3. LowEndOf(t, l2) \in Nat /\ HighStartOf(t, l2) \in Nat
  BY BlocksOfThread DEF WalkInv
<1>4. Done <=> low >= LowEndOf(t, l2) /\ high <= HighStartOf(t, l2)
  BY DEF Done, Finished, Bounds, Q2Lines, LowEndOf, HighStartOf
<1>5. QED BY <1>1, <1>2, <1>3, <1>4

(* The walk stays in its bounds. *)
LEMMA Walked == WalkSpec => []WalkInv
<1>1. WalkInit => WalkInv
  <2> SUFFICES ASSUME WalkInit PROVE WalkInv
    OBVIOUS
  <2>1. l2 \in Nat \ {0} /\ l1 \in Nat /\ l1 \in {l2, l2 - 1} /\ t \in Thread
    BY LengthAssumption DEF WalkInit
  <2>2. Left = WalkBegin(t, l2)
    BY DEF WalkInit, Left, WalkBegin, LowStartOf, HighEndOf, Bounds, Q2Lines
  <2>3. QED BY <2>1, <2>2, WalkBegins DEF WalkInv
<1>2. WalkInv /\ [WalkNext]_walkVars => WalkInv'
  <2> SUFFICES ASSUME WalkInv, [WalkNext]_walkVars PROVE WalkInv'
    OBVIOUS
  <2>1. CASE DoRound
    <3>1. OnWalk(t, l2, NextRound(t, Left, l2))
      <4>1. Left.low = low /\ Left.high = high
        BY DEF Left
      <4>2. Left.low < LowEndOf(t, l2) \/ HighStartOf(t, l2) < Left.high
        BY <2>1, <4>1, RoundIs DEF DoRound
      <4>3. QED BY <4>2, WalkRound DEF WalkInv
    <3>2. Left' = NextRound(t, Left, l2)
      BY <2>1, RoundIs DEF DoRound, Left, NextRound, After
    <3>3. t' = t /\ l1' = l1 /\ l2' = l2
      BY <2>1 DEF DoRound
    <3>4. QED BY <3>1, <3>2, <3>3 DEF WalkInv
  <2>2. CASE UNCHANGED walkVars
    BY <2>2 DEF walkVars, WalkInv, Left
  <2>3. QED BY <2>1, <2>2 DEF WalkNext, Stop
<1>3. QED BY <1>1, <1>2, PTL DEF WalkSpec

(* The chunks of a round, and its intervals. *)
LEMMA RoundChunks ==
  ASSUME WalkInv
  PROVE  LET y == Round.lo[2]
             x == Round.hi[1]
         IN  /\ Round.lo = <<low, y>> /\ Round.hi = <<x, high>>
             /\ y \in Nat /\ x \in Nat /\ low <= y /\ x <= high
             /\ y - low <= CHUNK_LINES
             /\ x = high \/ q2 - y <= x \/ y = low
             /\ Round.rLo = IntervalUnion(Round.lo, BackwardOf(Round.hi, q2, Q2Lines))
             /\ Round.rHi = IntervalUnion(Round.hi, BackwardOf(Round.lo, q2, Q2Lines))
<1> DEFINE y == Round.lo[2]
           x == Round.hi[1]
           le == LowEndOf(t, l2)
           hs == HighStartOf(t, l2)
<1>1. /\ low \in Nat /\ high \in Nat /\ le \in Nat /\ hs \in Nat /\ q2 \in Nat
      /\ low <= le /\ hs <= high /\ Left.low = low /\ Left.high = high
      /\ Round = RoundFrom(t, Left, l2) /\ l2 \in Nat \ {0} /\ t \in Thread
  BY RoundIs, BlocksOfThread DEF WalkInv, OnWalk, Left, q2
<1>2. /\ Round.lo = <<low, IF low < le THEN ChunkEnd(low, le) ELSE low>>
      /\ y \in Nat /\ low <= y /\ y - low <= CHUNK_LINES
      /\ low < le <=> low < y
      /\ Round.hi = <<x, high>> /\ x \in Nat /\ hs <= x /\ x <= high
      /\ low < le /\ hs < high => x = MinOf(MaxOf(q2 - y, hs), high)
      /\ Round.rLo = IntervalUnion(Round.lo, BackwardOf(Round.hi, q2, Q2Lines))
      /\ Round.rHi = IntervalUnion(Round.hi, BackwardOf(Round.lo, q2, Q2Lines))
  BY <1>1, RoundShape DEF q2, Q2Lines
<1>3. Round.lo = <<low, y>>
  BY <1>2
<1> HIDE DEF y, x, le, hs
<1>4. x = high \/ q2 - y <= x \/ y = low
  BY <1>1, <1>2 DEF MinOf, MaxOf
<1>5. QED BY <1>2, <1>3, <1>4 DEF x, y

(* The lines of the two lengths. *)
LEMMA Lengthy ==
  ASSUME WalkInv
  PROVE  /\ q1 \in Nat /\ q2 \in Nat /\ Q1Lines \in Int /\ Q2Lines \in Int
         /\ q1 \in {q2, q2 - 1}
<1>1. /\ l1 \in Nat /\ l2 \in Nat /\ l1 \in {l2, l2 - 1} /\ DPL \in Nat \ {0}
      /\ l1 + DPL - 1 \in Nat /\ l2 + DPL - 1 \in Nat
  BY LineAssumption DEF WalkInv
<1>2. q1 \in Nat /\ q2 \in Nat /\ Q1Lines \in Nat /\ Q2Lines \in Nat
  BY <1>1, Quotient DEF q1, q2, Q1Lines, Q2Lines, DivCeil
<1>3. CASE l1 = l2
  BY <1>2, <1>3 DEF q1, q2
<1>4. CASE l1 = l2 - 1
  <2>1. /\ q2 * DPL <= l2 /\ l2 < q2 * DPL + DPL
        /\ q1 * DPL <= l2 - 1 /\ l2 - 1 < q1 * DPL + DPL
    BY <1>1, <1>4, Quotient DEF q1, q2
  <2> HIDE DEF q1, q2
  <2>2. /\ (q1 + 2) * DPL = q1 * DPL + DPL + DPL /\ (q2 + 1) * DPL = q2 * DPL + DPL
        /\ q1 * DPL \in Nat /\ q2 * DPL \in Nat
    BY <1>1, <1>2
  <2>3. q2 * DPL < (q1 + 2) * DPL /\ q1 * DPL < (q2 + 1) * DPL
    BY <1>1, <2>1, <2>2
  <2>4. q2 < q1 + 2 /\ q1 < q2 + 1
    BY <1>1, <1>2, <2>3, Cancel
  <2>5. QED BY <1>2, <2>4
<1>5. QED BY <1>1, <1>2, <1>3, <1>4

(* At both fused levels, of any number, every line a round reads is in one *)
(* of its scratch buffers.                                                 *)
THEOREM NothingReadOutside == WalkSpec => []ReadsInScratch
<1>1. WalkInv => ReadsInScratch
  <2> SUFFICES ASSUME WalkInv PROVE ReadsInScratch
    OBVIOUS
  <2>1. /\ Round.lo \in Interval /\ Round.hi \in Interval
        /\ Round.rLo = IntervalUnion(Round.lo, BackwardOf(Round.hi, q2, Q2Lines))
        /\ Round.rHi = IntervalUnion(Round.hi, BackwardOf(Round.lo, q2, Q2Lines))
    <3>1. low \in Nat /\ high \in Nat
      BY RoundIs
    <3>2. \E y, x \in Nat : Round.lo = <<low, y>> /\ Round.hi = <<x, high>>
      BY RoundChunks
    <3>3. Round.lo \in Interval /\ Round.hi \in Interval
      BY ONLY <3>1, <3>2 DEF Interval
    <3>4. /\ Round.rLo = IntervalUnion(Round.lo, BackwardOf(Round.hi, q2, Q2Lines))
          /\ Round.rHi = IntervalUnion(Round.hi, BackwardOf(Round.lo, q2, Q2Lines))
      BY RoundChunks
    <3>5. QED BY ONLY <3>3, <3>4
  <2>2. q1 \in Int /\ q2 \in Int /\ Q1Lines \in Int /\ Q2Lines \in Int
    BY Lengthy
  <2> HIDE DEF Round, q1, q2, Q1Lines, Q2Lines
  <2>3. /\ Round.rLo \in Interval /\ Round.rHi \in Interval
        /\ InScratch(Round.lo, Round.rLo, Round.rHi, q2, Q2Lines)
        /\ InScratch(Round.hi, Round.rHi, Round.rLo, q2, Q2Lines)
    BY <2>1, <2>2, PairReads, SMTT(60)
  <2>4. /\ InScratch(Round.rLo, FirstLo, FirstHi, q1, Q1Lines)
        /\ InScratch(Round.rHi, FirstHi, FirstLo, q1, Q1Lines)
    BY <2>2, <2>3, PairReads DEF FirstLo, FirstHi, FirstStepLo, FirstStepHi
  <2>5. QED BY <2>3, <2>4 DEF ReadsInScratch
<1>2. QED BY <1>1, Walked, PTL

-----------------------------------------------------------------------------
(* The sizes of a round's intervals *)

(* The lines of an interval are from m on, and below n. *)
Within(r, m, n) == IsEmpty(r) \/ (m <= r[1] /\ r[2] <= n)

LEMMA UnionWithin ==
  ASSUME NEW r \in Interval, NEW u \in Interval, NEW m \in Int, NEW n \in Int,
         Within(r, m, n), Within(u, m, n)
  PROVE  Within(IntervalUnion(r, u), m, n)
  BY DEF Interval, Within, IntervalUnion, IsEmpty, MinOf, MaxOf

(* A mirror image is at most a line wider. *)
LEMMA BackwardWithin ==
  ASSUME NEW r \in Interval, NEW q \in Int, NEW limit \in Int,
         NEW m \in Int, NEW n \in Int, Within(r, m, n)
  PROVE  Within(BackwardOf(r, q, limit), q - n, q - m + 1)
<1>1. r[1] \in Int /\ r[2] \in Int
  BY DEF Interval
<1>2. CASE IsEmpty(r)
  BY <1>2 DEF BackwardOf, Within, IsEmpty
<1>3. CASE ~IsEmpty(r)
  <2> DEFINE lo == MaxOf(q - r[2], 0)
             hi == MinOf(MaxOf(q - r[1] + 1, 0), limit)
  <2>1. BackwardOf(r, q, limit) = <<lo, hi>>
    BY <1>3 DEF BackwardOf
  <2>2. m <= r[1] /\ r[2] <= n
    BY <1>3 DEF Within
  <2>3. lo \in Int /\ hi \in Int /\ q - n <= lo /\ 0 <= lo
    BY <1>1, <2>2 DEF MaxOf, MinOf
  <2>4. hi <= q - m + 1 \/ hi <= 0
    BY <1>1, <2>2 DEF MaxOf, MinOf
  <2> HIDE DEF lo, hi
  <2>5. QED BY <2>1, <2>3, <2>4 DEF Within, IsEmpty
<1>4. QED BY <1>2, <1>3

LEMMA WithinWider ==
  ASSUME NEW r \in Interval, NEW m \in Int, NEW n \in Int, Within(r, m, n),
         NEW x \in Int, NEW y \in Int, x <= m, n <= y
  PROVE  Within(r, x, y)
  BY DEF Interval, Within, IsEmpty

LEMMA WithinFits ==
  ASSUME NEW r \in Interval, NEW m \in Int, NEW n \in Int, Within(r, m, n),
         n - m <= SCRATCH_LINES
  PROVE  Size(r) <= SCRATCH_LINES
<1>1. SCRATCH_LINES \in Nat
  BY LineAssumption DEF SCRATCH_LINES
<1>2. QED BY <1>1 DEF Interval, Within, Size, IsEmpty

(* What the two levels need for a low chunk from x to y, and a high one    *)
(* that is, to within a line, the mirror image of it.                      *)
LEMMA PairFits ==
  ASSUME NEW lo \in Interval, NEW hi \in Interval, NEW x \in Int, NEW y \in Int,
         NEW q \in Int, NEW limit \in Int, NEW p \in {q, q - 1}, NEW limit1 \in Int,
         Within(lo, x, y), Within(hi, q - y - 1, q - x + 1),
         x <= y, y - x <= CHUNK_LINES
  PROVE  LET rLo == IntervalUnion(lo, BackwardOf(hi, q, limit))
             rHi == IntervalUnion(hi, BackwardOf(lo, q, limit))
         IN  \A r \in {rLo, rHi, IntervalUnion(rLo, BackwardOf(rHi, p, limit1)),
                       IntervalUnion(rHi, BackwardOf(rLo, p, limit1))} :
               Size(r) <= SCRATCH_LINES
<1> DEFINE rLo == IntervalUnion(lo, BackwardOf(hi, q, limit))
           rHi == IntervalUnion(hi, BackwardOf(lo, q, limit))
           fLo == IntervalUnion(rLo, BackwardOf(rHi, p, limit1))
           fHi == IntervalUnion(rHi, BackwardOf(rLo, p, limit1))
<1>1. CHUNK_LINES \in Nat /\ SCRATCH_LINES = CHUNK_LINES + 16 /\ p \in Int
  BY LineAssumption DEF SCRATCH_LINES
<1>2. /\ BackwardOf(hi, q, limit) \in Interval /\ BackwardOf(lo, q, limit) \in Interval
      /\ rLo \in Interval /\ rHi \in Interval
  BY BackwardContains, UnionContains
<1>3. Within(rLo, x - 2, y + 3)
  <2>1. Within(BackwardOf(hi, q, limit), q - (q - x + 1), q - (q - y - 1) + 1)
    BY BackwardWithin
  <2>2. Within(BackwardOf(hi, q, limit), x - 2, y + 3)
    BY <1>2, <2>1, WithinWider
  <2>3. Within(lo, x - 2, y + 3)
    BY WithinWider
  <2>4. QED BY <1>2, <2>2, <2>3, UnionWithin
<1>4. Within(rHi, q - y - 1, q - x + 1)
  <2>1. Within(BackwardOf(lo, q, limit), q - y, q - x + 1)
    BY BackwardWithin
  <2>2. Within(BackwardOf(lo, q, limit), q - y - 1, q - x + 1)
    BY <1>2, <2>1, WithinWider
  <2>3. QED BY <1>2, <2>2, UnionWithin
<1> HIDE DEF rLo, rHi
<1>5. /\ BackwardOf(rHi, p, limit1) \in Interval /\ BackwardOf(rLo, p, limit1) \in Interval
      /\ fLo \in Interval /\ fHi \in Interval
  BY <1>1, <1>2, BackwardContains, UnionContains
<1>6. Within(fLo, x - 3, y + 4)
  <2>1. Within(BackwardOf(rHi, p, limit1), p - (q - x + 1), p - (q - y - 1) + 1)
    BY <1>1, <1>2, <1>4, BackwardWithin
  <2>2. /\ p - (q - x + 1) \in Int /\ p - (q - y - 1) + 1 \in Int
        /\ x - 3 <= p - (q - x + 1) /\ p - (q - y - 1) + 1 <= y + 4
    OBVIOUS
  <2>3. Within(BackwardOf(rHi, p, limit1), x - 3, y + 4)
    BY <1>5, <2>1, <2>2, WithinWider
  <2>4. Within(rLo, x - 3, y + 4)
    BY <1>2, <1>3, WithinWider
  <2>5. QED BY <1>2, <1>5, <2>3, <2>4, UnionWithin
<1>7. Within(fHi, q - y - 5, q - x + 4)
  <2>1. Within(BackwardOf(rLo, p, limit1), p - (y + 3), p - (x - 2) + 1)
    BY <1>1, <1>2, <1>3, BackwardWithin
  <2>2. /\ p - (y + 3) \in Int /\ p - (x - 2) + 1 \in Int
        /\ q - y - 5 <= p - (y + 3) /\ p - (x - 2) + 1 <= q - x + 4
    OBVIOUS
  <2>3. Within(BackwardOf(rLo, p, limit1), q - y - 5, q - x + 4)
    BY <1>5, <2>1, <2>2, WithinWider
  <2>4. Within(rHi, q - y - 5, q - x + 4)
    BY <1>2, <1>4, WithinWider
  <2>5. QED BY <1>2, <1>5, <2>3, <2>4, UnionWithin
<1>8. Size(rLo) <= SCRATCH_LINES
  BY <1>1, <1>2, <1>3, WithinFits
<1>9. Size(rHi) <= SCRATCH_LINES
  BY <1>1, <1>2, <1>4, WithinFits
<1>10. Size(fLo) <= SCRATCH_LINES
  BY <1>1, <1>5, <1>6, WithinFits
<1>11. Size(fHi) <= SCRATCH_LINES
  BY <1>1, <1>5, <1>7, WithinFits
<1>12. QED BY <1>8, <1>9, <1>10, <1>11 DEF rLo, rHi

(* A high chunk is, to within a line, the mirror image of its partner.     *)
LEMMA Faces ==
  ASSUME WalkInv
  PROVE  LET y == Round.lo[2]
             x == Round.hi[1]
         IN  x = high \/ (low + high <= q2 + 1 /\ q2 - y - 1 <= x)
<1> DEFINE y == Round.lo[2]
           x == Round.hi[1]
           lines == DivCeil(l2, DPL)
           ls == LowStartOf(t, l2)
           le == LowEndOf(t, l2)
           hs == HighStartOf(t, l2)
           he == HighEndOf(t, l2)
<1>1. /\ q2 \in Nat /\ lines \in Nat /\ q2 <= lines /\ lines <= q2 + 1
      /\ ls \in Nat /\ le \in Nat /\ hs \in Nat /\ he \in Nat
      /\ le + hs \in {lines - 1, lines} /\ ls + he \in {lines - 1, lines}
  BY BlocksOfThread DEF WalkInv, q2
<1>2. /\ low \in Nat /\ high \in Nat /\ low <= le /\ hs <= high
      /\ \/ low = ls /\ high = he
         \/ high <= hs
         \/ low + high <= q2
  BY DEF WalkInv, OnWalk, Left, q2
<1>3. /\ Left.low = low /\ Left.high = high
      /\ Round = RoundFrom(t, Left, l2) /\ l2 \in Nat \ {0} /\ t \in Thread
  BY RoundIs DEF WalkInv, Left
<1>4. /\ y \in Nat /\ low <= y /\ (low < le <=> low < y)
      /\ x \in Nat /\ hs <= x /\ x <= high
      /\ low < le /\ hs < high => x = MinOf(MaxOf(q2 - y, hs), high)
  BY <1>1, <1>2, <1>3, RoundShape, SMTT(60) DEF q2
<1> HIDE DEF x, y, lines, ls, le, hs, he, q2
<1>5. CASE high <= hs
  BY <1>1, <1>2, <1>4, <1>5 DEF x
<1>6. CASE hs < high
  <2>1. low + high <= q2 + 1
    BY <1>1, <1>2, <1>6
  <2>2. CASE low < le
    BY <1>1, <1>2, <1>4, <1>6, <2>1, <2>2 DEF MinOf, MaxOf, x, y
  <2>3. CASE ~(low < le)
    BY <1>1, <1>2, <1>4, <2>1, <2>3 DEF x, y
  <2>4. QED BY <2>2, <2>3
<1>7. QED BY <1>1, <1>2, <1>5, <1>6

(* The intervals of a round fit the buffers, with a few lines to spare.    *)
LEMMA RoundFits ==
  ASSUME WalkInv, ~Done
  PROVE  \A r \in {Round.rLo, Round.rHi, FirstLo, FirstHi} : Size(r) <= SCRATCH_LINES
<1> DEFINE y == Round.lo[2]
           x == Round.hi[1]
<1>1. /\ Round.lo = <<low, y>> /\ Round.hi = <<x, high>>
      /\ y \in Nat /\ x \in Nat /\ low <= y /\ x <= high
      /\ y - low <= CHUNK_LINES /\ low \in Nat /\ high \in Nat
      /\ x = high \/ q2 - y <= x \/ y = low
      /\ Round.rLo = IntervalUnion(Round.lo, BackwardOf(Round.hi, q2, Q2Lines))
      /\ Round.rHi = IntervalUnion(Round.hi, BackwardOf(Round.lo, q2, Q2Lines))
  BY RoundChunks, RoundIs
<1>2. q2 \in Nat /\ q1 \in Nat /\ Q1Lines \in Int /\ Q2Lines \in Int /\ q1 \in {q2, q2 - 1}
  BY Lengthy
<1>3. Within(Round.lo, low, y)
  BY <1>1 DEF Within
<1>4. x = high \/ (low + high <= q2 + 1 /\ q2 - y - 1 <= x)
  BY Faces
<1> HIDE DEF Round, q1, q2, Q1Lines, Q2Lines, x, y
<1>5. Within(Round.hi, q2 - y - 1, q2 - low + 1)
  BY <1>1, <1>2, <1>4 DEF Within, IsEmpty
<1>6. Round.lo \in Interval /\ Round.hi \in Interval
  BY <1>1 DEF Interval
<1>7. QED BY <1>1, <1>2, <1>3, <1>5, <1>6, PairFits
           DEF FirstLo, FirstHi, FirstStepLo, FirstStepHi

(* The asserts of the fused passes never fail: whatever a round            *)
(* materializes fits a scratch buffer ("fused scratch range overflow"),    *)
(* and no high chunk is one too many ("fused chunk ordinal overflow").     *)
THEOREM AssertsHold == WalkSpec => []BuffersFit
<1>1. WalkInv => BuffersFit
  <2> SUFFICES ASSUME WalkInv, ~Done PROVE
         /\ \A r \in {Round.rLo, Round.rHi, FirstLo, FirstHi} : Size(r) <= SCRATCH_LINES
         /\ ~IsEmpty(Round.hi) => ord < FusedHiStride(Q2Lines)
    BY DEF BuffersFit
  <2>1. ~IsEmpty(Round.hi) => Left.ord < FusedHiStride(DivCeil(l2, DPL))
    BY RoundIs, SlotLeft DEF WalkInv
  <2>2. QED BY <2>1, RoundFits DEF Left, Q2Lines
<1>2. QED BY <1>1, Walked, PTL

-----------------------------------------------------------------------------
(* The funnel *)

(* A plane of two is DPL bytes long, and everything is an integer. *)
LEMMA Widths == LV_LEN \in Nat \ {0} /\ DPL \in Nat /\ DPL = 2 * LV_LEN
  BY WidthAssumption

(* The end of a number of n digits: its line and its place there. *)
LEMMA EndOfNumber ==
  ASSUME NEW n \in Nat
  PROVE  /\ n \div DPL \in Nat
         /\ n % DPL \in 0 .. DPL - 1
         /\ n = (n \div DPL) * DPL + (n % DPL)
<1>1. CASE LV_LEN = 2   BY <1>1, WidthAssumption
<1>2. CASE LV_LEN = 4   BY <1>2, WidthAssumption
<1>3. CASE LV_LEN = 8   BY <1>3, WidthAssumption
<1>4. CASE LV_LEN = 16  BY <1>4, WidthAssumption
<1>5. CASE LV_LEN = 32  BY <1>5, WidthAssumption
<1>6. CASE LV_LEN = 64  BY <1>6, WidthAssumption
<1>7. QED BY <1>1, <1>2, <1>3, <1>4, <1>5, <1>6, WidthAssumption

(* An index that leaves the two planes by less than their length comes     *)
(* back into them, the wrapping of the byte notwithstanding.               *)
LEMMA WrapsIntoPlanes ==
  ASSUME NEW v \in Int, -DPL <= v, v < DPL
  PROVE  (v % 256) % DPL = IF v < 0 THEN v + DPL ELSE v
<1>1. CASE LV_LEN = 2   BY <1>1, WidthAssumption
<1>2. CASE LV_LEN = 4   BY <1>2, WidthAssumption
<1>3. CASE LV_LEN = 8   BY <1>3, WidthAssumption
<1>4. CASE LV_LEN = 16  BY <1>4, WidthAssumption
<1>5. CASE LV_LEN = 32  BY <1>5, WidthAssumption
<1>6. CASE LV_LEN = 64  BY <1>6, WidthAssumption
<1>7. QED BY <1>1, <1>2, <1>3, <1>4, <1>5, <1>6, WidthAssumption

(* Byte j of an assembled plane is byte Place(phi, j) of the two planes in *)
(* a row: it goes down as j goes up.                                       *)
Place(phi, j) ==
  (IF phi > LV_LEN THEN phi - 1 ELSE phi + LV_LEN - 1) - j

LEMMA AssembledPlane ==
  ASSUME NEW phi \in 1 .. DPL - 1, NEW j \in Byte, NEW a, NEW b
  PROVE  /\ Place(phi, j) \in 0 .. DPL - 1
         /\ Permuted(a, RevIndex(phi), b)[j]
              = IF Place(phi, j) < LV_LEN THEN a[Place(phi, j)]
                                          ELSE b[Place(phi, j) - LV_LEN]
<1> DEFINE v == Place(phi, j) - DPL
<1>1. Place(phi, j) \in 0 .. DPL - 1 /\ v \in Int /\ -DPL <= v /\ v < 0
  BY Widths DEF Place, Byte
<1>2. RevIndex(phi)[j] = v % 256
  BY Widths DEF RevIndex, FunnelIndex, Place, Byte
<1>3. RevIndex(phi)[j] % DPL = Place(phi, j)
  <2>1. (v % 256) % DPL = v + DPL
    BY <1>1, Widths, WrapsIntoPlanes
  <2>2. QED BY <1>1, <1>2, <2>1, Widths
<1>4. QED BY <1>1, <1>3 DEF Permuted

-----------------------------------------------------------------------------

(* A plane holds the digits of G from one on. *)
Holds(a, G, from) == \A j \in Byte : a[j] = G[from + j]

(* Two planes that follow each other in a run of digits: the assembled     *)
(* plane walks down that run.                                              *)
LEMMA PlaneIsWindow ==
  ASSUME NEW G, NEW from \in Int, NEW a, NEW b,
         Holds(a, G, from), Holds(b, G, from + LV_LEN),
         NEW phi \in 1 .. DPL - 1, NEW j \in Byte
  PROVE  Permuted(a, RevIndex(phi), b)[j] = G[from + Place(phi, j)]
<1> DEFINE i == Place(phi, j)
<1>1. /\ i \in 0 .. DPL - 1
      /\ Permuted(a, RevIndex(phi), b)[j]
           = IF i < LV_LEN THEN a[i] ELSE b[i - LV_LEN]
  BY AssembledPlane
<1> HIDE DEF i
<1>2. CASE i < LV_LEN
  <2>1. i \in Byte
    BY <1>1, <1>2, Widths DEF Byte
  <2>2. a[i] = G[from + i]
    BY <2>1 DEF Holds
  <2>3. QED BY <1>1, <1>2, <2>2 DEF i
<1>3. CASE ~(i < LV_LEN)
  <2>1. i - LV_LEN \in Byte
    BY <1>1, <1>3, Widths DEF Byte
  <2>2. from + LV_LEN + (i - LV_LEN) = from + i
    BY <1>1, Widths
  <2>3. b[i - LV_LEN] = G[from + i]
    BY <2>1, <2>2 DEF Holds
  <2>4. QED BY <1>1, <1>3, <2>3 DEF i
<1>4. QED BY <1>2, <1>3

(* Two adjacent lines, whose four planes in a row hold the digits of G     *)
(* from base on: the operand at phase phi is the window of DPL digits that *)
(* ends at phase phi of the upper line, backwards.                         *)
LEMMA OperandIsWindow ==
  ASSUME NEW G, NEW base \in Int, NEW lower, NEW upper,
         Holds(lower.lo, G, base), Holds(lower.hi, G, base + LV_LEN),
         Holds(upper.lo, G, base + DPL),
         Holds(upper.hi, G, base + DPL + LV_LEN),
         NEW phi \in 0 .. DPL - 1, NEW p \in 0 .. DPL - 1
  PROVE  InLine(RevOperand(phi, lower, upper), p) = G[base + DPL + phi - 1 - p]
<1> DEFINE top == base + DPL + phi - 1
           r == RevOperand(phi, lower, upper)
<1> SUFFICES InLine(r, p) = G[top - p]
  <2>1. base + DPL + phi - 1 - p = top - p
    BY Widths
  <2>2. QED BY <2>1
<1>1. ASSUME NEW j \in Byte
      PROVE  r.lo[j] = G[top - j] /\ r.hi[j] = G[top - LV_LEN - j]
  <2>1. CASE phi = 0
    <3>1. LV_LEN - 1 - j \in Byte
      BY Widths DEF Byte
    <3>2. /\ base + LV_LEN + (LV_LEN - 1 - j) = top - j
          /\ base + (LV_LEN - 1 - j) = top - LV_LEN - j
      BY <2>1, Widths DEF Byte
    <3>3. /\ r.lo[j] = lower.hi[LV_LEN - 1 - j]
          /\ r.hi[j] = lower.lo[LV_LEN - 1 - j]
      BY <2>1 DEF RevOperand, Backward
    <3>4. /\ lower.hi[LV_LEN - 1 - j] = G[base + LV_LEN + (LV_LEN - 1 - j)]
          /\ lower.lo[LV_LEN - 1 - j] = G[base + (LV_LEN - 1 - j)]
      BY <3>1 DEF Holds
    <3>5. QED BY <3>2, <3>3, <3>4
  <2>2. CASE phi \in 1 .. LV_LEN
    <3>1. /\ r.lo = Permuted(lower.hi, RevIndex(phi), upper.lo)
          /\ r.hi = Permuted(lower.lo, RevIndex(phi), lower.hi)
      BY <2>2, Widths DEF RevOperand
    <3>2. phi \in 1 .. DPL - 1 /\ base + LV_LEN \in Int
      BY <2>2, Widths
    <3>3. /\ base + LV_LEN + Place(phi, j) = top - j
          /\ base + Place(phi, j) = top - LV_LEN - j
      BY <2>2, Widths DEF Place, Byte
    <3>4. base + DPL = base + LV_LEN + LV_LEN
      BY Widths
    <3>5. r.lo[j] = G[base + LV_LEN + Place(phi, j)]
      <4> HIDE DEF r
      <4>1. Holds(upper.lo, G, base + LV_LEN + LV_LEN)
        BY <3>4
      <4>2. QED BY <3>1, <3>2, <4>1, PlaneIsWindow
    <3>6. r.hi[j] = G[base + Place(phi, j)]
      <4> HIDE DEF r
      <4>1. QED BY <3>1, <3>2, PlaneIsWindow
    <3>7. QED BY <3>3, <3>5, <3>6
  <2>3. CASE phi \in LV_LEN + 1 .. DPL - 1
    <3>1. /\ r.lo = Permuted(upper.lo, RevIndex(phi), upper.hi)
          /\ r.hi = Permuted(lower.hi, RevIndex(phi), upper.lo)
      BY <2>3, Widths DEF RevOperand
    <3>2. phi \in 1 .. DPL - 1 /\ base + LV_LEN \in Int /\ base + DPL \in Int
      BY <2>3, Widths
    <3>3. /\ base + DPL + Place(phi, j) = top - j
          /\ base + LV_LEN + Place(phi, j) = top - LV_LEN - j
      BY <2>3, Widths DEF Place, Byte
    <3>4. base + DPL = base + LV_LEN + LV_LEN
      BY Widths
    <3>5. r.lo[j] = G[base + DPL + Place(phi, j)]
      <4> HIDE DEF r
      <4>1. QED BY <3>1, <3>2, PlaneIsWindow
    <3>6. r.hi[j] = G[base + LV_LEN + Place(phi, j)]
      <4> HIDE DEF r
      <4>1. Holds(upper.lo, G, base + LV_LEN + LV_LEN)
        BY <3>4
      <4>2. QED BY <3>1, <3>2, <4>1, PlaneIsWindow
    <3>7. QED BY <3>3, <3>5, <3>6
  <2>4. QED BY <2>1, <2>2, <2>3, Widths
<1> HIDE DEF r
<1>2. CASE p < LV_LEN
  <2>1. p \in Byte /\ InLine(r, p) = r.lo[p]
    BY <1>2, Widths DEF Byte, InLine
  <2>2. QED BY <1>1, <2>1
<1>3. CASE ~(p < LV_LEN)
  <2>1. p - LV_LEN \in Byte /\ InLine(r, p) = r.hi[p - LV_LEN]
    BY <1>3, Widths DEF Byte, InLine
  <2>2. top - LV_LEN - (p - LV_LEN) = top - p
    BY Widths
  <2>3. InLine(r, p) = G[top - LV_LEN - (p - LV_LEN)]
    BY <1>1, <2>1
  <2>4. QED BY <2>2, <2>3
<1>4. QED BY <1>2, <1>3

-----------------------------------------------------------------------------

(* The lines of a number are its digits in a row.                          *)
LEMMA LinesInARow ==
  ASSUME NEW x, NEW G, G = [d \in Int |-> DigitAt(x, d)],
         NEW m \in Int, NEW base \in Int, base = m * DPL
  PROVE  Holds(LineAt(x, m).lo, G, base) /\ Holds(LineAt(x, m).hi, G, base + LV_LEN)
<1> SUFFICES ASSUME NEW j \in Byte
             PROVE  /\ LineAt(x, m).lo[j] = G[base + j]
                    /\ LineAt(x, m).hi[j] = G[base + LV_LEN + j]
  BY DEF Holds
<1>1. base + j \in Int /\ base + LV_LEN + j \in Int
  BY Widths DEF Byte
<1>2. /\ LineAt(x, m).lo[j] = DigitAt(x, base + j)
      /\ LineAt(x, m).hi[j] = DigitAt(x, base + LV_LEN + j)
  BY DEF LineAt
<1>3. QED BY <1>1, <1>2

(* For a number of any length, at any of the widths, every byte of the     *)
(* operand the funnel assembles is the mirror image of its digit.          *)
THEOREM Funnels ==
  ASSUME NEW n \in Nat, NEW x
  PROVE  FunnelReverses(x, n)
<1> SUFFICES ASSUME NEW k \in 0 .. n \div DPL, NEW p \in 0 .. DPL - 1
             PROVE  InLine(ReversedLine(x, n, k), p)
                      = DigitAt(x, n - 1 - (k * DPL + p))
  BY DEF FunnelReverses
<1> DEFINE G == [d \in Int |-> DigitAt(x, d)]
           q == n \div DPL
           phi == n % DPL
           base == (q - 1 - k) * DPL
           lower == LineAt(x, q - 1 - k)
           upper == LineAt(x, q - k)
<1>1. q \in Int /\ phi \in 0 .. DPL - 1 /\ n = q * DPL + phi
  BY EndOfNumber
<1>2. /\ k \in Int /\ q - 1 - k \in Int /\ q - k \in Int
      /\ base \in Int /\ base + DPL \in Int /\ base + DPL = (q - k) * DPL
  BY <1>1, Widths
<1>3. /\ base + DPL + phi - 1 - p \in Int
      /\ base + DPL + phi - 1 - p = n - 1 - (k * DPL + p)
  <2>1. base + DPL = q * DPL - k * DPL
    BY <1>1, <1>2, Widths
  <2>2. q * DPL \in Int /\ k * DPL \in Int
    BY <1>1, <1>2, Widths
  <2> HIDE DEF q, phi, base
  <2>3. QED BY <1>1, <1>2, <2>1, <2>2, Widths
<1> HIDE DEF q, phi, base
<1>4. /\ Holds(lower.lo, G, base) /\ Holds(lower.hi, G, base + LV_LEN)
      /\ Holds(upper.lo, G, base + DPL) /\ Holds(upper.hi, G, base + DPL + LV_LEN)
  BY <1>2, LinesInARow DEF base
<1>5. ReversedLine(x, n, k) = RevOperand(phi, lower, upper)
  BY DEF ReversedLine, q, phi
<1>6. InLine(ReversedLine(x, n, k), p) = G[base + DPL + phi - 1 - p]
  <2> HIDE DEF G, lower, upper
  <2>1. InLine(RevOperand(phi, lower, upper), p)
          = G[base + DPL + phi - 1 - p]
    BY <1>1, <1>2, <1>4, OperandIsWindow
  <2>2. QED BY <1>5, <2>1
<1>7. QED BY <1>3, <1>6

=============================================================================
