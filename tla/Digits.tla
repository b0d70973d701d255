------------------------------- MODULE Digits -------------------------------
(***************************************************************************)
(* Decimal digit arithmetic the way packed/mod.rs and integer_limb/mod.rs  *)
(* do it: a number is a function from slots 0 .. n-1 to digits, least      *)
(* significant first.  Carries are read off the column sums without a      *)
(* running carry: a sum above 9 generates one, a sum of 9 passes on what   *)
(* comes from below, anything else absorbs it.  The vector code decides    *)
(* its carries from the same two masks.                                    *)
(***************************************************************************)
EXTENDS Integers, FiniteSets

Digit == 0 .. 9

(* The numbers of n digits, and their length. *)
Number(n) == [0 .. n - 1 -> Digit]
NumDigits(x) == Cardinality(DOMAIN x)

(* Neither empty nor padded: the top digit is not zero. *)
Proper(x, n) == n > 0 /\ x[n - 1] # 0

(* What every engine is given, and what it keeps. *)
IsProper(x) ==
  /\ NumDigits(x) \in Nat
  /\ x \in Number(NumDigits(x))
  /\ Proper(x, NumDigits(x))

(* The column sums of x and its reversal. *)
Sums(x, n) == [d \in 0 .. n - 1 |-> x[d] + x[n - 1 - d]]

(* Mutant: a nine does not pass a carry on. *)
CarryIntoAdjacent(s, lo, d, cin) ==
  \/ \E j \in lo .. d - 1 : s[j] > 9 /\ j = d - 1
  \/ cin /\ d = lo

(* The carry into slot d of an addition with column sums s that started at *)
(* slot lo with carry-in cin: the nearest sum below d that is not nine     *)
(* generated one, or there is none and cin came all the way.               *)
CarryInto(s, lo, d, cin) ==
  \/ \E j \in lo .. d - 1 :
       /\ s[j] > 9
       /\ \A i \in j + 1 .. d - 1 : s[i] = 9
  \/ /\ cin
     /\ \A i \in lo .. d - 1 : s[i] = 9

Bit(b) == IF b THEN 1 ELSE 0

(* Mutant: a sum of ten is taken for a digit. *)
ResolvedLate(v, received) ==
  (IF v > 10 \/ (v = 9 /\ received) THEN v - 10 ELSE v) + Bit(received)

(* The digit a column with sum v emits when it receives a carry or not:    *)
(* ten less if it emits a carry itself, one more if it receives one.       *)
Resolved(v, received) ==
  (IF v > 9 \/ (v = 9 /\ received) THEN v - 10 ELSE v) + Bit(received)

(* Whether the sum gains a digit: descending from the top, the first       *)
(* column sum that is not nine decides.                                    *)
PrescanGrow(x, n) ==
  \E d \in 0 .. n - 1 :
    /\ Sums(x, n)[d] > 9
    /\ \A i \in d + 1 .. n - 1 : Sums(x, n)[i] = 9

(* x plus its reversal, and whether any digit carried on the way. *)
ReverseAdd(x, n) ==
  LET s == Sums(x, n)
  IN  [d \in 0 .. n - 1 + Bit(PrescanGrow(x, n)) |->
         IF d = n THEN 1 ELSE Resolved(s[d], CarryInto(s, 0, d, FALSE))]

(* Mutants: the carry out of the top column is overlooked; a sum of nine   *)
(* counts as carried.                                                      *)
AnyCarriedBelowTop(x, n) ==
  \E d \in 1 .. n - 1 : CarryInto(Sums(x, n), 0, d, FALSE)

AnyCarriedAtNine(x, n) ==
  \E d \in 0 .. n - 1 : Sums(x, n)[d] >= 9

AnyCarried(x, n) ==
  \E d \in 1 .. n : CarryInto(Sums(x, n), 0, d, FALSE)

IsPalindrome(x, n) ==
  \A d \in 0 .. n \div 2 - 1 : x[d] = x[n - 1 - d]

(* A decimal carry of one into slot lo of x, stopped before slot end: the  *)
(* nines it runs through become zeros, and the first other digit goes up.  *)
Increment(x, lo, end) ==
  [d \in DOMAIN x |->
     IF d \in lo .. end - 1 /\ \A i \in lo .. d - 1 : x[i] = 9
     THEN IF x[d] = 9 THEN 0 ELSE x[d] + 1
     ELSE x[d]]

(* Mutant: an increment is taken to stay within its range. *)
EscapesNever(x, lo, end) == FALSE

(* The carry leaves the range when every digit of it is nine. *)
Escapes(x, lo, end) == \A i \in lo .. end - 1 : x[i] = 9

=============================================================================
