--------------------------- MODULE ReverseAddLoop ---------------------------
(***************************************************************************)
(* What every engine of the program promises: an iteration replaces the    *)
(* number by the sum of itself and its reversal, and says whether any      *)
(* digit carried.  The packed engine, the byte engine and the              *)
(* single-threaded kernel all implement this step.                         *)
(***************************************************************************)
EXTENDS Digits

CONSTANT Start  \* the numbers a run may start from

ASSUME StartAssumption == \A x \in Start : IsProper(x)

VARIABLES
  number,   \* the current number
  carried   \* what the last step returned; TRUE before the first

vars == <<number, carried>>

TypeOK ==
  /\ IsProper(number)
  /\ carried \in BOOLEAN

(* The loops start with carried = TRUE: the starting number itself is      *)
(* never tested.                                                           *)
Init == number \in Start /\ carried = TRUE

Step ==
  /\ number' = ReverseAdd(number, NumDigits(number))
  /\ carried' = AnyCarried(number, NumDigits(number))

Next == Step

Spec == Init /\ [][Next]_vars

-----------------------------------------------------------------------------

(* The engines test for a palindrome only after a step that carried        *)
(* nowhere.  Such a step always yields one, so every test succeeds.        *)
CarryFreeIsPalindrome ==
  ~carried => IsPalindrome(number, NumDigits(number))

(* A step that carried may yield a palindrome too (65 + 56 = 121), which   *)
(* the test skips.  Its next step then carries nowhere and yields another  *)
(* palindrome, so a search runs past the first palindrome by at most one   *)
(* iteration.                                                              *)
SkippedPalindromeIsFollowed ==
  [][carried' /\ IsPalindrome(number', NumDigits(number'))
       => ~AnyCarried(number', NumDigits(number'))]_vars

=============================================================================
