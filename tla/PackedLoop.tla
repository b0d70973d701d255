----------------------------- MODULE PackedLoop -----------------------------
(***************************************************************************)
(* The iteration loop of the packed engine (iterate_packed in              *)
(* packed/mod.rs): palindrome test, widening of the pool, a triple, double *)
(* or single step, and the report to the main thread, until the range ends *)
(* or a palindrome is found.                                               *)
(*                                                                         *)
(* Next to it, in ref, runs the loop it replaces (iterate in reference.rs),*)
(* one reverse-and-add at a time.  A fused step is taken to compute what   *)
(* its single steps would; module FusedStep2 looks into it.  The two       *)
(* buffers are kept slot by slot, because a rewind steps into a buffer     *)
(* that holds a longer number.                                             *)
(***************************************************************************)
EXTENDS Layout, Sequences

CONSTANTS
  Start,          \* the starting numbers
  Ranges,         \* the iteration ranges, <<start, end>>
  LOG_MASK,       \* iterations between reports
  FULL_MASK,      \* iterations between reports that carry the number
  StreamDigits,   \* STREAM_MIN_LINES * DPL: length from which steps are fused
  ONE_CCD_THREADS, ParThreshold, ParFullThreads  \* widening; lengths in digits

ASSUME MaskAssumption == LOG_MASK \in Nat \ {0} /\ FULL_MASK % LOG_MASK = 0
ASSUME NumberAssumption == \A x \in Start : IsProper(x)
ASSUME RangeAssumption == Ranges \subseteq Nat \X Nat

VARIABLES
  a, cur, digits,  \* the PackedInt
  carried,         \* what the last step returned
  i, end,          \* the next iteration and the end of the range
  pool,            \* threads of the engine, 0 before there is one
  pc,              \* where the loop is
  sent,            \* the reports sent: iteration, and the number or <<>>
  receiver,        \* whether anyone receives them
  rewound,         \* single steps made by a rewind
  ref              \* the reference loop

packedInt == <<a, cur, digits>>
vars == <<packedInt, carried, i, end, pool, pc, sent, receiver, rewound, ref>>

Current == [d \in 0 .. digits - 1 |-> a[cur][d]]

-----------------------------------------------------------------------------
(* The reference loop, iteration by iteration *)

Report(n, x) == [iteration |-> n, value |-> IF n % FULL_MASK = 0 THEN x ELSE <<>>]
Reported(n, x, reports) ==
  IF n % LOG_MASK = 0 THEN Append(reports, Report(n, x)) ELSE reports

RefStops(r) ==
  \/ r.i >= end
  \/ ~r.carried /\ IsPalindrome(r.number, NumDigits(r.number))

RefIterate(r) ==
  LET n == NumDigits(r.number)
      next == ReverseAdd(r.number, n)
  IN  IF RefStops(r) THEN r
      ELSE [ number  |-> next,
             carried |-> AnyCarried(r.number, n),
             i       |-> r.i + 1,
             reports |-> Reported(r.i, next, r.reports) ]

-----------------------------------------------------------------------------
(* The steps *)

(* One single step.  The pass reads the source's lines as they are and     *)
(* overwrites the destination's; above them only the carry out of the last *)
(* line is set, in a buffer that may still hold a longer number.           *)
Single(p) ==
  LET x == p.a[p.cur]
      n == p.digits
      top == DivCeil(n, DPL) * DPL
      s == [d \in 0 .. top - 1 |-> x[d] + IF d < n THEN x[n - 1 - d] ELSE 0]
      out == n + Bit(PrescanGrow(x, n))
      into(d) == CarryInto(s, 0, d, FALSE)
      old == Resize(p.a[1 - p.cur], DivCeil(out, DPL))
      new == [d \in DOMAIN old |->
                IF d < top THEN Resolved(s[d], into(d))
                ELSE IF d = out - 1 /\ into(top) THEN 1 ELSE old[d]]
  IN  [a |-> [p.a EXCEPT ![1 - p.cur] = new], cur |-> 1 - p.cur, digits |-> out]

(* The numbers a fused step goes through, and the flags it returns. *)
Through[n \in 0 .. 3] ==
  IF n = 0 THEN Current
  ELSE LET x == Through[n - 1] IN ReverseAdd(x, NumDigits(x))

CarriedAt(n) == AnyCarried(Through[n - 1], NumDigits(Through[n - 1]))
PalindromeAt(n) ==
  ~CarriedAt(n) /\ IsPalindrome(Through[n], NumDigits(Through[n]))

(* A fused step of n iterations: it overwrites the lines of the number     *)
(* before the last of them, and leaves room for one digit of growth.       *)
Fused(n) ==
  LET y == Through[n]
      before == NumDigits(Through[n - 1])
      old == Resize(a[1 - cur], DivCeil(before + 1, DPL))
      new == [d \in DOMAIN old |->
                IF d \in DOMAIN y THEN y[d]
                ELSE IF d < DivCeil(before, DPL) * DPL THEN 0 ELSE old[d]]
  IN  [a |-> [a EXCEPT ![1 - cur] = new], cur |-> 1 - cur, digits |-> NumDigits(y)]

(* Mutant: a rewind makes one step, wherever the palindrome was. *)
RewoundOnce(p, n) == Single(p)

(* The buffers change roles again, and single steps rebuild the n-th       *)
(* number from the input of the fused step.                                *)
Rewound(p, n) == IF n = 1 THEN Single(p) ELSE Single(Single(p))

Become(p) == a' = p.a /\ cur' = p.cur /\ digits' = p.digits

-----------------------------------------------------------------------------
(* The loop *)

Init ==
  /\ \E x \in Start :
       /\ digits = NumDigits(x)
       /\ a = [b \in {0, 1} |->
                 IF b = 0 THEN Resize(x, DivCeil(NumDigits(x), DPL)) ELSE <<>>]
       /\ \E r \in Ranges :
            /\ i = r[1] /\ end = r[2]
            /\ ref = [number |-> x, carried |-> TRUE, i |-> r[1], reports |-> <<>>]
  /\ cur = 0
  /\ carried = TRUE
  /\ pool = 0
  /\ pc = "test"
  /\ sent = <<>>
  /\ receiver = TRUE
  /\ rewound = 0

(* Threads for a number of this length. *)
Target ==
  IF digits >= ParFullThreads THEN NumThreads
  ELSE IF digits >= ParThreshold THEN MinOf(NumThreads, ONE_CCD_THREADS) ELSE 1

(* The loop's condition and the palindrome test; past them the pool is     *)
(* replaced if the number has outgrown it.                                 *)
Test ==
  /\ pc = "test"
  /\ IF i < end /\ ~(~carried /\ IsPalindrome(Current, digits))
     THEN pc' = "step" /\ pool' = Target
     ELSE pc' = "out" /\ UNCHANGED pool
  /\ UNCHANGED <<packedInt, carried, i, end, sent, receiver, rewound, ref>>

Multiple(n, mask) == n % mask = 0

(* Mutant: a triple may step over a report. *)
TripleAnywhere ==
  /\ digits >= StreamDigits /\ ~Multiple(i, LOG_MASK)
  /\ i + 3 <= end

(* Steps are fused from a length on, and never over a report iteration: a  *)
(* report needs the number.                                                *)
FusedAllowed == digits >= StreamDigits /\ ~Multiple(i, LOG_MASK)

TripleAllowed == FusedAllowed /\ ~Multiple(i + 1, LOG_MASK) /\ i + 3 <= end

DoubleAllowed == FusedAllowed /\ ~TripleAllowed /\ i + 2 <= end

(* A fused step of n iterations.  If the pass went through a palindrome,   *)
(* the loop rewinds to it and ends; else the iteration counter is moved to *)
(* the last of the n.                                                      *)
FusedStep(n) ==
  LET mids == {k \in 1 .. n - 1 : PalindromeAt(k)}
      back == [a |-> Fused(n).a, cur |-> cur, digits |-> digits]
  IN  IF mids # {}
      THEN \E k \in mids :
             /\ \A j \in mids : k <= j
             /\ Become(Rewound(back, k))
             /\ rewound' = k
             /\ i' = i + k
             /\ ref' = IF k = 1 THEN RefIterate(ref) ELSE RefIterate(RefIterate(ref))
             /\ pc' = "out"
             /\ UNCHANGED carried
      ELSE /\ Become(Fused(n))
           /\ carried' = CarriedAt(n)
           /\ i' = i + n - 1
           /\ ref' = IF n = 2 THEN RefIterate(RefIterate(ref))
                     ELSE RefIterate(RefIterate(RefIterate(ref)))
           /\ pc' = "report"
           /\ UNCHANGED rewound

Triple ==
  /\ pc = "step"
  /\ TripleAllowed
  /\ FusedStep(3)
  /\ UNCHANGED <<end, pool, sent, receiver>>

Double ==
  /\ pc = "step"
  /\ DoubleAllowed
  /\ FusedStep(2)
  /\ UNCHANGED <<end, pool, sent, receiver>>

SingleStep ==
  /\ pc = "step"
  /\ ~TripleAllowed /\ ~DoubleAllowed
  /\ Become(Single([a |-> a, cur |-> cur, digits |-> digits]))
  /\ carried' = CarriedAt(1)
  /\ ref' = RefIterate(ref)
  /\ pc' = "report"
  /\ UNCHANGED <<i, end, pool, sent, receiver, rewound>>

(* On a report iteration the main thread gets a message; if nobody takes   *)
(* it, the loop ends.                                                      *)
SendReport ==
  /\ pc = "report"
  /\ IF Multiple(i, LOG_MASK) /\ ~receiver
     THEN pc' = "out" /\ UNCHANGED <<i, sent>>
     ELSE /\ sent' = Reported(i, Current, sent)
          /\ i' = i + 1
          /\ pc' = "test"
  /\ UNCHANGED <<packedInt, carried, end, pool, receiver, rewound, ref>>

(* The main thread goes away. *)
ReceiverLeaves ==
  /\ receiver
  /\ pc \in {"test", "report"}
  /\ receiver' = FALSE
  /\ UNCHANGED <<packedInt, carried, i, end, pool, pc, sent, rewound, ref>>

Ended == pc = "out" /\ UNCHANGED vars

Next ==
  \/ Test
  \/ Triple
  \/ Double
  \/ SingleStep
  \/ SendReport
  \/ ReceiverLeaves
  \/ Ended

Spec == Init /\ [][Next]_vars

-----------------------------------------------------------------------------
(* Properties *)

(* Between iterations the loop is where the reference loop is after as     *)
(* many reverse-and-adds: same number, same flag, same iteration, and the  *)
(* same reports have been sent.  In particular no fused step ran through a *)
(* palindrome or over a report.                                            *)
InStepWithReference ==
  pc \in {"test", "step"} =>
    ref = [number |-> Current, carried |-> carried, i |-> i, reports |-> sent]

(* The loop ends at the iteration, and with the number, at which the       *)
(* reference loop ends; below the range's end that is a palindrome ("If    *)
(* the returned usize is less than range.end, a palindrome was found").    *)
EndsLikeReference ==
  pc = "out" /\ receiver =>
    /\ RefStops(ref)
    /\ Current = ref.number
    /\ i = ref.i
    /\ sent = ref.reports
    /\ i < end => IsPalindrome(Current, digits)

(* No digit is left above the number's top digit while the loop runs, nor  *)
(* after it unless a rewind made two steps.                                *)
CleanWhileRunning ==
  rewound < 2 => \A d \in DOMAIN a[cur] : d >= digits => a[cur][d] = 0

(* "Every slot at and above digits in the packed buffer is zero"           *)
(* (packed/tests.rs 26); to_integer, which builds the result, copies whole *)
(* limbs.                                                                  *)
PaddingClean == \A d \in DOMAIN a[cur] : d >= digits => a[cur][d] = 0

=============================================================================
