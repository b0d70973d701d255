----------------------------- MODULE FusedStep2 -----------------------------
(***************************************************************************)
(* The fused double step of the packed engine (step2 in packed/mod.rs):    *)
(* two reverse-and-add steps in one pass over the number.                  *)
(*                                                                         *)
(* Every thread walks its pair of blocks in rounds.  A round computes the  *)
(* lines of the intermediate number its two output chunks need, guessing   *)
(* that no carry enters either interval of them, and from these lines the  *)
(* chunks, guessing that no carry enters a high chunk.  After the pass the *)
(* coordinator repairs the output lines that consumed wrongly guessed      *)
(* digits, and then resolves the carries between the output ranges.        *)
(*                                                                         *)
(* The pool and its barriers are those of module PackedEngine; here the    *)
(* coordinator goes on when every thread has walked.                       *)
(***************************************************************************)
EXTENDS Fused

CONSTANT Start   \* the numbers the step may be given

ASSUME StartAssumption == \A x \in Start : IsProper(x)

VARIABLES
  source,      \* the number: the pass only reads it
  l1,          \* the length of the intermediate number
  s1, d1, s2,  \* ground truth: the first step's column sums and digits, the
               \* second step's column sums
  rounds,      \* the walk of each thread, round by round
  scratch,     \* each thread's two buffers of intermediate lines
  dst,         \* the destination buffer
  walk,        \* each thread's next round, chain carry and flags
  blockCarry,  \* carry out of each low block
  chunkCarry,  \* carry out of each chunk of a high block, by slot
  flags,       \* carried1, pal1 and ever_carried
  consumers,   \* the lines that consumed wrong digits, found after the pass
  repairs,     \* those still to be repaired
  range,       \* the resolution: next line, carry into it
  digits,      \* length of the result
  pc           \* pass, repair, resolve or done

truth == <<source, l1, s1, d1, s2, rounds>>
carries == <<blockCarry, chunkCarry>>
vars == <<truth, scratch, dst, walk, carries, flags, consumers, repairs, range,
          digits, pc>>

l == NumDigits(source)
Q1Lines == DivCeil(l1, DPL)
Bounds == BlockBounds(Q1Lines)

-----------------------------------------------------------------------------
(* The flag *)

(* Mutant: the flag is trusted even where a guess was wrong. *)
SecondCarriedTrusting(wrong) == flags.everCarried

(* Once a guess was wrong the flag of the pass says nothing: the true sums *)
(* decide, and one half of them is enough (s2_generates).                  *)
SecondCarried(wrong) ==
  IF wrong THEN Generates(s2, l1) ELSE flags.everCarried

-----------------------------------------------------------------------------
(* The pass *)

Round(t, n) == rounds[t][n].at

(* The carry slot of the high chunk of round n. *)
ChunkSlot(t, n) == FusedSlot(t, rounds[t][n].ord, Q1Lines)

(* Up to the start barrier.  The destination still holds an older number   *)
(* (nines here), but is clean above the lines the pass writes.             *)
Init ==
  /\ source \in Start
  /\ l1 = l + Bit(PrescanGrow(source, l))
  /\ s1 = SumsOf(source, l, Q1Lines)
  /\ d1 = DigitsOf(s1)
  /\ s2 = SumsOf(d1, l1, Q1Lines)
  /\ rounds = [t \in Thread |-> RoundsOf(t, l1)]
  /\ scratch = [t \in Thread |-> [lo |-> <<>>, hi |-> <<>>]]
  /\ dst = [d \in Slots(<<0, DivCeil(l1 + 1, DPL)>>) |->
              IF d < Q1Lines * DPL THEN 9 ELSE 0]
  /\ walk = [t \in Thread |->
       [n |-> 0, at |-> "A", carry |-> FALSE, carried1 |-> FALSE,
        carried2 |-> FALSE, equal |-> TRUE]]
  /\ blockCarry = [t \in Thread |-> FALSE]
  /\ chunkCarry = [i \in 0 .. NumThreads * FusedHiStride(Q1Lines) - 1 |-> FALSE]
  /\ flags = [carried1 |-> FALSE, pal1 |-> TRUE, everCarried |-> FALSE]
  /\ consumers = {}
  /\ repairs = {}
  /\ range = [line |-> 0, carry |-> FALSE]
  /\ digits = 0
  /\ pc = "pass"

(* Phase A of a round: the intermediate lines it needs, into scratch.      *)
PhaseA(t) ==
  LET w == walk[t]
      r == Round(t, w.n)
  IN  /\ pc = "pass" /\ w.at = "A"
      /\ w.n \in DOMAIN rounds[t]
      /\ scratch' = [scratch EXCEPT ![t] = [lo |-> Speculated(s1, r.rLo),
                                            hi |-> Speculated(s1, r.rHi)]]
      /\ walk' = [walk EXCEPT
           ![t].at = "B",
           ![t].carried1 = @ \/ SpeculatedCarried(s1, r.rLo)
                          \/ SpeculatedCarried(s1, r.rHi)]
      /\ UNCHANGED <<truth, dst, carries, flags, consumers, repairs, range,
                     digits, pc>>

(* Phase B: the round's two output chunks, from scratch. *)
PhaseB(t) ==
  LET w == walk[t]
      r == Round(t, w.n)
      lo == Output(r.lo, scratch[t].lo, scratch[t].hi, l1, w.carry)
      hi == Output(r.hi, scratch[t].hi, scratch[t].lo, l1, FALSE)
  IN  /\ pc = "pass" /\ w.at = "B"
      /\ dst' = Overlay(Overlay(dst, lo.digit), hi.digit)
      /\ chunkCarry' = IF IsEmpty(r.hi) THEN chunkCarry
                       ELSE [chunkCarry EXCEPT ![ChunkSlot(t, w.n)] = hi.carry]
      /\ walk' = [walk EXCEPT
           ![t].n = @ + 1,
           ![t].at = "A",
           ![t].carry = lo.carry,
           ![t].carried2 = @ \/ lo.carried \/ hi.carried,
           ![t].equal = @ /\ lo.equal /\ hi.equal]
      /\ UNCHANGED <<truth, scratch, blockCarry, flags, consumers, repairs,
                     range, digits, pc>>

(* The end of the thread's walk: its low block's carry, and its flags.     *)
PassEnd(t) ==
  LET w == walk[t]
  IN  /\ pc = "pass" /\ w.at = "A"
      /\ w.n \notin DOMAIN rounds[t]
      /\ walk' = [walk EXCEPT ![t].at = "end"]
      /\ blockCarry' = [blockCarry EXCEPT ![t] = w.carry]
      /\ flags' = [carried1    |-> flags.carried1 \/ w.carried1,
                   pal1        |-> flags.pal1 /\ w.equal,
                   everCarried |-> flags.everCarried \/ w.carried2]
      /\ UNCHANGED <<truth, scratch, dst, chunkCarry, consumers, repairs, range,
                     digits, pc>>

-----------------------------------------------------------------------------
(* The repair *)

(* The wrong digits of a round's two intervals. *)
RippleLo(t, n) == RippleOf(s1, Round(t, n).rLo, l1)
RippleHi(t, n) == RippleOf(s1, Round(t, n).rHi, l1)

AnyRipple ==
  \E x \in AllRounds(rounds) :
    DOMAIN RippleLo(x[1], x[2]) \union DOMAIN RippleHi(x[1], x[2]) # {}

(* The output lines that consumed them. *)
Consumers ==
  UNION {RoundConsumers(x[1], x[2], Round(x[1], x[2]), RippleLo(x[1], x[2]),
                        RippleHi(x[1], x[2]), l1) : x \in AllRounds(rounds)}

(* All threads are through the end barrier: the repair finds the wrong     *)
(* guesses, and with them the exact carry flag of the second step.         *)
StartRepair ==
  /\ pc = "pass"
  /\ \A t \in Thread : walk[t].at = "end"
  /\ consumers' = Consumers
  /\ repairs' = consumers'
  /\ flags' = [flags EXCEPT !.everCarried = SecondCarried(AnyRipple)]
  /\ pc' = "repair"
  /\ UNCHANGED <<truth, scratch, dst, walk, carries, range, digits>>

(* Mutant: the carry recorded for the chain stays what the pass made it. *)
RecordNothing(x, carry) == UNCHANGED carries

Record(x, carry) ==
  IF x.key[3] = 0
  THEN /\ blockCarry' = [blockCarry EXCEPT ![x.key[1]] = carry]
       /\ UNCHANGED chunkCarry
  ELSE /\ chunkCarry' = [chunkCarry EXCEPT ![ChunkSlot(x.key[1], x.key[2])] = carry]
       /\ UNCHANGED blockCarry

(* One affected line is recomputed, and the lines upward from it; if that  *)
(* reaches the end of the chain its recorded carry is corrected.           *)
RepairLine(x) ==
  LET r == Repaired(x, dst, s2, ConsumedSums(d1, l1, x.fwd, x.rev))
  IN  /\ pc = "repair"
      /\ \A y \in repairs : y = x \/ Precedes(x, y)
      /\ dst' = Overlay(dst, r.digit)
      /\ IF r.atEnd THEN Record(x, r.carry) ELSE UNCHANGED carries
      /\ repairs' = repairs \ {x}
      /\ UNCHANGED <<truth, scratch, walk, flags, consumers, range, digits, pc>>

EndRepair ==
  /\ pc = "repair"
  /\ repairs = {}
  /\ pc' = "resolve"
  /\ UNCHANGED <<truth, scratch, dst, walk, carries, flags, consumers, repairs,
                 range, digits>>

-----------------------------------------------------------------------------
(* The carries between the ranges *)

Ranges == RangesOf(rounds, Q1Lines, blockCarry, chunkCarry)

(* resolve_carries_fused, one range. *)
ResolveRange(g) ==
  LET lo == g.start * DPL
      end == MinOf(g.end * DPL, l1 + 1)
  IN  /\ g.start = range.line
      /\ dst' = IF range.carry THEN Increment(dst, lo, end) ELSE dst
      /\ range' = [line  |-> g.end,
                   carry |-> g.carry \/ (range.carry /\ Escapes(dst, lo, end))]
      /\ UNCHANGED <<truth, scratch, walk, carries, flags, consumers, repairs,
                     digits, pc>>

(* A carry out of the top range is the second step's leading one; the      *)
(* slot above the intermediate number tells the length of the result.      *)
Return ==
  /\ pc = "resolve"
  /\ range.line = Q1Lines
  /\ dst' = IF range.carry THEN [dst EXCEPT ![l1] = 1] ELSE dst
  /\ digits' = l1 + Bit(dst'[l1] # 0)
  /\ pc' = "done"
  /\ UNCHANGED <<truth, scratch, walk, carries, flags, consumers, repairs, range>>

Done == pc = "done" /\ UNCHANGED vars

Next ==
  \/ \E t \in Thread : PhaseA(t) \/ PhaseB(t) \/ PassEnd(t)
  \/ StartRepair
  \/ \E x \in repairs : RepairLine(x)
  \/ EndRepair
  \/ pc = "resolve" /\ \E g \in Ranges : ResolveRange(g)
  \/ Return
  \/ Done

Spec == Init /\ [][Next]_vars

-----------------------------------------------------------------------------
(* Properties *)

Middle == ReverseAdd(source, l)
Wanted == ReverseAdd(Middle, l1)

(* The double step reports what no test will see: whether its second step *)
(* carried anywhere, and whether the intermediate number was a palindrome  *)
(* that the loop would have stopped at.                                    *)
FlagsExact ==
  pc = "done" =>
    /\ flags.everCarried = AnyCarried(Middle, l1)
    /\ (~flags.carried1 /\ flags.pal1)
         <=> (~AnyCarried(source, l) /\ IsPalindrome(Middle, l1))

(* After the repair every range holds what it would hold had the pass read *)
(* the true intermediate number, and so does the carry recorded for it.    *)
RangesExact ==
  pc = "resolve" /\ range.line = 0 /\ Apart(consumers) =>
    \A g \in Ranges :
      LET c(d) == CarryInto(s2, g.start * DPL, d, FALSE)
      IN  /\ \A d \in Slots(<<g.start, g.end>>) : dst[d] = Resolved(s2[d], c(d))
          /\ g.carry = c(g.end * DPL)

(* The result is that of two single steps, its length and the padding      *)
(* above it included, unless a chain was repaired twice.                   *)
TwoStepsUnlessRepairedTwice ==
  pc = "done" /\ Apart(consumers) =>
    /\ digits = NumDigits(Wanted)
    /\ \A d \in DOMAIN dst : dst[d] = IF d < digits THEN Wanted[d] ELSE 0

(* "The fused double step must agree with two serial packed steps"         *)
(* (packed/tests.rs 189).                                                  *)
AgreesWithTwoSteps ==
  pc = "done" => [d \in 0 .. digits - 1 |-> dst[d]] = Wanted

=============================================================================
