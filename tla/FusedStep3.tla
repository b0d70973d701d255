----------------------------- MODULE FusedStep3 -----------------------------
(***************************************************************************)
(* The fused triple step of the packed engine (step3 in packed/mod.rs):    *)
(* three reverse-and-add steps in one pass over the number, the two        *)
(* numbers in between only ever in scratch buffers.                        *)
(*                                                                         *)
(* A round guesses twice: that no carry enters the lines of the first step *)
(* it needs, and none the lines of the second step it makes of them.       *)
(* Digits of the second step come out wrong by either guess.  Every worker *)
(* finds and repairs the output lines that consumed them, in its own pair  *)
(* of blocks, before it goes to the end barrier, while others may still be *)
(* passing.  The coordinator corrects the flags and resolves the carries.  *)
(***************************************************************************)
EXTENDS Fused

CONSTANT Start   \* the numbers the step may be given

ASSUME StartAssumption == \A x \in Start : IsProper(x)

VARIABLES
  source,      \* the number: nobody writes it during the step
  l1, l2,      \* the lengths of the numbers in between
  s1, d1,      \* ground truth: the column sums and digits of the first step,
  s2, d2,      \* of the second,
  s3,          \* and the column sums of the third
  rounds,      \* the walk of each thread, round by round
  scratch,     \* each thread's two buffers of second-step lines
  dst,         \* the destination buffer
  walk,        \* each thread's next round, chain carry and flags
  blockCarry,  \* carry out of each low block
  chunkCarry,  \* carry out of each chunk of a high block, by slot
  flags,       \* the shared flags
  repairs,     \* the consumers each thread has still to repair
  found,       \* history: all of them
  range,       \* the resolution: next line, carry into it
  result,      \* what step3 returns
  pc           \* pass, resolve or done

carries == <<blockCarry, chunkCarry>>
truth == <<source, l1, s1, d1, l2, s2, d2, s3, rounds>>
vars == <<truth, scratch, dst, walk, carries, flags, repairs,
          found, range, result, pc>>

q2Lines == DivCeil(l2, DPL)
q1 == l1 \div DPL
q1Lines == DivCeil(l1, DPL)
Bounds == BlockBounds(q2Lines)
Round(t, n) == rounds[t][n].at

(* The carry slot of the high chunk of round n. *)
ChunkSlot(t, n) == FusedSlot(t, rounds[t][n].ord, q2Lines)

(* The intervals of first-step lines a round needs. *)
FirstLo(r) == FirstStepLo(r, q1, q1Lines)
FirstHi(r) == FirstStepHi(r, q1, q1Lines)

-----------------------------------------------------------------------------
(* The pass *)

(* Up to the start barrier: the lengths of the numbers in between are      *)
(* decided beforehand (prescan_grow, prescan_grow2), and the destination   *)
(* has room for the growth of the third step.                              *)
Init ==
  /\ source \in Start
  /\ l1 = NumDigits(source) + Bit(PrescanGrow(source, NumDigits(source)))
  /\ s1 = SumsOf(source, NumDigits(source), DivCeil(l1 + 1, DPL))
  /\ d1 = DigitsOf(s1)
  /\ l2 = l1 + Bit(PrescanGrow(d1, l1))
  /\ s2 = SumsOf(d1, l1, q2Lines)
  /\ d2 = DigitsOf(s2)
  /\ s3 = SumsOf(d2, l2, q2Lines)
  /\ rounds = [t \in Thread |-> RoundsOf(t, l2)]
  /\ dst = [d \in Slots(<<0, DivCeil(l2 + 1, DPL)>>) |->
              IF d < q2Lines * DPL THEN 9 ELSE 0]
  /\ chunkCarry = [i \in 0 .. NumThreads * FusedHiStride(q2Lines) - 1 |-> FALSE]
  /\ scratch = [t \in Thread |-> [lo |-> <<>>, hi |-> <<>>]]
  /\ walk = [t \in Thread |->
       [n |-> 0, at |-> "A", carry |-> FALSE, carried1 |-> FALSE,
        carried2 |-> FALSE, carried3 |-> FALSE, equal1 |-> TRUE, equal2 |-> TRUE]]
  /\ blockCarry = [t \in Thread |-> FALSE]
  /\ flags = [carried1 |-> FALSE, carried2 |-> FALSE, everCarried |-> FALSE,
              pal1 |-> TRUE, pal2 |-> TRUE, rip1 |-> FALSE, wrong2 |-> FALSE]
  /\ repairs = [t \in Thread |-> {}]
  /\ found = {}
  /\ range = [line |-> 0, carry |-> FALSE]
  /\ result = [digits |-> 0]
  /\ pc = "pass"

(* Phases A and B of a round, which touch the thread's scratch only: the   *)
(* lines of the first step from the source, and from these the lines of    *)
(* the second step, every interval on a carry of zero.                     *)
PhaseAB(t) ==
  LET r == Round(t, walk[t].n)
      firstLo == Speculated(s1, FirstLo(r))
      firstHi == Speculated(s1, FirstHi(r))
      lo == Output(r.rLo, firstLo, firstHi, l1, FALSE)
      hi == Output(r.rHi, firstHi, firstLo, l1, FALSE)
  IN  /\ pc = "pass" /\ walk[t].at = "A"
      /\ walk[t].n \in DOMAIN rounds[t]
      /\ scratch' = [scratch EXCEPT ![t] = [lo |-> lo.digit, hi |-> hi.digit]]
      /\ walk' = [walk EXCEPT
           ![t].at = "C",
           ![t].carried1 = @ \/ SpeculatedCarried(s1, FirstLo(r))
                             \/ SpeculatedCarried(s1, FirstHi(r)),
           ![t].carried2 = @ \/ lo.carried \/ hi.carried,
           ![t].equal1 = @ /\ lo.equal /\ hi.equal]
      /\ UNCHANGED <<truth, dst, carries, flags, repairs, found,
                     range, result, pc>>

(* Phase C: the round's two output chunks, from scratch. *)
PhaseC(t) ==
  LET w == walk[t]
      r == Round(t, w.n)
      lo == Output(r.lo, scratch[t].lo, scratch[t].hi, l2, w.carry)
      hi == Output(r.hi, scratch[t].hi, scratch[t].lo, l2, FALSE)
  IN  /\ pc = "pass" /\ w.at = "C"
      /\ dst' = Overlay(Overlay(dst, lo.digit), hi.digit)
      /\ chunkCarry' = IF IsEmpty(r.hi) THEN chunkCarry
                       ELSE [chunkCarry EXCEPT ![ChunkSlot(t, w.n)] = hi.carry]
      /\ walk' = [walk EXCEPT
           ![t].n = @ + 1,
           ![t].at = "A",
           ![t].carry = lo.carry,
           ![t].carried3 = @ \/ lo.carried \/ hi.carried,
           ![t].equal2 = @ /\ lo.equal /\ hi.equal]
      /\ UNCHANGED <<truth, scratch, blockCarry, flags, repairs,
                     found, range, result, pc>>

-----------------------------------------------------------------------------
(* The repair in the workers *)

RippleLo(t, n) == RippleOf(s1, FirstLo(Round(t, n)), l1)
RippleHi(t, n) == RippleOf(s1, FirstHi(Round(t, n)), l1)

(* Mutants: only the guesses of one level are looked at. *)
SeedsOfRipples(r, own, other) ==
  Slots(r) \intersect (DOMAIN own \union {l1 - 1 - p : p \in DOMAIN other})
SeedsOfBase(r, own, other) ==
  {p \in {r[1] * DPL} : p > 0 /\ CarryInto(s2, 0, p, FALSE)}

(* Where the second step as the pass computed interval r may leave the     *)
(* true one: at the interval's base if a carry enters it, and wherever a   *)
(* digit it consumed was wrong, forward or backward.                       *)
Seeds(r, own, other) ==
  Slots(r) \intersect
    (   {p \in {r[1] * DPL} : p > 0 /\ CarryInto(s2, 0, p, FALSE)}
     \union DOMAIN own
     \union {l1 - 1 - p : p \in DOMAIN other})

(* The wrong digits of interval r, as the pass had them: from each seed    *)
(* upward, until the pass and the truth agree again in digit and carry.    *)
WrongOf(r, own, other) ==
  LET sums == ConsumedSums(d1, l1, own, other)
      had == Speculated(sums, r)
      guessed == Guessed(sums, r)
      right == Receiving(s2, 0, r[2] * DPL, FALSE)
      wrong == {d \in Slots(r) : had[d] # d2[d]}
      off == wrong \union {d \in Slots(r) : (d + 1 \in guessed) # (d + 1 \in right)}
      reached(d) == \E s \in Seeds(r, own, other) : s <= d /\ s .. d - 1 \subseteq off
  IN  [d \in {d \in wrong : reached(d)} |-> had[d]]

WrongLo(t, n) == WrongOf(Round(t, n).rLo, RippleLo(t, n), RippleHi(t, n))
WrongHi(t, n) == WrongOf(Round(t, n).rHi, RippleHi(t, n), RippleLo(t, n))

Consumers(t) ==
  UNION {RoundConsumers(t, n, Round(t, n), WrongLo(t, n), WrongHi(t, n), l2) :
           n \in DOMAIN rounds[t]}

(* Mutant: the flags are stored, not only raised or lowered. *)
RaisedOver(w, rip, wrong) ==
  [carried1 |-> w.carried1, carried2 |-> w.carried2, everCarried |-> w.carried3,
   pal1 |-> w.equal1, pal2 |-> w.equal2, rip1 |-> rip, wrong2 |-> wrong]

(* The shared flags after a thread has added its own. *)
Raised(w, rip, wrong) ==
  [ carried1    |-> flags.carried1 \/ w.carried1,
    carried2    |-> flags.carried2 \/ w.carried2,
    everCarried |-> flags.everCarried \/ w.carried3,
    pal1        |-> flags.pal1 /\ w.equal1,
    pal2        |-> flags.pal2 /\ w.equal2,
    rip1        |-> flags.rip1 \/ rip,
    wrong2      |-> flags.wrong2 \/ wrong ]

(* The end of a thread's walk: its low block's carry, its flags, and the   *)
(* lines it has to repair.                                                 *)
PassEnd(t) ==
  LET n == DOMAIN rounds[t]
  IN  /\ pc = "pass" /\ walk[t].at = "A"
      /\ walk[t].n \notin n
      /\ walk' = [walk EXCEPT ![t].at = "repair"]
      /\ blockCarry' = [blockCarry EXCEPT ![t] = walk[t].carry]
      /\ flags' = Raised(walk[t],
           \E k \in n : DOMAIN RippleLo(t, k) \union DOMAIN RippleHi(t, k) # {},
           \E k \in n : DOMAIN WrongLo(t, k) \union DOMAIN WrongHi(t, k) # {})
      /\ repairs' = [repairs EXCEPT ![t] = Consumers(t)]
      /\ found' = found \union repairs'[t]
      /\ UNCHANGED <<truth, scratch, dst, chunkCarry, range,
                     result, pc>>

(* Mutant: the carry recorded for the chain stays what the pass made it. *)
RecordNothing(x, carry) == UNCHANGED carries

Record(x, carry) ==
  IF x.key[3] = 0
  THEN /\ blockCarry' = [blockCarry EXCEPT ![x.key[1]] = carry]
       /\ UNCHANGED chunkCarry
  ELSE /\ chunkCarry' = [chunkCarry EXCEPT ![ChunkSlot(x.key[1], x.key[2])] = carry]
       /\ UNCHANGED blockCarry

(* One affected line is recomputed, and the lines upward from it; if that  *)
(* reaches the end of the chain its recorded carry is corrected.           *)
RepairLine(t, x) ==
  LET r == Repaired(x, dst, s3,
                    ConsumedSums(d2, l2, x.fwd, x.rev))
  IN  /\ walk[t].at = "repair"
      /\ \A y \in repairs[t] : y = x \/ Precedes(x, y)
      /\ dst' = Overlay(dst, r.digit)
      /\ IF r.atEnd THEN Record(x, r.carry) ELSE UNCHANGED carries
      /\ repairs' = [repairs EXCEPT ![t] = @ \ {x}]
      /\ UNCHANGED <<truth, scratch, walk, flags, found, range,
                     result, pc>>

-----------------------------------------------------------------------------
(* The coordinator *)

(* The flags once wrong guesses have been seen (exact_flags3): the carry   *)
(* flags are taken from the true sums, and the comparison of the second    *)
(* number with its mirror image is not relied on.                          *)
ExactFlags3(f) ==
  [f EXCEPT
     !.carried2 = IF f.rip1 THEN Generates(s2, l1) ELSE @,
     !.everCarried = IF f.wrong2 THEN Generates(s3, l2) ELSE @,
     !.pal2 = @ \/ f.rip1]

(* Every thread is through the end barrier. *)
StartResolve ==
  /\ pc = "pass"
  /\ \A t \in Thread : walk[t].at = "repair" /\ repairs[t] = {}
  /\ flags' = ExactFlags3(flags)
  /\ pc' = "resolve"
  /\ UNCHANGED <<truth, scratch, dst, walk, carries, repairs,
                 found, range, result>>

Ranges == RangesOf(rounds, q2Lines, blockCarry, chunkCarry)

(* resolve_carries_fused, one range. *)
ResolveRange(g) ==
  LET lo == g.start * DPL
      end == MinOf(g.end * DPL, l2 + 1)
  IN  /\ g.start = range.line
      /\ dst' = IF range.carry THEN Increment(dst, lo, end) ELSE dst
      /\ range' = [line  |-> g.end,
                   carry |-> g.carry \/ (range.carry /\ Escapes(dst, lo, end))]
      /\ UNCHANGED <<truth, scratch, walk, carries, flags,
                     repairs, found, result, pc>>

(* A carry out of the top range is the third step's leading one; the slot  *)
(* above the second number tells the length of the result.                 *)
Return ==
  /\ pc = "resolve"
  /\ range.line = q2Lines
  /\ dst' = IF range.carry THEN [dst EXCEPT ![l2] = 1] ELSE dst
  /\ result' = [ digits  |-> l2 + Bit(dst'[l2] # 0),
                 carried |-> flags.everCarried,
                 mid1    |-> ~flags.carried1 /\ flags.pal1,
                 mid2    |-> ~flags.carried2 /\ flags.pal2 ]
  /\ pc' = "done"
  /\ UNCHANGED <<truth, scratch, walk, carries, flags, repairs,
                 found, range>>

Done == pc = "done" /\ UNCHANGED vars

Next ==
  \/ \E t \in Thread : PhaseAB(t) \/ PhaseC(t) \/ PassEnd(t)
  \/ \E t \in Thread : \E x \in repairs[t] : RepairLine(t, x)
  \/ StartResolve
  \/ pc = "resolve" /\ \E g \in Ranges : ResolveRange(g)
  \/ Return
  \/ Done

Spec == Init /\ [][Next]_vars

-----------------------------------------------------------------------------
(* Properties *)

First == [d \in 0 .. l1 - 1 |-> d1[d]]
Second == [d \in 0 .. l2 - 1 |-> d2[d]]

(* What a thread holds of the second step between its phases differs from  *)
(* the truth in exactly the digits its repair will look for, and with the  *)
(* values it will take them to have had: no wrong digit is overlooked,     *)
(* whichever level of guessing made it.                                    *)
WrongDigitsFound ==
  \A t \in {t \in Thread : walk[t].at = "C"} :
    LET wrong(b) == [d \in {d \in DOMAIN b : b[d] # d2[d]} |-> b[d]]
    IN  /\ wrong(scratch[t].lo) = WrongLo(t, walk[t].n)
        /\ wrong(scratch[t].hi) = WrongHi(t, walk[t].n)

(* The flags are those of the true steps, in whatever way the pass guessed *)
(* wrong: the one that gates the test of the result, and the two that tell *)
(* the loop of a palindrome among the numbers no test will see.            *)
FlagsExact ==
  pc = "done" =>
    /\ result.carried = AnyCarried(Second, l2)
    /\ result.mid1 <=> /\ ~AnyCarried(source, NumDigits(source))
                       /\ IsPalindrome(First, l1)
    /\ result.mid2 <=> ~AnyCarried(First, l1) /\ IsPalindrome(Second, l2)

(* A repair takes the carries below its line to have been made of the      *)
(* digits its own round read.  They were not where a wrong digit of the    *)
(* round meets a chunk that an earlier round has computed for the chain.   *)
InOwnChunk(x) ==
  LET earlier == Slots(<<x.chain[1], Round(x.key[1], x.key[2]).lo[1]>>)
  IN  x.key[3] = 0 =>
        (DOMAIN x.fwd \union {l2 - 1 - p : p \in DOMAIN x.rev}) \intersect earlier = {}

Undisputed == Apart(found) /\ \A x \in found : InOwnChunk(x)

(* After the repair every range holds what it would hold had the pass read *)
(* the true second number, and so does the carry recorded for it.          *)
RangesExact ==
  pc = "resolve" /\ range.line = 0 /\ Undisputed =>
    \A g \in Ranges :
      LET c(d) == CarryInto(s3, g.start * DPL, d, FALSE)
      IN  /\ \A d \in Slots(<<g.start, g.end>>) : dst[d] = Resolved(s3[d], c(d))
          /\ g.carry = c(g.end * DPL)

(* The result is that of three single steps, its length and the padding    *)
(* above it included, unless a chain was repaired twice or a repair        *)
(* mistook the digits of an earlier round for its own.                     *)
ThreeStepsUnlessRepairedTwice ==
  pc = "done" =>
    /\ First = ReverseAdd(source, NumDigits(source))
    /\ Second = ReverseAdd(First, l1)
    /\ Undisputed =>
         LET third == ReverseAdd(Second, l2)
         IN  /\ result.digits = NumDigits(third)
             /\ \A d \in DOMAIN dst :
                  dst[d] = IF d < result.digits THEN third[d] ELSE 0

=============================================================================
