----------------------------- MODULE ByteEngine -----------------------------
(***************************************************************************)
(* The byte engine's pool (ParallelEngine and Shared in parallel/mod.rs,   *)
(* add_block and increment_block in integer_limb/mod.rs): one digit to a   *)
(* byte, and every reverse-and-add step in place.                          *)
(*                                                                         *)
(* The threads first zip the number: the free upper nibble of every byte   *)
(* takes the digit of the mirrored byte.  Then each adds its two blocks of *)
(* limbs, lower nibbles to upper ones, overwriting them.  The reversed     *)
(* operand of a limb lies skip_len bytes further up, partly in the limb    *)
(* above; of the limb above its block a thread therefore keeps a copy,     *)
(* taken while nobody writes.  The coordinator, thread 0, resolves the     *)
(* carries between the blocks.                                             *)
(*                                                                         *)
(* The barrier is the abstract one (module Barrier).  One action is one    *)
(* pair of limbs zipped or one limb added.  A limb is a line of module     *)
(* Layout; there are no chunks here.                                       *)
(***************************************************************************)
EXTENDS Layout

CONSTANTS
  MaxSteps,     \* bound: calls of step() before the engine is dropped
  Start         \* the numbers the engine may be given first

ASSUME NumberAssumption == \A x \in Start : IsProper(x)

VARIABLES
  digit,        \* the lower nibble of every byte of the limb vector
  mirror,       \* its upper nibble
  pub,          \* the published step: limbs, skip_len, and the two bounds
  blockCarry,   \* carry out of each block
  everCarried,  \* whether any digit carried in this step
  stop,         \* tells the workers to leave
  phase,        \* the barrier
  pc,           \* where each thread is
  loc,          \* the copies, the next pair or limb, the carry of each thread
  call,         \* step()'s locals: next block, carry
  ret,          \* what the last step() returned
  steps,        \* calls of step() so far
  was           \* history: the number the step in progress started from

limbs == <<digit, mirror>>
vars == <<limbs, pub, blockCarry, everCarried, stop, phase, pc, loc, call, ret,
          steps, was>>

TheBarrier == INSTANCE Barrier

-----------------------------------------------------------------------------
(* Limbs *)

(* The bytes of a limb, a digit to each. *)
LV_LEN == DPL

Lanes == 0 .. LV_LEN - 1
Byte(i, p) == i * LV_LEN + p
LimbCount == NumDigits(digit) \div LV_LEN

(* The digits of a limb that is not zero (Limb::len). *)
LimbLen(i) ==
  CHOOSE n \in 1 .. LV_LEN :
    /\ digit[Byte(i, n - 1)] # 0
    /\ \A p \in n .. LV_LEN - 1 : digit[Byte(i, p)] = 0

(* The number an Integer holds; its top limb is not zero. *)
Current ==
  [d \in 0 .. (LimbCount - 1) * LV_LEN + LimbLen(LimbCount - 1) - 1 |-> digit[d]]

(* Mutant: the threads share out limbs, not pairs of limbs. *)
ZipBoundsOfLimbs(total) ==
  [t \in 0 .. NumThreads |-> (t * total) \div NumThreads]

(* The pairs of limbs, in NumThreads almost equal parts. *)
ZipBounds(total) ==
  [t \in 0 .. NumThreads |-> (t * DivCeil(total, 2)) \div NumThreads]

NoStep == [total |-> 0, skip |-> 0, block |-> BlockBounds(0), zip |-> ZipBounds(0)]
NoLoc == [copy |-> <<>>, at |-> 0, carry |-> FALSE, any |-> FALSE]

Init ==
  /\ \E x \in Start : digit = Resize(x, DivCeil(NumDigits(x), LV_LEN))
  /\ mirror = [d \in DOMAIN digit |-> 0]
  /\ pub = NoStep
  /\ blockCarry = [j \in 0 .. NumBlocks - 1 |-> FALSE]
  /\ everCarried = FALSE
  /\ stop = FALSE
  /\ TheBarrier!Init
  /\ pc = [t \in Thread |-> IF t = 0 THEN "call" ELSE "start"]
  /\ loc = [t \in Thread |-> NoLoc]
  /\ call = [block |-> 0, carry |-> FALSE]
  /\ ret = TRUE
  /\ steps = 0
  /\ was = <<>>

Goto(t, from, to) ==
  /\ pc[t] = from
  /\ pc' = [pc EXCEPT ![t] = to]

shared == <<pub, blockCarry, everCarried, stop>>
caller == <<call, ret, steps, was>>

(* step(), up to the start barrier: a padding limb on top, and the step is *)
(* published.                                                              *)
Publish ==
  /\ Goto(0, "call", "start")
  /\ steps < MaxSteps
  /\ steps' = steps + 1
  /\ digit' = Resize(digit, LimbCount + 1)
  /\ mirror' = Resize(mirror, LimbCount + 1)
  /\ pub' = [total |-> LimbCount,
             skip  |-> LV_LEN - LimbLen(LimbCount - 1),
             block |-> BlockBounds(LimbCount),
             zip   |-> ZipBounds(LimbCount)]
  /\ everCarried' = FALSE
  /\ call' = [block |-> 0, carry |-> FALSE]
  /\ was' = Current
  /\ UNCHANGED <<blockCarry, stop, phase, loc, ret>>

(* Mutant: stop is not set. *)
DropSilently ==
  /\ Goto(0, "call", "drop")
  /\ UNCHANGED <<limbs, shared, phase, loc, caller>>

(* Drop: stop is set, and the start barrier lets the workers see it. *)
Drop ==
  /\ Goto(0, "call", "drop")
  /\ stop' = TRUE
  /\ UNCHANGED <<limbs, pub, blockCarry, everCarried, phase, loc, caller>>

-----------------------------------------------------------------------------
(* The barriers *)

Waits == {"start", "zipped", "copied", "added", "drop"}

Arrive(t) ==
  /\ pc[t] \in Waits
  /\ TheBarrier!Arrive(t)
  /\ UNCHANGED <<limbs, shared, pc, loc, caller>>

Open ==
  /\ TheBarrier!Open
  /\ UNCHANGED <<limbs, shared, pc, loc, caller>>

(* Through the start barrier into run_phases. *)
Enter(t) ==
  /\ ~(stop /\ t # 0)
  /\ Goto(t, "start", "zip")
  /\ TheBarrier!Leave(t)
  /\ loc' = [loc EXCEPT ![t] = [NoLoc EXCEPT !.at = pub.zip[t]]]
  /\ UNCHANGED <<limbs, shared, caller>>

(* A worker that sees stop breaks out of its loop. *)
Exit(t) ==
  /\ stop /\ t # 0
  /\ Goto(t, "start", "exited")
  /\ TheBarrier!Leave(t)
  /\ UNCHANGED <<limbs, shared, loc, caller>>

-----------------------------------------------------------------------------
(* run_phases *)

(* One round of zipper: each limb of a pair takes the other's digits,      *)
(* reversed, into its upper nibbles.  The middle limb is its own partner.  *)
ZipPair(t) ==
  LET i == loc[t].at
      k == pub.total - 1 - i
  IN  /\ pc[t] = "zip"
      /\ i < pub.zip[t + 1]
      /\ mirror' = [d \in DOMAIN mirror |->
           IF d \div LV_LEN \in {i, k}
           THEN digit[pub.total * LV_LEN - 1 - d] ELSE mirror[d]]
      /\ loc' = [loc EXCEPT ![t].at = i + 1]
      /\ UNCHANGED <<digit, shared, phase, pc, caller>>

EndZip(t) ==
  /\ loc[t].at = pub.zip[t + 1]
  /\ Goto(t, "zip", "zipped")
  /\ UNCHANGED <<limbs, shared, phase, loc, caller>>

(* The limb just past a thread's block j. *)
LimbAbove(j) == [p \in Lanes |-> mirror[Byte(pub.block[j + 1], p)]]

(* Between the second and the third barrier, when everything is zipped and *)
(* nobody writes: the limbs just past the thread's two blocks.             *)
Copy(t) ==
  /\ Goto(t, "zipped", "copied")
  /\ TheBarrier!Leave(t)
  /\ loc' = [loc EXCEPT ![t].copy = [j \in {t, HighBlock(t)} |-> LimbAbove(j)]]
  /\ UNCHANGED <<limbs, shared, caller>>

(* Mutant: the copies are taken when the adding starts, with no barrier in *)
(* between.                                                                *)
CopyEarly(t) ==
  /\ Goto(t, "copied", "low")
  /\ TheBarrier!Leave(t)
  /\ loc' = [loc EXCEPT
       ![t].at = pub.block[t], ![t].carry = FALSE,
       ![t].copy = [j \in {t, HighBlock(t)} |-> LimbAbove(j)]]
  /\ UNCHANGED <<limbs, shared, caller>>

StartAdd(t) ==
  /\ Goto(t, "copied", "low")
  /\ TheBarrier!Leave(t)
  /\ loc' = [loc EXCEPT ![t].at = pub.block[t], ![t].carry = FALSE]
  /\ UNCHANGED <<limbs, shared, caller>>

(* The block a thread is adding. *)
BlockOf(t) == IF pc[t] = "low" THEN t ELSE HighBlock(t)

(* Byte p of the reversed operand of the limb a thread is at: skip_len     *)
(* bytes up, in the limb itself, in the next one of the block, or in the   *)
(* copy of the limb past it (add_block).                                   *)
Operand(t, p) ==
  LET i == loc[t].at
  IN  IF p + pub.skip < LV_LEN \/ i + 1 < pub.block[BlockOf(t) + 1]
      THEN mirror[Byte(i, p + pub.skip)]
      ELSE loc[t].copy[BlockOf(t)][p + pub.skip - LV_LEN]

(* add_resolve_limb: the limb is overwritten by the sum, its upper nibbles *)
(* are cleared.                                                            *)
AddLimb(t) ==
  LET i == loc[t].at
      s == [p \in Lanes |-> digit[Byte(i, p)] + Operand(t, p)]
      c(p) == CarryInto(s, 0, p, loc[t].carry)
      own(d) == d \div LV_LEN = i
  IN  /\ pc[t] \in {"low", "high"}
      /\ i < pub.block[BlockOf(t) + 1]
      /\ digit' = [d \in DOMAIN digit |->
           IF own(d) THEN Resolved(s[d % LV_LEN], c(d % LV_LEN)) ELSE digit[d]]
      /\ mirror' = [d \in DOMAIN mirror |-> IF own(d) THEN 0 ELSE mirror[d]]
      /\ loc' = [loc EXCEPT ![t].at = i + 1, ![t].carry = c(LV_LEN),
                            ![t].any = @ \/ \E p \in 0 .. LV_LEN : c(p)]
      /\ UNCHANGED <<shared, phase, pc, caller>>

(* The end of the low block: on to the high one, with a carry-in of zero. *)
EndLow(t) ==
  /\ loc[t].at = pub.block[t + 1]
  /\ Goto(t, "low", "high")
  /\ blockCarry' = [blockCarry EXCEPT ![t] = loc[t].carry]
  /\ loc' = [loc EXCEPT ![t].at = pub.block[HighBlock(t)], ![t].carry = FALSE]
  /\ UNCHANGED <<limbs, pub, everCarried, stop, phase, caller>>

EndHigh(t) ==
  /\ loc[t].at = pub.block[HighBlock(t) + 1]
  /\ Goto(t, "high", "added")
  /\ blockCarry' = [blockCarry EXCEPT ![HighBlock(t)] = loc[t].carry]
  /\ everCarried' = (everCarried \/ loc[t].any)
  /\ UNCHANGED <<limbs, pub, stop, phase, loc, caller>>

(* Through the last barrier: a worker back to the start barrier, the       *)
(* coordinator on to the carries.                                          *)
Rejoin(t) ==
  /\ Goto(t, "added", IF t = 0 THEN "resolve" ELSE "start")
  /\ TheBarrier!Leave(t)
  /\ UNCHANGED <<limbs, shared, loc, caller>>

-----------------------------------------------------------------------------
(* The coordinator *)

(* Mutant: an empty block absorbs the carry into it. *)
CarryPastNonempty(j, lo, end) ==
  blockCarry[j] \/ (call.carry /\ lo < end /\ Escapes(digit, lo, end))

(* The carry out of block j once the carry into it is known: that of the   *)
(* pass, or the increment ran through all of it, as it does through an     *)
(* empty block.                                                            *)
CarryPast(j, lo, end) ==
  blockCarry[j] \/ (call.carry /\ Escapes(digit, lo, end))

ResolveBlock ==
  LET j == call.block
      lo == pub.block[j] * LV_LEN
      end == pub.block[j + 1] * LV_LEN
  IN  /\ pc[0] = "resolve"
      /\ j < NumBlocks
      /\ digit' = IF call.carry THEN Increment(digit, lo, end) ELSE digit
      /\ call' = [block |-> j + 1, carry |-> CarryPast(j, lo, end)]
      /\ UNCHANGED <<mirror, shared, phase, pc, loc, ret, steps, was>>

(* The end of step(): the padding limb takes the last carry, or goes.      *)
Return ==
  /\ Goto(0, "resolve", "call")
  /\ call.block = NumBlocks
  /\ digit' = IF call.carry THEN [digit EXCEPT ![Byte(pub.total, 0)] = 1]
                            ELSE Resize(digit, pub.total)
  /\ mirror' = Resize(mirror, LimbCount')
  /\ ret' = everCarried
  /\ was' = <<>>
  /\ UNCHANGED <<shared, phase, loc, call, steps>>

(* Drop's wait returned: the workers are joined. *)
LeaveDrop ==
  /\ Goto(0, "drop", "join")
  /\ TheBarrier!Leave(0)
  /\ UNCHANGED <<limbs, shared, loc, caller>>

Join ==
  /\ Goto(0, "join", "dropped")
  /\ \A t \in Thread \ {0} : pc[t] = "exited"
  /\ UNCHANGED <<limbs, shared, phase, loc, caller>>

(* The engine is gone. *)
Dropped == pc[0] = "dropped" /\ UNCHANGED vars

ThreadStep(t) ==
  \/ Arrive(t) \/ Enter(t) \/ Exit(t)
  \/ ZipPair(t) \/ EndZip(t)
  \/ Copy(t) \/ StartAdd(t)
  \/ AddLimb(t) \/ EndLow(t) \/ EndHigh(t)
  \/ Rejoin(t)

Coordination == ResolveBlock \/ Return \/ LeaveDrop \/ Join

Next ==
  \/ Publish
  \/ Drop
  \/ Open
  \/ \E t \in Thread : ThreadStep(t)
  \/ Coordination
  \/ Dropped

Spec == Init /\ [][Next]_vars

(* Every thread runs on; whether step() is called again or the engine is   *)
(* dropped is the caller's choice.                                         *)
Fairness ==
  /\ WF_vars(Open)
  /\ \A t \in Thread : WF_vars(ThreadStep(t))
  /\ WF_vars(Coordination)

FairSpec == Spec /\ Fairness

-----------------------------------------------------------------------------
(* Properties *)

InStep == pc[0] \notin {"call", "drop", "join", "dropped"}

(* The engine is a machine that does one reverse-and-add per call of       *)
(* step() and reports its carry flag, though it destroys its operand on    *)
(* the way ("a drop-in equivalent of fused_reverse_add_asm_interleave",    *)
(* parallel/mod.rs 281-282).                                               *)
Loop == INSTANCE ReverseAddLoop WITH
  number <- IF InStep THEN was ELSE Current, carried <- ret
ImplementsReverseAdd == Loop!Spec

(* Whatever has been overwritten by then, in this thread's block or beyond *)
(* it, the operands of the next limb are the digits of the number as it    *)
(* was and of its reversal.                                                *)
OperandsOfOldNumber ==
  \A t \in {t \in Thread : pc[t] \in {"low", "high"}} :
    LET old(d) == IF d \in DOMAIN was THEN was[d] ELSE 0
        i == loc[t].at
    IN  i < pub.block[BlockOf(t) + 1] =>
          \A p \in Lanes :
            /\ digit[Byte(i, p)] = old(Byte(i, p))
            /\ Operand(t, p) = old(NumDigits(was) - 1 - Byte(i, p))

(* The limbs a thread's next action reads and writes. *)
Writes(t) ==
  CASE pc[t] = "zip" /\ loc[t].at < pub.zip[t + 1] ->
         {loc[t].at, pub.total - 1 - loc[t].at}
    [] pc[t] \in {"low", "high"} /\ loc[t].at < pub.block[BlockOf(t) + 1] ->
         {loc[t].at}
    [] OTHER -> {}

Reads(t) ==
  CASE pc[t] \in {"low", "high"} /\ loc[t].at + 1 < pub.block[BlockOf(t) + 1] ->
         {loc[t].at, loc[t].at + 1}
    [] pc[t] = "zipped" /\ phase[t] = "released" ->
         {pub.block[t + 1], pub.block[HighBlock(t) + 1]}
    [] OTHER -> Writes(t)

(* Two threads never have accesses to the same limb ahead of them of which *)
(* one writes it ("accesses are partitioned by block and ordered by the    *)
(* barrier", parallel/mod.rs 105-106), and the coordinator resolves and    *)
(* returns only when no worker has any.                                    *)
NoRace ==
  /\ \A t, u \in Thread : t # u => Writes(t) \intersect Reads(u) = {}
  /\ pc[0] \in {"call", "resolve", "drop", "join"} =>
       \A t \in Thread \ {0} : Reads(t) = {}

(* step() returns, and Drop joins every worker. *)
CallsReturn ==
  /\ pc[0] = "start" ~> pc[0] = "call"
  /\ pc[0] = "drop" ~> pc[0] = "dropped"

=============================================================================
