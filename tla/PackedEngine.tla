---------------------------- MODULE PackedEngine ----------------------------
(***************************************************************************)
(* The packed engine's pool (PackedEngine and SharedPacked in              *)
(* packed/mod.rs) performing single reverse-and-add steps.                 *)
(*                                                                         *)
(* Thread 0 calls step(): it publishes the pass in the shared fields, goes *)
(* through the start barrier, walks its own pair of blocks like every      *)
(* worker, goes through the end barrier and resolves the carries between   *)
(* the ranges alone.  The workers wait at the start barrier in between.    *)
(* Dropping the engine sets stop and lets everybody through once more.     *)
(*                                                                         *)
(* The barrier is the abstract one (module Barrier), which SpinBarrier     *)
(* implements.  One action of a walk is one chunk: a thread only reads the *)
(* source, which nobody writes during a pass, and writes lines of its own, *)
(* which OneWriterPerLine checks.                                          *)
(***************************************************************************)
EXTENDS Layout

CONSTANTS
  MaxSteps,     \* bound: calls of step() before the engine is dropped
  Start         \* the numbers the engine may be given first

ASSUME NumberAssumption == \A x \in Start : IsProper(x)

VARIABLES
  a,            \* the two digit buffers of the PackedInt
  cur,          \* the one that holds the number
  digits,       \* its length
  pub,          \* the published pass: src, dst, lines, digits, bounds
  chunkCarry,   \* carry out of each chunk of a high block, by slot
  blockCarry,   \* carry out of each low block
  everCarried,  \* whether any digit carried in this pass
  stop,         \* tells the workers to leave
  phase,        \* the barrier
  pc,           \* where each thread is
  loc,          \* the walk of each thread
  call,         \* step()'s locals: digits of the result, range, carry
  ret,          \* what the last step() returned
  steps,        \* calls of step() so far
  wrote         \* history: the lines each thread wrote in this pass

vars == <<a, cur, digits, pub, chunkCarry, blockCarry, everCarried, stop,
          phase, pc, loc, call, ret, steps, wrote>>

TheBarrier == INSTANCE Barrier

-----------------------------------------------------------------------------
(* Numbers, chunks and their carry slots *)

(* The number a PackedInt holds. *)
Current == [d \in 0 .. digits - 1 |-> a[cur][d]]

(* The carry slot of the chunk of high block j that starts at line x. *)
ChunkSlot(j, x) == j + x \div CHUNK_LINES + 1

(* Mutant: the high blocks' offsets are left out of the slot count. *)
SlotsForChunks(lines) == lines \div CHUNK_LINES + 2

(* The slots a pass over that many lines may address. *)
SlotsFor(lines) == NumBlocks + lines \div CHUNK_LINES + 2

IsPowerOfTwo(p) == \A d \in 1 .. p : p % d = 0 /\ d % 2 = 1 => d = 1

NextPowerOfTwo(n) ==
  CHOOSE p \in n .. 2 * n :
    IsPowerOfTwo(p) /\ \A q \in n .. p - 1 : ~IsPowerOfTwo(q)

(* Mutants: the chunk may reach below its block; the chunk under a grid    *)
(* line is empty.                                                          *)
ChunkStartUnclamped(x, limit) == ((x - 1) \div CHUNK_LINES) * CHUNK_LINES
ChunkStartOnGrid(x, limit) == MaxOf((x \div CHUNK_LINES) * CHUNK_LINES, limit)

ChunkStart(x, limit) == MaxOf(((x - 1) \div CHUNK_LINES) * CHUNK_LINES, limit)

(* The column sums the pass sees: the reversed operand is zero below digit *)
(* 0, and so is the source's padding above its top digit.                  *)
PassSums(job) ==
  [d \in 0 .. job.lines * DPL - 1 |->
     a[job.src][d] + IF d < job.digits THEN a[job.src][job.digits - 1 - d]
                                       ELSE 0]

(* One call of run_range over lines x .. y-1: the lines it writes, the     *)
(* carry out of the last one, and whether anything carried.                *)
RunRange(job, x, y, carryIn) ==
  LET s == PassSums(job)
      c(d) == CarryInto(s, x * DPL, d, carryIn)
  IN  [ digit  |-> [d \in x * DPL .. y * DPL - 1 |-> Resolved(s[d], c(d))],
        carry   |-> c(y * DPL),
        carried |-> \E d \in x * DPL .. y * DPL : c(d) ]

(* Stores the lines of a range into the destination. *)
Store(job, x, y, digit) ==
  [a EXCEPT ![job.dst] =
     [d \in DOMAIN @ |-> IF d \in DOMAIN digit THEN digit[d] ELSE @[d]]]

-----------------------------------------------------------------------------

NoPass == [src |-> 0, dst |-> 0, lines |-> 0, digits |-> 0,
           bounds |-> [k \in 0 .. NumBlocks |-> 0]]
NoWalk == [job |-> NoPass, lo |-> 0, hi |-> 0, carry |-> FALSE, any |-> FALSE]
NoCall == [out |-> 0, line |-> 0, carry |-> FALSE]

(* from_integer packs the first buffer and leaves the second one empty;    *)
(* the workers are at the start barrier or on their way to it.             *)
Init ==
  /\ \E x \in Start :
       /\ digits = NumDigits(x)
       /\ a = [b \in {0, 1} |->
                 IF b = 0 THEN Resize(x, DivCeil(NumDigits(x), DPL)) ELSE <<>>]
  /\ cur = 0
  /\ pub = NoPass
  /\ chunkCarry = <<>>
  /\ blockCarry = [j \in 0 .. NumBlocks - 1 |-> FALSE]
  /\ everCarried = FALSE
  /\ stop = FALSE
  /\ TheBarrier!Init
  /\ pc = [t \in Thread |-> IF t = 0 THEN "call" ELSE "start"]
  /\ loc = [t \in Thread |-> NoWalk]
  /\ call = NoCall
  /\ ret = TRUE
  /\ steps = 0
  /\ wrote = [t \in Thread |-> {}]

Goto(t, from, to) ==
  /\ pc[t] = from
  /\ pc' = [pc EXCEPT ![t] = to]

packedInt == <<a, cur, digits>>
carries == <<chunkCarry, blockCarry, everCarried>>

(* step(), up to the start barrier: the prescan sizes the result, the      *)
(* carry slots and the destination grow if they must, and the pass is      *)
(* published.                                                              *)
Publish ==
  LET lines == DivCeil(digits, DPL)
      out == digits + Bit(PrescanGrow(Current, digits))
  IN  /\ Goto(0, "call", "start")
      /\ steps < MaxSteps
      /\ steps' = steps + 1
      /\ a' = [a EXCEPT ![1 - cur] = Resize(@, DivCeil(out, DPL))]
      /\ chunkCarry' =
           IF Cardinality(DOMAIN chunkCarry) < SlotsFor(lines)
           THEN [i \in 0 .. NextPowerOfTwo(SlotsFor(lines)) - 1 |-> FALSE]
           ELSE chunkCarry
      /\ pub' = [src |-> cur, dst |-> 1 - cur, lines |-> lines,
                 digits |-> digits, bounds |-> BlockBounds(lines)]
      /\ everCarried' = FALSE
      /\ call' = [out |-> out, line |-> 0, carry |-> FALSE]
      /\ wrote' = [t \in Thread |-> {}]
      /\ UNCHANGED <<cur, digits, blockCarry, stop, phase, loc, ret>>

(* Mutant: stop is not set. *)
DropSilently ==
  /\ Goto(0, "call", "drop")
  /\ UNCHANGED <<packedInt, pub, carries, stop, phase, loc, call, ret, steps,
                 wrote>>

(* Drop: stop is set, and the start barrier lets the workers see it. *)
Drop ==
  /\ Goto(0, "call", "drop")
  /\ stop' = TRUE
  /\ UNCHANGED <<packedInt, pub, carries, phase, loc, call, ret, steps, wrote>>

Arrive(t) ==
  /\ pc[t] \in {"start", "end", "drop"}
  /\ TheBarrier!Arrive(t)
  /\ UNCHANGED <<packedInt, pub, carries, stop, pc, loc, call, ret, steps, wrote>>

Open ==
  /\ TheBarrier!Open
  /\ UNCHANGED <<packedInt, pub, carries, stop, pc, loc, call, ret, steps, wrote>>

(* Through the start barrier into the pass: run_pair loads the published   *)
(* fields and the bounds of the thread's two blocks.                       *)
Enter(t) ==
  /\ ~(stop /\ t # 0)
  /\ Goto(t, "start", "low")
  /\ TheBarrier!Leave(t)
  /\ loc' = [loc EXCEPT ![t] =
       [job |-> pub, lo |-> pub.bounds[t], hi |-> pub.bounds[HighBlock(t) + 1],
        carry |-> FALSE, any |-> FALSE]]
  /\ UNCHANGED <<packedInt, pub, carries, stop, call, ret, steps, wrote>>

(* A worker that sees stop breaks out of its loop. *)
Exit(t) ==
  /\ stop /\ t # 0
  /\ Goto(t, "start", "exited")
  /\ TheBarrier!Leave(t)
  /\ UNCHANGED <<packedInt, pub, carries, stop, loc, call, ret, steps, wrote>>

LowEnd(t) == loc[t].job.bounds[t + 1]
HighStart(t) == loc[t].job.bounds[HighBlock(t)]
Walking(t) == loc[t].lo < LowEnd(t) \/ loc[t].hi > HighStart(t)

(* Half a round of run_pair's walk: the next chunk of the ascending low    *)
(* block, on the carry of the one before it.                               *)
LowChunk(t) ==
  /\ Goto(t, "low", "high")
  /\ Walking(t)
  /\ IF loc[t].lo < LowEnd(t)
     THEN LET x == loc[t].lo
              y == ChunkEnd(x, LowEnd(t))
              r == RunRange(loc[t].job, x, y, loc[t].carry)
          IN  /\ a' = Store(loc[t].job, x, y, r.digit)
              /\ wrote' = [wrote EXCEPT ![t] = @ \union x .. y - 1]
              /\ loc' = [loc EXCEPT ![t].lo = y, ![t].carry = r.carry,
                                    ![t].any = @ \/ r.carried]
     ELSE UNCHANGED <<a, wrote, loc>>
  /\ UNCHANGED <<cur, digits, pub, carries, stop, phase, call, ret, steps>>

(* The other half: the next chunk of the descending high block, on a carry *)
(* of zero, with its carry out in a slot of its own.                       *)
HighChunk(t) ==
  /\ Goto(t, "high", "low")
  /\ IF loc[t].hi > HighStart(t)
     THEN LET y == loc[t].hi
              x == ChunkStart(y, HighStart(t))
              r == RunRange(loc[t].job, x, y, FALSE)
          IN  /\ a' = Store(loc[t].job, x, y, r.digit)
              /\ wrote' = [wrote EXCEPT ![t] = @ \union x .. y - 1]
              /\ loc' = [loc EXCEPT ![t].hi = x, ![t].any = @ \/ r.carried]
              /\ chunkCarry' =
                   [chunkCarry EXCEPT ![ChunkSlot(HighBlock(t), x)] = r.carry]
     ELSE UNCHANGED <<a, wrote, loc, chunkCarry>>
  /\ UNCHANGED <<cur, digits, pub, blockCarry, everCarried, stop, phase, call,
                 ret, steps>>

(* Both blocks walked: the low block's carry and the carried flag. *)
EndWalk(t) ==
  /\ Goto(t, "low", "end")
  /\ ~Walking(t)
  /\ blockCarry' = [blockCarry EXCEPT ![t] = loc[t].carry]
  /\ everCarried' = (everCarried \/ loc[t].any)
  /\ UNCHANGED <<packedInt, pub, chunkCarry, stop, phase, loc, call, ret, steps,
                 wrote>>

(* Mutant: the coordinator does not wait for the others to arrive. *)
RejoinEarly(t) ==
  /\ Goto(t, "end", IF t = 0 THEN "resolve" ELSE "start")
  /\ IF t = 0 THEN /\ phase[t] = "waiting"
                   /\ phase' = [phase EXCEPT ![t] = "outside"]
     ELSE TheBarrier!Leave(t)
  /\ UNCHANGED <<packedInt, pub, carries, stop, loc, call, ret, steps, wrote>>

(* Through the end barrier: a worker back to the start barrier, the        *)
(* coordinator on to the carry resolution.                                 *)
Rejoin(t) ==
  /\ Goto(t, "end", IF t = 0 THEN "resolve" ELSE "start")
  /\ TheBarrier!Leave(t)
  /\ UNCHANGED <<packedInt, pub, carries, stop, loc, call, ret, steps, wrote>>

(* The range that starts at a line: a low block whole, a high block chunk  *)
(* by chunk.  Empty blocks own no line and are passed over.                *)
BlockOf(line) ==
  CHOOSE j \in 0 .. NumBlocks - 1 :
    pub.bounds[j] <= line /\ line < pub.bounds[j + 1]

(* Mutant: a high block is resolved whole, like a low one. *)
RangeEndWhole(line) == pub.bounds[BlockOf(line) + 1]

RangeEnd(line) ==
  LET j == BlockOf(line)
  IN  IF j < NumThreads THEN pub.bounds[j + 1]
                        ELSE ChunkEnd(line, pub.bounds[j + 1])

RangeCarry(line) ==
  LET j == BlockOf(line)
  IN  IF j < NumThreads THEN blockCarry[j] ELSE chunkCarry[ChunkSlot(j, line)]

(* resolve_carries, one range: a range whose true carry-in is one gets a   *)
(* decimal increment at its base; its own carry out stands, or the         *)
(* increment ran through all of it.                                        *)
ResolveRange ==
  LET lo == call.line * DPL
      end == MinOf(RangeEnd(call.line) * DPL, call.out)
  IN  /\ pc[0] = "resolve"
      /\ call.line < pub.lines
      /\ a' = IF call.carry THEN [a EXCEPT ![pub.dst] = Increment(@, lo, end)]
                            ELSE a
      /\ call' = [call EXCEPT
           !.line = RangeEnd(@),
           !.carry = RangeCarry(call.line)
                       \/ (@ /\ Escapes(a[pub.dst], lo, end))]
      /\ UNCHANGED <<cur, digits, pub, carries, stop, phase, pc, loc, ret,
                     steps, wrote>>

(* The end of step(): a carry out of the top range is the grown number's   *)
(* leading one; the buffers change roles.                                  *)
Return ==
  /\ Goto(0, "resolve", "call")
  /\ call.line = pub.lines
  /\ a' = IF call.carry THEN [a EXCEPT ![pub.dst][call.out - 1] = 1] ELSE a
  /\ digits' = call.out
  /\ cur' = pub.dst
  /\ ret' = everCarried
  /\ UNCHANGED <<pub, carries, stop, phase, loc, call, steps, wrote>>

(* Drop's wait returned: the workers are joined. *)
LeaveDrop ==
  /\ Goto(0, "drop", "join")
  /\ TheBarrier!Leave(0)
  /\ UNCHANGED <<packedInt, pub, carries, stop, loc, call, ret, steps, wrote>>

Join ==
  /\ Goto(0, "join", "dropped")
  /\ \A t \in Thread \ {0} : pc[t] = "exited"
  /\ UNCHANGED <<packedInt, pub, carries, stop, phase, loc, call, ret, steps,
                 wrote>>

(* The engine is gone. *)
Dropped == pc[0] = "dropped" /\ UNCHANGED vars

(* What thread t does once it is in step(), in its loop, or in Drop. *)
ThreadStep(t) ==
  \/ Arrive(t)
  \/ Enter(t)
  \/ Exit(t)
  \/ LowChunk(t)
  \/ HighChunk(t)
  \/ EndWalk(t)
  \/ Rejoin(t)

Resolution == ResolveRange \/ Return

Next ==
  \/ Publish
  \/ Drop
  \/ Open
  \/ \E t \in Thread : ThreadStep(t)
  \/ Resolution
  \/ LeaveDrop
  \/ Join
  \/ Dropped

Spec == Init /\ [][Next]_vars

(* Every thread runs on; whether step() is called again or the engine is   *)
(* dropped is the caller's choice.                                         *)
Fairness ==
  /\ WF_vars(Open)
  /\ \A t \in Thread : WF_vars(ThreadStep(t))
  /\ WF_vars(Resolution \/ LeaveDrop \/ Join)

FairSpec == Spec /\ Fairness

-----------------------------------------------------------------------------
(* Properties *)

(* However the threads interleave, and whatever the ranges and carries of  *)
(* the pass, the engine is a machine that does one reverse-and-add per     *)
(* call of step() and reports its carry flag ("step is a drop-in           *)
(* equivalent of PackedInt::step", packed/mod.rs 1873-1874).               *)
Loop == INSTANCE ReverseAddLoop WITH number <- Current, carried <- ret
ImplementsReverseAdd == Loop!Spec

(* A thread in the middle of a pass. *)
InPass(t) ==
  \/ pc[t] \in {"low", "high"}
  \/ pc[t] = "start" /\ phase[t] = "released" /\ ~stop

(* The coordinator touches the buffers, the shared fields and the carry    *)
(* slots only while every worker is out of the pass.                       *)
CoordinatorAlone ==
  pc[0] \in {"call", "resolve", "drop", "join"} =>
    \A t \in Thread \ {0} : ~InPass(t)

(* No line of the destination is written by two threads in one pass, and   *)
(* at the end none of its lines is left over from an earlier number.       *)
OneWriterPerLine ==
  /\ \A t, u \in Thread : t # u => wrote[t] \intersect wrote[u] = {}
  /\ pc[0] = "resolve" =>
       UNION {wrote[t] : t \in Thread} = 0 .. pub.lines - 1

(* The chunks of high block j. *)
ChunksOf(j) ==
  {x \in pub.bounds[j] .. pub.bounds[j + 1] - 1 :
     x = pub.bounds[j] \/ x % CHUNK_LINES = 0}

(* Every chunk of a pass has a carry slot, and no two chunks share one.    *)
SlotsFit ==
  pc[0] \in {"start", "low", "high", "end", "resolve"} =>
    LET chunks == UNION {{<<j, x>> : x \in ChunksOf(j)} :
                           j \in NumThreads .. NumBlocks - 1}
    IN  /\ \A c \in chunks : ChunkSlot(c[1], c[2]) \in DOMAIN chunkCarry
        /\ \A c, e \in chunks :
             ChunkSlot(c[1], c[2]) = ChunkSlot(e[1], e[2]) => c = e

(* The loop invariant of the carry resolution: everything below the next   *)
(* range is final, and the carry in hand is the true carry into it.        *)
ResolvedPrefixExact ==
  pc[0] = "resolve" =>
    LET s == Sums(Current, digits)
        below == MinOf(call.line * DPL, digits)
    IN  /\ \A d \in 0 .. below - 1 :
             a[pub.dst][d] = ReverseAdd(Current, digits)[d]
        /\ call.line * DPL <= digits =>
             call.carry = CarryInto(s, 0, call.line * DPL, FALSE)

(* The padding above the top digit is clean, whatever the buffer held two  *)
(* steps ago ("dirty padding above the top digit").                        *)
PaddingClean == \A d \in DOMAIN a[cur] : d >= digits => a[cur][d] = 0

(* Every call returns: step() from the pass and its resolution, whichever  *)
(* worker is last at the barrier, and Drop with every worker joined.       *)
CallsReturn ==
  /\ pc[0] = "start" ~> pc[0] = "call"
  /\ pc[0] = "drop" ~> pc[0] = "dropped"

=============================================================================
