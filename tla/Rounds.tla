------------------------------- MODULE Rounds -------------------------------
(***************************************************************************)
(* The walk of the fused passes over one thread's pair of blocks           *)
(* (for_each_round and for_each_round3): which output chunks each round    *)
(* computes, and which lines of the unmaterialized steps in between it     *)
(* needs for them.  The pass, the carry resolution and the repair all      *)
(* replay this walk.  An interval of lines is a pair <<start, end>>, the   *)
(* end excluded.                                                           *)
(***************************************************************************)
EXTENDS Layout

(* Lines of a scratch buffer. *)
SCRATCH_LINES == CHUNK_LINES + 16

IsEmpty(r) == r[1] >= r[2]
Lines(r) == r[1] .. r[2] - 1
Size(r) == IF IsEmpty(r) THEN 0 ELSE r[2] - r[1]

(* The smallest interval that contains both. *)
IntervalUnion(r, u) ==
  IF IsEmpty(r) THEN u
  ELSE IF IsEmpty(u) THEN r
  ELSE <<MinOf(r[1], u[1]), MaxOf(r[2], u[2])>>

(* Mutant: the upper of the two lines a mirror image spans is forgotten. *)
BackwardOfNarrow(r, q, limit) ==
  IF IsEmpty(r) THEN <<0, 0>>
  ELSE <<MaxOf(q - r[2], 0), MinOf(MaxOf(q - r[1], 0), limit)>>

(* The lines that hold the mirror images of the slots of r: line k needs   *)
(* lines q-1-k and q-k, where q is the mirror line of the step before.     *)
BackwardOf(r, q, limit) ==
  IF IsEmpty(r) THEN <<0, 0>>
  ELSE <<MaxOf(q - r[2], 0), MinOf(MaxOf(q - r[1] + 1, 0), limit)>>

(* The next chunk of an ascending low block. *)
LowPart(low, lowEnd) ==
  <<low, IF low < lowEnd THEN ChunkEnd(low, lowEnd) ELSE low>>

(* Mutants: the high chunks stay on the line grid, or under a grid line    *)
(* the chunk is empty.                                                     *)
HighBaseOnGrid(part, high, highStart, q) ==
  MaxOf(((high - 1) \div CHUNK_LINES) * CHUNK_LINES, highStart)

HighBaseStuck(part, high, highStart, q) ==
  IF ~IsEmpty(part)
  THEN MinOf(MaxOf(q - part[2], highStart), high)
  ELSE MaxOf((high \div CHUNK_LINES) * CHUNK_LINES, highStart)

(* Where the next chunk of a descending high block starts: at the mirror   *)
(* image of the round's low chunk, as far as the block allows, or on the   *)
(* line grid once the low block is finished.                               *)
HighBase(part, high, highStart, q) ==
  IF ~IsEmpty(part)
  THEN MinOf(MaxOf(q - part[2], highStart), high)
  ELSE MaxOf(((high - 1) \div CHUNK_LINES) * CHUNK_LINES, highStart)

(* The round of thread t that starts at low line low and below high line   *)
(* high: its two output chunks, and for each of them the lines of the step *)
(* before that it reads forward and its partner reads backward.            *)
RoundAt(t, low, high, bounds, q, limit) ==
  LET part == LowPart(low, bounds[t + 1])
      highStart == bounds[HighBlock(t)]
      top == IF high > highStart
             THEN <<HighBase(part, high, highStart, q), high>>
             ELSE <<high, high>>
  IN  [ lo  |-> part,
        hi  |-> top,
        rLo |-> IntervalUnion(part, BackwardOf(top, q, limit)),
        rHi |-> IntervalUnion(top, BackwardOf(part, q, limit)) ]

(* The triple pass needs the lines of one step more: each of its           *)
(* second-step intervals, and the mirror images of the other one.          *)
FirstStepLo(round, q1, limit1) ==
  IntervalUnion(round.rLo, BackwardOf(round.rHi, q1, limit1))
FirstStepHi(round, q1, limit1) ==
  IntervalUnion(round.rHi, BackwardOf(round.rLo, q1, limit1))

Finished(t, low, high, bounds) ==
  low >= bounds[t + 1] /\ high <= bounds[HighBlock(t)]

(* What a thread's round leaves of its blocks for the next one, and the    *)
(* number of high chunks so far.                                           *)
After(w, r) ==
  [low |-> r.lo[2], high |-> r.hi[1], ord |-> w.ord + Bit(~IsEmpty(r.hi))]
RoundFrom(t, w, n) ==
  RoundAt(t, w.low, w.high, BlockBounds(DivCeil(n, DPL)), n \div DPL, DivCeil(n, DPL))
NextRound(t, w, n) == After(w, RoundFrom(t, w, n))

(* All rounds of thread t over an output of n digits before its growth,    *)
(* each with the number of high chunks before it.  The pass, the repair    *)
(* and the resolution replay the same walk.                                *)
RoundsOf(t, n) ==
  LET bounds == BlockBounds(DivCeil(n, DPL))
      w[k \in 0 .. DivCeil(n, DPL)] ==
        IF k = 0
        THEN [low |-> bounds[t], high |-> bounds[HighBlock(t) + 1], ord |-> 0]
        ELSE NextRound(t, w[k - 1], n)
  IN  [k \in {k \in DOMAIN w : ~Finished(t, w[k].low, w[k].high, bounds)} |->
         [at |-> RoundFrom(t, w[k], n), ord |-> w[k].ord]]

(* Carry slots of each high block, whose chunks are numbered in the order  *)
(* of the walk.                                                            *)
FusedHiStride(limit) == (limit \div NumBlocks) \div CHUNK_LINES + 3

(* Line k of an output is computed from line k of one scratch buffer and   *)
(* the mirror lines of the other; lines the number does not have are zero. *)
InScratch(out, fwd, rev, q, limit) ==
  \A k \in Lines(out) :
    /\ k \in Lines(fwd)
    /\ {q - 1 - k, q - k} \intersect (0 .. limit - 1) \subseteq Lines(rev)

=============================================================================
