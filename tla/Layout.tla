------------------------------- MODULE Layout -------------------------------
(***************************************************************************)
(* How the packed engine lays a number out: digits in lines of DPL slots,  *)
(* lines in blocks, two blocks to a thread (a low one and its mirror       *)
(* image), blocks in chunks of at most CHUNK_LINES lines.                  *)
(***************************************************************************)
EXTENDS Digits

CONSTANTS
  NumThreads,   \* participants of the pool
  DPL,          \* digits per packed line
  CHUNK_LINES   \* lines per chunk

ASSUME PoolAssumption == NumThreads \in Nat \ {0}
ASSUME LineAssumption == DPL \in Nat \ {0} /\ CHUNK_LINES \in Nat \ {0}

Thread == 0 .. NumThreads - 1
NumBlocks == 2 * NumThreads

MinOf(m, n) == IF m < n THEN m ELSE n
MaxOf(m, n) == IF m > n THEN m ELSE n
DivCeil(m, n) == (m + n - 1) \div n

(* Mutant: the grown line is not zeroed. *)
ResizeDirty(b, lines) ==
  [d \in 0 .. lines * DPL - 1 |-> IF d \in DOMAIN b THEN b[d] ELSE 9]

(* A buffer of whole lines, cut or padded with zeros (Vec::resize). *)
Resize(b, lines) ==
  [d \in 0 .. lines * DPL - 1 |-> IF d \in DOMAIN b THEN b[d] ELSE 0]

(* The blocks' boundaries: the lines in NumBlocks almost equal parts. *)
BlockBounds(lines) == [k \in 0 .. NumBlocks |-> (k * lines) \div NumBlocks]

(* Thread t owns a low block and its mirror image. *)
HighBlock(t) == NumBlocks - 1 - t

(* The chunks end on the line grid. *)
ChunkEnd(x, limit) == MinOf((x \div CHUNK_LINES + 1) * CHUNK_LINES, limit)

=============================================================================
