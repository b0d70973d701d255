# TLA+ models of lychrel_base10_simd

The program searches for palindromes by reverse-and-add: a decimal number of
up to hundreds of millions of digits is replaced by the sum of itself and its
reversal, over and over, by a pool of threads that each add a pair of mirrored
blocks. This directory models the parts of it whose correctness is an argument
rather than a glance: the carries that are guessed and corrected later, the two
steps made in one pass, the barrier everything is ordered by, the loop that
must not run past a palindrome or a report, and the program that is killed and
launched again on its checkpoints.

File and line references are to the repository; `packed/mod.rs` is
`src/packed/mod.rs` there, and so on.

## 1. The system

| Part | State | Operations | Where |
|---|---|---|---|
| Digit arithmetic | none | column sums, carries from two masks, growth (`prescan_grow`), `increment_digits` | packed/mod.rs 48-141, 195-279, 1856-1873 |
| Reverse-and-add loop | number, carry flag, iteration | `iterate`: test, step, report | reference.rs 152-220 |
| Spin barrier | `count`, `generation` | `wait` | parallel/mod.rs 50-79 |
| Packed engine: pool and single step | two buffers, length, published pass, carry slots, stop flag | `new`, `step`, the workers' loop, `Drop` | packed/mod.rs 288-610, 1888-2022, 2530 |
| Packed engine: fused steps | the same, and scratch lines of unmaterialized numbers | `step2`, `repair_fused`, `step3`, `repair_pair3`, `exact_flags3`, `for_each_round` | packed/mod.rs 629-1854, 2024-2528 |
| Packed iteration loop | PackedInt, carry flag, iteration, pool width | `iterate_packed` | packed/mod.rs 2540-2687 |
| Checkpoint format | bytes of a file | `into_checkpoint`, `from_checkpoint`, `pack`, `unpack`, `to_integer`, `from_integer` | integer_limb/mod.rs 743-881, packed/mod.rs 152-187 |
| Program run | checkpoint directory, channel, iteration thread, main thread | launch, resume, receive, write, validate, announce | main.rs 365-768 |
| Byte engine | limbs of one digit per byte with the mirrored digit in the spare nibble, the pool's published step, the carry of each block | `ParallelEngine::new`, `step`, the workers' loop, `Drop`, `iterate_parallel` | parallel/mod.rs 84-189, 280-489 |
| Vector kernels | none | `funnel`, `rev_index`, `rev_operand`, `add_resolve_line`; `resolve_digits`, `fused_reverse_add_asm_interleave` | packed/mod.rs 48-141, 349-433, integer_limb/mod.rs, reference.rs |
| Integer type, vector widths, huge pages, thread placement | | pure functions, system calls | integer_limb, parallel/mod.rs 192-278 |

How they interact. `main` starts one iteration thread, which runs
`iterate_packed` and sends a report every `LOG_MASK` iterations through an
unbounded channel; `main` writes or validates a checkpoint for those that carry
a number, and joins the thread when the channel closes. `iterate_packed` owns
the engine, tests for a palindrome after a step that carried nowhere, and
replaces the pool when the number has outgrown it. The engine's coordinator
(thread 0, the iteration thread itself) publishes a pass in relaxed atomics;
the start barrier makes it visible to the workers, the end barrier makes their
lines and carries visible to the coordinator, which resolves them alone.

What is hard here:

* *Speculation.* Every range of lines is added without knowing the carry into
  it. A wrong guess is repaired later by an increment that may run through the
  range and out of it. In a fused pass the wrong digits are consumed by the next
  step, forward by one chunk and mirrored by another, before anyone knows.
* *Sharing without locks.* Plain loads and stores are safe only because of
  the two barriers, and because no line has two writers.
* *Stale data.* The two buffers swap roles; what a pass does not overwrite is
  the number of two steps ago.
* *Adding in place.* The byte engine overwrites the number while other threads
  still read it; only what was zipped into the spare nibbles and copied at the
  block boundaries keeps the old digits available.
* *The flag.* Whether any digit carried decides whether a palindrome is looked
  for at all. A wrongly raised flag loses a palindrome in silence.
* *Crashes.* A search takes months; it is killed, leaves a torn file, and is
  launched again with other ranges and other seeds over the same directory.

## 2. Modules

| Module | Models | Variables and actions against the code |
|---|---|---|
| `Digits` | the arithmetic | `CarryInto` is the carry the generate and propagate masks stand for: the nearest lower sum that is not nine decides. `Resolved`, `PrescanGrow`, `Increment`, `Escapes` are the digit a column emits, the scan for growth and the scalar increment. |
| `Layout` | lines, blocks, chunks | `BlockBounds`, `ChunkEnd`, `Resize`. |
| `Funnel` | the reversed operand of one line | `RevIndex`, the two source planes and the phase, byte by byte with indices that wrap at 256. |
| `Kernels` | the two single-threaded kernels | `Resolve` is `add_resolve_line` and `resolve_digits`: all carries of a vector by one addition of two masks. `PackedKernel` reads its operand from the funnel, `ReferenceKernel` from zipped limbs read `skip_len` bytes further up. |
| `ReverseAddLoop` | abstract specification of every engine | `number`, `carried`; one `Step`. |
| `Barrier`, `SpinBarrier` | abstract barrier, and `wait()` access by access | `count`, `generation` (wrapping at `GenMod`), `gen` the local copy; one action per atomic access. |
| `PackedEngine` | pool and single step | `pub` the published fields, `loc` each thread's locals in `run_pair`, `call` the locals of `step`. `Publish` .. `Return` are `step`; `Enter`, `LowChunk`, `HighChunk`, `EndWalk`, `Rejoin`, `Exit` the threads' loop; `Drop`, `LeaveDrop`, `Join` the destructor. Uses `Barrier`, which `SpinBarrier` is proved to implement. |
| `Rounds`, `RoundWalk` | `for_each_round`, `for_each_round3` | the intervals of one round; the walk as a state machine, next to the asserts of the passes. |
| `Fused` | what both fused steps share | a range speculated without a carry in, the digits such a carry ripples through, the lines that consumed them, one line repaired, the ranges left to resolve. |
| `FusedStep2` | `step2`: pass, `repair_fused`, `resolve_carries_fused` | `PhaseA` and `PhaseB` are the halves of a round in `run_pair2_inner`; `StartRepair` collects `consumers`, `RepairLine` is the body of the loop over `affected`, `ResolveRange` and `Return` the resolution. |
| `FusedStep3` | `step3`: pass, `repair_pair3`, `exact_flags3`, resolution | `PhaseAB` and `PhaseC` are a round of `run_pair3_inner`; `PassEnd` is the store of the flags and the first half of `repair_pair3`, which finds the wrong digits and their consumers; `RepairLine` its second half, in each worker while others still pass; `StartResolve` the coordinator's exact flags, `ResolveRange` and `Return` the resolution. |
| `PackedLoop` | `iterate_packed` | `Test`, `Triple`, `Double`, `SingleStep`, `SendReport`; `ref` is `iterate` of reference.rs running beside it. |
| `ByteEngine` | `ParallelEngine`, `add_block`, `increment_block` | `digit` and `mirror` are the lower and upper nibbles of the limb vector. `Publish`, `ZipPair`, `Copy` (the limb past a block), `AddLimb`, `ResolveBlock`, `Return`, `Drop`; four barriers a step: start, zipped, copied, added. Uses `Barrier`; a limb is a line of `Layout`. |
| `CheckpointFile` | the file format | `into_checkpoint` and `from_checkpoint` as operators on sequences of bytes, and the file with its end cut off. |
| `SearchRun` | `main` | `Launch` (fresh, default, `--start-at`), `Iterate`, `End`, `Die` of the thread, `Create`, `Write`, `WriteFails`, `Validate`, `CannotRead`, `Finish` of the main thread, `Crash`. |
| `MC*` | instances | starting numbers, ranges and tables for TLC; nothing of the code. `MCReverseAddLoop` brings the loop, the kernels and the file format together. |
| `*Proofs` | theorems | see section 5. |

A definition whose comment begins with "Mutant" is a plausible slip in the
definition that follows it. No specification uses one; each property of each
run is known to fail when the slip replaces the definition, so no property
holds by the shape of the model alone.

How the modules rest on one another. `PackedEngine`, `FusedStep2` and
`FusedStep3` resolve a range by `CarryInto` and read mirrored digits directly:
`Kernels` is checked to make the same step, and `Funnel` is proved to read the
mirror image. The fused steps start at the start barrier and let the
coordinator go on when all threads are at the end barrier: that these are
barriers is `PackedEngine`'s matter, and `Barrier`'s in turn `SpinBarrier`'s.
`PackedLoop` takes a fused step for exact; `FusedStep2` and `FusedStep3` say
when it is (see findings). The single step is kept slot by slot in both of its
buffers, since a rewind depends on it.

Other abstractions a reader should know of:

* One action of `PackedEngine`'s walk is one chunk. A pass reads a buffer
  nobody writes, and writes lines only the thread itself owns
  (`OneWriterPerLine`, proved), so finer steps would commute. A phase of a round
  of a fused pass is one action for the same reason. In `ByteEngine`, which
  adds in place, an action is one limb, and `NoRace` (proved) says that accesses
  of a limb within one action meet no other thread's.
* Memory is sequentially consistent. The barrier's accesses of `generation`
  and its increment of `count` are acquire and release, and everything else
  that is shared is separated by a barrier.
* In the fused steps the sums and digits of the true numbers are computed once
  (`truth`, and `s1`, `d1` and so on); a thread's scratch holds what it guessed.
* In `SearchRun` a number is its seed and the count of steps made from it, a
  torn file is a value of its own, and reports without a number are dropped.
  One process uses the directory at a time.

## 3. Runs

Each run answers one question. Bounds are in the `.cfg` files.

| Run | Question | Bounds, and why they are enough |
|---|---|---|
| `spin_barrier` | Does `wait()` implement a barrier, whatever its reuse and wrap-around? | 4 threads, a generation of two values, the fewest that can tell rounds apart: it wraps every second round. |
| `reverse_add` | Does a step add like long addition, is the flag exact, and what does the flag-gated test miss? Do both vector kernels make that step? Does a file restore the number, and is a torn one ever taken for it? | every number of up to 5 digits, and their successors up to 8: every pattern of absorbing, passing and generating columns of odd and even length. Limbs of two bytes, hence packed lines of four digits: one and two lines, one to four limbs, every phase of the funnel. Files are cut off at every byte. |
| `packed_engine` | Is a step one reverse-and-add, for every pattern of carries between ranges and in every interleaving? Is every line and slot one thread's, and does every call return? | 2 threads, 2 steps (so that the second buffer is reused) and the drop. 10 digits: five lines in four blocks, the top one longer than the rest and in two chunks, with a top line that is full to the brim; 3 digits: fewer lines than blocks. The lower half of the number runs over digits that make each column absorb, pass on or generate. |
| `round_walk` | Do the fused passes stay within scratch buffers and slots, and does the walk end? | 2 threads, every length up to 250 lines, chunks of 20 lines against the 16 lines of slack the code has. |
| `fused_step2` | Is a double step two steps, and are its flags exact? | 2 threads, every interleaving of rounds, 9 and 12 digits in chunks of one line, so that a range of nines, a wrong guess and its consumer fit in several arrangements, within a thread and across. |
| `fused_step3` | Is a triple step three steps, does every repair find what was guessed wrong, and are all three flags exact? | as above, 9, 10 and 11 digits: the second and third numbers have the same number of lines as the first, or one more. |
| `packed_loop` | Does the loop stop, report and rewind where the plain loop does? | every number of up to 3 digits and patterns of 4, reports every 4 iterations, numbers every 8, starting iterations 1, 2, 3, ends 2 and 9: every alignment of triple, double and single steps to a report and to the end. |
| `byte_engine` | Is a step in place one reverse-and-add, in every interleaving? Does a thread ever read a limb another one is writing, and does every call return? | 2 threads, limbs of two bytes, 3 and 10 digits: fewer limbs than blocks, and an odd number of limbs whose middle one is its own mirror image. Two steps, the second from the unconstrained result of the first, and the drop. |
| `search_run` | Does a search survive kills and relaunches, do results follow their files, does every launch end? | 2 seeds, 3 launches, 4 ranges, checkpoints every 2 iterations, `--start-at` on any of them, palindromes at a checkpoint and beside one. Three launches are one to leave a torn file, one to go on above or below it, and one to resume from what both left. |

The three remaining runs are those of section 6.

What the properties say:

* `ImplementsBarrier`, `Inv` (of `CountExact`, `OneCloser`, `FreshGeneration`),
  `AllReleased`: the arrivals of two rounds never mix, the last arrival alone
  closes a round, nobody leaves early and nobody is left behind.
* `ImplementsReverseAdd`: the engine with its threads, ranges and carry slots
  is the machine `ReverseAddLoop`; both engines are checked, and proved, to
  implement it.
  `ResolvedPrefixExact` is the loop invariant of the carry resolution,
  `PaddingClean` what makes buffer reuse safe, `CoordinatorAlone` and
  `OneWriterPerLine` what makes plain accesses safe, `SlotsFit` what makes the
  carry slots private. `CallsReturn`: a step ends and `Drop` joins every worker.
* `OperandsOfOldNumber`, `NoRace`: whatever has been overwritten, the byte
  engine adds digits of the number as it was, and no limb is written while
  another thread reads it.
* `BuffersFit`, `ReadsInScratch`, `WalkEnds`: the asserts of the fused passes
  hold, what a round reads it has computed or is padding, and the walk ends
  though a chunk may be empty.
* `WrongDigitsFound`: between the phases of a round of the triple step a thread
  holds wrong digits exactly where its repair will look, by either level of
  guessing. `RangesExact`, `TwoStepsUnlessRepairedTwice`,
  `ThreeStepsUnlessRepairedTwice`: the result and the carries recorded for it
  are exact, unless a carry chain was repaired twice or, in the triple step, a
  repair met a wrong digit in a chunk of an earlier round (`Undisputed`; see
  section 6). `FlagsExact`: the flags are exact without that condition.
* `InStepWithReference`, `EndsLikeReference`: fused steps never run through a
  palindrome, over a report or past the end.
* `CarryFreeIsPalindrome`, `SkippedPalindromeIsFollowed`: what the gated test
  finds, and that what it misses it finds one step later. `KernelsStep`,
  `OperandIsReversal`: the kernels, with wrapping byte indices and carries found
  by adding masks, make that step and raise that flag.
* `RestoresUnlessZeroLimb`, `TornIsAnother`: a complete file restores its
  number, unless a limb of it is all zeros; a torn one is never equal to it.
* `RunsOnTrueNumbers`, `FilesSound`, `AnswersTrue`, `AnswersAfterFiles`,
  `RunEnds`: after any history of kills, the last but one checkpoint is true,
  a run computes the number its counter says, and announces what an
  uninterrupted run would.

The runs of `SearchRun` do not check for deadlock: nobody has to launch the
program again. All others that end say so by a stuttering action, so that any
other dead end is reported.

`SearchRun` keeps one history variable, `exposed`. It is set when a launch
names its newest checkpoint with `--start-at` (which may be torn, or hold the
palindrome, whose test the resumed run skips), and when a torn file is passed
over because it could not be read ("Continuing anyway", main.rs 634-637, after
which files are written above it and it may become the last but one).
`RunsOnTrueNumbers`, `FilesSound` and `AnswersTrue` are stated for the histories
without either, and each fails if that condition is dropped; `AnswersAfterFiles`
and `RunEnds` are stated for all.

## 4. Fairness

* `SpinBarrier`: weak fairness of each participant's steps inside `wait()`,
  none for calling it. The code spins and never parks.
* `PackedEngine`: weak fairness of each thread's steps, of the barrier's
  opening (proved to be what `SpinBarrier` implements, and `AllReleased` shows
  that it opens) and of the resolution. None for calling `step` or `Drop`.
* `ByteEngine`: the same, with its four barriers.
* `RoundWalk`: weak fairness of the loop.
* `SearchRun`: weak fairness of the iteration thread and of the main thread,
  as a preemptive scheduler gives. None for launching, killing or failing.

The other specifications state safety only.

## 5. What is proved

TLAPS checks these for every value of the constants.

`ArithmeticProofs`, from a pool, a line and a chunk that are not empty, and
numbers of any length:

* `SpeculationSound`: the argument of every carry resolution. A range
  computed without a carry in and then incremented holds the digits of the
  range computed with it, and the carry leaves it exactly when its own carry
  out was set or `increment_digits` ran off its end. It rests on `CarrySplit`
  (a carry is decided below or passed through) and `NineRun`.
* `NoCarryNoAsymmetry`, `ReverseAddProper`: a step that carries nowhere yields
  its sums, a palindrome of the same length; a step of a proper number is a
  proper number, one digit longer exactly if the prescan says so.
* lemmas about blocks, chunks and lines that the modules below cite: the
  bounds of the blocks ascend and mirror each other to within a line, the
  threads' pairs divide the lines, a chunk ends within its block and after its
  start, a number fits its lines; and where the walk of the fused passes can be
  (`OnWalk`), which a round keeps while it gets ahead (`WalkRound`).

`SequentialProofs`, what a single thread does: the abstract loop (from `Start` a
set of proper numbers), the walk of the rounds (from a pool, a line and a chunk
that are not empty, and `LengthAssumption`) and the funnel (from `LV_LEN` one of
the vector widths a build can have and a line of two vectors):

* `TypeCorrect` and `CarryFreeTestSucceeds`: whenever the loops run the
  palindrome test it succeeds. The invariant is inductive as it stands.
* `SkippedIsFollowed`: a palindrome the loops do not look at, because the step
  to it carried, is followed by a step that carries nowhere, hence by one they
  find. By least counterexample over the columns: without growth the lowest
  carry breaks the symmetry one column further out (`SameLengthNoCarry`); with
  growth every column sum is 0 or 11 (`GrownSums`), so the digits are at most 2
  and cannot carry (`SkippedOnce`).
* `NothingReadOutside`: `ReadsInScratch`. That a round's union of intervals
  contains what its chunks read forward (`UnionContains`) and backward
  (`BackwardContains`), the high chunk being the mirror image of the low one or
  not (`PairReads`).
* `AssertsHold`: `BuffersFit`. `WalkInv == Facing /\ Counted`: the low and the
  high chunk of a round face each other to within two lines, because the
  blocks do and the chunks of both are cut by the same distances; and the
  rounds made are counted by the lines walked, so that the slots last.
* `Funnels`: the operand assembled for any line of any number is the mirror
  image of the line. `WrapsIntoPlanes` says where a byte index that wrapped
  below zero points: two wrap-arounds are harmless because twice the width
  divides 256. From it `AssembledPlane` (each plane is two planes shifted
  together), `PlaneIsWindow`, `OperandIsWindow`.

`PackedEngineProofs`, from a pool, a line and a chunk that are not empty, and
`Start` a set of proper numbers. The inductive invariant is
`Inv == AloneInv /\ LinesInv /\ DataInv`:

* `Alone`: `CoordinatorAlone`. `AloneInv == Control /\ Stages`: the threads are
  all between passes, all within one, or all leaving. It is kept because the
  barrier opens only when everybody waits at it, and because the stop flag is
  set exactly while the coordinator is in `Drop`.
* `OneWriter`: `OneWriterPerLine`. `LinesInv` says how much each thread has
  written: its low block up to where it is, its high block down to where it
  is, nothing elsewhere; and everything of both once it is done.
* `PaddingStaysClean`, `ChunksHaveSlots`, `PrefixIsExact`: `PaddingClean`,
  `SlotsFit`, `ResolvedPrefixExact`. `DataInv` adds what the lines hold: each
  chunk that has been added is speculative (its digits are those of a carry-in
  of zero, its slot holds its carry out), everything below the range the
  resolution is at is exact, and everything above the number is zero in both
  buffers. The two parts above are needed first: that a line written in this
  pass stays what it is follows from one writer per line, and that nothing
  moves under the resolution from the coordinator being alone.
* `EngineIsReverseAddLoop`: `Spec => ImplementsReverseAdd`. Only `Return` moves
  the abstract machine; there `PrefixIsExact` at the last range gives the
  digits, `PrescanExact` the length, and the threads' flags together the carry
  flag (`CarriedInRange`). Everything else is a stutter.

`PackedLoopProofs`, from the same, ranges of natural numbers and `LOG_MASK`
not zero:

* `LoopIsReference`, `LoopEndsRight`, `LoopStaysClean`:
  `InStepWithReference`, `EndsLikeReference`, `CleanWhileRunning`. `LoopInv`
  adds that both buffers are clean above the number (`Buffers`), which a single
  step that grows by a line needs (`FilledIs`), that the reference loop has
  sent the report that is due (`ToReport`), and that it does not stop where a
  step is taken. `SingleIs` and `FusedIs` say what a step leaves in the two
  buffers; `RewoundIs` that a rewind finds its number again although the
  buffer it steps into holds a longer one, because nothing carried on the way
  to a palindrome the loop tests. What `Fused` takes for granted, that a fused
  step computes its single steps, is proved of the double step (`TwoStepsInOne`,
  `FlagsOfTheStep`), of the flags of the triple one (`FlagsOfTheTripleStep`), and
  checked of its digits by its run; with the exception section 6 reports.

`ByteEngineProofs`, from a pool and a limb that are not empty, and `Start` a
set of proper numbers. The inductive invariant is
`Inv == StageInv /\ PlaceInv /\ Fresh /\ DataInv`:

* `NobodyRaces`: `NoRace`. `StageInv`: between two barriers all threads are in
  the same of five stages (the coordinator alone, zipping, copying, adding,
  leaving), as the barrier opens only when everybody waits at it. `PlaceInv`:
  within its stage a thread is among its own pairs or in its own blocks, whose
  bounds are those published. Neither is enough alone: blocks of different
  threads are disjoint, but one thread's pairs meet another one's blocks. (`Fresh` only
  says that a thread has seen no carry before it adds.)
* `OperandsAreOld`: `OperandsOfOldNumber`. `DataInv` says, stage by stage, what
  the limbs hold: a pair that has been zipped has its mirror digits, all have
  from the second barrier on; a copy is the limb past the block as nobody has
  overwritten it yet; while adding, a limb of a block below the thread's place
  holds the sum on a carry-in of zero and one above it still the old digits and
  their mirror digits.
* `ByteEngineIsReverseAddLoop`: `Spec => ImplementsReverseAdd`. `Resolving`, the
  last part of `DataInv`, is the loop invariant of the resolution, kept by
  `SpeculationSound` also where a block is empty. Only `Return` moves the
  abstract machine; there the limbs hold the sum, with the padding limb dropped
  or holding the last carry (`ReturnIsStep`).

`FusedStep2Proofs`, from a pool, a line and a chunk that are not empty, and
`Start` a set of proper numbers:

* what a pass computes, whatever it guessed. `Truth` is what no action changes;
  `FirstStep` and `SecondStep` say that it is the two steps' sums and digits.
  `RoundsAre`, `RoundStep`, `Covered`: the rounds of a thread are the states of
  its walk, each goes on where the one before it ended, and together they go
  through both its blocks. `RoundReads`, `ReadSlots`: a round's chunks are
  computed from its own two buffers alone. `ScratchIs`: a digit in a buffer is
  the true one, or a carry that was not guessed ran through it or landed on it
  (`Rippled`), and then it is one too low or nine too high. `ConsumedAre`,
  `OutputIs`: a chunk comes out as the second step of the sums it consumed.
* `FlagsOfTheStep`: `FlagsExact`. `FlagInv` says what each thread's flags stand
  for: `carried1` that a sum it has read generates a carry; `carried2`, when
  nothing was guessed wrong anywhere, that a sum it has computed does, or that
  a carry came up its chain, which was counted when it started; `equal` is
  certain only where the first step carries nowhere, and decides only there,
  since it is a palindrome then (`NoCarry`). That together the threads see every
  slot of the number is `SlotComputed`. What was guessed wrong makes the pass's
  flag worthless in both directions; there the sums decide, and one half of them
  does as they are symmetric (`CarriedBySums`).
* `RangesAfterRepair`, `TwoStepsInOne`: `RangesExact` and
  `TwoStepsUnlessRepairedTwice`. The number is divided into carry chains
  (`Chains`): a thread's low block is one, each of its high chunks another, no
  two share a slot (`ChainsApart`) or a carry slot (`SlotsOfChunks`). `Held(b, s,
  r, carry)` says that buffer `b` holds what chain `r` makes of the sums `s` and
  that `carry` comes out of it. `ResultInv` follows every chain through three
  stages: the pass fills it with what it read (`PassHeld`, `PassEnded`), a
  repair turns that into what the true sums make of it (`RepairHeld`), and the
  resolution goes over it on the way up (`ResolveHeld`). Needed for the second
  stage: a line is repaired exactly if it consumed a wrong sum (`AffectedIs`,
  `WrongIsRepaired`), so a chain without a repair is right (`NothingToRepair`);
  and one repair is enough for a chain with one such line (`RepairedIs`). That is
  the heart of it. The carry the repair starts from was made of right sums: a
  digit below the line that is wrong as this round read it was wrong for the
  earlier round that computed the chain there, which would be a second line to
  repair (`RippleReaches`, `ReadBelow`). And the repair may stop at the first
  line that comes out as stored: a column of which the sum was wrong shows
  another digit (`WrongSumShows`), and one that shows the same received the same
  carry (`DigitTellsCarry`). Where a chain has two lines to repair this fails, which is the
  finding `fused_repair` of section 6. For the third stage the room above the
  number cuts the top range short, harmlessly as the slot there sums to zero
  (`RoomHarmless`), and a carry out of the last range is the leading one of the
  second step (`ResultReturn`).

`FusedStep3Proofs`, from the same:

* what a pass computes, whatever it guessed. `PassInv` is `Truth` (what no action
  changes), `WalkType`, and `OnRounds`: a thread is at a round of its walk, and
  between that round's phases its two buffers are a function of the number and
  the round alone (`Buffers`). `FirstHolds` and `SecondHolds` say what is in them,
  one step at a time: the true digits, but for those the repair will look for.
* `NoneOverlooked`: `WrongDigitsFound`. If no thread has found a wrong carry,
  every digit of three steps is right. By least counterexample down a chain
  (`WrongReached`): below a digit of the second step that is wrong there is a
  carry or a digit of the first step wrong in the same chain, down to its base;
  what entered at the base was guessed zero and is compared, and a wrong digit
  of the first step is compared where it is consumed. That every one is consumed
  by some thread is `SlotComputed`.
* `FlagsOfTheTripleStep`: `FlagsExact`. `FlagInv` says what each thread's flags
  stand for, as in the double step but for two levels of guesses: a carry of the
  first step seen by no thread is none (`NoFirstCarry`), and then none of its
  guesses was wrong (`NoRip`); the same one step later (`NoSecondCarry`); and
  `equal` decides only where neither carries (`Exact`). Where a thread found a
  guess wrong the resolution looks at the sums instead, as in the double step.

`ProtocolProofs`, the two protocols that do not touch digits. The barrier, from
`Thread` finite and not empty and `GenMod > 1`:

* `WaitTypeCorrect`, `RoundsNeverMix`, `WaitIsBarrier`. The inductive invariant is
  `IInv == TypeOK /\ CountExact /\ OneCloser /\ FreshGeneration`. None of the
  parts is inductive alone: `count` is exact only if the set of waiters is,
  which changes wholesale when the generation moves; that nobody outside holds
  an old generation at that moment follows from `OneCloser` (all are waiting);
  and `OneCloser` follows from the exact count at the arrival that closes. The
  refinement maps a participant to waiting or released by comparing its copy
  with the generation, so that `AdvanceGeneration` is the abstract `Open` and
  the spin loop's look at the flag is a stutter.

The launches, for any seeds, ranges, number of launches and interval of
checkpoints, from files whose torn form is no number:

* `NothingAnnouncedUnsaved`: `AnswersAfterFiles`. `RunInv` relates the reports
  in the channel, the files, and where the worker and the main thread are.
* `ComputesTrueNumbers`, `LastButOneIsGood`, `AnnouncesTruth`:
  `RunsOnTrueNumbers`, `FilesSound`, `AnswersTrue`, from `TrueInv`. Their
  hypothesis is `EndsApart`: no seed's decimal ends with another's. Without it
  they are false, which is the finding `seed_suffix` of section 6; a search of
  one seed in its directory satisfies it.

A leaf that takes a noticeable part of the provers' default time names its
prover and a limit far above what it needs (`SMTT(60)`, `ZenonT(60)`), so that
the proofs do not depend on how busy the machine is.

Only model-checked:

* liveness (`AllReleased`, `CallsReturn`, `WalkEnds`, `RunEnds`), which is out
  of the prover's reach;
* `OperandIsReversal` in its run (its content for every width is `Funnels`), the masks of
  `Kernels` and the bytes of `CheckpointFile` (`KernelsStep`, `StepIsAddition`,
  `RestoresUnlessZeroLimb`, `TornIsAnother`): what a recursive definition
  computes for every input would need an induction the installed provers cannot
  apply;
* `RangesExact` and `ThreeStepsUnlessRepairedTwice` of `FusedStep3`: that its
  repairs, which run while other threads are still at their passes, restore the
  digits. Nothing puts this out of the prover's reach; it is not proved yet. The
  double step's argument does not carry over as it is: it needs that a consumed
  third-step sum which is wrong is wrong modulo 10 too, where the errors of two
  earlier steps meet, and that repairs of one thread do not disturb the passes
  of another.

## 6. Findings

Runs whose property is a sentence of the repository, and which TLC refutes:

| Run | The sentence | What happens |
|---|---|---|
| `fused_repair` | packed/tests.rs:189 "The fused double step must agree with two serial packed steps" | `repair_fused` recomputes each affected line on the carry the pass had there (packed/mod.rs 2334-2344). If a line repaired before it in the same chain has changed that carry, the second repair writes lines based on the old carry over correct ones. Two wrong guesses must be consumed within one carry chain joined by nines, which random numbers hardly ever do. |
| `rewind_padding` | packed/tests.rs:26 "Every slot at and above `digits` in the packed buffer is zero" | The first step of a two-step rewind (packed/mod.rs 2623) writes into the buffer that still holds the longer triple result. If it opens a line, only the new top digit is set in it, and the longer number's leading digit stays above; the second step reads that line and carries the digit into its own result. In the trace 9005 → 14014 → 55055 with two digits to a line: the triple left 110110, 14014 opens the third line below its leading 1, and 55055 ends with that 1 above it. |
| `seed_suffix` | main.rs:421 "filter out those that are irrelevant to our current seed" | names are matched by suffix: the checkpoints of 96 are taken for those of 6. |

Noted while modelling, without a run:

* integer_limb/mod.rs:821: `unpack` drops every empty half, not only the padding
  at the top, so a number with a limb of zeros is not what line 860 calls
  rebuilt. `RestoresUnlessZeroLimb` excepts exactly these numbers.
* packed/mod.rs:1506-1559: the triple step's repair handles its consumers in the
  same order and on the same carries as `repair_fused`, and has the same flaw.
* packed/mod.rs:1511-1517 (and 2338-2344): the carry below the repaired line is
  rebuilt from the digits the line's own round read. Where the chain lies in
  chunks of earlier rounds, those read other ranges, whose digits may have been
  right. It takes a run of nines from one chunk into another, which with chunks
  of 8192 lines is theoretical; with the small ones of the run it happens.
* packed/mod.rs:833-834 and 2519 name a coordinator's repair `repair_fused3`;
  there is none, the workers repair.
* packed/mod.rs:2519-2520 calls a result "a palindrome exactly when no digit of
  the step carried", but 29 + 92 = 121 carries (`SkippedIsFollowed` proves the
  effect to be one iteration).
* main.rs:740 announces one iteration more than were made (197 reaches 881188 in
  7 steps, 8 are announced); main.rs:666: a torn last checkpoint makes every
  later launch exit at its iteration; a palindrome at the very end of the range
  is not announced; a run resumed by `--start-at` does not test the number it
  starts from; a worker that panics leaves the coordinator spinning.

## 7. Not modelled

* `iterate_parallel` (parallel/mod.rs 391-486), which benchmarks and tests call:
  the loop of `ReverseAddLoop` around `ByteEngine`'s step, with a pool replaced
  by a larger one as the number grows, as in `PackedLoop`.
* The two builds of the funnel's byte permutation (one instruction or a loop):
  `Funnel` models what both compute.
* Argument parsing, formatting, the read mode of `main`, two processes over
  one directory, files of builds with other vector widths.
* The huge page allocator, affinities, topology: they decide speed.
* Panics of a worker other than by the asserts `RoundWalk` checks, and
  allocations that fail.

## 8. Plan

Done: every component that keeps state, with theorems about the arithmetic,
`Funnel`, `ReverseAddLoop`, `SpinBarrier`, `RoundWalk`, `PackedEngine`,
`ByteEngine`, `PackedLoop`, `SearchRun`, `FusedStep2` and `FusedStep3`.

Next: the digits of the triple step after its repairs.
