-------------------------- MODULE ByteEngineProofs --------------------------
(***************************************************************************)
(* The byte engine's threads, for any number of them, any number and any   *)
(* width of a limb.                                                        *)
(*                                                                         *)
(* The argument has three layers, each inductive on those before it.       *)
(* Between two barriers all threads are in the same of five stages: alone  *)
(* (the coordinator resolves, returns and publishes while the workers do   *)
(* nothing), zipping, copying, adding, and after the end.  In each stage a *)
(* thread is among its own pairs or in its own blocks, so that nobody      *)
(* touches what another one is writing.  And so the digits of a thread's   *)
(* blocks are those of the number until it adds them itself, their mirror  *)
(* digits are complete from the second barrier on, and the copies, taken   *)
(* while nobody writes, are those of limbs their owners destroy later.     *)
(* What the blocks then hold is the sum on a carry-in of zero, which the   *)
(* coordinator makes the sum, block by block.                              *)
(***************************************************************************)
EXTENDS ByteEngine, ArithmeticProofs

-----------------------------------------------------------------------------
(* Who is where *)

Worker == Thread \ {0}

(* A worker while the coordinator is alone. *)
Between(t) ==
  \/ pc[t] = "added" /\ phase[t] = "released"
  \/ pc[t] = "start" /\ phase[t] \in {"outside", "waiting"}

(* A thread in each of the stages of a step. *)
Zipping(t) ==
  \/ pc[t] = "start" /\ phase[t] = "released" /\ ~stop
  \/ pc[t] = "zip" /\ phase[t] = "outside"
  \/ pc[t] = "zipped" /\ phase[t] \in {"outside", "waiting"}

Copying(t) ==
  \/ pc[t] = "zipped" /\ phase[t] = "released"
  \/ pc[t] = "copied" /\ phase[t] \in {"outside", "waiting"}

Adding(t) ==
  \/ pc[t] = "copied" /\ phase[t] = "released"
  \/ pc[t] \in {"low", "high"} /\ phase[t] = "outside"
  \/ pc[t] = "added" /\ phase[t] \in {"outside", "waiting"}

(* A worker after the start barrier Drop goes through. *)
Leaving(t) ==
  \/ pc[t] = "start" /\ phase[t] = "released" /\ stop
  \/ pc[t] = "exited" /\ phase[t] = "outside"

(* The coordinator's part of the first stage and of the last. *)
Alone0 ==
  \/ pc[0] \in {"call", "resolve"} /\ phase[0] = "outside"
  \/ pc[0] \in {"start", "drop"} /\ phase[0] \in {"outside", "waiting"}
  \/ pc[0] = "added" /\ phase[0] = "released"

Ended0 ==
  \/ pc[0] = "drop" /\ phase[0] = "released"
  \/ pc[0] \in {"join", "dropped"} /\ phase[0] = "outside"

Control ==
  /\ pc \in [Thread -> {"call", "start", "zip", "zipped", "copied", "low", "high",
                        "added", "resolve", "drop", "join", "dropped", "exited"}]
  /\ phase \in [Thread -> {"outside", "waiting", "released"}]
  /\ stop \in BOOLEAN
  /\ stop <=> pc[0] \in {"drop", "join", "dropped"}

Stages ==
  \/ Alone0 /\ \A t \in Worker : Between(t)
  \/ \A t \in Thread : Zipping(t)
  \/ \A t \in Thread : Copying(t)
  \/ \A t \in Thread : Adding(t)
  \/ Ended0 /\ \A t \in Worker : Leaving(t)

StageInv == Control /\ Stages

-----------------------------------------------------------------------------

LEMMA CoordinatorIsAThread == 0 \in Thread /\ Worker \subseteq Thread
  BY PoolAssumption DEF Thread, Worker

(* What one thread's place says of everybody's. *)
LEMMA StageOf ==
  ASSUME StageInv, NEW t \in Thread
  PROVE  /\ Zipping(t) => \A u \in Thread : Zipping(u)
         /\ Copying(t) => \A u \in Thread : Copying(u)
         /\ Adding(t) => \A u \in Thread : Adding(u)
         /\ t # 0 /\ Leaving(t) => Ended0 /\ \A u \in Worker : Leaving(u)
         /\ t # 0 /\ Between(t) => Alone0 /\ \A u \in Worker : Between(u)
         /\ t = 0 /\ Alone0 => \A u \in Worker : Between(u)
         /\ t = 0 /\ Ended0 => \A u \in Worker : Leaving(u)
  BY CoordinatorIsAThread
  DEF StageInv, Control, Stages, Alone0, Ended0, Between, Zipping, Copying, Adding, Leaving, Worker

LEMMA StageInit == Init => StageInv
<1> SUFFICES ASSUME Init PROVE StageInv
  OBVIOUS
<1>1. Control
  BY CoordinatorIsAThread DEF Init, TheBarrier!Init, Control
<1>2. pc[0] = "call" /\ phase[0] = "outside"
  BY CoordinatorIsAThread DEF Init, TheBarrier!Init
<1>3. \A t \in Worker : Between(t)
  BY CoordinatorIsAThread DEF Init, TheBarrier!Init, Between, Worker
<1>4. Alone0
  BY <1>2 DEF Alone0
<1>5. QED BY <1>1, <1>3, <1>4 DEF StageInv, Stages

(* The coordinator's own moves between two stages leave the workers where  *)
(* they are.                                                               *)
LEMMA StageCoordinator ==
  ASSUME StageInv, Publish \/ Drop \/ ResolveBlock \/ Return
  PROVE  StageInv'
<1>1. /\ \/ /\ pc[0] \in {"call", "resolve"} /\ stop' = stop
            /\ pc' = pc \/ pc' = [pc EXCEPT ![0] = "start"] \/ pc' = [pc EXCEPT ![0] = "call"]
         \/ pc[0] = "call" /\ stop' = TRUE /\ pc' = [pc EXCEPT ![0] = "drop"]
      /\ phase' = phase
  BY DEF Publish, Drop, ResolveBlock, Return, Goto, shared
<1>2. Alone0 /\ \A u \in Worker : Between(u)
  BY <1>1, CoordinatorIsAThread
  DEF StageInv, Control, Stages, Ended0, Zipping, Copying, Adding, Worker
<1>3. Control'
  <2>1. CASE pc' = pc
    BY <1>1, <2>1, CoordinatorIsAThread DEF StageInv, Control
  <2>2. CASE pc' = [pc EXCEPT ![0] = "start"]
    BY <1>1, <2>2, CoordinatorIsAThread DEF StageInv, Control
  <2>3. CASE pc' = [pc EXCEPT ![0] = "call"]
    BY <1>1, <2>3, CoordinatorIsAThread DEF StageInv, Control
  <2>4. CASE stop' = TRUE /\ pc' = [pc EXCEPT ![0] = "drop"]
    BY <1>1, <2>4, CoordinatorIsAThread DEF StageInv, Control
  <2>5. QED BY <1>1, <2>1, <2>2, <2>3, <2>4
<1>4. Alone0'
  BY <1>1, <1>2, CoordinatorIsAThread DEF Alone0, StageInv, Control
<1>5. \A u \in Worker : Between(u)'
  BY <1>1, <1>2, CoordinatorIsAThread DEF Between, Worker, StageInv, Control
<1>6. QED BY <1>3, <1>4, <1>5 DEF StageInv, Stages

LEMMA StageArrive ==
  ASSUME StageInv, NEW t \in Thread, Arrive(t)
  PROVE  StageInv'
<1>1. /\ pc' = pc /\ stop' = stop /\ pc[t] \in {"start", "zipped", "copied", "added", "drop"}
      /\ phase[t] = "outside" /\ phase' = [phase EXCEPT ![t] = "waiting"]
  BY DEF Arrive, Waits, TheBarrier!Arrive, shared
<1>2. Control'
  BY <1>1 DEF StageInv, Control
<1>3. Stages'
  BY <1>1, CoordinatorIsAThread
  DEF StageInv, Control, Stages, Alone0, Ended0, Between, Zipping, Copying, Adding, Leaving, Worker
<1>4. QED BY <1>2, <1>3 DEF StageInv

(* A barrier opens one stage further on. *)
LEMMA StageOpen ==
  ASSUME StageInv, Open
  PROVE  /\ StageInv'
         /\ \/ pc[0] = "start" /\ ~stop /\ Alone0 /\ \A u \in Thread : Zipping(u)'
            \/ pc[0] = "drop" /\ Alone0
            \/ \A u \in Thread : pc[u] = "zipped" /\ Zipping(u) /\ Copying(u)'
            \/ \A u \in Thread : pc[u] = "copied" /\ Copying(u) /\ Adding(u)'
            \/ \A u \in Thread : pc[u] = "added" /\ Adding(u) /\ Between(u)'
<1>1. /\ pc' = pc /\ stop' = stop /\ \A u \in Thread : phase[u] = "waiting"
      /\ phase' = [u \in Thread |-> "released"]
  BY DEF Open, TheBarrier!Open, shared
<1>2. Control'
  BY <1>1 DEF StageInv, Control
<1>3. CASE Alone0 /\ \A u \in Worker : Between(u)
  <2>1. /\ pc[0] \in {"start", "drop"} /\ \A u \in Worker : pc[u] = "start"
        /\ stop <=> pc[0] = "drop"
    BY <1>1, <1>3, CoordinatorIsAThread DEF Alone0, Between, StageInv, Control
  <2>2. CASE pc[0] = "start"
    <3>1. \A u \in Thread : Zipping(u)'
      BY <1>1, <2>1, <2>2 DEF Zipping, Worker
    <3>2. QED BY <1>2, <1>3, <2>1, <2>2, <3>1 DEF StageInv, Stages
  <2>3. CASE pc[0] = "drop"
    <3>1. Ended0' /\ \A u \in Worker : Leaving(u)'
      BY <1>1, <2>1, <2>3, CoordinatorIsAThread DEF Leaving, Worker, Ended0
    <3>2. QED BY <1>2, <1>3, <2>3, <3>1 DEF StageInv, Stages
  <2>4. QED BY <2>1, <2>2, <2>3
<1>4. CASE \A u \in Thread : Zipping(u)
  <2>1. \A u \in Thread : pc[u] = "zipped"
    BY <1>1, <1>4 DEF Zipping
  <2>2. \A u \in Thread : Copying(u)'
    BY <1>1, <2>1 DEF Copying
  <2>3. QED BY <1>2, <1>4, <2>1, <2>2 DEF StageInv, Stages
<1>5. CASE \A u \in Thread : Copying(u)
  <2>1. \A u \in Thread : pc[u] = "copied"
    BY <1>1, <1>5 DEF Copying
  <2>2. \A u \in Thread : Adding(u)'
    BY <1>1, <2>1 DEF Adding
  <2>3. QED BY <1>2, <1>5, <2>1, <2>2 DEF StageInv, Stages
<1>6. CASE \A u \in Thread : Adding(u)
  <2>1. \A u \in Thread : pc[u] = "added"
    BY <1>1, <1>6 DEF Adding
  <2>2. Alone0' /\ \A u \in Thread : Between(u)'
    BY <1>1, <2>1, CoordinatorIsAThread DEF Between, Alone0
  <2>3. QED BY <1>2, <1>6, <2>1, <2>2, CoordinatorIsAThread DEF StageInv, Stages
<1>7. CASE Ended0 /\ \A u \in Worker : Leaving(u)
  BY <1>1, <1>7, CoordinatorIsAThread DEF Ended0
<1>8. QED BY <1>3, <1>4, <1>5, <1>6, <1>7 DEF StageInv, Stages

(* A thread that enters, or goes on within a stage. *)
LEMMA StageWithin ==
  ASSUME StageInv, NEW t \in Thread, stop' = stop,
         NEW p, NEW f, pc' = [pc EXCEPT ![t] = p], phase' = [phase EXCEPT ![t] = f],
         \/ Zipping(t) /\ <<p, f>> \in {<<"zip", "outside">>, <<"zipped", "outside">>}
         \/ Copying(t) /\ <<p, f>> \in {<<"copied", "outside">>}
         \/ Adding(t) /\ <<p, f>> \in {<<"low", "outside">>, <<"high", "outside">>,
                                       <<"added", "outside">>}
  PROVE  StageInv'
<1>1. pc[0] \notin {"drop", "join", "dropped"}
  BY StageOf, CoordinatorIsAThread DEF Zipping, Copying, Adding
<1>2. Control'
  BY <1>1, CoordinatorIsAThread DEF StageInv, Control
<1>3. CASE Zipping(t) /\ p \in {"zip", "zipped"} /\ f = "outside"
  <2>1. \A u \in Thread : Zipping(u)
    BY <1>3, StageOf
  <2>2. \A u \in Thread : Zipping(u)'
    BY <1>3, <2>1 DEF Zipping, StageInv, Control
  <2>3. QED BY <1>2, <2>2 DEF StageInv, Stages
<1>4. CASE Copying(t) /\ p = "copied" /\ f = "outside"
  <2>1. \A u \in Thread : Copying(u)
    BY <1>4, StageOf
  <2>2. \A u \in Thread : Copying(u)'
    BY <1>4, <2>1 DEF Copying, StageInv, Control
  <2>3. QED BY <1>2, <2>2 DEF StageInv, Stages
<1>5. CASE Adding(t) /\ p \in {"low", "high", "added"} /\ f = "outside"
  <2>1. \A u \in Thread : Adding(u)
    BY <1>5, StageOf
  <2>2. \A u \in Thread : Adding(u)'
    BY <1>5, <2>1 DEF Adding, StageInv, Control
  <2>3. QED BY <1>2, <2>2 DEF StageInv, Stages
<1>6. QED BY <1>3, <1>4, <1>5

LEMMA StageExit ==
  ASSUME StageInv, NEW t \in Thread, Exit(t)
  PROVE  StageInv'
<1>1. /\ pc[t] = "start" /\ phase[t] = "released" /\ stop /\ t # 0
      /\ pc' = [pc EXCEPT ![t] = "exited"] /\ phase' = [phase EXCEPT ![t] = "outside"]
      /\ stop' = stop
  BY DEF Exit, Goto, TheBarrier!Leave, shared
<1>2. Control'
  BY <1>1, CoordinatorIsAThread DEF StageInv, Control
<1>3. Ended0 /\ \A u \in Worker : Leaving(u)
  BY <1>1, StageOf DEF Leaving
<1>4. Ended0' /\ \A u \in Worker : Leaving(u)'
  BY <1>1, <1>3, CoordinatorIsAThread DEF StageInv, Control, Leaving, Ended0, Worker
<1>5. QED BY <1>2, <1>4 DEF StageInv, Stages

LEMMA StageRejoin ==
  ASSUME StageInv, NEW t \in Thread, Rejoin(t)
  PROVE  StageInv'
<1>1. /\ pc[t] = "added" /\ phase[t] = "released"
      /\ pc' = [pc EXCEPT ![t] = IF t = 0 THEN "resolve" ELSE "start"]
      /\ phase' = [phase EXCEPT ![t] = "outside"] /\ stop' = stop
  BY DEF Rejoin, Goto, TheBarrier!Leave, shared
<1>2. Control'
  <2>1. pc'[0] \in {"resolve", pc[0]}
    BY <1>1, CoordinatorIsAThread DEF StageInv, Control
  <2>2. t = 0 => pc[0] = "added"
    BY <1>1
  <2>3. stop' <=> pc'[0] \in {"drop", "join", "dropped"}
    BY <1>1, <2>1, <2>2, CoordinatorIsAThread DEF StageInv, Control
  <2>4. QED BY <1>1, <2>3 DEF StageInv, Control
<1>3. Alone0 /\ \A u \in Worker : Between(u)
  BY <1>1, StageOf DEF Between, Alone0
<1>4. Alone0' /\ \A u \in Worker : Between(u)'
  BY <1>1, <1>3, CoordinatorIsAThread DEF StageInv, Control, Between, Alone0, Worker
<1>5. QED BY <1>2, <1>4 DEF StageInv, Stages

LEMMA StageDropped ==
  ASSUME StageInv, LeaveDrop \/ Join \/ Dropped \/ UNCHANGED vars
  PROVE  StageInv'
<1>1. CASE LeaveDrop
  <2>1. /\ pc[0] = "drop" /\ phase[0] = "released" /\ stop' = stop
        /\ pc' = [pc EXCEPT ![0] = "join"] /\ phase' = [phase EXCEPT ![0] = "outside"]
    BY <1>1 DEF LeaveDrop, Goto, TheBarrier!Leave, shared
  <2>2. Ended0 /\ \A u \in Worker : Leaving(u)
    BY <2>1, StageOf, CoordinatorIsAThread DEF Ended0
  <2>3. Control'
    BY <2>1, CoordinatorIsAThread DEF StageInv, Control
  <2>4. Ended0' /\ \A u \in Worker : Leaving(u)'
    BY <2>1, <2>2, CoordinatorIsAThread DEF StageInv, Control, Leaving, Ended0, Worker
  <2>5. QED BY <2>3, <2>4 DEF StageInv, Stages
<1>2. CASE Join
  <2>1. /\ pc[0] = "join" /\ stop' = stop
        /\ pc' = [pc EXCEPT ![0] = "dropped"] /\ phase' = phase
    BY <1>2 DEF Join, Goto, shared
  <2>2. Ended0 /\ \A u \in Worker : Leaving(u)
    BY <2>1, CoordinatorIsAThread
    DEF StageInv, Control, Stages, Alone0, Ended0, Zipping, Copying, Adding
  <2>3. Control'
    BY <2>1, CoordinatorIsAThread DEF StageInv, Control
  <2>4. Ended0' /\ \A u \in Worker : Leaving(u)'
    BY <2>1, <2>2, CoordinatorIsAThread, SMTT(60) DEF StageInv, Control, Leaving, Ended0, Worker
  <2>5. QED BY <2>3, <2>4 DEF StageInv, Stages
<1>3. CASE Dropped \/ UNCHANGED vars
  BY <1>3
  DEF Dropped, vars, shared, StageInv, Control, Stages, Alone0, Ended0, Between, Zipping,
      Copying, Adding, Leaving
<1>4. QED BY <1>1, <1>2, <1>3

(* What a thread is doing tells its stage. *)
LEMMA StageAt ==
  ASSUME StageInv, NEW t \in Thread
  PROVE  /\ pc[t] = "zip" => Zipping(t) /\ phase[t] = "outside"
         /\ pc[t] \in {"low", "high"} => Adding(t) /\ phase[t] = "outside"
         /\ pc[t] = "start" /\ phase[t] = "released" /\ ~(stop /\ t # 0) => Zipping(t)
         /\ pc[t] = "zipped" /\ phase[t] = "released" => Copying(t)
         /\ pc[t] = "copied" /\ phase[t] = "released" => Adding(t)
  BY CoordinatorIsAThread
  DEF StageInv, Control, Stages, Alone0, Ended0, Between, Zipping, Copying, Adding, Leaving, Worker

LEMMA StageWork ==
  ASSUME StageInv, NEW t \in Thread,
         \/ Enter(t) \/ ZipPair(t) \/ EndZip(t) \/ Copy(t) \/ StartAdd(t)
         \/ AddLimb(t) \/ EndLow(t) \/ EndHigh(t)
  PROVE  StageInv'
<1>1. phase \in [Thread -> {"outside", "waiting", "released"}] /\ DOMAIN pc = Thread
  BY DEF StageInv, Control
<1>2. CASE Enter(t)
  <2>1. /\ pc[t] = "start" /\ phase[t] = "released" /\ ~(stop /\ t # 0) /\ stop' = stop
        /\ pc' = [pc EXCEPT ![t] = "zip"] /\ phase' = [phase EXCEPT ![t] = "outside"]
    BY <1>2 DEF Enter, Goto, TheBarrier!Leave, shared
  <2>2. QED BY <2>1, StageAt, StageWithin
<1>3. CASE ZipPair(t) \/ AddLimb(t)
  <2>1. pc' = pc /\ phase' = phase /\ stop' = stop
    BY <1>3, Zenon DEF ZipPair, AddLimb, shared
  <2>2. QED BY <2>1
  DEF StageInv, Control, Stages, Alone0, Ended0, Between, Zipping, Copying, Adding, Leaving
<1>4. CASE EndZip(t)
  <2>1. pc[t] = "zip" /\ stop' = stop /\ pc' = [pc EXCEPT ![t] = "zipped"] /\ phase' = phase
    BY <1>4 DEF EndZip, Goto, shared
  <2>2. Zipping(t) /\ phase' = [phase EXCEPT ![t] = "outside"]
    BY <1>1, <2>1, StageAt
  <2>3. QED BY <2>1, <2>2, StageWithin
<1>5. CASE Copy(t)
  <2>1. /\ pc[t] = "zipped" /\ phase[t] = "released" /\ stop' = stop
        /\ pc' = [pc EXCEPT ![t] = "copied"] /\ phase' = [phase EXCEPT ![t] = "outside"]
    BY <1>5 DEF Copy, Goto, TheBarrier!Leave, shared
  <2>2. QED BY <2>1, StageAt, StageWithin
<1>6. CASE StartAdd(t)
  <2>1. /\ pc[t] = "copied" /\ phase[t] = "released" /\ stop' = stop
        /\ pc' = [pc EXCEPT ![t] = "low"] /\ phase' = [phase EXCEPT ![t] = "outside"]
    BY <1>6 DEF StartAdd, Goto, TheBarrier!Leave, shared
  <2>2. QED BY <2>1, StageAt, StageWithin
<1>7. CASE EndLow(t)
  <2>1. pc[t] = "low" /\ stop' = stop /\ pc' = [pc EXCEPT ![t] = "high"] /\ phase' = phase
    BY <1>7 DEF EndLow, Goto
  <2>2. Adding(t) /\ phase' = [phase EXCEPT ![t] = "outside"]
    BY <1>1, <2>1, StageAt
  <2>3. QED BY <2>1, <2>2, StageWithin
<1>8. CASE EndHigh(t)
  <2>1. pc[t] = "high" /\ stop' = stop /\ pc' = [pc EXCEPT ![t] = "added"] /\ phase' = phase
    BY <1>8 DEF EndHigh, Goto
  <2>2. Adding(t) /\ phase' = [phase EXCEPT ![t] = "outside"]
    BY <1>1, <2>1, StageAt
  <2>3. QED BY <2>1, <2>2, StageWithin
<1>9. QED BY <1>2, <1>3, <1>4, <1>5, <1>6, <1>7, <1>8

LEMMA StageStep == StageInv /\ [Next]_vars => StageInv'
<1> SUFFICES ASSUME StageInv, [Next]_vars PROVE StageInv'
  OBVIOUS
<1>1. CASE Publish \/ Drop \/ ResolveBlock \/ Return
  BY <1>1, StageCoordinator
<1>2. CASE Open
  BY <1>2, StageOpen
<1>3. ASSUME NEW t \in Thread, ThreadStep(t) PROVE StageInv'
  BY <1>3, StageArrive, StageExit, StageRejoin, StageWork DEF ThreadStep
<1>4. CASE LeaveDrop \/ Join \/ Dropped \/ UNCHANGED vars
  BY <1>4, StageDropped
<1>5. QED BY <1>1, <1>2, <1>3, <1>4 DEF Next, Coordination

-----------------------------------------------------------------------------
(* Among its pairs, in its blocks *)

(* A vector of whole limbs, and how many there are. *)
Vector(x, c) == DOMAIN x = 0 .. c * DPL - 1

LEMMA LimbsCounted ==
  ASSUME NEW c \in Nat, NEW x, Vector(x, c)
  PROVE  NumDigits(x) = c * DPL /\ NumDigits(x) \div DPL = c
<1>1. c * DPL \in Nat /\ DPL \in Nat \ {0}
  BY LineMultiple
<1>2. NumDigits(x) = c * DPL
  <2>1. \A n \in Nat : Cardinality(0 .. n - 1) = n
    BY FS_Interval
  <2>2. QED BY <1>1, <2>1 DEF NumDigits, Vector
<1>3. (c * DPL) \div DPL = c
  BY <1>1
<1>4. QED BY <1>2, <1>3

LEMMA ResizedVector ==
  ASSUME NEW x, NEW c \in Nat
  PROVE  Vector(Resize(x, c), c)
  BY DEF Vector, Resize

(* The pairs are divided like twice as many blocks, two to a thread.       *)
LEMMA ZipBlocks ==
  ASSUME NEW total \in Nat, NEW k \in 0 .. NumThreads
  PROVE  /\ DivCeil(total, 2) \in Nat
         /\ 2 * k \in 0 .. NumBlocks
         /\ ZipBounds(total)[k] = BlockBounds(DivCeil(total, 2))[2 * k]
<1> DEFINE pairs == DivCeil(total, 2)
<1>1. pairs \in Nat
  BY DEF DivCeil
<1>2. NumThreads \in Nat \ {0} /\ NumBlocks = 2 * NumThreads /\ 2 * k \in 0 .. NumBlocks
  BY Blocks
<1> HIDE DEF pairs
<1>3. ASSUME NEW m \in Nat PROVE (2 * m) \div NumBlocks = m \div NumThreads
  <2> DEFINE q == m \div NumThreads
             r == (2 * m) \div NumBlocks
  <2>1. q \in Nat /\ q * NumThreads <= m /\ m < q * NumThreads + NumThreads
    BY <1>2, Quotient
  <2>2. r \in Nat /\ r * NumBlocks <= 2 * m /\ 2 * m < r * NumBlocks + NumBlocks
    <3>1. 2 * m \in Nat /\ NumBlocks \in Nat \ {0}
      BY <1>2
    <3>2. QED BY <3>1, Quotient
  <2> HIDE DEF q, r
  <2>3. r * NumBlocks = 2 * (r * NumThreads) /\ r * NumThreads \in Nat /\ q * NumThreads \in Nat
    BY <1>2, <2>1, <2>2
  <2>4. (q + 1) * NumThreads = q * NumThreads + NumThreads /\ (r + 1) * NumThreads = r * NumThreads + NumThreads
    BY <1>2, <2>1, <2>2
  <2>5. r * NumThreads < (q + 1) * NumThreads /\ q * NumThreads < (r + 1) * NumThreads
    BY <1>2, <2>1, <2>2, <2>3, <2>4
  <2>6. r < q + 1 /\ q < r + 1
    <3>1. q \in Int /\ r \in Int /\ q + 1 \in Int /\ r + 1 \in Int
      BY <2>1, <2>2
    <3>2. QED BY <1>2, <2>5, <3>1, Cancel
  <2>7. q = r
    BY <2>1, <2>2, <2>6
  <2>8. QED BY <2>7 DEF q, r
<1>4. k * pairs \in Nat /\ (2 * k) * pairs = 2 * (k * pairs)
  BY <1>1
<1>5. (2 * (k * pairs)) \div NumBlocks = (k * pairs) \div NumThreads
  BY <1>3, <1>4
<1>6. ZipBounds(total)[k] = (k * pairs) \div NumThreads
  BY DEF ZipBounds, pairs
<1>7. BlockBounds(pairs)[2 * k] = ((2 * k) * pairs) \div NumBlocks
  BY <1>2 DEF BlockBounds
<1>8. QED BY <1>1, <1>2, <1>4, <1>5, <1>6, <1>7 DEF pairs

LEMMA ZipAscends ==
  ASSUME NEW total \in Nat
  PROVE  /\ \A k \in 0 .. NumThreads : ZipBounds(total)[k] \in Nat
         /\ \A k, m \in 0 .. NumThreads :
              k <= m => ZipBounds(total)[k] <= ZipBounds(total)[m]
         /\ ZipBounds(total)[0] = 0
         /\ ZipBounds(total)[NumThreads] = DivCeil(total, 2)
<1> DEFINE pairs == DivCeil(total, 2)
<1>1. NumThreads \in Nat \ {0} /\ NumBlocks = 2 * NumThreads
  BY Blocks
<1>2. \A k \in 0 .. NumThreads :
        /\ pairs \in Nat /\ 2 * k \in 0 .. NumBlocks
        /\ ZipBounds(total)[k] = BlockBounds(pairs)[2 * k]
  BY ZipBlocks
<1> HIDE DEF pairs
<1>3. pairs \in Nat
  BY <1>1, <1>2
<1>4. /\ \A k \in 0 .. NumBlocks : BlockBounds(pairs)[k] \in Nat
      /\ \A k, m \in 0 .. NumBlocks :
           k <= m => BlockBounds(pairs)[k] <= BlockBounds(pairs)[m]
      /\ BlockBounds(pairs)[0] = 0
      /\ BlockBounds(pairs)[NumBlocks] = pairs
  BY <1>3, BoundsAscend
<1>5. \A k \in 0 .. NumThreads : ZipBounds(total)[k] \in Nat
  BY <1>2, <1>4
<1>6. ASSUME NEW k \in 0 .. NumThreads, NEW m \in 0 .. NumThreads, k <= m
      PROVE  ZipBounds(total)[k] <= ZipBounds(total)[m]
  <2>1. 2 * k <= 2 * m
    BY <1>6
  <2>2. QED BY <1>2, <1>4, <2>1
<1>7. ZipBounds(total)[0] = 0
  <2>1. 0 \in 0 .. NumThreads /\ 2 * 0 = 0
    BY <1>1
  <2>2. QED BY <1>2, <1>4, <2>1
<1>8. ZipBounds(total)[NumThreads] = pairs
  <2>1. NumThreads \in 0 .. NumThreads
    BY <1>1
  <2>2. QED BY <1>1, <1>2, <1>4, <2>1
<1>9. QED BY <1>5, <1>6, <1>7, <1>8 DEF pairs

(* Every pair is some thread's. *)
LEMMA ZipCovers ==
  ASSUME NEW total \in Nat, NEW i \in 0 .. DivCeil(total, 2) - 1
  PROVE  \E t \in Thread : ZipBounds(total)[t] <= i /\ i < ZipBounds(total)[t + 1]
<1> DEFINE pairs == DivCeil(total, 2)
<1>1. NumThreads \in Nat \ {0} /\ NumBlocks = 2 * NumThreads
  BY Blocks
<1>2. pairs \in Nat
  BY DEF DivCeil
<1>3. PICK j \in 0 .. NumBlocks - 1 : BlockBounds(pairs)[j] <= i /\ i < BlockBounds(pairs)[j + 1]
  BY <1>2, BlocksCover
<1>4. PICK t \in Thread : j \in {2 * t, 2 * t + 1}
  <2>1. j \div 2 \in Thread /\ j \in {2 * (j \div 2), 2 * (j \div 2) + 1}
    BY <1>1, <1>3 DEF Thread
  <2>2. QED BY <2>1
<1>5. /\ t \in 0 .. NumThreads /\ t + 1 \in 0 .. NumThreads /\ t \in Nat
      /\ 2 * t \in 0 .. NumBlocks /\ 2 * (t + 1) \in 0 .. NumBlocks
      /\ j + 1 \in 0 .. NumBlocks /\ j \in 0 .. NumBlocks
      /\ 2 * t <= j /\ j + 1 <= 2 * (t + 1)
  BY <1>1, <1>4 DEF Thread
<1>6. /\ ZipBounds(total)[t] = BlockBounds(pairs)[2 * t]
      /\ ZipBounds(total)[t + 1] = BlockBounds(pairs)[2 * (t + 1)]
  BY <1>5, ZipBlocks
<1> HIDE DEF pairs
<1>7. /\ BlockBounds(pairs)[2 * t] <= BlockBounds(pairs)[j]
      /\ BlockBounds(pairs)[j + 1] <= BlockBounds(pairs)[2 * (t + 1)]
      /\ BlockBounds(pairs)[2 * t] \in Nat /\ BlockBounds(pairs)[2 * (t + 1)] \in Nat
      /\ BlockBounds(pairs)[j] \in Nat /\ BlockBounds(pairs)[j + 1] \in Nat
  BY <1>2, <1>5, BoundsAscend
<1>8. i \in Int
  BY <1>2 DEF pairs
<1>9. QED BY <1>3, <1>6, <1>7, <1>8

(* A thread is among its pairs while it zips, in the block it adds. *)
AtPlace(t) ==
  /\ pc[t] = "zip" => loc[t].at \in pub.zip[t] .. pub.zip[t + 1]
  /\ pc[t] \in {"low", "high"} =>
       loc[t].at \in pub.block[BlockOf(t)] .. pub.block[BlockOf(t) + 1]

Shared ==
  /\ pub.total \in Nat
  /\ pub.block = BlockBounds(pub.total)
  /\ pub.zip = ZipBounds(pub.total)

Shape ==
  /\ DOMAIN loc = Thread
  /\ \A t \in Thread : DOMAIN loc[t] = {"copy", "at", "carry", "any"}
  /\ \E c \in Nat : Vector(digit, c) /\ Vector(mirror, c)

PlaceInv == Shared /\ Shape /\ \A t \in Thread : AtPlace(t)

(* The bounds of a thread's pairs and blocks. *)
LEMMA BoundsOfThread ==
  ASSUME Shared, NEW t \in Thread
  PROVE  /\ pub.zip[t] \in Nat /\ pub.zip[t + 1] \in Nat /\ pub.zip[t] <= pub.zip[t + 1]
         /\ pub.zip[t + 1] <= DivCeil(pub.total, 2)
         /\ \A j \in {t, HighBlock(t), BlockOf(t)} :
              /\ j \in 0 .. NumBlocks - 1
              /\ pub.block[j] \in Nat /\ pub.block[j + 1] \in Nat
              /\ pub.block[j] <= pub.block[j + 1] /\ pub.block[j + 1] <= pub.total
         /\ BlockOf(t) \in {t, HighBlock(t)}
<1>1. /\ NumThreads \in Nat \ {0} /\ NumBlocks = 2 * NumThreads
      /\ t \in Nat /\ t < NumThreads
      /\ HighBlock(t) \in Nat /\ NumThreads <= HighBlock(t) /\ HighBlock(t) < NumBlocks
  BY Blocks
<1>2. t \in 0 .. NumThreads /\ t + 1 \in 0 .. NumThreads /\ NumThreads \in 0 .. NumThreads
      /\ t <= t + 1 /\ t + 1 <= NumThreads
  BY <1>1
<1>3. /\ \A k \in 0 .. NumThreads : pub.zip[k] \in Nat
      /\ \A k, m \in 0 .. NumThreads : k <= m => pub.zip[k] <= pub.zip[m]
      /\ pub.zip[NumThreads] = DivCeil(pub.total, 2)
  BY ZipAscends DEF Shared
<1>4. /\ pub.zip[t] \in Nat /\ pub.zip[t + 1] \in Nat /\ pub.zip[t] <= pub.zip[t + 1]
      /\ pub.zip[t + 1] <= DivCeil(pub.total, 2)
  BY <1>2, <1>3
<1>5. /\ \A k \in 0 .. NumBlocks : pub.block[k] \in Nat
      /\ \A k, m \in 0 .. NumBlocks : k <= m => pub.block[k] <= pub.block[m]
      /\ pub.block[NumBlocks] = pub.total
  BY BoundsAscend DEF Shared
<1>6. BlockOf(t) \in {t, HighBlock(t)}
  BY DEF BlockOf
<1>7. ASSUME NEW j \in {t, HighBlock(t), BlockOf(t)}
      PROVE  /\ j \in 0 .. NumBlocks - 1
             /\ pub.block[j] \in Nat /\ pub.block[j + 1] \in Nat
             /\ pub.block[j] <= pub.block[j + 1] /\ pub.block[j + 1] <= pub.total
  <2>1. j \in 0 .. NumBlocks - 1
    BY <1>1, <1>6
  <2>2. /\ j \in 0 .. NumBlocks /\ j + 1 \in 0 .. NumBlocks /\ NumBlocks \in 0 .. NumBlocks
        /\ j <= j + 1 /\ j + 1 <= NumBlocks
    BY <1>1, <2>1
  <2>3. QED BY <1>5, <2>1, <2>2
<1>8. QED BY <1>4, <1>6, <1>7

LEMMA PlaceInit == Init => PlaceInv
<1> SUFFICES ASSUME Init PROVE PlaceInv
  OBVIOUS
<1>1. Shared
  BY DEF Init, NoStep, Shared
<1>2. Shape
  <2>1. PICK x \in Start : digit = Resize(x, DivCeil(NumDigits(x), LV_LEN))
    BY DEF Init
  <2>2. NumDigits(x) \in Nat \ {0}
    BY NumberAssumption DEF IsProper, Proper
  <2>3. DivCeil(NumDigits(x), DPL) \in Nat
    BY <2>2, LinesOfDigits
  <2>4. Vector(digit, DivCeil(NumDigits(x), DPL)) /\ DOMAIN mirror = DOMAIN digit
    BY <2>1, <2>3, ResizedVector DEF Init, LV_LEN
  <2>5. QED BY <2>3, <2>4 DEF Init, NoLoc, Shape, Vector
<1>3. \A t \in Thread : AtPlace(t)
  BY DEF Init, AtPlace
<1>4. QED BY <1>1, <1>2, <1>3 DEF PlaceInv

(* The number gets a limb more, and nobody is in a block. *)
LEMMA PlacePublish ==
  ASSUME StageInv, PlaceInv, Publish
  PROVE  PlaceInv'
<1>1. PICK c \in Nat : Vector(digit, c) /\ Vector(mirror, c)
  BY DEF PlaceInv, Shape
<1>2. LimbCount = c
  BY <1>1, LimbsCounted DEF LimbCount, LV_LEN
<1>3. Shared'
  BY <1>2 DEF Publish, Shared
<1>4. Shape'
  <2>1. c + 1 \in Nat
    OBVIOUS
  <2>2. Vector(digit', c + 1) /\ Vector(mirror', c + 1)
    BY <1>2, <2>1, ResizedVector DEF Publish
  <2>3. QED BY <2>1, <2>2 DEF Publish, PlaceInv, Shape
<1>5. ASSUME NEW t \in Thread PROVE AtPlace(t)'
  <2>1. pc[0] = "call" /\ pc' = [pc EXCEPT ![0] = "start"]
    BY DEF Publish, Goto
  <2>2. Alone0 /\ \A u \in Worker : Between(u)
    BY <2>1, CoordinatorIsAThread
    DEF StageInv, Control, Stages, Ended0, Zipping, Copying, Adding, Worker
  <2>3. pc'[t] \in {"start", "added"}
    BY <2>1, <2>2, CoordinatorIsAThread DEF StageInv, Control, Between, Worker
  <2>4. QED BY <2>3 DEF AtPlace
<1>6. QED BY <1>3, <1>4, <1>5 DEF PlaceInv

(* A step that leaves a thread where it is. *)
LEMMA PlaceStays ==
  ASSUME PlaceInv, NEW t \in Thread, pub' = pub, loc'[t].at = loc[t].at,
         pc'[t] = pc[t] \/ pc'[t] \notin {"zip", "low", "high"}
  PROVE  AtPlace(t)'
  BY DEF PlaceInv, AtPlace, BlockOf

LEMMA PlaceIdle ==
  ASSUME StageInv, PlaceInv,
         \/ Drop \/ Open \/ ResolveBlock \/ Return \/ LeaveDrop \/ Join \/ Dropped \/ UNCHANGED vars
         \/ \E t \in Thread : Arrive(t) \/ Exit(t) \/ Rejoin(t) \/ EndZip(t)
  PROVE  PlaceInv'
<1>1. pub' = pub /\ loc' = loc
  BY DEF Drop, Open, ResolveBlock, Return, LeaveDrop, Join, Dropped, vars, Arrive, Exit,
         Rejoin, EndZip, shared
<1>2. Shared'
  BY <1>1 DEF PlaceInv, Shared
<1>3. \E c \in Nat : Vector(digit, c)' /\ Vector(mirror, c)'
  <2>1. PICK c \in Nat : Vector(digit, c) /\ Vector(mirror, c)
    BY DEF PlaceInv, Shape
  <2>2. CASE Return
    <3>1. CASE ~call.carry
      <4>1. digit' = Resize(digit, pub.total) /\ mirror' = Resize(mirror, LimbCount')
        BY <2>2, <3>1 DEF Return
      <4>2. Vector(digit', pub.total) /\ pub.total \in Nat
        BY <4>1, ResizedVector DEF PlaceInv, Shared
      <4>3. LimbCount' = pub.total
        BY <4>2, LimbsCounted DEF LimbCount, LV_LEN
      <4>4. QED BY <4>1, <4>2, <4>3, ResizedVector DEF Vector
    <3>2. CASE call.carry
      <4>1. DOMAIN digit' = DOMAIN digit /\ mirror' = Resize(mirror, LimbCount')
        BY <2>2, <3>2 DEF Return
      <4>2. Vector(digit', c)
        BY <2>1, <4>1 DEF Vector
      <4>3. LimbCount' = c
        BY <4>2, LimbsCounted DEF LimbCount, LV_LEN
      <4>4. QED BY <4>1, <4>2, <4>3, ResizedVector DEF Vector
    <3>3. QED BY <3>1, <3>2
  <2>3. CASE ~Return
    <3>1. DOMAIN digit' = DOMAIN digit /\ mirror' = mirror
      BY <2>3 DEF Drop, Open, ResolveBlock, LeaveDrop, Join, Dropped, vars, Arrive, Exit,
                  Rejoin, EndZip, limbs, Increment
    <3>2. QED BY <2>1, <3>1 DEF Vector
  <2>4. QED BY <2>2, <2>3
<1>4. Shape'
  BY <1>1, <1>3 DEF PlaceInv, Shape
<1>5. ASSUME NEW t \in Thread PROVE AtPlace(t)'
  <2>1. pc'[t] = pc[t] \/ pc'[t] \notin {"zip", "low", "high"}
    BY CoordinatorIsAThread
    DEF Drop, Open, ResolveBlock, Return, LeaveDrop, Join, Dropped, vars, Arrive, Exit,
        Rejoin, EndZip, Goto, StageInv, Control
  <2>2. QED BY <1>1, <2>1, PlaceStays, SMTT(60)
<1>6. QED BY <1>2, <1>4, <1>5 DEF PlaceInv

(* A thread that moves touches its own record only. *)
LEMMA PlaceMoves ==
  ASSUME PlaceInv, NEW t \in Thread, pub' = pub,
         DOMAIN loc' = Thread, DOMAIN loc'[t] = {"copy", "at", "carry", "any"},
         \A u \in Thread \ {t} : loc'[u] = loc[u] /\ pc'[u] = pc[u],
         DOMAIN digit' = DOMAIN digit, DOMAIN mirror' = DOMAIN mirror,
         AtPlace(t)'
  PROVE  PlaceInv'
<1>1. Shared'
  BY DEF PlaceInv, Shared
<1>2. Shape'
  BY DEF PlaceInv, Shape, Vector
<1>3. ASSUME NEW u \in Thread PROVE AtPlace(u)'
  BY PlaceStays
<1>4. QED BY <1>1, <1>2, <1>3 DEF PlaceInv

LEMMA PlaceWork ==
  ASSUME StageInv, PlaceInv, NEW t \in Thread,
         \/ Enter(t) \/ ZipPair(t) \/ Copy(t) \/ StartAdd(t)
         \/ AddLimb(t) \/ EndLow(t) \/ EndHigh(t)
  PROVE  PlaceInv'
<1>1. /\ pub' = pub /\ DOMAIN digit' = DOMAIN digit /\ DOMAIN mirror' = DOMAIN mirror
      /\ \A u \in Thread \ {t} : loc'[u] = loc[u] /\ pc'[u] = pc[u]
      /\ DOMAIN loc' = Thread /\ DOMAIN loc'[t] = {"copy", "at", "carry", "any"}
  <2>1. DOMAIN loc = Thread /\ DOMAIN loc[t] = {"copy", "at", "carry", "any"} /\ DOMAIN pc = Thread
    BY SMTT(60) DEF PlaceInv, Shape, StageInv, Control
  <2>2. CASE Enter(t) \/ Copy(t) \/ StartAdd(t) \/ EndLow(t) \/ EndHigh(t)
    BY <2>1, <2>2 DEF Enter, Copy, StartAdd, EndLow, EndHigh, Goto, limbs, shared, NoLoc
  <2>3. CASE ZipPair(t) \/ AddLimb(t)
    BY <2>1, <2>3, Zenon, ZenonT(60) DEF ZipPair, AddLimb, shared
  <2>4. QED BY <2>2, <2>3
<1>2. /\ pub.zip[t] \in Nat /\ pub.zip[t + 1] \in Nat /\ pub.zip[t] <= pub.zip[t + 1]
      /\ \A j \in {t, HighBlock(t)} :
           /\ pub.block[j] \in Nat /\ pub.block[j + 1] \in Nat
           /\ pub.block[j] <= pub.block[j + 1]
  BY BoundsOfThread DEF PlaceInv
<1>3. DOMAIN loc = Thread /\ DOMAIN loc[t] = {"copy", "at", "carry", "any"} /\ DOMAIN pc = Thread
  BY DEF PlaceInv, Shape, StageInv, Control
<1>4. AtPlace(t)'
  <2>1. CASE Enter(t)
    <3>1. pc'[t] = "zip" /\ loc'[t].at = pub.zip[t]
      BY <1>3, <2>1 DEF Enter, Goto, NoLoc
    <3>2. QED BY <1>1, <1>2, <3>1 DEF AtPlace
  <2>2. CASE ZipPair(t)
    <3>1. pc[t] = "zip" /\ pc' = pc /\ loc'[t].at = loc[t].at + 1 /\ loc[t].at < pub.zip[t + 1]
      BY <1>3, <2>2 DEF ZipPair
    <3>2. loc[t].at \in pub.zip[t] .. pub.zip[t + 1]
      BY <3>1 DEF PlaceInv, AtPlace
    <3>3. QED BY <1>1, <1>2, <3>1, <3>2 DEF AtPlace
  <2>3. CASE Copy(t) \/ EndHigh(t)
    <3>1. pc'[t] \in {"copied", "added"}
      BY <1>3, <2>3 DEF Copy, EndHigh, Goto
    <3>2. QED BY <3>1 DEF AtPlace
  <2>4. CASE StartAdd(t)
    <3>1. pc'[t] = "low" /\ loc'[t].at = pub.block[t]
      BY <1>3, <2>4 DEF StartAdd, Goto
    <3>2. QED BY <1>1, <1>2, <3>1 DEF AtPlace, BlockOf
  <2>5. CASE AddLimb(t)
    <3>1. /\ pc[t] \in {"low", "high"} /\ pc' = pc /\ loc'[t].at = loc[t].at + 1
          /\ loc[t].at < pub.block[BlockOf(t) + 1]
      BY <1>3, <2>5 DEF AddLimb
    <3>2. loc[t].at \in pub.block[BlockOf(t)] .. pub.block[BlockOf(t) + 1]
      BY <3>1 DEF PlaceInv, AtPlace
    <3>3. BlockOf(t)' = BlockOf(t) /\ BlockOf(t) \in {t, HighBlock(t)}
      BY <3>1 DEF BlockOf
    <3>4. QED BY <1>1, <1>2, <3>1, <3>2, <3>3, SMTT(60) DEF AtPlace
  <2>6. CASE EndLow(t)
    <3>1. pc'[t] = "high" /\ loc'[t].at = pub.block[HighBlock(t)]
      BY <1>3, <2>6 DEF EndLow, Goto
    <3>2. QED BY <1>1, <1>2, <3>1 DEF AtPlace, BlockOf
  <2>7. QED BY <2>1, <2>2, <2>3, <2>4, <2>5, <2>6, SMTT(60)
<1>5. QED BY <1>1, <1>4, PlaceMoves

LEMMA PlaceStep == StageInv /\ PlaceInv /\ [Next]_vars => PlaceInv'
<1> SUFFICES ASSUME StageInv, PlaceInv, [Next]_vars PROVE PlaceInv'
  OBVIOUS
<1>1. CASE Publish
  BY <1>1, PlacePublish
<1>2. CASE Drop \/ Open \/ Coordination \/ Dropped \/ UNCHANGED vars
  BY <1>2, PlaceIdle DEF Coordination
<1>3. ASSUME NEW t \in Thread, ThreadStep(t) PROVE PlaceInv'
  <2>1. CASE Arrive(t) \/ Exit(t) \/ Rejoin(t) \/ EndZip(t)
    BY <2>1, PlaceIdle
  <2>2. CASE \/ Enter(t) \/ ZipPair(t) \/ Copy(t) \/ StartAdd(t)
             \/ AddLimb(t) \/ EndLow(t) \/ EndHigh(t)
    BY <2>2, PlaceWork
  <2>3. QED BY <1>3, <2>1, <2>2 DEF ThreadStep
<1>4. QED BY <1>1, <1>2, <1>3 DEF Next

(* Distinct pairs have no limb in common. *)
LEMMA PairsApart ==
  ASSUME NEW total \in Nat, NEW i \in 0 .. DivCeil(total, 2) - 1,
         NEW k \in 0 .. DivCeil(total, 2) - 1, i # k
  PROVE  {i, total - 1 - i} \intersect {k, total - 1 - k} = {}
  BY DEF DivCeil

(* Two threads have different pairs and different blocks. *)
LEMMA ThreadsApart ==
  ASSUME Shared, NEW t \in Thread, NEW u \in Thread, t # u
  PROVE  /\ \A i \in pub.zip[t] .. pub.zip[t + 1] - 1 :
              \A k \in pub.zip[u] .. pub.zip[u + 1] - 1 :
                {i, pub.total - 1 - i} \intersect {k, pub.total - 1 - k} = {}
         /\ OwnLines(t, pub.block) \intersect OwnLines(u, pub.block) = {}
<1>1. ASSUME NEW i \in pub.zip[t] .. pub.zip[t + 1] - 1,
             NEW k \in pub.zip[u] .. pub.zip[u + 1] - 1
      PROVE  {i, pub.total - 1 - i} \intersect {k, pub.total - 1 - k} = {}
  <2>1. /\ pub.zip[t] \in Nat /\ pub.zip[t + 1] \in Nat /\ pub.zip[t + 1] <= DivCeil(pub.total, 2)
        /\ pub.zip[u] \in Nat /\ pub.zip[u + 1] \in Nat /\ pub.zip[u + 1] <= DivCeil(pub.total, 2)
    BY BoundsOfThread
  <2>2. DivCeil(pub.total, 2) \in Nat /\ pub.total \in Nat
    BY DEF Shared, DivCeil
  <2>3. pub.zip[t + 1] <= pub.zip[u] \/ pub.zip[u + 1] <= pub.zip[t]
    <3>1. /\ t \in 0 .. NumThreads /\ t + 1 \in 0 .. NumThreads /\ t \in Nat
          /\ u \in 0 .. NumThreads /\ u + 1 \in 0 .. NumThreads /\ u \in Nat
      BY Blocks
    <3>2. \A k1, m1 \in 0 .. NumThreads : k1 <= m1 => pub.zip[k1] <= pub.zip[m1]
      BY ZipAscends DEF Shared
    <3>3. t + 1 <= u \/ u + 1 <= t
      BY <3>1
    <3>4. QED BY <3>1, <3>2, <3>3
  <2>4. /\ i \in 0 .. DivCeil(pub.total, 2) - 1 /\ k \in 0 .. DivCeil(pub.total, 2) - 1 /\ i # k
    BY <2>1, <2>2, <2>3
  <2>5. QED BY <2>2, <2>4, PairsApart
<1>2. OwnLines(t, pub.block) \intersect OwnLines(u, pub.block) = {}
  BY OwnLinesDivide DEF Shared
<1>3. QED BY <1>1, <1>2

(* No two threads of the pool, however many there are, ever have a pair of *)
(* conflicting accesses to a limb ahead of them.                           *)
THEOREM NobodyRaces == Spec => []NoRace
<1>1. StageInv /\ PlaceInv => NoRace
  <2> SUFFICES ASSUME StageInv, PlaceInv PROVE NoRace
    OBVIOUS
  <2>1. ASSUME NEW t \in Thread, NEW u \in Thread, t # u
        PROVE  Writes(t) \intersect Reads(u) = {}
    <3>1. CASE pc[t] = "zip" /\ loc[t].at < pub.zip[t + 1]
      <4>1. Writes(t) = {loc[t].at, pub.total - 1 - loc[t].at}
        BY <3>1 DEF Writes
      <4>2. loc[t].at \in pub.zip[t] .. pub.zip[t + 1] - 1
        BY <3>1, BoundsOfThread DEF PlaceInv, AtPlace
      <4>3. Zipping(u)
        BY <3>1, StageAt, StageOf
      <4>4. Reads(u) = Writes(u)
        BY <4>3 DEF Zipping, Reads
      <4>5. CASE pc[u] = "zip" /\ loc[u].at < pub.zip[u + 1]
        <5>1. loc[u].at \in pub.zip[u] .. pub.zip[u + 1] - 1
          BY <4>5, BoundsOfThread DEF PlaceInv, AtPlace
        <5>2. Writes(u) = {loc[u].at, pub.total - 1 - loc[u].at}
          BY <4>5 DEF Writes
        <5>3. QED BY <2>1, <4>1, <4>2, <4>4, <5>1, <5>2, ThreadsApart DEF PlaceInv
      <4>6. CASE ~(pc[u] = "zip" /\ loc[u].at < pub.zip[u + 1])
        BY <4>3, <4>4, <4>6 DEF Zipping, Writes
      <4>7. QED BY <4>5, <4>6
    <3>2. CASE pc[t] \in {"low", "high"} /\ loc[t].at < pub.block[BlockOf(t) + 1]
      <4>1. Writes(t) = {loc[t].at}
        BY <3>2 DEF Writes
      <4>2. loc[t].at \in OwnLines(t, pub.block)
        <5>1. loc[t].at \in pub.block[BlockOf(t)] .. pub.block[BlockOf(t) + 1] - 1
          BY <3>2, BoundsOfThread DEF PlaceInv, AtPlace
        <5>2. QED BY <5>1 DEF OwnLines, BlockOf
      <4>3. Adding(u)
        BY <3>2, StageAt, StageOf
      <4>4. Reads(u) \subseteq OwnLines(u, pub.block)
        <5>1. CASE pc[u] \in {"low", "high"} /\ loc[u].at < pub.block[BlockOf(u) + 1]
          <6>1. /\ loc[u].at \in pub.block[BlockOf(u)] .. pub.block[BlockOf(u) + 1] - 1
                /\ pub.block[BlockOf(u)] \in Nat /\ pub.block[BlockOf(u) + 1] \in Nat
            BY <5>1, BoundsOfThread DEF PlaceInv, AtPlace
          <6>2. Reads(u) \subseteq pub.block[BlockOf(u)] .. pub.block[BlockOf(u) + 1] - 1
            BY <5>1, <6>1 DEF Reads, Writes
          <6>3. QED BY <6>2 DEF OwnLines, BlockOf
        <5>2. CASE ~(pc[u] \in {"low", "high"} /\ loc[u].at < pub.block[BlockOf(u) + 1])
          <6>1. CASE pc[u] \in {"low", "high"}
            <7>1. /\ loc[u].at \in Nat /\ pub.block[BlockOf(u) + 1] \in Nat
              BY <6>1, BoundsOfThread DEF PlaceInv, AtPlace
            <7>2. Reads(u) = {}
              BY <5>2, <6>1, <7>1 DEF Reads, Writes
            <7>3. QED BY <7>2
          <6>2. CASE pc[u] \notin {"low", "high"}
            BY <4>3, <6>2 DEF Adding, Reads, Writes
          <6>3. QED BY <6>1, <6>2
        <5>3. QED BY <5>1, <5>2
      <4>5. QED BY <2>1, <4>1, <4>2, <4>4, ThreadsApart DEF PlaceInv
    <3>3. CASE /\ ~(pc[t] = "zip" /\ loc[t].at < pub.zip[t + 1])
               /\ ~(pc[t] \in {"low", "high"} /\ loc[t].at < pub.block[BlockOf(t) + 1])
      BY <3>3 DEF Writes
    <3>4. QED BY <3>1, <3>2, <3>3
  <2>2. ASSUME pc[0] \in {"call", "resolve", "drop", "join"}, NEW t \in Thread \ {0}
        PROVE  Reads(t) = {}
    <3>1. Between(t) \/ Leaving(t)
      BY <2>2, CoordinatorIsAThread DEF StageInv, Control, Stages, Zipping, Copying, Adding, Worker
    <3>2. QED BY <3>1 DEF Between, Leaving, Reads, Writes
  <2>3. QED BY <2>1, <2>2 DEF NoRace
<1>2. Init => StageInv /\ PlaceInv
  BY StageInit, PlaceInit
<1>3. (StageInv /\ PlaceInv) /\ [Next]_vars => (StageInv /\ PlaceInv)'
  BY StageStep, PlaceStep
<1>4. QED BY <1>1, <1>2, <1>3, PTL DEF Spec

-----------------------------------------------------------------------------
(* What the limbs hold *)

(* The number the step started from, with zeros beyond its ends; what its  *)
(* mirrored byte gives a byte; and the columns to be added.                *)
Old(d) == IF d \in DOMAIN was THEN was[d] ELSE 0
Len == NumDigits(was)
Facing(d) == Old(pub.total * DPL - 1 - d)
S == [d \in 0 .. pub.total * DPL - 1 |-> Old(d) + Old(Len - 1 - d)]

(* The three things a limb may hold. *)
IsOld(x) == \A d \in LineSlots(x) : digit[d] = Old(d)
IsZipped(x) == \A d \in LineSlots(x) : mirror[d] = Facing(d)
IsSum(j, x) ==
  \A d \in LineSlots(x) :
    /\ digit[d] = Resolved(S[d], CarryInto(S, pub.block[j] * DPL, d, FALSE))
    /\ mirror[d] = 0

(* A column of these limbs generates a carry. *)
Generated(L) == \E x \in L : \E d \in LineSlots(x) : S[d] > 9

Limbs == 0 .. pub.total - 1
BlockLimbs(j) == pub.block[j] .. pub.block[j + 1] - 1

-----------------------------------------------------------------------------
(* The invariant of each stage *)

(* Between two steps: a proper number, and free upper nibbles. *)
Held ==
  \E c \in Nat \ {0} :
    /\ Vector(digit, c) /\ Vector(mirror, c)
    /\ \A d \in 0 .. c * DPL - 1 : digit[d] \in Digit /\ mirror[d] = 0
    /\ \E d \in LineSlots(c - 1) : digit[d] # 0

(* Within a step, the limb on top included. *)
Frame ==
  /\ IsProper(was)
  /\ pub.total = DivCeil(Len, DPL)
  /\ pub.skip = pub.total * DPL - Len
  /\ Vector(digit, pub.total + 1) /\ Vector(mirror, pub.total + 1)
  /\ IsOld(pub.total) /\ IsZipped(pub.total)
  /\ pc[0] # "resolve" => call = [block |-> 0, carry |-> FALSE]

(* The step is published, and the start barrier closed. *)
Published == pc[0] = "start" /\ phase[0] # "released"

(* Nothing has been added. *)
Untouched == everCarried = FALSE /\ \A x \in Limbs : IsOld(x)

PairsZipped(t) ==
  /\ pc[t] = "zip" =>
       \A i \in pub.zip[t] .. loc[t].at - 1 : IsZipped(i) /\ IsZipped(pub.total - 1 - i)
  /\ pc[t] = "zipped" =>
       \A i \in pub.zip[t] .. pub.zip[t + 1] - 1 : IsZipped(i) /\ IsZipped(pub.total - 1 - i)

(* The limbs past a thread's blocks, as they were when all was zipped. *)
CopiesRight(t) ==
  pc[t] \in {"copied", "low", "high"} =>
    \A j \in {t, HighBlock(t)} : \A p \in Lanes :
      loc[t].copy[j][p] = Facing(Byte(pub.block[j + 1], p))

(* How far a thread has come in one of its blocks. *)
Reached(t, j) ==
  IF pc[t] = "added" \/ (pc[t] = "high" /\ j = t) THEN pub.block[j + 1]
  ELSE IF pc[t] \in {"low", "high"} /\ j = BlockOf(t) THEN loc[t].at
  ELSE pub.block[j]

Done(t) ==
  (pub.block[t] .. Reached(t, t) - 1)
    \union (pub.block[HighBlock(t)] .. Reached(t, HighBlock(t)) - 1)

BlockAdded(t, j) ==
  /\ \A x \in pub.block[j] .. Reached(t, j) - 1 : IsSum(j, x)
  /\ \A x \in Reached(t, j) .. pub.block[j + 1] - 1 : IsOld(x) /\ IsZipped(x)

CarriesRight(t) ==
  /\ pc[t] \in {"low", "high"} =>
       /\ loc[t].carry \in BOOLEAN /\ loc[t].any \in BOOLEAN
       /\ loc[t].carry
            <=> CarryInto(S, pub.block[BlockOf(t)] * DPL, loc[t].at * DPL, FALSE)
       /\ loc[t].any <=> Generated(Done(t))
  /\ \A j \in {t, HighBlock(t)} :
       pc[t] = "added" \/ (pc[t] = "high" /\ j = t) =>
         (blockCarry[j]
            <=> CarryInto(S, pub.block[j] * DPL, pub.block[j + 1] * DPL, FALSE))

ThreadAdds(t) ==
  /\ BlockAdded(t, t) /\ BlockAdded(t, HighBlock(t))
  /\ CopiesRight(t) /\ CarriesRight(t)

Flag == everCarried <=> \E t \in Thread : pc[t] = "added" /\ Generated(OwnLines(t, pub.block))

(* The coordinator has come to the base of a block; below it all is final. *)
Resolving ==
  /\ everCarried <=> Generated(Limbs)
  /\ call.block \in 0 .. NumBlocks
  /\ call.carry \in BOOLEAN
  /\ call.carry <=> CarryInto(S, 0, pub.block[call.block] * DPL, FALSE)
  /\ \A j \in 0 .. NumBlocks - 1 :
       /\ blockCarry[j]
            <=> CarryInto(S, pub.block[j] * DPL, pub.block[j + 1] * DPL, FALSE)
       /\ j >= call.block => \A x \in BlockLimbs(j) : IsSum(j, x)
  /\ \A x \in Limbs : \A d \in LineSlots(x) :
       /\ mirror[d] = 0
       /\ d < pub.block[call.block] * DPL =>
            digit[d] = Resolved(S[d], CarryInto(S, 0, d, FALSE))

Summed == pc[0] = "resolve" \/ (pc[0] = "added" /\ phase[0] = "released")

DataInv ==
  /\ ret \in BOOLEAN /\ everCarried \in BOOLEAN
  /\ DOMAIN blockCarry = 0 .. NumBlocks - 1
  /\ ~InStep => Held
  /\ InStep => Frame
  /\ Published => Untouched
  /\ Zipping(0) => Untouched /\ \A t \in Thread : PairsZipped(t)
  /\ Copying(0) => /\ Untouched /\ \A x \in Limbs : IsZipped(x)
                   /\ \A t \in Thread : CopiesRight(t)
  /\ Adding(0) => Flag /\ \A t \in Thread : ThreadAdds(t)
  /\ Summed => Resolving

-----------------------------------------------------------------------------
(* The number of a step, and its columns *)

LEMMA FrameFacts ==
  ASSUME Frame
  PROVE  /\ Len \in Nat \ {0} /\ was \in Number(Len) /\ Proper(was, Len)
         /\ pub.total \in Nat \ {0} /\ pub.total * DPL \in Nat
         /\ (pub.total - 1) * DPL < Len /\ Len <= pub.total * DPL
         /\ pub.skip \in 0 .. DPL - 1 /\ pub.total * DPL = Len + pub.skip
<1>1. Len \in Nat \ {0} /\ was \in Number(Len) /\ Proper(was, Len)
  BY DEF Frame, IsProper, Proper, Len
<1>2. /\ pub.total \in Nat \ {0} /\ Len <= pub.total * DPL
      /\ (pub.total - 1) * DPL < Len
  BY <1>1, LinesOfDigits DEF Frame
<1>3. pub.total * DPL \in Nat /\ DPL \in Nat \ {0}
  BY <1>2, LineBase
<1>4. pub.total - 1 \in Nat /\ (pub.total - 1) + 1 = pub.total
  BY <1>2
<1>5. (pub.total - 1) * DPL \in Nat /\ pub.total * DPL = (pub.total - 1) * DPL + DPL
  BY <1>4, LineBase
<1>6. pub.skip = pub.total * DPL - Len
  BY DEF Frame
<1>7. pub.skip \in 0 .. DPL - 1 /\ pub.total * DPL = Len + pub.skip
  BY <1>1, <1>2, <1>3, <1>5, <1>6
<1>8. QED BY <1>1, <1>2, <1>3, <1>7

LEMMA OldDigits ==
  ASSUME Frame
  PROVE  \A d \in Int : /\ Old(d) \in Digit
                        /\ d \in 0 .. Len - 1 => Old(d) = was[d]
                        /\ d \notin 0 .. Len - 1 => Old(d) = 0
<1>1. was \in [0 .. Len - 1 -> Digit] /\ 0 \in Digit
  BY FrameFacts DEF Number, Digit
<1>2. QED BY <1>1 DEF Old

LEMMA ColumnFacts ==
  ASSUME Frame
  PROVE  \A d \in 0 .. pub.total * DPL - 1 :
           /\ S[d] = Old(d) + Old(Len - 1 - d)
           /\ S[d] \in 0 .. 18
           /\ d < Len => S[d] = Sums(was, Len)[d]
           /\ d >= Len => S[d] = 0
<1> SUFFICES ASSUME NEW d \in 0 .. pub.total * DPL - 1
             PROVE  /\ S[d] = Old(d) + Old(Len - 1 - d)
                    /\ S[d] \in 0 .. 18
                    /\ d < Len => S[d] = Sums(was, Len)[d]
                    /\ d >= Len => S[d] = 0
  OBVIOUS
<1>1. S[d] = Old(d) + Old(Len - 1 - d)
  BY DEF S
<1>2. Len \in Nat \ {0} /\ d \in Nat /\ d \in Int /\ Len - 1 - d \in Int
  BY FrameFacts
<1>3. /\ Old(d) \in Digit /\ Old(Len - 1 - d) \in Digit
      /\ d \in 0 .. Len - 1 => Old(d) = was[d]
      /\ d \notin 0 .. Len - 1 => Old(d) = 0
      /\ Len - 1 - d \in 0 .. Len - 1 => Old(Len - 1 - d) = was[Len - 1 - d]
      /\ Len - 1 - d \notin 0 .. Len - 1 => Old(Len - 1 - d) = 0
  BY <1>2, OldDigits
<1>4. S[d] \in 0 .. 18
  BY <1>1, <1>3 DEF Digit
<1>5. ASSUME d < Len PROVE S[d] = Sums(was, Len)[d]
  <2>1. d \in 0 .. Len - 1 /\ Len - 1 - d \in 0 .. Len - 1
    BY <1>2, <1>5
  <2>2. QED BY <1>1, <1>3, <2>1 DEF Sums
<1>6. ASSUME d >= Len PROVE S[d] = 0
  <2>1. d \notin 0 .. Len - 1 /\ Len - 1 - d \notin 0 .. Len - 1
    BY <1>2, <1>6
  <2>2. QED BY <1>1, <1>3, <2>1
<1>7. QED BY <1>1, <1>4, <1>5, <1>6

(* A zipped nibble skip_len bytes up is the digit of the reversal. *)
LEMMA FacingIsReversed ==
  ASSUME Frame, NEW d \in Int
  PROVE  Facing(d + pub.skip) = Old(Len - 1 - d)
<1>1. pub.total * DPL = Len + pub.skip /\ Len \in Int /\ pub.skip \in Int
  BY FrameFacts
<1>2. pub.total * DPL - 1 - (d + pub.skip) = Len - 1 - d
  BY <1>1
<1>3. QED BY <1>2 DEF Facing

(* The carries of the columns are those of the number's, and none is left  *)
(* above it.                                                               *)
LEMMA CarriesOfStep ==
  ASSUME Frame
  PROVE  /\ \A d \in 0 .. Len :
              CarryInto(S, 0, d, FALSE) <=> CarryInto(Sums(was, Len), 0, d, FALSE)
         /\ \A d \in Len + 1 .. pub.total * DPL : ~CarryInto(S, 0, d, FALSE)
         /\ PrescanGrow(was, Len) <=> CarryInto(S, 0, Len, FALSE)
<1>1. /\ Len \in Nat \ {0} /\ pub.total * DPL \in Nat /\ Len <= pub.total * DPL
      /\ was \in Number(Len)
      /\ \A d \in 0 .. pub.total * DPL - 1 :
           /\ S[d] \in 0 .. 18
           /\ d < Len => S[d] = Sums(was, Len)[d]
           /\ d >= Len => S[d] = 0
  BY FrameFacts, ColumnFacts
<1>2. ASSUME NEW d \in 0 .. Len
      PROVE  CarryInto(S, 0, d, FALSE) <=> CarryInto(Sums(was, Len), 0, d, FALSE)
  <2>1. d \in Nat /\ 0 \in Nat /\ \A i \in 0 .. d - 1 : S[i] = Sums(was, Len)[i]
    BY <1>1
  <2>2. FALSE \in BOOLEAN
    OBVIOUS
  <2>3. QED BY <2>1, <2>2, CarryOfEqual
<1>3. ASSUME NEW d \in Len + 1 .. pub.total * DPL
      PROVE  ~CarryInto(S, 0, d, FALSE)
  <2>1. d - 1 \in 0 .. pub.total * DPL - 1 /\ d - 1 >= Len /\ d \in Nat /\ d - 1 \in Nat
    BY <1>1
  <2>2. S[d - 1] = 0
    BY <1>1, <2>1
  <2>3. QED BY <2>1, <2>2 DEF CarryInto
<1>4. PrescanGrow(was, Len) <=> CarryInto(S, 0, Len, FALSE)
  <2>1. PrescanGrow(was, Len) <=> CarryInto(Sums(was, Len), 0, Len, FALSE)
    BY <1>1, PrescanExact
  <2>2. Len \in 0 .. Len
    BY <1>1
  <2>3. CarryInto(S, 0, Len, FALSE) <=> CarryInto(Sums(was, Len), 0, Len, FALSE)
    BY <1>2, <2>2
  <2>4. QED BY <2>1, <2>3
<1>5. QED BY <1>2, <1>3, <1>4

LEMMA GeneratedInLimbs ==
  ASSUME NEW x \in Nat, NEW y \in Nat, x <= y
  PROVE  Generated(x .. y - 1) <=> \E d \in x * DPL .. y * DPL - 1 : S[d] > 9
  BY SlotsOfLines DEF Generated

-----------------------------------------------------------------------------
(* Steps of the control alone *)

(* The columns stay as long as the number and the published step do. *)
LEMMA ColumnsStay ==
  ASSUME was' = was, pub' = pub
  PROVE  /\ S' = S /\ Len' = Len /\ Limbs' = Limbs
         /\ \A d : Old(d)' = Old(d) /\ Facing(d)' = Facing(d)
         /\ \A L : Generated(L)' <=> Generated(L)
<1>1. \A d : Old(d)' = Old(d)
  BY DEF Old
<1>2. Len' = Len
  BY DEF Len
<1>3. \A d : Facing(d)' = Facing(d)
  BY <1>1 DEF Facing
<1>4. S' = S
  BY <1>1, <1>2 DEF S
<1>5. \A L : Generated(L)' <=> Generated(L)
  BY <1>4 DEF Generated
<1>6. Limbs' = Limbs
  BY DEF Limbs
<1>7. QED BY <1>1, <1>2, <1>3, <1>4, <1>5, <1>6

LEMMA LimbsStay ==
  ASSUME was' = was, pub' = pub, digit' = digit, mirror' = mirror
  PROVE  /\ \A x : (IsOld(x)' <=> IsOld(x)) /\ (IsZipped(x)' <=> IsZipped(x))
         /\ \A j, x : IsSum(j, x)' <=> IsSum(j, x)
<1>1. \A x : (IsOld(x)' <=> IsOld(x)) /\ (IsZipped(x)' <=> IsZipped(x))
  BY ColumnsStay DEF IsOld, IsZipped
<1>2. \A j, x : IsSum(j, x)' <=> IsSum(j, x)
  BY ColumnsStay DEF IsSum
<1>3. QED BY <1>1, <1>2

Still == UNCHANGED <<digit, mirror, pub, blockCarry, everCarried, call, was, ret, loc>>

LEMMA FrameStays ==
  ASSUME Frame, was' = was, pub' = pub,
         Vector(digit', pub.total + 1), Vector(mirror', pub.total + 1),
         IsOld(pub.total)', IsZipped(pub.total)',
         pc'[0] # "resolve" => call' = [block |-> 0, carry |-> FALSE]
  PROVE  Frame'
  BY ColumnsStay DEF Frame

LEMMA ThreadStays ==
  ASSUME Still, NEW t, pc'[t] = pc[t]
  PROVE  /\ PairsZipped(t)' <=> PairsZipped(t)
         /\ CopiesRight(t)' <=> CopiesRight(t)
         /\ ThreadAdds(t)' <=> ThreadAdds(t)
<1>1. /\ was' = was /\ pub' = pub /\ digit' = digit /\ mirror' = mirror /\ loc' = loc
      /\ blockCarry' = blockCarry
  BY DEF Still
<1>2. PairsZipped(t)' <=> PairsZipped(t)
  BY <1>1, LimbsStay DEF PairsZipped
<1>3. CopiesRight(t)' <=> CopiesRight(t)
  BY <1>1, ColumnsStay DEF CopiesRight
<1>4. BlockOf(t)' = BlockOf(t)
  BY DEF BlockOf
<1>5. \A j : Reached(t, j)' = Reached(t, j)
  BY <1>1, <1>4 DEF Reached
<1>6. \A j : BlockAdded(t, j)' <=> BlockAdded(t, j)
  BY <1>1, <1>5, LimbsStay DEF BlockAdded
<1>7. CarriesRight(t)' <=> CarriesRight(t)
  <2>1. Done(t)' = Done(t)
    BY <1>1, <1>5 DEF Done
  <2>2. QED BY <1>1, <1>4, <2>1, ColumnsStay, ZenonT(60) DEF CarriesRight
<1>8. QED BY <1>2, <1>3, <1>6, <1>7 DEF ThreadAdds

LEMMA DataStill ==
  ASSUME DataInv, Still, InStep' <=> InStep, InStep /\ pc'[0] # "resolve" => pc[0] # "resolve",
         Published' => Published, Summed' => Summed,
         Zipping(0)' => Zipping(0), Copying(0)' => Copying(0), Adding(0)' => Adding(0),
         Zipping(0)' \/ Copying(0)' \/ Adding(0)' => \A t \in Thread : pc'[t] = pc[t]
  PROVE  DataInv'
<1>1. /\ was' = was /\ pub' = pub /\ digit' = digit /\ mirror' = mirror /\ loc' = loc
      /\ blockCarry' = blockCarry /\ call' = call /\ everCarried' = everCarried /\ ret' = ret
  BY DEF Still
<1>2. /\ \A x : (IsOld(x)' <=> IsOld(x)) /\ (IsZipped(x)' <=> IsZipped(x))
      /\ \A j, x : IsSum(j, x)' <=> IsSum(j, x)
  BY <1>1, LimbsStay
<1>3. /\ S' = S /\ Len' = Len /\ Limbs' = Limbs
      /\ \A L : Generated(L)' <=> Generated(L)
  BY <1>1, ColumnsStay
<1>4. ~InStep' => Held'
  BY <1>1 DEF DataInv, Held, Vector
<1>5. InStep' => Frame'
  <2> SUFFICES ASSUME InStep' PROVE Frame'
    OBVIOUS
  <2>1. Frame
    BY DEF DataInv
  <2>2. /\ Vector(digit', pub.total + 1) /\ Vector(mirror', pub.total + 1)
        /\ IsOld(pub.total)' /\ IsZipped(pub.total)'
    BY <1>1, <1>2, <2>1 DEF Frame
  <2>3. pc'[0] # "resolve" => call' = [block |-> 0, carry |-> FALSE]
    BY <1>1, <2>1 DEF Frame
  <2>4. QED BY <1>1, <2>1, <2>2, <2>3, FrameStays
<1>6. Untouched' <=> Untouched
  BY <1>1, <1>2, <1>3 DEF Untouched
<1>7. Zipping(0)' => Untouched' /\ \A t \in Thread : PairsZipped(t)'
  BY <1>6, ThreadStays DEF DataInv
<1>8. Copying(0)' => /\ Untouched' /\ \A x \in Limbs' : IsZipped(x)'
                     /\ \A t \in Thread : CopiesRight(t)'
  BY <1>2, <1>3, <1>6, ThreadStays DEF DataInv
<1>9. Adding(0)' => Flag' /\ \A t \in Thread : ThreadAdds(t)'
  <2> SUFFICES ASSUME Adding(0)' PROVE Flag' /\ \A t \in Thread : ThreadAdds(t)'
    OBVIOUS
  <2>1. \A t \in Thread : ThreadAdds(t)'
    BY ThreadStays DEF DataInv
  <2>2. \A t \in Thread : pc'[t] = pc[t] /\ OwnLines(t, pub.block)' = OwnLines(t, pub.block)
    BY <1>1
  <2>3. Flag'
    BY <1>1, <1>3, <2>2 DEF DataInv, Flag
  <2>4. QED BY <2>1, <2>3
<1>10. Summed' => Resolving'
  <2>1. \A j : BlockLimbs(j)' = BlockLimbs(j)
    BY <1>1 DEF BlockLimbs
  <2>2. QED BY <1>1, <1>2, <1>3, <2>1 DEF DataInv, Resolving
<1>11. QED BY <1>1, <1>4, <1>5, <1>6, <1>7, <1>8, <1>9, <1>10 DEF DataInv

LEMMA DataControl ==
  ASSUME StageInv, DataInv,
         \/ \E t \in Thread : Arrive(t) \/ Exit(t) \/ Rejoin(t)
         \/ Drop \/ LeaveDrop \/ Join \/ Dropped \/ UNCHANGED vars
  PROVE  DataInv'
<1> USE DEF Still, InStep, Published, Summed, Zipping, Copying, Adding, StageInv, Control
<1>1. CASE \E t \in Thread : Arrive(t)
  <2>1. PICK t \in Thread : Arrive(t)
    BY <1>1
  <2>2. /\ Still /\ pc' = pc /\ stop' = stop
        /\ phase[t] = "outside" /\ phase' = [phase EXCEPT ![t] = "waiting"]
    BY <2>1 DEF Arrive, TheBarrier!Arrive, limbs, shared, caller
  <2>3. /\ phase'[0] = "released" <=> phase[0] = "released"
        /\ phase'[0] \in {"outside", "waiting"} => phase[0] \in {"outside", "waiting"}
        /\ phase'[0] = "outside" => phase[0] = "outside"
    BY <2>2, CoordinatorIsAThread
  <2>4. QED BY <2>2, <2>3, DataStill
<1>2. CASE \E t \in Thread : Exit(t)
  <2>1. PICK t \in Thread : Exit(t)
    BY <1>2
  <2>2. /\ Still /\ t # 0 /\ pc' = [pc EXCEPT ![t] = "exited"] /\ stop /\ stop' = stop
        /\ phase' = [phase EXCEPT ![t] = "outside"] /\ pc[t] = "start" /\ phase[t] = "released"
    BY <2>1 DEF Exit, Goto, TheBarrier!Leave, limbs, shared, caller
  <2>3. pc'[0] = pc[0] /\ phase'[0] = phase[0]
    BY <2>2, CoordinatorIsAThread
  <2>4. Ended0
    BY <2>2, StageOf DEF Leaving
  <2>5. ~Zipping(0)' /\ ~Copying(0)' /\ ~Adding(0)'
    BY <2>3, <2>4 DEF Ended0
  <2>6. QED BY <2>2, <2>3, <2>5, DataStill
<1>3. CASE \E t \in Thread : Rejoin(t)
  <2>1. PICK t \in Thread : Rejoin(t)
    BY <1>3
  <2>2. /\ Still /\ pc' = [pc EXCEPT ![t] = IF t = 0 THEN "resolve" ELSE "start"]
        /\ stop' = stop
        /\ phase' = [phase EXCEPT ![t] = "outside"] /\ pc[t] = "added" /\ phase[t] = "released"
    BY <2>1 DEF Rejoin, Goto, TheBarrier!Leave, limbs, shared, caller
  <2>3. Alone0
    BY <2>2, StageOf DEF Between, Alone0
  <2>4. CASE t = 0
    <3>1. pc'[0] = "resolve" /\ phase'[0] = "outside" /\ pc[0] = "added" /\ phase[0] = "released"
      BY <2>2, <2>4, CoordinatorIsAThread
    <3>2. QED BY <2>2, <3>1, DataStill
  <2>5. CASE t # 0
    <3>1. pc'[0] = pc[0] /\ phase'[0] = phase[0]
      BY <2>2, <2>5, CoordinatorIsAThread
    <3>2. ~Zipping(0)' /\ ~Copying(0)' /\ ~Adding(0)'
      BY <2>3, <3>1 DEF Alone0
    <3>3. QED BY <2>2, <3>1, <3>2, DataStill
  <2>6. QED BY <2>4, <2>5
<1>4. CASE Drop \/ LeaveDrop \/ Join
  <2>1. /\ Still /\ pc[0] \in {"call", "drop", "join"}
        /\ pc'[0] \in {"drop", "join", "dropped"}
    BY <1>4, CoordinatorIsAThread DEF Drop, LeaveDrop, Join, Goto, limbs, shared, caller
  <2>2. QED BY <2>1, DataStill
<1>5. CASE Dropped \/ UNCHANGED vars
  <2>1. Still /\ pc' = pc /\ phase' = phase /\ stop' = stop
    BY <1>5 DEF Dropped, vars, limbs
  <2>2. QED BY <2>1, DataStill
<1>6. QED BY <1>1, <1>2, <1>3, <1>4, <1>5

(* The coordinator's other half of a stage. *)
LEMMA CoordinatorStage ==
  ASSUME StageInv
  PROVE  /\ Zipping(0) \/ Copying(0) \/ Adding(0) => InStep /\ ~Published /\ ~Summed
         /\ Zipping(0) => ~Copying(0) /\ ~Adding(0)
         /\ Copying(0) => ~Adding(0)
         /\ \A t \in Thread : /\ Zipping(t) => Zipping(0)
                              /\ Copying(t) => Copying(0)
                              /\ Adding(t) => Adding(0)
<1>1. \A t \in Thread : /\ Zipping(t) => Zipping(0)
                        /\ Copying(t) => Copying(0)
                        /\ Adding(t) => Adding(0)
  BY StageOf, CoordinatorIsAThread
<1>2. QED BY <1>1 DEF InStep, Published, Summed, Zipping, Copying, Adding

(* A step of thread t within the stage of zipping. *)
LEMMA DataZips ==
  ASSUME StageInv, StageInv', DataInv, NEW t \in Thread, Zipping(t), Zipping(t)',
         UNCHANGED <<digit, pub, blockCarry, everCarried, was, ret>>,
         Frame', PairsZipped(t)',
         \A u \in Thread \ {t} : PairsZipped(u)'
  PROVE  DataInv'
<1>1. Zipping(0)
  BY CoordinatorStage
<1>2. Zipping(0)'
  BY CoordinatorIsAThread
  DEF StageInv, Control, Stages, Alone0, Ended0, Between, Zipping, Copying, Adding,
      Leaving, Worker
<1>3. /\ InStep' /\ ~Published' /\ ~Summed' /\ ~Copying(0)' /\ ~Adding(0)'
  BY <1>2 DEF InStep, Published, Summed, Copying, Adding, Zipping
<1>4. Untouched'
  BY <1>1, ColumnsStay DEF DataInv, Untouched, IsOld
<1>5. QED BY <1>2, <1>3, <1>4 DEF DataInv

LEMMA DataEnter ==
  ASSUME StageInv, StageInv', PlaceInv, DataInv, NEW t \in Thread, Enter(t)
  PROVE  DataInv'
<1>1. /\ pc[t] = "start" /\ phase[t] = "released" /\ ~(stop /\ t # 0)
      /\ pc' = [pc EXCEPT ![t] = "zip"] /\ phase' = [phase EXCEPT ![t] = "outside"]
      /\ loc' = [loc EXCEPT ![t] = [NoLoc EXCEPT !.at = pub.zip[t]]]
      /\ UNCHANGED <<digit, mirror, pub, blockCarry, everCarried, call, was, ret, stop>>
  BY DEF Enter, Goto, TheBarrier!Leave, limbs, shared, caller
<1>2. Zipping(t) /\ Zipping(0) /\ \A u \in Thread : Zipping(u)
  BY <1>1, StageAt, StageOf, CoordinatorIsAThread
<1>3. pc'[t] = "zip" /\ phase'[t] = "outside" /\ loc'[t].at = pub.zip[t]
  BY <1>1 DEF StageInv, Control, PlaceInv, Shape, NoLoc
<1>4. Zipping(t)'
  BY <1>3 DEF Zipping
<1>5. PairsZipped(t)'
  <2>1. pub.zip'[t] \in Nat
    BY <1>1, BoundsOfThread DEF PlaceInv
  <2>2. QED BY <1>1, <1>3, <2>1 DEF PairsZipped
<1>6. ASSUME NEW u \in Thread \ {t} PROVE PairsZipped(u)'
  <2>1. pc'[u] = pc[u] /\ loc'[u] = loc[u]
    BY <1>1 DEF StageInv, Control, PlaceInv, Shape
  <2>2. PairsZipped(u)
    BY <1>2 DEF DataInv
  <2>3. QED BY <1>1, <2>1, <2>2, LimbsStay DEF PairsZipped
<1>7. Frame'
  <2>1. Frame /\ pc[0] # "resolve"
    BY <1>2, CoordinatorStage DEF DataInv, Zipping
  <2>2. call = [block |-> 0, carry |-> FALSE]
    BY <2>1 DEF Frame
  <2>3. /\ Vector(digit', pub.total + 1) /\ Vector(mirror', pub.total + 1)
        /\ IsOld(pub.total)' /\ IsZipped(pub.total)'
    BY <1>1, <2>1, LimbsStay DEF Frame
  <2>4. QED BY <1>1, <2>1, <2>2, <2>3, FrameStays
<1>8. QED BY <1>1, <1>2, <1>4, <1>5, <1>6, <1>7, DataZips

(* A slot lies in one limb, and its mirror image in the mirrored one. *)
LEMMA SlotOfLimb ==
  ASSUME NEW x \in Nat, NEW d \in LineSlots(x)
  PROVE  d \in Nat /\ d \div DPL = x
<1>1. d \in Nat /\ x * DPL <= d /\ d < (x + 1) * DPL /\ x * DPL \in Nat /\ x + 1 \in Nat
  BY LineBase
<1>2. d \div DPL \in Nat /\ ~(d \div DPL < x) /\ d \div DPL < x + 1
  BY <1>1, LineOfSlot
<1>3. QED BY <1>1, <1>2

LEMMA MirrorSlot ==
  ASSUME NEW n \in Nat, NEW x \in 0 .. n - 1, NEW d \in LineSlots(x)
  PROVE  n - 1 - x \in 0 .. n - 1 /\ n * DPL - 1 - d \in LineSlots(n - 1 - x)
<1> DEFINE y == n - 1 - x
<1>1. y \in Nat /\ y \in 0 .. n - 1 /\ x \in Nat /\ n = (x + 1) + y /\ x + 1 \in Nat
  OBVIOUS
<1>2. /\ d \in Nat /\ x * DPL <= d /\ d < (x + 1) * DPL /\ DPL \in Nat
      /\ (x + 1) * DPL = x * DPL + DPL /\ x * DPL \in Nat
      /\ (y + 1) * DPL = y * DPL + DPL /\ y * DPL \in Nat
  BY <1>1, LineBase
<1>3. n * DPL = x * DPL + DPL + y * DPL
  <2>1. \A a, b, c \in Int : (a + b) * c = a * c + b * c
    OBVIOUS
  <2>2. ((x + 1) + y) * DPL = (x + 1) * DPL + y * DPL
    BY <1>1, <1>2, <2>1
  <2>3. QED BY <1>1, <1>2, <2>2
<1> HIDE DEF y
<1>4. n * DPL - 1 - d \in y * DPL .. (y + 1) * DPL - 1
  BY <1>2, <1>3
<1>5. QED BY <1>1, <1>4 DEF y, LineSlots

(* A pair of limbs takes each other's digits, and no other limb changes.   *)
LEMMA PairZipped ==
  ASSUME Frame, \A x \in Limbs : IsOld(x), NEW i \in Limbs, pub' = pub, was' = was,
         mirror' = [d \in DOMAIN mirror |->
           IF d \div LV_LEN \in {i, pub.total - 1 - i}
           THEN digit[pub.total * LV_LEN - 1 - d] ELSE mirror[d]]
  PROVE  /\ IsZipped(i)' /\ IsZipped(pub.total - 1 - i)'
         /\ \A x \in 0 .. pub.total : IsZipped(x) => IsZipped(x)'
<1> DEFINE k == pub.total - 1 - i
<1>1. /\ pub.total \in Nat \ {0} /\ i \in 0 .. pub.total - 1 /\ k \in 0 .. pub.total - 1
      /\ i \in 0 .. pub.total /\ k \in 0 .. pub.total
      /\ pub.total - 1 - k = i /\ pub.total \notin {i, k}
  BY FrameFacts DEF Limbs
<1>2. ASSUME NEW x \in 0 .. pub.total, NEW d \in LineSlots(x)
      PROVE  /\ d \in DOMAIN mirror /\ d \div DPL = x
             /\ mirror'[d] = IF x \in {i, k} THEN digit[pub.total * DPL - 1 - d] ELSE mirror[d]
  <2>1. x \in Nat /\ pub.total + 1 \in Nat /\ 0 \in Nat /\ x \in 0 .. (pub.total + 1) - 1
    BY <1>1
  <2>2. d \in 0 * DPL .. (pub.total + 1) * DPL - 1
    BY <1>1, <2>1, SlotsOfLines
  <2>3. 0 * DPL = 0
    BY LineMultiple
  <2>4. d \in DOMAIN mirror
    BY <2>2, <2>3 DEF Frame, Vector
  <2>5. d \div DPL = x
    BY <2>1, SlotOfLimb
  <2>6. QED BY <2>4, <2>5 DEF LV_LEN
<1>3. ASSUME NEW x \in {i, k} PROVE IsZipped(x)'
  <2>1. x \in 0 .. pub.total - 1 /\ x \in 0 .. pub.total /\ pub.total - 1 - x \in {i, k}
    BY <1>1
  <2>2. ASSUME NEW d \in LineSlots(x) PROVE mirror'[d] = Facing(d)
    <3>1. /\ pub.total - 1 - x \in 0 .. pub.total - 1
          /\ pub.total * DPL - 1 - d \in LineSlots(pub.total - 1 - x)
      BY <1>1, <2>1, MirrorSlot
    <3>2. digit[pub.total * DPL - 1 - d] = Old(pub.total * DPL - 1 - d)
      BY <3>1 DEF Limbs, IsOld
    <3>3. QED BY <1>2, <2>1, <3>2 DEF Facing
  <2>3. QED BY <2>2, ColumnsStay DEF IsZipped
<1>4. ASSUME NEW x \in 0 .. pub.total, IsZipped(x) PROVE IsZipped(x)'
  <2>1. CASE x \in {i, k}
    BY <1>3, <2>1
  <2>2. CASE x \notin {i, k}
    BY <1>2, <1>4, <2>2, ColumnsStay DEF IsZipped
  <2>3. QED BY <2>1, <2>2
<1>5. QED BY <1>3, <1>4 DEF k

LEMMA DataZipPair ==
  ASSUME StageInv, StageInv', PlaceInv, DataInv, NEW t \in Thread, ZipPair(t)
  PROVE  DataInv'
<1>0. PICK i : i = loc[t].at
  OBVIOUS
<1>1. /\ pc[t] = "zip" /\ i < pub.zip[t + 1] /\ loc' = [loc EXCEPT ![t].at = i + 1]
      /\ mirror' = [d \in DOMAIN mirror |->
           IF d \div LV_LEN \in {i, pub.total - 1 - i}
           THEN digit[pub.total * LV_LEN - 1 - d] ELSE mirror[d]]
      /\ UNCHANGED <<digit, pub, blockCarry, everCarried, stop, phase, pc, call, was, ret>>
  BY <1>0 DEF ZipPair, shared, caller
<1>2. Zipping(t) /\ Zipping(0) /\ \A u \in Thread : Zipping(u)
  BY <1>1, StageAt, StageOf, CoordinatorIsAThread
<1>3. Zipping(t)' /\ InStep
  BY <1>1, <1>2, CoordinatorStage DEF Zipping
<1>4. Frame /\ (\A x \in Limbs : IsOld(x)) /\ \A u \in Thread : PairsZipped(u)
  BY <1>2, <1>3 DEF DataInv, Untouched
<1>5. /\ pub.total \in Nat \ {0} /\ pub.zip[t] \in Nat /\ pub.zip[t + 1] \in Nat
      /\ i \in pub.zip[t] .. pub.zip[t + 1]
      /\ \A u \in Thread : /\ pub.zip[u] \in Nat /\ pub.zip[u + 1] \in Nat
                           /\ pub.zip[u + 1] <= DivCeil(pub.total, 2)
                           /\ pc[u] = "zip" => loc[u].at \in pub.zip[u] .. pub.zip[u + 1]
  BY <1>0, <1>1, <1>4, FrameFacts, BoundsOfThread DEF PlaceInv, AtPlace
<1>6. DivCeil(pub.total, 2) \in Nat /\ DivCeil(pub.total, 2) <= pub.total
  BY <1>5 DEF DivCeil
<1>7. ASSUME NEW u \in Thread, NEW x \in pub.zip[u] .. pub.zip[u + 1] - 1
      PROVE  x \in 0 .. pub.total - 1 /\ pub.total - 1 - x \in 0 .. pub.total - 1
  BY <1>5, <1>6
<1>8. i \in Limbs /\ i \in pub.zip[t] .. pub.zip[t + 1] - 1
  BY <1>1, <1>5, <1>7 DEF Limbs
<1>9. /\ IsZipped(i)' /\ IsZipped(pub.total - 1 - i)'
      /\ \A x \in 0 .. pub.total : IsZipped(x) => IsZipped(x)'
  BY <1>1, <1>4, <1>8, PairZipped
<1>10. ASSUME NEW u \in Thread, NEW x \in pub.zip[u] .. pub.zip[u + 1] - 1,
              IsZipped(x), IsZipped(pub.total - 1 - x)
       PROVE  IsZipped(x)' /\ IsZipped(pub.total - 1 - x)'
  <2>1. x \in 0 .. pub.total /\ pub.total - 1 - x \in 0 .. pub.total
    BY <1>5, <1>7
  <2>2. QED BY <1>1, <1>9, <1>10, <2>1
<1>11. loc'[t].at = i + 1 /\ \A u \in Thread \ {t} : loc'[u] = loc[u]
  BY <1>1 DEF PlaceInv, Shape
<1>12. PairsZipped(t)'
  <2>1. ASSUME NEW x \in pub.zip[t] .. loc'[t].at - 1
        PROVE  IsZipped(x)' /\ IsZipped(pub.total - 1 - x)'
    <3>1. CASE x = i
      BY <1>1, <1>9, <3>1
    <3>2. CASE x # i
      <4>1. x \in pub.zip[t] .. i - 1 /\ x \in pub.zip[t] .. pub.zip[t + 1] - 1
        BY <1>0, <1>5, <1>8, <1>11, <3>2
      <4>2. IsZipped(x) /\ IsZipped(pub.total - 1 - x)
        BY <1>0, <1>1, <1>4, <4>1 DEF PairsZipped
      <4>3. QED BY <1>10, <4>1, <4>2
    <3>3. QED BY <3>1, <3>2
  <2>2. pub' = pub /\ pc'[t] = "zip" /\ loc'[t].at = i + 1
    BY <1>1, <1>11
  <2>3. QED BY <2>1, <2>2 DEF PairsZipped
<1>13. ASSUME NEW u \in Thread \ {t} PROVE PairsZipped(u)'
  <2>1. pub' = pub /\ pc'[u] = pc[u] /\ loc'[u] = loc[u]
    BY <1>1, <1>11
  <2>2. ASSUME pc[u] = "zip", NEW x \in pub.zip[u] .. loc[u].at - 1
        PROVE  IsZipped(x)' /\ IsZipped(pub.total - 1 - x)'
    <3>1. IsZipped(x) /\ IsZipped(pub.total - 1 - x)
      BY <1>4, <2>2 DEF PairsZipped
    <3>2. x \in pub.zip[u] .. pub.zip[u + 1] - 1
      BY <1>5, <2>2
    <3>3. QED BY <1>10, <3>1, <3>2
  <2>3. ASSUME pc[u] = "zipped", NEW x \in pub.zip[u] .. pub.zip[u + 1] - 1
        PROVE  IsZipped(x)' /\ IsZipped(pub.total - 1 - x)'
    <3>1. IsZipped(x) /\ IsZipped(pub.total - 1 - x)
      BY <1>4, <2>3 DEF PairsZipped
    <3>2. QED BY <1>10, <3>1
  <2>4. QED BY <2>1, <2>2, <2>3 DEF PairsZipped
<1>14. Frame'
  <2>1. Vector(digit', pub.total + 1) /\ Vector(mirror', pub.total + 1)
    BY <1>1, <1>4 DEF Frame, Vector
  <2>2. IsOld(pub.total)' /\ IsZipped(pub.total)'
    <3>1. IsOld(pub.total) /\ IsZipped(pub.total) /\ pub.total \in 0 .. pub.total
      BY <1>4, <1>5 DEF Frame
    <3>2. QED BY <1>1, <1>9, <3>1, ColumnsStay DEF IsOld
  <2>3. pc'[0] # "resolve" => call' = [block |-> 0, carry |-> FALSE]
    BY <1>1, <1>4 DEF Frame
  <2>4. QED BY <1>1, <1>4, <2>1, <2>2, <2>3, FrameStays
<1>15. QED BY <1>1, <1>2, <1>3, <1>12, <1>13, <1>14, DataZips

LEMMA DataEndZip ==
  ASSUME StageInv, StageInv', PlaceInv, DataInv, NEW t \in Thread, EndZip(t)
  PROVE  DataInv'
<1>1. /\ pc[t] = "zip" /\ loc[t].at = pub.zip[t + 1] /\ pc' = [pc EXCEPT ![t] = "zipped"]
      /\ UNCHANGED <<digit, mirror, pub, blockCarry, everCarried, stop, phase, call, was, ret,
                     loc>>
  BY DEF EndZip, Goto, limbs, shared, caller
<1>2. Zipping(t) /\ phase[t] = "outside" /\ Zipping(0) /\ \A u \in Thread : Zipping(u)
  BY <1>1, StageAt, StageOf, CoordinatorIsAThread
<1>3. pc'[t] = "zipped" /\ \A u \in Thread \ {t} : pc'[u] = pc[u]
  BY <1>1 DEF StageInv, Control
<1>4. Zipping(t)' /\ InStep /\ pc[0] # "resolve"
  BY <1>1, <1>2, <1>3, CoordinatorStage DEF Zipping
<1>5. Frame /\ \A u \in Thread : PairsZipped(u)
  BY <1>2, <1>4 DEF DataInv
<1>6. PairsZipped(t)'
  BY <1>1, <1>3, <1>5, LimbsStay DEF PairsZipped
<1>7. ASSUME NEW u \in Thread \ {t} PROVE PairsZipped(u)'
  BY <1>1, <1>3, <1>5, LimbsStay DEF PairsZipped
<1>8. Frame'
  <2>1. call = [block |-> 0, carry |-> FALSE]
    BY <1>4, <1>5 DEF Frame
  <2>2. /\ Vector(digit', pub.total + 1) /\ Vector(mirror', pub.total + 1)
        /\ IsOld(pub.total)' /\ IsZipped(pub.total)'
    BY <1>1, <1>5, LimbsStay DEF Frame
  <2>3. QED BY <1>1, <1>5, <2>1, <2>2, FrameStays
<1>9. QED BY <1>1, <1>2, <1>4, <1>6, <1>7, <1>8, DataZips

(* The bytes of a limb are its slots. *)
LEMMA ByteSlots ==
  ASSUME NEW x \in Nat
  PROVE  /\ \A p \in Lanes : Byte(x, p) \in LineSlots(x) /\ Byte(x, p) \in Nat
         /\ \A d \in LineSlots(x) : d - x * DPL \in Lanes /\ d = Byte(x, d - x * DPL)
<1>1. x * DPL \in Nat /\ (x + 1) * DPL = x * DPL + DPL /\ DPL \in Nat \ {0}
  BY LineBase
<1>2. QED BY <1>1 DEF Byte, Lanes, LV_LEN, LineSlots

LEMMA DataCopy ==
  ASSUME StageInv, StageInv', PlaceInv, DataInv, NEW t \in Thread, Copy(t)
  PROVE  DataInv'
<1>1. /\ pc[t] = "zipped" /\ phase[t] = "released"
      /\ pc' = [pc EXCEPT ![t] = "copied"] /\ phase' = [phase EXCEPT ![t] = "outside"]
      /\ loc' = [loc EXCEPT ![t].copy = [j \in {t, HighBlock(t)} |-> LimbAbove(j)]]
      /\ UNCHANGED <<digit, mirror, pub, blockCarry, everCarried, stop, call, was, ret>>
  BY DEF Copy, Goto, TheBarrier!Leave, limbs, shared, caller
<1>2. Copying(t) /\ Copying(0)
  BY <1>1, StageAt, CoordinatorStage
<1>3. /\ pc'[t] = "copied" /\ phase'[t] = "outside"
      /\ loc'[t].copy = [j \in {t, HighBlock(t)} |-> LimbAbove(j)]
      /\ \A u \in Thread \ {t} : pc'[u] = pc[u] /\ loc'[u] = loc[u]
  BY <1>1 DEF StageInv, Control, PlaceInv, Shape
<1>4. Copying(0)'
  <2>1. Copying(t)'
    BY <1>3 DEF Copying
  <2>2. QED BY <2>1, CoordinatorIsAThread
    DEF StageInv, Control, Stages, Alone0, Ended0, Between, Zipping, Copying, Adding,
        Leaving, Worker
<1>5. /\ InStep /\ pc[0] # "resolve" /\ InStep' /\ ~Published' /\ ~Summed'
      /\ ~Zipping(0)' /\ ~Adding(0)'
  BY <1>2, <1>4 DEF InStep, Published, Summed, Zipping, Adding, Copying
<1>6. Frame /\ Untouched /\ (\A x \in Limbs : IsZipped(x)) /\ \A u \in Thread : CopiesRight(u)
  BY <1>2, <1>5 DEF DataInv
<1>7. CopiesRight(t)'
  <2>1. ASSUME NEW j \in {t, HighBlock(t)}, NEW p \in Lanes
        PROVE  loc'[t].copy[j][p] = Facing(Byte(pub.block[j + 1], p))
    <3>1. loc'[t].copy[j][p] = mirror[Byte(pub.block[j + 1], p)]
      BY <1>3, <2>1 DEF LimbAbove
    <3>2. pub.block[j + 1] \in Nat /\ pub.block[j + 1] <= pub.total /\ pub.total \in Nat
      BY <1>6, BoundsOfThread, FrameFacts DEF PlaceInv
    <3>3. IsZipped(pub.block[j + 1])
      <4>1. pub.block[j + 1] = pub.total \/ pub.block[j + 1] \in 0 .. pub.total - 1
        BY <3>2
      <4>2. IsZipped(pub.total)
        BY <1>6 DEF Frame
      <4>3. CASE pub.block[j + 1] = pub.total
        BY <4>2, <4>3
      <4>4. CASE pub.block[j + 1] \in 0 .. pub.total - 1
        BY <1>6, <4>4 DEF Limbs
      <4>5. QED BY <4>1, <4>3, <4>4
    <3>4. Byte(pub.block[j + 1], p) \in LineSlots(pub.block[j + 1])
      BY <3>2, ByteSlots
    <3>5. QED BY <3>1, <3>3, <3>4 DEF IsZipped
  <2>2. \A d : Facing(d)' = Facing(d)
    BY <1>1, ColumnsStay
  <2>3. pub' = pub
    BY <1>1
  <2>4. QED BY <2>1, <2>2, <2>3 DEF CopiesRight
<1>8. ASSUME NEW u \in Thread \ {t} PROVE CopiesRight(u)'
  BY <1>1, <1>3, <1>6, ColumnsStay DEF CopiesRight
<1>9. Untouched' /\ \A x \in Limbs' : IsZipped(x)'
  BY <1>1, <1>6, ColumnsStay, LimbsStay DEF Untouched
<1>10. Frame'
  <2>1. call = [block |-> 0, carry |-> FALSE]
    BY <1>5, <1>6 DEF Frame
  <2>2. /\ Vector(digit', pub.total + 1) /\ Vector(mirror', pub.total + 1)
        /\ IsOld(pub.total)' /\ IsZipped(pub.total)'
    BY <1>1, <1>6, LimbsStay DEF Frame
  <2>3. QED BY <1>1, <1>6, <2>1, <2>2, FrameStays
<1>11. QED BY <1>1, <1>5, <1>7, <1>8, <1>9, <1>10 DEF DataInv

-----------------------------------------------------------------------------
(* Adding: the operands *)

LEMMA ReachedWithin ==
  ASSUME Shared, NEW t \in Thread, AtPlace(t), NEW j \in {t, HighBlock(t)}
  PROVE  /\ Reached(t, j) \in pub.block[j] .. pub.block[j + 1]
         /\ pub.block[j] \in Nat /\ pub.block[j + 1] \in Nat /\ pub.block[j + 1] <= pub.total
         /\ pub.block[j] .. pub.block[j + 1] - 1 \subseteq OwnLines(t, pub.block)
         /\ OwnLines(t, pub.block) \subseteq Limbs
<1>1. \A k \in {t, HighBlock(t)} :
        /\ pub.block[k] \in Nat /\ pub.block[k + 1] \in Nat
        /\ pub.block[k] <= pub.block[k + 1] /\ pub.block[k + 1] <= pub.total
  BY BoundsOfThread
<1>2. pub.total \in Nat
  BY DEF Shared
<1>3. Reached(t, j) \in pub.block[j] .. pub.block[j + 1]
  BY <1>1 DEF Reached, AtPlace
<1>4. pub.block[j] .. pub.block[j + 1] - 1 \subseteq OwnLines(t, pub.block)
  BY DEF OwnLines
<1>5. OwnLines(t, pub.block) \subseteq Limbs
  BY <1>1, <1>2 DEF OwnLines, Limbs
<1>6. QED BY <1>1, <1>3, <1>4, <1>5

(* Whatever has been overwritten by then, the operands of the next limb    *)
(* are the digits of the number as it was and of its reversal.             *)
LEMMA OperandsRight ==
  ASSUME Frame, Shared, NEW t \in Thread, AtPlace(t), ThreadAdds(t), pc[t] \in {"low", "high"},
         loc[t].at < pub.block[BlockOf(t) + 1], NEW i, i = loc[t].at, NEW p \in Lanes
  PROVE  /\ i \in Limbs
         /\ digit[Byte(i, p)] = Old(Byte(i, p))
         /\ Operand(t, p) = Old(Len - 1 - Byte(i, p))
<1>1. PICK j \in {t, HighBlock(t)} : j = BlockOf(t)
  BY DEF BlockOf
<1>2. /\ i \in Nat /\ i \in pub.block[j] .. pub.block[j + 1] /\ i < pub.block[j + 1]
      /\ pub.block[j] \in Nat /\ pub.block[j + 1] \in Nat /\ pub.block[j + 1] <= pub.total
      /\ pub.total \in Nat
  BY <1>1, BoundsOfThread DEF AtPlace, Shared
<1>3. Reached(t, j) = i
  BY <1>1, Blocks DEF Reached, BlockOf
<1>4. \A x \in i .. pub.block[j + 1] - 1 : IsOld(x) /\ IsZipped(x)
  BY <1>1, <1>3 DEF ThreadAdds, BlockAdded
<1>5. /\ i \in Limbs /\ IsOld(i) /\ IsZipped(i)
      /\ i + 1 < pub.block[j + 1] => IsZipped(i + 1)
  BY <1>2, <1>4 DEF Limbs
<1>6. digit[Byte(i, p)] = Old(Byte(i, p))
  BY <1>2, <1>5, ByteSlots DEF IsOld
<1>7. DPL \in Nat \ {0} /\ p \in 0 .. DPL - 1 /\ pub.skip \in 0 .. DPL - 1
      /\ i * DPL \in Nat /\ (i + 1) * DPL = i * DPL + DPL
  BY <1>2, FrameFacts, LineBase DEF Lanes, LV_LEN
<1>8. Byte(i, p) \in Int /\ Byte(i, p) + pub.skip = Byte(i, p + pub.skip)
  BY <1>7 DEF Byte, LV_LEN
<1>9. Facing(Byte(i, p + pub.skip)) = Old(Len - 1 - Byte(i, p))
  BY <1>8, FacingIsReversed
<1>10. CASE p + pub.skip < DPL
  <2>1. Operand(t, p) = mirror[Byte(i, p + pub.skip)]
    BY <1>10 DEF Operand, LV_LEN
  <2>2. p + pub.skip \in Lanes
    BY <1>7, <1>10 DEF Lanes, LV_LEN
  <2>3. QED BY <1>2, <1>5, <1>6, <1>9, <2>1, <2>2, ByteSlots DEF IsZipped
<1>11. CASE p + pub.skip >= DPL
  <2>1. p + pub.skip - DPL \in Lanes /\ Byte(i, p + pub.skip) = Byte(i + 1, p + pub.skip - DPL)
        /\ i + 1 \in Nat /\ ~(p + pub.skip < DPL)
    BY <1>2, <1>7, <1>11 DEF Lanes, LV_LEN, Byte
  <2>2. Byte(i + 1, p + pub.skip - DPL) \in LineSlots(i + 1)
    BY <2>1, ByteSlots
  <2>3. CASE i + 1 < pub.block[j + 1]
    <3>1. Operand(t, p) = mirror[Byte(i, p + pub.skip)]
      BY <1>1, <2>3 DEF Operand
    <3>2. QED BY <1>5, <1>6, <1>9, <2>1, <2>2, <2>3, <3>1 DEF IsZipped
  <2>4. CASE ~(i + 1 < pub.block[j + 1])
    <3>1. pub.block[j + 1] = i + 1
      BY <1>2, <2>4
    <3>2. Operand(t, p) = loc[t].copy[j][p + pub.skip - DPL]
      BY <1>1, <2>1, <2>4 DEF Operand, LV_LEN
    <3>3. loc[t].copy[j][p + pub.skip - DPL] = Facing(Byte(i + 1, p + pub.skip - DPL))
      BY <1>1, <2>1, <3>1 DEF ThreadAdds, CopiesRight
    <3>4. QED BY <1>5, <1>6, <1>9, <2>1, <3>2, <3>3
  <2>5. QED BY <2>3, <2>4
<1>12. QED BY <1>7, <1>10, <1>11

(* Carries do not depend on where the columns are counted from. *)
Shifted(s, r, base, n) == \A p \in 0 .. n - 1 : s[p] = r[base + p]

LEMMA CarryShift ==
  ASSUME NEW s, NEW r, NEW base \in Nat, NEW n \in Nat, Shifted(s, r, base, n),
         NEW c \in BOOLEAN, NEW p \in 0 .. n
  PROVE  CarryInto(s, 0, p, c) <=> CarryInto(r, base, base + p, c)
<1>1. \A j \in 0 .. p - 1 : base + j \in base .. base + p - 1 /\ s[j] = r[base + j]
  BY DEF Shifted
<1>2. \A j \in base .. base + p - 1 : /\ j - base \in 0 .. p - 1 /\ base + (j - base) = j
                                      /\ s[j - base] = r[j]
  BY DEF Shifted
<1>3. (\A j \in 0 .. p - 1 : s[j] = 9) <=> (\A j \in base .. base + p - 1 : r[j] = 9)
  BY <1>1, <1>2
<1>4. ASSUME NEW j \in 0 .. p - 1, s[j] > 9, \A i \in j + 1 .. p - 1 : s[i] = 9
      PROVE  r[base + j] > 9 /\ \A i \in base + j + 1 .. base + p - 1 : r[i] = 9
  <2>1. \A i \in base + j + 1 .. base + p - 1 : i - base \in j + 1 .. p - 1 /\ i \in base .. base + p - 1
    OBVIOUS
  <2>2. QED BY <1>1, <1>2, <1>4, <2>1
<1>5. ASSUME NEW j \in base .. base + p - 1, r[j] > 9, \A i \in j + 1 .. base + p - 1 : r[i] = 9
      PROVE  s[j - base] > 9 /\ \A i \in j - base + 1 .. p - 1 : s[i] = 9
  <2>1. \A i \in j - base + 1 .. p - 1 : base + i \in j + 1 .. base + p - 1 /\ i \in 0 .. p - 1
    OBVIOUS
  <2>2. QED BY <1>1, <1>2, <1>5, <2>1
<1>6. QED BY <1>1, <1>2, <1>3, <1>4, <1>5 DEF CarryInto

(* The columns of the limb a thread is at, as it reads them. *)
LimbSum(t) == [p \in Lanes |-> digit[Byte(loc[t].at, p)] + Operand(t, p)]

LEMMA LimbCarries ==
  ASSUME Frame, Shared, NEW t \in Thread, AtPlace(t), ThreadAdds(t), pc[t] \in {"low", "high"},
         loc[t].at < pub.block[BlockOf(t) + 1], NEW i, i = loc[t].at,
         NEW s, s = LimbSum(t)
  PROVE  /\ \A p \in Lanes : s[p] = S[Byte(i, p)] /\ s[p] \in 0 .. 18
         /\ \A p \in 0 .. DPL : CarryInto(s, 0, p, loc[t].carry)
              <=> CarryInto(S, pub.block[BlockOf(t)] * DPL, i * DPL + p, FALSE)
<1>1. PICK j \in {t, HighBlock(t)} : j = BlockOf(t)
  BY DEF BlockOf
<1>2. /\ i \in Nat /\ pub.block[j] \in Nat /\ pub.block[j] <= i /\ DPL \in Nat
      /\ i * DPL \in Nat /\ pub.block[j] * DPL \in Nat /\ pub.block[j] * DPL <= i * DPL
  <2>1. i \in Nat /\ pub.block[j] \in Nat /\ pub.block[j] <= i
    BY <1>1, BoundsOfThread DEF AtPlace
  <2>2. QED BY <2>1, LineBase, LinesAscend
<1>3. ASSUME NEW p \in Lanes PROVE s[p] = S[Byte(i, p)] /\ s[p] \in 0 .. 18
  <2>1. /\ i \in Limbs
        /\ digit[Byte(i, p)] = Old(Byte(i, p))
        /\ Operand(t, p) = Old(Len - 1 - Byte(i, p))
    BY OperandsRight
  <2>2. Byte(i, p) \in 0 .. pub.total * DPL - 1
    <3>1. i \in 0 .. pub.total - 1 /\ pub.total \in Nat /\ 0 \in Nat
      BY <2>1, FrameFacts DEF Limbs
    <3>2. Byte(i, p) \in LineSlots(i) /\ Byte(i, p) \in Nat
      BY <1>2, ByteSlots
    <3>3. Byte(i, p) \in 0 * DPL .. pub.total * DPL - 1
      <4>1. \A z \in 0 .. pub.total - 1 : LineSlots(z) \subseteq 0 * DPL .. pub.total * DPL - 1
        <5>1. 0 <= pub.total
          BY <3>1
        <5>2. QED BY ONLY <3>1, <5>1, SlotsOfLines
      <4>2. QED BY <3>1, <3>2, <4>1
    <3>4. 0 * DPL = 0
      BY LineMultiple
    <3>5. QED BY <3>3, <3>4
  <2>3. s[p] = digit[Byte(i, p)] + Operand(t, p)
    BY DEF LimbSum
  <2>4. QED BY <2>1, <2>2, <2>3, ColumnFacts
<1>4. ASSUME NEW p \in 0 .. DPL
      PROVE  CarryInto(s, 0, p, loc[t].carry)
               <=> CarryInto(S, pub.block[j] * DPL, i * DPL + p, FALSE)
  <2>1. /\ loc[t].carry \in BOOLEAN
        /\ loc[t].carry <=> CarryInto(S, pub.block[j] * DPL, i * DPL, FALSE)
    BY <1>1 DEF ThreadAdds, CarriesRight
  <2>2. \A q \in 0 .. DPL - 1 : s[q] = S[i * DPL + q]
    BY <1>3 DEF Lanes, LV_LEN, Byte
  <2>3. CarryInto(s, 0, p, loc[t].carry) <=> CarryInto(S, i * DPL, i * DPL + p, loc[t].carry)
    <3>1. PICK b \in Nat, n \in Nat, c \in BOOLEAN : b = i * DPL /\ n = DPL /\ c = loc[t].carry
      BY <1>2, <2>1
    <3>2. p \in 0 .. n /\ Shifted(s, S, b, n)
      BY <2>2, <3>1 DEF Shifted
    <3>3. CarryInto(s, 0, p, c) <=> CarryInto(S, b, b + p, c)
      BY ONLY <3>2, CarryShift, b \in Nat, n \in Nat, c \in BOOLEAN, p \in 0 .. n
    <3>4. QED BY <3>1, <3>3
  <2>4. /\ i * DPL + p \in Nat /\ i * DPL <= i * DPL + p /\ FALSE \in BOOLEAN
    BY <1>2
  <2>5. CarryInto(S, pub.block[j] * DPL, i * DPL, FALSE) \in BOOLEAN
    BY CarryIsBoolean
  <2>6. CarryInto(S, pub.block[j] * DPL, i * DPL, FALSE) = loc[t].carry
    BY <2>1, <2>5
  <2>7. CarryInto(S, pub.block[j] * DPL, i * DPL + p, FALSE)
          <=> CarryInto(S, i * DPL, i * DPL + p, CarryInto(S, pub.block[j] * DPL, i * DPL, FALSE))
    BY <1>2, <2>4, CarrySplit
  <2>8. QED BY <2>3, <2>6, <2>7
<1>5. QED BY <1>1, <1>3, <1>4

(* A step of another thread leaves a thread's blocks alone.                *)
Kept(x) == \A d \in LineSlots(x) : digit'[d] = digit[d] /\ mirror'[d] = mirror[d]

LEMMA KeptLimb ==
  ASSUME was' = was, pub' = pub, NEW x, Kept(x)
  PROVE  /\ IsOld(x)' <=> IsOld(x)
         /\ IsZipped(x)' <=> IsZipped(x)
         /\ \A j : IsSum(j, x)' <=> IsSum(j, x)
<1>1. (IsOld(x)' <=> IsOld(x)) /\ (IsZipped(x)' <=> IsZipped(x))
  BY ColumnsStay DEF IsOld, IsZipped, Kept
<1>2. \A j : IsSum(j, x)' <=> IsSum(j, x)
  BY ColumnsStay DEF IsSum, Kept
<1>3. QED BY <1>1, <1>2

LEMMA OtherAdds ==
  ASSUME Shared, NEW u \in Thread, AtPlace(u), ThreadAdds(u),
         was' = was, pub' = pub, pc'[u] = pc[u], loc'[u] = loc[u],
         \A j \in {u, HighBlock(u)} : blockCarry'[j] = blockCarry[j],
         \A x \in OwnLines(u, pub.block) : Kept(x)
  PROVE  ThreadAdds(u)'
<1>1. BlockOf(u)' = BlockOf(u)
  BY DEF BlockOf
<1>2. \A j : Reached(u, j)' = Reached(u, j)
  BY <1>1 DEF Reached
<1>3. ASSUME NEW j \in {u, HighBlock(u)} PROVE BlockAdded(u, j)'
  <2>1. /\ Reached(u, j) \in pub.block[j] .. pub.block[j + 1]
        /\ pub.block[j] \in Nat /\ pub.block[j + 1] \in Nat
        /\ pub.block[j] .. pub.block[j + 1] - 1 \subseteq OwnLines(u, pub.block)
    BY ReachedWithin
  <2>2. BlockAdded(u, j)
    BY DEF ThreadAdds
  <2>3. \A x \in pub.block[j] .. pub.block[j + 1] - 1 :
          /\ IsOld(x)' <=> IsOld(x)
          /\ IsZipped(x)' <=> IsZipped(x)
          /\ \A k : IsSum(k, x)' <=> IsSum(k, x)
    BY <2>1, KeptLimb
  <2>4. /\ \A x \in pub.block[j] .. Reached(u, j) - 1 : x \in pub.block[j] .. pub.block[j + 1] - 1
        /\ \A x \in Reached(u, j) .. pub.block[j + 1] - 1 : x \in pub.block[j] .. pub.block[j + 1] - 1
    BY <2>1
  <2>5. QED BY <1>2, <2>2, <2>3, <2>4 DEF BlockAdded
<1>4. CopiesRight(u)'
  BY ColumnsStay DEF CopiesRight, ThreadAdds
<1>5. CarriesRight(u)'
  <2>1. Done(u)' = Done(u)
    BY <1>2 DEF Done
  <2>2. CarriesRight(u)
    BY DEF ThreadAdds
  <2>3. S' = S /\ \A L : Generated(L)' <=> Generated(L)
    BY ColumnsStay
  <2>4. QED BY <1>1, <2>1, <2>2, <2>3 DEF CarriesRight
<1>6. BlockAdded(u, u)' /\ BlockAdded(u, HighBlock(u))'
  BY <1>3
<1>7. QED BY <1>4, <1>5, <1>6 DEF ThreadAdds

(* A step of thread t within the stage of adding. *)
LEMMA DataAdds ==
  ASSUME StageInv, StageInv', PlaceInv, DataInv, NEW t \in Thread, Adding(t), Adding(t)',
         UNCHANGED <<pub, was, ret, call>>, everCarried' \in BOOLEAN,
         DOMAIN blockCarry' = DOMAIN blockCarry,
         \A u \in Thread \ {t} : /\ pc'[u] = pc[u] /\ loc'[u] = loc[u]
                                 /\ \A j \in {u, HighBlock(u)} : blockCarry'[j] = blockCarry[j],
         DOMAIN digit' = DOMAIN digit, DOMAIN mirror' = DOMAIN mirror,
         NEW L, L \subseteq OwnLines(t, pub.block),
         \A x \in (0 .. pub.total) \ L : Kept(x),
         Flag', ThreadAdds(t)'
  PROVE  DataInv'
<1>1. Adding(0)
  BY CoordinatorStage
<1>2. Adding(0)'
  BY CoordinatorIsAThread
  DEF StageInv, Control, Stages, Alone0, Ended0, Between, Zipping, Copying, Adding,
      Leaving, Worker
<1>3. /\ InStep /\ pc[0] # "resolve" /\ InStep' /\ ~Published' /\ ~Summed'
      /\ ~Zipping(0)' /\ ~Copying(0)'
  BY <1>1, <1>2 DEF InStep, Published, Summed, Zipping, Adding, Copying
<1>4. Frame /\ \A u \in Thread : ThreadAdds(u)
  BY <1>1, <1>3 DEF DataInv
<1>5. Shared /\ \A u \in Thread : AtPlace(u)
  BY DEF PlaceInv
<1>6. pub.total \in Nat
  BY <1>5 DEF Shared
<1>7. ASSUME NEW u \in Thread \ {t} PROVE ThreadAdds(u)'
  <2>1. ASSUME NEW x \in OwnLines(u, pub.block) PROVE Kept(x)
    <3>1. x \in 0 .. pub.total - 1
      BY <1>5, ReachedWithin DEF Limbs
    <3>2. x \notin L
      BY <1>5, ThreadsApart
    <3>3. QED BY <1>6, <3>1, <3>2
  <2>2. QED BY <1>4, <1>5, <2>1, OtherAdds
<1>8. Frame'
  <2>1. Kept(pub.total)
    <3>1. pub.total \notin L
      <4>1. L \subseteq Limbs
        BY <1>5, ReachedWithin
      <4>2. QED BY <1>6, <4>1 DEF Limbs
    <3>2. QED BY <1>6, <3>1
  <2>2. IsOld(pub.total)' /\ IsZipped(pub.total)'
    <3>1. PICK n : n = pub.total
      OBVIOUS
    <3>2. IsOld(n) /\ IsZipped(n)
      BY <1>4, <3>1 DEF Frame
    <3>3. IsOld(n)' /\ IsZipped(n)'
      BY <2>1, <3>1, <3>2, KeptLimb
    <3>4. QED BY <3>1, <3>3
  <2>3. Vector(digit', pub.total + 1) /\ Vector(mirror', pub.total + 1)
    BY <1>4 DEF Frame, Vector
  <2>4. call = [block |-> 0, carry |-> FALSE]
    BY <1>3, <1>4 DEF Frame
  <2>5. QED BY <1>4, <2>2, <2>3, <2>4, FrameStays
<1>9. QED BY <1>2, <1>3, <1>7, <1>8 DEF DataInv

(* Until a thread adds, nothing has carried in it. *)
Fresh == \A t \in Thread : pc[t] \in {"zip", "zipped", "copied"} => loc[t].any = FALSE

LEMMA FreshInit == Init => Fresh
  BY DEF Init, Fresh

LEMMA FreshStep == StageInv /\ PlaceInv /\ Fresh /\ [Next]_vars => Fresh'
<1> SUFFICES ASSUME StageInv, PlaceInv, Fresh, [Next]_vars, NEW u \in Thread,
                    pc'[u] \in {"zip", "zipped", "copied"}
             PROVE  loc'[u].any = FALSE
  BY DEF Fresh
<1>1. /\ DOMAIN loc = Thread /\ DOMAIN loc[u] = {"copy", "at", "carry", "any"}
      /\ DOMAIN pc = Thread
  BY DEF PlaceInv, Shape, StageInv, Control
<1>2. CASE Publish \/ Drop \/ Coordination
  <2>1. loc' = loc /\ pc'[u] = pc[u]
    BY <1>1, <1>2, CoordinatorIsAThread
    DEF Publish, Drop, Coordination, ResolveBlock, Return, LeaveDrop, Join, Goto, caller
  <2>2. QED BY <2>1 DEF Fresh
<1>3. CASE Open \/ Dropped \/ UNCHANGED vars
  BY <1>3 DEF Open, Dropped, vars, Fresh
<1>4. ASSUME NEW t \in Thread, ThreadStep(t) PROVE loc'[u].any = FALSE
  <2>1. CASE t # u
    <3>1. loc'[u] = loc[u] /\ pc'[u] = pc[u]
      BY <1>1, <1>4, <2>1
      DEF ThreadStep, Arrive, Enter, Exit, ZipPair, EndZip, Copy, StartAdd, AddLimb, EndLow,
          EndHigh, Rejoin, Goto
    <3>2. QED BY <3>1 DEF Fresh
  <2>2. CASE t = u
    <3>1. CASE Enter(u)
      BY <1>1, <3>1 DEF Enter, NoLoc
    <3>2. CASE Arrive(u) \/ ZipPair(u) \/ EndZip(u) \/ Copy(u)
      <4>1. pc[u] \in {"zip", "zipped", "copied"} /\ loc'[u].any = loc[u].any
        BY <1>1, <3>2, SMTT(60) DEF Arrive, ZipPair, EndZip, Copy, Goto
      <4>2. QED BY <4>1 DEF Fresh
    <3>3. CASE Exit(u) \/ StartAdd(u) \/ AddLimb(u) \/ EndLow(u) \/ EndHigh(u) \/ Rejoin(u)
      BY <1>1, <3>3, ZenonT(60) DEF Exit, StartAdd, AddLimb, EndLow, EndHigh, Rejoin, Goto
    <3>4. QED BY <1>4, <2>2, <3>1, <3>2, <3>3 DEF ThreadStep
  <2>3. QED BY <2>1, <2>2
<1>5. QED BY <1>2, <1>3, <1>4 DEF Next

LEMMA DataStartAdd ==
  ASSUME StageInv, StageInv', PlaceInv, Fresh, DataInv, NEW t \in Thread, StartAdd(t)
  PROVE  DataInv'
<1>1. /\ pc[t] = "copied" /\ phase[t] = "released"
      /\ pc' = [pc EXCEPT ![t] = "low"] /\ phase' = [phase EXCEPT ![t] = "outside"]
      /\ loc' = [loc EXCEPT ![t].at = pub.block[t], ![t].carry = FALSE]
      /\ UNCHANGED <<digit, mirror, pub, blockCarry, everCarried, stop, call, was, ret>>
  BY DEF StartAdd, Goto, TheBarrier!Leave, limbs, shared, caller
<1>2. Adding(t) /\ Adding(0)
  BY <1>1, StageAt, CoordinatorStage
<1>3. /\ pc'[t] = "low" /\ phase'[t] = "outside"
      /\ loc'[t].at = pub.block[t] /\ loc'[t].carry = FALSE /\ loc'[t].any = loc[t].any
      /\ loc'[t].copy = loc[t].copy
      /\ \A u \in Thread \ {t} : pc'[u] = pc[u] /\ loc'[u] = loc[u]
  BY <1>1 DEF StageInv, Control, PlaceInv, Shape
<1>4. Adding(t)'
  BY <1>3 DEF Adding
<1>5. loc[t].any = FALSE /\ everCarried \in BOOLEAN /\ Flag /\ ThreadAdds(t)
  BY <1>1, <1>2 DEF Fresh, DataInv
<1>6. \A x : Kept(x)
  BY <1>1 DEF Kept
<1>7. Flag'
  <2>1. \A u \in Thread : pc'[u] = "added" <=> pc[u] = "added"
    BY <1>1, <1>3
  <2>2. \A L : Generated(L)' <=> Generated(L)
    BY <1>1, ColumnsStay
  <2>3. pub' = pub /\ everCarried' = everCarried
    BY <1>1
  <2>4. QED BY <1>5, <2>1, <2>2, <2>3 DEF Flag
<1>8. /\ t \in Nat /\ HighBlock(t) \in Nat /\ t # HighBlock(t)
      /\ \A j \in {t, HighBlock(t)} : pub.block[j] \in Nat
  BY Blocks, BoundsOfThread DEF PlaceInv
<1>9. \A j \in {t, HighBlock(t)} : Reached(t, j)' = pub.block[j] /\ Reached(t, j) = pub.block[j]
  BY <1>1, <1>3, <1>8 DEF Reached, BlockOf
<1>10. \A j \in {t, HighBlock(t)} : BlockAdded(t, j)'
  <2>1. \A j \in {t, HighBlock(t)} : BlockAdded(t, j)
    BY <1>5 DEF ThreadAdds
  <2>2. QED BY <1>1, <1>9, <2>1, LimbsStay DEF BlockAdded
<1>11. CopiesRight(t)'
  BY <1>1, <1>3, <1>5, ColumnsStay DEF CopiesRight, ThreadAdds
<1>12. CarriesRight(t)'
  <2>1. BlockOf(t)' = t /\ pub' = pub
    BY <1>1, <1>3 DEF BlockOf
  <2>2. ~CarryInto(S, pub.block[t] * DPL, pub.block[t] * DPL, FALSE)
    <3>1. pub.block[t] * DPL \in Nat /\ FALSE \in BOOLEAN
      BY <1>8, LineBase
    <3>2. QED BY <3>1, CarryAtBase
  <2>3. Done(t)' = {}
    BY <1>1, <1>8, <1>9 DEF Done
  <2>4. S' = S
    BY <1>1, ColumnsStay
  <2>5. ~Generated(Done(t))'
    BY <2>3 DEF Generated
  <2>6. QED BY <1>3, <1>5, <1>8, <2>1, <2>2, <2>4, <2>5 DEF CarriesRight
<1>13. ThreadAdds(t)'
  BY <1>10, <1>11, <1>12 DEF ThreadAdds
<1>14. PICK L : L = {}
  OBVIOUS
<1>15. QED BY <1>1, <1>2, <1>3, <1>4, <1>5, <1>6, <1>7, <1>13, <1>14, DataAdds

LEMMA RemainderOf ==
  ASSUME NEW m \in Nat, NEW b \in Nat \ {0}, NEW q \in Nat, NEW p \in 0 .. b - 1,
         m = q * b + p
  PROVE  m % b = p
  OBVIOUS

(* The limb added, and how the thread leaves it. *)
LEMMA LimbAdded ==
  ASSUME Frame, Shared, NEW t \in Thread, AtPlace(t), ThreadAdds(t), AddLimb(t),
         NEW i, i = loc[t].at, NEW j \in {t, HighBlock(t)}, j = BlockOf(t),
         DOMAIN loc = Thread, DOMAIN loc[t] = {"copy", "at", "carry", "any"}
  PROVE  /\ i \in pub.block[j] .. pub.block[j + 1] - 1
         /\ IsSum(j, i)'
         /\ \A x \in (0 .. pub.total) \ {i} : Kept(x)
         /\ loc'[t].carry \in BOOLEAN
         /\ loc'[t].carry <=> CarryInto(S, pub.block[j] * DPL, (i + 1) * DPL, FALSE)
         /\ loc'[t].any <=> loc[t].any \/ loc[t].carry \/ Generated({i})
<1>0. PICK s : s = LimbSum(t)
  OBVIOUS
<1> DEFINE c(p) == CarryInto(s, 0, p, loc[t].carry)
<1>1. /\ pc[t] \in {"low", "high"} /\ i < pub.block[BlockOf(t) + 1]
      /\ digit' = [d \in DOMAIN digit |->
           IF d \div DPL = i THEN Resolved(s[d % DPL], c(d % DPL)) ELSE digit[d]]
      /\ mirror' = [d \in DOMAIN mirror |-> IF d \div DPL = i THEN 0 ELSE mirror[d]]
      /\ loc'[t].carry = c(DPL)
      /\ loc'[t].any = (loc[t].any \/ \E p \in 0 .. DPL : c(p))
      /\ pub' = pub /\ was' = was
  <2>1. LET r == LimbSum(t)
            e(p) == CarryInto(r, 0, p, loc[t].carry)
        IN  /\ pc[t] \in {"low", "high"} /\ loc[t].at < pub.block[BlockOf(t) + 1]
            /\ digit' = [d \in DOMAIN digit |->
                 IF d \div DPL = loc[t].at
                 THEN Resolved(r[d % DPL], e(d % DPL)) ELSE digit[d]]
            /\ mirror' = [d \in DOMAIN mirror |-> IF d \div DPL = loc[t].at THEN 0 ELSE mirror[d]]
            /\ loc' = [loc EXCEPT ![t].at = loc[t].at + 1, ![t].carry = e(DPL),
                                  ![t].any = @ \/ \E p \in 0 .. DPL : e(p)]
            /\ UNCHANGED <<pub, was>>
    BY DEF AddLimb, shared, caller, LV_LEN, LimbSum
  <2>2. QED BY <1>0, <2>1, SMTT(60)
<1>2. i \in pub.block[j] .. pub.block[j + 1] - 1 /\ i \in Nat /\ i < pub.total /\ pub.total \in Nat
  BY <1>1, BoundsOfThread DEF AtPlace, Shared
<1>3. /\ i * DPL \in Nat /\ (i + 1) * DPL = i * DPL + DPL /\ DPL \in Nat \ {0}
  BY <1>2, LineBase
<1>4. /\ \A p \in Lanes : s[p] = S[Byte(i, p)] /\ s[p] \in 0 .. 18
      /\ \A p \in 0 .. DPL :
           c(p) <=> CarryInto(S, pub.block[j] * DPL, i * DPL + p, FALSE)
  <2>1. pc[t] \in {"low", "high"} /\ loc[t].at < pub.block[BlockOf(t) + 1]
    BY <1>1
  <2>2. QED
    BY ONLY Frame, Shared, t \in Thread, AtPlace(t), ThreadAdds(t), <2>1, i = loc[t].at,
            j = BlockOf(t), <1>0, LimbCarries, ZenonT(60)
<1>5. loc[t].carry \in BOOLEAN /\ loc[t].any \in BOOLEAN
  BY <1>1 DEF ThreadAdds, CarriesRight
<1>6. \A p : c(p) \in BOOLEAN
  BY <1>5, CarryIsBoolean
<1>7. ASSUME NEW x \in 0 .. pub.total, NEW d \in LineSlots(x)
      PROVE  /\ d \in DOMAIN digit /\ d \in DOMAIN mirror /\ d \div DPL = x /\ d \in Nat
  <2>1. x \in Nat /\ pub.total + 1 \in Nat /\ 0 \in Nat /\ x \in 0 .. (pub.total + 1) - 1
    BY <1>2
  <2>2. d \in 0 * DPL .. (pub.total + 1) * DPL - 1
    BY <1>2, <2>1, SlotsOfLines
  <2>3. 0 * DPL = 0
    BY LineMultiple
  <2>4. QED BY <2>1, <2>2, <2>3, SlotOfLimb DEF Frame, Vector
<1> HIDE DEF c
<1>8. IsSum(j, i)'
  <2>1. ASSUME NEW d \in LineSlots(i)
        PROVE  /\ digit'[d] = Resolved(S[d], CarryInto(S, pub.block[j] * DPL, d, FALSE))
               /\ mirror'[d] = 0
    <3>1. d - i * DPL \in Lanes /\ d = Byte(i, d - i * DPL)
      BY <1>2, ByteSlots
    <3>2. d \in DOMAIN digit /\ d \in DOMAIN mirror /\ d \div DPL = i /\ d \in Nat
      <4>1. i \in 0 .. pub.total
        BY <1>2
      <4>2. QED BY <1>7, <4>1
    <3>3. PICK p \in Lanes : p = d - i * DPL /\ d = i * DPL + p /\ p \in 0 .. DPL
      BY <1>3, <3>1, <3>2 DEF Lanes, LV_LEN
    <3>4. d % DPL = p
      <4>1. p \in 0 .. DPL - 1
        BY <3>3 DEF Lanes, LV_LEN
      <4>2. d \in Nat /\ DPL \in Nat \ {0} /\ i \in Nat /\ d = i * DPL + p
        BY <1>2, <1>3, <3>2, <3>3
      <4>3. QED BY ONLY <4>1, <4>2, RemainderOf
    <3>5. s[p] = S[d] /\ (c(p) <=> CarryInto(S, pub.block[j] * DPL, d, FALSE))
      BY <1>4, <3>1, <3>3
    <3>6. digit'[d] = Resolved(s[p], c(p)) /\ mirror'[d] = 0
      BY <1>1, <3>2, <3>4
    <3>7. Resolved(S[d], c(p)) = Resolved(S[d], CarryInto(S, pub.block[j] * DPL, d, FALSE))
      <4>1. PICK b : b = c(p)
        OBVIOUS
      <4>2. PICK e : e = CarryInto(S, pub.block[j] * DPL, d, FALSE)
        OBVIOUS
      <4>3. PICK v : v = S[d]
        OBVIOUS
      <4>4. b <=> e
        BY <3>5, <4>1, <4>2
      <4>5. Resolved(v, b) = Resolved(v, e)
        BY ONLY <4>4, ResolvedSame
      <4>6. QED BY <4>1, <4>2, <4>3, <4>5
    <3>8. QED BY <3>5, <3>6, <3>7
  <2>2. S' = S /\ pub' = pub
    BY <1>1, ColumnsStay
  <2>3. QED BY <2>1, <2>2 DEF IsSum
<1>9. ASSUME NEW x \in (0 .. pub.total) \ {i} PROVE Kept(x)
  <2>1. ASSUME NEW d \in LineSlots(x) PROVE digit'[d] = digit[d] /\ mirror'[d] = mirror[d]
    <3>1. d \in DOMAIN digit /\ d \in DOMAIN mirror /\ d \div DPL # i
      BY <1>7
    <3>2. QED BY <1>1, <3>1
  <2>2. QED BY <2>1 DEF Kept
<1>10. /\ loc'[t].carry \in BOOLEAN
       /\ loc'[t].carry <=> CarryInto(S, pub.block[j] * DPL, (i + 1) * DPL, FALSE)
  <2>1. DPL \in 0 .. DPL
    BY <1>3
  <2>2. QED BY <1>1, <1>3, <1>4, <1>6, <2>1
<1>11. loc'[t].any <=> loc[t].any \/ loc[t].carry \/ Generated({i})
  <2>1. (\E p \in 0 .. DPL : c(p)) <=> loc[t].carry \/ \E p \in 0 .. DPL - 1 : s[p] > 9
    <3>1. \A p \in 0 .. DPL - 1 : s[p] \in Int
      BY <1>4 DEF Lanes, LV_LEN
    <3>2. 0 \in Nat /\ DPL \in Nat /\ 0 <= DPL
      BY <1>3
    <3>3. (\E p \in 0 .. DPL : CarryInto(s, 0, p, loc[t].carry))
            <=> loc[t].carry \/ \E p \in 0 .. DPL - 1 : s[p] > 9
      BY <1>5, <3>1, <3>2, CarriedInRange
    <3>4. QED BY <3>3 DEF c
  <2>2. (\E p \in 0 .. DPL - 1 : s[p] > 9) <=> \E d \in LineSlots(i) : S[d] > 9
    <3>1. \A p \in 0 .. DPL - 1 : Byte(i, p) \in LineSlots(i) /\ s[p] = S[Byte(i, p)]
      BY <1>2, <1>4, ByteSlots DEF Lanes, LV_LEN
    <3>2. \A d \in LineSlots(i) : d - i * DPL \in 0 .. DPL - 1 /\ s[d - i * DPL] = S[d]
      BY <1>2, <1>4, ByteSlots DEF Lanes, LV_LEN
    <3>3. QED BY <3>1, <3>2
  <2>3. Generated({i}) <=> \E d \in LineSlots(i) : S[d] > 9
    BY DEF Generated
  <2>4. QED BY <1>1, <2>1, <2>2, <2>3
<1>12. QED BY <1>2, <1>8, <1>9, <1>10, <1>11

(* A thread's two blocks have no limb in common. *)
LEMMA BlocksApart ==
  ASSUME Shared, NEW t \in Thread
  PROVE  /\ t # HighBlock(t)
         /\ pub.block[t + 1] <= pub.block[HighBlock(t)]
<1>1. t \in Nat /\ HighBlock(t) \in Nat /\ t < HighBlock(t) /\ HighBlock(t) < NumBlocks
  BY Blocks
<1>2. t + 1 \in 0 .. NumBlocks /\ HighBlock(t) \in 0 .. NumBlocks /\ t + 1 <= HighBlock(t)
      /\ NumBlocks \in Nat
  BY <1>1, Blocks
<1>3. QED BY <1>1, <1>2, BoundsAscend DEF Shared

(* A carry at hand came from a column added before. *)
LEMMA CarryGenerated ==
  ASSUME NEW x \in Nat, NEW y \in Nat, x <= y, CarryInto(S, x * DPL, y * DPL, FALSE)
  PROVE  Generated(x .. y - 1)
<1>1. \E d \in x * DPL .. y * DPL - 1 : S[d] > 9
  BY DEF CarryInto
<1>2. QED BY <1>1, GeneratedInLimbs

LEMMA DataAddLimb ==
  ASSUME StageInv, StageInv', PlaceInv, DataInv, NEW t \in Thread, AddLimb(t)
  PROVE  DataInv'
<1>1. /\ pc[t] \in {"low", "high"} /\ loc[t].at < pub.block[BlockOf(t) + 1]
      /\ DOMAIN digit' = DOMAIN digit /\ DOMAIN mirror' = DOMAIN mirror
      /\ UNCHANGED <<pub, blockCarry, everCarried, stop, phase, pc, call, was, ret>>
  BY DEF AddLimb, shared, caller
<1>2. Adding(t) /\ Adding(0) /\ InStep
  BY <1>1, StageAt, CoordinatorStage
<1>3. Adding(t)'
  BY <1>1, <1>2 DEF Adding
<1>4. /\ Shared /\ AtPlace(t) /\ Frame /\ ThreadAdds(t) /\ Flag /\ everCarried \in BOOLEAN
      /\ DOMAIN loc = Thread /\ DOMAIN loc[t] = {"copy", "at", "carry", "any"}
  BY <1>2 DEF PlaceInv, Shape, DataInv
<1>5. PICK i : i = loc[t].at
  OBVIOUS
<1>5a. PICK j \in {t, HighBlock(t)} : j = BlockOf(t)
  BY DEF BlockOf
<1>6. /\ i \in pub.block[j] .. pub.block[j + 1] - 1
      /\ IsSum(j, i)'
      /\ \A x \in (0 .. pub.total) \ {i} : Kept(x)
      /\ loc'[t].carry \in BOOLEAN
      /\ loc'[t].carry <=> CarryInto(S, pub.block[j] * DPL, (i + 1) * DPL, FALSE)
      /\ loc'[t].any <=> loc[t].any \/ loc[t].carry \/ Generated({i})
  BY <1>4, <1>5, <1>5a, LimbAdded, ZenonT(60)
<1>7. /\ loc'[t].at = i + 1 /\ loc'[t].copy = loc[t].copy
      /\ \A u \in Thread \ {t} : loc'[u] = loc[u]
      /\ loc'[t].any \in BOOLEAN
  <2>1. \E c \in BOOLEAN : \E a :
          loc' = [loc EXCEPT ![t].at = i + 1, ![t].carry = c, ![t].any = @ \/ a]
    <3>1. PICK s : s = LimbSum(t)
      OBVIOUS
    <3>2. LET r == LimbSum(t)
          IN  loc' = [loc EXCEPT ![t].at = loc[t].at + 1,
                                ![t].carry = CarryInto(r, 0, DPL, loc[t].carry),
                                ![t].any = @ \/ \E p \in 0 .. DPL : CarryInto(r, 0, p, loc[t].carry)]
      BY DEF AddLimb, LimbSum, LV_LEN
    <3>3. loc[t].carry \in BOOLEAN
      BY <1>1, <1>4 DEF ThreadAdds, CarriesRight
    <3>4. CarryInto(s, 0, DPL, loc[t].carry) \in BOOLEAN
      BY <3>3, CarryIsBoolean
    <3>5. QED BY <1>5, <1>5a, <3>1, <3>2, <3>4
  <2>2. QED BY <1>4, <2>1
<1>8. BlockOf(t)' = j /\ pub' = pub /\ was' = was
  BY <1>1, <1>5, <1>5a DEF BlockOf
<1>9. PICK k : {j, k} = {t, HighBlock(t)} /\ k # j
  BY <1>4, BlocksApart
<1>10. /\ Reached(t, j) = i /\ Reached(t, j)' = i + 1
       /\ Reached(t, k)' = Reached(t, k)
  BY <1>1, <1>4, <1>5, <1>5a, <1>7, <1>8, <1>9, BlocksApart DEF Reached, BlockOf
<1>11. \A b \in {j, k} :
         /\ Reached(t, b) \in pub.block[b] .. pub.block[b + 1]
         /\ pub.block[b] \in Nat /\ pub.block[b + 1] \in Nat /\ pub.block[b + 1] <= pub.total
         /\ pub.block[b] .. pub.block[b + 1] - 1 \subseteq OwnLines(t, pub.block)
  BY <1>4, <1>9, ReachedWithin
<1>12. i \notin pub.block[k] .. pub.block[k + 1] - 1 /\ pub.total \in Nat /\ i \in Nat
  BY <1>4, <1>6, <1>9, <1>11, BlocksApart DEF Shared
<1>13. ASSUME NEW b \in {j, k}, NEW x \in pub.block[b] .. pub.block[b + 1] - 1, x # i
       PROVE  /\ IsOld(x)' <=> IsOld(x)
              /\ IsZipped(x)' <=> IsZipped(x)
              /\ \A h : IsSum(h, x)' <=> IsSum(h, x)
  <2>1. x \in (0 .. pub.total) \ {i}
    BY <1>11, <1>12, <1>13
  <2>2. QED BY <1>6, <1>8, <2>1, KeptLimb
<1>14. BlockAdded(t, j) /\ BlockAdded(t, k)
  BY <1>4, <1>9 DEF ThreadAdds
<1>15. BlockAdded(t, j)'
  <2>1. ASSUME NEW x \in pub.block[j] .. Reached(t, j)' - 1 PROVE IsSum(j, x)'
    <3>1. CASE x = i
      BY <1>6, <3>1
    <3>2. CASE x # i
      <4>1. x \in pub.block[j] .. Reached(t, j) - 1 /\ x \in pub.block[j] .. pub.block[j + 1] - 1
        BY <1>6, <1>10, <1>11, <1>12, <3>2
      <4>2. QED BY <1>13, <1>14, <3>2, <4>1 DEF BlockAdded
    <3>3. QED BY <3>1, <3>2
  <2>2. ASSUME NEW x \in Reached(t, j)' .. pub.block[j + 1] - 1 PROVE IsOld(x)' /\ IsZipped(x)'
    <3>1. /\ x \in Reached(t, j) .. pub.block[j + 1] - 1 /\ x # i
          /\ x \in pub.block[j] .. pub.block[j + 1] - 1
      BY <1>6, <1>10, <1>11, <1>12
    <3>2. QED BY <1>13, <1>14, <3>1 DEF BlockAdded
  <2>3. QED BY <1>8, <2>1, <2>2 DEF BlockAdded
<1>16. BlockAdded(t, k)'
  <2>1. /\ \A x \in pub.block[k] .. Reached(t, k) - 1 :
             x \in pub.block[k] .. pub.block[k + 1] - 1 /\ x # i
        /\ \A x \in Reached(t, k) .. pub.block[k + 1] - 1 :
             x \in pub.block[k] .. pub.block[k + 1] - 1 /\ x # i
    BY <1>11, <1>12
  <2>2. QED BY <1>8, <1>10, <1>13, <1>14, <2>1 DEF BlockAdded
<1>17. CopiesRight(t)'
  BY <1>1, <1>4, <1>7, ColumnsStay DEF CopiesRight, ThreadAdds
<1>18. CarriesRight(t)'
  <2>1. S' = S /\ \A L : Generated(L)' <=> Generated(L)
    BY <1>8, ColumnsStay
  <2>2. CarriesRight(t)
    BY <1>4 DEF ThreadAdds
  <2>3. Done(t)' = Done(t) \union {i}
    <3>1. pub.block[j] .. i = (pub.block[j] .. i - 1) \union {i}
      BY <1>6, <1>11, <1>12
    <3>2. /\ Done(t) = (pub.block[j] .. Reached(t, j) - 1) \union (pub.block[k] .. Reached(t, k) - 1)
          /\ Done(t)' = (pub.block[j] .. Reached(t, j)' - 1) \union (pub.block[k] .. Reached(t, k)' - 1)
      BY <1>8, <1>9 DEF Done
    <3>3. i + 1 - 1 = i
      BY <1>12
    <3>4. QED BY <1>10, <3>1, <3>2, <3>3
  <2>4. loc[t].carry => Generated(Done(t))
    <3>1. loc[t].carry => CarryInto(S, pub.block[j] * DPL, i * DPL, FALSE)
      BY <1>1, <1>5, <1>5a, <2>2 DEF CarriesRight
    <3>2. pub.block[j] \in Nat /\ i \in Nat /\ pub.block[j] <= i
      BY <1>6, <1>11, <1>12
    <3>3. loc[t].carry => Generated(pub.block[j] .. i - 1)
      BY <3>1, <3>2, CarryGenerated
    <3>4. pub.block[j] .. i - 1 \subseteq Done(t)
      BY <1>10, <1>9 DEF Done
    <3>5. QED BY <3>3, <3>4 DEF Generated
  <2>5. Generated(Done(t) \union {i}) <=> Generated(Done(t)) \/ Generated({i})
    BY DEF Generated
  <2>6. loc[t].any <=> Generated(Done(t))
    BY <1>1, <2>2 DEF CarriesRight
  <2>7. loc'[t].any <=> Generated(Done(t))'
    BY <1>6, <2>1, <2>3, <2>4, <2>5, <2>6
  <2>8. \A b \in {t, HighBlock(t)} :
          pc[t] = "added" \/ (pc[t] = "high" /\ b = t) =>
            (blockCarry[b]
               <=> CarryInto(S, pub.block[b] * DPL, pub.block[b + 1] * DPL, FALSE))
    BY <2>2 DEF CarriesRight
  <2>9. pc' = pc /\ blockCarry' = blockCarry
    BY <1>1
  <2>10. QED BY <1>6, <1>7, <1>8, <2>1, <2>7, <2>8, <2>9 DEF CarriesRight
<1>19. ThreadAdds(t)'
  <2>1. \A b \in {t, HighBlock(t)} : b = j \/ b = k
    BY <1>9
  <2>2. BlockAdded(t, t)' /\ BlockAdded(t, HighBlock(t))'
    BY <1>15, <1>16, <2>1
  <2>3. QED BY <1>17, <1>18, <2>2 DEF ThreadAdds
<1>20. Flag'
  BY <1>1, <1>4, ColumnsStay DEF Flag
<1>21. PICK L : L = {i}
  OBVIOUS
<1>22. L \subseteq OwnLines(t, pub.block) /\ \A x \in (0 .. pub.total) \ L : Kept(x)
  BY <1>6, <1>11, <1>21
<1>23. QED BY <1>1, <1>2, <1>3, <1>4, <1>7, <1>19, <1>20, <1>22, DataAdds, SMTT(60)

LEMMA DataEndLow ==
  ASSUME StageInv, StageInv', PlaceInv, DataInv, NEW t \in Thread, EndLow(t)
  PROVE  DataInv'
<1>1. /\ pc[t] = "low" /\ loc[t].at = pub.block[t + 1] /\ pc' = [pc EXCEPT ![t] = "high"]
      /\ blockCarry' = [blockCarry EXCEPT ![t] = loc[t].carry]
      /\ loc' = [loc EXCEPT ![t].at = pub.block[HighBlock(t)], ![t].carry = FALSE]
      /\ UNCHANGED <<digit, mirror, pub, everCarried, stop, phase, call, was, ret>>
  BY DEF EndLow, Goto, limbs, caller
<1>2. Adding(t) /\ Adding(0) /\ InStep /\ phase[t] = "outside"
  BY <1>1, StageAt, CoordinatorStage
<1>3. /\ Shared /\ AtPlace(t) /\ ThreadAdds(t) /\ Flag /\ everCarried \in BOOLEAN
      /\ DOMAIN loc = Thread /\ DOMAIN loc[t] = {"copy", "at", "carry", "any"}
      /\ DOMAIN blockCarry = 0 .. NumBlocks - 1 /\ DOMAIN pc = Thread
  BY <1>2 DEF PlaceInv, Shape, DataInv, StageInv, Control
<1>4. /\ pc'[t] = "high" /\ loc'[t].at = pub.block[HighBlock(t)] /\ loc'[t].carry = FALSE
      /\ loc'[t].any = loc[t].any /\ loc'[t].copy = loc[t].copy
      /\ \A u \in Thread \ {t} : pc'[u] = pc[u] /\ loc'[u] = loc[u]
      /\ pub' = pub /\ was' = was
  BY <1>1, <1>3
<1>5. Adding(t)'
  BY <1>1, <1>2, <1>4 DEF Adding
<1>6. /\ t \in Nat /\ HighBlock(t) \in Nat /\ t < HighBlock(t) /\ t < NumThreads
      /\ t \in 0 .. NumBlocks - 1 /\ \A u \in Thread : HighBlock(u) # t
      /\ pub.block[HighBlock(t)] \in Nat
  BY <1>3, Blocks, BoundsOfThread, SMTT(60)
<1>7. DOMAIN blockCarry' = DOMAIN blockCarry /\ blockCarry'[t] = loc[t].carry
      /\ \A j : j # t => blockCarry'[j] = blockCarry[j]
  BY <1>1, <1>3, <1>6
<1>8. \A u \in Thread \ {t} : \A j \in {u, HighBlock(u)} : blockCarry'[j] = blockCarry[j]
  BY <1>6, <1>7
<1>9. \A x : Kept(x)
  BY <1>1 DEF Kept
<1>10. Flag'
  <2>1. \A u \in Thread : pc'[u] = "added" <=> pc[u] = "added"
    BY <1>1, <1>4
  <2>2. \A L : Generated(L)' <=> Generated(L)
    BY <1>4, ColumnsStay
  <2>3. everCarried' = everCarried
    BY <1>1
  <2>4. QED BY <1>3, <1>4, <2>1, <2>2, <2>3 DEF Flag
<1>11. /\ Reached(t, t) = pub.block[t + 1] /\ Reached(t, t)' = pub.block[t + 1]
       /\ Reached(t, HighBlock(t)) = pub.block[HighBlock(t)]
       /\ Reached(t, HighBlock(t))' = pub.block[HighBlock(t)]
  BY <1>1, <1>4, <1>6 DEF Reached, BlockOf
<1>12. BlockAdded(t, t)' /\ BlockAdded(t, HighBlock(t))'
  <2>1. BlockAdded(t, t) /\ BlockAdded(t, HighBlock(t))
    BY <1>3 DEF ThreadAdds
  <2>2. PICK h : h = HighBlock(t)
    OBVIOUS
  <2>3. BlockAdded(t, t)' /\ BlockAdded(t, h)'
    BY <1>1, <1>11, <2>1, <2>2, LimbsStay DEF BlockAdded
  <2>4. QED BY <2>2, <2>3
<1>13. CopiesRight(t)'
  BY <1>1, <1>3, <1>4, ColumnsStay DEF CopiesRight, ThreadAdds
<1>14. CarriesRight(t)'
  <2>1. S' = S /\ \A L : Generated(L)' <=> Generated(L)
    BY <1>4, ColumnsStay
  <2>2. CarriesRight(t) /\ BlockOf(t) = t /\ BlockOf(t)' = HighBlock(t)
    BY <1>1, <1>3, <1>4 DEF ThreadAdds, BlockOf
  <2>3. Done(t)' = Done(t)
    BY <1>4, <1>11 DEF Done
  <2>4. /\ loc[t].carry \in BOOLEAN /\ loc[t].any \in BOOLEAN /\ (loc[t].any <=> Generated(Done(t)))
        /\ loc[t].carry <=> CarryInto(S, pub.block[t] * DPL, pub.block[t + 1] * DPL, FALSE)
    BY <1>1, <2>2 DEF CarriesRight
  <2>5. ~CarryInto(S, pub.block[HighBlock(t)] * DPL, pub.block[HighBlock(t)] * DPL, FALSE)
    <3>1. pub.block[HighBlock(t)] * DPL \in Nat /\ FALSE \in BOOLEAN
      BY <1>6, LineBase
    <3>2. QED BY <3>1, CarryAtBase
  <2>6. Generated(Done(t))' <=> Generated(Done(t))
    BY <2>1, <2>3
  <2>7. /\ loc'[t].carry \in BOOLEAN /\ loc'[t].any \in BOOLEAN
        /\ loc'[t].any <=> Generated(Done(t))'
        /\ loc'[t].carry <=> CarryInto(S, pub.block[HighBlock(t)] * DPL, loc'[t].at * DPL, FALSE)
    BY <1>4, <2>4, <2>5, <2>6
  <2>8. /\ blockCarry'[t] <=> CarryInto(S, pub.block[t] * DPL, pub.block[t + 1] * DPL, FALSE)
    BY <1>7, <2>4
  <2>9. QED BY <1>4, <1>6, <2>1, <2>2, <2>7, <2>8 DEF CarriesRight
<1>15. ThreadAdds(t)'
  BY <1>12, <1>13, <1>14 DEF ThreadAdds
<1>16. PICK L : L = {}
  OBVIOUS
<1>17. QED
  BY <1>1, <1>2, <1>3, <1>4, <1>5, <1>7, <1>8, <1>9, <1>10, <1>15, <1>16,
     DataAdds, ZenonT(60)

LEMMA DataEndHigh ==
  ASSUME StageInv, StageInv', PlaceInv, DataInv, NEW t \in Thread, EndHigh(t)
  PROVE  DataInv'
<1>0. PICK h : h = HighBlock(t)
  OBVIOUS
<1>1. /\ pc[t] = "high" /\ loc[t].at = pub.block[h + 1] /\ pc' = [pc EXCEPT ![t] = "added"]
      /\ blockCarry' = [blockCarry EXCEPT ![h] = loc[t].carry]
      /\ everCarried' = (everCarried \/ loc[t].any)
      /\ UNCHANGED <<digit, mirror, pub, stop, phase, call, was, ret, loc>>
  BY <1>0 DEF EndHigh, Goto, limbs, caller
<1>2. Adding(t) /\ Adding(0) /\ InStep /\ phase[t] = "outside"
  BY <1>1, StageAt, CoordinatorStage
<1>3. /\ Shared /\ AtPlace(t) /\ ThreadAdds(t) /\ Flag /\ everCarried \in BOOLEAN
      /\ DOMAIN blockCarry = 0 .. NumBlocks - 1 /\ DOMAIN pc = Thread
  BY <1>2 DEF PlaceInv, DataInv, StageInv, Control
<1>4. /\ pc'[t] = "added" /\ \A u \in Thread \ {t} : pc'[u] = pc[u] /\ loc'[u] = loc[u]
      /\ pub' = pub /\ was' = was /\ loc' = loc
  BY <1>1, <1>3
<1>5. Adding(t)'
  BY <1>1, <1>2, <1>4 DEF Adding
<1>6. /\ t \in Nat /\ h \in Nat /\ t < h /\ h \in 0 .. NumBlocks - 1
      /\ \A u \in Thread \ {t} : u # h /\ HighBlock(u) # h
  <2>1. \A u \in Thread : u \in Nat /\ u < NumThreads /\ HighBlock(u) = 2 * NumThreads - 1 - u
    BY Blocks DEF HighBlock
  <2>2. NumThreads \in Nat /\ NumBlocks = 2 * NumThreads
    BY Blocks
  <2>3. QED BY <1>0, <2>1, <2>2
<1>7. DOMAIN blockCarry' = DOMAIN blockCarry /\ blockCarry'[h] = loc[t].carry
      /\ \A j : j # h => blockCarry'[j] = blockCarry[j]
  BY <1>1, <1>3, <1>6
<1>8. \A u \in Thread \ {t} : \A j \in {u, HighBlock(u)} : blockCarry'[j] = blockCarry[j]
  BY <1>6, <1>7
<1>9. \A x : Kept(x)
  BY <1>1 DEF Kept
<1>10. CarriesRight(t) /\ BlockOf(t) = h
  BY <1>0, <1>1, <1>3 DEF ThreadAdds, BlockOf
<1>11. /\ loc[t].carry \in BOOLEAN /\ loc[t].any \in BOOLEAN /\ (loc[t].any <=> Generated(Done(t)))
       /\ loc[t].carry <=> CarryInto(S, pub.block[h] * DPL, pub.block[h + 1] * DPL, FALSE)
       /\ blockCarry[t] <=> CarryInto(S, pub.block[t] * DPL, pub.block[t + 1] * DPL, FALSE)
  BY <1>1, <1>10 DEF CarriesRight
<1>12. /\ Reached(t, t) = pub.block[t + 1] /\ Reached(t, t)' = pub.block[t + 1]
       /\ Reached(t, h) = pub.block[h + 1]
       /\ Reached(t, h)' = pub.block[h + 1]
  BY <1>0, <1>1, <1>4, <1>6 DEF Reached, BlockOf
<1>13. Done(t) = OwnLines(t, pub.block)
  BY <1>0, <1>12 DEF Done, OwnLines
<1>14. Flag' /\ everCarried' \in BOOLEAN
  <2>1. \A L : Generated(L)' <=> Generated(L)
    BY <1>4, ColumnsStay
  <2>2. everCarried' <=> everCarried \/ Generated(OwnLines(t, pub.block))
    BY <1>1, <1>11, <1>13
  <2>3. \A u \in Thread : pc'[u] = "added" <=> pc[u] = "added" \/ u = t
    BY <1>1, <1>4
  <2>4. QED BY <1>1, <1>3, <1>4, <1>11, <2>1, <2>2, <2>3 DEF Flag
<1>15. BlockAdded(t, t)' /\ BlockAdded(t, h)'
  <2>1. BlockAdded(t, t) /\ BlockAdded(t, h)
    BY <1>0, <1>3 DEF ThreadAdds
  <2>2. QED BY <1>1, <1>12, <2>1, LimbsStay DEF BlockAdded
<1>16. CopiesRight(t)'
  BY <1>4 DEF CopiesRight
<1>17. CarriesRight(t)'
  <2>1. S' = S
    BY <1>4, ColumnsStay
  <2>2. \A j \in {t, h} :
          blockCarry'[j] <=> CarryInto(S, pub.block[j] * DPL, pub.block[j + 1] * DPL, FALSE)
    BY <1>6, <1>7, <1>11
  <2>3. QED BY <1>0, <1>4, <2>1, <2>2 DEF CarriesRight
<1>18. ThreadAdds(t)'
  BY <1>0, <1>15, <1>16, <1>17 DEF ThreadAdds
<1>19. PICK L : L = {}
  OBVIOUS
<1>20. QED BY <1>1, <1>2, <1>4, <1>5, <1>7, <1>8, <1>9, <1>14, <1>18, <1>19, DataAdds

-----------------------------------------------------------------------------
(* From one stage to the next *)

LEMMA EveryBlockOwned ==
  ASSUME NEW j \in 0 .. NumBlocks - 1
  PROVE  \E t \in Thread : j \in {t, HighBlock(t)}
<1>1. NumThreads \in Nat \ {0} /\ NumBlocks = 2 * NumThreads
  BY Blocks
<1>2. CASE j < NumThreads
  BY <1>1, <1>2 DEF Thread
<1>3. CASE j >= NumThreads
  <2>1. NumBlocks - 1 - j \in Thread /\ HighBlock(NumBlocks - 1 - j) = j
    BY <1>1, <1>3 DEF Thread, HighBlock
  <2>2. QED BY <2>1
<1>4. QED BY <1>1, <1>2, <1>3

(* When every thread has zipped its pairs, every limb is zipped. *)
LEMMA AllZipped ==
  ASSUME Shared, \A t \in Thread : PairsZipped(t) /\ pc[t] = "zipped", NEW x \in Limbs
  PROVE  IsZipped(x)
<1>1. pub.total \in Nat /\ x \in 0 .. pub.total - 1 /\ DivCeil(pub.total, 2) \in Nat
  BY DEF Shared, Limbs, DivCeil
<1>2. ASSUME NEW i \in 0 .. DivCeil(pub.total, 2) - 1
      PROVE  IsZipped(i) /\ IsZipped(pub.total - 1 - i)
  <2>1. PICK t \in Thread : pub.zip[t] <= i /\ i < pub.zip[t + 1]
    BY <1>1, ZipCovers DEF Shared
  <2>2. i \in pub.zip[t] .. pub.zip[t + 1] - 1
    BY <1>1, <2>1, BoundsOfThread
  <2>3. QED BY <2>2 DEF PairsZipped
<1>3. CASE x \in 0 .. DivCeil(pub.total, 2) - 1
  BY <1>2, <1>3
<1>4. CASE x \notin 0 .. DivCeil(pub.total, 2) - 1
  <2>1. PICK i : i = pub.total - 1 - x
    OBVIOUS
  <2>2. i \in 0 .. DivCeil(pub.total, 2) - 1 /\ x = pub.total - 1 - i
    BY <1>1, <1>4, <2>1 DEF DivCeil
  <2>3. QED BY <1>2, <2>2
<1>5. QED BY <1>3, <1>4

(* When every thread has added its blocks, the coordinator finds every     *)
(* block added with a carry-in of zero.                                    *)
LEMMA AllAdded ==
  ASSUME Shared, Frame, Flag, pc[0] # "resolve",
         \A t \in Thread : ThreadAdds(t) /\ pc[t] = "added"
  PROVE  Resolving
<1>1. /\ pub.total \in Nat /\ pub.block[0] = 0 /\ NumBlocks \in Nat \ {0}
      /\ call.block = 0 /\ call.carry = FALSE
  BY BoundsAscend, Blocks DEF Shared, Frame
<1>2. everCarried <=> Generated(Limbs)
  <2>1. UNION {OwnLines(t, pub.block) : t \in Thread} = Limbs
    BY OwnLinesDivide DEF Shared, Limbs
  <2>2. Generated(Limbs) <=> \E t \in Thread : Generated(OwnLines(t, pub.block))
    BY <2>1 DEF Generated
  <2>3. QED BY <2>2 DEF Flag
<1>3. ASSUME NEW j \in 0 .. NumBlocks - 1
      PROVE  /\ blockCarry[j]
                  <=> CarryInto(S, pub.block[j] * DPL, pub.block[j + 1] * DPL, FALSE)
             /\ \A x \in BlockLimbs(j) : IsSum(j, x)
  <2>1. PICK t \in Thread : j \in {t, HighBlock(t)}
    BY EveryBlockOwned
  <2>2. CarriesRight(t) /\ BlockAdded(t, j) /\ Reached(t, j) = pub.block[j + 1]
    BY <2>1 DEF ThreadAdds, Reached
  <2>3. QED BY <2>1, <2>2 DEF CarriesRight, BlockAdded, BlockLimbs
<1>4. ASSUME NEW x \in Limbs, NEW d \in LineSlots(x)
      PROVE  mirror[d] = 0 /\ ~(d < 0)
  <2>1. x \in 0 .. pub.total - 1 /\ x \in Nat
    BY <1>1 DEF Limbs
  <2>2. PICK j \in 0 .. NumBlocks - 1 : pub.block[j] <= x /\ x < pub.block[j + 1]
    BY <1>1, <2>1, BlocksCover DEF Shared
  <2>3. j \in 0 .. NumBlocks /\ j + 1 \in 0 .. NumBlocks
    BY <1>1
  <2>4. pub.block[j] \in Nat /\ pub.block[j + 1] \in Nat
    BY <1>1, <2>3, BoundsAscend DEF Shared
  <2>5. IsSum(j, x)
    <3>1. x \in BlockLimbs(j)
      BY <2>1, <2>2, <2>4 DEF BlockLimbs
    <3>2. QED BY <1>3, <3>1
  <2>6. d \in Nat
    BY <2>1, LineBase
  <2>7. mirror[d] = 0
    BY <2>5 DEF IsSum
  <2>8. QED BY <2>6, <2>7
<1>5. 0 * DPL = 0 /\ 0 \in Nat /\ FALSE \in BOOLEAN
  BY LineMultiple
<1>6. ~CarryInto(S, 0, 0, FALSE)
  BY <1>5, CarryAtBase
<1>7. pub.block[call.block] * DPL = 0
  BY <1>1, <1>5
<1>8. call.block \in 0 .. NumBlocks /\ call.carry \in BOOLEAN
  <2>1. call.block \in 0 .. NumBlocks
    BY <1>1
  <2>2. call.carry \in BOOLEAN
    BY <1>1, <1>5, Zenon
  <2>3. QED BY <2>1, <2>2
<1>9. call.carry <=> CarryInto(S, 0, pub.block[call.block] * DPL, FALSE)
  BY <1>1, <1>6, <1>7
<1>10. \A x \in Limbs : \A d \in LineSlots(x) :
         /\ mirror[d] = 0
         /\ d < pub.block[call.block] * DPL =>
              digit[d] = Resolved(S[d], CarryInto(S, 0, d, FALSE))
  BY <1>4, <1>7
<1>11. QED BY <1>2, <1>3, <1>8, <1>9, <1>10 DEF Resolving

LEMMA DataOpen ==
  ASSUME StageInv, StageInv', PlaceInv, DataInv, Open
  PROVE  DataInv'
<1>1. /\ Still /\ pc' = pc /\ stop' = stop /\ \A u \in Thread : phase[u] = "waiting"
      /\ \A u \in Thread : phase'[u] = "released"
      /\ pub' = pub /\ was' = was /\ call' = call
  BY DEF Open, TheBarrier!Open, limbs, shared, caller, Still
<1>2. phase[0] = "waiting" /\ phase'[0] = "released" /\ 0 \in Thread
  BY <1>1, CoordinatorIsAThread
<1>3. InStep' <=> InStep
  BY <1>1 DEF InStep
<1>4. /\ S' = S /\ Len' = Len /\ Limbs' = Limbs
      /\ \A L : Generated(L)' <=> Generated(L)
      /\ \A x : (IsOld(x)' <=> IsOld(x)) /\ (IsZipped(x)' <=> IsZipped(x))
      /\ \A j, x : IsSum(j, x)' <=> IsSum(j, x)
  BY <1>1, ColumnsStay, LimbsStay DEF Still
<1>5. /\ ret' \in BOOLEAN /\ everCarried' \in BOOLEAN
      /\ DOMAIN blockCarry' = 0 .. NumBlocks - 1
  BY <1>1 DEF DataInv, Still
<1>6. ~InStep' => Held'
  BY <1>1, <1>3 DEF DataInv, Held, Vector, Still
<1>7. InStep' => Frame'
  <2> SUFFICES ASSUME InStep' PROVE Frame'
    OBVIOUS
  <2>1. Frame
    BY <1>3 DEF DataInv
  <2>2. pc'[0] # "resolve" => call' = [block |-> 0, carry |-> FALSE]
    BY <1>1, <2>1 DEF Frame
  <2>3. /\ Vector(digit', pub.total + 1) /\ Vector(mirror', pub.total + 1)
        /\ IsOld(pub.total)' /\ IsZipped(pub.total)'
    BY <1>1, <2>1, LimbsStay DEF Frame, Still
  <2>4. QED BY <1>1, <2>1, <2>2, <2>3, FrameStays
<1>8. ~Published'
  BY <1>2 DEF Published
<1>9. Untouched' <=> Untouched
  BY <1>1, <1>4 DEF Untouched, Still
<1>10. CASE pc[0] = "start" /\ ~stop /\ \A u \in Thread : Zipping(u)'
  <2>1. \A u \in Thread : pc'[u] = "start"
    BY <1>1, <1>10 DEF Zipping
  <2>2. Untouched'
    BY <1>2, <1>9, <1>10 DEF DataInv, Published
  <2>3. \A u \in Thread : PairsZipped(u)'
    BY <2>1 DEF PairsZipped
  <2>4. ~Copying(0)' /\ ~Adding(0)' /\ ~Summed'
    BY <1>2, <2>1 DEF Copying, Adding, Summed
  <2>5. QED BY <1>5, <1>6, <1>7, <1>8, <2>2, <2>3, <2>4 DEF DataInv
<1>11. CASE pc[0] = "drop"
  <2>1. ~Zipping(0)' /\ ~Copying(0)' /\ ~Adding(0)' /\ ~Summed'
    BY <1>1, <1>11 DEF Zipping, Copying, Adding, Summed
  <2>2. QED BY <1>5, <1>6, <1>7, <1>8, <2>1 DEF DataInv
<1>12. CASE \A u \in Thread : pc[u] = "zipped" /\ Zipping(u)
  <2>1. pc'[0] = "zipped" /\ Zipping(0)
    BY <1>1, <1>2, <1>12
  <2>2. Untouched /\ \A t \in Thread : PairsZipped(t)
    BY <2>1 DEF DataInv
  <2>3. \A x \in Limbs' : IsZipped(x)'
    BY <1>4, <1>12, <2>2, AllZipped DEF PlaceInv
  <2>4. \A t \in Thread : CopiesRight(t)'
    BY <1>1, <1>12 DEF CopiesRight
  <2>5. ~Zipping(0)' /\ ~Adding(0)' /\ ~Summed'
    BY <1>2, <2>1 DEF Zipping, Adding, Summed
  <2>6. QED BY <1>5, <1>6, <1>7, <1>8, <1>9, <2>2, <2>3, <2>4, <2>5 DEF DataInv
<1>13. CASE \A u \in Thread : pc[u] = "copied" /\ Copying(u)
  <2>1. pc'[0] = "copied" /\ Copying(0)
    BY <1>1, <1>2, <1>13
  <2>2. Untouched /\ (\A x \in Limbs : IsZipped(x)) /\ \A t \in Thread : CopiesRight(t)
    BY <2>1 DEF DataInv
  <2>3. Flag'
    BY <1>1, <1>13, <2>2 DEF Flag, Untouched, Still
  <2>4. ASSUME NEW t \in Thread PROVE ThreadAdds(t)'
    <3>1. pc'[t] = "copied"
      BY <1>1, <1>13
    <3>2. CarriesRight(t)'
      BY <3>1 DEF CarriesRight
    <3>3. CopiesRight(t)'
      BY <1>1, <1>13, <2>2, ColumnsStay DEF CopiesRight, Still
    <3>4. ASSUME NEW j \in {t, HighBlock(t)} PROVE BlockAdded(t, j)'
      <4>1. Reached(t, j)' = pub.block[j]
        BY <1>1, <3>1 DEF Reached
      <4>2. /\ pub.block[j] \in Nat /\ pub.block[j + 1] \in Nat /\ pub.block[j + 1] <= pub.total
            /\ pub.total \in Nat
        BY BoundsOfThread DEF PlaceInv, Shared
      <4>3. \A x \in pub.block[j] .. pub.block[j + 1] - 1 : x \in Limbs
        BY <4>2 DEF Limbs
      <4>4. pub.block[j] .. pub.block[j] - 1 = {}
        BY <4>2
      <4>5. QED BY <1>1, <1>4, <2>2, <4>1, <4>3, <4>4 DEF BlockAdded, Untouched
    <3>5. BlockAdded(t, t)' /\ BlockAdded(t, HighBlock(t))'
      BY <3>4
    <3>6. QED BY <3>2, <3>3, <3>5 DEF ThreadAdds
  <2>5. ~Zipping(0)' /\ ~Copying(0)' /\ ~Summed'
    BY <1>2, <2>1 DEF Zipping, Copying, Summed
  <2>6. QED BY <1>5, <1>6, <1>7, <1>8, <2>3, <2>4, <2>5 DEF DataInv
<1>14. CASE \A u \in Thread : pc[u] = "added" /\ Adding(u)
  <2>1. pc'[0] = "added" /\ pc[0] = "added" /\ Adding(0) /\ InStep
    BY <1>1, <1>2, <1>14 DEF InStep
  <2>2. Frame /\ Flag /\ \A t \in Thread : ThreadAdds(t)
    BY <2>1 DEF DataInv
  <2>3. Resolving
    BY <1>14, <2>1, <2>2, AllAdded DEF PlaceInv
  <2>4. Resolving'
    <3>1. \A j : BlockLimbs(j)' = BlockLimbs(j)
      BY <1>1 DEF BlockLimbs
    <3>2. QED BY <1>1, <1>4, <2>3, <3>1 DEF Resolving, Still
  <2>5. ~Zipping(0)' /\ ~Copying(0)' /\ ~Adding(0)'
    BY <1>2, <2>1 DEF Zipping, Copying, Adding
  <2>6. QED BY <1>5, <1>6, <1>7, <1>8, <2>4, <2>5 DEF DataInv
<1>15. QED BY <1>10, <1>11, <1>12, <1>13, <1>14, StageOpen

-----------------------------------------------------------------------------
(* Publishing a step *)

(* The digits of a limb that is not zero. *)
LEMMA LimbLenFacts ==
  ASSUME NEW x \in Nat, \E d \in LineSlots(x) : digit[d] # 0
  PROVE  /\ LimbLen(x) \in 1 .. DPL
         /\ digit[Byte(x, LimbLen(x) - 1)] # 0
         /\ \A p \in LimbLen(x) .. DPL - 1 : digit[Byte(x, p)] = 0
<1>1. DPL \in Nat \ {0}
  BY LineAssumption
<1> DEFINE K == {k \in 0 .. DPL - 1 : digit[Byte(x, DPL - 1 - k)] # 0}
<1>2. K \in SUBSET Nat /\ K # {}
  <2>1. PICK d \in LineSlots(x) : digit[d] # 0
    OBVIOUS
  <2>2. PICK p \in Lanes : d = Byte(x, p)
    BY ByteSlots
  <2>3. DPL - 1 - p \in 0 .. DPL - 1 /\ DPL - 1 - (DPL - 1 - p) = p
    BY <1>1 DEF Lanes, LV_LEN
  <2>4. DPL - 1 - p \in K
    BY <2>1, <2>2, <2>3
  <2>5. QED BY <2>4
<1>3. PICK m \in K : \A k \in K : m <= k
  BY <1>2, LeastElement
<1>4. /\ DPL - m \in 1 .. DPL /\ (DPL - m) - 1 = DPL - 1 - m
      /\ \A p \in DPL - m .. DPL - 1 : /\ DPL - 1 - p \in 0 .. DPL - 1 /\ DPL - 1 - p < m
                                       /\ DPL - 1 - (DPL - 1 - p) = p
  BY <1>1, <1>3
<1>5. /\ digit[Byte(x, (DPL - m) - 1)] # 0
      /\ \A p \in DPL - m .. DPL - 1 : digit[Byte(x, p)] = 0
  <2>1. digit[Byte(x, DPL - 1 - m)] # 0
    BY <1>3
  <2>2. ASSUME NEW p \in DPL - m .. DPL - 1 PROVE digit[Byte(x, p)] = 0
    <3>1. DPL - 1 - p \notin K
      <4>1. DPL - 1 - p < m /\ m \in Int /\ DPL - 1 - p \in Int
        BY <1>3, <1>4
      <4>2. ~(m <= DPL - 1 - p)
        BY <4>1
      <4>3. QED BY <1>3, <4>2
    <3>2. QED BY <1>4, <3>1
  <2>3. QED BY <1>4, <2>1, <2>2
<1> HIDE DEF K
<1>6. \E n \in 1 .. DPL : /\ digit[Byte(x, n - 1)] # 0
                          /\ \A p \in n .. DPL - 1 : digit[Byte(x, p)] = 0
  BY <1>4, <1>5
<1>7. QED BY <1>6 DEF LimbLen, LV_LEN

(* The number held: its length, its limbs, and zeros above it. *)
HeldAs(c, n) ==
  /\ c \in Nat \ {0} /\ n \in Nat \ {0}
  /\ Vector(digit, c) /\ Vector(mirror, c) /\ LimbCount = c
  /\ LimbLen(c - 1) = n - (c - 1) * DPL
  /\ c = DivCeil(n, DPL) /\ n <= c * DPL /\ DPL - LimbLen(c - 1) = c * DPL - n
  /\ NumDigits(Current) = n /\ Current \in Number(n) /\ Proper(Current, n)
  /\ DOMAIN Current = 0 .. n - 1
  /\ \A d \in 0 .. c * DPL - 1 :
       mirror[d] = 0 /\ digit[d] = IF d < n THEN Current[d] ELSE 0

LEMMA HeldNumber ==
  ASSUME Held
  PROVE  \E c, n : HeldAs(c, n)
<1>1. PICK c \in Nat \ {0} :
        /\ Vector(digit, c) /\ Vector(mirror, c)
        /\ \A d \in 0 .. c * DPL - 1 : digit[d] \in Digit /\ mirror[d] = 0
        /\ \E d \in LineSlots(c - 1) : digit[d] # 0
  BY DEF Held
<1>2. LimbCount = c
  BY <1>1, LimbsCounted DEF LimbCount, LV_LEN
<1>3. PICK l : l = LimbLen(c - 1)
  OBVIOUS
<1>4. c - 1 \in Nat /\ (c - 1) + 1 = c
  BY <1>1
<1>5. /\ l \in 1 .. DPL /\ digit[Byte(c - 1, l - 1)] # 0
      /\ \A p \in l .. DPL - 1 : digit[Byte(c - 1, p)] = 0
  BY <1>1, <1>3, <1>4, LimbLenFacts
<1>6. (c - 1) * DPL \in Nat /\ c * DPL = (c - 1) * DPL + DPL /\ DPL \in Nat \ {0}
  BY <1>4, LineBase
<1>7. PICK n : n = (c - 1) * DPL + l
  OBVIOUS
<1>8. /\ n \in Nat \ {0} /\ (c - 1) * DPL < n /\ n <= c * DPL /\ l = n - (c - 1) * DPL
      /\ DPL - l = c * DPL - n /\ n - 1 = Byte(c - 1, l - 1) /\ n - 1 \in 0 .. n - 1
      /\ 0 .. n - 1 \subseteq 0 .. c * DPL - 1
  BY <1>5, <1>6, <1>7 DEF Byte, LV_LEN
<1>9. c = DivCeil(n, DPL)
  <2>1. /\ DivCeil(n, DPL) \in Nat
        /\ n <= c * DPL <=> DivCeil(n, DPL) <= c
        /\ n <= (c - 1) * DPL <=> DivCeil(n, DPL) <= c - 1
    BY <1>1, <1>4, <1>8, LinesOfDigits
  <2>2. ~(n <= (c - 1) * DPL)
    BY <1>6, <1>8
  <2>3. QED BY <1>1, <1>8, <2>1, <2>2
<1>10. Current = [d \in 0 .. n - 1 |-> digit[d]]
  <2>1. Current = [d \in 0 .. (LimbCount - 1) * DPL + LimbLen(LimbCount - 1) - 1 |-> digit[d]]
    BY Zenon DEF Current, LV_LEN
  <2>2. Current = [d \in 0 .. (c - 1) * DPL + l - 1 |-> digit[d]]
    BY <1>2, <1>3, <2>1, Zenon
  <2>3. (c - 1) * DPL + l - 1 = n - 1
    BY <1>5, <1>6, <1>7
  <2>4. QED BY <2>2, <2>3, Zenon
<1>11. Current \in Number(n) /\ DOMAIN Current = 0 .. n - 1
  <2>1. \A d \in 0 .. n - 1 : digit[d] \in Digit
    BY <1>1, <1>8
  <2>2. QED BY <1>10, <2>1 DEF Number
<1>12. NumDigits(Current) = n
  BY <1>8, <1>11, NumDigitsOfNumber
<1>13. Proper(Current, n)
  BY <1>5, <1>8, <1>10 DEF Proper
<1>14. ASSUME NEW d \in 0 .. c * DPL - 1
       PROVE  mirror[d] = 0 /\ digit[d] = IF d < n THEN Current[d] ELSE 0
  <2>1. CASE d < n
    BY <1>1, <1>8, <1>10, <2>1
  <2>2. CASE ~(d < n)
    <3>1. d - (c - 1) * DPL \in l .. DPL - 1 /\ d = Byte(c - 1, d - (c - 1) * DPL)
      BY <1>5, <1>6, <1>8, <2>2 DEF Byte, LV_LEN
    <3>2. digit[d] = 0
      BY <1>5, <3>1
    <3>3. QED BY <1>1, <2>2, <3>2
  <2>3. QED BY <2>1, <2>2
<1>15. HeldAs(c, n)
  BY <1>1, <1>2, <1>3, <1>8, <1>9, <1>11, <1>12, <1>13, <1>14 DEF HeldAs
<1>16. QED BY <1>15

LEMMA DataPublish ==
  ASSUME StageInv, PlaceInv, DataInv, Publish
  PROVE  DataInv'
<1>1. /\ pc[0] = "call" /\ pc' = [pc EXCEPT ![0] = "start"]
      /\ digit' = Resize(digit, LimbCount + 1) /\ mirror' = Resize(mirror, LimbCount + 1)
      /\ pub'.total = LimbCount /\ pub'.skip = DPL - LimbLen(LimbCount - 1)
      /\ everCarried' = FALSE /\ call' = [block |-> 0, carry |-> FALSE] /\ was' = Current
      /\ UNCHANGED <<blockCarry, stop, phase, ret>>
  BY DEF Publish, Goto, LV_LEN
<1>2. Alone0 /\ phase[0] = "outside" /\ pc'[0] = "start"
  BY <1>1, CoordinatorIsAThread
  DEF StageInv, Control, Stages, Ended0, Zipping, Copying, Adding, Alone0
<1>3. /\ ~Zipping(0)' /\ ~Copying(0)' /\ ~Adding(0)' /\ ~Summed' /\ InStep' /\ pc'[0] # "resolve"
  BY <1>1, <1>2 DEF Zipping, Copying, Adding, Summed, InStep
<1>4. PICK c, n : HeldAs(c, n)
  <2>1. Held
    BY <1>1 DEF DataInv, InStep
  <2>2. QED BY <2>1, HeldNumber
<1>m. PICK m : m = c * DPL
  OBVIOUS
<1>5. /\ c \in Nat \ {0} /\ n \in Nat \ {0} /\ n <= m /\ c = DivCeil(n, DPL)
      /\ Vector(digit, c) /\ Vector(mirror, c)
      /\ LimbCount = c /\ DPL - LimbLen(c - 1) = m - n
      /\ NumDigits(Current) = n /\ Current \in Number(n) /\ Proper(Current, n)
      /\ DOMAIN Current = 0 .. n - 1
      /\ \A d \in 0 .. m - 1 :
           mirror[d] = 0 /\ digit[d] = IF d < n THEN Current[d] ELSE 0
  BY <1>4, <1>m DEF HeldAs
<1>6. /\ Len' = n /\ DOMAIN was' = 0 .. n - 1 /\ IsProper(was') /\ pub'.total = c
      /\ pub'.skip = m - n
  BY <1>1, <1>5 DEF Len, IsProper
<1>7. m \in Nat /\ (c + 1) * DPL = m + DPL /\ DPL \in Nat \ {0}
  BY <1>5, <1>m, LineBase
<1>8. \A d \in 0 .. (c + 1) * DPL - 1 :
        /\ d \in 0 .. m - 1 => digit'[d] = digit[d] /\ mirror'[d] = 0
        /\ d \notin 0 .. m - 1 => digit'[d] = 0 /\ mirror'[d] = 0
  <2>1. DOMAIN digit = 0 .. m - 1 /\ DOMAIN mirror = 0 .. m - 1
    BY <1>5, <1>m DEF Vector
  <2>2. QED BY <1>1, <1>5, <2>1 DEF Resize
<1>9. \A d \in Int : Old(d)' = IF d \in 0 .. n - 1 THEN Current[d] ELSE 0
  BY <1>1, <1>6 DEF Old
<1>10. \A d \in 0 .. m - 1 : digit'[d] = Old(d)'
  <2> SUFFICES ASSUME NEW d \in 0 .. m - 1 PROVE digit'[d] = Old(d)'
    OBVIOUS
  <2>a. m \in Nat /\ n \in Nat /\ DPL \in Nat \ {0} /\ d \in 0 .. m - 1
    BY <1>5, <1>7
  <2>b. d \in 0 .. (c + 1) * DPL - 1
    <3>1. PICK M : M = (c + 1) * DPL
      OBVIOUS
    <3>2. M = m + DPL
      BY <1>7, <3>1
    <3>3. d \in 0 .. M - 1
      BY ONLY <2>a, <3>2
    <3>4. QED BY <3>1, <3>3
  <2>1. digit'[d] = IF d < n THEN Current[d] ELSE 0
    <3>1. digit'[d] = digit[d]
      BY <1>8, <2>b
    <3>2. digit[d] = IF d < n THEN Current[d] ELSE 0
      BY <1>5
    <3>3. QED BY <3>1, <3>2
  <2>2. d \in Int /\ (d < n <=> d \in 0 .. n - 1)
    BY ONLY <2>a
  <2>3. QED BY <1>9, <2>1, <2>2
<1>11. ASSUME NEW x \in 0 .. c - 1 PROVE IsOld(x)'
  <2>1. LineSlots(x) \subseteq 0 .. m - 1
    <3>1. x \in 0 .. c - 1 /\ 0 \in Nat /\ c \in Nat /\ 0 <= c /\ 0 * DPL = 0
      BY <1>5, LineMultiple, SMTT(60)
    <3>2. LineSlots(x) \subseteq 0 * DPL .. m - 1
      BY <1>m, <3>1, SlotsOfLines
    <3>3. QED BY <3>1, <3>2
  <2>2. QED BY <1>10, <2>1 DEF IsOld
<1>12. IsOld(c)' /\ IsZipped(c)'
  <2>1. ASSUME NEW d \in LineSlots(c) PROVE digit'[d] = Old(d)' /\ mirror'[d] = Facing(d)'
    <3>1. d \in 0 .. (c + 1) * DPL - 1 /\ d \notin 0 .. m - 1 /\ d \in Int /\ d \notin 0 .. n - 1
          /\ m - 1 - d \in Int /\ m - 1 - d \notin 0 .. n - 1
      <4>1. d \in m .. m + DPL - 1
        BY <1>7, <1>m DEF LineSlots
      <4>2. /\ m \in Nat /\ n \in Nat /\ n <= m /\ DPL \in Nat \ {0}
            /\ (c + 1) * DPL = m + DPL
        BY <1>5, <1>7
      <4>3. d \in 0 .. m + DPL - 1
        BY ONLY <4>1, <4>2
      <4>4. /\ d \notin 0 .. m - 1 /\ d \in Int /\ d \notin 0 .. n - 1
            /\ m - 1 - d \in Int /\ m - 1 - d \notin 0 .. n - 1
        BY ONLY <4>1, <4>2
      <4>5. QED BY <4>2, <4>3, <4>4
    <3>2. digit'[d] = 0 /\ mirror'[d] = 0 /\ Old(d)' = 0
      BY <1>8, <1>9, <3>1
    <3>3. Facing(d)' = 0
      <4>1. PICK e : e = m - 1 - d
        OBVIOUS
      <4>2. Old(e)' = 0
        BY <1>9, <3>1, <4>1
      <4>3. Facing(d)' = Old(e)'
        BY <1>6, <1>m, <4>1 DEF Facing, Old
      <4>4. QED BY <4>2, <4>3
    <3>4. QED BY <3>2, <3>3
  <2>2. QED BY <2>1 DEF IsOld, IsZipped
<1>13. Frame'
  <2>1. Vector(digit', c + 1) /\ Vector(mirror', c + 1)
    <3>1. c + 1 \in Nat
      BY <1>5
    <3>2. QED BY <1>1, <1>5, <3>1, ResizedVector
  <2>2. /\ Vector(digit, pub.total + 1)' /\ Vector(mirror, pub.total + 1)'
    BY <1>6, <2>1 DEF Vector
  <2>3. IsOld(pub.total)' /\ IsZipped(pub.total)'
    BY <1>6, <1>12 DEF IsOld, IsZipped
  <2>4. QED BY <1>1, <1>3, <1>5, <1>6, <1>m, <2>2, <2>3 DEF Frame
<1>14. Untouched'
  BY <1>1, <1>6, <1>11 DEF Untouched, Limbs
<1>15. QED BY <1>1, <1>3, <1>13, <1>14 DEF DataInv

-----------------------------------------------------------------------------
(* The carries between the blocks *)

(* What the coordinator finds, and what it makes of the next block. *)
LEMMA AtResolve ==
  ASSUME StageInv, PlaceInv, DataInv, pc[0] = "resolve"
  PROVE  /\ Shared /\ Frame /\ Resolving /\ InStep /\ ~Published
         /\ ~Zipping(0) /\ ~Copying(0) /\ ~Adding(0)
<1>1. InStep /\ Summed /\ ~Published
  BY DEF InStep, Summed, Published
<1>2. ~Zipping(0) /\ ~Copying(0) /\ ~Adding(0)
  BY DEF Zipping, Copying, Adding
<1>3. QED BY <1>1, <1>2 DEF PlaceInv, DataInv

LEMMA BlockResolved ==
  ASSUME Shared, Frame, Resolving, ResolveBlock,
         NEW lo, lo = pub.block[call.block] * DPL,
         NEW end, end = pub.block[call.block + 1] * DPL
  PROVE  /\ lo \in Nat /\ end \in Nat /\ lo <= end /\ end <= pub.total * DPL
         /\ pub.block[call.block] \in Nat /\ pub.block[call.block + 1] \in Nat
         /\ pub.block[call.block] <= pub.block[call.block + 1]
         /\ pub.block[call.block + 1] <= pub.total
         /\ DOMAIN digit' = DOMAIN digit
         /\ \A d \in DOMAIN digit : d \notin lo .. end - 1 => digit'[d] = digit[d]
         /\ \A d \in lo .. end - 1 : digit'[d] = Resolved(S[d], CarryInto(S, 0, d, FALSE))
         /\ call'.carry \in BOOLEAN
         /\ call'.carry <=> CarryInto(S, 0, end, FALSE)
<1>0. PICK j : j = call.block
  OBVIOUS
<1>1. /\ j \in 0 .. NumBlocks - 1
      /\ digit' = IF call.carry THEN Increment(digit, lo, end) ELSE digit
      /\ call'.carry = (blockCarry[j] \/ (call.carry /\ Escapes(digit, lo, end)))
  <2>1. j \in 0 .. NumBlocks /\ NumBlocks \in Nat
    BY <1>0, Blocks DEF Resolving
  <2>2. /\ j < NumBlocks
        /\ lo = pub.block[j] * LV_LEN /\ end = pub.block[j + 1] * LV_LEN
        /\ digit' = IF call.carry
                      THEN Increment(digit, pub.block[j] * LV_LEN, pub.block[j + 1] * LV_LEN)
                      ELSE digit
        /\ call' = [block |-> j + 1,
                    carry |-> CarryPast(j, pub.block[j] * LV_LEN, pub.block[j + 1] * LV_LEN)]
    BY <1>0 DEF ResolveBlock, LV_LEN
  <2>3. QED BY <2>1, <2>2 DEF CarryPast
<1>2. /\ pub.block[j] \in Nat /\ pub.block[j + 1] \in Nat /\ pub.total \in Nat
      /\ pub.block[j] <= pub.block[j + 1] /\ pub.block[j + 1] <= pub.total
  <2>1. NumBlocks \in Nat /\ j \in 0 .. NumBlocks /\ j + 1 \in 0 .. NumBlocks
        /\ j <= j + 1 /\ j + 1 <= NumBlocks /\ NumBlocks \in 0 .. NumBlocks
    BY <1>1, Blocks
  <2>2. /\ \A k \in 0 .. NumBlocks : pub.block[k] \in Nat
        /\ \A k, m \in 0 .. NumBlocks : k <= m => pub.block[k] <= pub.block[m]
        /\ pub.block[NumBlocks] = pub.total /\ pub.total \in Nat
    BY BoundsAscend DEF Shared
  <2>3. QED BY <2>1, <2>2
<1>3. /\ lo \in Nat /\ end \in Nat /\ lo <= end /\ end <= pub.total * DPL
      /\ pub.total * DPL \in Nat
      /\ \A d \in lo .. end - 1 :
           d \div DPL \in BlockLimbs(j) /\ d \in LineSlots(d \div DPL)
  <2>1. /\ lo \in Nat /\ end \in Nat /\ lo <= end
        /\ \A d \in lo .. end - 1 :
             d \div DPL \in pub.block[j] .. pub.block[j + 1] - 1
             /\ d \in LineSlots(d \div DPL)
    <3>1. PICK b, e : b = pub.block[j] /\ e = pub.block[j + 1]
      OBVIOUS
    <3>2. b \in Nat /\ e \in Nat /\ b <= e /\ lo = b * DPL /\ end = e * DPL
      BY <1>0, <1>2, <3>1
    <3>3. QED BY ONLY <3>1, <3>2, SlotsOfLines, ZenonT(60)
  <2>2. end <= pub.total * DPL /\ pub.total * DPL \in Nat
    BY <1>0, <1>2, SlotsOfLines
  <2>3. QED BY ONLY <2>1, <2>2 DEF BlockLimbs
<1>4. DOMAIN digit = 0 .. (pub.total + 1) * DPL - 1 /\ (pub.total + 1) * DPL \in Nat
      /\ pub.total * DPL <= (pub.total + 1) * DPL
  <2>1. DOMAIN digit = 0 .. (pub.total + 1) * DPL - 1
    BY DEF Frame, Vector
  <2>2. pub.total * DPL \in Nat /\ (pub.total + 1) * DPL = pub.total * DPL + DPL /\ DPL \in Nat
    BY <1>2, LineBase
  <2>3. QED BY <2>1, <2>2
<1>5. lo .. end - 1 \subseteq DOMAIN digit
  <2>1. PICK N, M : N = pub.total * DPL /\ M = (pub.total + 1) * DPL
    OBVIOUS
  <2>2. /\ N \in Nat /\ M \in Nat /\ N <= M /\ DOMAIN digit = 0 .. M - 1
        /\ lo \in Nat /\ end \in Nat /\ end <= N
    BY <1>3, <1>4, <2>1
  <2>3. QED BY ONLY <2>2
<1>6. Speculative(S, digit, lo, end)
  <2> SUFFICES ASSUME NEW d \in lo .. end - 1
               PROVE  S[d] \in 0 .. 18 /\ digit[d] = Resolved(S[d], CarryInto(S, lo, d, FALSE))
    BY DEF Speculative
  <2>1. d \in 0 .. pub.total * DPL - 1
    BY <1>3
  <2>2. S[d] \in 0 .. 18
    BY <2>1, ColumnFacts
  <2>3. j >= call.block
    BY <1>0, <1>1
  <2>4. IsSum(j, d \div DPL)
    BY <1>1, <1>3, <2>3 DEF Resolving
  <2>5. digit[d] = Resolved(S[d], CarryInto(S, pub.block[j] * DPL, d, FALSE))
    BY <1>3, <2>4 DEF IsSum
  <2>6. QED BY <1>0, <2>2, <2>5
<1>7. /\ call.carry \in BOOLEAN /\ (call.carry <=> CarryInto(S, 0, lo, FALSE))
      /\ blockCarry[j] <=> CarryInto(S, lo, end, FALSE)
  BY <1>0, <1>1 DEF Resolving
<1>8. ASSUME NEW d \in lo .. end
      PROVE  CarryInto(S, 0, d, FALSE) <=> CarryInto(S, lo, d, CarryInto(S, 0, lo, FALSE))
  <2>1. d \in Nat /\ lo <= d
    BY <1>3
  <2>2. QED BY ONLY <1>3, <2>1, CarryFromZero
<1>9. end \in lo .. end /\ \A d \in lo .. end - 1 : d \in lo .. end
  BY <1>3
<1>10. /\ DOMAIN digit' = DOMAIN digit
       /\ \A d \in DOMAIN digit : d \notin lo .. end - 1 => digit'[d] = digit[d]
  BY <1>1 DEF Increment
<1>11. CASE ~call.carry
  <2>1. digit' = digit
    BY <1>1, <1>11
  <2>2. \A d \in lo .. end : CarryInto(S, 0, d, FALSE) <=> CarryInto(S, lo, d, FALSE)
    BY <1>7, <1>8, <1>11 DEF CarryInto
  <2>3. ASSUME NEW d \in lo .. end - 1
        PROVE  digit'[d] = Resolved(S[d], CarryInto(S, 0, d, FALSE))
    <3>1. digit'[d] = Resolved(S[d], CarryInto(S, lo, d, FALSE))
      BY <1>6, <2>1 DEF Speculative
    <3>2. CarryInto(S, 0, d, FALSE) <=> CarryInto(S, lo, d, FALSE)
      BY <1>9, <2>2
    <3>3. QED BY ONLY <3>1, <3>2, ResolvedSame, ZenonT(60)
  <2>4. call'.carry <=> CarryInto(S, 0, end, FALSE)
    BY <1>1, <1>7, <1>9, <1>11, <2>2
  <2>5. call'.carry \in BOOLEAN
    BY <1>1
  <2>6. QED BY <1>0, <1>2, <1>3, <1>10, <2>3, <2>4, <2>5
<1>12. CASE call.carry
  <2>1. CarryInto(S, 0, lo, FALSE)
    BY <1>7, <1>12
  <2>2. /\ \A d \in lo .. end - 1 :
             Increment(digit, lo, end)[d] = Resolved(S[d], CarryInto(S, lo, d, TRUE))
        /\ CarryInto(S, lo, end, TRUE)
             <=> CarryInto(S, lo, end, FALSE) \/ Escapes(digit, lo, end)
    BY ONLY <1>3, <1>5, <1>6, SpeculationSound
  <2>3. \A d \in lo .. end : CarryInto(S, 0, d, FALSE) <=> CarryInto(S, lo, d, TRUE)
    BY <1>8, <2>1 DEF CarryInto
  <2>4. digit' = Increment(digit, lo, end)
    BY <1>1, <1>12
  <2>5. ASSUME NEW d \in lo .. end - 1
        PROVE  digit'[d] = Resolved(S[d], CarryInto(S, 0, d, FALSE))
    <3>1. digit'[d] = Resolved(S[d], CarryInto(S, lo, d, TRUE))
      BY <2>2, <2>4
    <3>2. CarryInto(S, 0, d, FALSE) <=> CarryInto(S, lo, d, TRUE)
      BY <1>9, <2>3
    <3>3. QED BY ONLY <3>1, <3>2, ResolvedSame, ZenonT(60)
  <2>6. call'.carry <=> CarryInto(S, 0, end, FALSE)
    BY <1>1, <1>7, <1>9, <1>12, <2>2, <2>3
  <2>7. call'.carry \in BOOLEAN
    BY <1>1
  <2>8. QED BY <1>0, <1>2, <1>3, <1>10, <2>5, <2>6, <2>7
<1>13. QED BY <1>7, <1>11, <1>12

LEMMA DataResolveBlock ==
  ASSUME StageInv, PlaceInv, DataInv, ResolveBlock
  PROVE  DataInv'
<1>0. PICK j, lo, end : /\ j = call.block
                        /\ lo = pub.block[j] * DPL /\ end = pub.block[j + 1] * DPL
  OBVIOUS
<1>1. /\ pc[0] = "resolve" /\ j < NumBlocks /\ call'.block = j + 1
      /\ UNCHANGED <<mirror, pub, blockCarry, everCarried, stop, phase, pc, loc, ret, was>>
  BY <1>0 DEF ResolveBlock, shared
<1>2. /\ Shared /\ Frame /\ Resolving /\ InStep /\ ~Published
      /\ ~Zipping(0) /\ ~Copying(0) /\ ~Adding(0)
  BY <1>1, AtResolve
<1>3. /\ lo \in Nat /\ end \in Nat /\ lo <= end /\ end <= pub.total * DPL
      /\ pub.block[j] \in Nat /\ pub.block[j + 1] \in Nat
      /\ pub.block[j] <= pub.block[j + 1] /\ pub.block[j + 1] <= pub.total
      /\ DOMAIN digit' = DOMAIN digit
      /\ \A d \in DOMAIN digit : d \notin lo .. end - 1 => digit'[d] = digit[d]
      /\ \A d \in lo .. end - 1 : digit'[d] = Resolved(S[d], CarryInto(S, 0, d, FALSE))
      /\ call'.carry \in BOOLEAN
      /\ call'.carry <=> CarryInto(S, 0, end, FALSE)
  BY <1>0, <1>2, BlockResolved, ZenonT(60)
<1>4. /\ pub.total \in Nat /\ pub.total * DPL \in Nat /\ NumBlocks \in Nat
      /\ j \in 0 .. NumBlocks - 1
      /\ DOMAIN digit = 0 .. (pub.total + 1) * DPL - 1
      /\ (pub.total + 1) * DPL = pub.total * DPL + DPL /\ DPL \in Nat \ {0}
  <2>1. pub.total \in Nat /\ NumBlocks \in Nat /\ j \in 0 .. NumBlocks
    BY <1>0, <1>2, Blocks DEF Shared, Resolving
  <2>2. QED BY <1>1, <1>2, <2>1, LineBase, SMTT(60) DEF Frame, Vector
<1>n. PICK N : N = pub.total * DPL
  OBVIOUS
<1>4a. /\ N \in Nat /\ DPL \in Nat \ {0} /\ DOMAIN digit = 0 .. N + DPL - 1
       /\ lo \in Nat /\ end \in Nat /\ lo <= end /\ end <= N
  BY <1>3, <1>4, <1>n
<1>5. /\ S' = S /\ Len' = Len /\ Limbs' = Limbs
      /\ \A d : Old(d)' = Old(d) /\ Facing(d)' = Facing(d)
      /\ \A L : Generated(L)' <=> Generated(L)
  BY <1>1, ColumnsStay
<1>6. InStep' /\ ~Published' /\ ~Zipping(0)' /\ ~Copying(0)' /\ ~Adding(0)'
  BY <1>1 DEF InStep, Published, Zipping, Copying, Adding
<1>7. Frame'
  <2>1. IsOld(pub.total)'
    <3>1. ASSUME NEW d \in LineSlots(pub.total) PROVE digit'[d] = Old(d)
      <4>1. d \in DOMAIN digit /\ d \notin lo .. end - 1
        <5>1. d \in N .. N + DPL - 1
          BY <1>4, <1>n DEF LineSlots
        <5>2. QED BY ONLY <1>4a, <5>1
      <4>2. digit[d] = Old(d)
        BY <1>2 DEF Frame, IsOld
      <4>3. QED BY <1>3, <4>1, <4>2
    <3>2. QED BY <1>1, <1>5, <3>1 DEF IsOld
  <2>2. IsZipped(pub.total)'
    BY <1>1, <1>2, <1>5 DEF Frame, IsZipped
  <2>3. Vector(digit', pub.total + 1) /\ Vector(mirror', pub.total + 1)
    BY <1>1, <1>2, <1>3 DEF Frame, Vector
  <2>4. pc'[0] # "resolve" => call' = [block |-> 0, carry |-> FALSE]
    BY <1>1
  <2>5. QED BY <1>1, <1>2, <2>1, <2>2, <2>3, <2>4, FrameStays
<1>8. ASSUME NEW k \in 0 .. NumBlocks - 1
      PROVE  /\ blockCarry'[k]
                  <=> CarryInto(S, pub.block[k] * DPL, pub.block[k + 1] * DPL, FALSE)
             /\ k >= j + 1 => \A x \in BlockLimbs(k) : IsSum(k, x)'
  <2>1. blockCarry[k] <=> CarryInto(S, pub.block[k] * DPL, pub.block[k + 1] * DPL, FALSE)
    BY <1>2 DEF Resolving
  <2>2. ASSUME k >= j + 1, NEW x \in BlockLimbs(k) PROVE IsSum(k, x)'
    <3>1. /\ pub.block[k] \in Nat /\ pub.block[k + 1] \in Nat
          /\ pub.block[j + 1] <= pub.block[k] /\ pub.block[k + 1] <= pub.total
      <4>1. /\ k \in 0 .. NumBlocks /\ k + 1 \in 0 .. NumBlocks /\ j + 1 \in 0 .. NumBlocks
            /\ j + 1 <= k /\ k + 1 <= NumBlocks /\ NumBlocks \in 0 .. NumBlocks
        BY <1>4, <2>2
      <4>2. /\ \A i \in 0 .. NumBlocks : pub.block[i] \in Nat
            /\ \A i, m \in 0 .. NumBlocks : i <= m => pub.block[i] <= pub.block[m]
            /\ pub.block[NumBlocks] = pub.total
        BY <1>2, BoundsAscend DEF Shared
      <4>3. QED BY <4>1, <4>2
    <3>2. x \in pub.block[j + 1] .. pub.total - 1
      <4>1. x \in pub.block[k] .. pub.block[k + 1] - 1
        BY <2>2 DEF BlockLimbs
      <4>2. pub.block[j + 1] \in Nat /\ pub.total \in Nat
        BY <1>3, <1>4
      <4>3. QED BY ONLY <3>1, <4>1, <4>2
    <3>3. LineSlots(x) \subseteq end .. pub.total * DPL - 1
      BY <1>0, <1>3, <1>4, <3>2, SlotsOfLines
    <3>4. ASSUME NEW d \in LineSlots(x) PROVE digit'[d] = digit[d]
      <4>1. d \in DOMAIN digit /\ d \notin lo .. end - 1
        <5>1. d \in end .. N - 1
          BY <1>n, <3>3
        <5>2. QED BY ONLY <1>4a, <5>1
      <4>2. QED BY <1>3, <4>1
    <3>5. k >= call.block
      BY <1>0, <1>4, <2>2
    <3>6. IsSum(k, x)
      BY <1>2, <2>2, <3>5 DEF Resolving
    <3>7. QED BY <1>1, <1>5, <3>4, <3>6 DEF IsSum
  <2>3. QED BY <1>1, <2>1, <2>2
<1>9. ASSUME NEW x \in Limbs, NEW d \in LineSlots(x)
      PROVE  /\ mirror'[d] = 0
             /\ d < end => digit'[d] = Resolved(S[d], CarryInto(S, 0, d, FALSE))
  <2>1. mirror[d] = 0 /\ (d < lo => digit[d] = Resolved(S[d], CarryInto(S, 0, d, FALSE)))
    BY <1>0, <1>2 DEF Resolving
  <2>2. d \in 0 .. pub.total * DPL - 1
    <3>1. x \in 0 .. pub.total - 1 /\ 0 \in Nat /\ 0 <= pub.total /\ 0 * DPL = 0
      BY <1>4, LineMultiple DEF Limbs
    <3>2. LineSlots(x) \subseteq 0 * DPL .. pub.total * DPL - 1
      BY <1>4, <3>1, SlotsOfLines
    <3>3. QED BY <3>1, <3>2
  <2>3. d \in DOMAIN digit
    <3>1. d \in 0 .. N - 1
      BY <1>n, <2>2
    <3>2. QED BY ONLY <1>4a, <3>1
  <2>4. CASE d < lo
    <3>1. d \notin lo .. end - 1
      BY <1>3, <2>2, <2>4
    <3>2. QED BY <1>1, <1>3, <2>1, <2>3, <2>4, <3>1
  <2>5. CASE ~(d < lo)
    <3>1. d < end => d \in lo .. end - 1
      BY <1>3, <2>2, <2>5
    <3>2. QED BY <1>1, <1>3, <2>1, <3>1
  <2>6. QED BY <2>4, <2>5
<1>10. Resolving'
  <2>1. everCarried' <=> Generated(Limbs)
    BY <1>1, <1>2 DEF Resolving
  <2>2. call'.block \in 0 .. NumBlocks
    BY <1>1, <1>4
  <2>3. pub'.block[call'.block] * DPL = end
    BY <1>0, <1>1
  <2>4. \A k : BlockLimbs(k)' = BlockLimbs(k)
    BY <1>1 DEF BlockLimbs
  <2>5. call'.carry <=> CarryInto(S', 0, pub'.block[call'.block] * DPL, FALSE)
    BY <1>3, <1>5, <2>3
  <2>6. \A k \in 0 .. NumBlocks - 1 :
          /\ blockCarry'[k]
               <=> CarryInto(S', pub'.block[k] * DPL, pub'.block[k + 1] * DPL, FALSE)
          /\ k >= call'.block => \A x \in BlockLimbs(k)' : IsSum(k, x)'
    BY <1>1, <1>5, <1>8, <2>4
  <2>7. \A x \in Limbs' : \A d \in LineSlots(x) :
          /\ mirror'[d] = 0
          /\ d < pub'.block[call'.block] * DPL =>
               digit'[d] = Resolved(S'[d], CarryInto(S', 0, d, FALSE))
    BY <1>5, <1>9, <2>3
  <2>8. QED BY <1>3, <1>5, <2>1, <2>2, <2>5, <2>6, <2>7 DEF Resolving
<1>11. QED BY <1>1, <1>2, <1>6, <1>7, <1>10 DEF DataInv

-----------------------------------------------------------------------------
(* The number a vector of limbs holds *)

(* Current is read off the limbs alone. *)
LengthIn(x, i) ==
  CHOOSE n \in 1 .. DPL :
    /\ x[Byte(i, n - 1)] # 0
    /\ \A p \in n .. DPL - 1 : x[Byte(i, p)] = 0

NumberIn(x) ==
  LET top == NumDigits(x) \div DPL - 1
  IN  [d \in 0 .. top * DPL + LengthIn(x, top) - 1 |-> x[d]]

(* The number y of n digits, in as few limbs as hold it. *)
Holds(x, c, y, n) ==
  /\ c \in Nat \ {0} /\ n \in Nat \ {0} /\ y \in Number(n) /\ Proper(y, n)
  /\ (c - 1) * DPL < n /\ n <= c * DPL
  /\ Vector(x, c)
  /\ \A d \in 0 .. c * DPL - 1 : x[d] = IF d < n THEN y[d] ELSE 0

LEMMA CurrentIsNumberIn ==
  Current = NumberIn(digit) /\ Current' = NumberIn(digit')
<1>1. \A i : LimbLen(i) = LengthIn(digit, i)
  BY DEF LimbLen, LengthIn, LV_LEN
<1>2. \A i : LimbLen(i)' = LengthIn(digit', i)
  BY DEF LimbLen, LengthIn, LV_LEN
<1>3. LimbCount = NumDigits(digit) \div DPL /\ LimbCount' = NumDigits(digit') \div DPL
  BY DEF LimbCount, LV_LEN
<1>4. Current = NumberIn(digit)
  BY <1>1, <1>3, Zenon DEF Current, NumberIn, LV_LEN
<1>5. Current' = NumberIn(digit')
  <2>1. Current' = [d \in 0 .. (LimbCount' - 1) * DPL + LimbLen(LimbCount - 1)' - 1 |-> digit'[d]]
    BY Zenon DEF Current, LV_LEN
  <2>2. PICK k : k = LimbCount' - 1
    OBVIOUS
  <2>3. LimbLen(LimbCount - 1)' = LimbLen(k)'
    BY <2>2 DEF LimbLen
  <2>4. Current' = [d \in 0 .. k * DPL + LengthIn(digit', k) - 1 |-> digit'[d]]
    BY <1>2, <2>1, <2>2, <2>3, Zenon
  <2>5. k = NumDigits(digit') \div DPL - 1
    BY <1>3, <2>2
  <2>6. QED BY <2>4, <2>5, Zenon DEF NumberIn
<1>6. QED BY <1>4, <1>5

LEMMA HoldsNumber ==
  ASSUME NEW x, NEW c, NEW y, NEW n, Holds(x, c, y, n)
  PROVE  NumberIn(x) = y
<1>1. /\ c \in Nat \ {0} /\ n \in Nat \ {0} /\ y \in [0 .. n - 1 -> Digit] /\ y[n - 1] # 0
      /\ Vector(x, c)
      /\ \A d \in 0 .. c * DPL - 1 : x[d] = IF d < n THEN y[d] ELSE 0
  BY DEF Holds, Number, Proper
<1>2. c - 1 \in Nat /\ (c - 1) + 1 = c
  BY <1>1
<1>3. PICK b : b = (c - 1) * DPL
  OBVIOUS
<1>4. b \in Nat /\ c * DPL = b + DPL /\ DPL \in Nat \ {0} /\ b < n /\ n <= b + DPL
  BY <1>2, <1>3, LineBase DEF Holds
<1>5. PICK l : l = n - b
  OBVIOUS
<1>6. l \in 1 .. DPL /\ n = b + l
  BY <1>1, <1>4, <1>5
<1>7. \A p \in 0 .. DPL - 1 : x[Byte(c - 1, p)] = IF p < l THEN y[b + p] ELSE 0
  <2> SUFFICES ASSUME NEW p \in 0 .. DPL - 1
               PROVE  x[Byte(c - 1, p)] = IF p < l THEN y[b + p] ELSE 0
    OBVIOUS
  <2>1. Byte(c - 1, p) = b + p
    BY <1>3 DEF Byte, LV_LEN
  <2>2. b + p \in 0 .. c * DPL - 1 /\ (b + p < n <=> p < l)
    BY <1>4, <1>6
  <2>3. QED BY <1>1, <2>1, <2>2
<1>8. LengthIn(x, c - 1) = l
  <2>1. /\ x[Byte(c - 1, l - 1)] # 0
        /\ \A p \in l .. DPL - 1 : x[Byte(c - 1, p)] = 0
    <3>1. l - 1 \in 0 .. DPL - 1 /\ l - 1 < l /\ b + (l - 1) = n - 1
      BY <1>4, <1>6
    <3>2. x[Byte(c - 1, l - 1)] # 0
      BY <1>1, <1>7, <3>1
    <3>3. \A p \in l .. DPL - 1 : p \in 0 .. DPL - 1 /\ ~(p < l)
      BY <1>4, <1>6
    <3>4. QED BY <1>7, <3>2, <3>3
  <2>2. ASSUME NEW k \in 1 .. DPL, x[Byte(c - 1, k - 1)] # 0,
               \A p \in k .. DPL - 1 : x[Byte(c - 1, p)] = 0
        PROVE  k = l
    <3>1. ~(k < l)
      <4>1. k < l => l - 1 \in k .. DPL - 1
        BY <1>4, <1>6
      <4>2. QED BY <2>1, <2>2, <4>1
    <3>2. ~(l < k)
      <4>1. l < k => k - 1 \in l .. DPL - 1
        BY <1>4, <1>6
      <4>2. QED BY <2>1, <2>2, <4>1
    <3>3. QED BY <1>4, <1>6, <3>1, <3>2
  <2>3. QED BY <1>6, <2>1, <2>2 DEF LengthIn
<1>9. NumDigits(x) \div DPL - 1 = c - 1
  BY <1>1, LimbsCounted
<1>10. NumberIn(x) = [d \in 0 .. (c - 1) * DPL + l - 1 |-> x[d]]
  BY <1>8, <1>9, Zenon DEF NumberIn
<1>11. (c - 1) * DPL + l - 1 = n - 1
  BY <1>1, <1>3, <1>4, <1>6
<1>12. NumberIn(x) = [d \in 0 .. n - 1 |-> x[d]]
  BY <1>10, <1>11, Zenon
<1>13. \A d \in 0 .. n - 1 : x[d] = y[d]
  BY <1>1, <1>4
<1>14. QED BY <1>1, <1>12, <1>13

LEMMA HoldsProper ==
  ASSUME NEW x, NEW c, NEW y, NEW n, Holds(x, c, y, n)
  PROVE  /\ \A d \in 0 .. c * DPL - 1 : x[d] \in Digit
         /\ \E d \in LineSlots(c - 1) : x[d] # 0
<1>1. /\ c \in Nat \ {0} /\ n \in Nat \ {0} /\ y \in [0 .. n - 1 -> Digit] /\ y[n - 1] # 0
      /\ \A d \in 0 .. c * DPL - 1 : x[d] = IF d < n THEN y[d] ELSE 0
      /\ (c - 1) * DPL < n /\ n <= c * DPL
  BY DEF Holds, Number, Proper
<1>2. c - 1 \in Nat /\ (c - 1) + 1 = c
  BY <1>1
<1>3. c * DPL \in Nat /\ (c - 1) * DPL \in Nat /\ LineSlots(c - 1) = (c - 1) * DPL .. c * DPL - 1
  BY <1>1, <1>2, LineBase DEF LineSlots
<1>4. \A d \in 0 .. c * DPL - 1 : x[d] \in Digit
  <2> SUFFICES ASSUME NEW d \in 0 .. c * DPL - 1 PROVE x[d] \in Digit
    OBVIOUS
  <2>1. CASE d < n
    <3>1. d \in 0 .. n - 1
      BY <1>1, <1>3, <2>1
    <3>2. QED BY <1>1, <2>1, <3>1
  <2>2. CASE ~(d < n)
    BY <1>1, <2>2 DEF Digit
  <2>3. QED BY <2>1, <2>2
<1>5. n - 1 \in LineSlots(c - 1) /\ n - 1 \in 0 .. c * DPL - 1 /\ n - 1 < n
  BY <1>1, <1>3
<1>6. x[n - 1] # 0
  BY <1>1, <1>5
<1>7. QED BY <1>4, <1>5, <1>6

-----------------------------------------------------------------------------
(* The end of a step *)

(* Below the limb on top the limbs hold the sum; a carry is left only when *)
(* the number filled them to the last digit.                               *)
LEMMA SumInLimbs ==
  ASSUME Shared, Frame, Resolving, call.block = NumBlocks,
         NEW m, m = pub.total * DPL, NEW n, n = Len + Bit(PrescanGrow(was, Len))
  PROVE  /\ m \in Nat /\ Len <= m
         /\ call.carry => m = Len /\ PrescanGrow(was, Len)
         /\ ~call.carry => n <= m
         /\ \A d \in 0 .. m - 1 :
              mirror[d] = 0 /\ digit[d] = IF d < n THEN ReverseAdd(was, Len)[d] ELSE 0
<1>1. /\ Len \in Nat \ {0} /\ m \in Nat /\ Len <= m /\ pub.total \in Nat
      /\ \A d \in 0 .. m - 1 : /\ d < Len => S[d] = Sums(was, Len)[d]
                               /\ d >= Len => S[d] = 0
  BY FrameFacts, ColumnFacts
<1>2. /\ \A d \in 0 .. Len : CarryInto(S, 0, d, FALSE) <=> CarryInto(Sums(was, Len), 0, d, FALSE)
      /\ \A d \in Len + 1 .. m : ~CarryInto(S, 0, d, FALSE)
      /\ PrescanGrow(was, Len) <=> CarryInto(S, 0, Len, FALSE)
  BY CarriesOfStep
<1>3. pub.block[NumBlocks] = pub.total
  BY <1>1, BoundsAscend DEF Shared
<1>4. call.carry <=> CarryInto(S, 0, m, FALSE)
  BY <1>3 DEF Resolving
<1>5. ASSUME NEW d \in 0 .. m - 1
      PROVE  mirror[d] = 0 /\ digit[d] = Resolved(S[d], CarryInto(S, 0, d, FALSE))
  <2>0. DPL \in Nat
    BY LineAssumption
  <2>1. 0 \in Nat /\ 0 <= pub.total /\ 0 * DPL = 0
    BY ONLY <1>1, <2>0
  <2>2. d \div DPL \in 0 .. pub.total - 1 /\ d \in LineSlots(d \div DPL)
    BY <1>1, <2>1, SlotsOfLines
  <2>3. d < pub.block[call.block] * DPL
    BY <1>1, <1>3
  <2>4. QED BY <2>2, <2>3 DEF Resolving, Limbs
<1>6. /\ PrescanGrow(was, Len) => n = Len + 1
      /\ ~PrescanGrow(was, Len) => n = Len
  BY <1>1 DEF Bit
<1>7. call.carry => m = Len /\ PrescanGrow(was, Len)
  <2>1. m # Len => m \in Len + 1 .. m
    BY <1>1
  <2>2. QED BY <1>2, <1>4, <2>1
<1>8. ~call.carry => n <= m
  <2>1. ~call.carry /\ PrescanGrow(was, Len) => m # Len
    BY <1>2, <1>4
  <2>2. QED BY <1>1, <1>6, <2>1
<1>9. ASSUME NEW d \in 0 .. m - 1
      PROVE  digit[d] = IF d < n THEN ReverseAdd(was, Len)[d] ELSE 0
  <2>0. d \in Nat
    BY <1>1
  <2>1. digit[d] = Resolved(S[d], CarryInto(S, 0, d, FALSE)) /\ d \in Nat
    BY <1>5, <2>0, Zenon
  <2>2. CASE d < Len
    <3>1. d \in 0 .. Len /\ d # Len /\ d < n
      BY <1>1, <1>6, <2>1, <2>2
    <3>2. Resolved(S[d], CarryInto(S, 0, d, FALSE))
            = Resolved(Sums(was, Len)[d], CarryInto(Sums(was, Len), 0, d, FALSE))
      <4>1. S[d] = Sums(was, Len)[d]
        BY <1>1, <2>2
      <4>2. CarryInto(S, 0, d, FALSE) <=> CarryInto(Sums(was, Len), 0, d, FALSE)
        BY <1>2, <3>1
      <4>3. QED BY ONLY <4>1, <4>2, ResolvedSame, ZenonT(60)
    <3>3. ReverseAdd(was, Len)[d]
            = Resolved(Sums(was, Len)[d], CarryInto(Sums(was, Len), 0, d, FALSE))
      <4>1. d \in 0 .. Len - 1 + Bit(PrescanGrow(was, Len))
        BY <1>1, <2>1, <2>2 DEF Bit
      <4>2. QED BY <3>1, <4>1 DEF ReverseAdd
    <3>4. QED BY <2>1, <3>1, <3>2, <3>3
  <2>3. CASE d = Len /\ PrescanGrow(was, Len)
    <3>1. S[d] = 0 /\ CarryInto(S, 0, d, FALSE) /\ d < n
      <4>1. S[d] = 0 /\ d < n
        <5>1. d >= Len /\ d < n
          <6>1. n = Len + 1 /\ d = Len
            BY <1>6, <2>3, Zenon
          <6>2. QED BY ONLY <1>1, <6>1
        <5>2. QED BY <1>1, <5>1
      <4>2. CarryInto(S, 0, Len, FALSE)
        BY <1>2, <2>3
      <4>3. QED BY <2>3, <4>1, <4>2
    <3>2. digit[d] = 1
      BY <2>1, <3>1 DEF Resolved, Bit
    <3>3. ReverseAdd(was, Len)[d] = 1
      <4>1. d \in 0 .. Len - 1 + Bit(PrescanGrow(was, Len))
        BY <1>1, <2>3 DEF Bit
      <4>2. QED BY <2>3, <4>1 DEF ReverseAdd
    <3>4. QED BY <3>1, <3>2, <3>3
  <2>4. CASE d >= Len /\ ~(d = Len /\ PrescanGrow(was, Len))
    <3>1. S[d] = 0 /\ ~(d < n)
      BY <1>1, <1>6, <2>1, <2>4
    <3>2. ~CarryInto(S, 0, d, FALSE)
      <4>1. CASE d = Len
        BY <1>2, <2>4, <4>1
      <4>2. CASE d # Len
        <5>1. d \in Len + 1 .. m
          BY <1>1, <2>1, <2>4, <4>2
        <5>2. QED BY <1>2, <5>1
      <4>3. QED BY <4>1, <4>2
    <3>3. digit[d] = 0
      BY <2>1, <3>1, <3>2 DEF Resolved, Bit
    <3>4. QED BY <3>1, <3>3
  <2>5. d < Len \/ d >= Len
    BY <1>1, <2>1
  <2>6. QED BY <2>2, <2>3, <2>4, <2>5
<1>10. QED BY <1>1, <1>5, <1>7, <1>8, <1>9

(* step() leaves the number's reverse-and-add, in limbs with free upper    *)
(* nibbles again, and returns its carry flag.                              *)
LEMMA ReturnHolds ==
  ASSUME StageInv, PlaceInv, DataInv, Return
  PROVE  \E c : /\ Holds(digit', c, ReverseAdd(was, Len), Len + Bit(PrescanGrow(was, Len)))
                /\ Vector(mirror', c)
                /\ \A d \in 0 .. c * DPL - 1 : mirror'[d] = 0
<1> DEFINE y == ReverseAdd(was, Len)
           n == Len + Bit(PrescanGrow(was, Len))
<1>1. /\ pc[0] = "resolve" /\ call.block = NumBlocks
      /\ digit' = IF call.carry THEN [digit EXCEPT ![Byte(pub.total, 0)] = 1]
                                ELSE Resize(digit, pub.total)
      /\ mirror' = Resize(mirror, LimbCount')
  BY DEF Return, Goto
<1>2. Shared /\ Frame /\ Resolving
  BY <1>1, AtResolve
<1>3. /\ Len \in Nat \ {0} /\ was \in Number(Len) /\ Proper(was, Len)
      /\ pub.total \in Nat \ {0} /\ (pub.total - 1) * DPL < Len
  BY <1>2, FrameFacts
<1>4. /\ n \in {Len, Len + 1} /\ (PrescanGrow(was, Len) => n = Len + 1)
      /\ y \in Number(n) /\ Proper(y, n)
  BY <1>3, ReverseAddProper DEF Bit
<1>5. PICK m, total : m = pub.total * DPL /\ total = pub.total
  OBVIOUS
<1>6. /\ m \in Nat /\ Len <= m
      /\ call.carry => m = Len /\ PrescanGrow(was, Len)
      /\ ~call.carry => n <= m
      /\ \A d \in 0 .. m - 1 : mirror[d] = 0 /\ digit[d] = IF d < n THEN y[d] ELSE 0
  BY <1>1, <1>2, <1>5, SumInLimbs
<1>7. /\ total \in Nat \ {0} /\ total + 1 \in Nat \ {0} /\ (total + 1) - 1 = total
      /\ total * DPL = m /\ (total + 1) * DPL = m + DPL /\ DPL \in Nat \ {0}
      /\ total - 1 \in Nat
      /\ (total - 1) * DPL \in Nat
  <2>1. total \in Nat \ {0} /\ total - 1 \in Nat
    BY <1>3, <1>5
  <2>2. (total - 1) * DPL \in Nat
    BY <2>1, LineBase
  <2>3. total * DPL = m /\ (total + 1) * DPL = m + DPL /\ DPL \in Nat \ {0}
    BY <1>5, <2>1, LineBase
  <2>4. total + 1 \in Nat \ {0} /\ (total + 1) - 1 = total
    BY <2>1
  <2>5. QED BY <2>1, <2>2, <2>3, <2>4
<1>8. /\ DOMAIN digit = 0 .. m + DPL - 1 /\ DOMAIN mirror = 0 .. m + DPL - 1
      /\ \A d \in m .. m + DPL - 1 : digit[d] = 0 /\ mirror[d] = 0
  <2>1. DOMAIN digit = 0 .. m + DPL - 1 /\ DOMAIN mirror = 0 .. m + DPL - 1
    BY <1>2, <1>5, <1>7 DEF Frame, Vector
  <2>2. ASSUME NEW d \in m .. m + DPL - 1 PROVE digit[d] = 0 /\ mirror[d] = 0
    <3>1. d \in LineSlots(pub.total)
      BY <1>5, <1>7 DEF LineSlots
    <3>2. digit[d] = Old(d) /\ mirror[d] = Old(m - 1 - d)
      BY <1>2, <1>5, <3>1 DEF Frame, IsOld, IsZipped, Facing
    <3>3. d \in Int /\ d \notin 0 .. Len - 1 /\ m - 1 - d \in Int /\ m - 1 - d \notin 0 .. Len - 1
      BY <1>3, <1>6, <1>7
    <3>4. QED BY <1>2, <3>2, <3>3, OldDigits
  <2>3. QED BY <2>1, <2>2
<1> HIDE DEF y, n
<1>9. PICK c : c = IF call.carry THEN total + 1 ELSE total
  OBVIOUS
<1>10. Holds(digit', c, y, n)
  <2>1. CASE call.carry
    <3>1. /\ c = total + 1 /\ m = Len /\ n = m + 1
      BY <1>4, <1>6, <1>9, <2>1
    <3>2. digit' = [digit EXCEPT ![m] = 1]
      <4>1. Byte(pub.total, 0) = m
        BY <1>5, <1>6 DEF Byte, LV_LEN
      <4>2. QED BY <1>1, <2>1, <4>1
    <3>3. Vector(digit', c)
      BY <1>7, <1>8, <3>1, <3>2 DEF Vector
    <3>4. ASSUME NEW d \in 0 .. c * DPL - 1
          PROVE  digit'[d] = IF d < n THEN y[d] ELSE 0
      <4>1. d \in 0 .. m + DPL - 1 /\ d \in DOMAIN digit
        BY <1>7, <1>8, <3>1
      <4>2. CASE d < m
        <5>1. d \in 0 .. m - 1 /\ d < n /\ d # m
          BY <1>6, <3>1, <4>1, <4>2
        <5>2. QED BY <1>6, <3>2, <4>1, <5>1
      <4>3. CASE d = m
        <5>1. digit'[d] = 1 /\ d < n
          BY <1>6, <3>1, <3>2, <4>1, <4>3
        <5>2. y[d] = 1
          <6>1. Len \in 0 .. Len - 1 + Bit(PrescanGrow(was, Len))
            BY <1>3, <1>6, <2>1 DEF Bit
          <6>2. QED BY <3>1, <4>3, <6>1 DEF ReverseAdd, y
        <5>3. QED BY <5>1, <5>2
      <4>4. CASE d > m
        <5>1. d \in m .. m + DPL - 1 /\ ~(d < n) /\ d # m
          BY <1>6, <1>7, <3>1, <4>1, <4>4
        <5>2. QED BY <1>8, <3>2, <4>1, <5>1
      <4>5. d < m \/ d = m \/ d > m
        BY <1>6, <4>1
      <4>6. QED BY <4>2, <4>3, <4>4, <4>5
    <3>5. n \in Nat \ {0} /\ (c - 1) * DPL < n /\ n <= c * DPL
      BY <1>6, <1>7, <3>1
    <3>6. QED BY <1>4, <1>7, <3>1, <3>3, <3>4, <3>5 DEF Holds
  <2>2. CASE ~call.carry
    <3>1. c = total /\ digit' = Resize(digit, total)
      BY <1>1, <1>5, <1>9, <2>2
    <3>2. Vector(digit', c)
      BY <1>7, <3>1, ResizedVector
    <3>3. \A d \in 0 .. c * DPL - 1 : digit'[d] = IF d < n THEN y[d] ELSE 0
      <4>1. \A d \in 0 .. m - 1 : d \in DOMAIN digit
        BY <1>6, <1>7, <1>8
      <4>2. QED BY <1>6, <1>7, <3>1, <4>1 DEF Resize
    <3>4. n \in Nat \ {0} /\ (c - 1) * DPL < n /\ n <= c * DPL
      BY <1>3, <1>4, <1>5, <1>6, <1>7, <2>2, <3>1
    <3>5. QED BY <1>4, <1>7, <3>1, <3>2, <3>3, <3>4 DEF Holds
  <2>3. QED BY <2>1, <2>2
<1>11. c \in Nat /\ c * DPL \in Nat /\ c * DPL <= m + DPL
  BY <1>6, <1>7, <1>9
<1>12. LimbCount' = c
  <2>1. Vector(digit', c)
    BY <1>10 DEF Holds
  <2>2. QED BY <1>11, <2>1, LimbsCounted DEF LimbCount, LV_LEN
<1>13. Vector(mirror', c)
  BY <1>1, <1>11, <1>12, ResizedVector
<1>14. ASSUME NEW d \in 0 .. c * DPL - 1 PROVE mirror'[d] = 0
  <2>1. d \in 0 .. m - 1 \/ d \in m .. m + DPL - 1
    BY <1>6, <1>7, <1>11
  <2>2. mirror[d] = 0
    BY <1>6, <1>8, <2>1
  <2>3. QED BY <1>1, <1>12, <2>2 DEF Resize
<1>15. QED BY <1>10, <1>13, <1>14 DEF y, n

LEMMA ReturnIsStep ==
  ASSUME StageInv, PlaceInv, DataInv, Return
  PROVE  /\ Current' = ReverseAdd(was, NumDigits(was))
         /\ ret' = AnyCarried(was, NumDigits(was))
         /\ InStep /\ ~InStep'
         /\ DataInv'
<1>1. /\ pc[0] = "resolve" /\ pc'[0] = "call" /\ ret' = everCarried
      /\ UNCHANGED <<blockCarry, everCarried>>
  BY CoordinatorIsAThread DEF Return, Goto, shared, StageInv, Control
<1>2. Shared /\ Frame /\ Resolving /\ InStep /\ everCarried \in BOOLEAN
  BY <1>1, AtResolve DEF DataInv
<1>3. PICK c : /\ Holds(digit', c, ReverseAdd(was, Len), Len + Bit(PrescanGrow(was, Len)))
               /\ Vector(mirror', c)
               /\ \A d \in 0 .. c * DPL - 1 : mirror'[d] = 0
  BY ReturnHolds
<1>4. Current' = ReverseAdd(was, Len)
  BY <1>3, HoldsNumber, CurrentIsNumberIn
<1>5. everCarried <=> AnyCarried(was, Len)
  <2>1. /\ Len \in Nat \ {0} /\ was \in Number(Len) /\ pub.total \in Nat
        /\ pub.total * DPL \in Nat /\ Len <= pub.total * DPL
        /\ \A d \in 0 .. pub.total * DPL - 1 : /\ d < Len => S[d] = Sums(was, Len)[d]
                                               /\ d >= Len => S[d] = 0
    BY <1>2, FrameFacts, ColumnFacts
  <2>2. DPL \in Nat
    BY LineAssumption
  <2>3. 0 \in Nat /\ 0 <= pub.total /\ 0 * DPL = 0
    BY ONLY <2>1, <2>2
  <2>4. everCarried <=> \E d \in 0 .. pub.total * DPL - 1 : S[d] > 9
    BY <1>2, <2>1, <2>3, GeneratedInLimbs DEF Resolving, Limbs
  <2>5. \A d \in 0 .. Len - 1 : d \in 0 .. pub.total * DPL - 1 /\ d < Len
    BY <2>1
  <2>6. \A d \in 0 .. pub.total * DPL - 1 : S[d] > 9 => d \in 0 .. Len - 1
    BY <2>1
  <2>7. everCarried <=> \E d \in 0 .. Len - 1 : Sums(was, Len)[d] > 9
    BY <2>1, <2>4, <2>5, <2>6
  <2>8. QED BY <2>1, <2>7, CarriedIffGenerated
<1>6. ret' = AnyCarried(was, Len)
  BY <1>1, <1>2, <1>5 DEF AnyCarried
<1>7. Held'
  <2>1. c \in Nat \ {0} /\ Vector(digit', c)
    BY <1>3 DEF Holds
  <2>2. /\ \A d \in 0 .. c * DPL - 1 : digit'[d] \in Digit
        /\ \E d \in LineSlots(c - 1) : digit'[d] # 0
    BY <1>3, HoldsProper
  <2>3. QED BY <1>3, <2>1, <2>2 DEF Held, Vector
<1>8. /\ ~InStep' /\ ~Published' /\ ~Zipping(0)' /\ ~Copying(0)' /\ ~Adding(0)' /\ ~Summed'
  BY <1>1 DEF InStep, Published, Zipping, Copying, Adding, Summed
<1>9. DataInv'
  BY <1>1, <1>2, <1>7, <1>8 DEF DataInv
<1>10. QED BY <1>2, <1>4, <1>6, <1>8, <1>9 DEF Len

-----------------------------------------------------------------------------
(* The invariant *)

(* The engine is given a number in as few limbs as hold it. *)
LEMMA InitHolds ==
  ASSUME Init
  PROVE  \E c : \E x \in Start :
           /\ Holds(digit, c, x, NumDigits(x))
           /\ Vector(mirror, c)
           /\ \A d \in 0 .. c * DPL - 1 : mirror[d] = 0
<1>1. PICK x \in Start : digit = Resize(x, DivCeil(NumDigits(x), DPL))
  BY DEF Init, LV_LEN
<1>2. PICK n, c : n = NumDigits(x) /\ c = DivCeil(n, DPL)
  OBVIOUS
<1>3. n \in Nat \ {0} /\ x \in Number(n) /\ Proper(x, n)
  BY <1>2, NumberAssumption DEF IsProper, Proper
<1>4. c \in Nat \ {0} /\ n <= c * DPL /\ (c - 1) * DPL < n
  BY <1>2, <1>3, LinesOfDigits
<1>5. digit = [d \in 0 .. c * DPL - 1 |-> IF d \in DOMAIN x THEN x[d] ELSE 0]
  BY <1>1, <1>2 DEF Resize
<1>6. Vector(digit, c) /\ Vector(mirror, c) /\ \A d \in 0 .. c * DPL - 1 : mirror[d] = 0
  BY <1>5 DEF Init, Vector
<1>7. \A d \in 0 .. c * DPL - 1 : digit[d] = IF d < n THEN x[d] ELSE 0
  <2>1. DOMAIN x = 0 .. n - 1
    BY <1>3 DEF Number
  <2>2. \A d \in 0 .. c * DPL - 1 : d < n <=> d \in DOMAIN x
    BY <1>3, <2>1
  <2>3. QED BY <1>5, <2>2
<1>8. Holds(digit, c, x, n)
  BY <1>3, <1>4, <1>6, <1>7 DEF Holds
<1>9. QED BY <1>2, <1>6, <1>8

LEMMA DataInit == Init => DataInv
<1> SUFFICES ASSUME Init PROVE DataInv
  OBVIOUS
<1>1. PICK c : \E x \in Start :
        /\ Holds(digit, c, x, NumDigits(x))
        /\ Vector(mirror, c)
        /\ \A d \in 0 .. c * DPL - 1 : mirror[d] = 0
  BY InitHolds
<1>2. PICK x \in Start :
        /\ Holds(digit, c, x, NumDigits(x))
        /\ Vector(mirror, c)
        /\ \A d \in 0 .. c * DPL - 1 : mirror[d] = 0
  BY <1>1
<1>3. Held
  <2>1. c \in Nat \ {0} /\ Vector(digit, c)
    BY <1>2 DEF Holds
  <2>2. /\ \A d \in 0 .. c * DPL - 1 : digit[d] \in Digit
        /\ \E d \in LineSlots(c - 1) : digit[d] # 0
    BY <1>2, HoldsProper
  <2>3. QED BY <1>2, <2>1, <2>2 DEF Held
<1>4. /\ pc[0] = "call" /\ ret = TRUE /\ everCarried = FALSE
      /\ DOMAIN blockCarry = 0 .. NumBlocks - 1
  BY CoordinatorIsAThread DEF Init
<1>5. /\ ~InStep /\ ~Published /\ ~Zipping(0) /\ ~Copying(0) /\ ~Adding(0) /\ ~Summed
  BY <1>4 DEF InStep, Published, Zipping, Copying, Adding, Summed
<1>6. ret \in BOOLEAN /\ everCarried \in BOOLEAN
  <2>1. TRUE \in BOOLEAN /\ FALSE \in BOOLEAN
    OBVIOUS
  <2>2. QED BY <1>4, <2>1, Zenon
<1>7. QED BY <1>3, <1>4, <1>5, <1>6 DEF DataInv

Inv == StageInv /\ PlaceInv /\ Fresh /\ DataInv

LEMMA DataStep == Inv /\ [Next]_vars => DataInv'
<1> SUFFICES ASSUME Inv, [Next]_vars PROVE DataInv'
  OBVIOUS
<1>1. StageInv /\ PlaceInv /\ Fresh /\ DataInv /\ StageInv'
  BY StageStep DEF Inv
<1>2. CASE Publish
  BY <1>1, <1>2, DataPublish
<1>3. CASE Open
  BY <1>1, <1>3, DataOpen
<1>4. ASSUME NEW t \in Thread, ThreadStep(t) PROVE DataInv'
  <2>1. CASE Arrive(t) \/ Exit(t) \/ Rejoin(t)
    BY <1>1, <2>1, DataControl
  <2>2. CASE Enter(t)
    BY <1>1, <2>2, DataEnter
  <2>3. CASE ZipPair(t)
    BY <1>1, <2>3, DataZipPair
  <2>4. CASE EndZip(t)
    BY <1>1, <2>4, DataEndZip
  <2>5. CASE Copy(t)
    BY <1>1, <2>5, DataCopy
  <2>6. CASE StartAdd(t)
    BY <1>1, <2>6, DataStartAdd
  <2>7. CASE AddLimb(t)
    BY <1>1, <2>7, DataAddLimb
  <2>8. CASE EndLow(t)
    BY <1>1, <2>8, DataEndLow
  <2>9. CASE EndHigh(t)
    BY <1>1, <2>9, DataEndHigh
  <2>10. QED BY <1>4, <2>1, <2>2, <2>3, <2>4, <2>5, <2>6, <2>7, <2>8, <2>9 DEF ThreadStep
<1>5. CASE ResolveBlock
  BY <1>1, <1>5, DataResolveBlock
<1>6. CASE Return
  BY <1>1, <1>6, ReturnIsStep
<1>7. CASE Drop \/ LeaveDrop \/ Join \/ Dropped \/ UNCHANGED vars
  BY <1>1, <1>7, DataControl
<1>8. QED BY <1>2, <1>3, <1>4, <1>5, <1>6, <1>7 DEF Next, Coordination

LEMMA Invariance == Spec => []Inv
<1>1. Init => Inv
  BY StageInit, PlaceInit, FreshInit, DataInit DEF Inv
<1>2. Inv /\ [Next]_vars => Inv'
  BY StageStep, PlaceStep, FreshStep, DataStep DEF Inv
<1>3. QED BY <1>1, <1>2, PTL DEF Spec

(* Every limb is added from the digits of the number as it was and of its  *)
(* reversal, however much of both has been overwritten by then, by the     *)
(* thread itself or by the one whose block follows (the copies run_phases  *)
(* takes, parallel/mod.rs, and add_block reads, integer_limb/mod.rs).      *)
THEOREM OperandsAreOld == Spec => []OperandsOfOldNumber
<1>1. Inv => OperandsOfOldNumber
  <2> SUFFICES ASSUME Inv, NEW t \in Thread, pc[t] \in {"low", "high"},
                      loc[t].at < pub.block[BlockOf(t) + 1], NEW p \in Lanes
               PROVE  /\ digit[Byte(loc[t].at, p)] = Old(Byte(loc[t].at, p))
                      /\ Operand(t, p) = Old(NumDigits(was) - 1 - Byte(loc[t].at, p))
    BY DEF OperandsOfOldNumber, Old
  <2>1. StageInv /\ PlaceInv /\ DataInv
    BY DEF Inv
  <2>2. Adding(t) /\ Adding(0) /\ InStep
    BY <2>1, StageAt, CoordinatorStage
  <2>3. Frame /\ ThreadAdds(t) /\ Shared /\ AtPlace(t)
    BY <2>1, <2>2 DEF DataInv, PlaceInv
  <2>4. PICK i : i = loc[t].at
    OBVIOUS
  <2>5. /\ digit[Byte(i, p)] = Old(Byte(i, p))
        /\ Operand(t, p) = Old(Len - 1 - Byte(i, p))
    BY <2>3, <2>4, OperandsRight
  <2>6. QED BY <2>4, <2>5 DEF Len
<1>2. QED BY <1>1, Invariance, PTL

-----------------------------------------------------------------------------
(* The refinement *)

(* The number as the caller sees it. *)
Seen == IF InStep THEN was ELSE Current

LEMMA EngineStarts == Init => Loop!Init
<1> SUFFICES ASSUME Init PROVE Loop!Init
  OBVIOUS
<1>1. PICK c : \E x \in Start : Holds(digit, c, x, NumDigits(x))
  BY InitHolds
<1>2. PICK x \in Start : Holds(digit, c, x, NumDigits(x))
  BY <1>1
<1>3. Current = x
  BY <1>2, HoldsNumber, CurrentIsNumberIn
<1>4. ret = TRUE /\ ~InStep
  BY CoordinatorIsAThread DEF Init, InStep
<1>5. QED BY <1>3, <1>4 DEF Loop!Init

(* Between a call of step() and its return the number is what it was; in   *)
(* between two calls nobody touches the limbs.                             *)
LEMMA NumberKept ==
  ASSUME Inv, [Next]_vars, ~Return
  PROVE  Seen' = Seen /\ ret' = ret
<1>1. DOMAIN pc = Thread /\ 0 \in Thread
  BY CoordinatorIsAThread DEF Inv, StageInv, Control
<1>2. CASE Publish
  <2>1. pc[0] = "call" /\ pc'[0] = "start" /\ was' = Current /\ ret' = ret
    BY <1>1, <1>2 DEF Publish, Goto
  <2>2. QED BY <2>1 DEF Seen, InStep
<1>3. CASE Drop \/ LeaveDrop \/ Join
  <2>1. /\ pc[0] \in {"call", "drop", "join"} /\ pc'[0] \in {"drop", "join", "dropped"}
        /\ digit' = digit /\ ret' = ret
    BY <1>1, <1>3 DEF Drop, LeaveDrop, Join, Goto, limbs, caller
  <2>2. ~InStep /\ ~InStep'
    BY <2>1 DEF InStep
  <2>3. Current' = Current
    BY <2>1, CurrentIsNumberIn
  <2>4. QED BY <2>1, <2>2, <2>3 DEF Seen
<1>4. CASE Open \/ Dropped \/ UNCHANGED vars
  <2>1. pc' = pc /\ digit' = digit /\ was' = was /\ ret' = ret
    BY <1>4 DEF Open, Dropped, vars, limbs, caller
  <2>2. Current' = Current
    BY <2>1, CurrentIsNumberIn
  <2>3. QED BY <2>1, <2>2 DEF Seen, InStep
<1>5. ASSUME NEW t \in Thread, ThreadStep(t)
      PROVE  Seen' = Seen /\ ret' = ret
  <2>1. was' = was /\ ret' = ret
    BY <1>5, ZenonT(60)
    DEF ThreadStep, Arrive, Enter, Exit, ZipPair, EndZip, Copy, StartAdd, AddLimb, EndLow,
        EndHigh, Rejoin, caller
  <2>2. InStep' <=> InStep
    BY <1>1, <1>5, ZenonT(60)
    DEF ThreadStep, Arrive, Enter, Exit, ZipPair, EndZip, Copy, StartAdd, AddLimb, EndLow,
        EndHigh, Rejoin, Goto, InStep
  <2>3. CASE AddLimb(t)
    <3>1. InStep
      BY <2>3, StageAt, CoordinatorStage DEF AddLimb, Inv
    <3>2. QED BY <2>1, <2>2, <3>1 DEF Seen
  <2>4. CASE ~AddLimb(t)
    <3>1. digit' = digit
      BY <1>5, <2>4
      DEF ThreadStep, Arrive, Enter, Exit, ZipPair, EndZip, Copy, StartAdd, EndLow, EndHigh,
          Rejoin, limbs
    <3>2. Current' = Current
      BY <3>1, CurrentIsNumberIn
    <3>3. QED BY <2>1, <2>2, <3>2 DEF Seen
  <2>5. QED BY <2>3, <2>4, SMTT(60)
<1>6. CASE ResolveBlock
  <2>1. pc[0] = "resolve" /\ pc' = pc /\ was' = was /\ ret' = ret
    BY <1>6 DEF ResolveBlock
  <2>2. QED BY <2>1 DEF Seen, InStep
<1>7. QED BY <1>2, <1>3, <1>4, <1>5, <1>6 DEF Next, Coordination

(* The loop's arithmetic is the engine's. *)
LEMMA SameArithmetic ==
  ASSUME NEW x, NEW n
  PROVE  /\ Loop!NumDigits(x) = NumDigits(x)
         /\ Loop!ReverseAdd(x, n) = ReverseAdd(x, n)
         /\ Loop!AnyCarried(x, n) = AnyCarried(x, n)
<1>1. Loop!Sums(x, n) = Sums(x, n)
  BY DEF Loop!Sums, Sums
<1>2. ASSUME NEW s, NEW lo, NEW d, NEW c
      PROVE  Loop!CarryInto(s, lo, d, c) = CarryInto(s, lo, d, c)
  BY DEF Loop!CarryInto, CarryInto
<1>3. ASSUME NEW v, NEW c PROVE Loop!Resolved(v, c) = Resolved(v, c)
  BY DEF Loop!Resolved, Resolved, Loop!Bit, Bit
<1>4. Loop!PrescanGrow(x, n) = PrescanGrow(x, n)
  BY <1>1 DEF Loop!PrescanGrow, PrescanGrow
<1>5. Loop!ReverseAdd(x, n) = ReverseAdd(x, n)
  BY <1>1, <1>2, <1>3, <1>4 DEF Loop!ReverseAdd, ReverseAdd, Loop!Bit, Bit
<1>6. Loop!AnyCarried(x, n) = AnyCarried(x, n)
  BY <1>1, <1>2 DEF Loop!AnyCarried, AnyCarried
<1>7. Loop!NumDigits(x) = NumDigits(x)
  BY DEF Loop!NumDigits, NumDigits, Loop!Cardinality, Cardinality
<1>8. QED BY <1>5, <1>6, <1>7

LEMMA EngineSteps == Inv /\ [Next]_vars => [Loop!Next]_(Loop!vars)
<1> SUFFICES ASSUME Inv, [Next]_vars PROVE [Loop!Next]_(Loop!vars)
  OBVIOUS
<1>1. CASE Return
  <2>1. /\ Current' = ReverseAdd(was, NumDigits(was)) /\ ret' = AnyCarried(was, NumDigits(was))
        /\ InStep /\ ~InStep'
    BY <1>1, ReturnIsStep DEF Inv
  <2>2. QED BY <2>1, SameArithmetic DEF Loop!Next, Loop!Step
<1>2. CASE ~Return
  BY <1>2, NumberKept DEF Loop!vars, Seen
<1>3. QED BY <1>1, <1>2

(* The byte engine is the reverse-and-add loop: whatever the threads'      *)
(* interleaving, and though it destroys its operand on the way, every      *)
(* return of step() has replaced the number by the sum of itself and its   *)
(* reversal and has returned that addition's carry flag ("a drop-in        *)
(* equivalent of fused_reverse_add_asm_interleave", parallel/mod.rs        *)
(* 281-282).                                                               *)
THEOREM ByteEngineIsReverseAddLoop == Spec => ImplementsReverseAdd
<1>1. Init => Loop!Init
  BY EngineStarts
<1>2. Inv /\ [Next]_vars => [Loop!Next]_(Loop!vars)
  BY EngineSteps
<1>3. QED BY <1>1, <1>2, Invariance, PTL DEF Spec, ImplementsReverseAdd, Loop!Spec

=============================================================================
