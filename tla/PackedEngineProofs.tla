------------------------- MODULE PackedEngineProofs -------------------------
(***************************************************************************)
(* The packed engine's pool, for any number of threads, starting numbers   *)
(* of any length, lines of any number of digits and chunks of any size:    *)
(* the coordinator is alone when it touches what the workers share, the    *)
(* lines of a pass are divided among the threads without overlap, and the  *)
(* engine implements the reverse-and-add loop: whatever the interleaving,  *)
(* a step replaces the number by its reverse-and-add and reports its carry *)
(* flag.                                                                   *)
(*                                                                         *)
(* The proof has three layers, each an invariant of its own that rests on  *)
(* the ones before it: AloneInv says where the threads can be, LinesInv    *)
(* which lines each of them has written, and DataInv what those lines, the *)
(* carries and the number hold.                                            *)
(***************************************************************************)
EXTENDS PackedEngine, ArithmeticProofs

-----------------------------------------------------------------------------
(* Where the threads can be, relative to the coordinator *)

Worker == Thread \ {0}

(* Between the passes: out of the last one, not yet through the start      *)
(* barrier.                                                                *)
Between(t) ==
  \/ pc[t] = "start" /\ phase[t] \in {"outside", "waiting"}
  \/ pc[t] = "end" /\ phase[t] = "released"

(* Through the start barrier, not yet through the end barrier.             *)
Within(t) ==
  \/ pc[t] = "start" /\ phase[t] = "released"
  \/ pc[t] \in {"low", "high"} /\ phase[t] = "outside"
  \/ pc[t] = "end" /\ phase[t] \in {"outside", "waiting"}

(* Through the start barrier that Drop opens.                              *)
Leaving(t) ==
  \/ pc[t] = "start" /\ phase[t] = "released"
  \/ pc[t] = "exited" /\ phase[t] = "outside"

(* The coordinator's part of the same three stages. *)
Apart0 ==
  \/ pc[0] \in {"call", "resolve"} /\ phase[0] = "outside"
  \/ pc[0] \in {"start", "drop"} /\ phase[0] \in {"outside", "waiting"}
  \/ pc[0] = "end" /\ phase[0] = "released"

Ended0 ==
  \/ pc[0] = "drop" /\ phase[0] = "released"
  \/ pc[0] \in {"join", "dropped"} /\ phase[0] = "outside"

Control ==
  /\ pc \in [Thread -> {"call", "start", "low", "high", "end", "resolve",
                        "drop", "join", "dropped", "exited"}]
  /\ phase \in [Thread -> {"outside", "waiting", "released"}]

(* All threads are in one stage, and stop is set in the last one, and      *)
(* before it as soon as the coordinator is in Drop.                        *)
Stages ==
  /\ stop \in BOOLEAN
  /\ stop <=> pc[0] \in {"drop", "join", "dropped"}
  /\ \/ Apart0 /\ \A t \in Worker : Between(t)
     \/ \A t \in Thread : Within(t)
     \/ Ended0 /\ \A t \in Worker : Leaving(t)

AloneInv == Control /\ Stages

-----------------------------------------------------------------------------

LEMMA CoordinatorIsAThread == 0 \in Thread /\ Worker \subseteq Thread
  BY PoolAssumption DEF Thread, Worker

LEMMA AloneInit == Init => AloneInv
<1> SUFFICES ASSUME Init PROVE AloneInv
  OBVIOUS
<1>1. Control
  BY DEF Init, TheBarrier!Init, Control
<1>2. stop = FALSE /\ pc[0] = "call" /\ phase[0] = "outside"
  BY CoordinatorIsAThread DEF Init, TheBarrier!Init
<1>3. \A t \in Worker : Between(t)
  BY CoordinatorIsAThread DEF Init, TheBarrier!Init, Between, Worker
<1>4. stop \in BOOLEAN /\ (stop <=> pc[0] \in {"drop", "join", "dropped"})
  BY <1>2
<1>5. Apart0
  BY <1>2 DEF Apart0
<1>6. QED BY <1>1, <1>3, <1>4, <1>5 DEF AloneInv, Stages

(* The coordinator's own moves between two passes leave the workers where  *)
(* they are.                                                               *)
LEMMA AlonePublish == AloneInv /\ Publish => AloneInv'
  BY CoordinatorIsAThread DEF AloneInv, Control, Stages, Apart0, Ended0, Between, Within, Leaving, Worker, Publish, Goto

LEMMA AloneDrop == AloneInv /\ Drop => AloneInv'
  BY CoordinatorIsAThread DEF AloneInv, Control, Stages, Apart0, Ended0, Between, Within, Leaving, Worker, Drop, Goto

LEMMA AloneArrive ==
  ASSUME AloneInv, NEW t \in Thread, Arrive(t)
  PROVE  AloneInv'
  BY CoordinatorIsAThread DEF AloneInv, Control, Stages, Apart0, Ended0, Between, Within, Leaving, Worker, Arrive, TheBarrier!Arrive

LEMMA AloneOpen == AloneInv /\ Open => AloneInv'
  BY CoordinatorIsAThread DEF AloneInv, Control, Stages, Apart0, Ended0, Between, Within, Leaving, Worker, Open, TheBarrier!Open

LEMMA AloneEnter ==
  ASSUME AloneInv, NEW t \in Thread, Enter(t)
  PROVE  AloneInv'
<1>1. /\ pc[t] = "start" /\ phase[t] = "released" /\ ~(stop /\ t # 0)
      /\ pc' = [pc EXCEPT ![t] = "low"] /\ phase' = [phase EXCEPT ![t] = "outside"]
      /\ stop' = stop
  BY DEF Enter, Goto, TheBarrier!Leave
<1>2. Control'
  BY <1>1 DEF AloneInv, Control
<1>3. \A u \in Thread : Within(u)
  BY <1>1, CoordinatorIsAThread
  DEF AloneInv, Control, Stages, Apart0, Ended0, Between, Within, Leaving, Worker
<1>4. \A u \in Thread : Within(u)'
  BY <1>1, <1>3 DEF AloneInv, Control, Within
<1>5. stop' \in BOOLEAN /\ (stop' <=> pc'[0] \in {"drop", "join", "dropped"})
  BY <1>1, CoordinatorIsAThread DEF AloneInv, Control, Stages
<1>6. QED BY <1>2, <1>4, <1>5 DEF AloneInv, Stages

LEMMA AloneExit ==
  ASSUME AloneInv, NEW t \in Thread, Exit(t)
  PROVE  AloneInv'
<1>1. /\ pc[t] = "start" /\ phase[t] = "released" /\ stop /\ t # 0
      /\ pc' = [pc EXCEPT ![t] = "exited"] /\ phase' = [phase EXCEPT ![t] = "outside"]
      /\ stop' = stop
  BY DEF Exit, Goto, TheBarrier!Leave
<1>2. Control'
  BY <1>1 DEF AloneInv, Control
<1>3. Ended0 /\ \A u \in Worker : Leaving(u)
  BY <1>1, CoordinatorIsAThread
  DEF AloneInv, Control, Stages, Apart0, Ended0, Between, Within, Leaving, Worker
<1>4. Ended0'
  BY <1>1, <1>3, CoordinatorIsAThread DEF AloneInv, Control, Ended0
<1>5. \A u \in Worker : Leaving(u)'
  BY <1>1, <1>3, CoordinatorIsAThread DEF AloneInv, Control, Leaving
<1>6. stop' \in BOOLEAN /\ (stop' <=> pc'[0] \in {"drop", "join", "dropped"})
  BY <1>1, CoordinatorIsAThread DEF AloneInv, Control, Stages
<1>7. QED BY <1>2, <1>4, <1>5, <1>6 DEF AloneInv, Stages

(* A thread that is at work goes on within the pass. *)
LEMMA AloneAtWork ==
  ASSUME AloneInv, NEW t \in Thread, NEW from \in {"low", "high"},
         NEW to \in {"low", "high", "end"}, Goto(t, from, to),
         phase' = phase, stop' = stop
  PROVE  AloneInv'
<1>1. pc[t] = from /\ pc' = [pc EXCEPT ![t] = to]
  BY DEF Goto
<1>2. Control'
  BY <1>1 DEF AloneInv, Control
<1>3. \A u \in Thread : Within(u)
  BY <1>1, CoordinatorIsAThread
  DEF AloneInv, Control, Stages, Apart0, Ended0, Between, Within, Leaving, Worker
<1>4. \A u \in Thread : Within(u)'
  BY <1>1, <1>3 DEF AloneInv, Control, Within
<1>5. stop' \in BOOLEAN /\ (stop' <=> pc'[0] \in {"drop", "join", "dropped"})
  BY <1>1, CoordinatorIsAThread DEF AloneInv, Control, Stages
<1>6. QED BY <1>2, <1>4, <1>5 DEF AloneInv, Stages

LEMMA AloneRejoin ==
  ASSUME AloneInv, NEW t \in Thread, Rejoin(t)
  PROVE  AloneInv'
<1>1. /\ pc[t] = "end" /\ phase[t] = "released"
      /\ pc' = [pc EXCEPT ![t] = IF t = 0 THEN "resolve" ELSE "start"]
      /\ phase' = [phase EXCEPT ![t] = "outside"] /\ stop' = stop
  BY DEF Rejoin, Goto, TheBarrier!Leave
<1>2. Control'
  BY <1>1 DEF AloneInv, Control
<1>3. Apart0 /\ \A u \in Worker : Between(u)
  BY <1>1, CoordinatorIsAThread
  DEF AloneInv, Control, Stages, Apart0, Ended0, Between, Within, Leaving, Worker
<1>4. Apart0'
  BY <1>1, <1>3, CoordinatorIsAThread DEF AloneInv, Control, Apart0
<1>5. \A u \in Worker : Between(u)'
  BY <1>1, <1>3, CoordinatorIsAThread DEF AloneInv, Control, Between, Worker
<1>6. stop' \in BOOLEAN /\ (stop' <=> pc'[0] \in {"drop", "join", "dropped"})
  BY <1>1, CoordinatorIsAThread, SMTT(60) DEF AloneInv, Control, Stages
<1>7. QED BY <1>2, <1>4, <1>5, <1>6 DEF AloneInv, Stages

(* The coordinator's moves while it is alone, and at the end. *)
LEMMA AloneResolution == AloneInv /\ (ResolveRange \/ Return) => AloneInv'
  BY CoordinatorIsAThread
  DEF AloneInv, Control, Stages, Apart0, Ended0, Between, Within, Leaving, Worker,
      ResolveRange, Return, Goto

LEMMA AloneLeaveDrop == AloneInv /\ LeaveDrop => AloneInv'
  BY CoordinatorIsAThread
  DEF AloneInv, Control, Stages, Apart0, Ended0, Between, Within, Leaving, Worker,
      LeaveDrop, TheBarrier!Leave, Goto

LEMMA AloneJoin == AloneInv /\ (Join \/ Dropped) => AloneInv'
  BY CoordinatorIsAThread
  DEF AloneInv, Control, Stages, Apart0, Ended0, Between, Within, Leaving, Worker,
      Join, Dropped, Goto, vars

LEMMA AloneStep == AloneInv /\ [Next]_vars => AloneInv'
<1> SUFFICES ASSUME AloneInv, [Next]_vars PROVE AloneInv'
  OBVIOUS
<1>1. CASE Publish   BY <1>1, AlonePublish
<1>2. CASE Drop      BY <1>2, AloneDrop
<1>3. CASE Open      BY <1>3, AloneOpen
<1>4. ASSUME NEW t \in Thread, ThreadStep(t) PROVE AloneInv'
  <2>1. CASE Arrive(t)   BY <2>1, AloneArrive
  <2>2. CASE Enter(t)    BY <2>2, AloneEnter, SMTT(60)
  <2>3. CASE Exit(t)     BY <2>3, AloneExit
  <2>4. CASE LowChunk(t)
    BY <2>4, AloneAtWork DEF LowChunk
  <2>5. CASE HighChunk(t)
    BY <2>5, AloneAtWork DEF HighChunk
  <2>6. CASE EndWalk(t)
    BY <2>6, AloneAtWork DEF EndWalk
  <2>7. CASE Rejoin(t)   BY <2>7, AloneRejoin
  <2>8. QED BY <1>4, <2>1, <2>2, <2>3, <2>4, <2>5, <2>6, <2>7 DEF ThreadStep
<1>5. CASE Resolution    BY <1>5, AloneResolution DEF Resolution
<1>6. CASE LeaveDrop     BY <1>6, AloneLeaveDrop
<1>7. CASE Join          BY <1>7, AloneJoin
<1>8. CASE Dropped       BY <1>8, AloneJoin
<1>9. CASE UNCHANGED vars
  BY <1>9 DEF vars, AloneInv, Control, Stages, Apart0, Ended0, Between, Within, Leaving
<1>10. QED BY <1>1, <1>2, <1>3, <1>4, <1>5, <1>6, <1>7, <1>8, <1>9 DEF Next

(* The coordinator has the buffers, the shared fields and the carry slots  *)
(* to itself whenever it touches them, with any number of workers.         *)
THEOREM Alone == Spec => []CoordinatorAlone
<1>1. AloneInv => CoordinatorAlone
  BY CoordinatorIsAThread
  DEF AloneInv, Control, Stages, Apart0, Ended0, Between, Within, Leaving, Worker,
      CoordinatorAlone, InPass
<1>2. QED BY <1>1, AloneInit, AloneStep, PTL DEF Spec

-----------------------------------------------------------------------------
(* What each thread has written *)

LEMMA ChunkStartWithin ==
  ASSUME NEW x \in Nat, NEW limit \in Nat, limit < x
  PROVE  ChunkStart(x, limit) \in Nat /\ limit <= ChunkStart(x, limit) /\ ChunkStart(x, limit) < x
<1>1. CHUNK_LINES \in Nat \ {0} /\ x - 1 \in Nat
  BY LineAssumption
<1>2. /\ (x - 1) \div CHUNK_LINES \in Nat
      /\ ((x - 1) \div CHUNK_LINES) * CHUNK_LINES <= x - 1
  BY <1>1, Quotient
<1>3. ((x - 1) \div CHUNK_LINES) * CHUNK_LINES \in Nat
  BY <1>1, <1>2
<1>4. QED BY <1>2, <1>3 DEF ChunkStart, MaxOf

Sized ==
  /\ digits \in Nat /\ call.out \in Nat /\ pub.lines \in Nat
  /\ pub.bounds = BlockBounds(pub.lines)

Shape ==
  /\ DOMAIN loc = Thread /\ DOMAIN wrote = Thread
  /\ DOMAIN call = {"out", "line", "carry"}
  /\ \A t \in Thread : DOMAIN loc[t] = {"job", "lo", "hi", "carry", "any"}

Own(t) == OwnLines(t, pub.bounds)

(* A thread at work has written its low block up to where it is, and its   *)
(* high block down to where it is.                                         *)
Walked(t) ==
  LET b == pub.bounds
      h == HighBlock(t)
  IN  /\ loc[t].job = pub
      /\ loc[t].lo \in b[t] .. b[t + 1]
      /\ loc[t].hi \in b[h] .. b[h + 1]
      /\ wrote[t] = (b[t] .. loc[t].lo - 1) \union (loc[t].hi .. b[h + 1] - 1)

ThreadLines(t) ==
  /\ wrote[t] \subseteq Own(t)
  /\ pc[t] = "start" /\ phase[t] = "released" /\ ~stop => wrote[t] = {}
  /\ pc[t] \in {"low", "high"} => Walked(t)
  /\ pc[t] = "end" /\ phase[t] # "released" => wrote[t] = Own(t)

(* Nothing is written before the pass, and everything after it. *)
Blank ==
  pc[0] = "start" /\ phase[0] # "released" => \A t \in Thread : wrote[t] = {}

Full ==
  pc[0] = "resolve" \/ (pc[0] = "end" /\ phase[0] = "released") =>
    \A t \in Thread : wrote[t] = Own(t)

LinesInv ==
  /\ Sized /\ Shape /\ Blank /\ Full
  /\ \A t \in Thread : ThreadLines(t)

LEMMA LinesInit == Init => LinesInv
<1> SUFFICES ASSUME Init PROVE LinesInv
  OBVIOUS
<1>1. Sized
  <2>1. digits \in Nat
    BY NumberAssumption DEF Init, IsProper
  <2>2. NoPass.bounds = BlockBounds(0)
    <3>1. \A k \in 0 .. NumBlocks : (k * 0) \div NumBlocks = 0
      BY Blocks
    <3>2. QED BY <3>1 DEF NoPass, BlockBounds
  <2>3. QED BY <2>1, <2>2 DEF Init, Sized, NoPass, NoCall
<1>2. Shape
  BY DEF Init, Shape, NoWalk, NoCall
<1>3. /\ \A t \in Thread : wrote[t] = {} /\ phase[t] = "outside"
      /\ pc = [t \in Thread |-> IF t = 0 THEN "call" ELSE "start"]
  BY DEF Init, TheBarrier!Init
<1>4. Blank /\ Full
  BY <1>3, CoordinatorIsAThread DEF Blank, Full
<1>5. \A t \in Thread : ThreadLines(t)
  BY <1>3 DEF ThreadLines
<1>6. QED BY <1>1, <1>2, <1>4, <1>5 DEF LinesInv

LEMMA LinesPublish ==
  ASSUME AloneInv, LinesInv, Publish
  PROVE  LinesInv'
<1>1. pc[0] = "call" /\ Apart0 /\ \A t \in Worker : Between(t)
  BY CoordinatorIsAThread DEF AloneInv, Stages, Publish, Goto, Within, Ended0
<1>2. /\ pc' = [pc EXCEPT ![0] = "start"] /\ phase' = phase /\ stop' = stop
      /\ loc' = loc /\ digits' = digits /\ wrote' = [t \in Thread |-> {}]
  BY DEF Publish, Goto
<1>3. Sized'
  <2>1. DivCeil(digits, DPL) \in Nat
    <3>1. digits + DPL - 1 \in Nat /\ DPL \in Nat \ {0}
      BY LineAssumption DEF LinesInv, Sized
    <3>2. QED BY <3>1, Quotient DEF DivCeil
  <2>2. digits + Bit(PrescanGrow(Current, digits)) \in Nat
    BY DEF LinesInv, Sized, Bit
  <2>3. QED BY <1>2, <2>1, <2>2 DEF Publish, Sized, LinesInv
<1>4. Shape'
  BY <1>2 DEF LinesInv, Shape, Publish
<1>5. Blank' /\ Full'
  BY <1>2, CoordinatorIsAThread DEF Blank, Full, AloneInv, Control
<1>6. ASSUME NEW t \in Thread PROVE ThreadLines(t)'
  <2>1. wrote'[t] = {}
    BY <1>2
  <2>2. pc'[t] \notin {"low", "high"} /\ (pc'[t] = "end" => phase'[t] = "released")
    BY <1>1, <1>2 DEF AloneInv, Control, Between, Worker
  <2>3. QED BY <2>1, <2>2 DEF ThreadLines
<1>7. QED BY <1>3, <1>4, <1>5, <1>6 DEF LinesInv

(* Steps of the control alone: what a thread has written stays, and it is  *)
(* enough to look at who is where afterwards.                              *)
Unwritten == UNCHANGED <<digits, call, pub, loc, wrote>>

LEMMA SizedStays == LinesInv /\ Unwritten => Sized' /\ Shape'
  BY DEF LinesInv, Unwritten, Sized, Shape

LEMMA LinesDrop ==
  ASSUME AloneInv, LinesInv, Drop \/ LeaveDrop \/ Join \/ Dropped
  PROVE  LinesInv'
<1>1. Unwritten
  BY DEF Unwritten, Drop, LeaveDrop, Join, Dropped, vars, packedInt
<1>2. Sized' /\ Shape'
  BY <1>1, SizedStays
<1>3. Blank' /\ Full'
  BY CoordinatorIsAThread
  DEF Drop, LeaveDrop, Join, Dropped, vars, Goto, Blank, Full, AloneInv, Control
<1>4. ASSUME NEW t \in Thread PROVE ThreadLines(t)'
  <2>1. /\ wrote'[t] = wrote[t] /\ loc'[t] = loc[t] /\ pub' = pub
        /\ wrote[t] \subseteq Own(t)
    BY <1>1 DEF LinesInv, ThreadLines, Unwritten
  <2>2. stop'
    BY DEF Drop, LeaveDrop, Join, Dropped, vars, Goto, AloneInv, Control, Stages
  <2>3. pc'[t] \notin {"low", "high"} /\ (pc'[t] = "end" => phase'[t] = "released")
    BY CoordinatorIsAThread
    DEF Drop, LeaveDrop, Join, Dropped, vars, Goto, TheBarrier!Leave, AloneInv,
        Control, Stages, Apart0, Ended0, Between, Within, Leaving, Worker
  <2>4. QED BY <2>1, <2>2, <2>3 DEF ThreadLines, Own
<1>5. QED BY <1>2, <1>3, <1>4 DEF LinesInv

LEMMA LinesArrive ==
  ASSUME AloneInv, LinesInv, NEW t \in Thread, Arrive(t)
  PROVE  LinesInv'
<1>1. Unwritten
  BY DEF Unwritten, Arrive, packedInt
<1>2. /\ pc' = pc /\ stop' = stop
      /\ phase[t] = "outside" /\ phase' = [phase EXCEPT ![t] = "waiting"]
  BY DEF Arrive, TheBarrier!Arrive
<1>3. Sized' /\ Shape'
  BY <1>1, SizedStays
<1>4. Blank' /\ Full'
  BY <1>1, <1>2, CoordinatorIsAThread
  DEF LinesInv, Unwritten, Blank, Full, Own, AloneInv, Control
<1>5. ASSUME NEW u \in Thread PROVE ThreadLines(u)'
  <2>1. /\ wrote'[u] = wrote[u] /\ loc'[u] = loc[u] /\ pub' = pub /\ ThreadLines(u)
    BY <1>1 DEF LinesInv, Unwritten
  <2>2. phase'[u] = "released" <=> phase[u] = "released"
    BY <1>2 DEF AloneInv, Control
  <2>3. QED BY <1>2, <2>1, <2>2 DEF ThreadLines, Own, Walked
<1>6. QED BY <1>3, <1>4, <1>5 DEF LinesInv

(* The start barrier opens on blank pages, the end barrier on full ones.   *)
LEMMA LinesOpen ==
  ASSUME AloneInv, LinesInv, Open
  PROVE  LinesInv'
<1>1. Unwritten
  BY DEF Unwritten, Open, packedInt
<1>2. /\ pc' = pc /\ stop' = stop
      /\ \A t \in Thread : phase[t] = "waiting"
      /\ phase' = [t \in Thread |-> "released"]
  BY DEF Open, TheBarrier!Open
<1>3. Sized' /\ Shape'
  BY <1>1, SizedStays
<1>4. \/ pc[0] \in {"start", "drop"} /\ \A t \in Worker : pc[t] = "start"
      \/ \A t \in Thread : pc[t] = "end"
  BY <1>2, CoordinatorIsAThread
  DEF AloneInv, Control, Stages, Apart0, Ended0, Between, Within, Leaving, Worker
<1>5. Blank'
  BY <1>2, CoordinatorIsAThread DEF Blank
<1>6. Full'
  <2>1. CASE pc[0] \in {"start", "drop"}
    BY <1>2, <2>1 DEF Full
  <2>2. CASE \A t \in Thread : pc[t] = "end"
    BY <1>1, <1>2, <2>2 DEF Full, LinesInv, ThreadLines, Own, Unwritten
  <2>3. QED BY <1>4, <2>1, <2>2
<1>7. ASSUME NEW t \in Thread PROVE ThreadLines(t)'
  <2>1. /\ wrote'[t] = wrote[t] /\ loc'[t] = loc[t] /\ pub' = pub /\ ThreadLines(t)
    BY <1>1 DEF LinesInv, Unwritten
  <2>2. pc'[t] \notin {"low", "high"} /\ phase'[t] = "released"
    BY <1>2, <1>4, CoordinatorIsAThread DEF Worker
  <2>3. pc[t] = "start" /\ ~stop => wrote[t] = {}
    <3>1. pc[0] = "drop" => stop
      BY DEF AloneInv, Stages
    <3>2. pc[0] = "start" => wrote[t] = {}
      BY <1>2, CoordinatorIsAThread DEF LinesInv, Blank
    <3>3. QED BY <1>4, <3>1, <3>2
  <2>4. QED BY <1>2, <2>1, <2>2, <2>3 DEF ThreadLines, Own
<1>8. QED BY <1>3, <1>5, <1>6, <1>7 DEF LinesInv

LEMMA LinesExit ==
  ASSUME AloneInv, LinesInv, NEW t \in Thread, Exit(t)
  PROVE  LinesInv'
<1>1. Unwritten
  BY DEF Unwritten, Exit, packedInt
<1>2. /\ stop /\ t # 0 /\ pc' = [pc EXCEPT ![t] = "exited"] /\ stop' = stop
      /\ phase' = [phase EXCEPT ![t] = "outside"]
  BY DEF Exit, Goto, TheBarrier!Leave
<1>3. Sized' /\ Shape'
  BY <1>1, SizedStays
<1>4. Blank' /\ Full'
  BY <1>1, <1>2, CoordinatorIsAThread
  DEF LinesInv, Unwritten, Blank, Full, Own, AloneInv, Control
<1>5. ASSUME NEW u \in Thread PROVE ThreadLines(u)'
  <2>1. /\ wrote'[u] = wrote[u] /\ loc'[u] = loc[u] /\ pub' = pub /\ ThreadLines(u)
    BY <1>1 DEF LinesInv, Unwritten
  <2>2. CASE u = t
    BY <1>2, <2>1, <2>2 DEF ThreadLines, Own, AloneInv, Control
  <2>3. CASE u # t
    <3>1. pc'[u] = pc[u] /\ phase'[u] = phase[u]
      BY <1>2, <2>3 DEF AloneInv, Control
    <3>2. QED BY <1>2, <2>1, <3>1 DEF ThreadLines, Own, Walked
  <2>4. QED BY <2>2, <2>3
<1>6. QED BY <1>3, <1>4, <1>5 DEF LinesInv

LEMMA LinesRejoin ==
  ASSUME AloneInv, LinesInv, NEW t \in Thread, Rejoin(t)
  PROVE  LinesInv'
<1>1. Unwritten
  BY DEF Unwritten, Rejoin, packedInt
<1>2. /\ pc[t] = "end" /\ phase[t] = "released" /\ stop' = stop
      /\ pc' = [pc EXCEPT ![t] = IF t = 0 THEN "resolve" ELSE "start"]
      /\ phase' = [phase EXCEPT ![t] = "outside"]
  BY DEF Rejoin, Goto, TheBarrier!Leave
<1>3. Sized' /\ Shape'
  BY <1>1, SizedStays
<1>4. Blank' /\ Full'
  BY <1>1, <1>2, CoordinatorIsAThread
  DEF LinesInv, Unwritten, Blank, Full, Own, AloneInv, Control
<1>5. ASSUME NEW u \in Thread PROVE ThreadLines(u)'
  <2>1. /\ wrote'[u] = wrote[u] /\ loc'[u] = loc[u] /\ pub' = pub /\ ThreadLines(u)
    BY <1>1 DEF LinesInv, Unwritten
  <2>2. CASE u = t
    BY <1>2, <2>1, <2>2 DEF ThreadLines, Own, AloneInv, Control
  <2>3. CASE u # t
    <3>1. pc'[u] = pc[u] /\ phase'[u] = phase[u]
      BY <1>2, <2>3 DEF AloneInv, Control
    <3>2. QED BY <1>2, <2>1, <3>1 DEF ThreadLines, Own, Walked
  <2>4. QED BY <2>2, <2>3
<1>6. QED BY <1>3, <1>4, <1>5 DEF LinesInv

LEMMA LinesResolution ==
  ASSUME AloneInv, LinesInv, ResolveRange \/ Return
  PROVE  LinesInv'
<1>1. /\ pc[0] = "resolve" /\ pc' \in {pc, [pc EXCEPT ![0] = "call"]}
      /\ phase' = phase /\ stop' = stop
      /\ loc' = loc /\ wrote' = wrote /\ pub' = pub
      /\ digits' \in {digits, call.out}
  BY DEF ResolveRange, Return, Goto
<1>2. DOMAIN call' = DOMAIN call /\ call'.out = call.out
  <2>1. CASE Return  BY <2>1 DEF Return
  <2>2. CASE ResolveRange
    BY <2>2 DEF ResolveRange, LinesInv, Shape
  <2>3. QED BY <2>1, <2>2
<1>3. Sized' /\ Shape'
  BY <1>1, <1>2 DEF LinesInv, Sized, Shape
<1>4. Blank' /\ Full'
  BY <1>1, CoordinatorIsAThread
  DEF LinesInv, Blank, Full, Own, AloneInv, Control
<1>5. ASSUME NEW t \in Thread PROVE ThreadLines(t)'
  <2>1. /\ wrote'[t] = wrote[t] /\ loc'[t] = loc[t] /\ pub' = pub /\ ThreadLines(t)
    BY <1>1 DEF LinesInv
  <2>2. pc'[t] = pc[t] \/ (t = 0 /\ pc'[t] = "call")
    BY <1>1, CoordinatorIsAThread DEF AloneInv, Control
  <2>3. QED BY <1>1, <2>1, <2>2 DEF ThreadLines, Own, Walked
<1>6. QED BY <1>3, <1>4, <1>5 DEF LinesInv

(* The blocks of a thread, as its walk sees them. *)
LEMMA BlocksAscend ==
  ASSUME LinesInv, NEW t \in Thread
  PROVE  LET b == pub.bounds
             h == HighBlock(t)
         IN  /\ b[t] \in Nat /\ b[t + 1] \in Nat /\ b[t] <= b[t + 1]
             /\ b[h] \in Nat /\ b[h + 1] \in Nat /\ b[h] <= b[h + 1]
<1>1. /\ t \in 0 .. NumBlocks /\ t + 1 \in 0 .. NumBlocks /\ t <= t + 1
      /\ HighBlock(t) \in 0 .. NumBlocks /\ HighBlock(t) + 1 \in 0 .. NumBlocks
      /\ HighBlock(t) <= HighBlock(t) + 1
  BY Blocks
<1>2. pub.lines \in Nat /\ pub.bounds = BlockBounds(pub.lines)
  BY DEF LinesInv, Sized
<1>3. QED BY <1>1, <1>2, BoundsAscend

(* A step of thread t at work, after which its own part of the invariant   *)
(* is all there is to show.                                                *)
LEMMA LinesOfOne ==
  ASSUME AloneInv, LinesInv, NEW t \in Thread, NEW to \in {"low", "high", "end"},
         pc[t] \in {"start", "low", "high"}, pc' = [pc EXCEPT ![t] = to],
         pc[t] = "start" => phase[t] = "released" /\ ~stop,
         phase' \in {phase, [phase EXCEPT ![t] = "outside"]},
         phase'[t] = "outside",
         UNCHANGED <<digits, call, pub, stop>>,
         \A u \in Thread \ {t} : loc'[u] = loc[u] /\ wrote'[u] = wrote[u],
         DOMAIN loc' = Thread, DOMAIN wrote' = Thread,
         DOMAIN loc'[t] = {"job", "lo", "hi", "carry", "any"},
         ThreadLines(t)'
  PROVE  LinesInv'
<1>1. Sized' /\ Shape'
  BY DEF LinesInv, Sized, Shape
<1>2. \A u \in Thread : Within(u)
  BY CoordinatorIsAThread
  DEF AloneInv, Control, Stages, Apart0, Ended0, Between, Within, Leaving, Worker
<1>3. Blank' /\ Full'
  BY <1>2, CoordinatorIsAThread
  DEF Blank, Full, Within, AloneInv, Control
<1>4. ASSUME NEW u \in Thread \ {t} PROVE ThreadLines(u)'
  <2>1. pc'[u] = pc[u] /\ phase'[u] = phase[u]
    BY DEF AloneInv, Control
  <2>2. loc'[u] = loc[u] /\ wrote'[u] = wrote[u] /\ ThreadLines(u)
    BY DEF LinesInv
  <2>3. QED BY <2>1, <2>2 DEF ThreadLines, Own, Walked
<1>5. QED BY <1>1, <1>3, <1>4 DEF LinesInv

LEMMA LinesEnter ==
  ASSUME AloneInv, LinesInv, NEW t \in Thread, Enter(t)
  PROVE  LinesInv'
<1> DEFINE b == pub.bounds
           h == HighBlock(t)
<1>1. /\ pc[t] = "start" /\ pc' = [pc EXCEPT ![t] = "low"]
      /\ phase[t] = "released" /\ phase' = [phase EXCEPT ![t] = "outside"]
      /\ UNCHANGED <<digits, call, pub, stop, wrote>>
  BY DEF Enter, Goto, TheBarrier!Leave, packedInt
<1>2. ~stop
  BY <1>1, CoordinatorIsAThread DEF Enter, AloneInv, Stages
<1>3. loc' = [loc EXCEPT ![t] =
         [job |-> pub, lo |-> b[t], hi |-> b[h + 1], carry |-> FALSE, any |-> FALSE]]
  BY DEF Enter
<1>4. /\ loc'[t] = [job |-> pub, lo |-> b[t], hi |-> b[h + 1],
                    carry |-> FALSE, any |-> FALSE]
      /\ \A u \in Thread \ {t} : loc'[u] = loc[u]
      /\ DOMAIN loc' = Thread
  BY <1>3 DEF LinesInv, Shape
<1>5. Walked(t)'
  <2>1. wrote[t] = {}
    BY <1>1, <1>2 DEF LinesInv, ThreadLines
  <2>2. /\ b[t] \in b[t] .. b[t + 1] /\ b[h + 1] \in b[h] .. b[h + 1]
        /\ b[t] .. b[t] - 1 = {} /\ b[h + 1] .. b[h + 1] - 1 = {}
    BY BlocksAscend
  <2>3. QED BY <1>1, <1>4, <2>1, <2>2 DEF Walked
<1>6. ThreadLines(t)'
  BY <1>1, <1>5 DEF ThreadLines, LinesInv, Own, AloneInv, Control
<1>7. phase'[t] = "outside"
  BY <1>1 DEF AloneInv, Control
<1>8. DOMAIN wrote' = Thread /\ DOMAIN loc'[t] = {"job", "lo", "hi", "carry", "any"}
  BY <1>1, <1>4 DEF LinesInv, Shape
<1>9. QED
  BY <1>1, <1>2, <1>4, <1>6, <1>7, <1>8, LinesOfOne

(* What a thread at work has written lies in its blocks.                   *)
LEMMA WalkedIsOwn ==
  ASSUME LinesInv, NEW t \in Thread, NEW low, NEW high,
         low \in pub.bounds[t] .. pub.bounds[t + 1],
         high \in pub.bounds[HighBlock(t)] .. pub.bounds[HighBlock(t) + 1]
  PROVE  (pub.bounds[t] .. low - 1)
           \union (high .. pub.bounds[HighBlock(t) + 1] - 1) \subseteq Own(t)
  BY BlocksAscend DEF Own, OwnLines

(* A chunk of the low block goes on where the last one ended.              *)
LEMMA LinesLowChunk ==
  ASSUME AloneInv, LinesInv, NEW t \in Thread, LowChunk(t)
  PROVE  LinesInv'
<1> DEFINE b == pub.bounds
           h == HighBlock(t)
           y == ChunkEnd(loc[t].lo, b[t + 1])
<1>1. /\ pc[t] = "low" /\ pc' = [pc EXCEPT ![t] = "high"] /\ phase' = phase
      /\ UNCHANGED <<digits, call, pub, stop>>
  BY DEF LowChunk, Goto
<1>2. Walked(t) /\ LowEnd(t) = b[t + 1]
  BY <1>1 DEF LinesInv, ThreadLines, Walked, LowEnd
<1>3. /\ b[t] \in Nat /\ b[t + 1] \in Nat /\ b[h] \in Nat /\ b[h + 1] \in Nat
      /\ loc[t].lo \in b[t] .. b[t + 1] /\ loc[t].hi \in b[h] .. b[h + 1]
      /\ wrote[t] = (b[t] .. loc[t].lo - 1) \union (loc[t].hi .. b[h + 1] - 1)
      /\ loc[t].job = pub
  BY <1>2, BlocksAscend DEF Walked
<1>4. PICK low \in b[t] .. b[t + 1] :
        /\ loc'[t].lo = low /\ loc'[t].hi = loc[t].hi /\ loc'[t].job = pub
        /\ wrote'[t] = (b[t] .. low - 1) \union (loc[t].hi .. b[h + 1] - 1)
        /\ \A u \in Thread \ {t} : loc'[u] = loc[u] /\ wrote'[u] = wrote[u]
        /\ DOMAIN loc' = Thread /\ DOMAIN wrote' = Thread
        /\ DOMAIN loc'[t] = {"job", "lo", "hi", "carry", "any"}
  <2>1. CASE loc[t].lo < b[t + 1]
    <3>1. PICK r : /\ loc' = [loc EXCEPT ![t].lo = y, ![t].carry = r.carry,
                                         ![t].any = @ \/ r.carried]
                   /\ wrote' = [wrote EXCEPT ![t] = @ \union loc[t].lo .. y - 1]
      BY <1>2, <2>1 DEF LowChunk
    <3>2. y \in Nat /\ loc[t].lo < y /\ y <= b[t + 1]
      BY <1>3, <2>1, ChunkEndWithin
    <3> HIDE DEF y
    <3>3. /\ loc'[t].lo = y /\ loc'[t].hi = loc[t].hi /\ loc'[t].job = loc[t].job
          /\ \A u \in Thread \ {t} : loc'[u] = loc[u]
          /\ DOMAIN loc' = Thread
          /\ DOMAIN loc'[t] = {"job", "lo", "hi", "carry", "any"}
      BY <3>1 DEF LinesInv, Shape
    <3>4. /\ wrote'[t] = wrote[t] \union loc[t].lo .. y - 1
          /\ \A u \in Thread \ {t} : wrote'[u] = wrote[u]
          /\ DOMAIN wrote' = Thread
      BY <3>1 DEF LinesInv, Shape
    <3>5. (b[t] .. loc[t].lo - 1) \union (loc[t].lo .. y - 1) = b[t] .. y - 1
      BY <1>3, <3>2, SMTT(60)
    <3>6. wrote'[t] = (b[t] .. y - 1) \union (loc[t].hi .. b[h + 1] - 1)
      BY <1>3, <3>4, <3>5
    <3>7. y \in b[t] .. b[t + 1]
      BY <1>3, <3>2
    <3>8. QED BY <1>3, <3>3, <3>4, <3>6, <3>7, SMTT(60)
  <2>2. CASE ~(loc[t].lo < b[t + 1])
    <3>1. loc' = loc /\ wrote' = wrote
      BY <1>2, <2>2 DEF LowChunk
    <3>2. QED BY <1>3, <3>1 DEF LinesInv, Shape
  <2>3. QED BY <2>1, <2>2, SMTT(60)
<1>5. Walked(t)'
  BY <1>1, <1>3, <1>4 DEF Walked
<1>6. wrote'[t] \subseteq Own(t)
  BY <1>3, <1>4, WalkedIsOwn, SMTT(60)
<1>7. ThreadLines(t)'
  BY <1>1, <1>5, <1>6 DEF ThreadLines, Own, AloneInv, Control
<1>8. phase[t] = "outside"
  BY <1>1, CoordinatorIsAThread
  DEF AloneInv, Control, Stages, Apart0, Ended0, Between, Within, Leaving, Worker
<1>9. QED BY <1>1, <1>4, <1>7, <1>8, LinesOfOne

(* A chunk of the high block goes on, downwards, where the last one began. *)
LEMMA LinesHighChunk ==
  ASSUME AloneInv, LinesInv, NEW t \in Thread, HighChunk(t)
  PROVE  LinesInv'
<1> DEFINE b == pub.bounds
           h == HighBlock(t)
           x == ChunkStart(loc[t].hi, b[h])
<1>1. /\ pc[t] = "high" /\ pc' = [pc EXCEPT ![t] = "low"] /\ phase' = phase
      /\ UNCHANGED <<digits, call, pub, stop>>
  BY DEF HighChunk, Goto
<1>2. Walked(t) /\ HighStart(t) = b[h]
  BY <1>1 DEF LinesInv, ThreadLines, Walked, HighStart
<1>3. /\ b[t] \in Nat /\ b[t + 1] \in Nat /\ b[h] \in Nat /\ b[h + 1] \in Nat
      /\ loc[t].lo \in b[t] .. b[t + 1] /\ loc[t].hi \in b[h] .. b[h + 1]
      /\ wrote[t] = (b[t] .. loc[t].lo - 1) \union (loc[t].hi .. b[h + 1] - 1)
      /\ loc[t].job = pub
  BY <1>2, BlocksAscend DEF Walked
<1>4. PICK high \in b[h] .. b[h + 1] :
        /\ loc'[t].lo = loc[t].lo /\ loc'[t].hi = high /\ loc'[t].job = pub
        /\ wrote'[t] = (b[t] .. loc[t].lo - 1) \union (high .. b[h + 1] - 1)
        /\ \A u \in Thread \ {t} : loc'[u] = loc[u] /\ wrote'[u] = wrote[u]
        /\ DOMAIN loc' = Thread /\ DOMAIN wrote' = Thread
        /\ DOMAIN loc'[t] = {"job", "lo", "hi", "carry", "any"}
  <2>1. CASE loc[t].hi > b[h]
    <3>1. PICK r : /\ loc' = [loc EXCEPT ![t].hi = x, ![t].any = @ \/ r.carried]
                   /\ wrote' = [wrote EXCEPT ![t] = @ \union x .. loc[t].hi - 1]
      BY <1>2, <2>1 DEF HighChunk
    <3>2. x \in Nat /\ b[h] <= x /\ x < loc[t].hi
      BY <1>3, <2>1, ChunkStartWithin
    <3> HIDE DEF x
    <3>3. /\ loc'[t].lo = loc[t].lo /\ loc'[t].hi = x /\ loc'[t].job = loc[t].job
          /\ \A u \in Thread \ {t} : loc'[u] = loc[u]
          /\ DOMAIN loc' = Thread
          /\ DOMAIN loc'[t] = {"job", "lo", "hi", "carry", "any"}
      BY <3>1 DEF LinesInv, Shape
    <3>4. /\ wrote'[t] = wrote[t] \union x .. loc[t].hi - 1
          /\ \A u \in Thread \ {t} : wrote'[u] = wrote[u]
          /\ DOMAIN wrote' = Thread
      BY <3>1 DEF LinesInv, Shape
    <3>5. (loc[t].hi .. b[h + 1] - 1) \union (x .. loc[t].hi - 1) = x .. b[h + 1] - 1
      BY <1>3, <3>2
    <3>6. wrote'[t] = (b[t] .. loc[t].lo - 1) \union (x .. b[h + 1] - 1)
      BY <1>3, <3>4, <3>5
    <3>7. x \in b[h] .. b[h + 1]
      BY <1>3, <3>2
    <3>8. QED BY <1>3, <3>3, <3>4, <3>6, <3>7, SMTT(60)
  <2>2. CASE ~(loc[t].hi > b[h])
    <3>1. loc' = loc /\ wrote' = wrote
      BY <1>2, <2>2 DEF HighChunk
    <3>2. QED BY <1>3, <3>1 DEF LinesInv, Shape
  <2>3. QED BY <2>1, <2>2, SMTT(60)
<1>5. Walked(t)'
  BY <1>1, <1>3, <1>4 DEF Walked
<1>6. wrote'[t] \subseteq Own(t)
  BY <1>3, <1>4, WalkedIsOwn
<1>7. ThreadLines(t)'
  BY <1>1, <1>5, <1>6 DEF ThreadLines, Own, AloneInv, Control
<1>8. phase[t] = "outside"
  BY <1>1, CoordinatorIsAThread
  DEF AloneInv, Control, Stages, Apart0, Ended0, Between, Within, Leaving, Worker
<1>9. QED BY <1>1, <1>4, <1>7, <1>8, LinesOfOne

(* At the end of the walk the blocks are written whole.                    *)
LEMMA LinesEndWalk ==
  ASSUME AloneInv, LinesInv, NEW t \in Thread, EndWalk(t)
  PROVE  LinesInv'
<1> DEFINE b == pub.bounds
           h == HighBlock(t)
<1>1. /\ pc[t] = "low" /\ pc' = [pc EXCEPT ![t] = "end"] /\ phase' = phase
      /\ UNCHANGED <<digits, call, pub, stop, loc, wrote>> /\ ~Walking(t)
  BY DEF EndWalk, Goto, packedInt
<1>2. Walked(t)
  BY <1>1 DEF LinesInv, ThreadLines
<1>3. loc[t].lo = b[t + 1] /\ loc[t].hi = b[h]
  BY <1>1, <1>2, BlocksAscend DEF Walked, Walking, LowEnd, HighStart
<1>4. wrote[t] = Own(t)
  BY <1>2, <1>3 DEF Walked, Own, OwnLines
<1>5. ThreadLines(t)'
  BY <1>1, <1>4 DEF ThreadLines, Own, AloneInv, Control
<1>6. phase[t] = "outside"
  BY <1>1, CoordinatorIsAThread
  DEF AloneInv, Control, Stages, Apart0, Ended0, Between, Within, Leaving, Worker
<1>7. QED BY <1>1, <1>5, <1>6, LinesOfOne DEF LinesInv, Shape

LEMMA LinesStep == AloneInv /\ LinesInv /\ [Next]_vars => LinesInv'
<1> SUFFICES ASSUME AloneInv, LinesInv, [Next]_vars PROVE LinesInv'
  OBVIOUS
<1>1. CASE Publish  BY <1>1, LinesPublish
<1>2. CASE Drop \/ LeaveDrop \/ Join \/ Dropped
  BY <1>2, LinesDrop
<1>3. CASE Open     BY <1>3, LinesOpen
<1>4. ASSUME NEW t \in Thread, ThreadStep(t) PROVE LinesInv'
  <2>1. CASE Arrive(t)     BY <2>1, LinesArrive
  <2>2. CASE Enter(t)      BY <2>2, LinesEnter
  <2>3. CASE Exit(t)       BY <2>3, LinesExit
  <2>4. CASE LowChunk(t)   BY <2>4, LinesLowChunk
  <2>5. CASE HighChunk(t)  BY <2>5, LinesHighChunk
  <2>6. CASE EndWalk(t)    BY <2>6, LinesEndWalk
  <2>7. CASE Rejoin(t)     BY <2>7, LinesRejoin
  <2>8. QED BY <1>4, <2>1, <2>2, <2>3, <2>4, <2>5, <2>6, <2>7 DEF ThreadStep
<1>5. CASE Resolution  BY <1>5, LinesResolution DEF Resolution
<1>6. CASE UNCHANGED vars
  BY <1>6 DEF vars, LinesInv, Sized, Shape, Blank, Full, ThreadLines, Walked, Own
<1>7. QED BY <1>1, <1>2, <1>3, <1>4, <1>5, <1>6 DEF Next

(* No line of a pass has two writers, and at its end each has had one, for *)
(* any number of threads, of lines, and of lines to a chunk.               *)
THEOREM OneWriter == Spec => []OneWriterPerLine
<1>1. AloneInv /\ LinesInv => OneWriterPerLine
  <2> SUFFICES ASSUME AloneInv, LinesInv PROVE OneWriterPerLine
    OBVIOUS
  <2>1. pub.lines \in Nat /\ pub.bounds = BlockBounds(pub.lines)
    BY DEF LinesInv, Sized
  <2>2. \A t, u \in Thread : t # u => Own(t) \intersect Own(u) = {}
    BY <2>1, OwnLinesDivide DEF Own
  <2>3. UNION {Own(t) : t \in Thread} = 0 .. pub.lines - 1
    BY <2>1, OwnLinesDivide DEF Own
  <2>4. \A t \in Thread : wrote[t] \subseteq Own(t)
    BY DEF LinesInv, ThreadLines
  <2>5. \A t, u \in Thread : t # u => wrote[t] \intersect wrote[u] = {}
    BY <2>2, <2>4
  <2>6. pc[0] = "resolve" => UNION {wrote[t] : t \in Thread} = 0 .. pub.lines - 1
    <3>1. pc[0] = "resolve" => \A t \in Thread : wrote[t] = Own(t)
      BY DEF LinesInv, Full
    <3>2. QED BY <2>3, <3>1
  <2>7. QED BY <2>5, <2>6 DEF OneWriterPerLine
<1>2. Init => AloneInv /\ LinesInv
  BY AloneInit, LinesInit
<1>3. (AloneInv /\ LinesInv) /\ [Next]_vars => (AloneInv /\ LinesInv)'
  BY AloneStep, LinesStep
<1>4. QED BY <1>1, <1>2, <1>3, PTL DEF Spec

-----------------------------------------------------------------------------
(* What the buffers hold *)

(* The number between its two ends, and clean padding above it. *)
NumberInv ==
  /\ DOMAIN a = {0, 1} /\ cur \in {0, 1}
  /\ digits \in Nat \ {0}
  /\ DOMAIN a[cur] = 0 .. DivCeil(digits, DPL) * DPL - 1
  /\ Current \in Number(digits) /\ Proper(Current, digits)
  /\ PaddingClean
  /\ ret \in BOOLEAN

(* A step is under way. *)
Busy == pc[0] \in {"start", "low", "high", "end", "resolve"}

(* Between two steps the other buffer is no longer than the number.        *)
Spare ==
  ~Busy => \E n \in 0 .. DivCeil(digits, DPL) : DOMAIN a[1 - cur] = 0 .. n * DPL - 1

(* What step() has published, and the buffer it has made room in.          *)
Published ==
  /\ pub = [src |-> cur, dst |-> 1 - cur, lines |-> DivCeil(digits, DPL),
            digits |-> digits, bounds |-> BlockBounds(DivCeil(digits, DPL))]
  /\ call.out = digits + Bit(PrescanGrow(Current, digits))
  /\ DOMAIN a[1 - cur] = 0 .. DivCeil(call.out, DPL) * DPL - 1
  /\ \A d \in DOMAIN a[1 - cur] : d >= pub.lines * DPL => a[1 - cur][d] = 0
  /\ pc[0] # "resolve" => call.line = 0 /\ call.carry = FALSE

(* There is a carry slot for every chunk. *)
SlotsInv ==
  /\ Cardinality(DOMAIN chunkCarry) \in Nat
  /\ DOMAIN chunkCarry = 0 .. Cardinality(DOMAIN chunkCarry) - 1
  /\ Busy => SlotsFor(pub.lines) <= Cardinality(DOMAIN chunkCarry)

-----------------------------------------------------------------------------
(* What a pass has computed *)

(* The range line x is added in. *)
RangeBase(t, x) ==
  IF x < pub.bounds[t + 1] THEN pub.bounds[t]
  ELSE MaxOf((x \div CHUNK_LINES) * CHUNK_LINES, pub.bounds[HighBlock(t)])

S == PassSums(pub)

(* The lines still to be resolved hold their range's sums, added without a *)
(* carry into it.                                                          *)
Guesses(t) ==
  \A x \in wrote[t] : x >= call.line =>
    \A d \in LineSlots(x) :
      a[pub.dst][d] = Resolved(S[d], CarryInto(S, RangeBase(t, x) * DPL, d, FALSE))

(* Each chunk written has left its carry in its slot. *)
HighCarries(t) ==
  LET h == HighBlock(t)
  IN  \A x \in ChunksOf(h) \intersect wrote[t] :
        chunkCarry[ChunkSlot(h, x)]
          <=> CarryInto(S, x * DPL, ChunkEnd(x, pub.bounds[h + 1]) * DPL, FALSE)

(* A column of these lines generates a carry. *)
Generated(L) == \E x \in L : \E d \in LineSlots(x) : S[d] > 9

(* What a thread at work carries along. *)
WorkData(t) ==
  LET h == HighBlock(t)
  IN  pc[t] \in {"low", "high"} =>
        /\ loc[t].carry \in BOOLEAN
        /\ loc[t].carry
             <=> CarryInto(S, pub.bounds[t] * DPL, loc[t].lo * DPL, FALSE)
        /\ (loc[t].any <=> Generated(wrote[t]))
        /\ loc[t].hi = pub.bounds[h + 1] \/ loc[t].hi \in ChunksOf(h)

(* A thread has ended its walk. *)
Ended(t) ==
  \/ pc[t] = "end" /\ phase[t] # "released"
  \/ pc[0] = "end" /\ phase[0] = "released"
  \/ pc[0] = "resolve"

EndData(t) ==
  Ended(t) =>
    blockCarry[t]
      <=> CarryInto(S, pub.bounds[t] * DPL, pub.bounds[t + 1] * DPL, FALSE)

Flag ==
  /\ everCarried \in BOOLEAN
  /\ everCarried <=> \E t \in Thread : Ended(t) /\ Generated(wrote[t])

(* The resolution has come to the base of a range; below it all is final.  *)
Resolving ==
  /\ call.line \in 0 .. pub.lines
  /\ call.carry \in BOOLEAN
  /\ call.carry <=> CarryInto(S, 0, call.line * DPL, FALSE)
  /\ \A d \in 0 .. call.line * DPL - 1 :
       a[pub.dst][d] = Resolved(S[d], CarryInto(S, 0, d, FALSE))
  /\ \A t \in Thread : \A x \in Own(t) :
       x >= call.line => RangeBase(t, x) >= call.line

PassInv ==
  /\ Published /\ Flag /\ Resolving
  /\ \A t \in Thread : Guesses(t) /\ HighCarries(t) /\ WorkData(t) /\ EndData(t)

DataInv ==
  /\ NumberInv /\ Spare /\ SlotsInv /\ DOMAIN blockCarry = 0 .. NumBlocks - 1
  /\ Busy => PassInv

-----------------------------------------------------------------------------
(* The columns of a pass *)

(* The columns a pass sees: those of the number, and zeros above. *)
LEMMA SumsOfPass ==
  ASSUME NumberInv, Published
  PROVE  /\ pub.lines = DivCeil(digits, DPL) /\ pub.lines \in Nat \ {0}
         /\ digits <= pub.lines * DPL /\ (pub.lines - 1) * DPL < digits
         /\ pub.lines * DPL \in Nat
         /\ \A d \in 0 .. pub.lines * DPL - 1 :
              /\ S[d] \in 0 .. 18
              /\ d < digits => S[d] = Sums(Current, digits)[d]
              /\ d >= digits => S[d] = 0
<1>1. /\ pub.src = cur /\ pub.digits = digits /\ pub.lines = DivCeil(digits, DPL)
      /\ digits \in Nat \ {0}
  BY DEF Published, NumberInv
<1>2. /\ pub.lines \in Nat \ {0} /\ digits <= pub.lines * DPL
      /\ (pub.lines - 1) * DPL < digits
  BY <1>1, LinesOfDigits
<1>3. pub.lines * DPL \in Nat
  BY <1>2, LineBase
<1>4. ASSUME NEW d \in 0 .. pub.lines * DPL - 1
      PROVE  /\ S[d] \in 0 .. 18
             /\ d < digits => S[d] = Sums(Current, digits)[d]
             /\ d >= digits => S[d] = 0
  <2>1. S[d] = a[cur][d] + IF d < digits THEN a[cur][digits - 1 - d] ELSE 0
    BY <1>1 DEF S, PassSums
  <2>2. CASE d < digits
    <3>1. d \in 0 .. digits - 1 /\ digits - 1 - d \in 0 .. digits - 1
      BY <1>1, <2>2
    <3>2. a[cur][d] = Current[d] /\ a[cur][digits - 1 - d] = Current[digits - 1 - d]
      BY <3>1 DEF Current
    <3>3. /\ Sums(Current, digits)[d] = Current[d] + Current[digits - 1 - d]
          /\ Sums(Current, digits)[d] \in 0 .. 18
      BY <3>1, SumsType DEF NumberInv
    <3>4. QED BY <1>1, <2>1, <2>2, <3>2, <3>3
  <2>3. CASE d >= digits
    <3>1. a[cur][d] = 0
      <4>1. d \in DOMAIN a[cur]
        BY <1>1 DEF NumberInv
      <4>2. QED BY <2>3, <4>1 DEF NumberInv, PaddingClean
    <3>2. S[d] = 0
      BY <1>1, <2>1, <2>3, <3>1
    <3>3. QED BY <1>1, <2>3, <3>2
  <2>4. QED BY <1>1, <2>2, <2>3
<1>5. QED BY <1>1, <1>2, <1>3, <1>4

(* So are its carries, and none is left above the number. *)
LEMMA CarriesOfPass ==
  ASSUME NumberInv, Published
  PROVE  /\ \A d \in 0 .. digits :
              CarryInto(S, 0, d, FALSE) <=> CarryInto(Sums(Current, digits), 0, d, FALSE)
         /\ \A d \in digits + 1 .. pub.lines * DPL : ~CarryInto(S, 0, d, FALSE)
         /\ PrescanGrow(Current, digits) <=> CarryInto(S, 0, digits, FALSE)
<1>1. /\ digits \in Nat \ {0} /\ pub.lines * DPL \in Nat /\ digits <= pub.lines * DPL
      /\ \A d \in 0 .. pub.lines * DPL - 1 :
           /\ S[d] \in 0 .. 18
           /\ d < digits => S[d] = Sums(Current, digits)[d]
           /\ d >= digits => S[d] = 0
  BY SumsOfPass DEF NumberInv
<1>2. ASSUME NEW d \in 0 .. digits
      PROVE  CarryInto(S, 0, d, FALSE) <=> CarryInto(Sums(Current, digits), 0, d, FALSE)
  <2>1. d \in Nat /\ 0 \in Nat /\ \A i \in 0 .. d - 1 : S[i] = Sums(Current, digits)[i]
    BY <1>1
  <2>2. FALSE \in BOOLEAN
    OBVIOUS
  <2>3. QED BY <2>1, <2>2, CarryOfEqual
<1>3. ASSUME NEW d \in digits + 1 .. pub.lines * DPL
      PROVE  ~CarryInto(S, 0, d, FALSE)
  <2>1. d - 1 \in 0 .. pub.lines * DPL - 1 /\ d - 1 >= digits /\ d \in Nat
    BY <1>1
  <2>2. S[d - 1] = 0
    BY <1>1, <2>1
  <2>3. d - 1 \in Nat
    BY <2>1
  <2>4. QED BY <2>1, <2>2, <2>3 DEF CarryInto
<1>4. PrescanGrow(Current, digits) <=> CarryInto(S, 0, digits, FALSE)
  <2>1. PrescanGrow(Current, digits) <=> CarryInto(Sums(Current, digits), 0, digits, FALSE)
    BY PrescanExact DEF NumberInv
  <2>2. digits \in 0 .. digits
    BY <1>1
  <2>3. CarryInto(S, 0, digits, FALSE) <=> CarryInto(Sums(Current, digits), 0, digits, FALSE)
    BY <1>2, <2>2
  <2>4. QED BY <2>1, <2>3
<1>5. QED BY <1>2, <1>3, <1>4

-----------------------------------------------------------------------------
(* Ranges *)

LEMMA GeneratedInLines ==
  ASSUME NEW x \in Nat, NEW y \in Nat, x <= y
  PROVE  Generated(x .. y - 1) <=> \E d \in x * DPL .. y * DPL - 1 : S[d] > 9
  BY SlotsOfLines DEF Generated

(* c is the carry into line x of the range at base; r is what run_range    *)
(* makes of lines x .. y-1 on it.                                          *)
OnCarry(base, x, c) ==
  c \in BOOLEAN /\ (c <=> CarryInto(S, base * DPL, x * DPL, FALSE))

Added(r, base, x, y, c) ==
  /\ DOMAIN r.digit = x * DPL .. y * DPL - 1
  /\ \A d \in x * DPL .. y * DPL - 1 :
       r.digit[d] = Resolved(S[d], CarryInto(S, base * DPL, d, FALSE))
  /\ r.carry \in BOOLEAN
  /\ r.carry <=> CarryInto(S, base * DPL, y * DPL, FALSE)
  /\ r.carried <=> c \/ Generated(x .. y - 1)

LEMMA RangeRun ==
  ASSUME NumberInv, Published,
         NEW base \in Nat, NEW x \in Nat, NEW y \in Nat,
         base <= x, x < y, y <= pub.lines,
         NEW c, OnCarry(base, x, c)
  PROVE  Added(RunRange(pub, x, y, c), base, x, y, c)
<1> USE DEF OnCarry
<1> DEFINE r == RunRange(pub, x, y, c)
           lo == x * DPL
           end == y * DPL
           from == base * DPL
<1>1. lo \in Nat /\ end \in Nat /\ from \in Nat /\ from <= lo /\ lo <= end
  BY SlotsOfLines
<1>2. /\ r.digit = [d \in lo .. end - 1 |-> Resolved(S[d], CarryInto(S, lo, d, c))]
      /\ r.carry = CarryInto(S, lo, end, c)
      /\ r.carried = \E d \in lo .. end : CarryInto(S, lo, d, c)
  BY DEF RunRange, S
<1> HIDE DEF r
<1>3. ASSUME NEW d \in lo .. end
      PROVE  CarryInto(S, lo, d, c) <=> CarryInto(S, from, d, FALSE)
  <2>1. d \in Nat /\ lo <= d
    BY <1>1
  <2>2. CarryInto(S, from, d, FALSE)
          <=> CarryInto(S, lo, d, CarryInto(S, from, lo, FALSE))
    BY <1>1, <2>1, CarrySplit
  <2>3. CarryInto(S, lo, d, c) <=> CarryInto(S, lo, d, CarryInto(S, from, lo, FALSE))
    BY DEF CarryInto
  <2>4. QED BY <2>2, <2>3
<1>4. ASSUME NEW d \in lo .. end - 1
      PROVE  r.digit[d] = Resolved(S[d], CarryInto(S, from, d, FALSE))
  <2>1. d \in lo .. end
    BY <1>1
  <2>2. r.digit[d] = Resolved(S[d], CarryInto(S, lo, d, c))
    BY <1>2
  <2>3. QED BY ONLY <1>3, <2>1, <2>2, ResolvedSame, ZenonT(60)
<1>5. r.carry \in BOOLEAN /\ (r.carry <=> CarryInto(S, from, end, FALSE))
  <2>1. end \in lo .. end
    BY <1>1
  <2>2. r.carry \in BOOLEAN
    BY <1>2, CarryIsBoolean
  <2>3. r.carry <=> CarryInto(S, lo, end, c)
    BY <1>2
  <2>4. QED BY <1>3, <2>1, <2>2, <2>3
<1>6. r.carried <=> c \/ Generated(x .. y - 1)
  <2>1. \A i \in lo .. end - 1 : S[i] \in Int
    <3>1. pub.lines \in Nat /\ \A d \in 0 .. pub.lines * DPL - 1 : S[d] \in 0 .. 18
      BY SumsOfPass
    <3>2. end <= pub.lines * DPL /\ pub.lines * DPL \in Nat
      BY <3>1, SlotsOfLines
    <3>3. QED BY <1>1, <3>1, <3>2
  <2>2. (\E d \in lo .. end : CarryInto(S, lo, d, c))
          <=> c \/ \E j \in lo .. end - 1 : S[j] > 9
    BY <1>1, <2>1, CarriedInRange
  <2>3. Generated(x .. y - 1) <=> \E d \in lo .. end - 1 : S[d] > 9
    BY GeneratedInLines
  <2>4. r.carried <=> \E d \in lo .. end : CarryInto(S, lo, d, c)
    BY <1>2
  <2>5. QED BY <2>2, <2>3, <2>4
<1>7. QED BY <1>2, <1>4, <1>5, <1>6 DEF r, Added

(* A carry out of lines was generated in them. *)
LEMMA CarryWasGenerated ==
  ASSUME NEW x \in Nat, NEW y \in Nat, x <= y,
         CarryInto(S, x * DPL, y * DPL, FALSE)
  PROVE  Generated(x .. y - 1)
  BY GeneratedInLines DEF CarryInto

-----------------------------------------------------------------------------
(* Steps that leave the number alone *)

(* The number stays when its buffer does. *)
LEMMA NumberStays ==
  ASSUME NumberInv, DOMAIN a' = DOMAIN a, a'[cur] = a[cur],
         UNCHANGED <<cur, digits, ret>>
  PROVE  NumberInv' /\ Current' = Current
<1>1. Current' = Current
  BY DEF Current
<1>2. PaddingClean'
  BY DEF NumberInv, PaddingClean
<1>3. QED BY <1>1, <1>2 DEF NumberInv

(* So do the column sums of the pass. *)
LEMMA SumsStay ==
  ASSUME Published, a'[cur] = a[cur], pub' = pub
  PROVE  S' = S
<1>1. pub.src = cur
  BY DEF Published
<1>2. a'[pub'.src] = a[pub.src]
  BY <1>1
<1>3. QED BY <1>2 DEF S, PassSums

(* Steps of the control alone. *)
Still ==
  UNCHANGED <<a, cur, digits, ret, pub, chunkCarry, blockCarry, everCarried, call, wrote>>

LEMMA DataStill ==
  ASSUME DataInv, LinesInv, Still, Busy' <=> Busy,
         Busy => /\ pc'[0] # "resolve" => pc[0] # "resolve"
                 /\ \A t \in Thread : Ended(t)' <=> Ended(t)
                 /\ \A t \in Thread : WorkData(t)'
  PROVE  DataInv'
<1>1. NumberInv' /\ Current' = Current
  BY NumberStays DEF Still, DataInv
<1>2. Spare' /\ SlotsInv' /\ DOMAIN blockCarry' = 0 .. NumBlocks - 1
  BY DEF DataInv, Still, Spare, SlotsInv
<1>3. ASSUME Busy PROVE PassInv'
  <2>1. Published'
    BY <1>1, <1>3 DEF DataInv, PassInv, Published, Still
  <2>2. S' = S
    BY <1>3, SumsStay DEF DataInv, PassInv, Still
  <2>3. \A L : Generated(L)' <=> Generated(L)
    BY <2>2 DEF Generated
  <2>4. Flag'
    BY <1>3, <2>3 DEF DataInv, PassInv, Flag, Still
  <2>5. Resolving'
    BY <1>3, <2>2 DEF DataInv, PassInv, Resolving, RangeBase, Own, Still
  <2>6. \A t \in Thread : Guesses(t)'
    BY <1>3, <2>2, ZenonT(60) DEF DataInv, PassInv, Guesses, RangeBase, Still
  <2>7. \A t \in Thread : HighCarries(t)'
    BY <1>3, <2>2, ZenonT(60) DEF DataInv, PassInv, HighCarries, ChunksOf, Still
  <2>8. \A t \in Thread : EndData(t)'
    BY <1>3, <2>2 DEF DataInv, PassInv, EndData, Still
  <2>9. QED BY <1>3, <2>1, <2>4, <2>5, <2>6, <2>7, <2>8 DEF PassInv
<1>4. QED BY <1>1, <1>2, <1>3 DEF DataInv

(* A thread whose walk is not touched. *)
LEMMA WorkStays ==
  ASSUME DataInv, Busy, NEW t \in Thread, S' = S, pub' = pub,
         loc'[t] = loc[t], wrote'[t] = wrote[t],
         pc'[t] \in {"low", "high"} => pc[t] \in {"low", "high"}
  PROVE  WorkData(t)'
<1>1. WorkData(t)
  BY DEF DataInv, PassInv
<1>2. Generated(wrote[t])' <=> Generated(wrote[t])
  BY DEF Generated
<1>3. QED BY <1>1, <1>2 DEF WorkData, ChunksOf

LEMMA DataControl ==
  ASSUME AloneInv, LinesInv, DataInv,
         \/ \E t \in Thread : Arrive(t) \/ Exit(t) \/ Rejoin(t)
         \/ Open \/ Drop \/ LeaveDrop \/ Join \/ UNCHANGED vars
  PROVE  DataInv'
<1>1. Still /\ loc' = loc
  BY DEF Still, Arrive, Exit, Rejoin, Open, Drop, LeaveDrop, Join, vars, packedInt, carries
<1>2. Busy' <=> Busy
  BY CoordinatorIsAThread
  DEF Busy, AloneInv, Control, Stages, Arrive, Exit, Rejoin, Open, Drop, LeaveDrop, Join, vars, Goto
<1>3. ASSUME Busy PROVE pc'[0] # "resolve" => pc[0] # "resolve"
  BY <1>3, CoordinatorIsAThread
  DEF AloneInv, Control, Arrive, Exit, Rejoin, Open, Drop, LeaveDrop, Join, vars, Goto
<1>4. ASSUME Busy, NEW u \in Thread PROVE Ended(u)' <=> Ended(u)
  BY <1>4, CoordinatorIsAThread
  DEF Ended, Busy, AloneInv, Control, Stages, Apart0, Ended0, Between, Within, Leaving, Worker,
      Arrive, Exit, Rejoin, Open, Drop, LeaveDrop, Join, vars, Goto,
      TheBarrier!Arrive, TheBarrier!Open, TheBarrier!Leave
<1>5. ASSUME Busy, NEW u \in Thread PROVE WorkData(u)'
  <2>1. S' = S
    BY <1>1, <1>5, SumsStay DEF DataInv, PassInv, Still
  <2>2. pc'[u] \in {"low", "high"} => pc[u] \in {"low", "high"}
    BY CoordinatorIsAThread
    DEF AloneInv, Control, Arrive, Exit, Rejoin, Open, Drop, LeaveDrop, Join, vars, Goto
  <2>3. QED BY <1>1, <1>5, <2>1, <2>2, WorkStays DEF Still
<1>6. QED BY <1>1, <1>2, <1>3, <1>4, <1>5, DataStill

LEMMA DataEnter ==
  ASSUME AloneInv, LinesInv, DataInv, NEW t \in Thread, Enter(t)
  PROVE  DataInv'
<1>1. /\ Still /\ pc[t] = "start" /\ phase[t] = "released" /\ ~(stop /\ t # 0)
      /\ pc' = [pc EXCEPT ![t] = "low"] /\ phase' = [phase EXCEPT ![t] = "outside"]
      /\ loc' = [loc EXCEPT ![t] =
           [job |-> pub, lo |-> pub.bounds[t], hi |-> pub.bounds[HighBlock(t) + 1],
            carry |-> FALSE, any |-> FALSE]]
  BY DEF Still, Enter, Goto, TheBarrier!Leave, packedInt, carries
<1>2. ~stop /\ \A u \in Thread : Within(u)
  BY <1>1, CoordinatorIsAThread
  DEF AloneInv, Control, Stages, Apart0, Ended0, Between, Within, Leaving, Worker
<1>3. Busy /\ Busy'
  BY <1>1, <1>2, CoordinatorIsAThread DEF Busy, Within, AloneInv, Control
<1>4. pc'[0] # "resolve" => pc[0] # "resolve"
  BY <1>1, <1>2, CoordinatorIsAThread DEF Within, AloneInv, Control
<1>5. ASSUME NEW u \in Thread PROVE Ended(u)' <=> Ended(u)
  BY <1>1, <1>2, CoordinatorIsAThread DEF Ended, Within, AloneInv, Control
<1>6. S' = S
  BY <1>1, <1>3, SumsStay DEF DataInv, PassInv, Still
<1>7. ASSUME NEW u \in Thread PROVE WorkData(u)'
  <2>1. CASE u # t
    BY <1>1, <1>3, <1>6, <2>1, WorkStays DEF Still, LinesInv, Shape, AloneInv, Control
  <2>2. CASE u = t
    <3>1. wrote'[t] = {} /\ pub' = pub
      BY <1>1, <1>2 DEF Still, LinesInv, ThreadLines
    <3>2. /\ loc'[t].carry = FALSE /\ loc'[t].any = FALSE
          /\ loc'[t].lo = pub.bounds[t] /\ loc'[t].hi = pub.bounds[HighBlock(t) + 1]
      BY <1>1 DEF LinesInv, Shape
    <3>3. ~Generated({})'
      BY DEF Generated
    <3>4. ~CarryInto(S, pub.bounds[t] * DPL, pub.bounds[t] * DPL, FALSE)
      <4>1. pub.bounds[t] * DPL \in Nat
        BY BlocksAscend, LineBase
      <4>2. QED BY <4>1, CarryAtBase
    <3>5. QED BY <1>6, <2>2, <3>1, <3>2, <3>3, <3>4 DEF WorkData
  <2>3. QED BY <2>1, <2>2
<1>8. QED BY <1>1, <1>3, <1>4, <1>5, <1>7, DataStill

-----------------------------------------------------------------------------
(* Chunks *)

(* The destination has room for the pass, and for a leading one. *)
LEMMA RoomForPass ==
  ASSUME NumberInv, Published
  PROVE  /\ call.out \in Nat \ {0} /\ digits <= call.out /\ call.out <= digits + 1
         /\ call.out = digits + 1 <=> PrescanGrow(Current, digits)
         /\ DivCeil(call.out, DPL) \in Nat /\ pub.lines <= DivCeil(call.out, DPL)
         /\ DivCeil(call.out, DPL) * DPL \in Nat
         /\ call.out <= DivCeil(call.out, DPL) * DPL
         /\ pub.lines * DPL <= DivCeil(call.out, DPL) * DPL
         /\ pub.dst = 1 - cur /\ pub.dst \in {0, 1} /\ pub.dst # cur
         /\ DOMAIN a[pub.dst] = 0 .. DivCeil(call.out, DPL) * DPL - 1
<1>1. /\ call.out \in Nat \ {0} /\ digits <= call.out /\ call.out <= digits + 1
      /\ call.out = digits + 1 <=> PrescanGrow(Current, digits)
      /\ digits \in Nat \ {0}
  BY DEF NumberInv, Published, Bit
<1>2. /\ DivCeil(call.out, DPL) \in Nat /\ call.out <= DivCeil(call.out, DPL) * DPL
      /\ DivCeil(call.out, DPL) * DPL \in Nat
  BY <1>1, LinesOfDigits, LineBase
<1>3. digits <= DivCeil(call.out, DPL) * DPL
  BY <1>1, <1>2
<1>4. pub.lines \in Nat /\ pub.lines <= DivCeil(call.out, DPL)
  BY <1>1, <1>2, <1>3, LinesOfDigits, SumsOfPass
<1>5. pub.lines * DPL <= DivCeil(call.out, DPL) * DPL
  BY <1>2, <1>4, LinesAscend
<1>6. pub.dst = 1 - cur /\ cur \in {0, 1}
  BY DEF Published, NumberInv
<1>7. DOMAIN a[pub.dst] = 0 .. DivCeil(call.out, DPL) * DPL - 1
  BY <1>6 DEF Published
<1>8. QED BY <1>1, <1>2, <1>4, <1>5, <1>6, <1>7

(* A chunk stored goes into its lines, and nowhere else. *)
Storing(x, y, digit) ==
  /\ x \in Nat /\ y \in Nat /\ x < y /\ y <= pub.lines
  /\ DOMAIN digit = x * DPL .. y * DPL - 1
  /\ a' = Store(pub, x, y, digit)
  /\ UNCHANGED <<cur, digits, ret, pub, call>>

LEMMA ChunkStored ==
  ASSUME NumberInv, Published, NEW x, NEW y, NEW digit, Storing(x, y, digit),
         pc'[0] # "resolve" => pc[0] # "resolve"
  PROVE  /\ NumberInv' /\ Published' /\ S' = S
         /\ \A z \in 0 .. pub.lines - 1 : \A d \in LineSlots(z) :
              a'[pub.dst][d] = IF z \in x .. y - 1 THEN digit[d] ELSE a[pub.dst][d]
<1> DEFINE dst == pub.dst
<1> USE DEF Storing
<1>1. /\ dst = 1 - cur /\ dst \in {0, 1} /\ dst # cur /\ DOMAIN a = {0, 1}
      /\ DOMAIN a[dst] = 0 .. DivCeil(call.out, DPL) * DPL - 1
      /\ DivCeil(call.out, DPL) * DPL \in Nat
      /\ pub.lines * DPL <= DivCeil(call.out, DPL) * DPL
      /\ cur \in {0, 1} /\ pub.lines \in Nat /\ pub.lines * DPL \in Nat
  BY RoomForPass, SumsOfPass DEF NumberInv
<1>2. a' = [a EXCEPT ![dst] =
              [d \in DOMAIN a[dst] |-> IF d \in DOMAIN digit THEN digit[d] ELSE a[dst][d]]]
  BY DEF Store
<1>3. /\ DOMAIN a' = {0, 1} /\ a'[cur] = a[cur] /\ DOMAIN a'[dst] = DOMAIN a[dst]
      /\ \A d \in DOMAIN a[dst] :
           a'[dst][d] = IF d \in DOMAIN digit THEN digit[d] ELSE a[dst][d]
  BY <1>1, <1>2
<1>4. NumberInv' /\ Current' = Current /\ S' = S
  BY <1>1, <1>3, NumberStays, SumsStay
<1>5. x * DPL \in Nat /\ y * DPL \in Nat /\ y * DPL <= pub.lines * DPL
  <2>1. x \in Nat /\ y \in Nat /\ x <= y /\ y <= pub.lines /\ pub.lines \in Nat
    BY <1>1
  <2>2. x * DPL \in Nat /\ y * DPL \in Nat
    BY <2>1, LineBase
  <2>3. QED BY <2>1, <2>2, LinesAscend
<1>6. Published'
  <2>1. \A d \in DOMAIN a'[dst] : d >= pub.lines * DPL => a'[dst][d] = 0
    <3> SUFFICES ASSUME NEW d \in DOMAIN a[dst], d >= pub.lines * DPL
                 PROVE  a'[dst][d] = 0
      BY <1>3
    <3>1. d \notin DOMAIN digit
      BY <1>1, <1>5, SMTT(60)
    <3>2. a[dst][d] = 0
      BY <1>1 DEF Published
    <3>3. QED BY <1>3, <3>1, <3>2
  <2>2. QED BY <1>1, <1>3, <1>4, <2>1 DEF Published
<1>7. ASSUME NEW z \in 0 .. pub.lines - 1, NEW d \in LineSlots(z)
      PROVE  a'[dst][d] = IF z \in x .. y - 1 THEN digit[d] ELSE a[dst][d]
  <2>1. z \in Nat /\ d \in 0 * DPL .. pub.lines * DPL - 1 /\ 0 * DPL = 0
    <3>1. z \in 0 .. pub.lines - 1 /\ 0 <= pub.lines /\ 0 \in Nat
      BY <1>1
    <3>2. LineSlots(z) \subseteq 0 * DPL .. pub.lines * DPL - 1
      BY <1>1, <3>1, SlotsOfLines
    <3>3. 0 * DPL = 0
      BY LineAssumption
    <3>4. QED BY <3>1, <3>2, <3>3
  <2>2. d \in DOMAIN a[dst]
    BY <1>1, <2>1, SMTT(60)
  <2>3. d \in DOMAIN digit <=> z \in x .. y - 1
    <3>1. d \in Nat /\ z * DPL <= d /\ d < (z + 1) * DPL /\ (z + 1) * DPL \in Nat /\ z * DPL \in Nat
      BY <2>1, LineBase
    <3>2. CASE z < x
      <4>1. (z + 1) * DPL <= x * DPL
        BY <2>1, <3>2, LinesAscend
      <4>2. QED BY <1>5, <3>1, <3>2, <4>1
    <3>3. CASE y <= z
      <4>1. y * DPL <= z * DPL
        BY <2>1, <3>3, LinesAscend
      <4>2. QED BY <1>5, <3>1, <3>3, <4>1, SMTT(60)
    <3>4. CASE x <= z /\ z < y
      BY <2>1, <3>4, SlotsOfLines
    <3>5. QED BY <2>1, <3>2, <3>3, <3>4
  <2>4. QED BY <1>3, <2>2, <2>3
<1>8. QED BY <1>4, <1>6, <1>7

(* A thread at work is in a pass whose resolution has not begun. *)
LEMMA AtWork ==
  ASSUME AloneInv, LinesInv, DataInv, NEW t \in Thread, pc[t] \in {"low", "high"}
  PROVE  /\ Busy /\ pc[0] # "resolve" /\ \A u \in Thread : Within(u)
         /\ \A u \in Thread : Ended(u) <=> pc[u] = "end"
         /\ call.line = 0 /\ call.carry = FALSE
         /\ Walked(t) /\ WorkData(t) /\ NumberInv /\ Published
<1>1. \A u \in Thread : Within(u)
  BY CoordinatorIsAThread
  DEF AloneInv, Control, Stages, Apart0, Ended0, Between, Within, Leaving, Worker
<1>2. Busy /\ pc[0] # "resolve" /\ ~(pc[0] = "end" /\ phase[0] = "released")
  BY <1>1, CoordinatorIsAThread DEF Busy, Within
<1>3. \A u \in Thread : Ended(u) <=> pc[u] = "end"
  BY <1>1, <1>2 DEF Ended, Within
<1>4. Published /\ call.line = 0 /\ call.carry = FALSE /\ WorkData(t)
  BY <1>2 DEF DataInv, PassInv, Published
<1>5. QED BY <1>1, <1>2, <1>3, <1>4 DEF DataInv, LinesInv, ThreadLines

LEMMA StillAtWork ==
  ASSUME AloneInv, LinesInv, DataInv, NEW t \in Thread, NEW from \in {"low", "high"},
         NEW to \in {"low", "high", "end"}, Goto(t, from, to), phase' = phase
  PROVE  /\ Busy' /\ pc'[0] # "resolve"
         /\ \A u \in Thread : Ended(u)' <=> pc'[u] = "end"
         /\ \A u \in Thread \ {t} : pc'[u] = pc[u]
         /\ pc'[t] = to
<1>1. /\ pc[t] = from /\ pc' = [pc EXCEPT ![t] = to] /\ DOMAIN pc = Thread
  BY DEF Goto, AloneInv, Control
<1>2. \A u \in Thread : Within(u) /\ pc[u] # "resolve"
  BY <1>1, AtWork DEF Within
<1>3. phase[t] = "outside"
  BY <1>1, <1>2 DEF Within
<1>4. /\ \A u \in Thread \ {t} : pc'[u] = pc[u]
      /\ pc'[t] = to
  BY <1>1
<1>5. Busy' /\ pc'[0] # "resolve" /\ ~(pc'[0] = "end" /\ phase'[0] = "released")
  BY <1>2, <1>3, <1>4, CoordinatorIsAThread DEF Busy, Within
<1>6. \A u \in Thread : Ended(u)' <=> pc'[u] = "end"
  BY <1>2, <1>3, <1>4, <1>5 DEF Ended, Within
<1>7. QED BY <1>4, <1>5, <1>6

LEMMA OwnWithin ==
  ASSUME LinesInv, NEW t \in Thread
  PROVE  /\ Own(t) \subseteq 0 .. pub.lines - 1 /\ wrote[t] \subseteq Own(t)
         /\ \A u \in Thread : u # t => Own(t) \intersect Own(u) = {}
<1>1. pub.lines \in Nat /\ pub.bounds = BlockBounds(pub.lines)
  BY DEF LinesInv, Sized
<1>2. /\ \A u \in Thread : u # t => Own(t) \intersect Own(u) = {}
      /\ UNION {Own(u) : u \in Thread} = 0 .. pub.lines - 1
  BY <1>1, OwnLinesDivide DEF Own
<1>3. QED BY <1>2 DEF LinesInv, ThreadLines

(* Lines x .. y-1 of thread t, part of its range at base, are added on the *)
(* carry out of the lines below them.                                      *)
ChunkStep(t, x, y, base, digit) ==
  /\ Storing(x, y, digit) /\ base \in Nat
  /\ x .. y - 1 \subseteq Own(t) /\ (x .. y - 1) \intersect wrote[t] = {}
  /\ \A z \in x .. y - 1 : RangeBase(t, z) = base
  /\ \A d \in x * DPL .. y * DPL - 1 :
       digit[d] = Resolved(S[d], CarryInto(S, base * DPL, d, FALSE))
  /\ wrote' = [wrote EXCEPT ![t] = @ \union x .. y - 1]
  /\ UNCHANGED <<blockCarry, everCarried>>

(* All of the invariant that such a chunk touches, but for the carries. *)
LEMMA ChunkData ==
  ASSUME AloneInv, LinesInv, DataInv, NEW t \in Thread,
         NEW from \in {"low", "high"}, NEW to \in {"low", "high"},
         Goto(t, from, to), phase' = phase,
         NEW x, NEW y, NEW base, NEW digit, ChunkStep(t, x, y, base, digit)
  PROVE  /\ NumberInv' /\ Spare' /\ Busy' /\ Published' /\ Flag' /\ Resolving'
         /\ \A u \in Thread : Guesses(u)' /\ EndData(u)'
         /\ S' = S
<1>1. /\ Busy /\ pc[0] # "resolve" /\ call.line = 0 /\ call.carry = FALSE
      /\ NumberInv /\ Published /\ PassInv
      /\ \A u \in Thread : Ended(u) <=> pc[u] = "end"
  BY AtWork DEF Goto, DataInv
<1>2. /\ Busy' /\ pc'[0] # "resolve"
      /\ \A u \in Thread : Ended(u)' <=> pc'[u] = "end"
      /\ \A u \in Thread \ {t} : pc'[u] = pc[u]
      /\ pc[t] # "end" /\ pc'[t] # "end"
  BY StillAtWork DEF Goto
<1>3. /\ NumberInv' /\ Published' /\ S' = S
      /\ \A z \in 0 .. pub.lines - 1 : \A d \in LineSlots(z) :
           a'[pub.dst][d] = IF z \in x .. y - 1 THEN digit[d] ELSE a[pub.dst][d]
  <2>1. Storing(x, y, digit)
    BY DEF ChunkStep
  <2>2. NumberInv /\ Published /\ (pc'[0] # "resolve" => pc[0] # "resolve")
    BY <1>1
  <2>3. QED BY ONLY <2>1, <2>2, ChunkStored
<1> USE DEF ChunkStep, Storing
<1>4. Spare'
  BY <1>2 DEF Spare
<1>5. /\ wrote'[t] = wrote[t] \union x .. y - 1
      /\ \A u \in Thread \ {t} : wrote'[u] = wrote[u]
  BY DEF LinesInv, Shape
<1>6. \A u \in Thread : Ended(u)' <=> Ended(u)
  BY <1>1, <1>2
<1>7. Flag'
  <2>1. \A L : Generated(L)' <=> Generated(L)
    BY <1>3 DEF Generated
  <2>2. \A u \in Thread : Ended(u) => wrote'[u] = wrote[u]
    BY <1>1, <1>2, <1>5
  <2>3. QED BY <1>1, <1>6, <2>1, <2>2 DEF PassInv, Flag
<1>8. \A u \in Thread : EndData(u)'
  BY <1>1, <1>3, <1>6 DEF PassInv, EndData
<1>9. Resolving'
  <2>1. call'.line = 0 /\ call'.carry = FALSE /\ 0 * DPL = 0
    BY <1>1, LineAssumption
  <2>2. \A u \in Thread : \A z \in Own(u) : RangeBase(u, z)' = RangeBase(u, z)
    BY DEF RangeBase
  <2>3. Own(0)' = Own(0) /\ \A u \in Thread : Own(u)' = Own(u)
    BY DEF Own
  <2>4. call'.line \in 0 .. pub'.lines
    BY <2>1, SumsOfPass, <1>1
  <2>5. CarryInto(S, 0, 0, FALSE) <=> FALSE
    BY CarryAtBase
  <2>6. \A u \in Thread : \A z \in Own(u) : z >= 0 => RangeBase(u, z) >= 0
    BY <1>1 DEF PassInv, Resolving
  <2>7. call'.line * DPL = 0
    BY <2>1
  <2>8. call'.carry <=> CarryInto(S', 0, call'.line * DPL, FALSE)
    BY <1>3, <2>1, <2>5, <2>7
  <2>9. 0 .. call'.line * DPL - 1 = {}
    BY <2>7
  <2>10. \A u \in Thread : \A z \in Own(u)' :
           z >= call'.line => RangeBase(u, z)' >= call'.line
    BY <2>1, <2>2, <2>3, <2>6
  <2>11. call'.carry \in BOOLEAN
    BY <2>1
  <2>12. QED BY <2>4, <2>8, <2>9, <2>10, <2>11 DEF Resolving
<1>10. ASSUME NEW u \in Thread PROVE Guesses(u)'
  <2> SUFFICES ASSUME NEW z \in wrote'[u], NEW d \in LineSlots(z)
               PROVE  a'[pub.dst][d]
                        = Resolved(S[d], CarryInto(S, RangeBase(u, z) * DPL, d, FALSE))
    BY <1>3 DEF Guesses, RangeBase, LineSlots
  <2>1. CASE z \in x .. y - 1
    <3>1. z \in Own(u) /\ z \in Own(t)
      BY <1>5, <2>1, OwnWithin
    <3>2. u = t /\ z \in 0 .. pub.lines - 1
      BY <3>1, OwnWithin
    <3>3. d \in x * DPL .. y * DPL - 1
      BY <2>1, SlotsOfLines
    <3>4. a'[pub.dst][d] = digit[d]
      BY <1>3, <2>1, <3>2
    <3>5. QED BY <2>1, <3>2, <3>3, <3>4
  <2>2. CASE z \notin x .. y - 1
    <3>1. z \in wrote[u] /\ z \in 0 .. pub.lines - 1
      BY <1>5, <2>2, OwnWithin
    <3>2. a'[pub.dst][d] = a[pub.dst][d]
      BY <1>3, <2>2, <3>1
    <3>3. z >= call.line
      BY <1>1, <3>1
    <3>4. a[pub.dst][d] = Resolved(S[d], CarryInto(S, RangeBase(u, z) * DPL, d, FALSE))
      BY <1>1, <3>1, <3>3 DEF PassInv, Guesses
    <3>5. QED BY <3>2, <3>4
  <2>3. QED BY <2>1, <2>2
<1>11. QED BY <1>2, <1>3, <1>4, <1>7, <1>8, <1>9, <1>10

-----------------------------------------------------------------------------
(* Chunks and their carry slots *)

LEMMA BoundsInOrder ==
  ASSUME LinesInv
  PROVE  /\ pub.lines \in Nat /\ NumBlocks \in Nat /\ NumThreads \in Nat
         /\ NumThreads < NumBlocks
         /\ \A k \in 0 .. NumBlocks : pub.bounds[k] \in Nat /\ pub.bounds[k] <= pub.lines
         /\ \A k, m \in 0 .. NumBlocks : k <= m => pub.bounds[k] <= pub.bounds[m]
         /\ \A t \in Thread :
              /\ t \in 0 .. NumBlocks /\ t + 1 \in 0 .. NumBlocks
              /\ HighBlock(t) \in 0 .. NumBlocks - 1 /\ HighBlock(t) + 1 \in 0 .. NumBlocks
              /\ t + 1 <= HighBlock(t) /\ HighBlock(t) \in 0 .. NumBlocks
<1>1. pub.lines \in Nat /\ pub.bounds = BlockBounds(pub.lines)
  BY DEF LinesInv, Sized
<1>2. /\ \A k \in 0 .. NumBlocks : pub.bounds[k] \in Nat
      /\ \A k, m \in 0 .. NumBlocks : k <= m => pub.bounds[k] <= pub.bounds[m]
      /\ pub.bounds[NumBlocks] = pub.lines
  BY <1>1, BoundsAscend
<1>3. NumBlocks \in Nat /\ NumThreads \in Nat /\ NumThreads < NumBlocks
  BY Blocks
<1>4. \A k \in 0 .. NumBlocks : k <= NumBlocks /\ NumBlocks \in 0 .. NumBlocks
  BY <1>3
<1>5. \A k \in 0 .. NumBlocks : pub.bounds[k] <= pub.lines
  BY <1>2, <1>4
<1>6. ASSUME NEW t \in Thread
      PROVE  /\ t \in 0 .. NumBlocks /\ t + 1 \in 0 .. NumBlocks
             /\ HighBlock(t) \in 0 .. NumBlocks - 1 /\ HighBlock(t) + 1 \in 0 .. NumBlocks
             /\ t + 1 <= HighBlock(t) /\ HighBlock(t) \in 0 .. NumBlocks
  BY Blocks
<1>7. QED BY <1>1, <1>2, <1>3, <1>5, <1>6

LEMMA GridMonotone ==
  ASSUME NEW x \in Nat, NEW z \in Nat
  PROVE  /\ x \div CHUNK_LINES \in Nat
         /\ z <= x => z \div CHUNK_LINES <= x \div CHUNK_LINES
         /\ z < x /\ x % CHUNK_LINES = 0 => z \div CHUNK_LINES < x \div CHUNK_LINES
<1>1. CHUNK_LINES \in Nat \ {0}
  BY LineAssumption
<1>2. x \div CHUNK_LINES \in Nat /\ z \div CHUNK_LINES \in Nat
  BY <1>1, Quotient
<1>3. z <= x => z \div CHUNK_LINES <= x \div CHUNK_LINES
  BY <1>1, QuotientMonotone
<1>4. ASSUME z < x, x % CHUNK_LINES = 0, z \div CHUNK_LINES = x \div CHUNK_LINES
      PROVE  FALSE
  <2>1. x = (x \div CHUNK_LINES) * CHUNK_LINES
    BY <1>1, <1>4
  <2>2. (z \div CHUNK_LINES) * CHUNK_LINES <= z
    BY <1>1, Quotient
  <2>3. QED BY <1>4, <2>1, <2>2
<1>5. QED BY <1>2, <1>3, <1>4

(* No two chunks of a pass share a carry slot. *)
LEMMA SlotsApart ==
  ASSUME LinesInv, NEW j \in 0 .. NumBlocks - 1, NEW k \in 0 .. NumBlocks - 1,
         NEW x \in ChunksOf(j), NEW z \in ChunksOf(k),
         ChunkSlot(j, x) = ChunkSlot(k, z)
  PROVE  j = k /\ x = z
<1>1. /\ x \in Nat /\ pub.bounds[j] <= x /\ x < pub.bounds[j + 1]
      /\ x = pub.bounds[j] \/ x % CHUNK_LINES = 0
      /\ z \in Nat /\ pub.bounds[k] <= z /\ z < pub.bounds[k + 1]
      /\ z = pub.bounds[k] \/ z % CHUNK_LINES = 0
  BY BoundsInOrder DEF ChunksOf
<1>2. j \in Nat /\ k \in Nat /\ x \div CHUNK_LINES \in Nat /\ z \div CHUNK_LINES \in Nat
  BY <1>1, GridMonotone, BoundsInOrder
<1>3. ASSUME j < k PROVE FALSE
  <2>1. pub.bounds[j + 1] <= pub.bounds[k] /\ pub.bounds[j + 1] \in Nat /\ pub.bounds[k] \in Nat
    BY <1>3, BoundsInOrder
  <2>2. x <= z
    BY <1>1, <2>1
  <2>3. x \div CHUNK_LINES <= z \div CHUNK_LINES
    BY <1>1, <2>2, GridMonotone
  <2>4. QED BY <1>2, <1>3, <2>3 DEF ChunkSlot
<1>4. ASSUME k < j PROVE FALSE
  <2>1. pub.bounds[k + 1] <= pub.bounds[j] /\ pub.bounds[k + 1] \in Nat /\ pub.bounds[j] \in Nat
    BY <1>4, BoundsInOrder
  <2>2. z <= x
    BY <1>1, <2>1
  <2>3. z \div CHUNK_LINES <= x \div CHUNK_LINES
    BY <1>1, <2>2, GridMonotone
  <2>4. QED BY <1>2, <1>4, <2>3 DEF ChunkSlot
<1>5. j = k
  BY <1>2, <1>3, <1>4
<1>6. x \div CHUNK_LINES = z \div CHUNK_LINES
  BY <1>2, <1>5 DEF ChunkSlot
<1>7. ~(x < z)
  <2>1. pub.bounds[k] \in Nat
    BY BoundsInOrder
  <2>2. x < z => z % CHUNK_LINES = 0
    BY <1>1, <1>5, <2>1
  <2>3. QED BY <1>1, <1>2, <1>6, <2>2, GridMonotone
<1>8. ~(z < x)
  <2>1. pub.bounds[j] \in Nat
    BY BoundsInOrder
  <2>2. z < x => x % CHUNK_LINES = 0
    BY <1>1, <1>5, <2>1
  <2>3. QED BY <1>1, <1>2, <1>6, <2>2, GridMonotone
<1>9. QED BY <1>1, <1>5, <1>7, <1>8

(* Every chunk of a pass has one. *)
LEMMA SlotThere ==
  ASSUME LinesInv, SlotsInv, Busy, NEW j \in 0 .. NumBlocks - 1, NEW x \in ChunksOf(j)
  PROVE  ChunkSlot(j, x) \in DOMAIN chunkCarry
<1>1. x \in Nat /\ x < pub.lines /\ pub.lines \in Nat /\ NumBlocks \in Nat
  <2>1. j + 1 \in 0 .. NumBlocks /\ j \in 0 .. NumBlocks
    BY BoundsInOrder
  <2>2. QED BY <2>1, BoundsInOrder DEF ChunksOf
<1>2. /\ x \div CHUNK_LINES \in Nat /\ pub.lines \div CHUNK_LINES \in Nat
      /\ x \div CHUNK_LINES <= pub.lines \div CHUNK_LINES
  BY <1>1, GridMonotone
<1>3. QED BY <1>1, <1>2, SMTT(60) DEF SlotsInv, ChunkSlot, SlotsFor

(* The chunk below line y, in a block between two lines: it starts its     *)
(* range, and the next chunk starts at y.                                  *)
LEMMA ChunkBelow ==
  ASSUME NEW first \in Nat, NEW limit \in Nat, NEW y \in Nat, first < y, y <= limit,
         y = limit \/ y % CHUNK_LINES = 0
  PROVE  LET x == ChunkStart(y, first)
         IN  /\ x \in Nat /\ first <= x /\ x < y
             /\ x = first \/ x % CHUNK_LINES = 0
             /\ ChunkEnd(x, limit) = y
             /\ \A z \in x .. y - 1 :
                  MaxOf((z \div CHUNK_LINES) * CHUNK_LINES, first) = x
<1> DEFINE x == ChunkStart(y, first)
           q == (y - 1) \div CHUNK_LINES
           g == q * CHUNK_LINES
<1>1. CHUNK_LINES \in Nat \ {0} /\ y - 1 \in Nat
  BY LineAssumption
<1>2. /\ q \in Nat /\ g \in Nat /\ g <= y - 1 /\ y - 1 < g + CHUNK_LINES
      /\ (q + 1) * CHUNK_LINES = g + CHUNK_LINES /\ g = q * CHUNK_LINES
      /\ g % CHUNK_LINES = 0
  <2>1. q \in Nat /\ g <= y - 1 /\ y - 1 < g + CHUNK_LINES
    BY <1>1, Quotient
  <2> HIDE DEF q
  <2>2. g \in Nat /\ (q + 1) * CHUNK_LINES = g + CHUNK_LINES
    BY <1>1, <2>1
  <2>3. g % CHUNK_LINES = 0
    BY <1>1, <2>1
  <2>4. QED BY <2>1, <2>2, <2>3
<1>3. x = MaxOf(g, first)
  BY DEF ChunkStart
<1> HIDE DEF x, q, g
<1>4. x \in Nat /\ first <= x /\ x < y /\ g <= x /\ (x = first \/ x = g)
  BY <1>2, <1>3 DEF MaxOf
<1>5. x = first \/ x % CHUNK_LINES = 0
  BY <1>2, <1>4
<1>6. ASSUME NEW z \in x .. y - 1 PROVE z \div CHUNK_LINES = q
  <2>1. z \in Nat /\ g <= z /\ z < g + CHUNK_LINES
    BY <1>1, <1>2, <1>4
  <2>2. z - g \in 0 .. CHUNK_LINES - 1
    BY <1>1, <1>2, <2>1
  <2>3. QED BY <1>1, <1>2, <2>1, <2>2
<1>7. ASSUME NEW z \in x .. y - 1
      PROVE  MaxOf((z \div CHUNK_LINES) * CHUNK_LINES, first) = x
  BY <1>2, <1>3, <1>6
<1>8. ChunkEnd(x, limit) = y
  <2>1. x \in x .. y - 1
    BY <1>4
  <2>2. ChunkEnd(x, limit) = MinOf((q + 1) * CHUNK_LINES, limit)
    BY <1>6, <2>1 DEF ChunkEnd
  <2>3. y <= g + CHUNK_LINES
    BY <1>1, <1>2
  <2>4. CASE y = limit
    BY <1>1, <1>2, <2>2, <2>3, <2>4 DEF MinOf
  <2>5. CASE y % CHUNK_LINES = 0 /\ y # limit
    <3> DEFINE p == y \div CHUNK_LINES
    <3>1. y = p * CHUNK_LINES /\ p \in Nat
      BY <1>1, <2>5
    <3> HIDE DEF p
    <3>2. p = q + 1
      BY <1>1, <1>2, <3>1
    <3>3. QED BY <2>2, <2>5, <3>1, <3>2 DEF MinOf
  <2>6. QED BY <2>4, <2>5
<1>9. /\ x \in Nat /\ first <= x /\ x < y
      /\ x = first \/ x % CHUNK_LINES = 0
      /\ ChunkEnd(x, limit) = y
      /\ \A z \in x .. y - 1 :
           MaxOf((z \div CHUNK_LINES) * CHUNK_LINES, first) = x
  BY <1>4, <1>5, <1>7, <1>8
<1>10. QED BY <1>9 DEF x

(* A pass goes on when everything a step at work touches does. *)
LEMMA PassGoesOn ==
  ASSUME LinesInv, DataInv, NEW t \in Thread, Busy,
         NumberInv' /\ Spare' /\ Busy' /\ Published' /\ Flag' /\ Resolving',
         \A u \in Thread : Guesses(u)' /\ EndData(u)',
         S' = S, pub' = pub, SlotsInv', DOMAIN blockCarry' = DOMAIN blockCarry,
         HighCarries(t)', WorkData(t)',
         \A u \in Thread \ {t} :
           /\ HighCarries(u)'
           /\ pc'[u] = pc[u] /\ loc'[u] = loc[u] /\ wrote'[u] = wrote[u]
  PROVE  DataInv'
<1>1. \A u \in Thread \ {t} : WorkData(u)'
  BY WorkStays
<1>2. \A u \in Thread : Guesses(u)' /\ HighCarries(u)' /\ WorkData(u)' /\ EndData(u)'
  BY <1>1
<1>3. PassInv'
  BY <1>2 DEF PassInv
<1>4. DOMAIN blockCarry' = 0 .. NumBlocks - 1
  BY DEF DataInv
<1>5. QED BY <1>3, <1>4 DEF DataInv

(* Half a round in which there was nothing left to do. *)
LEMMA DataIdle ==
  ASSUME AloneInv, LinesInv, DataInv, NEW t \in Thread,
         NEW from \in {"low", "high"}, NEW to \in {"low", "high"},
         Goto(t, from, to), phase' = phase, loc' = loc, Still
  PROVE  DataInv'
<1>1. /\ Busy /\ pc[0] # "resolve" /\ \A u \in Thread : Ended(u) <=> pc[u] = "end"
  BY AtWork DEF Goto
<1>2. /\ Busy' /\ \A u \in Thread : Ended(u)' <=> pc'[u] = "end"
      /\ \A u \in Thread \ {t} : pc'[u] = pc[u]
      /\ pc'[t] = to /\ pc[t] = from
  BY StillAtWork DEF Goto
<1>3. S' = S
  BY <1>1, SumsStay DEF DataInv, PassInv, Still
<1>4. \A u \in Thread : WorkData(u)'
  BY <1>1, <1>2, <1>3, WorkStays DEF Still
<1>5. \A u \in Thread : Ended(u)' <=> Ended(u)
  BY <1>1, <1>2
<1>6. QED BY <1>1, <1>2, <1>4, <1>5, DataStill

LEMMA DataLowChunk ==
  ASSUME AloneInv, LinesInv, DataInv, NEW t \in Thread, LowChunk(t)
  PROVE  DataInv'
<1> DEFINE b == pub.bounds
           h == HighBlock(t)
           x == loc[t].lo
           y == ChunkEnd(x, b[t + 1])
           r == RunRange(pub, x, y, loc[t].carry)
<1>1. /\ Goto(t, "low", "high") /\ phase' = phase
      /\ UNCHANGED <<cur, digits, ret, pub, chunkCarry, blockCarry, everCarried, call>>
  BY DEF LowChunk, carries
<1>2. /\ Busy /\ Walked(t) /\ WorkData(t) /\ NumberInv /\ Published /\ PassInv
      /\ pc[t] = "low" /\ loc[t].job = pub /\ LowEnd(t) = b[t + 1]
  BY <1>1, AtWork DEF Goto, DataInv, Walked, LowEnd
<1>3. /\ b[t] \in Nat /\ b[t + 1] \in Nat /\ b[h] \in Nat /\ b[h + 1] \in Nat
      /\ x \in b[t] .. b[t + 1] /\ loc[t].hi \in b[h] .. b[h + 1]
      /\ wrote[t] = (b[t] .. x - 1) \union (loc[t].hi .. b[h + 1] - 1)
      /\ b[t + 1] <= b[h] /\ b[t + 1] <= pub.lines /\ pub.lines \in Nat
  BY <1>2, BlocksAscend, BoundsInOrder DEF Walked
<1>4. CASE ~(x < b[t + 1])
  <2>1. UNCHANGED <<a, wrote, loc>>
    BY <1>2, <1>4 DEF LowChunk
  <2>2. QED BY <1>1, <2>1, DataIdle DEF Still
<1>5. CASE x < b[t + 1]
  <2>1. /\ a' = Store(pub, x, y, r.digit)
        /\ wrote' = [wrote EXCEPT ![t] = @ \union x .. y - 1]
        /\ loc' = [loc EXCEPT ![t].lo = y, ![t].carry = r.carry, ![t].any = @ \/ r.carried]
    BY <1>2, <1>5 DEF LowChunk
  <2>2. x \in Nat /\ y \in Nat /\ x < y /\ y <= b[t + 1] /\ y <= pub.lines
    <3>1. x \in Nat /\ b[t + 1] \in Nat /\ x < b[t + 1]
      BY <1>3, <1>5
    <3>2. y \in Nat /\ x < y /\ y <= b[t + 1]
      BY ONLY <3>1, ChunkEndWithin
    <3> HIDE DEF y
    <3>3. QED BY <1>3, <3>1, <3>2
  <2> HIDE DEF y
  <2>3. /\ loc[t].carry \in BOOLEAN
        /\ loc[t].carry <=> CarryInto(S, b[t] * DPL, x * DPL, FALSE)
        /\ loc[t].any <=> Generated(wrote[t])
        /\ loc[t].hi = b[h + 1] \/ loc[t].hi \in ChunksOf(h)
    BY <1>2 DEF WorkData
  <2>4. /\ DOMAIN r.digit = x * DPL .. y * DPL - 1
        /\ \A d \in x * DPL .. y * DPL - 1 :
             r.digit[d] = Resolved(S[d], CarryInto(S, b[t] * DPL, d, FALSE))
        /\ r.carry \in BOOLEAN
        /\ r.carry <=> CarryInto(S, b[t] * DPL, y * DPL, FALSE)
        /\ r.carried <=> loc[t].carry \/ Generated(x .. y - 1)
    <3>1. b[t] \in Nat /\ b[t] <= x
      BY <1>3
    <3>2. OnCarry(b[t], x, loc[t].carry) /\ NumberInv /\ Published
      BY <1>2, <2>3 DEF OnCarry
    <3> HIDE DEF x, b
    <3>3. Added(RunRange(pub, x, y, loc[t].carry), b[t], x, y, loc[t].carry)
      BY ONLY <2>2, <3>1, <3>2, RangeRun
    <3>4. QED BY <3>3 DEF Added
  <2> HIDE DEF r
  <2>5. ChunkStep(t, x, y, b[t], r.digit)
    <3>1. Storing(x, y, r.digit)
      BY <1>1, <2>1, <2>2, <2>4 DEF Storing
    <3>2. x .. y - 1 \subseteq Own(t) /\ (x .. y - 1) \intersect wrote[t] = {}
      BY <1>3, <2>2 DEF Own, OwnLines
    <3>3. \A z \in x .. y - 1 : RangeBase(t, z) = b[t]
      BY <1>3, <2>2 DEF RangeBase
    <3>4. QED BY <1>1, <1>3, <2>1, <2>4, <3>1, <3>2, <3>3 DEF ChunkStep
  <2>6. /\ NumberInv' /\ Spare' /\ Busy' /\ Published' /\ Flag' /\ Resolving'
        /\ \A u \in Thread : Guesses(u)' /\ EndData(u)'
        /\ S' = S
    BY <1>1, <2>5, ChunkData
  <2>7. /\ wrote'[t] = wrote[t] \union x .. y - 1
        /\ loc'[t].lo = y /\ loc'[t].hi = loc[t].hi /\ loc'[t].carry = r.carry
        /\ loc'[t].any = (loc[t].any \/ r.carried)
        /\ \A u \in Thread \ {t} : loc'[u] = loc[u] /\ wrote'[u] = wrote[u]
    BY <2>1 DEF LinesInv, Shape
  <2>8. \A u \in Thread \ {t} : pc'[u] = pc[u]
    BY <1>1 DEF Goto, AloneInv, Control
  <2>9. ASSUME NEW u \in Thread PROVE HighCarries(u)'
    <3>1. ChunksOf(HighBlock(u)) \intersect wrote'[u] \subseteq wrote[u]
      <4>1. ChunksOf(h) \intersect (x .. y - 1) = {}
        BY <1>3, <2>2 DEF ChunksOf
      <4>2. QED BY <2>7, <4>1
    <3>2. QED BY <1>1, <1>2, <2>6, <3>1, ZenonT(60) DEF PassInv, HighCarries, ChunksOf
  <2>10. WorkData(t)'
    <3>1. Generated(wrote'[t]) <=> Generated(wrote[t]) \/ Generated(x .. y - 1)
      BY <2>7 DEF Generated
    <3>2. loc[t].carry => Generated(wrote[t])
      <4>1. b[t] \in Nat /\ x \in Nat /\ b[t] <= x
        BY <1>3, <2>2
      <4>2. CarryInto(S, b[t] * DPL, x * DPL, FALSE) => Generated(b[t] .. x - 1)
        BY ONLY <4>1, CarryWasGenerated
      <4>3. QED BY <1>3, <2>3, <4>2 DEF Generated
    <3>3. loc'[t].any <=> Generated(wrote'[t])
      BY <2>3, <2>4, <2>7, <3>1, <3>2
    <3>4. Generated(wrote[t])' <=> Generated(wrote'[t])
      BY <2>6 DEF Generated
    <3>5. ChunksOf(h)' = ChunksOf(h)
      BY <1>1 DEF ChunksOf
    <3>6. loc'[t].any <=> Generated(wrote[t])'
      BY <3>3, <3>4
    <3>7. /\ loc'[t].carry \in BOOLEAN
          /\ loc'[t].carry <=> CarryInto(S', pub'.bounds[t] * DPL, loc'[t].lo * DPL, FALSE)
          /\ loc'[t].hi = pub'.bounds[h + 1] \/ loc'[t].hi \in ChunksOf(h)'
      BY <1>1, <2>3, <2>4, <2>6, <2>7, <3>5
    <3>8. QED BY <3>6, <3>7 DEF WorkData
  <2>11. SlotsInv'
    BY <1>1, <1>2, <2>6 DEF DataInv, SlotsInv
  <2>12. QED BY <1>1, <1>2, <2>6, <2>7, <2>8, <2>9, <2>10, <2>11, PassGoesOn, SMTT(60)
<1>6. QED BY <1>4, <1>5

LEMMA DataHighChunk ==
  ASSUME AloneInv, LinesInv, DataInv, NEW t \in Thread, HighChunk(t)
  PROVE  DataInv'
<1> DEFINE b == pub.bounds
           h == HighBlock(t)
           y == loc[t].hi
           x == ChunkStart(y, b[h])
           r == RunRange(pub, x, y, FALSE)
<1>1. /\ Goto(t, "high", "low") /\ phase' = phase
      /\ UNCHANGED <<cur, digits, ret, pub, blockCarry, everCarried, call>>
  BY DEF HighChunk
<1>2. /\ Busy /\ Walked(t) /\ WorkData(t) /\ NumberInv /\ Published /\ PassInv
      /\ pc[t] = "high" /\ loc[t].job = pub /\ HighStart(t) = b[h]
  BY <1>1, AtWork DEF Goto, DataInv, Walked, HighStart
<1>3. /\ b[t] \in Nat /\ b[t + 1] \in Nat /\ b[h] \in Nat /\ b[h + 1] \in Nat
      /\ loc[t].lo \in b[t] .. b[t + 1] /\ y \in b[h] .. b[h + 1]
      /\ wrote[t] = (b[t] .. loc[t].lo - 1) \union (y .. b[h + 1] - 1)
      /\ b[t + 1] <= b[h] /\ b[h + 1] <= pub.lines /\ pub.lines \in Nat
      /\ h \in 0 .. NumBlocks - 1
  BY <1>2, BlocksAscend, BoundsInOrder DEF Walked
<1>4. CASE ~(y > b[h])
  <2>1. UNCHANGED <<a, wrote, loc, chunkCarry>>
    BY <1>2, <1>4 DEF HighChunk
  <2>2. QED BY <1>1, <2>1, DataIdle DEF Still
<1>5. CASE y > b[h]
  <2>1. /\ a' = Store(pub, x, y, r.digit)
        /\ wrote' = [wrote EXCEPT ![t] = @ \union x .. y - 1]
        /\ loc' = [loc EXCEPT ![t].hi = x, ![t].any = @ \/ r.carried]
        /\ chunkCarry' = [chunkCarry EXCEPT ![ChunkSlot(h, x)] = r.carry]
    BY <1>2, <1>5 DEF HighChunk
  <2>2. /\ loc[t].carry \in BOOLEAN
        /\ loc[t].carry <=> CarryInto(S, b[t] * DPL, loc[t].lo * DPL, FALSE)
        /\ loc[t].any <=> Generated(wrote[t])
        /\ y = b[h + 1] \/ y \in ChunksOf(h)
    BY <1>2 DEF WorkData
  <2>3. /\ x \in Nat /\ b[h] <= x /\ x < y /\ y \in Nat
        /\ x = b[h] \/ x % CHUNK_LINES = 0
        /\ ChunkEnd(x, b[h + 1]) = y
        /\ \A z \in x .. y - 1 :
             MaxOf((z \div CHUNK_LINES) * CHUNK_LINES, b[h]) = x
    <3>1. /\ b[h] \in Nat /\ b[h + 1] \in Nat /\ y \in Nat
          /\ b[h] < y /\ y <= b[h + 1]
      BY <1>3, <1>5
    <3>2. y = b[h + 1] \/ y % CHUNK_LINES = 0
      BY <2>2, <3>1 DEF ChunksOf
    <3> HIDE DEF y, b, h
    <3>3. QED BY ONLY <3>1, <3>2, ChunkBelow
  <2> HIDE DEF x
  <2>4. x \in ChunksOf(h)
    BY <1>3, <2>3 DEF ChunksOf
  <2>5. /\ DOMAIN r.digit = x * DPL .. y * DPL - 1
        /\ \A d \in x * DPL .. y * DPL - 1 :
             r.digit[d] = Resolved(S[d], CarryInto(S, x * DPL, d, FALSE))
        /\ r.carry \in BOOLEAN
        /\ r.carry <=> CarryInto(S, x * DPL, y * DPL, FALSE)
        /\ r.carried <=> Generated(x .. y - 1)
    <3>1. OnCarry(x, x, FALSE)
      BY <2>3, LineBase, CarryAtBase DEF OnCarry
    <3>2. y <= pub.lines /\ x <= x /\ NumberInv /\ Published
      BY <1>2, <1>3, <2>3
    <3> HIDE DEF y
    <3>3. Added(RunRange(pub, x, y, FALSE), x, x, y, FALSE)
      BY ONLY <2>3, <3>1, <3>2, RangeRun
    <3>4. QED BY <3>3 DEF Added
  <2> HIDE DEF r
  <2>6. ChunkStep(t, x, y, x, r.digit)
    <3>1. Storing(x, y, r.digit)
      BY <1>1, <1>3, <2>1, <2>3, <2>5, SMTT(60) DEF Storing
    <3>2. x .. y - 1 \subseteq Own(t) /\ (x .. y - 1) \intersect wrote[t] = {}
      BY <1>3, <2>3 DEF Own, OwnLines
    <3>3. \A z \in x .. y - 1 : RangeBase(t, z) = x
      BY <1>3, <2>3 DEF RangeBase
    <3>4. QED BY <1>1, <2>1, <2>3, <2>5, <3>1, <3>2, <3>3 DEF ChunkStep
  <2>7. /\ NumberInv' /\ Spare' /\ Busy' /\ Published' /\ Flag' /\ Resolving'
        /\ \A u \in Thread : Guesses(u)' /\ EndData(u)'
        /\ S' = S
    BY <1>1, <2>6, ChunkData
  <2>8. /\ wrote'[t] = wrote[t] \union x .. y - 1
        /\ loc'[t].lo = loc[t].lo /\ loc'[t].hi = x /\ loc'[t].carry = loc[t].carry
        /\ loc'[t].any = (loc[t].any \/ r.carried)
        /\ \A u \in Thread \ {t} : loc'[u] = loc[u] /\ wrote'[u] = wrote[u]
    BY <2>1 DEF LinesInv, Shape
  <2>9. \A u \in Thread \ {t} : pc'[u] = pc[u]
    BY <1>1 DEF Goto, AloneInv, Control
  <2>10. /\ DOMAIN chunkCarry' = DOMAIN chunkCarry
         /\ chunkCarry'[ChunkSlot(h, x)] = r.carry
         /\ \A k \in DOMAIN chunkCarry :
              k # ChunkSlot(h, x) => chunkCarry'[k] = chunkCarry[k]
    <3>1. ChunkSlot(h, x) \in DOMAIN chunkCarry
      BY <1>2, <1>3, <2>4, SlotThere DEF DataInv
    <3>2. QED BY <2>1, <3>1
  <2>11. ASSUME NEW u \in Thread PROVE HighCarries(u)'
    <3> DEFINE k == HighBlock(u)
    <3> SUFFICES ASSUME NEW z \in ChunksOf(k), z \in wrote'[u]
                 PROVE  chunkCarry'[ChunkSlot(k, z)]
                          <=> CarryInto(S, z * DPL, ChunkEnd(z, b[k + 1]) * DPL, FALSE)
      BY <1>1, <2>7 DEF HighCarries, ChunksOf
    <3>1. k \in 0 .. NumBlocks - 1
      BY BoundsInOrder
    <3>2. CASE u = t /\ z = x
      BY <2>3, <2>5, <2>10, <3>2
    <3>3. CASE ~(u = t /\ z = x)
      <4>1. z \in wrote[u]
        <5>1. CASE u # t
          BY <2>8, <5>1
        <5>2. CASE u = t /\ z \in x .. y - 1
          <6>1. z \in Nat /\ x < z /\ (z = b[h] \/ z % CHUNK_LINES = 0)
            BY <2>3, <3>3, <5>2 DEF ChunksOf
          <6>2. z % CHUNK_LINES = 0
            BY <1>3, <2>3, <6>1
          <6>3. (z \div CHUNK_LINES) * CHUNK_LINES = z
            BY <6>1, <6>2, LineAssumption
          <6>4. MaxOf(z, b[h]) = x
            BY <2>3, <5>2, <6>3
          <6>5. QED BY <1>3, <2>3, <6>1, <6>4 DEF MaxOf
        <5>3. CASE u = t /\ z \notin x .. y - 1
          BY <2>8, <5>3
        <5>4. QED BY <5>1, <5>2, <5>3
      <4>2. ChunkSlot(k, z) # ChunkSlot(h, x)
        <5>1. ~(k = h /\ z = x)
          BY <3>3, Blocks DEF HighBlock
        <5>2. QED BY <1>3, <2>4, <3>1, <5>1, SlotsApart
      <4>3. ChunkSlot(k, z) \in DOMAIN chunkCarry
        BY <1>2, <3>1, SlotThere DEF DataInv
      <4>4. chunkCarry'[ChunkSlot(k, z)] = chunkCarry[ChunkSlot(k, z)]
        BY <2>10, <4>2, <4>3
      <4>5. chunkCarry[ChunkSlot(k, z)]
              <=> CarryInto(S, z * DPL, ChunkEnd(z, b[k + 1]) * DPL, FALSE)
        BY <1>2, <4>1 DEF PassInv, HighCarries
      <4>6. QED BY <4>4, <4>5
    <3>4. QED BY <3>2, <3>3
  <2>12. WorkData(t)'
    <3>1. Generated(wrote'[t]) <=> Generated(wrote[t]) \/ Generated(x .. y - 1)
      BY <2>8 DEF Generated
    <3>2. loc'[t].any <=> Generated(wrote'[t])
      BY <2>2, <2>5, <2>8, <3>1
    <3>3. Generated(wrote[t])' <=> Generated(wrote'[t])
      BY <2>7 DEF Generated
    <3>4. ChunksOf(h)' = ChunksOf(h)
      BY <1>1 DEF ChunksOf
    <3>5. loc'[t].any <=> Generated(wrote[t])'
      BY <3>2, <3>3
    <3>6. /\ loc'[t].carry \in BOOLEAN
          /\ loc'[t].carry <=> CarryInto(S', pub'.bounds[t] * DPL, loc'[t].lo * DPL, FALSE)
          /\ loc'[t].hi = pub'.bounds[h + 1] \/ loc'[t].hi \in ChunksOf(h)'
      BY <1>1, <2>2, <2>4, <2>7, <2>8, <3>4
    <3>7. QED BY <3>5, <3>6 DEF WorkData
  <2>13. SlotsInv'
    BY <1>1, <1>2, <2>7, <2>10 DEF DataInv, SlotsInv
  <2>14. QED BY <1>1, <1>2, <2>7, <2>8, <2>9, <2>11, <2>12, <2>13, PassGoesOn, SMTT(60)
<1>6. QED BY <1>4, <1>5

LEMMA DataEndWalk ==
  ASSUME AloneInv, LinesInv, DataInv, NEW t \in Thread, EndWalk(t)
  PROVE  DataInv'
<1> DEFINE b == pub.bounds
           h == HighBlock(t)
<1>1. /\ Goto(t, "low", "end") /\ phase' = phase /\ ~Walking(t)
      /\ blockCarry' = [blockCarry EXCEPT ![t] = loc[t].carry]
      /\ everCarried' = (everCarried \/ loc[t].any)
      /\ UNCHANGED <<a, cur, digits, ret, pub, chunkCarry, call, loc, wrote>>
  BY DEF EndWalk, packedInt
<1>2. /\ Busy /\ pc[0] # "resolve" /\ Walked(t) /\ WorkData(t) /\ NumberInv /\ Published
      /\ PassInv /\ pc[t] = "low" /\ \A u \in Thread : Ended(u) <=> pc[u] = "end"
  BY <1>1, AtWork DEF Goto, DataInv
<1>3. /\ Busy' /\ pc'[0] # "resolve" /\ \A u \in Thread : Ended(u)' <=> pc'[u] = "end"
      /\ \A u \in Thread \ {t} : pc'[u] = pc[u]
      /\ pc'[t] = "end"
  BY <1>1, StillAtWork DEF Goto
<1>4. loc[t].lo = b[t + 1]
  BY <1>1, <1>2, BlocksAscend DEF Walked, Walking, LowEnd, HighStart
<1>5. /\ loc[t].carry <=> CarryInto(S, b[t] * DPL, b[t + 1] * DPL, FALSE)
      /\ loc[t].any <=> Generated(wrote[t])
  BY <1>2, <1>4 DEF WorkData
<1>6. NumberInv' /\ Current' = Current /\ S' = S
  BY <1>1, <1>2, NumberStays, SumsStay
<1>7. Published' /\ Spare' /\ SlotsInv'
  BY <1>1, <1>2, <1>3, <1>6 DEF Published, Spare, SlotsInv, DataInv
<1>8. /\ t \in 0 .. NumBlocks - 1 /\ DOMAIN blockCarry' = DOMAIN blockCarry
      /\ blockCarry'[t] = loc[t].carry
      /\ \A u \in Thread \ {t} : blockCarry'[u] = blockCarry[u]
  BY <1>1, Blocks DEF DataInv
<1>9. Flag'
  <2>1. \A L : Generated(L)' <=> Generated(L)
    BY <1>6 DEF Generated
  <2>2. everCarried <=> \E u \in Thread : Ended(u) /\ Generated(wrote[u])
    BY <1>2 DEF PassInv, Flag
  <2>3. \A u \in Thread : Ended(u)' <=> Ended(u) \/ u = t
    BY <1>2, <1>3
  <2>4. everCarried' <=> everCarried \/ Generated(wrote[t])
    BY <1>1, <1>5
  <2>5. everCarried' \in BOOLEAN
    BY <1>1
  <2>6. everCarried' <=> \E u \in Thread : Ended(u)' /\ Generated(wrote[u])
    BY <2>2, <2>3, <2>4
  <2>7. \A u \in Thread : Generated(wrote[u])' <=> Generated(wrote[u])
    BY <1>1, <1>6 DEF Generated
  <2>8. QED BY <2>5, <2>6, <2>7 DEF Flag
<1>10. ASSUME NEW u \in Thread PROVE EndData(u)'
  <2>1. CASE u = t
    BY <1>1, <1>5, <1>6, <1>8, <2>1 DEF EndData
  <2>2. CASE u # t
    BY <1>1, <1>2, <1>3, <1>6, <1>8, <2>2, ZenonT(60) DEF PassInv, EndData
  <2>3. QED BY <2>1, <2>2
<1>11. Resolving'
  BY <1>1, <1>2, <1>6 DEF PassInv, Resolving, RangeBase, Own
<1>12. ASSUME NEW u \in Thread PROVE Guesses(u)' /\ HighCarries(u)'
  BY <1>1, <1>2, <1>6, ZenonT(60) DEF PassInv, Guesses, HighCarries, RangeBase, ChunksOf
<1>13. WorkData(t)'
  BY <1>3 DEF WorkData
<1>14. QED
  BY <1>1, <1>2, <1>3, <1>6, <1>7, <1>8, <1>9, <1>10, <1>11, <1>12, <1>13, PassGoesOn

-----------------------------------------------------------------------------
(* The resolution *)

LEMMA AtResolution ==
  ASSUME AloneInv, LinesInv, DataInv, pc[0] = "resolve"
  PROVE  /\ Busy /\ NumberInv /\ Published /\ PassInv /\ Resolving
         /\ \A t \in Thread : Ended(t) /\ wrote[t] = Own(t)
  BY DEF Busy, DataInv, PassInv, Ended, LinesInv, Full

(* The block of a line. *)
LEMMA BlockOfLine ==
  ASSUME LinesInv, NEW x \in 0 .. pub.lines - 1
  PROVE  /\ BlockOf(x) \in 0 .. NumBlocks - 1
         /\ pub.bounds[BlockOf(x)] <= x /\ x < pub.bounds[BlockOf(x) + 1]
<1>1. pub.lines \in Nat /\ pub.bounds = BlockBounds(pub.lines)
  BY DEF LinesInv, Sized
<1>2. \E j \in 0 .. NumBlocks - 1 : pub.bounds[j] <= x /\ x < pub.bounds[j + 1]
  BY <1>1, BlocksCover
<1>3. QED BY <1>2 DEF BlockOf

(* The range resolution has come to is a range of some thread. *)
IsPassRange(t, x, y) ==
  /\ y \in Nat /\ x < y /\ y <= pub.lines
  /\ \A z \in x .. y - 1 : z \in wrote[t] /\ RangeBase(t, z) = x
  /\ RangeCarry(x) <=> CarryInto(S, x * DPL, y * DPL, FALSE)
  /\ \A u \in Thread : \A z \in Own(u) : z >= y => RangeBase(u, z) >= y

LEMMA LowRange ==
  ASSUME AloneInv, LinesInv, DataInv, pc[0] = "resolve", call.line < pub.lines,
         BlockOf(call.line) < NumThreads
  PROVE  \E t \in Thread : IsPassRange(t, call.line, RangeEnd(call.line))
<1> DEFINE x == call.line
           t == BlockOf(x)
           b == pub.bounds
<1>1. /\ NumberInv /\ Published /\ PassInv /\ Resolving
      /\ \A u \in Thread : Ended(u) /\ wrote[u] = Own(u)
  BY AtResolution
<1>2. pub.lines \in Nat /\ x \in 0 .. pub.lines - 1 /\ x \in Nat
  BY <1>1, SumsOfPass DEF Resolving
<1>3. t \in 0 .. NumBlocks - 1 /\ b[t] <= x /\ x < b[t + 1]
  BY <1>2, BlockOfLine
<1>4. t \in Thread /\ RangeEnd(x) = b[t + 1] /\ RangeCarry(x) = blockCarry[t]
  BY <1>3, Blocks DEF RangeEnd, RangeCarry, Thread
<1> HIDE DEF t
<1>5. /\ b[t] \in Nat /\ b[t + 1] \in Nat /\ b[t + 1] <= pub.lines
      /\ b[HighBlock(t)] \in Nat /\ b[t + 1] <= b[HighBlock(t)]
  BY <1>4, BoundsInOrder
<1>6. \A z \in b[t] .. b[t + 1] - 1 : z \in Own(t) /\ RangeBase(t, z) = b[t]
  BY <1>5 DEF Own, OwnLines, RangeBase
<1>7. x = b[t]
  <2>1. x \in Own(t) /\ RangeBase(t, x) = b[t]
    BY <1>2, <1>3, <1>5, <1>6
  <2>2. RangeBase(t, x) >= x
    BY <1>1, <1>2, <1>4, <2>1 DEF Resolving
  <2>3. QED BY <1>2, <1>3, <1>5, <2>1, <2>2
<1>8. RangeCarry(x) <=> CarryInto(S, x * DPL, b[t + 1] * DPL, FALSE)
  BY <1>1, <1>4, <1>7 DEF PassInv, EndData
<1>9. ASSUME NEW u \in Thread, NEW z \in Own(u), z >= b[t + 1]
      PROVE  RangeBase(u, z) >= b[t + 1]
  <2>1. /\ b[u] \in Nat /\ b[u + 1] \in Nat /\ b[HighBlock(u)] \in Nat
        /\ b[u + 1] <= b[HighBlock(u)] /\ z \in Nat
        /\ u \in 0 .. NumBlocks /\ t + 1 \in 0 .. NumBlocks
        /\ HighBlock(u) \in 0 .. NumBlocks
    BY <1>4, BoundsInOrder, OwnWithin
  <2>2. CASE z < b[u + 1]
    <3>1. ~(u < t + 1)
      <4>1. u < t + 1 => b[u + 1] <= b[t + 1]
        BY <1>4, BoundsInOrder
      <4>2. QED BY <1>5, <1>9, <2>1, <2>2, <4>1
    <3>2. t + 1 <= u
      BY <2>1, <3>1
    <3>3. b[t + 1] <= b[u]
      BY <2>1, <3>2, BoundsInOrder
    <3>4. RangeBase(u, z) = b[u]
      BY <2>2 DEF RangeBase
    <3>5. QED BY <1>5, <2>1, <3>3, <3>4
  <2>3. CASE ~(z < b[u + 1])
    <3>1. t + 1 <= HighBlock(u)
      BY <1>4, Blocks
    <3>2. b[t + 1] <= b[HighBlock(u)]
      BY <2>1, <3>1, BoundsInOrder
    <3>3. (z \div CHUNK_LINES) * CHUNK_LINES \in Nat
      BY <2>1, LineAssumption
    <3>4. RangeBase(u, z) = MaxOf((z \div CHUNK_LINES) * CHUNK_LINES, b[HighBlock(u)])
      BY <2>3 DEF RangeBase
    <3>5. QED BY <1>5, <2>1, <3>2, <3>3, <3>4 DEF MaxOf
  <2>4. QED BY <2>2, <2>3
<1>10. IsPassRange(t, x, b[t + 1])
  BY <1>1, <1>3, <1>4, <1>5, <1>6, <1>7, <1>8, <1>9 DEF IsPassRange
<1>11. QED BY <1>4, <1>10

LEMMA HighRange ==
  ASSUME AloneInv, LinesInv, DataInv, pc[0] = "resolve", call.line < pub.lines,
         ~(BlockOf(call.line) < NumThreads)
  PROVE  \E t \in Thread : IsPassRange(t, call.line, RangeEnd(call.line))
<1> DEFINE x == call.line
           h == BlockOf(x)
           t == NumBlocks - 1 - h
           b == pub.bounds
           q == x \div CHUNK_LINES
           next == (q + 1) * CHUNK_LINES
           y == ChunkEnd(x, b[h + 1])
<1>1. /\ NumberInv /\ Published /\ PassInv /\ Resolving
      /\ \A u \in Thread : Ended(u) /\ wrote[u] = Own(u)
  BY AtResolution
<1>2. pub.lines \in Nat /\ x \in 0 .. pub.lines - 1 /\ x \in Nat
  BY <1>1, SumsOfPass DEF Resolving
<1>3. h \in 0 .. NumBlocks - 1 /\ b[h] <= x /\ x < b[h + 1]
  BY <1>2, BlockOfLine
<1>4. /\ t \in Thread /\ HighBlock(t) = h
      /\ RangeEnd(x) = y /\ RangeCarry(x) = chunkCarry[ChunkSlot(h, x)]
  BY <1>3, Blocks DEF RangeEnd, RangeCarry, Thread, HighBlock
<1> HIDE DEF h, t
<1>5. /\ b[t + 1] \in Nat /\ b[t + 1] <= b[h]
      /\ b[h] \in Nat /\ b[h + 1] \in Nat /\ b[h + 1] <= pub.lines
      /\ h \in 0 .. NumBlocks /\ h + 1 \in 0 .. NumBlocks
  BY <1>4, BoundsInOrder
<1>6. y \in Nat /\ x < y /\ y <= b[h + 1] /\ y = MinOf(next, b[h + 1])
  <2>1. b[h + 1] \in Nat /\ x < b[h + 1]
    BY <1>3, <1>5
  <2>2. QED BY <1>2, <2>1, ChunkEndWithin DEF ChunkEnd
<1>7. /\ q \in Nat /\ q * CHUNK_LINES \in Nat /\ q * CHUNK_LINES <= x
      /\ next = q * CHUNK_LINES + CHUNK_LINES /\ next \in Nat
      /\ CHUNK_LINES \in Nat \ {0}
  <2>1. CHUNK_LINES \in Nat \ {0}
    BY LineAssumption
  <2>2. q \in Nat /\ q * CHUNK_LINES <= x
    BY <1>2, <2>1, Quotient
  <2> HIDE DEF q
  <2>3. QED BY <2>1, <2>2
<1> HIDE DEF y
<1>8. ASSUME NEW z \in b[h] .. b[h + 1] - 1
      PROVE  /\ z \in Own(t)
             /\ RangeBase(t, z) = MaxOf((z \div CHUNK_LINES) * CHUNK_LINES, b[h])
  BY <1>4, <1>5 DEF Own, OwnLines, RangeBase
<1>9. MaxOf(q * CHUNK_LINES, b[h]) = x
  <2>1. x \in b[h] .. b[h + 1] - 1
    BY <1>2, <1>3, <1>5
  <2>2. RangeBase(t, x) = MaxOf(q * CHUNK_LINES, b[h]) /\ x \in Own(t)
    BY <1>8, <2>1
  <2>3. RangeBase(t, x) >= x
    BY <1>1, <1>2, <1>4, <2>2 DEF Resolving
  <2> DEFINE g == q * CHUNK_LINES
  <2>4. g \in Nat /\ g <= x /\ MaxOf(g, b[h]) >= x
    BY <1>7, <2>2, <2>3
  <2> HIDE DEF g
  <2>5. MaxOf(g, b[h]) = x
    BY <1>2, <1>3, <1>5, <2>4 DEF MaxOf
  <2>6. QED BY <2>5 DEF g
<1>10. ASSUME NEW z \in x .. y - 1
       PROVE  z \in wrote[t] /\ RangeBase(t, z) = x
  <2>1. z \in b[h] .. b[h + 1] - 1 /\ z \in Nat
    BY <1>2, <1>3, <1>5, <1>6
  <2>2. q * CHUNK_LINES <= z /\ z < q * CHUNK_LINES + CHUNK_LINES
    BY <1>2, <1>5, <1>6, <1>7, <2>1 DEF MinOf
  <2>3. z \div CHUNK_LINES = q
    <3> DEFINE g == q * CHUNK_LINES
    <3>1. g \in Nat /\ g <= z /\ z < g + CHUNK_LINES /\ g = q * CHUNK_LINES /\ q \in Nat
      BY <1>7, <2>2
    <3> HIDE DEF q, g
    <3>2. z - g \in 0 .. CHUNK_LINES - 1
      BY <1>7, <2>1, <3>1
    <3>3. QED BY <1>7, <2>1, <3>1, <3>2
  <2>4. z \in wrote[t]
    BY <1>1, <1>4, <1>8, <2>1
  <2>5. QED BY <1>8, <1>9, <2>1, <2>3, <2>4
<1>11. RangeCarry(x) <=> CarryInto(S, x * DPL, y * DPL, FALSE)
  <2>1. x \in ChunksOf(h)
    <3>1. x = b[h] \/ x = q * CHUNK_LINES
      BY <1>9 DEF MaxOf
    <3>2. x = b[h] \/ x % CHUNK_LINES = 0
      BY <1>2, <1>7, <3>1
    <3>3. QED BY <1>2, <1>3, <1>5, <3>2 DEF ChunksOf
  <2>2. x \in wrote[t]
    BY <1>2, <1>6, <1>10
  <2>3. HighCarries(t)
    BY <1>1, <1>4 DEF PassInv
  <2>4. chunkCarry[ChunkSlot(h, x)]
          <=> CarryInto(S, x * DPL, ChunkEnd(x, b[h + 1]) * DPL, FALSE)
    BY <1>4, <2>1, <2>2, <2>3 DEF HighCarries
  <2>5. QED BY <1>4, <2>4 DEF y
<1>12. ASSUME NEW u \in Thread, NEW z \in Own(u), z >= y
       PROVE  RangeBase(u, z) >= y
  <2> DEFINE k == HighBlock(u)
             g == (z \div CHUNK_LINES) * CHUNK_LINES
  <2>1. /\ b[u] \in Nat /\ b[u + 1] \in Nat /\ b[k] \in Nat /\ b[k + 1] \in Nat
        /\ b[u + 1] <= b[k] /\ z \in Nat
        /\ k \in 0 .. NumBlocks /\ k + 1 \in 0 .. NumBlocks /\ u + 1 \in 0 .. NumBlocks
    BY BoundsInOrder, OwnWithin
  <2>2. ~(z < b[u + 1])
    <3>1. u + 1 <= h
      BY <1>4, Blocks
    <3>2. b[u + 1] <= b[h]
      BY <1>5, <2>1, <3>1, BoundsInOrder
    <3>3. QED BY <1>2, <1>3, <1>5, <1>6, <1>12, <2>1, <3>2
  <2>3. b[k] <= z /\ z < b[k + 1]
    BY <2>1, <2>2 DEF Own, OwnLines
  <2>4. g \in Nat /\ RangeBase(u, z) = MaxOf(g, b[k])
    BY <2>1, <2>2, LineAssumption DEF RangeBase
  <2>5. ~(k < h)
    <3>1. k < h => b[k + 1] <= b[h]
      BY <1>5, <2>1, BoundsInOrder
    <3>2. QED BY <1>2, <1>3, <1>5, <1>6, <1>12, <2>1, <2>3, <3>1
  <2>6. CASE h < k
    <3>1. b[h + 1] <= b[k]
      BY <1>5, <2>1, <2>6, BoundsInOrder
    <3> HIDE DEF g
    <3>2. QED BY <1>5, <1>6, <2>1, <2>4, <3>1 DEF MaxOf
  <2>7. CASE k = h
    <3>1. y = next /\ next <= z
      BY <1>5, <1>6, <1>7, <1>12, <2>1, <2>3, <2>7 DEF MinOf
    <3>2. /\ z \div CHUNK_LINES \in Nat
          /\ z < g + CHUNK_LINES
      BY <1>7, <2>1, Quotient
    <3>3. next <= g
      <4> DEFINE p == z \div CHUNK_LINES
      <4>1. p \in Nat /\ z < p * CHUNK_LINES + CHUNK_LINES /\ g = p * CHUNK_LINES
        BY <3>2
      <4> HIDE DEF p, g, q
      <4>2. q < p + 1
        <5>1. ASSUME p < q PROVE FALSE
          <6>1. p * CHUNK_LINES + CHUNK_LINES <= q * CHUNK_LINES
            BY <1>7, <4>1, <5>1
          <6>2. QED BY <1>7, <2>1, <3>1, <4>1, <6>1
        <5>2. QED BY <1>7, <4>1, <5>1
      <4>3. q # p
        BY <1>7, <2>1, <3>1, <4>1
      <4>4. q + 1 <= p
        BY <1>7, <4>1, <4>2, <4>3
      <4>5. QED BY <1>7, <4>1, <4>4
    <3> HIDE DEF g
    <3>4. QED BY <1>7, <2>1, <2>4, <3>1, <3>3 DEF MaxOf
  <2>8. k \in Nat /\ h \in Nat
    BY <1>5, <2>1, Blocks
  <2>9. QED BY <2>5, <2>6, <2>7, <2>8
<1>13. IsPassRange(t, x, y)
  <2>1. y \in Nat /\ x < y /\ y <= pub.lines
    BY <1>2, <1>5, <1>6
  <2>2. QED BY <1>10, <1>11, <1>12, <2>1 DEF IsPassRange
<1>14. QED BY <1>4, <1>13

(* The end of the number cuts the top range short, but no increment gets   *)
(* there: it would run through nines up to the number's end, and the       *)
(* number would have grown past them.                                      *)
LEMMA ClipHarmless ==
  ASSUME NumberInv, Published, NEW x \in Nat, NEW y \in Nat, x < y, y <= pub.lines,
         NEW out, Speculative(S, out, x * DPL, y * DPL),
         CarryInto(S, 0, x * DPL, FALSE)
  PROVE  LET lo == x * DPL
             end == y * DPL
             clip == MinOf(end, call.out)
         IN  /\ Increment(out, lo, clip) = Increment(out, lo, end)
             /\ Escapes(out, lo, clip) <=> Escapes(out, lo, end)
<1> DEFINE lo == x * DPL
           end == y * DPL
           clip == MinOf(end, call.out)
<1>1. /\ lo \in Nat /\ end \in Nat /\ lo <= end /\ end <= pub.lines * DPL
      /\ pub.lines * DPL \in Nat /\ pub.lines \in Nat
  BY SumsOfPass, SlotsOfLines
<1>2. CASE end <= call.out
  <2>1. clip = end
    BY <1>1, <1>2, RoomForPass, SMTT(60) DEF MinOf
  <2>2. QED BY <2>1
<1>3. CASE call.out < end
  <2>1. clip = call.out /\ clip \in Nat /\ digits <= clip /\ clip < end /\ digits \in Nat
    BY <1>1, <1>3, RoomForPass, SMTT(60) DEF MinOf, NumberInv
  <2>2. lo < clip
    <3>1. x <= pub.lines - 1 /\ pub.lines - 1 \in Nat
      BY <1>1
    <3>2. lo <= (pub.lines - 1) * DPL
      BY <3>1, LinesAscend
    <3>3. (pub.lines - 1) * DPL \in Nat
      BY <3>1, LineBase
    <3>4. (pub.lines - 1) * DPL < digits
      BY SumsOfPass
    <3>5. QED BY <1>1, <2>1, <3>2, <3>3, <3>4
  <2> HIDE DEF lo, end, clip
  <2>3. ASSUME \A i \in lo .. clip - 1 : out[i] = 9 PROVE FALSE
    <3>1. clip \in lo .. end /\ Speculative(S, out, lo, end)
      BY <1>1, <2>1, <2>2 DEF lo, end
    <3>2. (\A i \in lo .. clip - 1 : out[i] = 9) <=> (\A i \in lo .. clip - 1 : S[i] = 9)
      BY ONLY <1>1, <3>1, NineRun, SMTT(60)
    <3>3. \A i \in lo .. clip - 1 : S[i] = 9
      BY <2>3, <3>2
    <3>4. S[clip - 1] = 9 /\ clip - 1 \in 0 .. pub.lines * DPL - 1
      BY <1>1, <2>1, <2>2, <3>3
    <3>5. clip - 1 < digits
      BY <2>1, <3>4, SumsOfPass
    <3>6. clip = digits
      BY <2>1, <3>5
    <3>7. CarryInto(S, 0, lo, FALSE)
      BY DEF lo
    <3>8. CarryInto(S, 0, digits, FALSE)
      <4>1. CarryInto(S, 0, digits, FALSE)
              <=> CarryInto(S, lo, digits, CarryInto(S, 0, lo, FALSE))
        <5>1. lo \in Nat /\ digits \in Nat /\ lo <= digits
          BY <1>1, <2>1, <2>2, <3>6
        <5>2. QED BY ONLY <5>1, CarryFromZero
      <4>2. CarryInto(S, lo, digits, CarryInto(S, 0, lo, FALSE))
        BY <3>3, <3>6, <3>7 DEF CarryInto
      <4>3. QED BY <4>1, <4>2
    <3>9. call.out = digits + 1
      BY <3>8, CarriesOfPass, RoomForPass
    <3>10. digits + 1 # digits
      BY <2>1
    <3>11. QED BY <2>1, <3>6, <3>9, <3>10
  <2>4. ~Escapes(out, lo, clip) /\ ~Escapes(out, lo, end)
    BY <1>1, <2>1, <2>2, <2>3 DEF Escapes
  <2>5. ASSUME NEW d \in DOMAIN out
        PROVE  (d \in lo .. clip - 1 /\ \A i \in lo .. d - 1 : out[i] = 9)
                 <=> (d \in lo .. end - 1 /\ \A i \in lo .. d - 1 : out[i] = 9)
    <3>1. lo .. clip - 1 \subseteq lo .. end - 1
      BY <1>1, <2>1
    <3>2. ASSUME d \in lo .. end - 1, d \notin lo .. clip - 1
          PROVE  lo .. clip - 1 \subseteq lo .. d - 1
      BY <1>1, <2>1, <2>2, <3>2
    <3>3. QED BY <2>3, <3>1, <3>2
  <2>6. Increment(out, lo, clip) = Increment(out, lo, end)
    BY <2>5 DEF Increment
  <2>7. QED BY <2>4, <2>6 DEF lo, end, clip
<1>4. QED BY <1>1, <1>2, <1>3, RoomForPass, SMTT(60)

(* One range resolved. *)
LEMMA RangeResolved ==
  ASSUME AloneInv, LinesInv, DataInv, ResolveRange,
         NEW t \in Thread, IsPassRange(t, call.line, RangeEnd(call.line))
  PROVE  LET lo == call.line * DPL
             y == RangeEnd(call.line)
             dst == pub.dst
         IN  /\ DOMAIN a' = DOMAIN a /\ a'[cur] = a[cur]
             /\ DOMAIN a'[dst] = DOMAIN a[dst]
             /\ \A d \in DOMAIN a[dst] :
                  d \notin lo .. y * DPL - 1 => a'[dst][d] = a[dst][d]
             /\ \A d \in lo .. y * DPL - 1 :
                  a'[dst][d] = Resolved(S[d], CarryInto(S, 0, d, FALSE))
             /\ call'.line = y /\ call'.out = call.out
             /\ call'.carry \in BOOLEAN
             /\ call'.carry <=> CarryInto(S, 0, y * DPL, FALSE)
<1> DEFINE x == call.line
           y == RangeEnd(x)
           lo == x * DPL
           end == y * DPL
           dst == pub.dst
           out == a[dst]
           clip == MinOf(end, call.out)
<1>1. /\ pc[0] = "resolve" /\ x < pub.lines
      /\ a' = IF call.carry THEN [a EXCEPT ![dst] = Increment(@, lo, clip)] ELSE a
      /\ call' = [call EXCEPT !.line = y,
                              !.carry = RangeCarry(x) \/ (@ /\ Escapes(out, lo, clip))]
  BY DEF ResolveRange
<1>2. /\ NumberInv /\ Published /\ PassInv /\ Resolving
      /\ \A u \in Thread : Ended(u) /\ wrote[u] = Own(u)
  BY <1>1, AtResolution
<1>3. /\ x \in Nat /\ y \in Nat /\ x < y /\ y <= pub.lines
      /\ \A z \in x .. y - 1 : z \in wrote[t] /\ RangeBase(t, z) = x
      /\ RangeCarry(x) <=> CarryInto(S, lo, end, FALSE)
  <2>1. pub.lines \in Nat /\ x \in 0 .. pub.lines
    BY <1>2, SumsOfPass DEF Resolving
  <2>2. x \in Nat
    BY <2>1
  <2>3. IsPassRange(t, x, y)
    OBVIOUS
  <2> HIDE DEF x, y
  <2>4. QED BY <2>2, <2>3 DEF IsPassRange
<1>4. /\ lo \in Nat /\ end \in Nat /\ lo <= end /\ end <= pub.lines * DPL
      /\ pub.lines * DPL \in Nat /\ pub.lines \in Nat
  BY <1>2, <1>3, SumsOfPass, SlotsOfLines, SMTT(60)
<1>5. /\ DOMAIN a = {0, 1} /\ dst \in {0, 1} /\ dst # cur
      /\ lo .. end - 1 \subseteq DOMAIN out
  <2>1. /\ dst \in {0, 1} /\ dst # cur
        /\ DOMAIN out = 0 .. DivCeil(call.out, DPL) * DPL - 1
        /\ pub.lines * DPL <= DivCeil(call.out, DPL) * DPL
        /\ DivCeil(call.out, DPL) * DPL \in Nat
    BY <1>2, RoomForPass
  <2>2. QED BY <1>2, <1>4, <2>1, SMTT(60) DEF NumberInv
<1>6. Speculative(S, out, lo, end)
  <2> SUFFICES ASSUME NEW d \in lo .. end - 1
               PROVE  S[d] \in 0 .. 18 /\ out[d] = Resolved(S[d], CarryInto(S, lo, d, FALSE))
    BY DEF Speculative
  <2>1. d \in 0 .. pub.lines * DPL - 1
    BY <1>4
  <2>2. d \div DPL \in x .. y - 1 /\ d \in LineSlots(d \div DPL)
    BY <1>3, SlotsOfLines
  <2>3. d \div DPL \in wrote[t] /\ RangeBase(t, d \div DPL) = x /\ d \div DPL >= x
    BY <1>3, <2>2
  <2>4. out[d] = Resolved(S[d], CarryInto(S, RangeBase(t, d \div DPL) * DPL, d, FALSE))
    BY <1>2, <2>2, <2>3 DEF PassInv, Guesses
  <2>5. S[d] \in 0 .. 18
    BY <1>2, <2>1, SumsOfPass
  <2>6. QED BY <2>3, <2>4, <2>5
<1>7. /\ call'.line = y /\ call'.out = call.out
      /\ call'.carry = (RangeCarry(x) \/ (call.carry /\ Escapes(out, lo, clip)))
  BY <1>1 DEF LinesInv, Shape
<1>8. call.carry \in BOOLEAN /\ (call.carry <=> CarryInto(S, 0, lo, FALSE))
  BY <1>2 DEF Resolving
<1> HIDE DEF y, out, clip, lo, end
<1>9. ASSUME NEW d \in lo .. end
      PROVE  CarryInto(S, 0, d, FALSE) <=> CarryInto(S, lo, d, CarryInto(S, 0, lo, FALSE))
  <2>1. d \in Nat /\ lo <= d
    BY <1>4
  <2>2. QED BY ONLY <1>4, <2>1, CarryFromZero
<1>10. CASE ~call.carry
  <2>1. a' = a
    BY <1>1, <1>10
  <2>2. \A d \in lo .. end : CarryInto(S, 0, d, FALSE) <=> CarryInto(S, lo, d, FALSE)
    BY <1>8, <1>9, <1>10 DEF CarryInto
  <2>3. ASSUME NEW d \in lo .. end - 1
        PROVE  out[d] = Resolved(S[d], CarryInto(S, 0, d, FALSE))
    <3>1. d \in lo .. end
      BY <1>4
    <3>2. out[d] = Resolved(S[d], CarryInto(S, lo, d, FALSE))
      BY <1>6 DEF Speculative
    <3>3. CarryInto(S, 0, d, FALSE) <=> CarryInto(S, lo, d, FALSE)
      BY <2>2, <3>1
    <3>4. QED BY ONLY <3>2, <3>3, ResolvedSame, ZenonT(60)
  <2>4. end \in lo .. end
    BY <1>4
  <2>5. call'.carry <=> CarryInto(S, 0, end, FALSE)
    BY <1>3, <1>7, <1>10, <2>2, <2>4
  <2>6. call'.carry \in BOOLEAN
    BY <1>7
  <2>7. QED BY <1>7, <2>1, <2>3, <2>5, <2>6 DEF y, out, lo, end
<1>11. CASE call.carry
  <2>1. CarryInto(S, 0, lo, FALSE)
    BY <1>8, <1>11
  <2>2. /\ Increment(out, lo, clip) = Increment(out, lo, end)
        /\ Escapes(out, lo, clip) <=> Escapes(out, lo, end)
    BY ONLY <1>2, <1>3, <1>6, <2>1, ClipHarmless DEF clip, lo, end
  <2>3. /\ \A d \in lo .. end - 1 :
             Increment(out, lo, end)[d] = Resolved(S[d], CarryInto(S, lo, d, TRUE))
        /\ CarryInto(S, lo, end, TRUE)
             <=> CarryInto(S, lo, end, FALSE) \/ Escapes(out, lo, end)
    BY ONLY <1>4, <1>5, <1>6, SpeculationSound
  <2>4. \A d \in lo .. end : CarryInto(S, 0, d, FALSE) <=> CarryInto(S, lo, d, TRUE)
    BY <1>9, <2>1 DEF CarryInto
  <2>5. a' = [a EXCEPT ![dst] = Increment(out, lo, end)]
    BY <1>1, <1>11, <2>2 DEF out
  <2>6. DOMAIN a' = DOMAIN a /\ a'[cur] = a[cur] /\ a'[dst] = Increment(out, lo, end)
    BY <1>5, <2>5
  <2>7. /\ DOMAIN Increment(out, lo, end) = DOMAIN out
        /\ \A d \in DOMAIN out :
             d \notin lo .. end - 1 => Increment(out, lo, end)[d] = out[d]
    BY DEF Increment
  <2>8. ASSUME NEW d \in lo .. end - 1
        PROVE  a'[dst][d] = Resolved(S[d], CarryInto(S, 0, d, FALSE))
    <3>1. d \in lo .. end
      BY <1>4
    <3>2. a'[dst][d] = Resolved(S[d], CarryInto(S, lo, d, TRUE))
      BY <2>3, <2>6
    <3>3. CarryInto(S, 0, d, FALSE) <=> CarryInto(S, lo, d, TRUE)
      BY <2>4, <3>1
    <3>4. QED BY <3>2, <3>3, ResolvedSame
  <2>9. end \in lo .. end
    BY <1>4
  <2>10. call'.carry <=> CarryInto(S, 0, end, FALSE)
    BY <1>3, <1>7, <1>11, <2>2, <2>3, <2>4, <2>9
  <2>11. call'.carry \in BOOLEAN
    BY <1>7
  <2>12. QED BY <1>7, <2>6, <2>7, <2>8, <2>10, <2>11 DEF y, out, lo, end
<1>12. QED BY <1>8, <1>10, <1>11

LEMMA DataResolveRange ==
  ASSUME AloneInv, LinesInv, DataInv, ResolveRange
  PROVE  DataInv'
<1> DEFINE x == call.line
           y == RangeEnd(x)
           lo == x * DPL
           end == y * DPL
           dst == pub.dst
<1>1. /\ pc[0] = "resolve" /\ x < pub.lines
      /\ UNCHANGED <<cur, digits, pub, chunkCarry, blockCarry, everCarried, phase, pc,
                     loc, ret, wrote>>
  BY DEF ResolveRange, carries
<1>2. /\ NumberInv /\ Published /\ PassInv /\ Resolving /\ Busy
      /\ \A u \in Thread : Ended(u) /\ wrote[u] = Own(u)
  BY <1>1, AtResolution
<1>3. PICK t \in Thread : IsPassRange(t, x, y)
  BY <1>1, LowRange, HighRange
<1>4. /\ DOMAIN a' = DOMAIN a /\ a'[cur] = a[cur]
      /\ DOMAIN a'[dst] = DOMAIN a[dst]
      /\ \A d \in DOMAIN a[dst] : d \notin lo .. end - 1 => a'[dst][d] = a[dst][d]
      /\ \A d \in lo .. end - 1 : a'[dst][d] = Resolved(S[d], CarryInto(S, 0, d, FALSE))
      /\ call'.line = y /\ call'.out = call.out
      /\ call'.carry \in BOOLEAN
      /\ call'.carry <=> CarryInto(S, 0, end, FALSE)
  BY <1>3, RangeResolved
<1>5. /\ x \in Nat /\ y \in Nat /\ x < y /\ y <= pub.lines /\ pub.lines \in Nat
      /\ \A u \in Thread : \A z \in Own(u) : z >= y => RangeBase(u, z) >= y
  <2>1. pub.lines \in Nat /\ x \in Nat
    BY <1>2, SumsOfPass DEF Resolving
  <2>2. IsPassRange(t, x, y)
    BY <1>3
  <2> HIDE DEF x, y
  <2>3. QED BY <2>1, <2>2 DEF IsPassRange
<1>6. /\ lo \in Nat /\ end \in Nat /\ lo <= end /\ end <= pub.lines * DPL
      /\ pub.lines * DPL \in Nat
  BY <1>5, SlotsOfLines
<1>7. /\ dst = 1 - cur /\ 0 .. pub.lines * DPL - 1 \subseteq DOMAIN a[dst]
      /\ DOMAIN a[dst] \subseteq Nat
  <2>1. /\ dst = 1 - cur
        /\ DOMAIN a[dst] = 0 .. DivCeil(call.out, DPL) * DPL - 1
        /\ pub.lines * DPL <= DivCeil(call.out, DPL) * DPL
        /\ DivCeil(call.out, DPL) * DPL \in Nat
    BY <1>2, RoomForPass
  <2>2. QED BY <1>6, <2>1
<1> HIDE DEF y, lo, end
<1>8. NumberInv' /\ Current' = Current /\ S' = S
  BY <1>1, <1>2, <1>4, NumberStays, SumsStay
<1>9. Busy' /\ Spare' /\ SlotsInv' /\ DOMAIN blockCarry' = 0 .. NumBlocks - 1
  BY <1>1, <1>2 DEF Busy, Spare, SlotsInv, DataInv
<1>10. Published'
  <2>1. \A d \in DOMAIN a'[dst] : d >= pub.lines * DPL => a'[dst][d] = 0
    <3> SUFFICES ASSUME NEW d \in DOMAIN a[dst], d >= pub.lines * DPL
                 PROVE  a'[dst][d] = 0
      BY <1>4
    <3>1. d \notin lo .. end - 1
      BY <1>6
    <3>2. a[dst][d] = 0
      BY <1>2, <1>7 DEF Published
    <3>3. QED BY <1>4, <3>1, <3>2
  <2>2. QED BY <1>1, <1>2, <1>4, <1>7, <1>8, <2>1 DEF Published
<1>11. Flag'
  <2>1. \A L : Generated(L)' <=> Generated(L)
    BY <1>8 DEF Generated
  <2>2. \A u \in Thread : Ended(u)' <=> Ended(u)
    BY <1>1 DEF Ended
  <2>3. QED BY <1>1, <1>2, <2>1, <2>2 DEF PassInv, Flag
<1>12. Resolving'
  <2>1. call'.line \in 0 .. pub'.lines
    BY <1>1, <1>4, <1>5
  <2>2. call'.line * DPL = end
    BY <1>4 DEF end
  <2>3. call'.carry \in BOOLEAN /\ (call'.carry <=> CarryInto(S', 0, call'.line * DPL, FALSE))
    BY <1>4, <1>8, <2>2
  <2>4. ASSUME NEW d \in 0 .. end - 1
        PROVE  a'[dst][d] = Resolved(S[d], CarryInto(S, 0, d, FALSE))
    <3>1. CASE d \in lo .. end - 1
      BY <1>4, <3>1
    <3>2. CASE d \notin lo .. end - 1
      <4>1. d \in 0 .. lo - 1 /\ d \in 0 .. pub.lines * DPL - 1
        BY <1>6, <3>2
      <4>2. a[dst][d] = Resolved(S[d], CarryInto(S, 0, d, FALSE))
        BY <1>2, <4>1 DEF Resolving, lo
      <4>3. QED BY <1>4, <1>7, <3>2, <4>1, <4>2
    <3>3. QED BY <3>1, <3>2
  <2>5. \A d \in 0 .. call'.line * DPL - 1 :
          a'[pub'.dst][d] = Resolved(S'[d], CarryInto(S', 0, d, FALSE))
    BY <1>1, <1>8, <2>2, <2>4
  <2>6. \A u \in Thread : \A z \in Own(u)' : z >= call'.line => RangeBase(u, z)' >= call'.line
    BY <1>1, <1>4, <1>5 DEF Own, RangeBase
  <2>7. QED BY <2>1, <2>3, <2>5, <2>6 DEF Resolving
<1>13. ASSUME NEW u \in Thread PROVE Guesses(u)'
  <2> SUFFICES ASSUME NEW z \in wrote[u], z >= y, NEW d \in LineSlots(z)
               PROVE  a'[dst][d] = Resolved(S[d], CarryInto(S, RangeBase(u, z) * DPL, d, FALSE))
    BY <1>1, <1>4, <1>8 DEF Guesses, RangeBase, LineSlots
  <2>1. z \in 0 .. pub.lines - 1 /\ z \in Nat /\ z >= x
    BY <1>5, OwnWithin
  <2>2. d \in y * DPL .. pub.lines * DPL - 1
    BY <1>5, <2>1, SlotsOfLines
  <2>3. d \notin lo .. end - 1 /\ d \in DOMAIN a[dst]
    BY <1>6, <1>7, <2>2 DEF end
  <2>4. a[dst][d] = Resolved(S[d], CarryInto(S, RangeBase(u, z) * DPL, d, FALSE))
    BY <1>2, <2>1 DEF PassInv, Guesses
  <2>5. QED BY <1>4, <2>3, <2>4
<1>14. ASSUME NEW u \in Thread PROVE HighCarries(u)' /\ EndData(u)' /\ WorkData(u)'
  <2>1. Generated(wrote[u])' <=> Generated(wrote[u])
    BY <1>1, <1>8 DEF Generated
  <2>2. HighCarries(u) /\ EndData(u) /\ WorkData(u)
    BY <1>2 DEF PassInv
  <2>3. HighCarries(u)'
    BY <1>1, <1>8, <2>2 DEF HighCarries, ChunksOf
  <2>4. EndData(u)'
    BY <1>1, <1>8, <2>2 DEF EndData, Ended
  <2>5. WorkData(u)'
    BY <1>1, <1>8, <2>1, <2>2 DEF WorkData, ChunksOf
  <2>6. QED BY <2>3, <2>4, <2>5
<1>15. QED BY <1>8, <1>9, <1>10, <1>11, <1>12, <1>13, <1>14 DEF DataInv, PassInv

-----------------------------------------------------------------------------
(* The end of a step *)

(* The resolution has reached the end of the number: the destination holds *)
(* the sum, clean above, and a carry is left only where it grew.           *)
LEMMA SumInPlace ==
  ASSUME AloneInv, LinesInv, DataInv, pc[0] = "resolve", call.line = pub.lines
  PROVE  LET dst == pub.dst
             final == IF call.carry THEN [a[dst] EXCEPT ![call.out - 1] = 1] ELSE a[dst]
         IN  /\ DOMAIN final = DOMAIN a[dst]
             /\ \A d \in 0 .. digits - 1 : final[d] = ReverseAdd(Current, digits)[d]
             /\ call.out = digits + 1 => final[digits] = 1
             /\ \A d \in DOMAIN a[dst] : d >= call.out => final[d] = 0
<1> DEFINE dst == pub.dst
           final == IF call.carry THEN [a[dst] EXCEPT ![call.out - 1] = 1] ELSE a[dst]
           top == pub.lines * DPL
           s == Sums(Current, digits)
<1>1. NumberInv /\ Published /\ Resolving
  BY AtResolution
<1>2. /\ digits \in Nat \ {0} /\ top \in Nat /\ digits <= top
      /\ \A d \in 0 .. top - 1 :
           /\ d < digits => S[d] = s[d]
           /\ d >= digits => S[d] = 0
  BY <1>1, SumsOfPass DEF NumberInv
<1>3. /\ \A d \in 0 .. digits : CarryInto(S, 0, d, FALSE) <=> CarryInto(s, 0, d, FALSE)
      /\ \A d \in digits + 1 .. top : ~CarryInto(S, 0, d, FALSE)
      /\ PrescanGrow(Current, digits) <=> CarryInto(S, 0, digits, FALSE)
  BY <1>1, CarriesOfPass
<1>4. /\ call.out \in Nat /\ digits <= call.out /\ call.out <= digits + 1
      /\ call.out = digits + 1 <=> PrescanGrow(Current, digits)
      /\ DOMAIN a[dst] = 0 .. DivCeil(call.out, DPL) * DPL - 1
      /\ call.out <= DivCeil(call.out, DPL) * DPL
      /\ top <= DivCeil(call.out, DPL) * DPL /\ DivCeil(call.out, DPL) * DPL \in Nat
  BY <1>1, RoomForPass
<1>5. /\ call.carry <=> CarryInto(S, 0, top, FALSE)
      /\ \A d \in 0 .. top - 1 : a[dst][d] = Resolved(S[d], CarryInto(S, 0, d, FALSE))
  BY <1>1 DEF Resolving
<1>6. \A d \in DOMAIN a[dst] : d >= top => a[dst][d] = 0
  BY <1>1 DEF Published
<1> HIDE DEF top, s
<1>7. call.carry => top = digits /\ PrescanGrow(Current, digits) /\ call.out = digits + 1
  <2>1. top \in digits .. top /\ (top # digits => top \in digits + 1 .. top)
    BY <1>2
  <2>2. call.carry => top = digits
    BY <1>3, <1>5, <2>1
  <2>3. QED BY <1>3, <1>4, <1>5, <2>2
<1>8. /\ DOMAIN final = DOMAIN a[dst]
      /\ ~call.carry => final = a[dst]
      /\ call.carry => /\ final[digits] = 1
                       /\ \A d \in DOMAIN a[dst] : d # digits => final[d] = a[dst][d]
  <2>1. CASE ~call.carry
    BY <2>1
  <2>2. CASE call.carry
    <3>1. call.out - 1 = digits /\ digits \in DOMAIN a[dst]
      BY <1>2, <1>4, <1>7, <2>2
    <3>2. final = [a[dst] EXCEPT ![digits] = 1]
      BY <2>2, <3>1
    <3>3. QED BY <2>2, <3>1, <3>2
  <2>3. QED BY <2>1, <2>2
<1> HIDE DEF final
<1>9. ASSUME NEW d \in 0 .. digits - 1
      PROVE  final[d] = ReverseAdd(Current, digits)[d]
  <2>1. d \in 0 .. top - 1 /\ d \in 0 .. digits /\ d < digits /\ d # digits /\ d \in DOMAIN a[dst]
    BY <1>2, <1>4
  <2>2. final[d] = a[dst][d]
    BY <1>8, <2>1
  <2>3. a[dst][d] = Resolved(s[d], CarryInto(S, 0, d, FALSE))
    BY <1>2, <1>5, <2>1
  <2>4. Resolved(s[d], CarryInto(S, 0, d, FALSE)) = Resolved(s[d], CarryInto(s, 0, d, FALSE))
    BY <1>3, <2>1, ResolvedSame
  <2>5. ReverseAdd(Current, digits)[d] = Resolved(s[d], CarryInto(s, 0, d, FALSE))
    <3>1. d \in 0 .. digits - 1 + Bit(PrescanGrow(Current, digits))
      BY <1>2 DEF Bit
    <3>2. QED BY <2>1, <3>1 DEF ReverseAdd, s
  <2>6. QED BY <2>2, <2>3, <2>4, <2>5
<1>10. ASSUME call.out = digits + 1 PROVE final[digits] = 1
  <2>1. CASE call.carry
    BY <1>8, <2>1
  <2>2. CASE ~call.carry
    <3>1. digits # top /\ CarryInto(S, 0, digits, FALSE)
      BY <1>3, <1>4, <1>5, <1>10, <2>2
    <3>2. digits \in 0 .. top - 1
      BY <1>2, <3>1
    <3>3. a[dst][digits] = Resolved(0, CarryInto(S, 0, digits, FALSE))
      <4>1. S[digits] = 0
        BY <1>2, <3>2
      <4>2. a[dst][digits] = Resolved(S[digits], CarryInto(S, 0, digits, FALSE))
        BY <1>5, <3>2
      <4>3. QED BY <4>1, <4>2
    <3>4. Resolved(0, CarryInto(S, 0, digits, FALSE)) = 1
      BY <3>1 DEF Resolved, Bit
    <3>5. QED BY <1>8, <2>2, <3>3, <3>4
  <2>3. QED BY <2>1, <2>2
<1>11. ASSUME NEW d \in DOMAIN a[dst], d >= call.out PROVE final[d] = 0
  <2>1. d \in Nat /\ d >= digits
    BY <1>2, <1>4, <1>11
  <2>2. final[d] = a[dst][d]
    <3>1. call.carry => d # digits
      BY <1>2, <1>4, <1>7, <1>11, <2>1
    <3>2. QED BY <1>8, <3>1
  <2>3. CASE d >= top
    BY <1>6, <2>2, <2>3
  <2>4. CASE ~(d >= top)
    <3>1. d \in 0 .. top - 1
      BY <1>2, <2>1, <2>4
    <3>2. ~CarryInto(S, 0, d, FALSE)
      <4>1. CASE d = digits
        <5>1. call.out = digits
          BY <1>2, <1>4, <1>11, <4>1
        <5>2. ~PrescanGrow(Current, digits)
          BY <1>2, <1>4, <5>1
        <5>3. QED BY <1>3, <4>1, <5>2
      <4>2. CASE d # digits
        <5>1. d \in digits + 1 .. top
          BY <1>2, <2>1, <3>1, <4>2
        <5>2. QED BY <1>3, <5>1
      <4>3. QED BY <4>1, <4>2
    <3>3. a[dst][d] = Resolved(0, CarryInto(S, 0, d, FALSE))
      BY <1>2, <1>5, <2>1, <3>1
    <3>4. Resolved(0, CarryInto(S, 0, d, FALSE)) = 0
      BY <3>2 DEF Resolved, Bit
    <3>5. QED BY <2>2, <3>3, <3>4
  <2>5. QED BY <2>3, <2>4
<1>12. QED BY <1>8, <1>9, <1>10, <1>11 DEF final

(* The flag the threads have left says whether any digit carried. *)
LEMMA FlagExact ==
  ASSUME AloneInv, LinesInv, DataInv, pc[0] = "resolve"
  PROVE  everCarried <=> AnyCarried(Current, digits)
<1>1. /\ NumberInv /\ Published /\ PassInv
      /\ \A t \in Thread : Ended(t) /\ wrote[t] = Own(t)
  BY AtResolution
<1>2. /\ pub.lines \in Nat /\ pub.lines * DPL \in Nat /\ digits <= pub.lines * DPL
      /\ digits \in Nat /\ Current \in Number(digits)
      /\ \A d \in 0 .. pub.lines * DPL - 1 :
           /\ d < digits => S[d] = Sums(Current, digits)[d]
           /\ d >= digits => S[d] = 0
  BY <1>1, SumsOfPass DEF NumberInv
<1>3. UNION {Own(t) : t \in Thread} = 0 .. pub.lines - 1
  BY OwnLinesDivide DEF LinesInv, Sized, Own
<1>4. everCarried <=> Generated(0 .. pub.lines - 1)
  <2>1. everCarried <=> \E t \in Thread : Generated(Own(t))
    BY <1>1 DEF PassInv, Flag
  <2>2. Generated(0 .. pub.lines - 1) <=> \E t \in Thread : Generated(Own(t))
    BY <1>3 DEF Generated
  <2>3. QED BY <2>1, <2>2
<1>5. Generated(0 .. pub.lines - 1) <=> \E d \in 0 .. pub.lines * DPL - 1 : S[d] > 9
  <2>1. 0 \in Nat /\ 0 <= pub.lines /\ 0 * DPL = 0
    BY <1>2, LineAssumption
  <2>2. QED BY <1>2, <2>1, GeneratedInLines
<1>6. (\E d \in 0 .. pub.lines * DPL - 1 : S[d] > 9)
        <=> \E d \in 0 .. digits - 1 : Sums(Current, digits)[d] > 9
  <2>1. \A d \in 0 .. digits - 1 : d \in 0 .. pub.lines * DPL - 1 /\ d < digits
    BY <1>2
  <2>2. \A d \in 0 .. pub.lines * DPL - 1 : S[d] > 9 => d \in 0 .. digits - 1
    BY <1>2
  <2>3. QED BY <1>2, <2>1, <2>2
<1>7. AnyCarried(Current, digits) <=> \E d \in 0 .. digits - 1 : Sums(Current, digits)[d] > 9
  BY <1>2, CarriedIffGenerated
<1>8. QED BY <1>4, <1>5, <1>6, <1>7

(* step() returns the number's reverse-and-add and its carry flag. *)
LEMMA ReturnIsStep ==
  ASSUME AloneInv, LinesInv, DataInv, Return
  PROVE  /\ Current' = ReverseAdd(Current, digits)
         /\ ret' = AnyCarried(Current, digits)
         /\ DataInv'
<1> DEFINE dst == pub.dst
           final == IF call.carry THEN [a[dst] EXCEPT ![call.out - 1] = 1] ELSE a[dst]
           y == ReverseAdd(Current, digits)
<1>1. /\ pc[0] = "resolve" /\ call.line = pub.lines
      /\ pc' = [pc EXCEPT ![0] = "call"]
      /\ a' = IF call.carry THEN [a EXCEPT ![dst][call.out - 1] = 1] ELSE a
      /\ digits' = call.out /\ cur' = dst /\ ret' = everCarried
      /\ UNCHANGED <<chunkCarry, blockCarry>>
  BY DEF Return, Goto, carries
<1>2. NumberInv /\ Published /\ PassInv
  BY <1>1, AtResolution
<1>3. /\ call.out \in Nat \ {0} /\ digits <= call.out /\ call.out <= digits + 1
      /\ call.out = digits + 1 <=> PrescanGrow(Current, digits)
      /\ DivCeil(call.out, DPL) \in Nat
      /\ pub.lines <= DivCeil(call.out, DPL)
      /\ DOMAIN a[dst] = 0 .. DivCeil(call.out, DPL) * DPL - 1
      /\ DivCeil(call.out, DPL) * DPL \in Nat
      /\ call.out <= DivCeil(call.out, DPL) * DPL
      /\ dst = 1 - cur /\ dst \in {0, 1} /\ dst # cur
      /\ digits \in Nat \ {0} /\ cur \in {0, 1} /\ DOMAIN a = {0, 1}
      /\ pub.lines = DivCeil(digits, DPL) /\ pub.lines \in Nat
  BY <1>2, RoomForPass, SumsOfPass DEF NumberInv
<1>4. /\ DOMAIN final = DOMAIN a[dst]
      /\ \A d \in 0 .. digits - 1 : final[d] = y[d]
      /\ call.out = digits + 1 => final[digits] = 1
      /\ \A d \in DOMAIN a[dst] : d >= call.out => final[d] = 0
  BY <1>1, SumInPlace
<1>5. DOMAIN a' = {0, 1} /\ a'[dst] = final /\ a'[cur] = a[cur]
  <2>1. CASE call.carry
    BY <1>1, <1>3, <2>1
  <2>2. CASE ~call.carry
    BY <1>1, <1>3, <2>2
  <2>3. QED BY <2>1, <2>2
<1>6. /\ call.out = digits + Bit(PrescanGrow(Current, digits))
      /\ y \in Number(call.out) /\ Proper(y, call.out)
  BY <1>2, <1>3, ReverseAddProper DEF NumberInv, Published
<1>7. DOMAIN y = 0 .. call.out - 1
  BY <1>6 DEF Number
<1>8. call.out = digits + 1 => y[digits] = 1
  <2> SUFFICES ASSUME call.out = digits + 1 PROVE y[digits] = 1
    OBVIOUS
  <2>1. digits \in 0 .. digits - 1 + Bit(PrescanGrow(Current, digits))
    BY <1>3 DEF Bit
  <2>2. QED BY <2>1 DEF ReverseAdd
<1> HIDE DEF final, y
<1>9. Current' = y
  <2>1. Current' = [d \in 0 .. call.out - 1 |-> final[d]]
    <3>1. Current' = [d \in 0 .. digits' - 1 |-> a'[cur'][d]]
      BY DEF Current
    <3>2. a'[cur'] = final /\ digits' = call.out
      BY <1>1, <1>5
    <3>3. QED BY ONLY <3>1, <3>2
  <2>2. \A d \in 0 .. call.out - 1 : final[d] = y[d]
    <3> SUFFICES ASSUME NEW d \in 0 .. call.out - 1 PROVE final[d] = y[d]
      OBVIOUS
    <3>1. d \in 0 .. digits - 1 \/ (d = digits /\ call.out = digits + 1)
      BY <1>3, SMTT(60)
    <3>2. QED BY <1>4, <1>8, <3>1
  <2>3. y = [d \in 0 .. call.out - 1 |-> y[d]]
    BY <1>6 DEF Number
  <2>4. QED BY <2>1, <2>2, <2>3
<1>10. everCarried \in BOOLEAN /\ (everCarried <=> AnyCarried(Current, digits))
  BY <1>1, <1>2, FlagExact DEF PassInv, Flag
<1>11. ret' = AnyCarried(Current, digits)
  BY <1>1, <1>10 DEF AnyCarried
<1>12. NumberInv'
  <2>1. PaddingClean'
    BY <1>1, <1>4, <1>5 DEF PaddingClean
  <2>2. DOMAIN a'[cur'] = 0 .. DivCeil(digits', DPL) * DPL - 1
    BY <1>1, <1>3, <1>4, <1>5
  <2>3. Current' \in Number(digits') /\ Proper(Current', digits')
    BY <1>1, <1>6, <1>9
  <2>4. ret' \in BOOLEAN
    BY <1>1, <1>10
  <2>5. DOMAIN a' = {0, 1} /\ cur' \in {0, 1} /\ digits' \in Nat \ {0}
    BY <1>1, <1>3, <1>5
  <2>6. QED BY <2>1, <2>2, <2>3, <2>4, <2>5 DEF NumberInv
<1>13. ~Busy'
  BY <1>1, CoordinatorIsAThread DEF Busy, AloneInv, Control
<1>14. Spare'
  <2>1. 1 - cur' = cur
    BY <1>1, <1>3
  <2>2. a'[1 - cur'] = a[cur] /\ DOMAIN a[cur] = 0 .. pub.lines * DPL - 1
    BY <1>2, <1>3, <1>5, <2>1 DEF NumberInv
  <2>3. pub.lines \in 0 .. DivCeil(digits', DPL)
    BY <1>1, <1>3
  <2>4. QED BY <2>2, <2>3 DEF Spare
<1>15. SlotsInv' /\ DOMAIN blockCarry' = 0 .. NumBlocks - 1
  BY <1>1, <1>13 DEF DataInv, SlotsInv
<1>16. QED BY <1>9, <1>11, <1>12, <1>13, <1>14, <1>15 DEF DataInv, y

-----------------------------------------------------------------------------
(* Room for the carries *)

(* An odd divisor of twice a number divides the number. *)
LEMMA OddDivisor ==
  ASSUME NEW p \in Nat \ {0}, NEW d \in 1 .. 2 * p, (2 * p) % d = 0, d % 2 = 1
  PROVE  d \in 1 .. p /\ p % d = 0
<1> DEFINE k == (2 * p) \div d
           b == d \div 2
<1>1. d \in Nat \ {0} /\ 2 * p \in Nat /\ b \in Nat /\ d = 2 * b + 1
  OBVIOUS
<1>2. k \in Nat /\ 2 * p = d * k
  BY <1>1
<1> HIDE DEF k, b
<1>3. PICK g \in Nat : g = b * k
  BY <1>1, <1>2
<1>4. d * k = 2 * g + k
  BY <1>1, <1>2, <1>3
<1>5. PICK m \in Nat : k = 2 * m
  <2>1. k = 2 * (p - g) /\ p - g \in Int
    BY <1>2, <1>3, <1>4
  <2>2. p - g \in Nat
    BY <1>2, <2>1
  <2>3. QED BY <2>1, <2>2
<1>6. p = d * m
  <2>1. d * k = 2 * (d * m) /\ d * m \in Nat
    BY <1>1, <1>5
  <2>2. QED BY <1>2, <2>1
<1>7. m # 0
  BY <1>1, <1>6
<1>8. d <= p
  <2>1. m - 1 \in Nat /\ d * m = d * (m - 1) + d /\ d * (m - 1) \in Nat
    BY <1>1, <1>7
  <2>2. QED BY <1>1, <1>6, <2>1
<1>9. p % d = 0
  BY <1>1, <1>6, SMTT(60)
<1>10. QED BY <1>1, <1>8, <1>9

LEMMA DoublePower ==
  ASSUME NEW p \in Nat \ {0}, IsPowerOfTwo(p)
  PROVE  IsPowerOfTwo(2 * p)
  BY OddDivisor DEF IsPowerOfTwo

(* There is a power of two between a number and its double. *)
LEMMA PowersOfTwo ==
  ASSUME NEW n \in Nat \ {0}
  PROVE  \E p \in n .. 2 * n : IsPowerOfTwo(p)
<1> DEFINE Missing == {m \in 1 .. n : \A p \in m .. 2 * m : ~IsPowerOfTwo(p)}
<1>1. SUFFICES ASSUME Missing # {} PROVE FALSE
  <2>1. n \in 1 .. n
    OBVIOUS
  <2>2. QED BY <1>1, <2>1
<1>2. PICK m \in Missing : \A i \in Missing : m <= i
  <2>1. Missing \subseteq Nat
    OBVIOUS
  <2>2. QED BY <1>1, <2>1, LeastElement
<1>3. m \in 1 .. n /\ \A p \in m .. 2 * m : ~IsPowerOfTwo(p)
  OBVIOUS
<1>4. m # 1
  <2>1. IsPowerOfTwo(1) /\ 1 \in 1 .. 2 * 1
    BY DEF IsPowerOfTwo
  <2>2. QED BY <1>3, <2>1
<1>5. m - 1 \in 1 .. n /\ ~(m <= m - 1)
  BY <1>3, <1>4
<1>6. PICK p \in m - 1 .. 2 * (m - 1) : IsPowerOfTwo(p)
  BY <1>2, <1>5
<1>7. p \in Nat \ {0} /\ p < m
  BY <1>3, <1>5, <1>6
<1>8. p = m - 1 /\ 2 * p \in m .. 2 * m
  BY <1>3, <1>4, <1>6, <1>7
<1>9. IsPowerOfTwo(2 * p)
  BY <1>6, <1>7, DoublePower
<1>10. QED BY <1>3, <1>8, <1>9

LEMMA NextPowerThere ==
  ASSUME NEW n \in Nat \ {0}
  PROVE  NextPowerOfTwo(n) \in n .. 2 * n
<1> DEFINE P == {p \in n .. 2 * n : IsPowerOfTwo(p)}
<1>1. P \subseteq Nat /\ P # {}
  BY PowersOfTwo
<1>2. PICK p \in P : \A q \in P : p <= q
  BY <1>1, LeastElement
<1>3. \A q \in n .. p - 1 : ~IsPowerOfTwo(q)
  BY <1>2
<1>4. \E m \in n .. 2 * n :
        IsPowerOfTwo(m) /\ \A q \in n .. m - 1 : ~IsPowerOfTwo(q)
  BY <1>2, <1>3
<1>5. QED BY <1>4 DEF NextPowerOfTwo

LEMMA EnoughSlots ==
  ASSUME LinesInv, DataInv, Publish
  PROVE  SlotsInv'
<1> DEFINE need == SlotsFor(DivCeil(digits, DPL))
           held == Cardinality(DOMAIN chunkCarry)
<1>1. need \in Nat \ {0}
  <2>1. DivCeil(digits, DPL) \in Nat
    BY LinesOfDigits DEF DataInv, NumberInv
  <2>2. DivCeil(digits, DPL) \div CHUNK_LINES \in Nat
    BY <2>1, GridMonotone
  <2>3. QED BY <2>2, Blocks DEF SlotsFor
<1>2. /\ chunkCarry' = IF held < need
                       THEN [i \in 0 .. NextPowerOfTwo(need) - 1 |-> FALSE]
                       ELSE chunkCarry
      /\ SlotsFor(pub'.lines) = need
  BY DEF Publish
<1> HIDE DEF need
<1>3. held \in Nat /\ DOMAIN chunkCarry = 0 .. held - 1
  BY DEF DataInv, SlotsInv
<1>4. CASE held < need
  <2>1. NextPowerOfTwo(need) \in Nat /\ need <= NextPowerOfTwo(need)
    BY <1>1, NextPowerThere
  <2>2. DOMAIN chunkCarry' = 0 .. NextPowerOfTwo(need) - 1
    BY <1>2, <1>4
  <2>3. Cardinality(0 .. NextPowerOfTwo(need) - 1) = NextPowerOfTwo(need)
    BY <2>1, FS_Interval
  <2>4. QED BY <1>2, <2>1, <2>2, <2>3 DEF SlotsInv
<1>5. CASE ~(held < need)
  BY <1>1, <1>2, <1>3, <1>5 DEF SlotsInv
<1>6. QED BY <1>4, <1>5

-----------------------------------------------------------------------------
(* The invariant holds *)

LEMMA DataInit == Init => DataInv
<1> SUFFICES ASSUME Init PROVE DataInv
  OBVIOUS
<1>1. PICK x \in Start :
        /\ digits = NumDigits(x)
        /\ a = [b \in {0, 1} |->
                  IF b = 0 THEN Resize(x, DivCeil(NumDigits(x), DPL)) ELSE <<>>]
  BY DEF Init
<1>2. digits \in Nat \ {0} /\ x \in Number(digits) /\ Proper(x, digits)
  BY <1>1, NumberAssumption DEF IsProper, Proper
<1>3. cur = 0 /\ ret = TRUE /\ pc[0] = "call" /\ chunkCarry = <<>>
      /\ blockCarry = [j \in 0 .. NumBlocks - 1 |-> FALSE]
  BY CoordinatorIsAThread DEF Init
<1>4. DivCeil(digits, DPL) \in Nat /\ digits <= DivCeil(digits, DPL) * DPL
      /\ DivCeil(digits, DPL) * DPL \in Nat
  BY <1>2, LinesOfDigits, LineBase
<1>5. /\ a[0] = [d \in 0 .. DivCeil(digits, DPL) * DPL - 1 |->
                   IF d \in DOMAIN x THEN x[d] ELSE 0]
      /\ a[1] = <<>> /\ DOMAIN a = {0, 1} /\ DOMAIN x = 0 .. digits - 1
      /\ x = [d \in 0 .. digits - 1 |-> x[d]]
  BY <1>1, <1>2 DEF Resize, Number
<1>6. Current = x
  <2>1. \A d \in 0 .. digits - 1 : a[cur][d] = x[d]
    BY <1>2, <1>3, <1>4, <1>5
  <2>2. QED BY <1>5, <2>1 DEF Current
<1>7. PaddingClean
  BY <1>2, <1>3, <1>4, <1>5 DEF PaddingClean
<1>8. NumberInv
  BY <1>2, <1>3, <1>5, <1>6, <1>7 DEF NumberInv
<1>9. ~Busy
  BY <1>3 DEF Busy
<1>10. DOMAIN <<>> = {} /\ 0 .. 0 - 1 = {} /\ 0 * DPL = 0
  BY LineAssumption
<1>11. Spare
  <2>1. DOMAIN a[1 - cur] = 0 .. 0 * DPL - 1
    BY <1>3, <1>5, <1>10
  <2>2. 0 \in 0 .. DivCeil(digits, DPL)
    BY <1>4
  <2>3. QED BY <2>1, <2>2 DEF Spare
<1>12. SlotsInv
  <2>1. DOMAIN chunkCarry = {}
    BY <1>3, <1>10
  <2>2. Cardinality(DOMAIN chunkCarry) = 0
    BY <2>1, FS_EmptySet
  <2>3. QED BY <1>9, <1>10, <2>1, <2>2 DEF SlotsInv
<1>13. QED BY <1>3, <1>8, <1>9, <1>11, <1>12 DEF DataInv

(* step() makes room, and what it keeps of the other buffer, two numbers   *)
(* old, ends below the lines it adds.                                      *)
LEMMA DataPublish ==
  ASSUME AloneInv, LinesInv, DataInv, Publish
  PROVE  DataInv'
<1> DEFINE lines == DivCeil(digits, DPL)
           out == digits + Bit(PrescanGrow(Current, digits))
           room == DivCeil(out, DPL)
<1>1. /\ pc[0] = "call" /\ pc' = [pc EXCEPT ![0] = "start"] /\ phase' = phase
      /\ a' = [a EXCEPT ![1 - cur] = Resize(@, room)]
      /\ pub' = [src |-> cur, dst |-> 1 - cur, lines |-> lines,
                 digits |-> digits, bounds |-> BlockBounds(lines)]
      /\ everCarried' = FALSE
      /\ call' = [out |-> out, line |-> 0, carry |-> FALSE]
      /\ wrote' = [t \in Thread |-> {}]
      /\ UNCHANGED <<cur, digits, blockCarry, ret>>
  BY DEF Publish, Goto
<1>2. phase[0] = "outside" /\ \A t \in Worker : Between(t)
  BY <1>1, CoordinatorIsAThread DEF AloneInv, Stages, Apart0, Ended0, Within
<1>3. pc'[0] = "start" /\ \A t \in Worker : pc'[t] = pc[t]
  BY <1>1, CoordinatorIsAThread DEF AloneInv, Control, Worker
<1>4. \A t \in Thread : ~Ended(t)' /\ pc'[t] \notin {"low", "high"}
  BY <1>1, <1>2, <1>3 DEF Ended, Between, Worker
<1>5. ~Busy /\ NumberInv
  BY <1>1 DEF Busy, DataInv
<1>6. digits \in Nat \ {0} /\ cur \in {0, 1} /\ 1 - cur \in {0, 1} /\ 1 - cur # cur
      /\ DOMAIN a = {0, 1}
  BY <1>5 DEF NumberInv
<1>7. out \in Nat \ {0} /\ digits <= out
  BY <1>6 DEF Bit
<1>8. lines \in Nat \ {0} /\ room \in Nat \ {0} /\ lines * DPL \in Nat /\ room * DPL \in Nat
  BY <1>6, <1>7, LinesOfDigits, LineBase
<1> HIDE DEF lines, out, room
<1>9. NumberInv' /\ Current' = Current
  BY <1>1, <1>5, <1>6, NumberStays
<1>10. /\ DOMAIN a'[1 - cur] = 0 .. room * DPL - 1
       /\ \A d \in DOMAIN a'[1 - cur] : d >= lines * DPL => a'[1 - cur][d] = 0
  <2>1. PICK n \in 0 .. lines : DOMAIN a[1 - cur] = 0 .. n * DPL - 1
    BY <1>5 DEF DataInv, Spare, lines
  <2>2. n * DPL \in Nat /\ n * DPL <= lines * DPL
    <3>1. n \in Nat /\ lines \in Nat /\ n <= lines
      BY <1>8
    <3>2. QED BY <3>1, LineBase, LinesAscend
  <2>3. a'[1 - cur] = Resize(a[1 - cur], room)
    BY <1>1, <1>6
  <2>4. QED BY <1>8, <2>1, <2>2, <2>3 DEF Resize
<1>11. Published'
  <2>1. /\ pub' = [src |-> cur', dst |-> 1 - cur', lines |-> DivCeil(digits', DPL),
                   digits |-> digits', bounds |-> BlockBounds(DivCeil(digits', DPL))]
        /\ pub'.lines = lines
    BY <1>1 DEF lines
  <2>2. call'.out = digits' + Bit(PrescanGrow(Current', digits'))
    BY <1>1, <1>9 DEF out
  <2>3. call'.line = 0 /\ call'.carry = FALSE /\ call'.out = out
    BY <1>1
  <2>4. DOMAIN a'[1 - cur'] = 0 .. DivCeil(call'.out, DPL) * DPL - 1
    BY <1>1, <1>10, <2>3 DEF room
  <2>5. \A d \in DOMAIN a'[1 - cur'] : d >= pub'.lines * DPL => a'[1 - cur'][d] = 0
    BY <1>1, <1>10, <2>1
  <2>6. QED BY <2>1, <2>2, <2>3, <2>4, <2>5 DEF Published
<1>12. Flag'
  BY <1>1, <1>4 DEF Flag
<1>13. Resolving'
  <2>1. call'.line = 0 /\ call'.carry = FALSE /\ 0 * DPL = 0
    BY <1>1, LineAssumption
  <2>2. 0 \in 0 .. pub'.lines
    BY <1>1, <1>8
  <2>3. ~CarryInto(S', 0, 0, FALSE)
    BY CarryAtBase
  <2>4. ASSUME NEW t \in Thread, NEW x \in Own(t)' PROVE RangeBase(t, x)' >= 0
    <3>1. pub'.bounds = BlockBounds(lines)
      BY <1>1
    <3>2. t \in 0 .. NumBlocks /\ HighBlock(t) \in 0 .. NumBlocks
      BY BoundsInOrder
    <3>3. pub'.bounds[t] \in Nat /\ pub'.bounds[HighBlock(t)] \in Nat
      BY <1>8, <3>1, <3>2, BoundsAscend
    <3>4. (x \div CHUNK_LINES) * CHUNK_LINES > pub'.bounds[HighBlock(t)]
            \/ ~((x \div CHUNK_LINES) * CHUNK_LINES > pub'.bounds[HighBlock(t)])
      OBVIOUS
    <3>5. CASE x < pub'.bounds[t + 1]
      BY <3>3, <3>5 DEF RangeBase
    <3>6. CASE ~(x < pub'.bounds[t + 1])
      <4>1. x \in Nat
        BY <2>4, <3>1, <1>8, OwnLinesDivide DEF Own
      <4>2. (x \div CHUNK_LINES) * CHUNK_LINES \in Nat
        BY <4>1, LineAssumption, GridMonotone
      <4>3. QED BY <3>3, <3>6, <4>2 DEF RangeBase, MaxOf
    <3>7. QED BY <3>5, <3>6
  <2>5. call'.line \in 0 .. pub'.lines /\ call'.carry \in BOOLEAN
    BY <2>1, <2>2
  <2>6. call'.line * DPL = 0 /\ 0 .. call'.line * DPL - 1 = {}
    BY <2>1
  <2>7. call'.carry <=> CarryInto(S', 0, call'.line * DPL, FALSE)
    BY <2>1, <2>3, <2>6
  <2>8. \A t \in Thread : \A x \in Own(t)' :
          x >= call'.line => RangeBase(t, x)' >= call'.line
    BY <2>1, <2>4
  <2>9. QED BY <2>5, <2>6, <2>7, <2>8 DEF Resolving
<1>14. ASSUME NEW t \in Thread
       PROVE  Guesses(t)' /\ HighCarries(t)' /\ WorkData(t)' /\ EndData(t)'
  BY <1>1, <1>4 DEF Guesses, HighCarries, WorkData, EndData
<1>15. Busy'
  BY <1>3 DEF Busy
<1>16. SlotsInv' /\ DOMAIN blockCarry' = 0 .. NumBlocks - 1
  BY <1>1, EnoughSlots DEF DataInv
<1>17. PassInv'
  BY <1>11, <1>12, <1>13, <1>14 DEF PassInv
<1>18. Spare'
  BY <1>15 DEF Spare
<1>19. QED BY <1>9, <1>16, <1>17, <1>18 DEF DataInv

LEMMA DataStep == AloneInv /\ LinesInv /\ DataInv /\ [Next]_vars => DataInv'
<1> SUFFICES ASSUME AloneInv, LinesInv, DataInv, [Next]_vars PROVE DataInv'
  OBVIOUS
<1>1. CASE Publish  BY <1>1, DataPublish
<1>2. CASE Open \/ Drop \/ LeaveDrop \/ Join \/ UNCHANGED vars
  BY <1>2, DataControl
<1>3. ASSUME NEW t \in Thread, ThreadStep(t) PROVE DataInv'
  <2>1. CASE Arrive(t) \/ Exit(t) \/ Rejoin(t)  BY <2>1, DataControl
  <2>2. CASE Enter(t)      BY <2>2, DataEnter
  <2>3. CASE LowChunk(t)   BY <2>3, DataLowChunk
  <2>4. CASE HighChunk(t)  BY <2>4, DataHighChunk
  <2>5. CASE EndWalk(t)    BY <2>5, DataEndWalk
  <2>6. QED BY <1>3, <2>1, <2>2, <2>3, <2>4, <2>5 DEF ThreadStep
<1>4. CASE ResolveRange  BY <1>4, DataResolveRange
<1>5. CASE Return        BY <1>5, ReturnIsStep
<1>6. QED BY <1>1, <1>2, <1>3, <1>4, <1>5 DEF Next, Resolution, Dropped

(* Inv is the whole invariant of the pool: who is where, who has written   *)
(* what, and what it has computed.                                         *)
Inv == AloneInv /\ LinesInv /\ DataInv

LEMMA Invariance == Spec => []Inv
<1>1. Init => Inv
  BY AloneInit, LinesInit, DataInit DEF Inv
<1>2. Inv /\ [Next]_vars => Inv'
  BY AloneStep, LinesStep, DataStep DEF Inv
<1>3. QED BY <1>1, <1>2, PTL DEF Spec

-----------------------------------------------------------------------------
(* What follows *)

(* The padding above the top digit is clean between any two steps, however *)
(* long the buffer's earlier numbers were and whatever they left in it.    *)
THEOREM PaddingStaysClean == Spec => []PaddingClean
<1>1. Inv => PaddingClean
  BY DEF Inv, DataInv, NumberInv
<1>2. QED BY <1>1, Invariance, PTL

(* A pass over any number of lines has a carry slot for each chunk of its  *)
(* high blocks, and no two of them share one (the slots step() makes room  *)
(* for, and the base that run_pair gives each block).                      *)
THEOREM ChunksHaveSlots == Spec => []SlotsFit
<1>1. Inv => SlotsFit
  <2> SUFFICES ASSUME Inv, pc[0] \in {"start", "low", "high", "end", "resolve"},
                      NEW j \in NumThreads .. NumBlocks - 1, NEW x \in ChunksOf(j)
               PROVE  /\ ChunkSlot(j, x) \in DOMAIN chunkCarry
                      /\ \A k \in NumThreads .. NumBlocks - 1 : \A z \in ChunksOf(k) :
                           ChunkSlot(j, x) = ChunkSlot(k, z) => j = k /\ x = z
    BY DEF SlotsFit
  <2>1. \A k \in NumThreads .. NumBlocks - 1 : k \in 0 .. NumBlocks - 1
    BY Blocks
  <2>2. LinesInv /\ SlotsInv /\ Busy
    BY DEF Inv, DataInv, Busy
  <2>3. ChunkSlot(j, x) \in DOMAIN chunkCarry
    BY <2>1, <2>2, SlotThere
  <2>4. \A k \in NumThreads .. NumBlocks - 1 : \A z \in ChunksOf(k) :
          ChunkSlot(j, x) = ChunkSlot(k, z) => j = k /\ x = z
    BY <2>1, <2>2, SlotsApart
  <2>5. QED BY <2>3, <2>4
<1>2. QED BY <1>1, Invariance, PTL

(* resolve_carries' loop invariant: below the next range the digits are    *)
(* those of the sum, and the carry in hand is the true carry into it.      *)
THEOREM PrefixIsExact == Spec => []ResolvedPrefixExact
<1>1. Inv => ResolvedPrefixExact
  <2> SUFFICES ASSUME Inv, pc[0] = "resolve" PROVE ResolvedPrefixExact
    BY DEF ResolvedPrefixExact
  <2> DEFINE m == call.line * DPL
             below == MinOf(m, digits)
             s == Sums(Current, digits)
  <2>1. NumberInv /\ Published /\ Resolving /\ digits \in Nat \ {0}
    BY AtResolution DEF Inv, NumberInv
  <2>2. call.line \in Nat /\ call.line <= pub.lines /\ pub.lines \in Nat
    BY <2>1, SumsOfPass DEF Resolving
  <2>3. m \in Nat /\ m <= pub.lines * DPL /\ pub.lines * DPL \in Nat
    BY <2>2, LineBase, LinesAscend
  <2> HIDE DEF m
  <2>4. below \in Nat /\ below <= m /\ below <= digits
    BY <2>1, <2>3 DEF MinOf
  <2> HIDE DEF below
  <2>5. ASSUME NEW d \in 0 .. below - 1
        PROVE  a[pub.dst][d] = ReverseAdd(Current, digits)[d]
    <3>1. /\ d \in 0 .. m - 1 /\ d \in 0 .. pub.lines * DPL - 1 /\ d \in 0 .. digits
          /\ d < digits /\ d # digits
      BY <2>1, <2>3, <2>4
    <3>2. a[pub.dst][d] = Resolved(S[d], CarryInto(S, 0, d, FALSE))
      BY <2>1, <3>1 DEF Resolving, m
    <3>3. S[d] = s[d]
      BY <2>1, <3>1, SumsOfPass
    <3>4. CarryInto(S, 0, d, FALSE) <=> CarryInto(s, 0, d, FALSE)
      BY <2>1, <3>1, CarriesOfPass
    <3>5. Resolved(S[d], CarryInto(S, 0, d, FALSE)) = Resolved(s[d], CarryInto(s, 0, d, FALSE))
      BY ONLY <3>3, <3>4, ResolvedSame, ZenonT(60)
    <3>6. d \in 0 .. digits - 1 + Bit(PrescanGrow(Current, digits))
      BY <2>1, <3>1 DEF Bit
    <3>7. QED BY <3>1, <3>2, <3>5, <3>6 DEF ReverseAdd
  <2>6. ASSUME m <= digits PROVE call.carry = CarryInto(s, 0, m, FALSE)
    <3>1. m \in 0 .. digits
      BY <2>1, <2>3, <2>6
    <3>2. CarryInto(S, 0, m, FALSE) <=> CarryInto(s, 0, m, FALSE)
      BY <2>1, <3>1, CarriesOfPass
    <3>3. call.carry \in BOOLEAN /\ (call.carry <=> CarryInto(S, 0, m, FALSE))
      BY <2>1 DEF Resolving, m
    <3>4. CarryInto(s, 0, m, FALSE) \in BOOLEAN
      BY DEF CarryInto
    <3>5. QED BY <3>2, <3>3, <3>4
  <2>7. QED BY <2>5, <2>6 DEF ResolvedPrefixExact, below, m
<1>2. QED BY <1>1, Invariance, PTL

-----------------------------------------------------------------------------
(* The refinement *)

LEMMA EngineStarts == Init => Loop!Init
<1> SUFFICES ASSUME Init PROVE Loop!Init
  OBVIOUS
<1>1. PICK x \in Start :
        /\ digits = NumDigits(x)
        /\ a = [b \in {0, 1} |->
                  IF b = 0 THEN Resize(x, DivCeil(NumDigits(x), DPL)) ELSE <<>>]
  BY DEF Init
<1>2. digits \in Nat \ {0} /\ x \in Number(digits)
  BY <1>1, NumberAssumption DEF IsProper, Proper
<1>3. cur = 0 /\ ret = TRUE
  BY DEF Init
<1>4. digits <= DivCeil(digits, DPL) * DPL /\ DivCeil(digits, DPL) * DPL \in Nat
  BY <1>2, LinesOfDigits, LineBase
<1>5. /\ a[0] = [d \in 0 .. DivCeil(digits, DPL) * DPL - 1 |->
                   IF d \in DOMAIN x THEN x[d] ELSE 0]
      /\ DOMAIN x = 0 .. digits - 1 /\ x = [d \in 0 .. digits - 1 |-> x[d]]
  BY <1>1, <1>2 DEF Resize, Number
<1>6. \A d \in 0 .. digits - 1 : a[cur][d] = x[d]
  BY <1>2, <1>3, <1>4, <1>5
<1>7. Current = x
  BY <1>5, <1>6 DEF Current
<1>8. QED BY <1>3, <1>7 DEF Loop!Init

(* Until step() returns, what it does goes into the other buffer. *)
LEMMA NumberKept ==
  ASSUME Inv, [Next]_vars, ~Return
  PROVE  Current' = Current /\ ret' = ret
<1>1. CASE Publish
  <2>1. cur \in {0, 1} /\ DOMAIN a = {0, 1} /\ 1 - cur # cur
    BY DEF Inv, DataInv, NumberInv
  <2>2. a'[cur] = a[cur] /\ UNCHANGED <<cur, digits, ret>>
    BY <1>1, <2>1 DEF Publish
  <2>3. QED BY <2>2 DEF Current
<1>2. CASE Open \/ Drop \/ LeaveDrop \/ Join \/ UNCHANGED vars
  BY <1>2 DEF Open, Drop, LeaveDrop, Join, vars, packedInt, Current
<1>3. ASSUME NEW t \in Thread, ThreadStep(t)
      PROVE  Current' = Current /\ ret' = ret
  <2>1. UNCHANGED <<cur, digits, ret>>
    BY <1>3 DEF ThreadStep, Arrive, Enter, Exit, LowChunk, HighChunk, EndWalk, Rejoin,
                packedInt
  <2>2. CASE a' = a
    BY <2>1, <2>2 DEF Current
  <2>3. CASE a' # a
    <3>1. (LowChunk(t) \/ HighChunk(t)) /\ pc[t] \in {"low", "high"}
      BY <1>3, <2>3 DEF ThreadStep, Arrive, Enter, Exit, EndWalk, Rejoin, packedInt,
                        LowChunk, HighChunk, Goto
    <3>2. PassInv /\ loc[t].job = pub /\ NumberInv
      BY <3>1, AtWork DEF Inv, DataInv, Walked
    <3>3. pub.dst # cur
      BY <3>2, RoomForPass DEF PassInv
    <3>4. \E x, y, digit : a' = Store(pub, x, y, digit)
      BY <2>3, <3>1, <3>2, ZenonT(60) DEF LowChunk, HighChunk
    <3>5. a'[cur] = a[cur]
      BY <3>2, <3>3, <3>4 DEF Store, NumberInv
    <3>6. QED BY <2>1, <3>5, SMTT(60) DEF Current
  <2>4. QED BY <2>2, <2>3
<1>4. CASE ResolveRange
  <2>1. PassInv /\ NumberInv
    BY <1>4, AtResolution DEF Inv, ResolveRange
  <2>2. pub.dst # cur
    BY <2>1, RoomForPass DEF PassInv
  <2>3. UNCHANGED <<cur, digits, ret>> /\ a'[cur] = a[cur]
    BY <1>4, <2>1, <2>2 DEF ResolveRange, NumberInv
  <2>4. QED BY <2>3 DEF Current
<1>5. QED BY <1>1, <1>2, <1>3, <1>4 DEF Next, Resolution, Dropped

(* The loop's arithmetic is the engine's. *)
LEMMA SameArithmetic ==
  ASSUME NEW x, NEW n
  PROVE  /\ Loop!NumDigits(x) = NumDigits(x)
         /\ Loop!ReverseAdd(x, n) = ReverseAdd(x, n)
         /\ Loop!AnyCarried(x, n) = AnyCarried(x, n)
<1>1. Loop!Sums(x, n) = Sums(x, n)
  BY DEF Loop!Sums, Sums
<1>2. ASSUME NEW s, NEW lo, NEW d, NEW c
      PROVE  Loop!CarryInto(s, lo, d, c) = CarryInto(s, lo, d, c)
  BY DEF Loop!CarryInto, CarryInto
<1>3. ASSUME NEW v, NEW c PROVE Loop!Resolved(v, c) = Resolved(v, c)
  BY DEF Loop!Resolved, Resolved, Loop!Bit, Bit
<1>4. Loop!PrescanGrow(x, n) = PrescanGrow(x, n)
  BY <1>1 DEF Loop!PrescanGrow, PrescanGrow
<1>5. Loop!ReverseAdd(x, n) = ReverseAdd(x, n)
  BY <1>1, <1>2, <1>3, <1>4 DEF Loop!ReverseAdd, ReverseAdd, Loop!Bit, Bit
<1>6. Loop!AnyCarried(x, n) = AnyCarried(x, n)
  BY <1>1, <1>2 DEF Loop!AnyCarried, AnyCarried
<1>7. Loop!NumDigits(x) = NumDigits(x)
  BY DEF Loop!NumDigits, NumDigits, Loop!Cardinality, Cardinality
<1>8. QED BY <1>5, <1>6, <1>7

LEMMA EngineSteps == Inv /\ [Next]_vars => [Loop!Next]_(Loop!vars)
<1> SUFFICES ASSUME Inv, [Next]_vars PROVE [Loop!Next]_(Loop!vars)
  OBVIOUS
<1>1. CASE Return
  <2>1. Current' = ReverseAdd(Current, digits) /\ ret' = AnyCarried(Current, digits)
    BY <1>1, ReturnIsStep DEF Inv
  <2>2. NumDigits(Current) = digits
    BY NumDigitsOfNumber DEF Inv, DataInv, NumberInv
  <2>3. QED BY <2>1, <2>2, SameArithmetic DEF Loop!Next, Loop!Step
<1>2. CASE ~Return
  BY <1>2, NumberKept DEF Loop!vars
<1>3. QED BY <1>1, <1>2

(* The packed engine is the reverse-and-add loop: whatever the threads'    *)
(* interleaving, every return of step() has replaced the number by the sum *)
(* of itself and its reversal and has returned that addition's carry flag, *)
(* and nothing else it does changes either ("step is a drop-in equivalent  *)
(* of PackedInt::step", packed/mod.rs 1873-1874).                          *)
THEOREM EngineIsReverseAddLoop == Spec => ImplementsReverseAdd
<1>1. Init => Loop!Init
  BY EngineStarts
<1>2. Inv /\ [Next]_vars => [Loop!Next]_(Loop!vars)
  BY EngineSteps
<1>3. QED BY <1>1, <1>2, Invariance, PTL DEF Spec, ImplementsReverseAdd, Loop!Spec

=============================================================================
