---------------------------- MODULE SpinBarrier ----------------------------
(***************************************************************************)
(* The centralized spinning barrier every pass of the engines is ordered   *)
(* by (struct SpinBarrier), one action per atomic access of wait().  The   *)
(* participants call wait() over and over; what they do in between is the  *)
(* client's business, so an "idle" participant may call it at any time or  *)
(* never again.                                                            *)
(*                                                                         *)
(* The generation is a usize: it is kept modulo GenMod, the number of      *)
(* values the counter has, and wraps silently (AtomicUsize::fetch_add).    *)
(***************************************************************************)
EXTENDS Naturals, FiniteSets

CONSTANTS
  Thread,  \* the participants
  GenMod   \* number of values of the generation counter (2^64 in the build)

(* SpinBarrier::new is given the number of threads of a pool, at least 1.  *)
(* Two generations are enough to tell a round from the next.               *)
ASSUME ThreadAssumption == IsFiniteSet(Thread) /\ Thread # {}
ASSUME GenModAssumption == GenMod \in Nat /\ GenMod > 1

VARIABLES
  count,       \* arrivals of the current round
  generation,  \* rounds completed, modulo GenMod
  pc,          \* where each participant is in wait()
  gen          \* each participant's local copy of the generation

waitVars == <<count, generation, pc, gen>>

Participants == Cardinality(Thread)

(*  idle     outside wait()                                                *)
(*  arrive   generation loaded, arrival not yet counted                    *)
(*  reset    last to arrive, about to store 0 to count                     *)
(*  release  count reset, about to advance the generation                  *)
(*  spin     arrived, waiting for the generation to move                   *)
(*  return   free to return                                                *)
PC == {"idle", "arrive", "reset", "release", "spin", "return"}

TypeOK ==
  /\ count \in 0 .. Participants
  /\ generation \in 0 .. GenMod - 1
  /\ pc \in [Thread -> PC]
  /\ gen \in [Thread -> 0 .. GenMod - 1]

WaitInit ==
  /\ count = 0
  /\ generation = 0
  /\ pc = [t \in Thread |-> "idle"]
  /\ gen = [t \in Thread |-> 0]

Goto(t, from, to) ==
  /\ pc[t] = from
  /\ pc' = [pc EXCEPT ![t] = to]

LoadGeneration(t) ==
  /\ Goto(t, "idle", "arrive")
  /\ gen' = [gen EXCEPT ![t] = generation]
  /\ UNCHANGED <<count, generation>>

(* Mutant: the last but one to arrive already closes the round. *)
CountArrivalEarly(t) ==
  /\ IF count = Participants - 2
     THEN Goto(t, "arrive", "reset")
     ELSE Goto(t, "arrive", "spin")
  /\ count' = count + 1
  /\ UNCHANGED <<generation, gen>>

(* count.fetch_add(1) returned participants - 1, or it did not. *)
CountArrival(t) ==
  /\ IF count = Participants - 1
     THEN Goto(t, "arrive", "reset")
     ELSE Goto(t, "arrive", "spin")
  /\ count' = count + 1
  /\ UNCHANGED <<generation, gen>>

ResetCount(t) ==
  /\ Goto(t, "reset", "release")
  /\ count' = 0
  /\ UNCHANGED <<generation, gen>>

(* Mutant: the generation is stored back unchanged. *)
AdvanceGenerationLost(t) ==
  /\ Goto(t, "release", "return")
  /\ UNCHANGED <<count, generation, gen>>

AdvanceGeneration(t) ==
  /\ Goto(t, "release", "return")
  /\ generation' = (generation + 1) % GenMod
  /\ UNCHANGED <<count, gen>>

(* Mutant: the spin loop is left without looking. *)
SpinLoadBlind(t) ==
  /\ Goto(t, "spin", "return")
  /\ UNCHANGED <<count, generation, gen>>

(* One look at the generation; as long as it has not moved, the loop goes  *)
(* round and nothing changes.                                              *)
SpinLoad(t) ==
  /\ generation # gen[t]
  /\ Goto(t, "spin", "return")
  /\ UNCHANGED <<count, generation, gen>>

Return(t) ==
  /\ Goto(t, "return", "idle")
  /\ UNCHANGED <<count, generation, gen>>

(* The steps inside wait() once it has been called. *)
Inside(t) ==
  \/ CountArrival(t)
  \/ ResetCount(t)
  \/ AdvanceGeneration(t)
  \/ SpinLoad(t)
  \/ Return(t)

WaitNext == \E t \in Thread : LoadGeneration(t) \/ Inside(t)

(* A participant inside wait() is never parked by the code, so it keeps    *)
(* taking steps; nothing obliges it to call wait() again.                  *)
Fairness == \A t \in Thread : WF_waitVars(Inside(t))

WaitSpec == WaitInit /\ [][WaitNext]_waitVars
FairSpec == WaitSpec /\ Fairness

-----------------------------------------------------------------------------

(* Where wait() stands for each participant, seen from outside: counted    *)
(* and held back, free to return (a spinner is as soon as the generation   *)
(* it loaded is out of date, whether it has looked or not), or neither.    *)
Held(t) ==
  \/ pc[t] \in {"reset", "release"}
  \/ pc[t] = "spin" /\ gen[t] = generation

Freed(t) ==
  \/ pc[t] = "return"
  \/ pc[t] = "spin" /\ gen[t] # generation

Phase(t) ==
  IF Held(t) THEN "waiting" ELSE IF Freed(t) THEN "released" ELSE "outside"

Abstract == INSTANCE Barrier WITH phase <- [t \in Thread |-> Phase(t)]

(* The barrier's contract: wait() never returns early, and the reuse of    *)
(* the one counter pair by the next round is invisible (parallel/mod.rs    *)
(* 50-51, "Centralized sense-reversing barrier").                          *)
ImplementsBarrier == Abstract!Spec

(* The arrivals that count for the round in progress. *)
Waiting == {t \in Thread : Held(t)}

(* Nobody at all is left behind by the thread that closes a round: when    *)
(* the counter is reset, every participant is waiting, and the counter     *)
(* never mixes the arrivals of two rounds.                                 *)
CountExact ==
  IF \E t \in Thread : pc[t] = "release"
  THEN count = 0
  ELSE count = Cardinality(Waiting)

(* Only one participant closes a round, and only when all of them wait. *)
OneCloser ==
  \A t \in Thread :
    pc[t] \in {"reset", "release"} =>
      /\ Waiting = Thread
      /\ \A u \in Thread : pc[u] \in {"reset", "release"} => u = t

(* A participant between its two first accesses holds the generation that  *)
(* will still be current when its arrival is counted.                      *)
FreshGeneration == \A t \in Thread : pc[t] = "arrive" => gen[t] = generation

(* What keeps the rounds apart; all three are needed for any of them to    *)
(* survive a step.                                                         *)
Inv == CountExact /\ OneCloser /\ FreshGeneration

(* Once everybody waits, everybody returns: no spinner misses the release, *)
(* however late it looks at the generation again.                          *)
AllReleased ==
  \A t \in Thread :
    (Waiting = Thread) ~> pc[t] = "idle"

=============================================================================
