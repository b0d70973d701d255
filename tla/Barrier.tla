------------------------------ MODULE Barrier ------------------------------
(***************************************************************************)
(* What a reusable barrier promises, independently of how it is built: no  *)
(* participant returns from wait() before every participant has arrived,   *)
(* and a participant that hurries into the next wait() cannot be confused  *)
(* with one that has not yet left the previous one.                        *)
(*                                                                         *)
(* A participant is "outside" (before its arrival or after its return),    *)
(* "waiting" (arrived, not released) or "released" (free to return).       *)
(***************************************************************************)
CONSTANT Thread

VARIABLE phase

TypeOK == phase \in [Thread -> {"outside", "waiting", "released"}]

Init == phase = [t \in Thread |-> "outside"]

(* A participant arrives. *)
Arrive(t) ==
  /\ phase[t] = "outside"
  /\ phase' = [phase EXCEPT ![t] = "waiting"]

(* Everybody has arrived: everybody is released at once. *)
Open ==
  /\ \A t \in Thread : phase[t] = "waiting"
  /\ phase' = [t \in Thread |-> "released"]

(* A released participant returns. *)
Leave(t) ==
  /\ phase[t] = "released"
  /\ phase' = [phase EXCEPT ![t] = "outside"]

Next == Open \/ \E t \in Thread : Arrive(t) \/ Leave(t)

Spec == Init /\ [][Next]_phase

=============================================================================
