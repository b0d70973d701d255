----------------------------- MODULE MCSearchRun -----------------------------
(***************************************************************************)
(* Instances of SearchRun.  Steps free of carries, and with them           *)
(* palindromes, come at a checkpoint iteration, next to one, or late.      *)
(***************************************************************************)
EXTENDS SearchRun

(* One seed, and a second one whose decimal ends differently. *)
MCEndsApart == [s \in Seed |-> {s}]

(* "6" is how "96" ends. *)
MCEndsAlike == [s \in Seed |-> IF s = "6" THEN {"6", "96"} ELSE {s}]

MCCarryFree == [s \in Seed |-> IF s = "6" THEN {6} ELSE {5, 7}]

=============================================================================
