---------------------------- MODULE MCRoundWalk -----------------------------
(***************************************************************************)
(* The walks over every number of up to MaxLines lines.                    *)
(***************************************************************************)
EXTENDS RoundWalk

CONSTANT MaxLines

MCLengths == 1 .. MaxLines * DPL

=============================================================================
