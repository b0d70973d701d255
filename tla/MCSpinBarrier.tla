--------------------------- MODULE MCSpinBarrier ---------------------------
(***************************************************************************)
(* Four participants, and the smallest generation counter, so that it      *)
(* wraps on every second round.                                            *)
(***************************************************************************)
EXTENDS SpinBarrier

CONSTANTS t1, t2, t3, t4

MCThread == {t1, t2, t3, t4}

=============================================================================
