------------------------------- MODULE Absent -------------------------------
(***************************************************************************)
(* What stands for no row, no request, no report: a value that is none of   *)
(* them.                                                                    *)
(***************************************************************************)
CONSTANT NONE
=============================================================================
