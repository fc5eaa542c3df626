------------------------------- MODULE MCHandle -------------------------------
(***************************************************************************)
(* TLC instances of Handle.                                                *)
(***************************************************************************)
EXTENDS Handle, TLC

CONSTANTS o1, o2, o3, o4, t1, t2

=============================================================================
