----------------------------- MODULE MCGovernor -----------------------------
(***************************************************************************)
(* Instances of Governor for TLC.  Its requests are interchangeable, but   *)
(* the temporal properties rule a symmetry reduction out.                  *)
(***************************************************************************)
EXTENDS Governor

CONSTANTS p1, p2, p3, p4
=============================================================================
