--------------------------- MODULE MCAuthOverlaps ---------------------------
(***************************************************************************)
(* Model checking AuthOverlaps, with the symmetry of MCAuthSessions: the   *)
(* record of overlaps treats sessions, request slots and users alike.      *)
(***************************************************************************)
EXTENDS AuthOverlaps, TLC

Symmetry ==
    Permutations(SessionIds) \cup Permutations(Requests) \cup Permutations(Users)
=============================================================================
