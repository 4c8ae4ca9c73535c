--------------------------- MODULE MCAuthSessions ---------------------------
(***************************************************************************)
(* Model checking AuthSessions.  Sessions, request slots and users are     *)
(* interchangeable, so they are symmetry sets.                             *)
(***************************************************************************)
EXTENDS AuthSessions, TLC

Symmetry ==
    Permutations(SessionIds) \cup Permutations(Requests) \cup Permutations(Users)
=============================================================================
