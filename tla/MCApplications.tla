--------------------------- MODULE MCApplications ---------------------------
(***************************************************************************)
(* Small instances of Applications: an applicant, an administrator who may *)
(* submit and review, and a dean who only reviews.                         *)
(***************************************************************************)
EXTENDS Applications, TLC

CONSTANTS applicant, admin, dean

MCUsers == {applicant, admin, dean}
MCSubmitters == {applicant, admin}
MCReviewers == {admin, dean}

Symmetry == Permutations(AppIds) \cup Permutations(Requests)
=============================================================================
