----------------------------- MODULE MCGradeBook -----------------------------
(***************************************************************************)
(* Small instances of GradeBook: a dean and two teachers between whom a    *)
(* course passes.                                                          *)
(***************************************************************************)
EXTENDS GradeBook, TLC

CONSTANTS dean, ada, bob

MCUsers == {dean, ada, bob}
MCDeans == {dean}
MCTeachers == {ada, bob}

Symmetry ==
    Permutations(MCTeachers) \cup Permutations(Requests) \cup
    Permutations(Scores) \cup Permutations(Letters)
=============================================================================
