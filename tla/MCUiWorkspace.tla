--------------------------- MODULE MCUiWorkspace ---------------------------
(***************************************************************************)
(* UiWorkspace for TLC: a dean reviews applications and grades a course,   *)
(* two mutations at a time on the pages of the one or of the other, and    *)
(* one that the pages of both may overtake.                                *)
(***************************************************************************)
EXTENDS UiWorkspace

ApplicationsAndGrades == {<<"applications">>, Course}

OneOrTwo ==
    {[pages |-> {"/applications", "/dashboard", "/courses"}, pending |-> 2],
     [pages |-> {"/grades", "/admin"}, pending |-> 2],
     [pages |-> {"/grades", "/dashboard", "/courses"}, pending |-> 1]}
=============================================================================
