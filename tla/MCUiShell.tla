----------------------------- MODULE MCUiShell -----------------------------
(***************************************************************************)
(* UiShell for TLC: students and those of one other role, for each other   *)
(* role (a student who also teaches is one), with one form at a time, and  *)
(* students and deans with two.                                            *)
(***************************************************************************)
EXTENDS UiShell

Others == {{"TEACHER"}, {"DEAN"}, {"ADMIN"}, {"STUDENT", "TEACHER"}}

OneRoleOrTwo == {{"STUDENT"}} \cup Others

RolesOrForms ==
    {[roles |-> {{"STUDENT"}, rs}, forms |-> {"latest"}] : rs \in Others} \cup
    {[roles |-> {{"STUDENT"}, {"DEAN"}}, forms |-> Forms]}

SomeOfEach == {"/", "/login", "/register", "/dashboard", "/students/$studentId"}
=============================================================================
