---------------------------- MODULE MCUiSession ----------------------------
(***************************************************************************)
(* UiSession for TLC: one tab with all calls and accounts, or all tabs     *)
(* with one call each and one account, and beside login and the profile    *)
(* query some of the other operations.  Two tabs that only sign in and     *)
(* refresh get one more session, so that both may rotate the same one.     *)
(* Tabs, calls and users are interchangeable.                              *)
(***************************************************************************)
EXTENDS UiSession, TLC

OneTab(acts) ==
    {[calls |-> {t} \X Calls, users |-> Users, acts |-> {"login", "me"} \cup acts,
      sessions |-> 2] : t \in Tabs}

AllTabs(acts, n) ==
    {[calls |-> Tabs \X {c}, users |-> {u}, acts |-> {"login", "me"} \cup acts,
      sessions |-> n] : c \in Calls, u \in Users}

OneTabOrAllTabs ==
    UNION {OneTab({"query", "logout"}),
           OneTab({"logout_all"}),
           OneTab({"change_password"}),
           AllTabs({"query", "logout"}, 2),
           AllTabs({"logout_all"}, 2),
           AllTabs({"change_password"}, 2),
           AllTabs({}, 3)}

Interchangeable == Permutations(Tabs) \cup Permutations(Calls) \cup Permutations(Users)
=============================================================================
