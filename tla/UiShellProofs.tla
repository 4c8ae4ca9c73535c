--------------------------- MODULE UiShellProofs ---------------------------
(***************************************************************************)
(* Proofs about UiShell, for any accounts, role sets and visited           *)
(* locations: types, the name under which a page is shown, and that what   *)
(* is offered is what is permitted.                                        *)
(***************************************************************************)
EXTENDS UiShell, Naturals, TLAPS

\* The account of every part of the tab is the one whose tokens the store holds.
UserOwned == user # None => owner # None /\ user.id = owner
QueryOwned ==
    /\ me.pc = "none" => me.data = None
    /\ me.pc # "none" => owner # None /\ me.owner = owner
    /\ me.data # None => me.data.id = owner

NamesInv == overtaken \/ (UserOwned /\ QueryOwned)

\* Requests about an account have one.
RequestsTyped ==
    /\ \A i \in Forms : forms[i].op \in {"register", "login", "profile", "retried"} =>
                          forms[i].account # None
    /\ me.pc = "loading" => me.owner # None

Inv == TypeOK /\ RequestsTyped /\ NamesInv

LEMMA LocationsNamed ==
    /\ "/login" \in Locations /\ "/dashboard" \in Locations
    /\ \A l \in Locations : InApp(l) => l \in Pages \cup Details
    /\ Pages \cup Details \subseteq Locations /\ "/dashboard" \in Pages \cup Details
  BY DEF Locations, Public, Pages, Details, InApp

LEMMA ProfileTyped ==
    ASSUME TypeOK, NEW a \in Accounts PROVE Profile(a) \in User /\ Profile(a).id = a
  BY DEF TypeOK, Profile, User

\* A navigation forgets at most a failed query.
LEMMA NavigationKeeps ==
    ASSUME TypeOK, NEW l \in Locations, NEW back \in Pages \cup Details, GoBackTo(l, back)
    PROVE  /\ loc' \in Locations /\ target' \in Pages \cup Details
           /\ ready' \in BOOLEAN /\ synced' \in BOOLEAN /\ present' \in BOOLEAN
           /\ me' = me \/ me' = NoQuery
  BY DEF GoBackTo, TypeOK, InApp

LEMMA QueryTyped ==
    /\ NoQuery \in [pc: {"none", "loading", "failed", "ok"}, owner: Accounts \cup {None},
                    data: User \cup {None}]
    /\ NoQuery.pc = "none" /\ NoQuery.data = None
  BY DEF NoQuery

LEMMA NoFormTyped == NoForm \in Form /\ NoForm.op = "none"
  BY DEF NoForm, Form

\* A form that ends or goes on leaves the other as it is.
LEMMA FormsKeep ==
    ASSUME Inv, NEW i \in Forms, NEW form \in Form,
           form.op \in {"register", "login", "profile", "retried"} => form.account # None,
           forms' = [forms EXCEPT ![i] = form]
    PROVE  /\ forms' \in [Forms -> Form]
           /\ \A j \in Forms : forms'[j].op \in {"register", "login", "profile", "retried"} =>
                                 forms'[j].account # None
  BY DEF Inv, TypeOK, RequestsTyped

\* A page load and a navigation keep the invariant if the account and the user do not
\* change, or both go.
LEMMA LoadKeeps ==
    ASSUME Inv, NEW l \in Locations, Load(l), UNCHANGED <<hydrated, scope, roles, overtaken>>,
           UNCHANGED <<owner, user>> \/ (owner' = None /\ user' = None)
    PROVE  Inv'
  <1> USE QueryTyped, NoFormTyped, LocationsNamed DEF Inv, Load
  <1>1. TypeOK' /\ RequestsTyped'
    BY DEF TypeOK, RequestsTyped
  <1>2. NamesInv'
    BY DEF NamesInv, UserOwned, QueryOwned
  <1>3. QED
    BY <1>1, <1>2

LEMMA GoKeeps ==
    ASSUME Inv, NEW l \in Locations, NEW back \in Pages \cup Details, GoBackTo(l, back),
           forms' = forms \/ (\E i \in Forms : Ends(i)),
           UNCHANGED <<hydrated, owner, user, scope, roles, overtaken>>
    PROVE  Inv'
  <1> USE QueryTyped, NavigationKeeps DEF Inv
  <1>0. /\ forms' \in [Forms -> Form]
        /\ \A j \in Forms : forms'[j].op \in {"register", "login", "profile", "retried"} =>
                              forms'[j].account # None
    BY FormsKeep, NoFormTyped DEF Ends, TypeOK, RequestsTyped
  <1>1. TypeOK' /\ RequestsTyped'
    BY <1>0 DEF TypeOK, RequestsTyped
  <1>2. NamesInv'
    BY DEF NamesInv, UserOwned, QueryOwned
  <1>3. QED
    BY <1>1, <1>2

LEMMA EffectsKeep == ASSUME Inv, Effects PROVE Inv'
  <1> USE LocationsNamed
  <1>0. target \in Locations /\ loc \in Locations
    BY DEF Inv, TypeOK
  <1>1. CASE IndexEffect \/ LoginEffect
    BY <1>0, <1>1, GoKeeps DEF IndexEffect, LoginEffect, Go
  <1>2. CASE LayoutRedirects
    BY <1>0, <1>2, GoKeeps DEF LayoutRedirects
  <1>3. CASE LayoutReady
    BY <1>3 DEF LayoutReady, Inv, TypeOK, RequestsTyped, NamesInv, UserOwned, QueryOwned
  <1>4. CASE Sync
    <2>1. TypeOK' /\ RequestsTyped'
      BY <1>4 DEF Sync, Inv, TypeOK, RequestsTyped
    <2>2. NamesInv'
      BY <1>4 DEF Sync, Inv, NamesInv, UserOwned, QueryOwned
    <2>3. QED
      BY <2>1, <2>2 DEF Inv
  <1>5. CASE MeBegins
    <2>1. TypeOK' /\ RequestsTyped'
      BY <1>5 DEF MeBegins, MeEnabled, Inv, TypeOK, RequestsTyped
    <2>2. NamesInv'
      BY <1>5 DEF MeBegins, MeEnabled, Inv, NamesInv, UserOwned, QueryOwned
    <2>3. QED
      BY <2>1, <2>2 DEF Inv
  <1>6. QED
    BY <1>1, <1>2, <1>3, <1>4, <1>5 DEF Effects

LEMMA MeAnsweredKeeps == ASSUME Inv, MeAnswered PROVE Inv'
  <1>1. Profile(me.owner) \in User /\ Profile(me.owner).id = me.owner
    BY ProfileTyped DEF MeAnswered, Inv, TypeOK, RequestsTyped
  <1>2. TypeOK' /\ RequestsTyped'
    <2>1. me'.pc \in {"ok", "failed"} /\ synced' \in BOOLEAN
          /\ me' \in [pc: {"none", "loading", "failed", "ok"},
                      owner: Accounts \cup {None}, data: User \cup {None}]
      <3>1. CASE me' = [me EXCEPT !.pc = "ok", !.data = Profile(me.owner)]
        BY <1>1, <3>1 DEF MeAnswered, Inv, TypeOK
      <3>2. CASE me' = [me EXCEPT !.pc = "failed"]
        BY <3>2 DEF MeAnswered, Inv, TypeOK
      <3>3. QED
        BY <3>1, <3>2 DEF MeAnswered
    <2>2. QED
      BY <2>1 DEF MeAnswered, Inv, TypeOK, RequestsTyped
  <1>3. NamesInv'
    BY <1>1 DEF MeAnswered, Inv, TypeOK, NamesInv, UserOwned, QueryOwned
  <1>4. QED
    BY <1>2, <1>3 DEF Inv

\* Where nothing but the forms changes.
LEMMA OnlyForms ==
    ASSUME Inv, NEW i \in Forms, NEW form \in Form,
           form.op \in {"register", "login", "profile", "retried"} => form.account # None,
           forms' = [forms EXCEPT ![i] = form],
           UNCHANGED <<loc, target, hydrated, owner, user, ready, me, synced, present,
                       scope, roles, overtaken>>
    PROVE  Inv'
  <1>1. TypeOK' /\ RequestsTyped'
    BY FormsKeep DEF Inv, TypeOK, RequestsTyped
  <1>2. NamesInv'
    BY DEF Inv, NamesInv, UserOwned, QueryOwned
  <1>3. QED
    BY <1>1, <1>2 DEF Inv

LEMMA FormAnswersKeep ==
    ASSUME Inv, NEW i \in Forms,
           \/ Registered(i) \/ LoggedIn(i) \/ ProfileRetried(i) \/ ProfileArrives(i)
           \/ FormFails(i) \/ LoggedOut(i) \/ AfterLogout(i)
    PROVE  Inv'
  <1> USE LocationsNamed
  <1>0. target \in Locations /\ loc \in Locations
    BY DEF Inv, TypeOK
  <1> DEFINE Taken(op) == [forms[i] EXCEPT !.op = op]
  <1>a. /\ forms[i] \in Form
        /\ \A op \in {"login", "profile", "cleared"} :
              Taken(op) \in Form /\ Taken(op).op = op /\ Taken(op).account = forms[i].account
        /\ \A op \in {"login", "profile", "cleared"} :
              Becomes(i, op) => forms' = [forms EXCEPT ![i] = Taken(op)]
    BY DEF Inv, TypeOK, Form, Becomes
  <1>b. forms[i].op \in {"register", "login", "profile", "retried"} =>
           forms[i].account \in Accounts
    BY DEF Inv, TypeOK, Form, RequestsTyped
  <1> HIDE DEF Taken
  <1>2. CASE Registered(i)
    <2>1. CASE There(i)
      <3>1. forms' = [forms EXCEPT ![i] = Taken("login")] /\ Taken("login") \in Form
            /\ Taken("login").account # None
        BY <1>2, <2>1, <1>a, <1>b, NoneAssumption DEF Registered
      <3>2. QED
        BY <1>2, <3>1, OnlyForms DEF Registered
    <2>2. CASE ~ There(i)
      BY <1>2, <2>2, NoFormTyped, OnlyForms DEF Registered, Ends
    <2>3. QED
      BY <2>1, <2>2
  <1>3. CASE LoggedIn(i)
    <2>1. forms' = [forms EXCEPT ![i] = Taken("profile")] /\ Taken("profile") \in Form
          /\ Taken("profile").account # None
      BY <1>3, <1>a, <1>b, NoneAssumption DEF LoggedIn
    <2>2. TypeOK' /\ RequestsTyped'
      <3>1. /\ forms' \in [Forms -> Form]
            /\ \A j \in Forms : forms'[j].op \in {"register", "login", "profile", "retried"}
                                 => forms'[j].account # None
        BY <2>1, FormsKeep
      <3>2. QED
        BY <1>3, <1>b, <3>1 DEF LoggedIn, Inv, TypeOK, RequestsTyped
    <2>3. NamesInv'
      BY <1>3, <1>b, NoneAssumption
         DEF LoggedIn, Inv, TypeOK, NamesInv, UserOwned, QueryOwned
    <2>4. QED
      BY <2>2, <2>3 DEF Inv
  <1>4. CASE ProfileRetried(i)
    <2>1. [op |-> "retried", account |-> owner] \in Form /\ owner # None
      BY <1>4 DEF ProfileRetried, Inv, TypeOK, Form
    <2>2. QED
      BY <1>4, <2>1, OnlyForms DEF ProfileRetried
  <1>5. CASE ProfileArrives(i)
    <2>1. Profile(forms[i].account) \in User /\ forms[i].account \in Accounts
          /\ Profile(forms[i].account).id = forms[i].account
      BY <1>5, <1>b, ProfileTyped DEF ProfileArrives, AsksProfile, Inv
    <2>2. /\ loc' \in Locations /\ target' \in Pages \cup Details
          /\ ready' \in BOOLEAN /\ synced' \in BOOLEAN /\ present' \in BOOLEAN
          /\ me' = me \/ me' = NoQuery
      BY <1>0, <1>5, NavigationKeeps DEF ProfileArrives, Go, Inv, TypeOK
    <2>3. TypeOK' /\ RequestsTyped'
      <3>1. /\ forms' \in [Forms -> Form]
            /\ \A j \in Forms : forms'[j].op \in {"register", "login", "profile", "retried"}
                                 => forms'[j].account # None
        BY <1>5, NoFormTyped, FormsKeep DEF ProfileArrives, Ends
      <3>2. QED
        BY <1>5, <2>1, <2>2, <3>1, QueryTyped
           DEF ProfileArrives, Inv, TypeOK, RequestsTyped
    <2>4. NamesInv'
      BY <1>5, <2>1, <2>2, QueryTyped, NoneAssumption
         DEF ProfileArrives, Inv, TypeOK, NamesInv, UserOwned, QueryOwned
    <2>5. QED
      BY <2>3, <2>4 DEF Inv
  <1>6. CASE FormFails(i)
    <2>1. CASE Load("/login")
      BY <1>6, <2>1, LoadKeeps DEF FormFails
    <2>2. CASE Ends(i) /\ UNCHANGED <<loc, target, ready, synced, me, present>>
      BY <1>6, <2>2, NoFormTyped, OnlyForms DEF FormFails, Ends
    <2>3. QED
      BY <1>6, <2>1, <2>2 DEF FormFails
  <1>7. CASE LoggedOut(i)
    <2>1. forms' = [forms EXCEPT ![i] = Taken("cleared")] /\ Taken("cleared") \in Form
          /\ Taken("cleared").op = "cleared"
      BY <1>7, <1>a DEF LoggedOut
    <2>2. TypeOK' /\ RequestsTyped'
      <3>1. /\ forms' \in [Forms -> Form]
            /\ \A j \in Forms : forms'[j].op \in {"register", "login", "profile", "retried"}
                                 => forms'[j].account # None
        BY <2>1, FormsKeep
      <3>2. QED
        BY <1>7, <3>1, QueryTyped
           DEF LoggedOut, WithoutQueries, Inv, TypeOK, RequestsTyped
    <2>3. NamesInv'
      BY <1>7, QueryTyped
         DEF LoggedOut, WithoutQueries, Inv, TypeOK, NamesInv, UserOwned, QueryOwned
    <2>4. QED
      BY <2>2, <2>3 DEF Inv
  <1>8. CASE AfterLogout(i)
    <2>1. CASE There(i)
      BY <1>8, <2>1, GoKeeps DEF AfterLogout, Go
    <2>2. CASE ~ There(i)
      BY <1>8, <2>2, NoFormTyped, OnlyForms DEF AfterLogout, Ends
    <2>3. QED
      BY <2>1, <2>2
  <1>9. QED
    BY <1>2, <1>3, <1>4, <1>5, <1>6, <1>7, <1>8

LEMMA AnswersKeep == ASSUME Inv, Answers PROVE Inv'
  BY MeAnsweredKeeps, FormAnswersKeep DEF Answers

LEMMA SubmitKeeps ==
    ASSUME Inv, NEW op \in {"register", "login", "logout"}, NEW a \in Accounts \cup {None},
           a = None => op = "logout", Submit(op, a)
    PROVE  Inv'
  <1>0. [op |-> op, account |-> a] \in Form
    BY DEF Form
  <1>1. TypeOK' /\ RequestsTyped'
    <2>1. /\ forms' \in [Forms -> Form]
          /\ \A j \in Forms : forms'[j].op \in {"register", "login", "profile", "retried"}
                               => forms'[j].account # None
      BY <1>0 DEF Submit, Inv, TypeOK, RequestsTyped, Forms
    <2>2. QED
      BY <2>1 DEF Submit, Inv, TypeOK, RequestsTyped
  <1>2. NamesInv'
    BY DEF Submit, Inv, NamesInv, UserOwned, QueryOwned
  <1>3. QED
    BY <1>1, <1>2 DEF Inv

LEMMA EnvironmentKeeps == ASSUME Inv, Environment PROVE Inv'
  <1> USE LocationsNamed
  <1>1. ASSUME NEW l \in Locations, Open(l) PROVE Inv'
    BY <1>1, LoadKeeps DEF Open
  <1>2. ASSUME NEW l \in Locations, Follow(l) PROVE Inv'
    BY <1>2, GoKeeps DEF Follow, Go
  <1>3. ASSUME NEW a \in Accounts, SubmitLogin(a) \/ SubmitRegister(a) PROVE Inv'
    BY <1>3, SubmitKeeps, NoneAssumption DEF SubmitLogin, SubmitRegister
  <1>4. ASSUME NEW a \in Accounts, RoleAssigned(a) PROVE Inv'
    BY <1>4, ScopesAssumption
       DEF RoleAssigned, Inv, TypeOK, RequestsTyped, NamesInv, UserOwned, QueryOwned
  <1>5. CASE SubmitLogout
    BY <1>5, SubmitKeeps DEF SubmitLogout
  <1>6. CASE Focus
    BY <1>6, QueryTyped
       DEF Focus, Inv, TypeOK, RequestsTyped, NamesInv, UserOwned, QueryOwned
  <1>7. CASE SessionLost
    BY <1>7, LoadKeeps DEF SessionLost
  <1>8. QED
    BY <1>1, <1>2, <1>3, <1>4, <1>5, <1>6, <1>7 DEF Environment

\* Whoever the parts of a tab take the user to be, it is the owner of the tokens, as
\* long as no one has signed in over a sign-in of someone else and no profile was stored
\* when its account had no tokens in the store any more.
THEOREM Invariant == Spec => []Inv
  <1>1. Init => Inv
    BY QueryTyped, NoFormTyped, VisitedAssumption, ScopesAssumption, LocationsNamed
       DEF Init, Inv, TypeOK, RequestsTyped, NamesInv, UserOwned, QueryOwned
  <1>2. Inv /\ [Next]_vars => Inv'
    <2>1. CASE UNCHANGED vars
      BY <2>1 DEF vars, Inv, TypeOK, RequestsTyped, NamesInv, UserOwned, QueryOwned
    <2>2. QED
      BY <2>1, EffectsKeep, AnswersKeep, EnvironmentKeeps DEF Next
  <1>3. QED
    BY <1>1, <1>2, PTL DEF Spec

\* Every reachable state of the tab is type correct.
THEOREM TypeCorrect == Spec => []TypeOK
  <1>1. Inv => TypeOK
    BY DEF Inv
  <1>2. QED
    BY Invariant, <1>1, PTL

\* What is shown under a name is shown to the owner of the tokens (AppLayout.tsx), but
\* for those who sign in over a sign-in and for profiles that overtake a sign-out
\* (hooks/api.ts).
THEOREM NameCorrect == Spec => []NameFits
  <1>1. Inv => NameFits
    BY DEF Inv, NamesInv, UserOwned, NameFits, Content
  <1>2. QED
    BY Invariant, <1>1, PTL

-----------------------------------------------------------------------------
(***************************************************************************)
(* What is offered is permitted and the reverse, for every set of roles.   *)
(***************************************************************************)
\* The roles whose holder may use a control.
Permitters(control) ==
    CASE control \in {"review", "edit student", "new course", "edit course"}
            -> {"DEAN", "ADMIN"}
      [] control \in {"list students", "enroll", "record grades"}
            -> {"TEACHER", "DEAN", "ADMIN"}
      [] control \in {"new application", "my grades"} -> {"STUDENT", "ADMIN"}
      [] control = "assign role" -> {"ADMIN"}
      [] control = "list courses" -> Roles

AllNamed ==
    {"new application", "review", "list students", "edit student", "list courses",
     "new course", "edit course", "enroll", "my grades", "record grades", "assign role"}

LEMMA RolesPermit ==
    ASSUME NEW c \in AllNamed, NEW r \in Roles
    PROVE  RolePermissions(r) \cap Required(c) # {} <=> r \in Permitters(c)
  <1>1. CASE r = "STUDENT"
    BY <1>1 DEF AllNamed, Roles, RolePermissions, Required, Permitters
  <1>2. CASE r = "TEACHER"
    BY <1>2 DEF AllNamed, Roles, RolePermissions, Required, Permitters
  <1>3. CASE r = "DEAN"
    BY <1>3 DEF AllNamed, Roles, RolePermissions, Required, Permitters
  <1>4. CASE r = "ADMIN"
    BY <1>4 DEF AllNamed, Roles, RolePermissions, Required, Permitters
  <1>5. QED
    BY <1>1, <1>2, <1>3, <1>4 DEF Roles

LEMMA PermittedByRoles ==
    ASSUME NEW c \in AllNamed, NEW rs \in SUBSET Roles
    PROVE  Permitted(rs, c) <=> rs \cap Permitters(c) # {}
  <1>1. Permitted(rs, c) <=> \E r \in rs : RolePermissions(r) \cap Required(c) # {}
    BY DEF Permitted, Permissions
  <1>2. QED
    BY <1>1, RolesPermit

LEMMA ControlsNamed == AllControls \subseteq AllNamed
  <1>1. ASSUME NEW l \in Locations, NEW rs \in SUBSET Roles, NEW c \in Controls(l, rs)
        PROVE  c \in AllNamed
    BY <1>1 DEF Controls, Applications, StudentsPage, StudentDetail, CoursesPage,
       CourseDetail,
                GradesPage, AdminPage, AllNamed
  <1>2. QED
    BY <1>1 DEF AllControls

\* The routes below a list have no place to show.
LEMMA ShownPages ==
    /\ \A l \in Pages : Shown(l) = l
    /\ \A l \in Pages \cup Details : Shown(l) \in Pages
  <1>1. \A l \in Pages : Parent(l) = "_app"
    BY DEF Parent, Pages
  <1>2. /\ Parent("/students/$studentId") = "/students"
        /\ Parent("/courses/$courseId") = "/courses"
    BY DEF Parent, Pages
  <1>3. \A l \in Pages : Shown(l) = l
    BY <1>1 DEF Shown, Outlets
  <1>4. \A l \in Details : Shown(l) \in Pages
    BY <1>2 DEF Shown, Outlets, Details, Pages
  <1>5. QED
    BY <1>3, <1>4

LEMMA OfferIsPermitted ==
    ASSUME NEW p \in Pages, NEW rs \in (SUBSET Roles) \ {{}}, NEW c \in Controls(p, rs)
    PROVE  Permitted(rs, c) \/ c = "new application"
  <1>1. c \in AllNamed
    BY ControlsNamed DEF AllControls, Locations
  <1>2. rs \cap Permitters(c) # {} \/ c = "new application"
    <2>1. CASE p = "/applications"
      BY <2>1 DEF Controls, Applications, Permitters, HasAnyRole, Reviewers
    <2>2. CASE p = "/students"
      BY <2>2 DEF Controls, StudentsPage, Permitters, HasAnyRole, Staff
    <2>3. CASE p = "/courses"
      BY <2>3 DEF Controls, CoursesPage, CourseCreators, Permitters, HasAnyRole, Roles
    <2>4. CASE p = "/grades"
      BY <2>4 DEF Controls, GradesPage, Permitters, HasAnyRole, Staff, Roles
    <2>5. CASE p = "/admin"
      BY <2>5 DEF Controls, AdminPage, Permitters, HasAnyRole
    <2>6. CASE p = "/dashboard" \/ p = "/profile"
      BY <2>6 DEF Controls
    <2>7. QED
      BY <2>1, <2>2, <2>3, <2>4, <2>5, <2>6 DEF Pages
  <1>3. QED
    BY <1>1, <1>2, PermittedByRoles

\* Where to find a control.
PageOf(c) ==
    CASE c \in {"new application", "review"} -> "/applications"
      [] c = "list students" -> "/students"
      [] c \in {"list courses", "new course"} -> "/courses"
      [] c \in {"my grades", "record grades"} -> "/grades"
      [] c = "assign role" -> "/admin"

LEMMA PermittedReaches ==
    ASSUME NEW rs \in (SUBSET Roles) \ {{}}, NEW c \in AllNamed, Permitted(rs, c),
           c \notin {"edit course", "enroll", "edit student"},
           ~ (c = "my grades" /\ HasAnyRole(rs, Staff))
    PROVE  Reaches(rs, c)
  <1>1. rs \cap Permitters(c) # {}
    BY PermittedByRoles
  <1>2. PageOf(c) \in Pages
    BY DEF PageOf, Pages, AllNamed
  <1>3. HasAnyRole(rs, NavRoles(PageOf(c)))
    BY <1>1 DEF PageOf, AllNamed, NavRoles, HasAnyRole, Roles, Staff, Permitters
  <1>4. c \in Controls(PageOf(c), rs)
    BY <1>1 DEF PageOf, AllNamed, Controls, Applications, StudentsPage, CoursesPage,
       GradesPage,
                AdminPage, CourseCreators, HasAnyRole, Staff, Reviewers, Permitters
  <1>5. PageOf(c) \notin Details /\ Shown(PageOf(c)) = PageOf(c)
    BY <1>2, ShownPages DEF Pages, Details
  <1>6. QED
    BY <1>2, <1>3, <1>4, <1>5 DEF Reaches

\* Whoever is known to the tab by the roles the API gives is offered what the API
\* permits (NAV and RoleGate of the UI against permissions.py of the API).
THEOREM AccessCorrect == Spec => []AccessAgrees
  <1>1. ASSUME Inv, Current PROVE OfferedIsPermitted /\ PermittedIsOffered
    <2>1. user.roles \in (SUBSET Roles) \ {{}} /\ loc \in Pages \cup Details
      BY <1>1, RolesAssumption DEF Inv, TypeOK, Current, Content, InApp, User
    <2>2. OfferedIsPermitted
      BY <2>1, ShownPages, OfferIsPermitted DEF OfferedIsPermitted, Offered
    <2>3. PermittedIsOffered
      BY <2>1, ControlsNamed, PermittedReaches DEF PermittedIsOffered
    <2>4. QED
      BY <2>2, <2>3
  <1>2. Inv => AccessAgrees
    BY <1>1 DEF AccessAgrees
  <1>3. QED
    BY Invariant, <1>2, PTL

-----------------------------------------------------------------------------
(***************************************************************************)
(* Coming to rest.  Every effect and every answer lowers a rank, and where *)
(* nothing is left for them to do the tab is at rest.  With the fairness   *)
(* of Spec this is what ComesToRest rests on.                              *)
(***************************************************************************)
\* The guards of the effects and of the answers.
Pending ==
    \/ (\E i \in Forms : forms[i].op # "none") \/ me.pc = "loading"
    \/ hydrated /\ loc = "/"
    \/ hydrated /\ loc = "/login" /\ owner # None
    \/ InApp(loc) /\ \/ hydrated /\ (owner = None \/ ~ ready)
                     \/ me.data # None /\ ~ synced
                     \/ MeEnabled /\ me.pc = "none"

\* Pending is what the effects and the answers ask for, no less.
LEMMA GuardsKept == ASSUME Effects \/ Answers PROVE Pending
  BY DEF Effects, IndexEffect, LoginEffect, LayoutRedirects, LayoutReady, Sync, MeBegins,
         NeedsLogin, Answers, MeAnswered, Registered, LoggedIn, ProfileRetried,
         ProfileArrives, AsksProfile, FormFails, LoggedOut, AfterLogout, Pending

\* The steps left to the forms, to the redirections once no form changes the account,
\* to the query of the profile on one page, and to the layout that shows it.
FormRank(i) ==
    CASE forms[i].op = "register" -> 6 [] forms[i].op = "login" -> 5
      [] forms[i].op = "profile" -> 4 [] forms[i].op = "retried" -> 3
      [] forms[i].op = "logout" -> 2 [] forms[i].op = "cleared" -> 1
      [] forms[i].op = "none" -> 0
FormsRank == FormRank("latest") + FormRank("earlier")
LocRank ==
    IF loc = "/" \/ (owner = None /\ InApp(loc)) \/ (owner # None /\ loc = "/login")
    THEN 1 ELSE 0
MeRank == IF me.pc = "none" THEN 2 ELSE IF me.pc = "loading" THEN 1 ELSE 0
LayoutRank == (IF ready THEN 0 ELSE 1) + (IF synced THEN 0 ELSE 1)

Rank == 40 * FormsRank + 12 * LocRank + 4 * MeRank + LayoutRank

\* A query has data once it is answered, and only for someone signed in; what the
\* layout has copied is in the store.
QueryInv ==
    /\ owner = None => me.pc = "none"
    /\ me.data # None <=> me.pc = "ok"
    /\ me.pc = "ok" /\ synced /\ owner # None => user # None

RankTyped ==
    (\A i \in Forms : FormRank(i) \in 0 .. 6) /\ LocRank \in 0 .. 1 /\ MeRank \in 0 .. 2 /\ LayoutRank \in 0 .. 2

LEMMA RanksTyped == (TypeOK => RankTyped) /\ (TypeOK' => RankTyped')
  <1>1. TypeOK => RankTyped
    <2>1. ASSUME TypeOK, NEW i \in Forms PROVE FormRank(i) \in 0 .. 6
      BY <2>1 DEF TypeOK, Form, FormRank
    <2>2. QED
      BY <2>1 DEF TypeOK, RankTyped, LocRank, MeRank, LayoutRank
  <1>2. TypeOK' => RankTyped'
    BY <1>1, PTL
  <1>3. QED
    BY <1>1, <1>2

LEMMA FormsRanked ==
    (RankTyped => FormsRank \in 0 .. 12) /\ (RankTyped' => FormsRank' \in 0 .. 12)
  BY DEF RankTyped, FormsRank, Forms

LEMMA Apart ==
    /\ ~ InApp("/") /\ ~ InApp("/login") /\ InApp("/dashboard")
    /\ \A l \in Pages \cup Details : InApp(l) /\ l # "/" /\ l # "/login"
  BY DEF InApp, Pages, Details

LEMMA QueryStep == ASSUME Inv, QueryInv, Next PROVE QueryInv'
  <1> USE QueryTyped DEF QueryInv, Inv
  <1>0. \A a \in Accounts : Profile(a) # None
    BY ProfileTyped, NoUserAssumption
  <1>1. CASE IndexEffect \/ LoginEffect \/ LayoutRedirects
    BY <1>1 DEF IndexEffect, LoginEffect, LayoutRedirects, Go, GoBackTo
  <1>2. CASE LayoutReady \/ Sync \/ MeBegins \/ Focus
    BY <1>2 DEF LayoutReady, Sync, MeBegins, MeEnabled, Focus, TypeOK
  <1>3. CASE MeAnswered
    <2>1. Profile(me.owner) # None
      BY <1>0, <1>3 DEF MeAnswered, TypeOK, RequestsTyped
    <2>2. QED
      BY <1>3, <2>1 DEF MeAnswered, TypeOK
  <1>4. CASE \E i \in Forms : \/ Registered(i) \/ LoggedIn(i) \/ ProfileRetried(i)
                              \/ LoggedOut(i)
    <2>1. ASSUME NEW i \in Forms, Registered(i) \/ ProfileRetried(i) \/ LoggedOut(i)
          PROVE  QueryInv'
      BY <2>1 DEF Registered, ProfileRetried, LoggedOut, WithoutQueries
    <2>2. ASSUME NEW i \in Forms, LoggedIn(i) PROVE QueryInv'
      <3>1. forms[i].account # None
        BY <2>2 DEF LoggedIn, RequestsTyped
      <3>2. QED
        BY <2>2, <3>1 DEF LoggedIn, TypeOK
    <2>3. QED
      BY <1>4, <2>1, <2>2
  <1>5. ASSUME NEW i \in Forms, ProfileArrives(i) \/ AfterLogout(i) PROVE QueryInv'
    <2>1. CASE ProfileArrives(i)
      <3>1. Profile(forms[i].account) # None
        BY <1>0, <2>1 DEF ProfileArrives, AsksProfile, TypeOK, Form, RequestsTyped
      <3>2. QED
        BY <2>1, <3>1 DEF ProfileArrives, Go, GoBackTo
    <2>2. CASE AfterLogout(i)
      BY <2>2 DEF AfterLogout, Go, GoBackTo
    <2>3. QED
      BY <1>5, <2>1, <2>2
  <1>6. CASE (\E i \in Forms : FormFails(i)) \/ SessionLost \/ \E l \in Locations : Open(l)
    BY <1>6 DEF FormFails, SessionLost, Open, Load
  <1>7. ASSUME NEW l \in Locations, Follow(l) PROVE QueryInv'
    BY <1>7 DEF Follow, Go, GoBackTo
  <1>8. CASE SubmitLogout \/ \E a \in Accounts : SubmitLogin(a) \/ SubmitRegister(a)
                                                 \/ RoleAssigned(a)
    BY <1>8 DEF SubmitLogout, SubmitLogin, SubmitRegister, Submit, RoleAssigned
  <1>9. QED
    BY <1>1, <1>2, <1>3, <1>4, <1>5, <1>6, <1>7, <1>8 DEF Next, Effects, Answers,
       Environment

\* A navigation lets the query of the profile and the layout begin anew, no more.
LEMMA EffectsRank == ASSUME TypeOK, TypeOK', Effects PROVE Rank' < Rank
  <1>0. FormsRank \in 0 .. 12 /\ FormsRank' \in 0 .. 12
    BY RanksTyped, FormsRanked
  <1> USE RanksTyped, <1>0 DEF Rank, RankTyped
  <1>1. ASSUME FormsRank' = FormsRank, LocRank = 1, LocRank' = 0,
               MeRank' =< MeRank + 2 PROVE Rank' < Rank
    BY <1>1
  <1>2. CASE IndexEffect
    <2>1. LocRank = 1 /\ LocRank' = 0
      BY <1>2, Apart DEF IndexEffect, Go, GoBackTo, LocRank
    <2>2. FormsRank' = FormsRank
      BY <1>2 DEF IndexEffect, FormsRank, FormRank
    <2>3. QED
      BY <1>1, <2>1, <2>2
  <1>3. CASE LoginEffect
    <2>1. LocRank = 1 /\ LocRank' = 0
      BY <1>3, Apart DEF LoginEffect, Go, GoBackTo, LocRank, TypeOK
    <2>2. FormsRank' = FormsRank
      BY <1>3 DEF LoginEffect, FormsRank, FormRank
    <2>3. QED
      BY <1>1, <2>1, <2>2
  <1>4. CASE LayoutRedirects
    <2>1. LocRank = 1 /\ LocRank' = 0
      BY <1>4, Apart DEF LayoutRedirects, NeedsLogin, GoBackTo, LocRank
    <2>2. FormsRank' = FormsRank
      BY <1>4 DEF LayoutRedirects, FormsRank, FormRank
    <2>3. QED
      BY <1>1, <2>1, <2>2
  <1>5. CASE LayoutReady \/ Sync
    <2>1. LayoutRank' < LayoutRank
      BY <1>5 DEF LayoutReady, Sync, LayoutRank, TypeOK
    <2>2. FormsRank' = FormsRank /\ LocRank' = LocRank /\ MeRank' = MeRank
      BY <1>5 DEF LayoutReady, Sync, FormsRank, FormRank, LocRank, MeRank
    <2>3. QED
      BY <2>1, <2>2
  <1>6. CASE MeBegins
    <2>1. MeRank = 2 /\ MeRank' = 1 /\ LayoutRank' = LayoutRank
      BY <1>6 DEF MeBegins, MeRank, LayoutRank
    <2>2. FormsRank' = FormsRank /\ LocRank' = LocRank
      BY <1>6 DEF MeBegins, FormsRank, FormRank, LocRank
    <2>3. QED
      BY <2>1, <2>2
  <1>7. QED
    BY <1>2, <1>3, <1>4, <1>5, <1>6 DEF Effects

\* An answer to a form ends it or takes it on, wherever that leads.
LEMMA AnswersRank == ASSUME TypeOK, TypeOK', Answers PROVE Rank' < Rank
  <1>0. FormsRank \in 0 .. 12 /\ FormsRank' \in 0 .. 12
    BY RanksTyped, FormsRanked
  <1> USE RanksTyped, <1>0 DEF Rank, RankTyped
  <1>1. CASE MeAnswered
    <2>1. MeRank = 1 /\ MeRank' = 0
      BY <1>1 DEF MeAnswered, MeRank, TypeOK
    <2>2. FormsRank' = FormsRank /\ LocRank' = LocRank
      BY <1>1 DEF MeAnswered, FormsRank, FormRank, LocRank
    <2>3. QED
      BY <2>1, <2>2
  <1>2. ASSUME NEW i \in Forms,
               \/ Registered(i) \/ LoggedIn(i) \/ ProfileRetried(i) \/ ProfileArrives(i)
               \/ FormFails(i) \/ LoggedOut(i) \/ AfterLogout(i)
        PROVE  Rank' < Rank
    <2>1. CASE Load("/login")
      BY <1>2, <2>1, NoFormTyped
         DEF Load, Registered, LoggedIn, ProfileRetried, ProfileArrives, AsksProfile,
             FormFails, LoggedOut, AfterLogout, FormsRank, FormRank, Forms, TypeOK, Form
    <2>2. CASE ~ Load("/login")
      <3>1. /\ FormRank(i)' < FormRank(i)
            /\ \A j \in Forms : j # i => FormRank(j)' = FormRank(j)
        BY <1>2, <2>2, NoFormTyped
           DEF Registered, LoggedIn, ProfileRetried, ProfileArrives, AsksProfile, FormFails,
               LoggedOut, AfterLogout, Becomes, Ends, FormRank, TypeOK, Form
      <3>2. FormsRank' < FormsRank
        BY <3>1 DEF FormsRank, Forms
      <3>3. QED
        BY <3>2
    <2>3. QED
      BY <2>1, <2>2
  <1>3. QED
    BY <1>1, <1>2 DEF Answers

\* The effects and answers of a tab cannot go on for ever: each of them lowers a natural
\* number that only users, role assignments and lost sessions raise.
THEOREM RedirectsEnd == Spec => [][Effects \/ Answers => Rank \in Nat /\ Rank' < Rank]_vars
  <1>1. TypeOK => Rank \in Nat
    BY RanksTyped, FormsRanked DEF Rank, RankTyped
  <1>2. TypeOK /\ TypeOK' /\ [Next]_vars =>
           [Effects \/ Answers => Rank \in Nat /\ Rank' < Rank]_vars
    BY <1>1, EffectsRank, AnswersRank
  <1>3. QED
    BY <1>2, TypeCorrect, PTL DEF Spec

\* Where no effect and no answer has anything to do, the tab shows content, a form or a
\* message: nobody is left in front of a blank page or a spinner, but for the exceptions
\* that AtRest names.
THEOREM NoDeadEnd == Spec => [](Pending \/ AtRest)
  <1>1. Init => QueryInv
    BY QueryTyped DEF Init, QueryInv
  <1>2. Inv /\ QueryInv /\ [Next]_vars => QueryInv'
    BY QueryStep DEF QueryInv, vars
  <1>3. TypeOK /\ QueryInv => Pending \/ AtRest
    BY DEF TypeOK, QueryInv, Pending, AtRest, MeEnabled, Content, Locations, Public, Pages,
           Details, InApp
  <1>4. QED
    BY <1>1, <1>2, <1>3, Invariant, TypeCorrect, PTL DEF Spec
=============================================================================
