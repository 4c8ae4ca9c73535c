------------------------------ MODULE UiShell ------------------------------
(***************************************************************************)
(* What one tab of the UI shows: the routes (src/ui/src/routeTree.gen.ts,  *)
(* routes/), the layout that guards them (components/layout/AppLayout.tsx),*)
(* the pages that sign in and out, the controls each page offers to the    *)
(* roles it knows, and what the API asks of those who use them             *)
(* (src/api/app/auth/permissions.py and the routers).                      *)
(*                                                                         *)
(* A navigation by an effect of React is a step of its own, as the user,   *)
(* an answer or another effect may come before it.  UiSession has the      *)
(* tokens: here the store holds the account they belong to, or none.       *)
(* A request outlives the page that began it.  Toasts, the mobile menu and *)
(* the layout of pages are left out.                                       *)
(***************************************************************************)
CONSTANTS
    Accounts,   \* accounts someone signs in to from this tab
    RoleSets,   \* the sets of roles an account may have
    Scopes,     \* bound: the role sets and forms in use; a run has one of them
    Visited,    \* bound: the locations a user opens by their URL
    None        \* null

Roles == {"STUDENT", "TEACHER", "DEAN", "ADMIN"}

\* Registration gives one, an assignment puts one in place of those there were.
ASSUME RolesAssumption == RoleSets \subseteq (SUBSET Roles) \ {{}}
Forms == {"latest", "earlier"}
ASSUME ScopesAssumption == Scopes \subseteq [roles: SUBSET RoleSets, forms: SUBSET Forms]
ASSUME NoneAssumption == None \notin Accounts

VARIABLES
    loc,        \* state.location.pathname, as the route it matches
    target,     \* search.redirect of the login page
    hydrated,   \* the store has been read from localStorage, which it never is if
                \* the browser refuses
    owner,      \* the account whose tokens the store holds
    user,       \* user of the store: whom the UI takes the owner to be
    ready,      \* AppLayout has found tokens since it was mounted
    me,         \* the query ["me"]: its state, whose tokens it sent, its data
    synced,     \* AppLayout has stored the data of that query
    forms,      \* sign-ins, registrations and sign-outs in progress, with their
                \* account: the latest one, and one whose page is gone
    present,    \* the page that began the latest is still there for its callbacks
    scope,      \* the bounds of this run
    roles,      \* user_roles of the API
    overtaken   \* history: an answer was stored over another sign-in or a sign-out

vars == <<loc, target, hydrated, owner, user, ready, me, synced, forms, present, scope,
          roles, overtaken>>

-----------------------------------------------------------------------------
(***************************************************************************)
(* Routes and pages.                                                       *)
(***************************************************************************)
Public == {"/", "/login", "/register", "/unauthorized"}
Pages == {"/dashboard", "/applications", "/students", "/courses", "/grades", "/admin",
          "/profile"}
Details == {"/students/$studentId", "/courses/$courseId"}
NotFound == "not found"
Locations == Public \cup Pages \cup Details \cup {NotFound}

ASSUME VisitedAssumption == Visited \subseteq Locations

\* getParentRoute
Parent(l) ==
    CASE l = "/students/$studentId" -> "/students"
      [] l = "/courses/$courseId" -> "/courses"
      [] l \in Pages -> "_app"
      [] OTHER -> "__root__"

InApp(l) == l \in Pages \cup Details

\* The components that render an Outlet for the route below them.
Outlets == {"__root__", "_app"}

\* The route whose component shows: a parent without Outlet hides its children.
Shown(l) == IF Parent(l) \in Outlets THEN l ELSE Parent(l)

-----------------------------------------------------------------------------
(***************************************************************************)
(* Roles, permissions and controls.                                        *)
(***************************************************************************)
RolePermissions(role) ==
    LET Student == {"application:submit", "student:read:self", "student:update:self",
                    "course:read", "grade:read:self"}
        Teacher == {"course:read", "student:read:roster", "enrollment:manage",
                    "grade:write:assigned"}
        Dean == {"users:read:any", "application:review", "application:read:any",
                 "student:read:any", "student:update:any", "course:read",
                 "course:manage", "enrollment:manage", "grade:read:any",
                 "grade:manage:all"}
    IN CASE role = "STUDENT" -> Student
         [] role = "TEACHER" -> Teacher
         [] role = "DEAN" -> Dean
         [] role = "ADMIN" -> Student \cup Teacher \cup Dean \cup {"users:role:assign"}

Permissions(rs) == UNION {RolePermissions(r) : r \in rs}

\* Any of these permissions lets a request through.  Roles are assigned by the role
\* ADMIN, which alone has the permission.
Required(control) ==
    CASE control = "new application" -> {"application:submit"}
      [] control = "review" -> {"application:review"}
      [] control = "list students" -> {"student:read:any", "student:read:roster"}
      [] control = "edit student" -> {"student:update:any"}
      [] control = "list courses" -> {"course:read"}
      [] control = "new course" -> {"course:manage"}
      [] control = "edit course" -> {"course:manage"}
      [] control = "enroll" -> {"enrollment:manage"}
      [] control = "my grades" -> {"grade:read:self"}
      [] control = "record grades" -> {"grade:manage:all", "grade:write:assigned"}
      [] control = "assign role" -> {"users:role:assign"}

Permitted(rs, control) == Permissions(rs) \cap Required(control) # {}

HasAnyRole(rs, any) == rs \cap any # {}

Staff == {"TEACHER", "DEAN", "ADMIN"}
Reviewers == {"DEAN", "ADMIN"}

\* mutation: whoever teaches is offered to create courses
CourseCreators_Staff == {"TEACHER", "DEAN", "ADMIN"}

CourseCreators == {"DEAN", "ADMIN"}

\* NAV of AppLayout
NavRoles(page) ==
    CASE page = "/students" -> Staff
      [] page = "/admin" -> {"ADMIN"}
      [] OTHER -> Roles

\* What each page offers to someone with these roles; RoleGate hides a page whole.
Applications(rs) ==
    {"new application"} \cup IF HasAnyRole(rs, Reviewers) THEN {"review"} ELSE {}

StudentsPage(rs) == IF HasAnyRole(rs, Staff) THEN {"list students"} ELSE {}

StudentDetail(rs) == {"edit student"}

CoursesPage(rs) ==
    {"list courses"} \cup IF HasAnyRole(rs, CourseCreators) THEN {"new course"} ELSE {}

CourseDetail(rs) == IF HasAnyRole(rs, Staff) THEN {"edit course", "enroll"} ELSE {}

GradesPage(rs) == IF HasAnyRole(rs, Staff) THEN {"record grades"} ELSE {"my grades"}

AdminPage(rs) == IF HasAnyRole(rs, {"ADMIN"}) THEN {"assign role"} ELSE {}

Controls(l, rs) ==
    CASE l = "/applications" -> Applications(rs)
      [] l = "/students" -> StudentsPage(rs)
      [] l = "/students/$studentId" -> StudentDetail(rs)
      [] l = "/courses" -> CoursesPage(rs)
      [] l = "/courses/$courseId" -> CourseDetail(rs)
      [] l = "/grades" -> GradesPage(rs)
      [] l = "/admin" -> AdminPage(rs)
      [] OTHER -> {}

AllControls == UNION {Controls(l, rs) : l \in Locations, rs \in SUBSET Roles}

-----------------------------------------------------------------------------
(***************************************************************************)
(* State.                                                                  *)
(***************************************************************************)
User == [id: Accounts, roles: RoleSets]
ASSUME NoUserAssumption == None \notin User

NoQuery == [pc |-> "none", owner |-> None, data |-> None]
NoForm == [op |-> "none", account |-> None]

\* "retried": with the tokens of the store, after a 401.
Form == [op: {"none", "register", "login", "profile", "retried", "logout", "cleared"},
         account: Accounts \cup {None}]

TypeOK ==
    /\ loc \in Locations /\ target \in Pages \cup Details
    /\ hydrated \in BOOLEAN
    /\ owner \in Accounts \cup {None} /\ user \in User \cup {None}
    /\ ready \in BOOLEAN /\ synced \in BOOLEAN /\ present \in BOOLEAN
    /\ me \in [pc: {"none", "loading", "failed", "ok"}, owner: Accounts \cup {None},
               data: User \cup {None}]
    /\ forms \in [Forms -> Form]
    /\ scope \in Scopes /\ roles \in [Accounts -> RoleSets]
    /\ overtaken \in BOOLEAN

Init ==
    /\ loc \in Visited /\ target = "/dashboard"
    /\ hydrated \in BOOLEAN
    /\ owner = None /\ user = None
    /\ ready = FALSE /\ synced = FALSE
    /\ me = NoQuery /\ forms = [i \in Forms |-> NoForm] /\ present = FALSE
    /\ scope \in Scopes /\ roles \in [Accounts -> scope.roles]
    /\ overtaken = FALSE

\* AppLayout shows the page only to someone it knows.
Content == InApp(loc) /\ ready /\ user # None

Profile(a) == [id |-> a, roles |-> roles[a]]

-----------------------------------------------------------------------------
(***************************************************************************)
(* Navigation.                                                             *)
(***************************************************************************)
\* The router swaps the page and the search parameters.  AppLayout stays mounted
\* between its pages; mounted anew it has its state and effects anew, and a failed
\* query is fetched again.
GoBackTo(l, back) ==
    /\ loc' = l /\ target' = back
    /\ present' = (present /\ (l = loc \/ (InApp(l) /\ InApp(loc))))
    /\ IF InApp(loc) /\ InApp(l)
       THEN UNCHANGED <<ready, synced, me>>
       ELSE /\ ready' = FALSE /\ synced' = FALSE
            /\ me' = IF me.pc = "failed" THEN NoQuery ELSE me

Go(l) == GoBackTo(l, "/dashboard")

\* The browser loads the page of a location: only localStorage is left.
Load(l) ==
    /\ loc' = l /\ target' = "/dashboard"
    /\ ready' = FALSE /\ synced' = FALSE /\ present' = FALSE
    /\ me' = NoQuery /\ forms' = [i \in Forms |-> NoForm]

Open(l) ==
    /\ l \in Visited
    /\ Load(l)
    /\ UNCHANGED <<hydrated, owner, user, scope, roles, overtaken>>

\* The way on from the page of that name.
Unauthorized == {"/dashboard"}

\* The links of each page and the entries of the navigation.
Links ==
    CASE loc = "/login" -> {"/register"}
      [] loc = "/register" -> {"/login"}
      [] loc = "/unauthorized" -> Unauthorized
      [] loc = NotFound -> {"/"}
      [] Content -> {p \in Pages : HasAnyRole(user.roles, NavRoles(p))} \cup
                    {d \in Details : Parent(d) = Shown(loc)
                                      /\ Controls(Shown(loc), user.roles) # {}}
      [] OTHER -> {}

Follow(l) ==
    /\ l \in Links
    /\ Go(l)
    /\ UNCHANGED <<hydrated, owner, user, forms, scope, roles,
                   overtaken>>

-----------------------------------------------------------------------------
(***************************************************************************)
(* Effects.                                                                *)
(***************************************************************************)
\* mutation: the layout asks for the user, the login page for the token
NeedsLogin_NoUser == user = None

NeedsLogin == owner = None

IndexEffect ==
    /\ loc = "/" /\ hydrated
    /\ Go(IF owner # None THEN "/dashboard" ELSE "/login")
    /\ UNCHANGED <<hydrated, owner, user, forms, scope, roles,
                   overtaken>>

LoginEffect ==
    /\ loc = "/login" /\ hydrated /\ owner # None
    /\ Go(target)
    /\ UNCHANGED <<hydrated, owner, user, forms, scope, roles,
                   overtaken>>

LayoutRedirects ==
    /\ InApp(loc) /\ hydrated /\ NeedsLogin
    /\ GoBackTo("/login", loc)
    /\ UNCHANGED <<hydrated, owner, user, forms, scope, roles,
                   overtaken>>

LayoutReady ==
    /\ InApp(loc) /\ hydrated /\ ~ NeedsLogin /\ ~ ready
    /\ ready' = TRUE
    /\ UNCHANGED <<loc, target, hydrated, owner, user, me, synced, forms, present,
                   scope, roles, overtaken>>

\* if (meQuery.data) setUser(meQuery.data)
Sync ==
    /\ InApp(loc) /\ me.data # None /\ ~ synced
    /\ user' = me.data /\ synced' = TRUE
    /\ UNCHANGED <<loc, target, hydrated, owner, ready, me, forms, present,
                   scope, roles, overtaken>>

MeEnabled == owner # None /\ user = None

MeBegins ==
    /\ InApp(loc) /\ MeEnabled /\ me.pc = "none"
    /\ me' = [pc |-> "loading", owner |-> owner, data |-> None]
    /\ UNCHANGED <<loc, target, hydrated, owner, user, ready, synced, forms, present,
                   scope, roles, overtaken>>

MeAnswered ==
    /\ me.pc = "loading"
    /\ \/ /\ me' = [me EXCEPT !.pc = "ok", !.data = Profile(me.owner)]
          /\ synced' = FALSE
       \/ /\ me' = [me EXCEPT !.pc = "failed"]
          /\ UNCHANGED synced
    /\ UNCHANGED <<loc, target, hydrated, owner, user, ready, forms, present,
                   scope, roles, overtaken>>

\* A query that has failed is fetched again when the window gets the focus.
Focus ==
    /\ InApp(loc) /\ me.pc = "failed"
    /\ me' = NoQuery
    /\ UNCHANGED <<loc, target, hydrated, owner, user, ready, synced, forms, present,
                   scope, roles, overtaken>>

-----------------------------------------------------------------------------
(***************************************************************************)
(* Signing in and out.  Each step is of the form i.                        *)
(***************************************************************************)
\* A form is begun while another goes on, whose page is gone, or which is a sign-out.
\* Bound: two at a time, or one.
Submit(op, account) ==
    /\ \/ forms["latest"].op = "none"
       \/ "earlier" \in scope.forms /\ forms["earlier"].op = "none"
    /\ forms' = [i \in Forms |->
                    IF i = "latest" THEN [op |-> op, account |-> account]
                    ELSE IF forms["latest"].op = "none" THEN forms[i] ELSE forms["latest"]]
    /\ present' = TRUE
    /\ UNCHANGED <<loc, target, hydrated, owner, user, ready, me, synced, scope, roles,
                   overtaken>>

\* The button of a page that signs in is disabled until its requests are over.
Enabled == forms["latest"].op = "none" \/ ~ present

SubmitLogin(a) == loc = "/login" /\ Enabled /\ Submit("login", a)

\* A new account is a student's.
SubmitRegister(a) ==
    loc = "/register" /\ Enabled /\ roles[a] = {"STUDENT"} /\ Submit("register", a)

SubmitLogout == Content /\ Submit("logout", None)

\* Callbacks given to mutate are called only while the page is there.
There(i) == i = "latest" /\ present

Becomes(i, op) == forms' = [forms EXCEPT ![i].op = op]
Ends(i) == forms' = [forms EXCEPT ![i] = NoForm]

Registered(i) ==
    /\ forms[i].op = "register"
    /\ IF There(i) THEN Becomes(i, "login") ELSE Ends(i)
    /\ UNCHANGED <<loc, target, hydrated, owner, user, ready, me, synced, present, scope,
                   roles, overtaken>>

\* The tokens are stored first, then the profile is asked for.
LoggedIn(i) ==
    /\ forms[i].op = "login"
    /\ owner' = forms[i].account
    /\ Becomes(i, "profile")
    /\ overtaken' = (overtaken \/ owner \notin {None, forms[i].account})
    /\ UNCHANGED <<loc, target, hydrated, user, ready, me, synced, present, scope, roles>>

AsksProfile(i) == forms[i].op \in {"profile", "retried"}

\* The tokens it was asked with are no good; those of someone else are there by now.
ProfileRetried(i) ==
    /\ forms[i].op = "profile" /\ owner \notin {None, forms[i].account}
    /\ forms' = [forms EXCEPT ![i] = [op |-> "retried", account |-> owner]]
    /\ UNCHANGED <<loc, target, hydrated, owner, user, ready, me, synced, present, scope,
                   roles, overtaken>>

\* mutation: the store gets the account, not its profile
ProfileArrives_Account(i) ==
    /\ AsksProfile(i)
    /\ user' = forms[i].account
    /\ Ends(i)
    /\ overtaken' = (overtaken \/ owner # forms[i].account)
    /\ IF There(i) THEN Go(IF loc = "/login" THEN target ELSE "/dashboard")
       ELSE UNCHANGED <<loc, target, ready, synced, me, present>>
    /\ UNCHANGED <<hydrated, owner, scope, roles>>

\* setUser stores whatever the tokens are by then.
ProfileArrives(i) ==
    /\ AsksProfile(i)
    /\ user' = Profile(forms[i].account)
    /\ Ends(i)
    /\ overtaken' = (overtaken \/ owner # forms[i].account)
    /\ IF There(i) THEN Go(IF loc = "/login" THEN target ELSE "/dashboard")
       ELSE UNCHANGED <<loc, target, ready, synced, me, present>>
    /\ UNCHANGED <<hydrated, owner, scope, roles>>

\* The request fails; or it gets a 401, for a wrong password or since the sign-out,
\* on which the interceptor, with no token to refresh, loads the login page.
FormFails(i) ==
    /\ forms[i].op \in {"register", "login", "profile", "retried"}
    /\ \/ /\ Ends(i)
          /\ UNCHANGED <<loc, target, ready, synced, me, present>>
       \/ /\ forms[i].op # "register" /\ owner = None
          /\ Load("/login")
    /\ UNCHANGED <<hydrated, owner, user, scope, roles, overtaken>>

\* mutation: the queries of the account that signs out are kept
WithoutQueries_Kept == me

WithoutQueries == NoQuery

LoggedOut(i) ==
    /\ forms[i].op = "logout"
    /\ owner' = None /\ user' = None
    /\ me' = WithoutQueries
    /\ Becomes(i, "cleared")
    /\ UNCHANGED <<loc, target, hydrated, ready, synced, present, scope, roles, overtaken>>

\* navigate({ to: "/login" }), unless the effect of AppLayout was faster.
AfterLogout(i) ==
    /\ forms[i].op = "cleared"
    /\ Ends(i)
    /\ IF There(i) THEN Go("/login")
       ELSE UNCHANGED <<loc, target, ready, synced, me, present>>
    /\ UNCHANGED <<hydrated, owner, user, scope, roles, overtaken>>

\* A call of some page cannot refresh its token.
SessionLost ==
    /\ owner # None
    /\ owner' = None /\ user' = None
    /\ Load("/login")
    /\ UNCHANGED <<hydrated, scope, roles, overtaken>>

RoleAssigned(a) ==
    /\ \E rs \in scope.roles : roles' = [roles EXCEPT ![a] = rs]
    /\ UNCHANGED <<loc, target, hydrated, owner, user, ready, me, synced, forms, present,
                   scope, overtaken>>

-----------------------------------------------------------------------------
Effects ==
    \/ IndexEffect \/ LoginEffect \/ LayoutRedirects \/ LayoutReady \/ Sync \/ MeBegins

Answers ==
    \/ MeAnswered
    \/ \E i \in Forms :
          \/ Registered(i) \/ LoggedIn(i) \/ ProfileRetried(i) \/ ProfileArrives(i)
          \/ FormFails(i) \/ LoggedOut(i) \/ AfterLogout(i)

Environment ==
    \/ \E l \in Locations : Open(l) \/ Follow(l)
    \/ \E a \in Accounts : SubmitLogin(a) \/ SubmitRegister(a) \/ RoleAssigned(a)
    \/ SubmitLogout \/ Focus \/ SessionLost

Next == Effects \/ Answers \/ Environment

\* Effects run after each render and every request is answered or fails.  Users,
\* role assignments and sessions that end are not fair.
Spec == Init /\ [][Next]_vars /\ WF_vars(Effects) /\ WF_vars(Answers)

-----------------------------------------------------------------------------
\* What is shown under a name is shown to the owner of the tokens, also while sign-ins,
\* sign-outs and profiles overtake each other: but for someone who signs in over the
\* sign-in of another, whose query then brings that one's profile back, and for a
\* profile that a sign-in asked for and that is stored after its sign-out.
NameFits == Content => user.id = owner \/ overtaken

Offered == IF Content THEN Controls(Shown(loc), user.roles) ELSE {}

Current == Content /\ owner = user.id /\ user.roles = roles[owner]

\* What the UI offers is what the API permits, unless roles changed since the sign-in.
\* Whoever sees a control may use it, but for the offer to apply, made to everyone; and
\* whoever may use a control finds it from the navigation or by a link, but for the
\* details of courses and students, which never show as their parents have no Outlet,
\* and the own grades of those who are more than a student.
OfferedIsPermitted ==
    \A c \in Offered : Permitted(user.roles, c) \/ c = "new application"

Reaches(rs, c) ==
    \E l \in Pages \cup Details :
        /\ HasAnyRole(rs, NavRoles(IF l \in Details THEN Parent(l) ELSE l))
        /\ c \in Controls(Shown(l), rs)

PermittedIsOffered ==
    \A c \in AllControls : Permitted(user.roles, c) =>
        \/ Reaches(user.roles, c)
        \/ c \in {"edit course", "enroll", "edit student"}
        \/ c = "my grades" /\ HasAnyRole(user.roles, Staff)

AccessAgrees == Current => OfferedIsPermitted /\ PermittedIsOffered

\* Left alone, the tab comes to rest: at a page with content, a form, or a message.
\* The guards of the layout, the index and the login page send no one in circles.
\* The exceptions: a browser without localStorage and a profile that cannot be had
\* leave the user in front of "Loading workspace".
AtRest ==
    \/ Content
    \/ loc \in {"/register", "/unauthorized", NotFound}
    \/ loc = "/login" /\ owner = None
    \/ ~ hydrated
    \/ me.pc = "failed"

ComesToRest == <>[][Effects \/ Answers]_vars => <>[]AtRest

=============================================================================
