--------------------------- MODULE SessionLedger ---------------------------
(***************************************************************************)
(* What "refresh token session with rotation and replay detection"         *)
(* (src/api/app/models/refresh_session.py) promises, without tokens,       *)
(* markers, snapshots or locks: a ledger of sessions.  A login opens a     *)
(* session in a family of its own, a rotation closes a live session and    *)
(* opens its successor in one step, and everything else only closes.       *)
(***************************************************************************)
EXTENDS TLAPS

CONSTANTS SessionIds, None

VARIABLES status, family
vars == <<status, family>>

Status == {"unissued", "live", "closed"}

Init ==
    /\ status = [s \in SessionIds |-> "unissued"]
    /\ family = [s \in SessionIds |-> None]

Open(s) ==
    /\ status[s] = "unissued"
    /\ status' = [status EXCEPT ![s] = "live"]
    /\ family' = [family EXCEPT ![s] = s]

Rotate(s, t) ==
    /\ status[s] = "live"
    /\ status[t] = "unissued"
    /\ status' = [status EXCEPT ![s] = "closed", ![t] = "live"]
    /\ family' = [family EXCEPT ![t] = family[s]]

Close(S) ==
    /\ \A s \in S : status[s] = "live"
    /\ status' = [s \in SessionIds |-> IF s \in S THEN "closed" ELSE status[s]]
    /\ UNCHANGED family

Next ==
    \/ \E s \in SessionIds : Open(s)
    \/ \E s, t \in SessionIds : Rotate(s, t)
    \/ \E S \in SUBSET SessionIds : Close(S)

Spec == Init /\ [][Next]_vars

-----------------------------------------------------------------------------
\* At most one session of a family is live: a refresh token that was rotated
\* and its successor are never both usable.
OneLivePerFamily ==
    \A s, t \in SessionIds :
        status[s] = "live" /\ status[t] = "live" /\ family[s] = family[t] => s = t

TypeOK ==
    /\ status \in [SessionIds -> Status]
    /\ family \in [SessionIds -> SessionIds \cup {None}]

\* A family is named after the session that its login opened, and that session
\* is issued: a new family never collides with one in use.
FamiliesRooted ==
    \A s \in SessionIds :
        status[s] # "unissued" => /\ family[s] \in SessionIds
                                  /\ status[family[s]] # "unissued"

IInv == TypeOK /\ FamiliesRooted /\ OneLivePerFamily

\* Every behaviour of the ledger keeps at most one session of a family live:
\* what the refinement of the ledger gives the code's sessions.
THEOREM LedgerSafe == Spec => []OneLivePerFamily
  <1>1. Init => IInv
    BY DEF Init, IInv, TypeOK, FamiliesRooted, OneLivePerFamily, Status
  <1>2. IInv /\ [Next]_vars => IInv'
    <2> SUFFICES ASSUME IInv, [Next]_vars PROVE IInv'
      OBVIOUS
    <2> USE DEF IInv, TypeOK, FamiliesRooted, OneLivePerFamily, Status
    <2>1. ASSUME NEW s \in SessionIds, Open(s) PROVE IInv'
      BY <2>1 DEF Open
    <2>2. ASSUME NEW s \in SessionIds, NEW t \in SessionIds, Rotate(s, t)
          PROVE IInv'
      BY <2>2 DEF Rotate
    <2>3. ASSUME NEW S \in SUBSET SessionIds, Close(S) PROVE IInv'
      BY <2>3 DEF Close
    <2>4. CASE UNCHANGED vars
      BY <2>4 DEF vars
    <2>5. QED
      BY <2>1, <2>2, <2>3, <2>4 DEF Next
  <1>3. IInv => OneLivePerFamily
    BY DEF IInv
  <1>4. QED
    BY <1>1, <1>2, <1>3, PTL DEF Spec

\* A session that is closed is never live again, and one that was opened stays in its
\* family: what rotation and replay detection take for granted of a family.
THEOREM ClosedIsFinal ==
  Spec => [][\A s \in SessionIds :
                /\ status[s] = "closed" => status'[s] = "closed"
                /\ status[s] # "unissued" =>
                       status'[s] # "unissued" /\ family'[s] = family[s]]_vars
  <1> DEFINE Kept(s) ==
        /\ status[s] = "closed" => status'[s] = "closed"
        /\ status[s] # "unissued" => status'[s] # "unissued" /\ family'[s] = family[s]
  <1>1. Init => TypeOK
    BY DEF Init, TypeOK, Status
  <1>2. TypeOK /\ [Next]_vars => TypeOK'
    BY DEF TypeOK, Status, Next, Open, Rotate, Close, vars
  <1>3. ASSUME TypeOK, NEW q \in SessionIds, Next PROVE Kept(q)
    <2> USE DEF TypeOK, Status
    <2>1. ASSUME NEW s \in SessionIds, Open(s) PROVE Kept(q)
      BY <1>3, <2>1 DEF Open
    <2>2. ASSUME NEW s \in SessionIds, NEW t \in SessionIds, Rotate(s, t) PROVE Kept(q)
      BY <1>3, <2>2 DEF Rotate
    <2>3. ASSUME NEW S \in SUBSET SessionIds, Close(S) PROVE Kept(q)
      BY <1>3, <2>3 DEF Close
    <2>4. QED
      BY <1>3, <2>1, <2>2, <2>3 DEF Next
  <1>4. TypeOK /\ [Next]_vars => [\A s \in SessionIds : Kept(s)]_vars
    BY <1>3
  <1>5. QED
    BY <1>1, <1>2, <1>4, PTL DEF Spec
=============================================================================
