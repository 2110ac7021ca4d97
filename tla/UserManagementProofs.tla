------------------------ MODULE UserManagementProofs -----------------------
(***************************************************************************)
(* Theorems about UserManagement: the inductive invariant Ind, and from it *)
(* that an ADMIN changes only USER accounts and that no update is lost;    *)
(* then that each step is one that Governance allows, and from that step   *)
(* alone that an enabled SUPER_ADMIN remains, one that can sign in as long *)
(* as all are approved, and that AccountAccess is implemented.             *)
(***************************************************************************)
EXTENDS UserManagement, TLAPS

----------------------------------------------------------------------------
(* Rows and views.                                                         *)

\* An update leaves a row well formed, existing, and of a later revision.
LEMMA PatchedRow ==
  ASSUME NEW row \in Row, NEW p \in Patches, row.role # "NONE"
  PROVE  /\ Patched(row, p) \in Row
         /\ Patched(row, p).role # "NONE"
         /\ Patched(row, p).revision = row.revision + 1
<1> DEFINE role == IF p \in Roles THEN p ELSE row.role
           approval == IF p \in Decisions THEN p ELSE row.approval
           disabled == IF p \in Accesses THEN p = "DISABLE" ELSE row.disabled
           authVersion == IF p = "NOTHING" THEN row.authVersion ELSE row.authVersion + 1
<1>1. role \in Roles \cup {"NONE"} /\ role # "NONE"
  BY RoleAssumption DEF Row
<1>2. approval \in Approvals
  BY DEF Row, Decisions, Approvals
<1>3. disabled \in BOOLEAN
  <2>1. CASE p \in Accesses
    BY <2>1
  <2>2. CASE p \notin Accesses
    BY <2>2 DEF Row
  <2> QED BY <2>1, <2>2
<1>4. authVersion \in Nat /\ row.revision + 1 \in Nat
  BY DEF Row
<1>5. Patched(row, p) = [role |-> role, approval |-> approval, disabled |-> disabled,
                         authVersion |-> authVersion, revision |-> row.revision + 1]
  BY DEF Patched
<1> HIDE DEF role, approval, disabled, authVersion
<1> QED BY <1>1, <1>2, <1>3, <1>4, <1>5 DEF Row

LEMMA AccessView == \A row \in Row : AccessOf(row) \in View /\ AccessOf(row).revision = row.revision
  BY DEF AccessOf, Row, View

LEMMA NoViewType == NoView \in View
  BY DEF NoView, AccessOf, Missing, View, Approvals

LEMMA NewRows ==
  /\ Missing \in Row
  /\ [Missing EXCEPT !.role = "USER"] \in Row
  /\ [Missing EXCEPT !.role = "SUPER_ADMIN", !.approval = "APPROVED"] \in Row
  BY RoleAssumption DEF Missing, Row, Approvals

LEMMA IdleType == IdleRequest \in Request
  BY NoViewType DEF IdleRequest, Request, Patches

\* A row that appears or moves on leaves what a request knows intact, as long
\* as a decided request's target keeps its role and access.
LEMMA RowChange ==
  ASSUME TypeOK, NEW s \in Requests, RequestAgrees(s), req'[s] = req[s],
         NEW u \in Users, NEW row \in Row, row.role # "NONE",
         user' = [user EXCEPT ![u] = row],
         Exists(u) => row.revision > user[u].revision,
         Exists(u) => \/ req[s].pc # "decided"
                      \/ row.role = user[u].role /\ row.disabled = user[u].disabled
  PROVE  RequestAgrees(s)'
<1> DEFINE q == req[s]
<1>1. CASE q.pc = "idle"
  BY <1>1 DEF RequestAgrees, Administering
<1>2. CASE q.pc # "idle"
  <2>1. q.target \in Users /\ Exists(q.target)
    BY <1>2 DEF RequestAgrees
  <2>2. Exists(q.target)'
    BY <2>1 DEF Exists, TypeOK
  <2>3. ASSUME NEW view \in View, Earlier(view, q.target)
        PROVE  Earlier(view, q.target)'
    <3>1. CASE q.target = u
      <4>1. view.revision <= user[u].revision /\ user[u].revision < row.revision
        BY <3>1, <2>1, <2>3 DEF Earlier
      <4>2. user'[u] = row
        BY DEF TypeOK
      <4>3. /\ view.revision \in Nat /\ row.revision \in Nat /\ user[u].revision \in Nat
        BY DEF View, Row, TypeOK
      <4> QED BY <3>1, <4>1, <4>2, <4>3 DEF Earlier
    <3>2. CASE q.target # u
      BY <3>2, <2>1, <2>3 DEF Earlier, AccessOf, TypeOK
    <3> QED BY <3>1, <3>2
  <2>4. q.seen \in View /\ q.before \in View
    BY DEF TypeOK, Request
  <2>5. ASSUME q.pc = "decided"
        PROVE  /\ q.role = "ADMIN" => user'[q.target].role = "USER"
               /\ q.patch \in Decisions => user'[q.target].role = "USER"
               /\ q.patch = "DISABLE" => ~EnabledSuperAdmin(q.target)'
               /\ Replaceable(q.patch, q.target)'
    <3>1. user'[q.target].role = user[q.target].role /\ user'[q.target].disabled = user[q.target].disabled
      BY <2>1, <2>5 DEF TypeOK
    <3>2. \A v \in Users : EnabledSuperAdmin(v) => EnabledSuperAdmin(v)'
      BY <2>5 DEF EnabledSuperAdmin, Exists, TypeOK
    <3> QED BY <2>5, <3>1, <3>2 DEF RequestAgrees, EnabledSuperAdmin, AnotherEnabledSuperAdmin, Replaceable
  <2> QED BY <1>2, <2>1, <2>2, <2>3, <2>4, <2>5 DEF RequestAgrees, Exists
<1> QED BY <1>1, <1>2

\* Where no row changes a request that stays put knows what it knew.
LEMMA NoRowChange ==
  ASSUME NEW s \in Requests, RequestAgrees(s), req'[s] = req[s], user' = user
  PROVE  RequestAgrees(s)'
  BY DEF RequestAgrees, Exists, Earlier, AccessOf, EnabledSuperAdmin, AnotherEnabledSuperAdmin, Replaceable

LEMMA IdleAgrees == ASSUME NEW s \in Requests, req'[s] = IdleRequest PROVE RequestAgrees(s)'
  BY DEF RequestAgrees, IdleRequest, Administering

\* Between the send and the decision a request loses nothing but its place.
LEMMA RequestStays ==
  ASSUME Ind, NEW r \in Requests, NEW q \in Request, req' = [req EXCEPT ![r] = q],
         user' = user, UNCHANGED operator,
         lock' \in Requests \cup {Nobody}, LockHeld', RequestAgrees(r)'
  PROVE  Ind'
<1>1. TypeOK'
  BY DEF Ind, TypeOK
<1>2. ASSUME NEW s \in Requests PROVE RequestAgrees(s)'
  <2>1. CASE s = r
    BY <2>1
  <2>2. CASE s # r
    <3>1. req'[s] = req[s]
      BY <2>2 DEF Ind, TypeOK
    <3> QED BY <3>1, NoRowChange DEF Ind, RequestsAgree
  <2> QED BY <2>1, <2>2
<1> QED BY <1>1, <1>2 DEF Ind, RequestsAgree

----------------------------------------------------------------------------
(* Every step preserves Ind.                                               *)

LEMMA AppearStep ==
  ASSUME Ind, NEW u \in Users, ~Exists(u), NEW row \in Row, row.role # "NONE",
         user' = [user EXCEPT ![u] = row], UNCHANGED <<lock, req>>,
         operator' \in [Operators -> {"idle", "creating"}]
  PROVE  Ind'
<1>1. TypeOK'
  BY DEF Ind, TypeOK
<1>2. ASSUME NEW s \in Requests PROVE RequestAgrees(s)'
  BY RowChange DEF Ind, RequestsAgree
<1>3. LockHeld'
  BY DEF Ind, LockHeld
<1> QED BY <1>1, <1>2, <1>3 DEF Ind, RequestsAgree

LEMMA RegisterStep == ASSUME Ind, NEW u \in Users, Register(u) PROVE Ind'
<1> DEFINE row == [Missing EXCEPT !.role = "USER"]
<1>1. row \in Row /\ row.role # "NONE"
  BY NewRows DEF Missing
<1> HIDE DEF row
<1>2. user' = [user EXCEPT ![u] = row] /\ ~Exists(u) /\ UNCHANGED <<lock, req>>
  BY DEF Register, row
<1>3. operator' \in [Operators -> {"idle", "creating"}]
  BY DEF Register, Ind, TypeOK
<1> QED BY <1>1, <1>2, <1>3, AppearStep

LEMMA BootstrapStep ==
  ASSUME Ind, NEW o \in Operators, BootstrapCheck(o) \/ BootstrapCreate(o) \/ BootstrapEnds(o)
  PROVE  Ind'
<1>1. operator' \in [Operators -> {"idle", "creating"}]
  BY DEF BootstrapCheck, BootstrapCreate, BootstrapEnds, Ind, TypeOK
<1>2. CASE BootstrapCreate(o)
  <2> DEFINE row == [Missing EXCEPT !.role = "SUPER_ADMIN", !.approval = "APPROVED"]
  <2>1. row \in Row /\ row.role # "NONE"
    BY NewRows DEF Missing
  <2>2. PICK u \in Users : ~Exists(u) /\ user' = [user EXCEPT ![u] = row]
    BY <1>2 DEF BootstrapCreate
  <2>3. UNCHANGED <<lock, req>>
    BY <1>2 DEF BootstrapCreate
  <2> HIDE DEF row
  <2> QED BY <1>1, <2>1, <2>2, <2>3, AppearStep
<1>3. CASE BootstrapCheck(o) \/ BootstrapEnds(o)
  <2>1. UNCHANGED <<user, lock, req>>
    BY <1>3 DEF BootstrapCheck, BootstrapEnds
  <2>2. RequestsAgree'
    BY <2>1, NoRowChange DEF Ind, RequestsAgree
  <2> QED BY <1>1, <2>1, <2>2 DEF Ind, TypeOK, LockHeld
<1> QED BY <1>2, <1>3

LEMMA SendStep ==
  ASSUME Ind, NEW r \in Requests, NEW a \in Users, NEW t \in Users, NEW change \in Changes, Send(r, a, t, change)
  PROVE  Ind'
<1> DEFINE q == [IdleRequest EXCEPT !.pc = "sent", !.actor = a, !.change = change,
                                    !.target = t, !.seen = AccessOf(user[t])]
<1>1. req' = [req EXCEPT ![r] = q] /\ UNCHANGED <<user, lock, operator>> /\ req[r].pc = "idle" /\ Exists(t)
  BY DEF Send
<1>2. AccessOf(user[t]) \in View /\ AccessOf(user[t]).revision = user[t].revision /\ user[t].revision \in Nat
  BY AccessView DEF Ind, TypeOK, Row
<1>3. q \in Request
  BY <1>2, IdleType DEF Request, IdleRequest, Patches
<1>4. /\ q.pc = "sent" /\ q.actor = a /\ q.change = change /\ q.target = t /\ q.seen = AccessOf(user[t])
  BY DEF IdleRequest
<1> HIDE DEF q
<1>5. req'[r] = q
  BY <1>1 DEF Ind, TypeOK
<1>6. RequestAgrees(r)'
  BY <1>1, <1>2, <1>4, <1>5 DEF RequestAgrees, Earlier, Exists, Administering
<1>7. LockHeld'
  BY <1>1, <1>4 DEF LockHeld, Ind, TypeOK
<1> QED BY <1>1, <1>3, <1>6, <1>7, RequestStays DEF Ind, TypeOK

LEMMA EnterLocaleStep ==
  ASSUME Ind, NEW r \in Requests, NEW u \in Users, EnterLocale(r, u)
  PROVE  Ind'
<1> DEFINE q == [IdleRequest EXCEPT !.pc = "saving", !.target = u]
<1>1. req' = [req EXCEPT ![r] = q] /\ UNCHANGED <<user, lock, operator>> /\ req[r].pc = "idle" /\ Exists(u)
  BY DEF EnterLocale, SignedIn
<1>2. q \in Request
  BY IdleType DEF Request, IdleRequest
<1>3. q.pc = "saving" /\ q.target = u
  BY DEF IdleRequest
<1> HIDE DEF q
<1>4. req'[r] = q
  BY <1>1 DEF Ind, TypeOK
<1>5. RequestAgrees(r)'
  BY <1>1, <1>3, <1>4 DEF RequestAgrees, Exists, Administering
<1>6. LockHeld'
  BY <1>1, <1>3 DEF LockHeld, Ind, TypeOK
<1> QED BY <1>1, <1>2, <1>5, <1>6, RequestStays DEF Ind, TypeOK

LEMMA EnterStep == ASSUME Ind, NEW r \in Requests, Enter(r) PROVE Ind'
<1>1. user[req[r].actor].role \in Roles \cup {"NONE"}
  BY DEF Ind, RequestsAgree, RequestAgrees, Enter, Administering, TypeOK, Row
<1>2. /\ req'[r].pc = "entered" /\ req'[r].role = user[req[r].actor].role
      /\ req'[r].actor = req[r].actor /\ req'[r].target = req[r].target
      /\ req'[r].change = req[r].change /\ req'[r].seen = req[r].seen
      /\ req' = [req EXCEPT ![r] = req'[r]] /\ req'[r] \in Request
  BY <1>1 DEF Enter, Ind, TypeOK, Request
<1>3. RequestAgrees(r)
  BY DEF Ind, RequestsAgree
<1>4. RequestAgrees(r)'
  BY <1>2, <1>3 DEF Enter, RequestAgrees, Earlier, AccessOf, Exists, Administering
<1>5. LockHeld'
  BY <1>2 DEF Enter, LockHeld, Ind, TypeOK
<1> QED BY <1>2, <1>4, <1>5, RequestStays DEF Enter, Ind, TypeOK

LEMMA LockStep == ASSUME Ind, NEW r \in Requests, Lock(r) PROVE Ind'
<1>1. /\ req'[r].pc = "locked" /\ req'[r].role = req[r].role
      /\ req'[r].actor = req[r].actor /\ req'[r].target = req[r].target
      /\ req'[r].change = req[r].change /\ req'[r].seen = req[r].seen
      /\ req' = [req EXCEPT ![r] = req'[r]] /\ req'[r] \in Request
  BY DEF Lock, Ind, TypeOK, Request
<1>2. RequestAgrees(r)
  BY DEF Ind, RequestsAgree
<1>3. RequestAgrees(r)'
  BY <1>1, <1>2 DEF Lock, RequestAgrees, Earlier, AccessOf, Exists, Administering
<1>4. LockHeld'
  BY <1>1, NobodyAssumption DEF Lock, LockHeld, Ind, TypeOK
<1> QED BY <1>1, <1>3, <1>4, RequestStays DEF Lock, Ind, TypeOK

\* What a decision has to establish: the columns are those of the request, the
\* target is one they may be given to, and someone remains if an administrator goes.
LEMMA ChooseStep ==
  ASSUME Ind, NEW r \in Requests, NEW patch \in {"NOTHING", req[r].change},
         req[r].pc = "locked", Choose(r, patch),
         req[r].role = "ADMIN" => user[req[r].target].role = "USER",
         patch \in Decisions => user[req[r].target].role = "USER",
         patch = "DISABLE" => ~EnabledSuperAdmin(req[r].target),
         Replaceable(patch, req[r].target)
  PROVE  Ind'
<1>1. req[r].target \in Users /\ req[r].actor \in Users /\ req[r].change \in Changes
  BY DEF Ind, RequestsAgree, RequestAgrees, Administering
<1>2. /\ AccessOf(user[req[r].target]) \in View
      /\ AccessOf(user[req[r].target]).revision = user[req[r].target].revision
      /\ user[req[r].target].revision \in Nat
  BY <1>1, AccessView DEF Ind, TypeOK, Row
<1>3. patch \in Patches
  BY <1>1 DEF Patches
<1>4. /\ req'[r].pc = "decided" /\ req'[r].role = req[r].role
      /\ req'[r].actor = req[r].actor /\ req'[r].target = req[r].target
      /\ req'[r].change = req[r].change /\ req'[r].seen = req[r].seen
      /\ req'[r].before = AccessOf(user[req[r].target]) /\ req'[r].patch = patch
      /\ req' = [req EXCEPT ![r] = req'[r]] /\ req'[r] \in Request
  BY <1>2, <1>3 DEF Choose, Ind, TypeOK, Request
<1>5. RequestAgrees(r)
  BY DEF Ind, RequestsAgree
<1>6. UNCHANGED <<user, lock, operator>>
  BY DEF Choose
<1>7. /\ Earlier(AccessOf(user[req[r].target]), req[r].target)
      /\ req[r].seen.revision <= AccessOf(user[req[r].target]).revision
  BY <1>2, <1>5 DEF RequestAgrees, Earlier, Administering
<1>8. RequestAgrees(r)'
  BY <1>4, <1>5, <1>6, <1>7
  DEF RequestAgrees, Earlier, AccessOf, Exists, Administering, EnabledSuperAdmin, AnotherEnabledSuperAdmin, Replaceable
<1>9. LockHeld'
  BY <1>4, <1>6 DEF LockHeld, Ind, TypeOK
<1> QED BY <1>4, <1>6, <1>8, <1>9, RequestStays DEF Ind, TypeOK

LEMMA DecideStep ==
  ASSUME Ind, NEW r \in Requests, SetApproval(r) \/ SetAccess(r) \/ SetRole(r)
  PROVE  Ind'
<1> DEFINE t == req[r].target
           change == req[r].change
<1>1. t \in Users /\ req[r].pc = "locked"
  BY DEF Ind, RequestsAgree, RequestAgrees, Administering, SetApproval, SetAccess, SetRole
<1>2. ASSUME Visible(req[r].role, user[t]) PROVE req[r].role = "ADMIN" => user[t].role = "USER"
  BY <1>2 DEF Visible
<1>3. CASE SetApproval(r)
  <2>1. change \in Decisions /\ change \notin Roles /\ change # "DISABLE"
    BY <1>3, RoleAssumption DEF SetApproval, Decisions
  <2>2. Replaceable(change, t)
    BY <2>1 DEF Replaceable
  <2> QED BY <1>1, <1>2, <1>3, <2>1, <2>2, ChooseStep DEF SetApproval
<1>4. CASE SetAccess(r)
  <2>1. change \notin Roles /\ change \notin Decisions /\ "NOTHING" \notin Roles \cup Decisions
    BY <1>4, RoleAssumption DEF SetAccess, Accesses, Decisions
  <2>2. Replaceable(change, t) /\ Replaceable("NOTHING", t)
    BY <2>1 DEF Replaceable
  <2>3. CASE Choose(r, "NOTHING")
    BY <1>1, <1>2, <1>4, <2>1, <2>2, <2>3, ChooseStep DEF SetAccess
  <2>4. CASE Choose(r, change) /\ ~(change = "DISABLE" /\ EnabledSuperAdmin(t))
    BY <1>1, <1>2, <1>4, <2>1, <2>2, <2>4, ChooseStep DEF SetAccess
  <2> QED BY <1>4, <2>3, <2>4 DEF SetAccess
<1>5. CASE SetRole(r)
  <2>1. req[r].role = "SUPER_ADMIN"
    BY <1>5 DEF SetRole, Ind, RequestsAgree, RequestAgrees, Administering
  <2>2. change \in Roles /\ change \notin Decisions /\ change # "DISABLE"
    BY <1>5, RoleAssumption DEF SetRole, Decisions
  <2>3. Replaceable(change, t)
    BY <1>5 DEF SetRole, Replaceable
  <2> QED BY <1>1, <1>5, <2>1, <2>2, <2>3, ChooseStep DEF SetRole
<1> QED BY <1>3, <1>4, <1>5

LEMMA WriteStep == ASSUME Ind, NEW r \in Requests, Write(r) PROVE Ind'
<1> DEFINE t == req[r].target
           row == Patched(user[t], req[r].patch)
<1>1. t \in Users /\ Exists(t) /\ lock = r
  BY DEF Write, Ind, LockHeld, RequestsAgree, RequestAgrees
<1>2. user[t] \in Row /\ user[t].role # "NONE" /\ req[r].patch \in Patches
  BY <1>1 DEF Exists, Ind, TypeOK, Request
<1>3. row \in Row /\ row.role # "NONE" /\ row.revision = user[t].revision + 1
  BY <1>2, PatchedRow
<1>4. row.revision > user[t].revision
  BY <1>2, <1>3 DEF Row
<1>5. user' = [user EXCEPT ![t] = row] /\ req' = [req EXCEPT ![r] = IdleRequest] /\ lock' = Nobody
  BY <1>1 DEF Write, Ind, TypeOK
<1> HIDE DEF row
<1>6. ASSUME NEW s \in Requests PROVE RequestAgrees(s)'
  <2>1. CASE s = r
    BY <1>5, <2>1, IdleAgrees DEF Ind, TypeOK
  <2>2. CASE s # r
    <3>1. req'[s] = req[s] /\ req[s].pc # "decided"
      BY <1>1, <1>5, <2>2 DEF Ind, TypeOK, LockHeld
    <3> QED BY <1>1, <1>3, <1>4, <1>5, <3>1, RowChange DEF Ind, RequestsAgree
  <2> QED BY <2>1, <2>2
<1>7. LockHeld'
  BY <1>1, <1>5, NobodyAssumption DEF LockHeld, Ind, TypeOK, IdleRequest
<1>8. TypeOK'
  BY <1>1, <1>3, <1>5, IdleType DEF Write, Ind, TypeOK
<1> QED BY <1>6, <1>7, <1>8 DEF Ind, RequestsAgree

LEMMA UpdateLocaleStep == ASSUME Ind, NEW r \in Requests, UpdateLocale(r) PROVE Ind'
<1> DEFINE t == req[r].target
           row == [user[t] EXCEPT !.revision = @ + 1]
<1>1. t \in Users /\ Exists(t)
  BY DEF UpdateLocale, Ind, RequestsAgree, RequestAgrees
<1>2. /\ row \in Row /\ row.role = user[t].role /\ row.disabled = user[t].disabled
      /\ row.revision > user[t].revision
  BY <1>1 DEF Ind, TypeOK, Row
<1>3. row.role # "NONE"
  BY <1>1, <1>2 DEF Exists
<1>4. user' = [user EXCEPT ![t] = row] /\ req' = [req EXCEPT ![r] = IdleRequest] /\ UNCHANGED <<lock, operator>>
  BY DEF UpdateLocale
<1> HIDE DEF row
<1>5. ASSUME NEW s \in Requests PROVE RequestAgrees(s)'
  <2>1. CASE s = r
    BY <1>4, <2>1, IdleAgrees DEF Ind, TypeOK
  <2>2. CASE s # r
    <3>1. req'[s] = req[s]
      BY <1>4, <2>2 DEF Ind, TypeOK
    <3> QED BY <1>1, <1>2, <1>3, <1>4, <3>1, RowChange DEF Ind, RequestsAgree
  <2> QED BY <2>1, <2>2
<1>6. LockHeld'
  BY <1>4 DEF UpdateLocale, LockHeld, Ind, TypeOK, IdleRequest
<1>7. TypeOK'
  BY <1>1, <1>2, <1>4, IdleType DEF Ind, TypeOK
<1> QED BY <1>5, <1>6, <1>7 DEF Ind, RequestsAgree

LEMMA AbortStep == ASSUME Ind, NEW r \in Requests, Abort(r) PROVE Ind'
<1>1. req' = [req EXCEPT ![r] = IdleRequest] /\ UNCHANGED <<user, operator>>
  BY DEF Abort
<1>2. lock' \in Requests \cup {Nobody}
  BY DEF Abort, Ind, TypeOK
<1>3. LockHeld'
  BY <1>1, NobodyAssumption DEF Abort, LockHeld, Ind, TypeOK, IdleRequest
<1>4. RequestAgrees(r)'
  BY <1>1, IdleAgrees DEF Ind, TypeOK
<1> QED BY <1>1, <1>2, <1>3, <1>4, IdleType, RequestStays

LEMMA StepLemma == ASSUME Ind, [Next]_vars PROVE Ind'
<1>1. CASE UNCHANGED vars
  <2>1. RequestsAgree'
    BY <1>1, NoRowChange DEF Ind, RequestsAgree, vars
  <2> QED BY <1>1, <2>1 DEF Ind, TypeOK, LockHeld, vars
<1>2. CASE \E u \in Users : Register(u)
  BY <1>2, RegisterStep
<1>3. CASE \E o \in Operators : BootstrapCheck(o) \/ BootstrapCreate(o) \/ BootstrapEnds(o)
  BY <1>3, BootstrapStep
<1>4. CASE \E r \in Requests : RequestStep(r)
  <2>1. PICK r \in Requests : RequestStep(r)
    BY <1>4
  <2> QED BY <2>1, EnterLocaleStep, UpdateLocaleStep, SendStep, EnterStep, LockStep, DecideStep, WriteStep, AbortStep
          DEF RequestStep
<1> QED BY <1>1, <1>2, <1>3, <1>4 DEF Next

LEMMA InitInd == ASSUME Init PROVE Ind
<1>1. TypeOK
  BY NewRows, IdleType DEF Init, TypeOK
<1>2. LockHeld
  BY NobodyAssumption DEF Init, LockHeld, IdleRequest
<1>3. RequestsAgree
  BY DEF Init, RequestsAgree, RequestAgrees, IdleRequest, Administering
<1> QED BY <1>1, <1>2, <1>3 DEF Ind

\* The invariant that the update of a decided request rests on.
THEOREM IndInvariant == Spec => []Ind
BY InitInd, StepLemma, PTL DEF Spec

THEOREM TypeCorrect == Spec => []TypeOK
<1>1. Ind => TypeOK
  BY DEF Ind
<1> QED BY <1>1, IndInvariant, PTL

----------------------------------------------------------------------------
(* What a step does to the rows.                                           *)

\* Rows appear, change their revision, or change by the write of a decided request.
LEMMA RowSteps ==
  ASSUME Ind, [Next]_vars
  PROVE  \/ user' = user
         \/ \E u \in Users : ~Exists(u) /\ \A v \in Users \ {u} : user'[v] = user[v]
         \/ \E r \in Requests : UpdateLocale(r)
         \/ \E r \in Requests : Write(r)
<1>1. CASE \E u \in Users : Register(u)
  BY <1>1 DEF Register, Ind, TypeOK
<1>2. CASE \E o \in Operators : BootstrapCreate(o)
  BY <1>2 DEF BootstrapCreate, Ind, TypeOK
<1>3. CASE \E o \in Operators : BootstrapCheck(o) \/ BootstrapEnds(o)
  BY <1>3 DEF BootstrapCheck, BootstrapEnds
<1>4. ASSUME NEW r \in Requests, RequestStep(r) PROVE user' = user \/ UpdateLocale(r) \/ Write(r)
  BY <1>4 DEF RequestStep, EnterLocale, Send, Enter, Lock, SetApproval, SetAccess, SetRole, Choose, Abort
<1>5. CASE UNCHANGED vars
  BY <1>5 DEF vars
<1> QED BY <1>1, <1>2, <1>3, <1>4, <1>5 DEF Next

\* Only the write of a request lands its change.
LEMMA LandsByWrite ==
  ASSUME Ind, [Next]_vars, NEW r \in Requests, Lands(r)
  PROVE  Write(r)
<1>1. user' # user /\ req[r].pc = "decided" /\ req'[r].pc = "idle"
  BY DEF Lands
<1>2. CASE \E u \in Users : Register(u)
  BY <1>1, <1>2 DEF Register
<1>3. CASE \E o \in Operators : BootstrapCheck(o) \/ BootstrapCreate(o) \/ BootstrapEnds(o)
  BY <1>1, <1>3 DEF BootstrapCheck, BootstrapCreate, BootstrapEnds
<1>4. ASSUME NEW s \in Requests, RequestStep(s) PROVE Write(r)
  <2>1. UpdateLocale(s) \/ Write(s)
    BY <1>1, <1>4 DEF RequestStep, EnterLocale, Send, Enter, Lock, SetApproval, SetAccess, SetRole, Choose, Abort
  <2>2. s = r
    BY <1>1, <2>1 DEF UpdateLocale, Write, Ind, TypeOK
  <2> QED BY <1>1, <2>1, <2>2 DEF UpdateLocale
<1>5. CASE UNCHANGED vars
  BY <1>1, <1>5 DEF vars
<1> QED BY <1>2, <1>3, <1>4, <1>5 DEF Next

\* An ADMIN's change lands on an account that is a USER and stays one.
THEOREM AdminsManageUsers == Spec => AdminManagesOnlyUsers
<1>1. ASSUME Ind, [Next]_vars, NEW r \in Requests, Lands(r), req[r].role = "ADMIN"
      PROVE  user[req[r].target].role = "USER" /\ user'[req[r].target].role = "USER"
  <2>1. Write(r)
    BY <1>1, LandsByWrite
  <2>2. req[r].target \in Users /\ RequestAgrees(r) /\ req[r].pc = "decided" /\ req[r].patch \in Patches
    BY <1>1, <2>1 DEF Write, Ind, RequestsAgree, RequestAgrees, TypeOK, Request
  <2>3. user[req[r].target].role = "USER" /\ req[r].patch \notin Roles
    BY <1>1, <2>2, RoleAssumption DEF RequestAgrees, Administering
  <2>4. user'[req[r].target] = Patched(user[req[r].target], req[r].patch)
    BY <1>1, <2>1, <2>2 DEF Write, Ind, TypeOK
  <2> QED BY <2>3, <2>4 DEF Patched
<1>2. Ind /\ [Next]_vars => [\A r \in Requests :
         Lands(r) /\ req[r].role = "ADMIN" =>
           LET t == req[r].target IN user[t].role = "USER" /\ user'[t].role = "USER"]_vars
  BY <1>1
<1> QED BY <1>2, IndInvariant, PTL DEF Spec, AdminManagesOnlyUsers

\* A change lands on the row the administrator saw, which is the row its audit
\* event calls before.
THEOREM NoUpdateLost == Spec => NoLostUpdate
<1>1. ASSUME Ind, [Next]_vars, NEW r \in Requests, Lands(r)
      PROVE  /\ AccessOf(user[req[r].target]) = req[r].seen
             /\ AccessOf(user[req[r].target]) = AuditEvent(r).before
  <2>1. Write(r)
    BY <1>1, LandsByWrite
  <2>2. req[r].target \in Users /\ RequestAgrees(r) /\ req[r].pc = "decided" /\ req[r] \in Request
    BY <1>1, <2>1 DEF Write, Ind, RequestsAgree, RequestAgrees, TypeOK
  <2>3. /\ user[req[r].target].revision \in Nat /\ req[r].seen.revision \in Nat
        /\ req[r].before.revision \in Nat
    BY <1>1, <2>2 DEF Ind, TypeOK, Row, Request, View
  <2>4. /\ user[req[r].target].revision = req[r].seen.revision
        /\ Earlier(req[r].seen, req[r].target) /\ Earlier(req[r].before, req[r].target)
        /\ req[r].seen.revision <= req[r].before.revision
    BY <2>1, <2>2 DEF Write, RevisionCurrent, RequestAgrees, Administering
  <2>5. req[r].before.revision = user[req[r].target].revision
    BY <2>3, <2>4 DEF Earlier
  <2>6. AuditEvent(r).before = req[r].before
    BY DEF AuditEvent
  <2> QED BY <2>4, <2>5, <2>6 DEF Earlier
<1>2. Ind /\ [Next]_vars => [\A r \in Requests :
         Lands(r) => LET row == AccessOf(user[req[r].target]) IN
           row = req[r].seen /\ row = AuditEvent(r).before]_vars
  BY <1>1
<1> QED BY <1>2, IndInvariant, PTL DEF Spec, NoLostUpdate

\* An update that changes what an account may do also ends its sessions.
LEMMA PatchEndsSessions ==
  ASSUME NEW row \in Row, NEW p \in Patches, "NOTHING" \notin Changes,
         [AccessOf(Patched(row, p)) EXCEPT !.revision = 0] # [AccessOf(row) EXCEPT !.revision = 0]
  PROVE  Patched(row, p).authVersion > row.authVersion
<1> DEFINE new == Patched(row, p)
<1>1. p # "NOTHING"
  <2>1. SUFFICES ASSUME p = "NOTHING" PROVE FALSE
    OBVIOUS
  <2>2. p \notin Roles /\ p \notin Decisions /\ p \notin Accesses
    BY <2>1 DEF Changes
  <2>3. new.role = row.role /\ new.approval = row.approval /\ new.disabled = row.disabled
    BY <2>2 DEF Patched
  <2> HIDE DEF new
  <2>4. AccessOf(new) = [role |-> row.role, approval |-> row.approval, disabled |-> row.disabled,
                         revision |-> new.revision]
    BY <2>3 DEF AccessOf
  <2>5. [AccessOf(new) EXCEPT !.revision = 0] = [AccessOf(row) EXCEPT !.revision = 0]
    BY <2>4 DEF AccessOf
  <2> QED BY <2>5 DEF new
<1>2. new.authVersion = row.authVersion + 1
  BY <1>1 DEF Patched
<1>3. row.authVersion \in Nat
  BY DEF Row
<1> QED BY <1>2, <1>3

\* Sessions of an account end with every change of its role, approval or access.
THEOREM SessionsEndWithChanges == Spec => ChangesEndSessions
<1>0. "NOTHING" \notin Changes
  BY RoleAssumption DEF Changes, Decisions, Accesses
<1>1. ASSUME Ind, [Next]_vars, NEW u \in Users, Exists(u),
             [AccessOf(user'[u]) EXCEPT !.revision = 0] # [AccessOf(user[u]) EXCEPT !.revision = 0]
      PROVE  user'[u].authVersion > user[u].authVersion
  <2>1. CASE user' = user
    BY <1>1, <2>1
  <2>2. CASE \E v \in Users : ~Exists(v) /\ \A w \in Users \ {v} : user'[w] = user[w]
    <3>1. user'[u] = user[u]
      BY <1>1, <2>2
    <3> QED BY <1>1, <3>1
  <2>3. CASE \E r \in Requests : UpdateLocale(r)
    <3>1. /\ user'[u].role = user[u].role /\ user'[u].approval = user[u].approval
          /\ user'[u].disabled = user[u].disabled
      BY <1>1, <2>3 DEF UpdateLocale, Ind, TypeOK, Row
    <3>2. [AccessOf(user'[u]) EXCEPT !.revision = 0] = [AccessOf(user[u]) EXCEPT !.revision = 0]
      BY <3>1 DEF AccessOf
    <3> QED BY <1>1, <3>2
  <2>4. CASE \E r \in Requests : Write(r)
    <3>1. PICK r \in Requests : Write(r)
      BY <2>4
    <3>2. req[r].target \in Users /\ req[r].patch \in Patches
      BY <1>1, <3>1 DEF Write, Ind, RequestsAgree, RequestAgrees, TypeOK, Request
    <3>3. CASE u # req[r].target
      <4>1. user'[u] = user[u]
        BY <1>1, <3>1, <3>3 DEF Write, Ind, TypeOK
      <4> QED BY <1>1, <4>1
    <3>4. CASE u = req[r].target
      <4>1. user'[u] = Patched(user[u], req[r].patch) /\ user[u] \in Row
        BY <1>1, <3>1, <3>4 DEF Write, Ind, TypeOK
      <4> QED BY <1>0, <1>1, <3>2, <4>1, PatchEndsSessions
    <3> QED BY <3>3, <3>4
  <2> QED BY <1>1, <2>1, <2>2, <2>3, <2>4, RowSteps
<1>2. Ind /\ [Next]_vars => [\A u \in Users :
         Exists(u) /\ [AccessOf(user'[u]) EXCEPT !.revision = 0] # [AccessOf(user[u]) EXCEPT !.revision = 0] =>
           user'[u].authVersion > user[u].authVersion]_vars
  BY <1>1
<1> QED BY <1>2, IndInvariant, PTL DEF Spec, ChangesEndSessions

----------------------------------------------------------------------------
(* The refinement of Governance.                                           *)

\* The row after an update, by the kind of patch.
LEMMA PatchedColumns ==
  ASSUME NEW row \in Row, NEW p \in Patches
  PROVE  /\ p \in Decisions => Patched(row, p) =
              [role |-> row.role, approval |-> p, disabled |-> row.disabled,
               authVersion |-> row.authVersion + 1, revision |-> row.revision + 1]
         /\ p \in Accesses => Patched(row, p) =
              [role |-> row.role, approval |-> row.approval, disabled |-> (p = "DISABLE"),
               authVersion |-> row.authVersion + 1, revision |-> row.revision + 1]
         /\ p \in Roles => Patched(row, p) =
              [role |-> p, approval |-> row.approval, disabled |-> row.disabled,
               authVersion |-> row.authVersion + 1, revision |-> row.revision + 1]
         /\ p = "NOTHING" => Patched(row, p) = [row EXCEPT !.revision = @ + 1]
<1>1. /\ Decisions \cap Accesses = {} /\ Decisions \cap Roles = {} /\ Accesses \cap Roles = {}
      /\ "NOTHING" \notin Decisions \cup Accesses \cup Roles
  BY RoleAssumption DEF Decisions, Accesses
<1>2. ASSUME p = "NOTHING" PROVE Patched(row, p) = [row EXCEPT !.revision = @ + 1]
  <2>1. row = [role |-> row.role, approval |-> row.approval, disabled |-> row.disabled,
               authVersion |-> row.authVersion, revision |-> row.revision]
    BY DEF Row
  <2>2. p \notin Roles /\ p \notin Decisions /\ p \notin Accesses
    BY <1>1, <1>2
  <2>3. Patched(row, p) = [role |-> row.role, approval |-> row.approval, disabled |-> row.disabled,
                           authVersion |-> row.authVersion, revision |-> row.revision + 1]
    BY <1>2, <2>2 DEF Patched
  <2> QED BY <2>1, <2>3
<1>3. ASSUME p \in Decisions \cup Accesses \cup Roles PROVE p # "NOTHING"
  BY <1>1, <1>3
<1>4. CASE p \in Decisions
  BY <1>1, <1>3, <1>4 DEF Patched
<1>5. CASE p \in Accesses
  BY <1>1, <1>3, <1>5 DEF Patched
<1>6. CASE p \in Roles
  BY <1>1, <1>3, <1>6 DEF Patched
<1> QED BY <1>1, <1>2, <1>4, <1>5, <1>6 DEF Patches, Changes

\* The update of a decided request is a change that the rules allow now.
LEMMA WriteIsGoverned == ASSUME Ind, NEW r \in Requests, Write(r) PROVE Governed!Next
<1> DEFINE t == req[r].target
           p == req[r].patch
<1>1. t \in Users /\ Exists(t) /\ RequestAgrees(r) /\ req[r].pc = "decided" /\ p \in Patches /\ user[t] \in Row
  BY DEF Write, Ind, RequestsAgree, RequestAgrees, TypeOK, Request
<1>2. user' = [user EXCEPT ![t] = Patched(user[t], p)]
  BY DEF Write
<1>3. CASE p \in Decisions
  <2>1. user[t].role = "USER"
    BY <1>1, <1>3 DEF RequestAgrees
  <2>2. Governed!SetApproval(t, p)
    BY <1>1, <1>2, <1>3, <2>1, PatchedColumns DEF Governed!SetApproval, Governed!Becomes
  <2> QED BY <1>1, <1>3, <2>2 DEF Governed!Next, Decisions
<1>4. CASE p \in Accesses
  <2>1. (p = "DISABLE") => ~Governed!EnabledSuperAdmin(t)
    BY <1>1 DEF RequestAgrees, EnabledSuperAdmin, Governed!EnabledSuperAdmin
  <2>2. Governed!SetAccess(t, p = "DISABLE")
    BY <1>1, <1>2, <1>4, <2>1, PatchedColumns DEF Governed!SetAccess, Governed!Becomes, Governed!Exists, Exists
  <2>3. (p = "DISABLE") \in BOOLEAN
    OBVIOUS
  <2> QED BY <1>1, <2>2, <2>3 DEF Governed!Next
<1>5. CASE p \in Roles
  <2>1. p # "SUPER_ADMIN" => Governed!Replaceable(t)
    BY <1>1, <1>5 DEF RequestAgrees, Replaceable, AnotherEnabledSuperAdmin, EnabledSuperAdmin,
                      Governed!Replaceable, Governed!EnabledSuperAdmin
  <2>2. Governed!SetRole(t, p)
    BY <1>1, <1>2, <1>5, <2>1, PatchedColumns DEF Governed!SetRole, Governed!Becomes, Governed!Exists, Exists
  <2> QED BY <1>1, <1>5, <2>2 DEF Governed!Next
<1>6. CASE p = "NOTHING"
  <2>1. Governed!Touch(t)
    BY <1>1, <1>2, <1>6, PatchedColumns DEF Governed!Touch, Governed!Exists, Exists
  <2> QED BY <1>1, <2>1 DEF Governed!Next
<1> QED BY <1>1, <1>3, <1>4, <1>5, <1>6 DEF Patches, Changes

\* A new row is that of a registration or of the bootstrap command.
LEMMA AppearIsGoverned ==
  ASSUME NEW u \in Users, ~Exists(u),
         \/ user' = [user EXCEPT ![u] = [Missing EXCEPT !.role = "USER"]]
         \/ user' = [user EXCEPT ![u] = [Missing EXCEPT !.role = "SUPER_ADMIN", !.approval = "APPROVED"]]
  PROVE  Governed!Next
<1> DEFINE applicant == [Missing EXCEPT !.role = "USER"]
           administrator == [Missing EXCEPT !.role = "SUPER_ADMIN", !.approval = "APPROVED"]
<1>1. applicant = Governed!NewAccount("USER", "PENDING")
  <2>1. /\ applicant \in Row /\ applicant.role = "USER" /\ applicant.approval = "PENDING"
        /\ ~applicant.disabled /\ applicant.authVersion = 0 /\ applicant.revision = 0
    BY NewRows DEF Missing
  <2> HIDE DEF applicant
  <2>2. applicant \in [role : {"USER"}, approval : {"PENDING"}, disabled : {FALSE}, authVersion : {0}, revision : {0}]
    BY <2>1 DEF Row
  <2> QED BY <2>2 DEF Governed!NewAccount
<1>2. administrator = Governed!NewAccount("SUPER_ADMIN", "APPROVED")
  <2>1. /\ administrator \in Row /\ administrator.role = "SUPER_ADMIN" /\ administrator.approval = "APPROVED"
        /\ ~administrator.disabled /\ administrator.authVersion = 0 /\ administrator.revision = 0
    BY NewRows DEF Missing
  <2> HIDE DEF administrator
  <2>2. administrator \in
          [role : {"SUPER_ADMIN"}, approval : {"APPROVED"}, disabled : {FALSE}, authVersion : {0}, revision : {0}]
    BY <2>1 DEF Row
  <2> QED BY <2>2 DEF Governed!NewAccount
<1>3. Governed!Appear(u)
  BY <1>1, <1>2 DEF Governed!Appear, Governed!Exists, Exists
<1> QED BY <1>3 DEF Governed!Next

LEMMA StepIsGoverned == ASSUME Ind, [Next]_vars PROVE [Governed!Next]_user
<1>1. ASSUME NEW u \in Users, Register(u) PROVE Governed!Next
  BY <1>1, AppearIsGoverned DEF Register
<1>2. ASSUME NEW o \in Operators, BootstrapCreate(o) PROVE Governed!Next
  BY <1>2, AppearIsGoverned DEF BootstrapCreate
<1>3. ASSUME NEW r \in Requests, UpdateLocale(r) PROVE Governed!Next
  <2>1. req[r].target \in Users /\ Exists(req[r].target)
    BY <1>3 DEF UpdateLocale, Ind, RequestsAgree, RequestAgrees
  <2>2. Governed!Touch(req[r].target)
    BY <1>3, <2>1 DEF UpdateLocale, Governed!Touch, Governed!Exists, Exists
  <2> QED BY <2>1, <2>2 DEF Governed!Next
<1>4. ASSUME NEW r \in Requests, RequestStep(r) PROVE user' = user \/ UpdateLocale(r) \/ Write(r)
  BY <1>4 DEF RequestStep, EnterLocale, Send, Enter, Lock, SetApproval, SetAccess, SetRole, Choose, Abort
<1>5. ASSUME NEW o \in Operators, BootstrapCheck(o) \/ BootstrapEnds(o) PROVE user' = user
  BY <1>5 DEF BootstrapCheck, BootstrapEnds
<1>6. CASE UNCHANGED vars
  BY <1>6 DEF vars
<1> QED BY <1>1, <1>2, <1>3, <1>4, <1>5, <1>6, WriteIsGoverned DEF Next

\* Every committed change is one the rules allow on the accounts as they are.
THEOREM ChangesAreGoverned == Spec => ImplementsGovernance
<1>1. Init => Governed!Init
  BY DEF Init, Missing, Governed!Init, Governed!NewAccount
<1>2. Ind /\ [Next]_vars => [Governed!Next]_user
  BY StepIsGoverned
<1> QED BY <1>1, <1>2, IndInvariant, PTL DEF Spec, ImplementsGovernance, Governed!Spec

\* A rule that takes an enabled SUPER_ADMIN away leaves another; no decision touches one.
LEMMA SuperAdminStays ==
  ASSUME TypeOK, [Governed!Next]_user, NEW w \in Users, EnabledSuperAdmin(w)
  PROVE  \/ EnabledSuperAdmin(w)' /\ user'[w].approval = user[w].approval
         \/ \E v \in Users \ {w} : EnabledSuperAdmin(v) /\ user'[v] = user[v]
<1> DEFINE Goal == \/ EnabledSuperAdmin(w)' /\ user'[w].approval = user[w].approval
                   \/ \E v \in Users \ {w} : EnabledSuperAdmin(v) /\ user'[v] = user[v]
<1>1. user \in [Users -> Row] /\ user[w] \in Row /\ user[w].role = "SUPER_ADMIN" /\ ~user[w].disabled
  BY DEF TypeOK, EnabledSuperAdmin
<1>2. CASE user'[w] = user[w]
  BY <1>2 DEF EnabledSuperAdmin
<1>3. ASSUME NEW u \in Users, Governed!Appear(u) PROVE Goal
  BY <1>1, <1>2, <1>3 DEF Governed!Appear, Governed!Exists
<1>4. ASSUME NEW u \in Users, Governed!Touch(u) PROVE Goal
  BY <1>1, <1>4 DEF Governed!Touch, EnabledSuperAdmin, Row
<1>5. ASSUME NEW u \in Users, NEW approval, Governed!SetApproval(u, approval) PROVE Goal
  BY <1>1, <1>2, <1>5 DEF Governed!SetApproval, Governed!Becomes
<1>6. ASSUME NEW u \in Users, NEW disabled \in BOOLEAN, Governed!SetAccess(u, disabled) PROVE Goal
  <2>1. CASE u # w
    BY <1>1, <1>2, <1>6, <2>1 DEF Governed!SetAccess, Governed!Becomes
  <2>2. CASE u = w
    <3>1. ~disabled
      BY <1>1, <1>6, <2>2 DEF Governed!SetAccess, Governed!EnabledSuperAdmin
    <3>2. user'[w].role = user[w].role /\ user'[w].approval = user[w].approval /\ user'[w].disabled = disabled
      BY <1>1, <1>6, <2>2 DEF Governed!SetAccess, Governed!Becomes
    <3> QED BY <1>1, <3>1, <3>2 DEF EnabledSuperAdmin
  <2> QED BY <2>1, <2>2
<1>7. ASSUME NEW u \in Users, NEW role \in Roles, Governed!SetRole(u, role) PROVE Goal
  <2>1. CASE u # w
    BY <1>1, <1>2, <1>7, <2>1 DEF Governed!SetRole, Governed!Becomes
  <2>2. CASE u = w /\ role = "SUPER_ADMIN"
    BY <1>1, <1>7, <2>2 DEF Governed!SetRole, Governed!Becomes, EnabledSuperAdmin
  <2>3. CASE u = w /\ role # "SUPER_ADMIN"
    <3>1. PICK v \in Users \ {w} : Governed!EnabledSuperAdmin(v)
      BY <1>1, <1>7, <2>3 DEF Governed!SetRole, Governed!Replaceable, Governed!EnabledSuperAdmin
    <3>2. user'[v] = user[v]
      BY <1>1, <1>7, <2>3, <3>1 DEF Governed!SetRole, Governed!Becomes
    <3> QED BY <3>1, <3>2 DEF EnabledSuperAdmin, Governed!EnabledSuperAdmin
  <2> QED BY <2>1, <2>2, <2>3
<1> QED BY <1>2, <1>3, <1>4, <1>5, <1>6, <1>7 DEF Governed!Next

\* However demotions and disabling interleave, an enabled SUPER_ADMIN remains.
THEOREM AnAdministratorRemains == Spec => SuperAdminRemains
<1>1. ASSUME Ind, [Next]_vars PROVE [HasSuperAdmin => HasSuperAdmin']_vars
  BY <1>1, StepIsGoverned, SuperAdminStays DEF HasSuperAdmin, EnabledSuperAdmin, Ind
<1> QED BY <1>1, IndInvariant, PTL DEF Spec, SuperAdminRemains

\* And one that can sign in, unless an account that is not approved was made one.
THEOREM AnAdministratorCanSignIn == Spec => UsableAdminRemains
<1>1. ASSUME Ind, [Next]_vars,
             \A u \in Users : user[u].role = "SUPER_ADMIN" => user[u].approval = "APPROVED",
             \E u \in Users : UsableSuperAdmin(u)
      PROVE  \E u \in Users : UsableSuperAdmin(u)'
  <2>1. PICK w \in Users : EnabledSuperAdmin(w) /\ user[w].approval = "APPROVED"
    BY <1>1 DEF UsableSuperAdmin, SignedIn, EnabledSuperAdmin
  <2>2. CASE EnabledSuperAdmin(w)' /\ user'[w].approval = user[w].approval
    BY <2>1, <2>2 DEF UsableSuperAdmin, SignedIn, EnabledSuperAdmin, Exists
  <2>3. CASE \E v \in Users \ {w} : EnabledSuperAdmin(v) /\ user'[v] = user[v]
    BY <1>1, <2>3 DEF UsableSuperAdmin, SignedIn, EnabledSuperAdmin, Exists
  <2> QED BY <1>1, <2>1, <2>2, <2>3, StepIsGoverned, SuperAdminStays DEF Ind
<1>2. Ind /\ [Next]_vars => [
         (\A u \in Users : user[u].role = "SUPER_ADMIN" => user[u].approval = "APPROVED")
         /\ (\E u \in Users : UsableSuperAdmin(u))
         => (\E u \in Users : UsableSuperAdmin(u)')]_vars
  BY <1>1
<1> QED BY <1>2, IndInvariant, PTL DEF Spec, UsableAdminRemains

\* A rule applied to an account changes who may use it only with the version.
LEMMA RowAccess ==
  ASSUME TypeOK, [Governed!Next]_user
  PROVE  \/ user' = user
         \/ \E u \in Users :
              /\ \A v \in Users \ {u} : user'[v] = user[v]
              /\ \/ ~Exists(u) /\ Exists(u)' /\ user'[u].authVersion = 0
                 \/ Exists(u) /\ Exists(u)' /\ user'[u].authVersion = user[u].authVersion + 1
                 \/ /\ Exists(u) /\ user'[u].role = user[u].role /\ user'[u].approval = user[u].approval
                    /\ user'[u].disabled = user[u].disabled /\ user'[u].authVersion = user[u].authVersion
<1> DEFINE Goal(u) ==
      /\ \A v \in Users \ {u} : user'[v] = user[v]
      /\ \/ ~Exists(u) /\ Exists(u)' /\ user'[u].authVersion = 0
         \/ Exists(u) /\ Exists(u)' /\ user'[u].authVersion = user[u].authVersion + 1
         \/ /\ Exists(u) /\ user'[u].role = user[u].role /\ user'[u].approval = user[u].approval
            /\ user'[u].disabled = user[u].disabled /\ user'[u].authVersion = user[u].authVersion
<1>1. user \in [Users -> Row]
  BY DEF TypeOK
<1>2. ASSUME NEW u \in Users, Governed!Appear(u) PROVE Goal(u)
  BY <1>1, <1>2 DEF Governed!Appear, Governed!Exists, Governed!NewAccount, Exists
<1>3. ASSUME NEW u \in Users, Governed!Touch(u) PROVE Goal(u)
  BY <1>1, <1>3 DEF Governed!Touch, Governed!Exists, Exists, Row
<1>4. ASSUME NEW u \in Users, NEW approval, Governed!SetApproval(u, approval) PROVE Goal(u)
  BY <1>1, <1>4 DEF Governed!SetApproval, Governed!Becomes, Exists
<1>5. ASSUME NEW u \in Users, NEW disabled \in BOOLEAN, Governed!SetAccess(u, disabled) PROVE Goal(u)
  BY <1>1, <1>5 DEF Governed!SetAccess, Governed!Becomes, Governed!Exists, Exists
<1>6. ASSUME NEW u \in Users, NEW role \in Roles, Governed!SetRole(u, role) PROVE Goal(u)
  BY <1>1, <1>6, RoleAssumption DEF Governed!SetRole, Governed!Becomes, Governed!Exists, Exists
<1> QED BY <1>2, <1>3, <1>4, <1>5, <1>6 DEF Governed!Next

\* Seen by sessions and logins an account appears, changes with its version, or stays.
LEMMA StepKeepsVersion == ASSUME Ind, [Next]_vars PROVE [Accounts!Next]_Access
<1>1. CASE user' = user
  BY <1>1 DEF Access, Exists, SignedIn
<1>2. ASSUME NEW u \in Users, \A v \in Users \ {u} : user'[v] = user[v]
      PROVE  \A v \in Users \ {u} : Access'[v] = Access[v]
  BY <1>2 DEF Access, Exists, SignedIn
<1>3. \A u \in Users : /\ Access[u].exists = Exists(u) /\ Access[u].version = user[u].authVersion
                       /\ Access[u].open = SignedIn(u) /\ Access[u].password = 0
  BY DEF Access
<1>4. ASSUME NEW u \in Users, \A v \in Users \ {u} : user'[v] = user[v],
             ~Exists(u), Exists(u)', user'[u].authVersion = 0
      PROVE  Accounts!Next
  <2>1. SignedIn(u)' \in BOOLEAN
    BY DEF SignedIn, Exists
  <2>2. Access' = [Access EXCEPT ![u] = Accounts!NewAccount(SignedIn(u)')]
    BY <1>2, <1>4 DEF Access, Accounts!NewAccount
  <2> QED BY <1>3, <1>4, <2>1, <2>2 DEF Accounts!Next, Accounts!Appear
<1>5. ASSUME NEW u \in Users, \A v \in Users \ {u} : user'[v] = user[v],
             Exists(u), Exists(u)', user'[u].authVersion = user[u].authVersion + 1
      PROVE  Accounts!Next
  <2>1. SignedIn(u)' \in BOOLEAN
    BY DEF SignedIn, Exists
  <2>2. Access' = [Access EXCEPT ![u].open = SignedIn(u)', ![u].version = @ + 1]
    BY <1>2, <1>5 DEF Access
  <2> QED BY <1>3, <1>5, <2>1, <2>2 DEF Accounts!Next, Accounts!Change
<1>6. ASSUME NEW u \in Users, \A v \in Users \ {u} : user'[v] = user[v], Exists(u),
             user'[u].role = user[u].role, user'[u].approval = user[u].approval,
             user'[u].disabled = user[u].disabled, user'[u].authVersion = user[u].authVersion
      PROVE  Access' = Access
  BY <1>2, <1>6 DEF Access, Exists, SignedIn
<1> QED BY <1>1, <1>4, <1>5, <1>6, StepIsGoverned, RowAccess DEF Ind

\* Whoever knows an account's version knows whether it is open.
THEOREM AccountsKeepVersion == Spec => ImplementsAccess
<1>1. Init => Accounts!Init
  <2>1. ASSUME Init, NEW u \in Users PROVE Access[u] = Accounts!NoAccount
    <3>1. /\ Exists(u) = FALSE /\ SignedIn(u) = FALSE /\ user[u].authVersion = 0
      BY <2>1 DEF Init, Missing, Exists, SignedIn
    <3> QED BY <3>1 DEF Access, Accounts!NoAccount
  <2> QED BY <2>1 DEF Access, Accounts!Init
<1>2. Ind /\ [Next]_vars => [Accounts!Next]_Access
  BY StepKeepsVersion
<1> QED BY <1>1, <1>2, IndInvariant, PTL DEF Spec, ImplementsAccess, Accounts!Spec

============================================================================
