--------------------------- MODULE UserManagement --------------------------
(***************************************************************************)
(* Accounts and who may change them: registration, the operator's          *)
(* bootstrap command, and the transactions of UserManagementService that   *)
(* approve, disable and re-role accounts under the GovernanceLock row.     *)
(*                                                                         *)
(* An administrator looks at an account and sends a change with the        *)
(* revision it saw; the API checks the administrator's own account and     *)
(* only then opens the transaction.  Every statement of the transaction up *)
(* to the update is a step; the update holds the row until the commit.     *)
(***************************************************************************)
EXTENDS Integers

CONSTANTS
  Users,         \* accounts, by normalized email
  Requests,      \* administrators' forms, each with one change in flight
  Operators,     \* shells in which the bootstrap command may run
  Roles,         \* bound: the roles that occur
  MaxRevision,   \* bound: the revision at which an account is left alone
  Nobody         \* holder of the free lock, actor and target of no request

ASSUME RoleAssumption ==
  {"SUPER_ADMIN", "USER"} \subseteq Roles /\ Roles \subseteq {"SUPER_ADMIN", "ADMIN", "PRODUCT_MANAGER", "USER"}
ASSUME NobodyAssumption == Nobody \notin Requests /\ Nobody \notin Users
ASSUME RevisionAssumption == MaxRevision \in Nat

VARIABLES
  user,      \* User rows
  lock,      \* the transaction that holds the GovernanceLock row
  req,       \* changes in flight
  operator   \* bootstrap commands

vars == <<user, lock, req, operator>>

Approvals == {"PENDING", "APPROVED", "REJECTED"}
Decisions == {"APPROVED", "REJECTED"}
Accesses == {"DISABLE", "ENABLE"}
Changes == Decisions \cup Accesses \cup Roles      \* the body of a request
Patches == Changes \cup {"NOTHING"}                 \* the columns an update sets

Row == [role : Roles \cup {"NONE"}, approval : Approvals, disabled : BOOLEAN,
        authVersion : Nat, revision : Nat]
Missing == [role |-> "NONE", approval |-> "PENDING", disabled |-> FALSE, authVersion |-> 0, revision |-> 0]

\* What the administrator decides on and the audit event records.
AccessOf(row) == [role |-> row.role, approval |-> row.approval, disabled |-> row.disabled,
                  revision |-> row.revision]
View == [role : Roles \cup {"NONE"}, approval : Approvals, disabled : BOOLEAN, revision : Nat]
NoView == AccessOf(Missing)

\* seen is the account as the form showed it, before as the transaction read it.
Request == [pc : {"idle", "saving", "sent", "entered", "locked", "decided"}, actor : Users \cup {Nobody},
            role : Roles \cup {"NONE"}, change : Patches, target : Users \cup {Nobody},
            seen : View, before : View, patch : Patches]
IdleRequest == [pc |-> "idle", actor |-> Nobody, role |-> "NONE", change |-> "NOTHING", target |-> Nobody,
                seen |-> NoView, before |-> NoView, patch |-> "NOTHING"]

TypeOK ==
  /\ user \in [Users -> Row]
  /\ lock \in Requests \cup {Nobody}
  /\ req \in [Requests -> Request]
  /\ operator \in [Operators -> {"idle", "creating"}]

Init ==
  /\ user = [u \in Users |-> Missing]
  /\ lock = Nobody
  /\ req = [r \in Requests |-> IdleRequest]
  /\ operator = [o \in Operators |-> "idle"]

Exists(u) == user[u].role # "NONE"
SignedIn(u) == Exists(u) /\ user[u].approval = "APPROVED" /\ ~user[u].disabled
EnabledSuperAdmin(u) == user[u].role = "SUPER_ADMIN" /\ ~user[u].disabled
HasSuperAdmin == \E u \in Users : EnabledSuperAdmin(u)

(* Faulty variants, never part of Next: put in place of the definition     *)
(* they resemble, each must make TLC refute a property.                    *)

VisibleToAdmins(role, row) == role \in {"SUPER_ADMIN", "ADMIN"}    \* any target

PatchedQuietly(row, p) ==       \* no change ends older sessions
  [role        |-> IF p \in Roles THEN p ELSE row.role,
   approval    |-> IF p \in Decisions THEN p ELSE row.approval,
   disabled    |-> IF p \in Accesses THEN p = "DISABLE" ELSE row.disabled,
   authVersion |-> row.authVersion,
   revision    |-> row.revision + 1]

LockShared(r) ==                \* no GovernanceLock
  /\ req[r].pc = "entered"
  /\ lock' = r
  /\ req' = [req EXCEPT ![r].pc = "locked"]
  /\ UNCHANGED <<user, operator>>

RevisionCurrentAlways(r) == TRUE    \* the update names only the id

AnySuperAdmin(u) == HasSuperAdmin   \* the count includes the account itself

----------------------------------------------------------------------------
AnotherEnabledSuperAdmin(u) == \E v \in Users \ {u} : EnabledSuperAdmin(v)

\* The row after an update with patch p.
Patched(row, p) ==
  [role        |-> IF p \in Roles THEN p ELSE row.role,
   approval    |-> IF p \in Decisions THEN p ELSE row.approval,
   disabled    |-> IF p \in Accesses THEN p = "DISABLE" ELSE row.disabled,
   authVersion |-> IF p = "NOTHING" THEN row.authVersion ELSE row.authVersion + 1,
   revision    |-> row.revision + 1]

\* assertVisible
Visible(role, row) == role = "SUPER_ADMIN" \/ (role = "ADMIN" /\ row.role = "USER")

----------------------------------------------------------------------------
(* Accounts appear.                                                        *)

\* RegistrationService.register; the unique email decides between two of them.
Register(u) ==
  /\ ~Exists(u)
  /\ user' = [user EXCEPT ![u] = [Missing EXCEPT !.role = "USER"]]
  /\ UNCHANGED <<lock, req, operator>>

\* scripts/admin-bootstrap.ts looks for an administrator, hashes the password, creates one.
BootstrapCheck(o) ==
  /\ operator[o] = "idle"
  /\ ~HasSuperAdmin
  /\ operator' = [operator EXCEPT ![o] = "creating"]
  /\ UNCHANGED <<user, lock, req>>

BootstrapCreate(o) ==
  /\ operator[o] = "creating"
  /\ \E u \in Users :
       /\ ~Exists(u)
       /\ user' = [user EXCEPT ![u] = [Missing EXCEPT !.role = "SUPER_ADMIN", !.approval = "APPROVED"]]
  /\ operator' = [operator EXCEPT ![o] = "idle"]
  /\ UNCHANGED <<lock, req>>

\* The email belongs to an account, or the command is interrupted.
BootstrapEnds(o) ==
  /\ operator[o] = "creating"
  /\ operator' = [operator EXCEPT ![o] = "idle"]
  /\ UNCHANGED <<user, lock, req>>

----------------------------------------------------------------------------
(* An account changes its own language: its update is the one that takes   *)
(* neither the lock nor a revision, and its guard has looked before it.    *)

EnterLocale(r, u) ==
  /\ req[r].pc = "idle"
  /\ SignedIn(u)
  /\ req' = [req EXCEPT ![r] = [IdleRequest EXCEPT !.pc = "saving", !.target = u]]
  /\ UNCHANGED <<user, lock, operator>>

UpdateLocale(r) ==
  /\ req[r].pc = "saving"
  /\ user[req[r].target].revision < MaxRevision
  /\ user' = [user EXCEPT ![req[r].target].revision = @ + 1]
  /\ req' = [req EXCEPT ![r] = IdleRequest]
  /\ UNCHANGED <<lock, operator>>

----------------------------------------------------------------------------
(* A change of an account.                                                 *)

\* GET /users/{id}, then the form is sent with If-Match.
Send(r, a, t, change) ==
  /\ req[r].pc = "idle"
  /\ SignedIn(a) /\ Exists(t) /\ user[t].revision < MaxRevision
  /\ Visible(user[a].role, user[t])
  /\ req' = [req EXCEPT ![r] = [IdleRequest EXCEPT !.pc = "sent", !.actor = a, !.change = change,
                                  !.target = t, !.seen = AccessOf(user[t])]]
  /\ UNCHANGED <<user, lock, operator>>

\* The guard reads the actor's account; the role it saw is used from here on.
Enter(r) ==
  /\ req[r].pc = "sent"
  /\ SignedIn(req[r].actor)
  /\ req[r].change \in Roles => user[req[r].actor].role = "SUPER_ADMIN"
  /\ req' = [req EXCEPT ![r].pc = "entered", ![r].role = user[req[r].actor].role]
  /\ UNCHANGED <<user, lock, operator>>

Lock(r) ==
  /\ req[r].pc = "entered"
  /\ lock = Nobody
  /\ lock' = r
  /\ req' = [req EXCEPT ![r].pc = "locked"]
  /\ UNCHANGED <<user, operator>>

\* The target is read and its new columns chosen; the count of the remaining
\* administrators follows in the same transaction.
Choose(r, patch) ==
  /\ req' = [req EXCEPT ![r].pc = "decided", ![r].patch = patch, ![r].before = AccessOf(user[req[r].target])]
  /\ UNCHANGED <<user, lock, operator>>

SetApproval(r) ==
  LET t == req[r].target IN
  /\ req[r].pc = "locked" /\ req[r].change \in Decisions
  /\ Visible(req[r].role, user[t])
  /\ user[t].role = "USER"
  /\ Choose(r, req[r].change)

\* Disabling an enabled administrator ends in ensureAnotherEnabledSuperAdmin, whose result is no column.
SetAccess(r) ==
  LET t == req[r].target IN
  /\ req[r].pc = "locked" /\ req[r].change \in Accesses
  /\ Visible(req[r].role, user[t])
  /\ \/ /\ req[r].change = "DISABLE" /\ EnabledSuperAdmin(t)
        /\ AnotherEnabledSuperAdmin(t)
        /\ Choose(r, "NOTHING")
     \/ /\ ~(req[r].change = "DISABLE" /\ EnabledSuperAdmin(t))
        /\ Choose(r, req[r].change)

SetRole(r) ==
  LET t == req[r].target IN
  /\ req[r].pc = "locked" /\ req[r].change \in Roles
  /\ req[r].change # "SUPER_ADMIN" /\ EnabledSuperAdmin(t) => AnotherEnabledSuperAdmin(t)
  /\ Choose(r, req[r].change)

RevisionCurrent(r) == user[req[r].target].revision = req[r].seen.revision

\* The AuditEvent of the change: the row as it was read and as it is now.
AuditEvent(r) ==
  [actor |-> req[r].actor, target |-> req[r].target, change |-> req[r].change,
   before |-> req[r].before, after |-> AccessOf(Patched(user[req[r].target], req[r].patch))]

\* updateMany with the revision, the audit event and the commit.
Write(r) ==
  /\ req[r].pc = "decided"
  /\ RevisionCurrent(r)
  /\ user' = [user EXCEPT ![req[r].target] = Patched(@, req[r].patch)]
  /\ lock' = Nobody
  /\ req' = [req EXCEPT ![r] = IdleRequest]
  /\ UNCHANGED operator

\* SESSION_INVALID, FORBIDDEN, RECORD_NOT_FOUND, LAST_SUPER_ADMIN, REVISION_CONFLICT, a
\* database error or the death of the API: the transaction rolls back.
Abort(r) ==
  /\ req[r].pc # "idle"
  /\ req' = [req EXCEPT ![r] = IdleRequest]
  /\ lock' = IF lock = r THEN Nobody ELSE lock
  /\ UNCHANGED <<user, operator>>

RequestStep(r) ==
  \/ UpdateLocale(r) \/ \E u \in Users : EnterLocale(r, u)
  \/ \E a, t \in Users, change \in Changes : Send(r, a, t, change)
  \/ Enter(r) \/ Lock(r) \/ SetApproval(r) \/ SetAccess(r) \/ SetRole(r) \/ Write(r) \/ Abort(r)

Next ==
  \/ \E u \in Users : Register(u)
  \/ \E o \in Operators : BootstrapCheck(o) \/ BootstrapCreate(o) \/ BootstrapEnds(o)
  \/ \E r \in Requests : RequestStep(r)

Spec == Init /\ [][Next]_vars
----------------------------------------------------------------------------
(* Safety.                                                                 *)

\* Once there is an enabled SUPER_ADMIN there always is one, although two of
\* them may demote or disable each other at the same time.
SuperAdminRemains == [][HasSuperAdmin => HasSuperAdmin']_vars

\* SUPER_ADMINs that can sign in.
UsableSuperAdmin(u) == user[u].role = "SUPER_ADMIN" /\ SignedIn(u)

\* As long as nobody who is not approved was made SUPER_ADMIN, the one that
\* remains is one that can sign in.
UsableAdminRemains ==
  [][ (\A u \in Users : user[u].role = "SUPER_ADMIN" => user[u].approval = "APPROVED")
      /\ (\E u \in Users : UsableSuperAdmin(u))
      => (\E u \in Users : UsableSuperAdmin(u)')]_vars

\* A step in which the change of request r is committed.
Lands(r) == req[r].pc = "decided" /\ req'[r].pc = "idle" /\ user' # user

\* Whatever the guard saw, a change by an ADMIN lands on an account that is a
\* USER when it lands, and an ADMIN never changes a role.
AdminManagesOnlyUsers ==
  [][\A r \in Requests :
       Lands(r) /\ req[r].role = "ADMIN" =>
         LET t == req[r].target IN user[t].role = "USER" /\ user'[t].role = "USER"]_vars

\* A change lands only on the account as the administrator saw it on the form,
\* and that is also the row its audit event calls before.
NoLostUpdate ==
  [][\A r \in Requests :
       Lands(r) => LET row == AccessOf(user[req[r].target]) IN
         row = req[r].seen /\ row = AuditEvent(r).before]_vars

\* Sessions issued before a change of role, approval or access end with it.
ChangesEndSessions ==
  [][\A u \in Users :
       Exists(u) /\ [AccessOf(user'[u]) EXCEPT !.revision = 0] # [AccessOf(user[u]) EXCEPT !.revision = 0] =>
         user'[u].authVersion > user[u].authVersion]_vars

(* What the documents promise and the code does not keep.                  *)

\* "Given an allowed account change under FR-007, When an administrator confirms
\* it, Then it persists" (specs/001-industrial-dashboard/spec.md:76).
DisableTakesEffect ==
  [][\A r \in Requests : Lands(r) /\ req[r].change = "DISABLE" => user'[req[r].target].disabled]_vars

----------------------------------------------------------------------------
(* Changes of accounts implement the promise of Governance.                *)

Governed == INSTANCE Governance WITH account <- user

\* Each change that is committed is one step that the rules allow on the accounts
\* as they are then, although it was checked over several statements before.
ImplementsGovernance == Governed!Spec

\* And what Credentials takes user management for; no password changes here.
Access == [u \in Users |-> [exists |-> Exists(u), open |-> SignedIn(u),
                            version |-> user[u].authVersion, password |-> 0]]

Accounts == INSTANCE AccountAccess WITH access <- Access

\* Accounts open and close only with a new version.
ImplementsAccess == Accounts!Spec

----------------------------------------------------------------------------
(* The inductive invariant.                                                *)

\* Exactly the transaction that holds the lock is past it.
LockHeld == \A r \in Requests : req[r].pc \in {"locked", "decided"} <=> lock = r

\* A view of an account is of an earlier revision, or of the account as it is.
Earlier(view, u) ==
  /\ view.revision <= user[u].revision
  /\ view.revision = user[u].revision => view = AccessOf(user[u])

Administering == {"sent", "entered", "locked", "decided"}

\* A role that takes an enabled SUPER_ADMIN away leaves another.
Replaceable(p, u) ==
  p \in Roles \ {"SUPER_ADMIN"} /\ EnabledSuperAdmin(u) => AnotherEnabledSuperAdmin(u)

\* What a request knows; once it has decided only its own update can change that.
RequestAgrees(r) ==
  LET q == req[r] IN
  /\ q.pc # "idle" => q.target \in Users /\ Exists(q.target)
  /\ q.pc \in Administering => q.actor \in Users /\ q.change \in Changes /\ Earlier(q.seen, q.target)
  /\ q.pc \in Administering \ {"sent"} /\ q.change \in Roles => q.role = "SUPER_ADMIN"
  /\ q.pc = "decided" =>
       /\ Earlier(q.before, q.target) /\ q.seen.revision <= q.before.revision
       /\ q.patch \in {"NOTHING", q.change}
       /\ q.role = "ADMIN" => user[q.target].role = "USER"
       /\ q.patch \in Decisions => user[q.target].role = "USER"
       /\ q.patch = "DISABLE" => ~EnabledSuperAdmin(q.target)
       /\ Replaceable(q.patch, q.target)

RequestsAgree == \A r \in Requests : RequestAgrees(r)

Ind == TypeOK /\ LockHeld /\ RequestsAgree
============================================================================
