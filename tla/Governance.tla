----------------------------- MODULE Governance ----------------------------
(***************************************************************************)
(* What user management promises about accounts: every change is one step, *)
(* allowed by the rules on the accounts as they are at that step.  There   *)
(* are no requests, guards, locks, forms or transactions.                  *)
(*                                                                         *)
(* Who makes a change is left open.  Disabling an enabled SUPER_ADMIN is   *)
(* no change at all, because the code makes it none: Touch.                *)
(***************************************************************************)
EXTENDS Naturals

CONSTANTS Users, Roles

VARIABLE account   \* role, approval, disabled, authVersion and revision of each user

NewAccount(role, approval) ==
  [role |-> role, approval |-> approval, disabled |-> FALSE, authVersion |-> 0, revision |-> 0]

Init == account = [u \in Users |-> NewAccount("NONE", "PENDING")]

Exists(u) == account[u].role # "NONE"
EnabledSuperAdmin(u) == account[u].role = "SUPER_ADMIN" /\ ~account[u].disabled
Replaceable(u) == EnabledSuperAdmin(u) => \E v \in Users \ {u} : EnabledSuperAdmin(v)

\* Registration, or the operator's command.
Appear(u) ==
  /\ ~Exists(u)
  /\ \/ account' = [account EXCEPT ![u] = NewAccount("USER", "PENDING")]
     \/ account' = [account EXCEPT ![u] = NewAccount("SUPER_ADMIN", "APPROVED")]

\* The account takes these columns, and its sessions end.
Becomes(u, role, approval, disabled) ==
  account' = [account EXCEPT ![u] =
    [role |-> role, approval |-> approval, disabled |-> disabled,
     authVersion |-> account[u].authVersion + 1, revision |-> account[u].revision + 1]]

SetApproval(u, approval) ==
  /\ account[u].role = "USER"
  /\ Becomes(u, account[u].role, approval, account[u].disabled)

SetAccess(u, disabled) ==
  /\ Exists(u)
  /\ disabled => ~EnabledSuperAdmin(u)
  /\ Becomes(u, account[u].role, account[u].approval, disabled)

SetRole(u, role) ==
  /\ Exists(u)
  /\ role # "SUPER_ADMIN" => Replaceable(u)
  /\ Becomes(u, role, account[u].approval, account[u].disabled)

\* A change of the language, or one that changes nothing.
Touch(u) ==
  /\ Exists(u)
  /\ account' = [account EXCEPT ![u].revision = @ + 1]

Next ==
  \E u \in Users :
    \/ Appear(u) \/ Touch(u)
    \/ \E approval \in {"APPROVED", "REJECTED"} : SetApproval(u, approval)
    \/ \E disabled \in BOOLEAN : SetAccess(u, disabled)
    \/ \E role \in Roles : SetRole(u, role)

Spec == Init /\ [][Next]_account
============================================================================
