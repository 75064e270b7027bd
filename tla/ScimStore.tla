------------------------------- MODULE ScimStore -------------------------------
(***************************************************************************)
(* The in-memory SCIM store of src/receiver/scim-store.ts with the PATCH   *)
(* semantics of src/receiver/scim-patch.ts: what a create, replace, patch  *)
(* or delete makes of one account, and a PATCH of one group's members.  The *)
(* module has no next-state relation of its own: ReceiverEngine calls it.  *)
(*                                                                         *)
(* Of a user only the account's existence and its active flag are kept; of *)
(* a group whether it has a display name and who its members are.          *)
(* Attributes, versions and activity timestamps are left out.              *)
(***************************************************************************)
EXTENDS Naturals, FiniteSets

CONSTANTS
  Users,
  Entitlements   \* groups are keyed by the entitlement they stand for

VARIABLES
  accounts,   \* users: absent, live (active or inactive) or soft-deleted
  groups,     \* groups: absent, unnamed (displayName is the id) or named
  members     \* the members of each group

storeVars == <<accounts, groups, members>>

Live == {"active", "inactive"}
Accounts == Live \cup {"absent", "deleted"}
Switches == {"on", "off", "keep"}   \* what a body says about active
GroupChanges == {"add", "remove", "clear", "replace"}

StoreTypeOK ==
  /\ accounts \in [Users -> Accounts]
  /\ groups \in [Entitlements -> {"absent", "unnamed", "named"}]
  /\ members \in [Entitlements -> SUBSET Users]

NoAccounts == [u \in Users |-> "absent"]
NoGroups == [e \in Entitlements |-> "absent"]
NoMembers == [e \in Entitlements |-> {}]

StoreEmpty == accounts = NoAccounts /\ groups = NoGroups /\ members = NoMembers
StoreReset == accounts' = NoAccounts /\ groups' = NoGroups /\ members' = NoMembers

-----------------------------------------------------------------------------
(* Accounts *)

Switched(account, switch) ==
  CASE switch = "on"   -> "active"
    [] switch = "off"  -> "inactive"
    [] switch = "keep" -> account

\* createUser returns a live account as it is; one that is new or was deleted
\* is active unless the body says otherwise.
Upserted(account, switch) ==
  IF account \in Live THEN account ELSE Switched("active", switch)

\* deleteUser of an account never seen throws; the callers ignore it.
Removed(account) == IF account \in Live THEN "deleted" ELSE account

SetAccount(u, account) == accounts' = [accounts EXCEPT ![u] = account]

-----------------------------------------------------------------------------
(* Groups *)

\* applyGroupPatch's answer: whom the change puts in and takes out.  Replacing
\* reports every former member as removed, the ones that stay included.
Added(e, change, u) ==
  IF change \in {"add", "replace"} /\ (change = "replace" \/ u \notin members[e])
    THEN {u} ELSE {}

Dropped(e, change, u) ==
  CASE change = "add"    -> {}
    [] change = "remove" -> members[e] \cap {u}
    [] change \in {"clear", "replace"} -> members[e]

\* patchGroup: an unknown group is created with its id for a name.
PatchGroup(e, change, u) ==
  /\ groups' = [groups EXCEPT ![e] = IF @ = "absent" THEN "unnamed" ELSE @]
  /\ members' = [members EXCEPT ![e] =
                   (@ \ Dropped(e, change, u)) \cup Added(e, change, u)]

\* createGroup: a group that exists keeps its members and is at most named.
CreateGroup(e, initial) ==
  /\ groups' = [groups EXCEPT ![e] = "named"]
  /\ members' = [members EXCEPT ![e] = IF groups[e] = "absent" THEN initial ELSE @]
=============================================================================
