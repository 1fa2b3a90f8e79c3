----------------------------- MODULE Workspaces -----------------------------
(***************************************************************************)
(* The members of one workspace and the requests that change them.  A      *)
(* request is one transaction at READ COMMITTED: each of its reads sees    *)
(* what is committed by then, nothing is locked until its write, and an    *)
(* audit event tells afterwards how it ended.                              *)
(***************************************************************************)
EXTENDS Naturals, FiniteSets

CONSTANTS
    Users,          \* every one of them may send a request
    Superusers,
    NoUser,         \* no target
    MaxOpen         \* requests that are open at the same time

WorkspacesAssumption ==
    /\ Superusers \subseteq Users /\ NoUser \notin Users
    /\ MaxOpen \in Nat \ {0}

Roles == {"owner", "admin", "member", "viewer"}
NoRole == "none"

\* Roles with role:manage and with workspace:manage (access/permissions.yaml); workspace:read is
\* with every role.
Managers == {"owner", "admin"}
Ops == {"add", "change", "remove", "delete", "edit"}

VARIABLES
    role,       \* per user: the committed role in the workspace
    deleted,    \* deleted_at is set
    tx          \* per user: the request it has open

vars == <<role, deleted, tx>>

\* next: the role asked for; seen: the role that was read; row: the row that was read still is.
Idle == [st |-> "idle", op |-> "edit", target |-> NoUser, next |-> NoRole, seen |-> NoRole,
         row |-> FALSE, outcome |-> "success"]

Init ==
    /\ \E creator \in Users : role = [u \in Users |-> IF u = creator THEN "owner" ELSE NoRole]
    /\ deleted = FALSE
    /\ tx = [u \in Users |-> Idle]

Open == {u \in Users : tx[u].st # "idle"}

\* A request of user a. The API asks for a role to add or change a member.
Begin(a) ==
    /\ tx[a].st = "idle" /\ Cardinality(Open) < MaxOpen
    /\ \E op \in Ops, t \in Users \cup {NoUser}, r \in Roles \cup {NoRole} :
        /\ (t # NoUser) <=> (op \in {"add", "change", "remove"})
        /\ (r # NoRole) <=> (op \in {"add", "change"})
        /\ tx' = [tx EXCEPT ![a] = [Idle EXCEPT !.st = "permission", !.op = op, !.target = t,
                                                !.next = r]]
    /\ UNCHANGED <<role, deleted>>

Become(a, st) == tx' = [tx EXCEPT ![a].st = st]
End(a, outcome) == tx' = [tx EXCEPT ![a].st = "audit", ![a].outcome = outcome]

\* require_permission, and for a deletion the rule that only an owner deletes.
Permits(a) == \/ a \in Superusers
              \/ role[a] \in (IF tx[a].op = "delete" THEN {"owner"} ELSE Managers)

\* The workspace is looked up (a deleted one is not found) and the actor's role with it.
CheckPermission(a) ==
    /\ tx[a].st = "permission"
    /\ IF deleted THEN End(a, "failed")
       ELSE IF ~Permits(a) THEN End(a, "denied")
       ELSE Become(a, CASE tx[a].op \in {"delete", "edit"} -> "write"
                        [] tx[a].op = "add" -> "rule"
                        [] OTHER -> "target")
    /\ UNCHANGED <<role, deleted>>

\* The row of the member that is to change, or whether there is one already.
ReadTarget(a) ==
    /\ tx[a].st = "target"
    /\ LET r == role[tx[a].target]
       IN IF (r = NoRole) <=> (tx[a].op = "add")
            THEN tx' = [tx EXCEPT ![a].seen = r, ![a].row = (r # NoRole),
                                  ![a].st = IF tx[a].op = "add" THEN "write" ELSE "rule"]
            ELSE End(a, "failed")
    /\ UNCHANGED <<role, deleted>>

\* A change of an owner role.
TouchesOwner(seen, next) == seen = "owner" \/ next = "owner"

\* _ensure_owner_change_allowed: the actor's role is read once more.
OwnerRule(a) ==
    /\ tx[a].st = "rule"
    /\ IF TouchesOwner(tx[a].seen, tx[a].next) /\ a \notin Superusers /\ role[a] # "owner"
         THEN End(a, "denied")
         ELSE Become(a, IF tx[a].op = "add" THEN "target" ELSE "count")
    /\ UNCHANGED <<role, deleted>>

Owners == {u \in Users : role[u] = "owner"}

\* _ensure_not_removing_last_owner.
RemovesLastOwner(a) ==
    tx[a].seen = "owner" /\ tx[a].next # "owner" /\ Cardinality(Owners) <= 1

CountOwners(a) ==
    /\ tx[a].st = "count"
    /\ IF RemovesLastOwner(a) THEN End(a, "failed") ELSE Become(a, "write")
    /\ UNCHANGED <<role, deleted>>

\* Mutant: a removal leaves the rows others have read as they are.
GoneUnseen(u) == tx
\* Rows others have read of a member that is removed are rows that are gone.
Gone(u) == [b \in Users |-> [tx[b] EXCEPT !.row = @ /\ tx[b].target # u]]

\* The flush and the commit. A second row for the member violates the unique constraint; an
\* update of a row that is gone matches nothing and fails, a removal of it is only a warning;
\* a role that is the one that was read is not written at all.
Write(a) ==
    LET t == tx[a].target
        done(f) == [f EXCEPT ![a].st = "audit", ![a].outcome = "success"]
    IN
    /\ tx[a].st = "write"
    /\ \/ /\ tx[a].op = "add" /\ role[t] = NoRole
          /\ role' = [role EXCEPT ![t] = tx[a].next]
          /\ tx' = done(tx) /\ UNCHANGED deleted
       \/ /\ tx[a].op = "change" /\ tx[a].row
          /\ role' = [role EXCEPT ![t] = IF tx[a].next = tx[a].seen THEN @ ELSE tx[a].next]
          /\ tx' = done(tx) /\ UNCHANGED deleted
       \/ /\ tx[a].op = "remove"
          /\ role' = [role EXCEPT ![t] = IF tx[a].row THEN NoRole ELSE @]
          /\ tx' = done(IF tx[a].row THEN Gone(t) ELSE tx) /\ UNCHANGED deleted
       \/ /\ tx[a].op = "delete"
          /\ deleted' = TRUE
          /\ tx' = done(tx) /\ UNCHANGED role
       \* After the update the row is read again, and a deleted workspace is not found.
       \/ /\ tx[a].op = "edit"
          /\ End(a, IF deleted THEN "failed" ELSE "success") /\ UNCHANGED <<role, deleted>>
       \/ /\ \/ tx[a].op = "add" /\ role[t] # NoRole
             \/ tx[a].op = "change" /\ ~tx[a].row
          /\ End(a, "failed") /\ UNCHANGED <<role, deleted>>

\* The audit capture closes after the transaction and tells of its outcome.
Audit(a) ==
    /\ tx[a].st = "audit"
    /\ tx' = [tx EXCEPT ![a] = Idle]
    /\ UNCHANGED <<role, deleted>>

Next == \E a \in Users :
    Begin(a) \/ CheckPermission(a) \/ ReadTarget(a) \/ OwnerRule(a) \/ CountOwners(a)
        \/ Write(a) \/ Audit(a)

Safety == Init /\ [][Next]_vars

-----------------------------------------------------------------------------
\* Every variable has its type; a target is read only while its row is there (workspace_service.py).
TypeOK ==
    /\ role \in [Users -> Roles \cup {NoRole}]
    /\ deleted \in BOOLEAN
    /\ tx \in [Users -> [st : {"idle", "permission", "target", "rule", "count", "write", "audit"},
                         op : Ops, target : Users \cup {NoUser}, next : Roles \cup {NoRole},
                         seen : Roles \cup {NoRole}, row : BOOLEAN,
                         outcome : {"success", "denied", "failed"}]]
    /\ \A u \in Users : tx[u].row => role[tx[u].target] # NoRole

\* The workspace has an owner whatever its members do to each other (workspace_service.py:371-388).
AlwaysAnOwner == Owners # {}

\* Only an owner, or a superuser, makes someone an owner or ends someone's ownership
\* (workspace_service.py:342-369).
OwnersMakeOwnersStep ==
    \A u \in Users : (role[u] = "owner") # (role'[u] = "owner") =>
          \E a \in Users : /\ tx[a].st = "write" /\ tx'[a].st = "audit"
                           /\ a \in Superusers \/ role[a] = "owner"
OwnersMakeOwners == [][OwnersMakeOwnersStep]_vars

\* However requests overlap, one that is reported as denied or failed has changed nothing, an
\* addition that succeeds added someone who was no member, and a change that succeeds never
\* brings back a member who was removed meanwhile (access_repo.py:91-135).
OutcomeIsTrueStep ==
    \A a \in Users : (tx[a].st = "write" /\ tx'[a].st = "audit") =>
          LET was == role[tx[a].target]
          IN IF tx'[a].outcome = "success"
               THEN /\ tx[a].op = "add" => was = NoRole
                    /\ tx[a].op = "change" => was # NoRole
               ELSE role' = role /\ deleted' = deleted
OutcomeIsTrue == [][OutcomeIsTrueStep]_vars
=============================================================================
