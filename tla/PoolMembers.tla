---------------------------- MODULE PoolMembers ----------------------------
(***************************************************************************)
(* Who belongs to a pool and with which role (PoolsService).  Every        *)
(* operation reads the actor's membership, most read the target's next,    *)
(* and only then write: each read is a step, and what it learned stays in  *)
(* the request.  The transfer of ownership alone writes in a transaction.  *)
(***************************************************************************)
EXTENDS Common

CONSTANT Creator  \* the user who created the pool

ASSUME PoolMembersAssumption == Creator \in Users

Roles == {"OWNER", "ADMIN", "MEMBER"}
Granted == {"ADMIN", "MEMBER"}   \* the roles updateMemberRole may write

Targeted == {"transfer", "changeRole", "removeMember"}
Untargeted == {"leave", "removePool", "setInvite", "join"}

\* as is the role of the actor when it was read; grant matters to changeRole.
Request == [op : Targeted \cup Untargeted, by : Users, as : Roles \cup {"none"},
            target : Users, grant : Granted, step : {"actor", "checked"}]

VARIABLES
    exists,   \* the pool has not been deleted
    ownerId,  \* Pool.ownerId
    role,     \* PoolMember.role of each user, "none" for who is not a member
    active,   \* the invite link is active
    changes,  \* the requests between their first read and their write
    clashed   \* history: a transfer and another change of roles overlapped

membersVars == <<exists, ownerId, role, active, changes, clashed>>

Owners == {u \in Users : role[u] = "OWNER"}

\* create
MembersInit ==
    /\ exists = TRUE
    /\ ownerId = Creator
    /\ role = [u \in Users |-> IF u = Creator THEN "OWNER" ELSE "none"]
    /\ active = TRUE
    /\ changes = {}
    /\ clashed = FALSE

-----------------------------------------------------------------------------
(* Faulty variants, for testing the properties. *)

\* the old owner keeps the role
PromotedOnly(q) == [role EXCEPT ![q.target] = "OWNER"]

-----------------------------------------------------------------------------
(* The reads. *)

\* requireOwner, requireManage, requireMembership, and the invite of join.
ActorAdmitted(op, r) ==
    \/ op \in {"transfer", "changeRole", "removePool"} /\ r = "OWNER"
    \/ op \in {"removeMember", "setInvite"} /\ r \in {"OWNER", "ADMIN"}
    \/ op = "leave" /\ r \in Granted
    \/ op = "join" /\ active

Begin(op, u, t, g) ==
    /\ exists
    /\ Cardinality(changes) < MaxInFlight
    /\ ActorAdmitted(op, role[u])
    /\ op \in Targeted => t # u
    /\ changes' = changes \cup
         {[op |-> op, by |-> u, as |-> role[u], target |-> t, grant |-> g,
           step |-> IF op \in Targeted THEN "actor" ELSE "checked"]}
    /\ UNCHANGED <<exists, ownerId, role, active, clashed>>

\* findMember, and what the operation asks of the role it finds.
TargetAdmitted(q) ==
    /\ role[q.target] # "none"
    /\ q.op \in {"changeRole", "removeMember"} => role[q.target] # "OWNER"
    /\ q.op = "removeMember" /\ role[q.target] = "ADMIN" => q.as = "OWNER"

CheckTarget(q) ==
    /\ q.step = "actor"
    /\ changes' = (changes \ {q}) \cup
         (IF TargetAdmitted(q) THEN {[q EXCEPT !.step = "checked"]} ELSE {})
    /\ UNCHANGED <<exists, ownerId, role, active, clashed>>

-----------------------------------------------------------------------------
(* The writes. *)

\* The requests that hold the id of a member's row fail once it is deleted.
Holds(q, u) ==
    /\ q.step = "checked"
    /\ \/ q.op \in Targeted /\ q.target = u
       \/ q.op = "leave" /\ q.by = u

Served(q) == changes' = changes \ {q}

\* Two requests that both change roles and are between their check and their
\* write at the same time, one of them a transfer.
ChangesRoles == {"transfer", "changeRole", "removeMember", "leave"}
Clashes(q) == \E o \in changes \ {q} : /\ {q.op, o.op} \subseteq ChangesRoles
                                       /\ "transfer" \in {q.op, o.op}
Noticed(q) == clashed' = (clashed \/ Clashes(q))

\* The rows a transfer writes: the new owner is promoted, the old steps down.
Transferred(q) == [role EXCEPT ![q.target] = "OWNER", ![q.by] = "ADMIN"]

\* transferOwnership: the transaction fails as a whole when the actor has gone.
Transfer(q) ==
    /\ q.op = "transfer" /\ q.step = "checked"
    /\ role' = IF role[q.by] = "none" THEN role ELSE Transferred(q)
    /\ ownerId' = IF role[q.by] = "none" THEN ownerId ELSE q.target
    /\ Served(q) /\ Noticed(q)
    /\ UNCHANGED <<exists, active>>

\* updateMemberRole
ChangeRole(q) ==
    /\ q.op = "changeRole" /\ q.step = "checked"
    /\ role' = [role EXCEPT ![q.target] = q.grant]
    /\ Served(q) /\ Noticed(q)
    /\ UNCHANGED <<exists, ownerId, active>>

Deleted(u, q) ==
    /\ role' = [role EXCEPT ![u] = "none"]
    /\ changes' = {r \in changes \ {q} : ~Holds(r, u)}
    /\ Noticed(q)
    /\ UNCHANGED <<exists, ownerId, active>>

\* removeMember and leave
RemoveMember(q) == q.op = "removeMember" /\ q.step = "checked" /\ Deleted(q.target, q)
Leave(q) == q.op = "leave" /\ Deleted(q.by, q)

\* join: an upsert that leaves a member as it is.
Join(q) ==
    /\ q.op = "join"
    /\ role' = [role EXCEPT ![q.by] = IF @ = "none" THEN "MEMBER" ELSE @]
    /\ Served(q)
    /\ UNCHANGED <<exists, ownerId, active, clashed>>

\* updateInvite, createInvite and deleteInvite, as far as the link works.
SetInvite(q) ==
    /\ q.op = "setInvite"
    /\ active' \in BOOLEAN
    /\ Served(q)
    /\ UNCHANGED <<exists, ownerId, role, clashed>>

\* remove: the members and the invites go with the pool, whoever was being
\* served is answered with an error.
Cascaded == [u \in Users |-> "none"]
RemovePool(q) ==
    /\ q.op = "removePool"
    /\ exists' = FALSE
    /\ role' = Cascaded
    /\ active' = FALSE
    /\ changes' = {}
    /\ UNCHANGED <<ownerId, clashed>>

MembersNext ==
    \/ \E op \in Targeted, u \in Users, t \in Users, g \in Granted :
          (op # "changeRole" => g = "MEMBER") /\ Begin(op, u, t, g)
    \/ \E op \in Untargeted, u \in Users : Begin(op, u, u, "MEMBER")
    \/ \E q \in changes :
          \/ CheckTarget(q)
          \/ Transfer(q) \/ ChangeRole(q) \/ RemoveMember(q) \/ Leave(q)
          \/ Join(q) \/ SetInvite(q) \/ RemovePool(q)

MembersSpec == MembersInit /\ [][MembersNext]_membersVars

-----------------------------------------------------------------------------
(* Properties. *)

\* Types, and the cascade: no member and no request outlives the pool.
MembersTypeOK ==
    /\ exists \in BOOLEAN /\ active \in BOOLEAN
    /\ ownerId \in Users
    /\ role \in [Users -> Roles \cup {"none"}]
    /\ changes \subseteq Request
    /\ clashed \in BOOLEAN
    /\ ~exists => changes = {} /\ \A u \in Users : role[u] = "none"

\* A pool has exactly one owner and Pool.ownerId names it, whatever overlaps:
\* only a transfer that overlaps another change of roles breaks it.
OneOwner == exists /\ ~clashed => Owners = {ownerId}

\* An owner stops being a member only with the pool: leaving and being removed
\* are refused to owners, unless a transfer overlaps the request.
OwnerIsNeverRemoved ==
    [][\A u \in Users :
         role[u] = "OWNER" /\ exists' /\ ~clashed' => role'[u] # "none"]_membersVars
=============================================================================
