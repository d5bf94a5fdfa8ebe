---------------------------- MODULE PoolsProofs -----------------------------
(***************************************************************************)
(* A pool: its owner, for every set of users; the windows of its           *)
(* temporadas, for any number of them and of ticks of the clock, and for   *)
(* any number of requests in flight; and what a closed one pays, for any   *)
(* bets, matches and members.                                              *)
(***************************************************************************)
EXTENDS PoolMembers, PoolRuns, Rankings, NumberProofs, FiniteSetTheorems, TLAPS

-----------------------------------------------------------------------------
(* The owner.  OneOwner is not inductive: that a request only changes the  *)
(* owner as a transfer does rests on what its reads saw, which the         *)
(* invariant says is still true of every request that no transfer clashed  *)
(* with.                                                                   *)

\* What a request saw of the owner still holds.
StillSound(q) ==
    /\ q.op = "transfer" => role[q.by] = "OWNER" /\ q.by # q.target
    /\ q.op = "leave" => role[q.by] # "OWNER"
    /\ q.op \in {"changeRole", "removeMember"} /\ q.step = "checked" =>
         role[q.target] # "OWNER"

RequestsSound == ~clashed => \A q \in changes : StillSound(q)

OwnerInv == MembersTypeOK /\ OneOwner /\ RequestsSound

\* The writes of every request but a transfer leave the owners as they are.
OwnersStand == \A u \in Users : role'[u] = "OWNER" <=> role[u] = "OWNER"

-----------------------------------------------------------------------------
(* Types. *)

LEMMA RequestFields ==
    ASSUME MembersTypeOK, NEW q \in changes
    PROVE  /\ q \in Request /\ q.by \in Users /\ q.target \in Users
           /\ q.grant \in Granted /\ q.op \in Targeted \cup Untargeted
           /\ exists
BY DEF MembersTypeOK, Request

LEMMA MembersTypeInit == MembersInit => MembersTypeOK
BY PoolMembersAssumption DEF MembersInit, MembersTypeOK, Roles

LEMMA MembersTypeStep ==
    ASSUME MembersTypeOK, [MembersNext]_membersVars
    PROVE  MembersTypeOK'
<1>1. CASE UNCHANGED membersVars
  BY <1>1 DEF membersVars, MembersTypeOK
<1>2. ASSUME NEW op \in Targeted \cup Untargeted, NEW u \in Users, NEW t \in Users,
             NEW g \in Granted, Begin(op, u, t, g)
      PROVE  MembersTypeOK'
  <2>1. role[u] \in Roles \cup {"none"}
    BY DEF MembersTypeOK
  <2>2. changes' \subseteq Request
    BY <1>2, <2>1 DEF Begin, MembersTypeOK, Request
  <2> QED
    BY <1>2, <2>2 DEF Begin, MembersTypeOK
<1>3. ASSUME NEW q \in changes, CheckTarget(q) PROVE MembersTypeOK'
  <2>1. [q EXCEPT !.step = "checked"] \in Request
    BY RequestFields DEF Request
  <2> QED
    BY <1>3, <2>1, RequestFields DEF CheckTarget, MembersTypeOK
<1>4. ASSUME NEW q \in changes, Transfer(q) PROVE MembersTypeOK'
  BY <1>4, RequestFields DEF Transfer, Transferred, Served, Noticed, Clashes, MembersTypeOK, Roles
<1>5. ASSUME NEW q \in changes, ChangeRole(q) PROVE MembersTypeOK'
  BY <1>5, RequestFields DEF ChangeRole, Served, Noticed, Clashes, MembersTypeOK, Roles, Granted
<1>6. ASSUME NEW q \in changes, NEW u \in Users, Deleted(u, q) PROVE MembersTypeOK'
  BY <1>6, RequestFields DEF Deleted, Noticed, Clashes, MembersTypeOK
<1>7. ASSUME NEW q \in changes, Join(q) PROVE MembersTypeOK'
  BY <1>7, RequestFields DEF Join, Served, MembersTypeOK, Roles
<1>8. ASSUME NEW q \in changes, SetInvite(q) PROVE MembersTypeOK'
  BY <1>8, RequestFields DEF SetInvite, Served, MembersTypeOK
<1>9. ASSUME NEW q \in changes, RemovePool(q) PROVE MembersTypeOK'
  BY <1>9 DEF RemovePool, Cascaded, MembersTypeOK, Roles
<1> QED
  BY <1>1, <1>2, <1>3, <1>4, <1>5, <1>6, <1>7, <1>8, <1>9, RequestFields
  DEF MembersNext, RemoveMember, Leave, Granted

-----------------------------------------------------------------------------
(* The owner. *)

LEMMA OwnerInit == MembersInit => OwnerInv
<1> SUFFICES ASSUME MembersInit PROVE OwnerInv
  OBVIOUS
<1>1. OneOwner
  BY PoolMembersAssumption DEF MembersInit, OneOwner, Owners
<1> QED
  BY <1>1, MembersTypeInit DEF MembersInit, OwnerInv, RequestsSound

\* A step that leaves the owners as they are keeps what it does not add.
LEMMA StandingOwners ==
    ASSUME OwnerInv, MembersTypeOK', OwnersStand, ownerId' = ownerId,
           exists' => exists, ~clashed' => ~clashed,
           ~clashed' => \A q \in changes' \ changes : StillSound(q)'
    PROVE  OwnerInv'
<1>1. OneOwner'
  <2>1. Owners' = Owners
    BY DEF Owners, OwnersStand
  <2> QED
    BY <2>1 DEF OwnerInv, OneOwner
<1>2. RequestsSound'
  <2> SUFFICES ASSUME ~clashed', NEW q \in changes', q \in changes PROVE StillSound(q)'
    BY DEF RequestsSound
  <2>1. StillSound(q)
    BY DEF OwnerInv, RequestsSound
  <2> QED
    BY <2>1, RequestFields DEF StillSound, OwnersStand, OwnerInv
<1> QED
  BY <1>1, <1>2 DEF OwnerInv

\* A request that is not a transfer takes the role of nobody who owns the pool.
LEMMA DeletedStands ==
    ASSUME OwnerInv, MembersTypeOK', NEW q \in changes,
           RemoveMember(q) \/ Leave(q)
    PROVE  /\ ~clashed' => OwnersStand
           /\ OwnerInv'
<1>1. PICK u \in Users : /\ Deleted(u, q)
                         /\ ~clashed => role[u] # "OWNER"
  BY RequestFields DEF OwnerInv, RequestsSound, StillSound, RemoveMember, Leave
<1>2. ~clashed' => ~clashed
  BY <1>1 DEF Deleted, Noticed
<1>3. ~clashed' => OwnersStand
  BY <1>1, <1>2 DEF Deleted, OwnersStand, OwnerInv, MembersTypeOK
<1>4. /\ changes' \subseteq changes
      /\ UNCHANGED <<ownerId, exists>>
  BY <1>1 DEF Deleted
<1>5. CASE clashed'
  BY <1>5 DEF OwnerInv, OneOwner, RequestsSound
<1>6. CASE ~clashed'
  BY <1>2, <1>3, <1>4, <1>6, StandingOwners
<1> QED
  BY <1>3, <1>5, <1>6

LEMMA TransferStep ==
    ASSUME OwnerInv, MembersTypeOK', NEW q \in changes, Transfer(q)
    PROVE  /\ OwnerInv'
           /\ ~clashed' => \A u \in Users : role[u] = "OWNER" => role'[u] # "none"
<1>1. CASE clashed'
  BY <1>1 DEF OwnerInv, OneOwner, RequestsSound
<1>2. CASE ~clashed'
  <2>1. /\ ~clashed /\ ~Clashes(q)
        /\ q.op = "transfer" /\ changes' = changes \ {q} /\ exists' = exists
    BY <1>2 DEF Transfer, Noticed, Served
  <2>2. /\ role[q.by] = "OWNER" /\ q.by # q.target
        /\ q.by \in Users /\ q.target \in Users /\ exists
    BY <2>1, RequestFields DEF OwnerInv, RequestsSound, StillSound
  <2>3. role' = [role EXCEPT ![q.target] = "OWNER", ![q.by] = "ADMIN"] /\ ownerId' = q.target
    BY <2>2 DEF Transfer, Transferred
  <2>4. Owners = {q.by}
    BY <2>1, <2>2 DEF OwnerInv, OneOwner, Owners
  <2>5. role \in [Users -> Roles \cup {"none"}]
    BY DEF OwnerInv, MembersTypeOK
  <2>6. Owners' = {q.target}
    BY <2>2, <2>3, <2>4, <2>5 DEF Owners
  <2>7. \A o \in changes' : o.op \notin ChangesRoles
    BY <2>1 DEF Clashes, ChangesRoles
  <2>8. RequestsSound'
    BY <2>7 DEF RequestsSound, StillSound, ChangesRoles
  <2>9. \A u \in Users : role[u] = "OWNER" => role'[u] # "none"
    BY <2>2, <2>3, <2>5
  <2> QED
    BY <2>3, <2>6, <2>8, <2>9 DEF OwnerInv, OneOwner
<1> QED
  BY <1>1, <1>2

LEMMA OwnerStep ==
    ASSUME OwnerInv, [MembersNext]_membersVars
    PROVE  /\ OwnerInv'
           /\ \A u \in Users : role[u] = "OWNER" /\ exists' /\ ~clashed' => role'[u] # "none"
<1>0. MembersTypeOK /\ MembersTypeOK'
  BY MembersTypeStep DEF OwnerInv
<1>1. CASE UNCHANGED membersVars
  BY <1>1 DEF membersVars, OwnerInv, MembersTypeOK, OneOwner, Owners, RequestsSound, StillSound
<1>2. ASSUME NEW op \in Targeted \cup Untargeted, NEW u \in Users, NEW t \in Users,
             NEW g \in Granted, Begin(op, u, t, g)
      PROVE  OwnerInv' /\ role' = role
  <2>1. \A q \in changes' \ changes : StillSound(q)'
    BY <1>2 DEF Begin, StillSound, ActorAdmitted, Targeted, Untargeted, Granted
  <2> QED
    BY <1>0, <1>2, <2>1, StandingOwners DEF Begin, OwnersStand
<1>3. ASSUME NEW q \in changes, CheckTarget(q) PROVE OwnerInv' /\ role' = role
  <2>1. ~clashed => StillSound(q)
    BY DEF OwnerInv, RequestsSound
  <2>2. \A o \in changes' \ changes :
           /\ TargetAdmitted(q) /\ o.op = q.op /\ o.by = q.by /\ o.target = q.target
    BY <1>0, <1>3, RequestFields DEF CheckTarget, Request
  <2>3. ~clashed => \A o \in changes' \ changes : StillSound(o)'
    BY <1>3, <2>1, <2>2 DEF CheckTarget, StillSound, TargetAdmitted
  <2> QED
    BY <1>0, <1>3, <2>3, StandingOwners DEF CheckTarget, OwnersStand
<1>4. ASSUME NEW q \in changes, ChangeRole(q) PROVE OwnerInv' /\ (~clashed' => OwnersStand)
  <2>1. ~clashed => role[q.target] # "OWNER"
    BY <1>4 DEF ChangeRole, OwnerInv, RequestsSound, StillSound
  <2>2. ~clashed' => ~clashed
    BY <1>4 DEF ChangeRole, Noticed
  <2>3. ~clashed' => OwnersStand
    BY <1>0, <1>4, <2>1, <2>2, RequestFields DEF ChangeRole, OwnersStand, MembersTypeOK, Granted
  <2>4. CASE clashed'
    BY <1>0, <2>4 DEF OwnerInv, OneOwner, RequestsSound
  <2>5. CASE ~clashed'
    BY <1>0, <1>4, <2>2, <2>3, <2>5, StandingOwners DEF ChangeRole, Served
  <2> QED
    BY <2>3, <2>4, <2>5
<1>5. ASSUME NEW q \in changes, RemoveMember(q) \/ Leave(q)
      PROVE  OwnerInv' /\ (~clashed' => OwnersStand)
  BY <1>0, <1>5, DeletedStands
<1>6. ASSUME NEW q \in changes, Join(q) PROVE OwnerInv' /\ OwnersStand
  <2>1. OwnersStand
    BY <1>0, <1>6, RequestFields DEF Join, OwnersStand, MembersTypeOK
  <2> QED
    BY <1>0, <1>6, <2>1, StandingOwners DEF Join, Served
<1>7. ASSUME NEW q \in changes, SetInvite(q) PROVE OwnerInv' /\ role' = role
  BY <1>0, <1>7, StandingOwners DEF SetInvite, Served, OwnersStand
<1>8. ASSUME NEW q \in changes, RemovePool(q) PROVE OwnerInv' /\ ~exists'
  BY <1>0, <1>8 DEF RemovePool, OwnerInv, OneOwner, RequestsSound
<1>9. ASSUME NEW q \in changes, Transfer(q)
      PROVE  /\ OwnerInv'
             /\ ~clashed' => \A u \in Users : role[u] = "OWNER" => role'[u] # "none"
  BY <1>0, <1>9, TransferStep
<1>10. OwnersStand => \A u \in Users : role[u] = "OWNER" => role'[u] # "none"
  BY DEF OwnersStand
<1> QED
  BY <1>1, <1>2, <1>3, <1>4, <1>5, <1>6, <1>7, <1>8, <1>9, <1>10
  DEF MembersNext, membersVars, Granted

\* A pool has one owner and Pool.ownerId names it, for every set of users and
\* whatever requests overlap, but for a transfer that clashes with another change
\* of roles (PoolsService.transferOwnership and the operations around it).
THEOREM OneOwnerHolds == MembersSpec => []OneOwner
<1>1. OwnerInv /\ [MembersNext]_membersVars => OwnerInv'
  BY OwnerStep
<1>2. OwnerInv => OneOwner
  BY DEF OwnerInv
<1> QED
  BY OwnerInit, <1>1, <1>2, PTL DEF MembersSpec

\* Leaving and being removed never take the owner out of a pool, with the same
\* exception (PoolsService.leave, removeMember).
THEOREM OwnerIsKept == MembersSpec => OwnerIsNeverRemoved
<1>1. OwnerInv /\ [MembersNext]_membersVars => OwnerInv'
  BY OwnerStep
<1>2. OwnerInv /\ [MembersNext]_membersVars =>
        [\A u \in Users :
           role[u] = "OWNER" /\ exists' /\ ~clashed' => role'[u] # "none"]_membersVars
  BY OwnerStep
<1> QED
  BY OwnerInit, <1>1, <1>2, PTL DEF MembersSpec, OwnerIsNeverRemoved

-----------------------------------------------------------------------------
(* The windows.  That no two of them meet is not inductive: a temporada     *)
(* only starts after every other has closed, which rests on what the       *)
(* requests in flight read before they write.                              *)

RequestsTypeOK ==
    \A q \in requests :
        \/ q.op = "create" /\ q.start \in BOOLEAN
        \/ q.op \in {"start", "end"} /\ q.id \in Ids

\* What the check of a request saw still holds when it writes.
StillAllowed(q) ==
    /\ q.op = "create" => \A r \in runs : r.endAt # None
    /\ q.op = "start" => \A r \in runs : r.id = q.id => r.status = "DRAFT"
    /\ q.op = "end" => \A r \in runs : r.id = q.id => r.status = "ACTIVE"

\* No stamp is later than t.
StampsPast(r, t) ==
    /\ r.startAt # None => r.startAt <= t
    /\ r.endAt # None => r.endAt <= t

\* r had closed when q started.
Precedes(r, q) == r.endAt # None /\ r.endAt <= q.startAt
Apart(r, q) ==
    r.startAt = None \/ q.startAt = None \/ Precedes(r, q) \/ Precedes(q, r)

RunsTypes == RunsTypeOK /\ RequestsTypeOK

WindowsInv ==
    /\ \A q \in requests : StillAllowed(q)
    /\ \A r \in runs : StampsPast(r, now)
    /\ \A r, q \in runs : r.endAt = None /\ q.endAt = None => r = q
    /\ \A r, q \in runs : r # q => Apart(r, q)

RunsInv == RunsTypes /\ (~raced => WindowsInv)

-----------------------------------------------------------------------------
(* Each kind of step. *)

LEMMA RunsInitInv == RunsInit => RunsInv
<1> SUFFICES ASSUME RunsInit PROVE RunsInv
  OBVIOUS
<1>1. now \in Time
  BY PoolRunsAssumption DEF RunsInit, Time
<1>2. runs = {} /\ requests = {}
  BY DEF RunsInit
<1>3. raced \in BOOLEAN
  BY Zenon DEF RunsInit
<1> QED
  BY <1>1, <1>2, <1>3 DEF RunsInv, RunsTypes, RunsTypeOK, RequestsTypeOK, WindowsInv

\* The check of a request adds one that may still write.
LEMMA CheckedStep ==
    ASSUME RunsInv, NEW q, requests' = requests \cup {q},
           UNCHANGED <<now, runs, raced>>,
           \/ q.op = "create" /\ q.start \in BOOLEAN
           \/ q.op \in {"start", "end"} /\ q.id \in Ids,
           ~raced => StillAllowed(q)
    PROVE  RunsInv'
<1>1. RunsTypes'
  BY DEF RunsInv, RunsTypes, RunsTypeOK, RequestsTypeOK, Ids
<1>2. ASSUME ~raced' PROVE WindowsInv'
  BY <1>2 DEF RunsInv, WindowsInv, StillAllowed, StampsPast, Apart, Precedes
<1> QED
  BY <1>1, <1>2 DEF RunsInv

LEMMA TickStep == ASSUME RunsInv, Tick PROVE RunsInv'
<1>1. now \in Nat /\ now' = now + 1 /\ now' \in Time
  BY PoolRunsAssumption DEF Tick, RunsInv, RunsTypes, RunsTypeOK, Time
<1>2. RunsTypes'
  BY <1>1 DEF Tick, RunsInv, RunsTypes, RunsTypeOK, RequestsTypeOK, Ids
<1>3. ASSUME ~raced', NEW r \in runs PROVE StampsPast(r, now')
  <2>1. StampsPast(r, now) /\ r \in Run
    BY <1>3 DEF Tick, RunsInv, WindowsInv, RunsTypes, RunsTypeOK
  <2> QED
    BY <1>1, <2>1, PoolRunsAssumption DEF StampsPast, Run, Time
<1>4. ASSUME ~raced' PROVE WindowsInv'
  BY <1>3, <1>4 DEF Tick, RunsInv, WindowsInv, StillAllowed, Apart, Precedes
<1> QED
  BY <1>2, <1>4 DEF RunsInv

LEMMA FreshId ==
    ASSUME RunsTypes, Ids # 1..MaxRuns
    PROVE  FreeId \in 1..MaxRuns /\ FreeId \notin Ids
<1>1. Ids \subseteq 1..MaxRuns
  BY DEF RunsTypes, RunsTypeOK, Ids, Run
<1>2. \E i \in 1..MaxRuns : i \notin Ids
  BY <1>1
<1> QED
  BY <1>2 DEF FreeId

\* A temporada is only created after every other has closed.
LEMMA CreatedStep ==
    ASSUME RunsInv, NEW q \in requests, Created(q)
    PROVE  RunsInv'
<1> DEFINE n == [id |-> FreeId, endAt |-> None,
                 status |-> IF q.start THEN "ACTIVE" ELSE "DRAFT",
                 startAt |-> IF q.start THEN now ELSE None]
<1>1. q.start \in BOOLEAN /\ FreeId \in 1..MaxRuns /\ FreeId \notin Ids
  BY FreshId DEF Created, RunsInv, RunsTypes, RequestsTypeOK
<1>2. n \in Run
  BY <1>1 DEF RunsInv, RunsTypes, RunsTypeOK, Run
<1>3. /\ runs' = runs \cup {n} /\ requests' = requests \ {q} /\ now' = now
      /\ raced' \in BOOLEAN /\ (~raced' => ~raced)
  BY DEF Created, Witnessed, RunsInv, RunsTypes, RunsTypeOK
<1>4. \A r \in runs : r.id # n.id
  BY <1>1 DEF Ids
<1>5. n.status = "DRAFT" <=> n.startAt = None
  BY <1>1, PoolRunsAssumption DEF RunsInv, RunsTypes, RunsTypeOK, Time
<1>6. RunsTypes'
  <2>1. RequestsTypeOK'
    BY <1>3 DEF RunsInv, RunsTypes, RequestsTypeOK, Ids
  <2>2. RunsTypeOK'
    BY <1>2, <1>3, <1>4, <1>5 DEF RunsInv, RunsTypes, RunsTypeOK
  <2> QED
    BY <2>1, <2>2 DEF RunsTypes
<1>7. ASSUME ~raced' PROVE WindowsInv'
  <2>1. WindowsInv /\ \A r \in runs : r.endAt # None
    BY <1>3, <1>7 DEF RunsInv, WindowsInv, StillAllowed, Created
  <2>2. ASSUME NEW o \in requests' PROVE StillAllowed(o)'
    <3>1. o \in requests /\ o.op # "create"
      BY <1>3, <1>7, <2>2 DEF Created, Witnessed, Races
    <3>2. o.op \in {"start", "end"} => o.id # n.id
      BY <1>1, <3>1 DEF RunsInv, RunsTypes, RequestsTypeOK
    <3> QED
      BY <1>3, <2>1, <3>1, <3>2 DEF WindowsInv, StillAllowed
  <2>3. ASSUME NEW r \in runs' PROVE StampsPast(r, now')
    BY <1>3, <2>1 DEF RunsInv, WindowsInv, StampsPast, RunsTypes, RunsTypeOK, Time
  <2>4. ASSUME NEW r \in runs PROVE Apart(r, n) /\ Apart(n, r)
    BY <2>1 DEF WindowsInv, StampsPast, Apart, Precedes
  <2>5. \A r, o \in runs' : r # o => Apart(r, o)'
    BY <1>3, <2>1, <2>4 DEF WindowsInv, Apart, Precedes
  <2>6. \A r, o \in runs' : r.endAt = None /\ o.endAt = None => r = o
    BY <1>3, <2>1
  <2> QED
    BY <2>2, <2>3, <2>5, <2>6 DEF WindowsInv
<1> QED
  BY <1>6, <1>7 DEF RunsInv

\* A start or an end changes one temporada, the one its check read.
LEMMA WrittenStep ==
    ASSUME RunsInv, NEW q \in requests, Started(q) \/ Ended(q)
    PROVE  RunsInv'
<1> DEFINE new(r) == IF q.op = "start" THEN StartedRun(r) ELSE EndedRun(r)
<1> DEFINE f(r) == IF r.id = q.id THEN new(r) ELSE r
<1>1. /\ q.op \in {"start", "end"} /\ q.id \in Ids
      /\ runs' = {f(r) : r \in runs}
      /\ requests' = requests \ {q} /\ now' = now
      /\ raced' \in BOOLEAN /\ (~raced' => ~raced /\ ~Races(q))
      /\ now \in Time /\ now \in Nat /\ None \notin Nat
  <2>1. q.op \in {"start", "end"} /\ requests' = requests \ {q} /\ now' = now
    BY DEF Started, Ended
  <2>2. q.id \in Ids
    BY <2>1 DEF RunsInv, RunsTypes, RequestsTypeOK
  <2>3. runs' = {f(r) : r \in runs}
    <3>1. CASE Started(q)
      BY <3>1 DEF Started
    <3>2. CASE Ended(q)
      <4>1. \A r \in runs : f(r) = IF r.id = q.id THEN EndedRun(r) ELSE r
        BY <3>2 DEF Ended
      <4> QED
        BY <3>2, <4>1 DEF Ended
    <3> QED
      BY <3>1, <3>2
  <2>4. raced' \in BOOLEAN /\ (~raced' => ~raced /\ ~Races(q))
    BY Zenon DEF Started, Ended, Witnessed
  <2>5. now \in Time /\ now \in Nat /\ None \notin Nat
    BY PoolRunsAssumption DEF RunsInv, RunsTypes, RunsTypeOK, Time
  <2> QED
    BY <2>1, <2>2, <2>3, <2>4, <2>5
<1>2. ASSUME NEW r \in runs
      PROVE  /\ f(r) \in Run /\ f(r).id = r.id
             /\ r.id # q.id => f(r) = r
             /\ r.id = q.id /\ q.op = "start" =>
                  f(r).status = "ACTIVE" /\ f(r).startAt = now /\ f(r).endAt = r.endAt
             /\ r.id = q.id /\ q.op = "end" =>
                  f(r).status = "ENDED" /\ f(r).endAt = now /\ f(r).startAt = r.startAt
  <2>1. r \in Run
    BY DEF RunsInv, RunsTypes, RunsTypeOK
  <2> QED
    BY <1>1, <2>1 DEF Run, StartedRun, EndedRun
<1>3. Ids' = Ids
  BY <1>1, <1>2 DEF Ids
<1>4. \A r, o \in runs : r.id = o.id => r = o
  BY DEF RunsInv, RunsTypes, RunsTypeOK
<1> HIDE DEF f, new
<1>5. ASSUME ~raced', NEW r \in runs, r.id = q.id
      PROVE  /\ WindowsInv /\ r.endAt = None
             /\ q.op = "start" => r.startAt = None
             /\ q.op = "end" => r.startAt # None
  <2>1. WindowsInv
    BY <1>1, <1>5 DEF RunsInv
  <2>2. (r.status = "DRAFT" <=> r.startAt = None) /\ (r.status = "ENDED" <=> r.endAt # None)
    BY <1>1, <1>5 DEF RunsInv, RunsTypes, RunsTypeOK
  <2>3. r.status = IF q.op = "start" THEN "DRAFT" ELSE "ACTIVE"
    BY <1>1, <1>5, <2>1 DEF WindowsInv, StillAllowed
  <2> QED
    BY <1>1, <2>1, <2>2, <2>3
<1>6. RunsTypes'
  <2>1. RequestsTypeOK'
    BY <1>1, <1>3 DEF RunsInv, RunsTypes, RequestsTypeOK
  <2>2. \A r, o \in runs' : r.id = o.id => r = o
    <3> SUFFICES ASSUME NEW r \in runs, NEW o \in runs, f(r).id = f(o).id
                 PROVE  f(r) = f(o)
      BY <1>1
    <3> QED
      BY <1>2, <1>4
  <2>3. ASSUME ~raced', NEW r \in runs
        PROVE  /\ f(r).status = "DRAFT" <=> f(r).startAt = None
               /\ f(r).status = "ENDED" <=> f(r).endAt # None
    <3>1. (r.status = "DRAFT" <=> r.startAt = None) /\ (r.status = "ENDED" <=> r.endAt # None)
      BY <1>1, <2>3 DEF RunsInv, RunsTypes, RunsTypeOK
    <3>2. CASE r.id # q.id
      BY <1>2, <3>1, <3>2
    <3>3. CASE r.id = q.id
      BY <1>1, <1>2, <1>5, <2>3, <3>3
    <3> QED
      BY <3>2, <3>3
  <2>4. RunsTypeOK'
    BY <1>1, <1>2, <2>2, <2>3 DEF RunsTypeOK
  <2> QED
    BY <2>1, <2>4 DEF RunsTypes
<1>7. ASSUME ~raced' PROVE WindowsInv'
  <2>1. PICK s \in runs : s.id = q.id
    BY <1>1 DEF Ids
  <2>2. /\ WindowsInv /\ s.endAt = None
        /\ q.op = "start" => s.startAt = None
        /\ q.op = "end" => s.startAt # None
    BY <1>5, <1>7, <2>1
  <2>3. ASSUME NEW r \in runs, r # s
        PROVE  f(r) = r /\ r.endAt # None /\ StampsPast(r, now) /\ r \in Run /\ Apart(r, s) /\ Apart(s, r)
    BY <1>2, <1>4, <2>1, <2>2, <2>3 DEF WindowsInv, RunsInv, RunsTypes, RunsTypeOK
  <2>4. ASSUME NEW o \in requests' PROVE StillAllowed(o)'
    <3>1. o \in requests /\ o.op # "create" /\ o.op \in {"start", "end"} /\ o.id # q.id
      BY <1>1, <1>7, <2>1, <2>2, <2>4
      DEF Started, Ended, Witnessed, Races, WindowsInv, StillAllowed, RunsInv, RunsTypes, RequestsTypeOK
    <3>2. StillAllowed(o)
      BY <2>2, <3>1 DEF WindowsInv
    <3> QED
      BY <1>1, <1>2, <3>1, <3>2 DEF StillAllowed
  <2>5. StampsPast(f(s), now')
    BY <1>1, <1>2, <2>1, <2>2 DEF StampsPast, WindowsInv
  <2>6. \A r \in runs' : StampsPast(r, now')
    BY <1>1, <2>3, <2>5 DEF StampsPast
  <2>7. ASSUME NEW r \in runs, r # s PROVE Apart(r, f(s)) /\ Apart(f(s), r)
    <3>1. /\ f(s).startAt # None => f(s).startAt = now \/ f(s).startAt = s.startAt
          /\ q.op = "end" => s.startAt = f(s).startAt
          /\ q.op = "start" => f(s).startAt = now
      BY <1>1, <1>2, <2>1
    <3>2. CASE q.op = "start"
      BY <1>1, <2>3, <2>7, <3>1, <3>2 DEF Apart, Precedes, StampsPast
    <3>3. CASE q.op = "end"
      BY <2>2, <2>3, <2>7, <3>1, <3>3 DEF Apart, Precedes
    <3> QED
      BY <1>1, <3>2, <3>3
  <2>8. \A r, o \in runs' : r # o => Apart(r, o)'
    <3> SUFFICES ASSUME NEW r \in runs, NEW o \in runs, f(r) # f(o)
                 PROVE  Apart(f(r), f(o))
      BY <1>1 DEF Apart, Precedes
    <3> QED
      BY <2>2, <2>3, <2>7 DEF WindowsInv
  <2>9. \A r, o \in runs' : r.endAt = None /\ o.endAt = None => r = o
    BY <1>1, <2>3
  <2> QED
    BY <2>4, <2>6, <2>8, <2>9 DEF WindowsInv
<1> QED
  BY <1>6, <1>7 DEF RunsInv

-----------------------------------------------------------------------------
(* The theorems. *)

LEMMA RunsInvStep == RunsInv /\ [RunsNext]_runsVars => RunsInv'
<1> SUFFICES ASSUME RunsInv, [RunsNext]_runsVars PROVE RunsInv'
  OBVIOUS
<1>1. CASE UNCHANGED runsVars
  BY <1>1 DEF runsVars, RunsInv, RunsTypes, RunsTypeOK, RequestsTypeOK, Ids, WindowsInv,
              StillAllowed, StampsPast, Apart, Precedes
<1>2. ASSUME NEW start \in BOOLEAN, CreateChecked(start) PROVE RunsInv'
  <2> DEFINE q == [op |-> "create", key |-> FreeKey, start |-> start]
  <2>1. StillAllowed(q)
    BY <1>2 DEF CreateChecked, OpenRuns, StillAllowed
  <2> QED
    BY <1>2, <2>1, CheckedStep DEF CreateChecked
<1>3. ASSUME NEW r \in runs, StartChecked(r) PROVE RunsInv'
  <2> DEFINE q == [op |-> "start", key |-> FreeKey, id |-> r.id]
  <2>1. StillAllowed(q)
    BY <1>3 DEF StartChecked, MayStart, StillAllowed, RunsInv, RunsTypes, RunsTypeOK
  <2>2. q.id \in Ids
    BY DEF Ids
  <2> QED
    BY <1>3, <2>1, <2>2, CheckedStep DEF StartChecked
<1>4. ASSUME NEW r \in runs, EndChecked(r) PROVE RunsInv'
  <2> DEFINE q == [op |-> "end", key |-> FreeKey, id |-> r.id]
  <2>1. StillAllowed(q)
    BY <1>4 DEF EndChecked, MayEnd, StillAllowed, RunsInv, RunsTypes, RunsTypeOK
  <2>2. q.id \in Ids
    BY DEF Ids
  <2> QED
    BY <1>4, <2>1, <2>2, CheckedStep DEF EndChecked
<1> QED
  BY <1>1, <1>2, <1>3, <1>4, CreatedStep, WrittenStep, TickStep DEF RunsNext

LEMMA RunsInvHolds == RunsSpec => []RunsInv
BY RunsInitInv, RunsInvStep, PTL DEF RunsSpec

\* A pool has at most one open temporada, whatever the order in which the
\* requests of PoolsService are served, unless two of them overlap on one.
THEOREM OneOpenRunHolds == RunsSpec => []OneOpenRun
<1>1. RunsInv => OneOpenRun
  BY DEF RunsInv, WindowsInv, OneOpenRun
<1> QED
  BY <1>1, RunsInvHolds, PTL

\* No match counts in two temporadas of a pool: a temporada starts only after
\* every other has closed, and a kickoff at the instant of a close belongs to
\* the one that closes.
THEOREM WindowsAreDisjoint == RunsSpec => []WindowsDisjoint
<1>1. RunsInv => WindowsDisjoint
  <2> SUFFICES ASSUME RunsInv, ~raced, NEW t \in 0..(MaxTime + 1), NEW r \in runs,
                      NEW q \in runs, Covers(r, t), Covers(q, t), r # q
               PROVE  FALSE
    BY DEF WindowsDisjoint
  <2>1. r \in Run /\ q \in Run /\ (Apart(r, q) /\ Apart(q, r))
    BY DEF RunsInv, RunsTypes, RunsTypeOK, WindowsInv
  <2> QED
    BY <2>1, PoolRunsAssumption DEF Covers, Apart, Precedes, Run, Time
<1> QED
  BY <1>1, RunsInvHolds, PTL

\* A temporada that closed is never written again, so the matches its champion
\* is decided by stay those.
THEOREM ClosedStaysFrozen == RunsSpec => ClosedIsFrozen
<1>1. RunsInv /\ [RunsNext]_runsVars =>
        [\A r \in runs : r.endAt # None /\ ~raced' => r \in runs']_runsVars
  <2> SUFFICES ASSUME RunsInv, RunsNext, NEW r \in runs, r.endAt # None, ~raced'
               PROVE  r \in runs'
    BY DEF runsVars
  <2>1. ASSUME NEW q \in requests, Started(q) \/ Ended(q) PROVE r \in runs'
    <3>1. ~raced /\ q.op \in {"start", "end"}
      BY <2>1 DEF Started, Ended, Witnessed
    <3>2. r.status = "ENDED"
      BY <3>1 DEF RunsInv, RunsTypes, RunsTypeOK
    <3>3. r.id # q.id
      BY <3>1, <3>2 DEF RunsInv, WindowsInv, StillAllowed
    <3> QED
      BY <2>1, <3>3 DEF Started, Ended
  <2> QED
    BY <2>1 DEF RunsNext, CreateChecked, StartChecked, EndChecked, Created, Tick
<1> QED
  BY <1>1, RunsInvHolds, PTL DEF RunsSpec, ClosedIsFrozen
-----------------------------------------------------------------------------
(* A closed temporada.  Its window no longer moves, its matches are those     *)
(* played inside, and a bet is only taken on a match without a result, unless *)
(* an admin places it.                                                        *)

RankingsInv ==
    /\ today \in Nat
    /\ temporada.status = "ENDED" => temporada.startAt \in Nat /\ temporada.endAt \in Nat
    /\ temporada.status = "ACTIVE" => temporada.startAt \in Nat
    /\ temporada = [status |-> temporada.status, startAt |-> temporada.startAt,
                    endAt |-> temporada.endAt]
    /\ guess = [u \in Bettors |-> guess[u]]
    /\ members \subseteq Bettors

LEMMA RankingsKept == RankingsInv /\ [RankingsNext]_rankingsVars => RankingsInv'
<1> SUFFICES ASSUME RankingsInv, [RankingsNext]_rankingsVars PROVE RankingsInv'
  OBVIOUS
<1>1. CASE RunMoves
  <2>1. UNCHANGED <<today, guess, members>>
    BY <1>1 DEF RunMoves
  <2> PICK s, a, e : s = temporada.status /\ a = temporada.startAt /\ e = temporada.endAt
    OBVIOUS
  <2>2. temporada = [status |-> s, startAt |-> a, endAt |-> e]
    BY DEF RankingsInv
  <2>3. \/ temporada' = [status |-> "ACTIVE", startAt |-> today, endAt |-> e]
        \/ s = "ACTIVE" /\ temporada' = [status |-> "ENDED", startAt |-> a, endAt |-> today]
    BY <1>1, <2>2 DEF RunMoves
  <2> QED
    BY <2>1, <2>2, <2>3 DEF RankingsInv
<1>2. ASSUME NEW u \in Bettors, NEW f \in Fixtures, NEW line \in Guesses,
             Bet(u, f, line) \/ AdminBet(u, f, line)
      PROVE  RankingsInv'
  BY <1>2 DEF Bet, AdminBet, Placed, RankingsInv
<1>3. CASE DayPasses
  BY <1>3 DEF DayPasses, RankingsInv
<1>4. CASE UNCHANGED <<today, temporada, guess>> /\ members' \subseteq members
  BY <1>4 DEF RankingsInv
<1>5. CASE \/ \E u \in Leavers : Departs(u)
           \/ \E f \in Fixtures :
                StatusMoves(f) \/ Redated(f) \/ \E side \in ScoringSides : ScoreMoves(f, side)
           \/ UNCHANGED rankingsVars
  <2>1. UNCHANGED <<today, temporada, guess>> /\ members' \subseteq members
    BY <1>5 DEF Departs, StatusMoves, Redated, ScoreMoves, rankingsVars
  <2> QED
    BY <1>4, <2>1
<1> QED
  BY <1>1, <1>2, <1>3, <1>5 DEF RankingsNext

\* A step leaves the bets on the matches that count as they are.
LEMMA CountedBetsStand ==
    ASSUME RankingsInv, RankingsNext, NEW u \in Bettors, NEW f \in Fixtures, HasResult(f)
    PROVE  /\ f \in DOMAIN guess[u] => f \in DOMAIN guess'[u]
           /\ \/ decrees' = decrees + 1
              \/ /\ f \in DOMAIN guess[u] <=> f \in DOMAIN guess'[u]
                 /\ f \in DOMAIN guess[u] => guess'[u][f] = guess[u][f]
<1>1. CASE \E v \in Bettors, g \in Fixtures, line \in Guesses : Bet(v, g, line) \/ AdminBet(v, g, line)
  <2>1. PICK v \in Bettors, g \in Fixtures, line \in Guesses : Bet(v, g, line) \/ AdminBet(v, g, line)
    BY <1>1
  <2>2. /\ g # f \/ decrees' = decrees + 1
        /\ guess' = [guess EXCEPT ![v] = [h \in DOMAIN @ \cup {g} |-> IF h = g THEN line ELSE @[h]]]
    BY <2>1 DEF Bet, AdminBet, Placed, HasResult
  <2>3. guess'[u] = IF u = v THEN [h \in DOMAIN guess[u] \cup {g} |-> IF h = g THEN line ELSE guess[u][h]]
                    ELSE guess[u]
    BY <2>2 DEF RankingsInv
  <2> QED
    BY <2>2, <2>3
<1>2. CASE UNCHANGED guess
  BY <1>2
<1> QED
  BY <1>1, <1>2 DEF RankingsNext, Departs, StatusMoves, Redated, ScoreMoves, RunMoves, DayPasses

\* However late bets, later matches and new dates follow, each who stays in the
\* table of a closed temporada keeps their points while its matches stay, but for
\* one whom an admin's bet on one of those matches is placed for.
THEOREM ClosedPointsAlwaysStand == RankingsSpec => ClosedPointsStand
<1>1. RankingsInit => RankingsInv
  BY DEF RankingsInit, RankingsInv
<1>2. RankingsInv /\ RankingsInv' /\ [RankingsNext]_rankingsVars =>
        [Closed /\ PlayedInside' = PlayedInside =>
           \A u \in DOMAIN PoolTable \cap DOMAIN PoolTable' :
             \/ PoolTable'[u].points = PoolTable[u].points
             \/ \E f \in DOMAIN PlayedInside : Decreed(u, f)]_rankingsVars
  <2> SUFFICES ASSUME RankingsInv, RankingsInv', RankingsNext, Closed, PlayedInside' = PlayedInside,
                      NEW u \in DOMAIN PoolTable \cap DOMAIN PoolTable',
                      ~\E f \in DOMAIN PlayedInside : Decreed(u, f)
               PROVE  PoolTable'[u].points = PoolTable[u].points
    OBVIOUS
  <2>1. temporada' = temporada
    BY DEF Closed, RankingsNext, Bet, AdminBet, Departs, StatusMoves, Redated, ScoreMoves, RunMoves, DayPasses
  <2>2. PoolTable = SeasonTable(members, temporada) /\ PoolTable' = SeasonTable(members, temporada)'
    BY <2>1 DEF PoolTable, Closed
  <2> DEFINE C == Counted(temporada)
             paid == C \cap DOMAIN guess[u]
             pays == [f \in paid |-> Earned(u, f)]
  <2>3. temporada.startAt # Never /\ temporada.endAt # Never
    BY DEF RankingsInv, Closed, Never
  <2>4. C = DOMAIN PlayedInside /\ C' = DOMAIN PlayedInside'
    BY <2>1, <2>3 DEF Closed, Counted, PlayedInside, InWindow
  <2>5. C' = C /\ C \subseteq Fixtures /\ \A f \in C : HasResult(f)
    BY <2>4 DEF Counted
  <2>6. \A f \in C : fixture'[f] = fixture[f]
    <3> TAKE f \in C
    <3>1. PlayedInside[f] = fixture[f] /\ PlayedInside'[f] = fixture'[f]
      BY <2>4, <2>5 DEF PlayedInside
    <3> QED
      BY <3>1
  <2>7. u \in Bettors
    <3>1. DOMAIN PoolTable = {v \in members \cap enabled : guess[v] # <<>>}
      BY <2>2 DEF SeasonTable
    <3> QED
      BY <3>1 DEF RankingsInv
  <2>8. \A f \in C : /\ f \in DOMAIN guess[u] <=> f \in DOMAIN guess'[u]
                     /\ f \in DOMAIN guess[u] => guess'[u][f] = guess[u][f]
    BY <2>4, <2>5, <2>7, CountedBetsStand DEF Decreed
  <2>9. paid' = paid
    BY <2>5, <2>8
  <2>10. \A f \in paid : Earned(u, f)' = Earned(u, f)
    BY <2>6, <2>8 DEF Earned, ScoreOf, Weight
  <2>11. pays' = pays
    BY <2>9, <2>10
  <2>12. PoolTable[u].points = Together(pays) /\ PoolTable'[u].points = Together(pays)'
    BY <2>2 DEF SeasonTable
  <2> QED
    BY <2>11, <2>12
<1> QED
  BY <1>1, <1>2, RankingsKept, PTL DEF RankingsSpec, ClosedPointsStand

-----------------------------------------------------------------------------
(* The pages.  That they agree rests on little of the state: a user's bets  *)
(* are on matches of the season.  The rest is what the sort and the ranks   *)
(* make of any table, and that points add up alike in any order.            *)

PagesInv ==
    /\ RankingsInv
    /\ \A u \in Bettors : DOMAIN guess[u] \subseteq Fixtures

LEMMA PagesInitInv == RankingsInit => PagesInv
<1> SUFFICES ASSUME RankingsInit PROVE PagesInv
  OBVIOUS
<1>1. RankingsInv
  BY DEF RankingsInit, RankingsInv
<1>2. guess = [u \in Bettors |-> <<>>] /\ DOMAIN <<>> = {}
  BY DEF RankingsInit
<1> QED
  BY <1>1, <1>2 DEF PagesInv

LEMMA PagesKept == PagesInv /\ [RankingsNext]_rankingsVars => PagesInv'
<1> SUFFICES ASSUME PagesInv, [RankingsNext]_rankingsVars PROVE PagesInv'
  OBVIOUS
<1>1. RankingsInv /\ RankingsInv'
  BY RankingsKept DEF PagesInv
<1>2. CASE \E v \in Bettors, g \in Fixtures, line \in Guesses : Bet(v, g, line) \/ AdminBet(v, g, line)
  <2>1. PICK v \in Bettors, g \in Fixtures, line \in Guesses : Bet(v, g, line) \/ AdminBet(v, g, line)
    BY <1>2
  <2>2. guess' = [guess EXCEPT ![v] = [h \in DOMAIN @ \cup {g} |-> IF h = g THEN line ELSE @[h]]]
    BY <2>1 DEF Bet, AdminBet, Placed
  <2>3. ASSUME NEW u \in Bettors PROVE DOMAIN guess'[u] \subseteq Fixtures
    <3>1. guess'[u] = IF u = v THEN [h \in DOMAIN guess[u] \cup {g} |-> IF h = g THEN line ELSE guess[u][h]]
                      ELSE guess[u]
      BY <1>1, <2>2 DEF RankingsInv
    <3>2. DOMAIN guess[u] \subseteq Fixtures
      BY DEF PagesInv
    <3> QED
      BY <3>1, <3>2
  <2> QED
    BY <1>1, <2>3 DEF PagesInv
<1>3. CASE UNCHANGED guess
  BY <1>1, <1>3 DEF PagesInv
<1> QED
  BY <1>2, <1>3
  DEF RankingsNext, rankingsVars, Departs, StatusMoves, Redated, ScoreMoves, RunMoves, DayPasses

-----------------------------------------------------------------------------
(* A row, and the order of the rows. *)

RowType == [points : Int, exact : Nat, scored : Nat, predicted : Nat]

LEMMA AheadIs ==
    ASSUME NEW a \in RowType, NEW b \in RowType
    PROVE  Ahead(a, b) <=>
             \/ a.points > b.points
             \/ a.points = b.points /\ a.exact > b.exact
             \/ a.points = b.points /\ a.exact = b.exact /\ a.scored > b.scored
             \/ a.points = b.points /\ a.exact = b.exact /\ a.scored = b.scored /\ a.predicted > b.predicted
<1> DEFINE k == RowKeys(a)
           l == RowKeys(b)
<1>1. /\ k[1] = a.points /\ k[2] = a.exact /\ k[3] = a.scored /\ k[4] = a.predicted
      /\ l[1] = b.points /\ l[2] = b.exact /\ l[3] = b.scored /\ l[4] = b.predicted
  BY DEF RowKeys
<1>2. Ahead(a, b) <=> \E i \in 1 .. 4 : k[i] > l[i] /\ \A j \in 1 .. (i - 1) : k[j] = l[j]
  BY DEF Ahead
<1> HIDE DEF k, l
<1>3. 1 .. 4 = {1, 2, 3, 4} /\ 1 .. 3 = {1, 2, 3} /\ 1 .. 2 = {1, 2} /\ 1 .. 1 = {1} /\ 1 .. 0 = {}
  OBVIOUS
<1>4. Ahead(a, b) <=> \/ k[1] > l[1] /\ \A j \in 1 .. 0 : k[j] = l[j]
                      \/ k[2] > l[2] /\ \A j \in 1 .. 1 : k[j] = l[j]
                      \/ k[3] > l[3] /\ \A j \in 1 .. 2 : k[j] = l[j]
                      \/ k[4] > l[4] /\ \A j \in 1 .. 3 : k[j] = l[j]
  BY <1>2
<1> QED
  BY <1>1, <1>3, <1>4

LEMMA SameKeys ==
    ASSUME NEW a \in RowType, NEW b \in RowType
    PROVE  /\ RowKeys(a) = RowKeys(b) <=> a = b
           /\ a = b \/ Ahead(a, b) \/ Ahead(b, a)
<1>1. /\ a = [points |-> a.points, exact |-> a.exact, scored |-> a.scored, predicted |-> a.predicted]
      /\ b = [points |-> b.points, exact |-> b.exact, scored |-> b.scored, predicted |-> b.predicted]
  BY DEF RowType
<1>2. RowKeys(a) = RowKeys(b) <=>
        a.points = b.points /\ a.exact = b.exact /\ a.scored = b.scored /\ a.predicted = b.predicted
  BY DEF RowKeys
<1>3. a.points \in Int /\ b.points \in Int /\ a.exact \in Nat /\ b.exact \in Nat
      /\ a.scored \in Nat /\ b.scored \in Nat /\ a.predicted \in Nat /\ b.predicted \in Nat
  BY DEF RowType
<1> QED
  BY <1>1, <1>2, <1>3, AheadIs

LEMMA AheadOrders ==
    ASSUME NEW a \in RowType, NEW b \in RowType, NEW c \in RowType
    PROVE  /\ ~Ahead(a, a)
           /\ Ahead(a, b) /\ Ahead(b, c) => Ahead(a, c)
BY AheadIs DEF RowType

\* The names are in one order.
LEMMA NamesOrdered ==
    /\ \A u \in Bettors : ~ByName(u, u)
    /\ \A u, v \in Bettors : u = v \/ ByName(u, v) \/ ByName(v, u)
    /\ \A u, v, w \in Bettors : ByName(u, v) /\ ByName(v, w) => ByName(u, w)
<1> DEFINE n == Cardinality(Bettors)
           f == NameOrder
<1>1. n \in Nat /\ IsFiniteSet(Bettors)
  BY RankingsAssumption, FS_CardinalityType DEF RankingsAssumption
<1>2. \E g \in [1 .. n -> Bettors] : IsInjective(g)
  <2>1. ExistsBijection(1 .. n, Bettors)
    BY <1>1, FS_CardinalityType
  <2>2. PICK g : g \in Bijection(1 .. n, Bettors)
    BY <2>1 DEF ExistsBijection
  <2> QED
    BY <2>2 DEF Bijection, Injection, IsInjective
<1>3. f \in [1 .. n -> Bettors] /\ IsInjective(f)
  BY <1>2 DEF NameOrder, SetToSeq
<1>4. f \in Injection(1 .. n, Bettors)
  BY <1>3 DEF Injection, IsInjective
<1>5. f \in Surjection(1 .. n, Bettors)
  BY <1>1, <1>4, FS_Interval, FS_Injection
<1>6. DOMAIN f = 1 .. n /\ \A i, j \in 1 .. n : f[i] = f[j] => i = j
  BY <1>3 DEF IsInjective
<1>7. \A u \in Bettors : \E i \in 1 .. n : f[i] = u
  BY <1>5 DEF Surjection
<1>8. \A u, v : ByName(u, v) <=> \E i, j \in 1 .. n : i < j /\ f[i] = u /\ f[j] = v
  BY <1>6 DEF ByName
<1> HIDE DEF f, n
<1>9. \A u \in Bettors : ~ByName(u, u)
  <2> SUFFICES ASSUME NEW u \in Bettors, ByName(u, u) PROVE FALSE
    OBVIOUS
  <2>1. PICK i, j \in 1 .. n : i < j /\ f[i] = u /\ f[j] = u
    BY <1>8
  <2> QED
    BY <1>1, <1>6, <2>1
<1>10. ASSUME NEW u \in Bettors, NEW v \in Bettors PROVE u = v \/ ByName(u, v) \/ ByName(v, u)
  <2>1. PICK i \in 1 .. n : f[i] = u
    BY <1>7
  <2>2. PICK j \in 1 .. n : f[j] = v
    BY <1>7
  <2>3. i = j \/ i < j \/ j < i
    BY <1>1
  <2> QED
    BY <1>8, <2>1, <2>2, <2>3
<1>11. ASSUME NEW u \in Bettors, NEW v \in Bettors, NEW w \in Bettors, ByName(u, v), ByName(v, w)
       PROVE  ByName(u, w)
  <2>1. PICK i, j \in 1 .. n : i < j /\ f[i] = u /\ f[j] = v
    BY <1>8, <1>11
  <2>2. PICK k, l \in 1 .. n : k < l /\ f[k] = v /\ f[l] = w
    BY <1>8, <1>11
  <2>3. j = k /\ i < l
    BY <1>1, <1>6, <2>1, <2>2
  <2> QED
    BY <1>8, <2>1, <2>2, <2>3
<1> QED
  BY <1>9, <1>10, <1>11

Table == UNION {[D -> RowType] : D \in SUBSET Bettors}
Places(table) == [v \in DOMAIN table |-> Above(table, v)]

LEMMA TableOrdered ==
    ASSUME NEW table \in Table
    PROVE  Orders(Places(table)) /\ IsFiniteSet(DOMAIN table)
<1> DEFINE D == DOMAIN table
<1>1. D \subseteq Bettors /\ \A u \in D : table[u] \in RowType
  BY DEF Table
<1>2. IsFiniteSet(D)
  BY <1>1, RankingsAssumption, FS_Subset DEF RankingsAssumption
<1>3. \A u, v \in D : u \in Above(table, v) <=>
        Ahead(table[u], table[v]) \/ (table[u] = table[v] /\ ByName(u, v))
  BY DEF Above
<1>4. \A v \in D : Above(table, v) \subseteq D
  BY DEF Above
<1>5. ASSUME NEW u \in D PROVE u \notin Above(table, u)
  BY <1>1, <1>3, AheadOrders, NamesOrdered
<1>6. ASSUME NEW u \in D, NEW v \in D PROVE u = v \/ u \in Above(table, v) \/ v \in Above(table, u)
  BY <1>1, <1>3, SameKeys, NamesOrdered
<1>7. ASSUME NEW u \in D, NEW v \in D, NEW w \in D, u \in Above(table, v), v \in Above(table, w)
      PROVE  u \in Above(table, w)
  <2>1. u \in Bettors /\ v \in Bettors /\ w \in Bettors
    BY <1>1
  <2>2. table[u] \in RowType /\ table[v] \in RowType /\ table[w] \in RowType
    BY <1>1
  <2>3. CASE Ahead(table[u], table[v]) /\ Ahead(table[v], table[w])
    BY <1>3, <2>2, <2>3, AheadOrders
  <2>4. CASE table[u] = table[v] /\ table[v] = table[w]
    <3>1. ByName(u, v) /\ ByName(v, w)
      BY <1>3, <1>7, <2>2, <2>4, AheadOrders
    <3> QED
      BY <1>3, <2>1, <2>4, <3>1, NamesOrdered
  <2> QED
    BY <1>3, <1>7, <2>3, <2>4
<1>8. DOMAIN Places(table) = D /\ \A v \in D : Places(table)[v] = Above(table, v)
  BY DEF Places
<1>9. ASSUME NEW n \in D, NEW m \in Above(table, n) PROVE Above(table, m) \subseteq Above(table, n)
  BY <1>4, <1>7, <1>9
<1> HIDE DEF D
<1> QED
  BY <1>2, <1>4, <1>5, <1>6, <1>8, <1>9 DEF Orders, D

\* The rank of each place, the ones of a tie together.
RankRule(table, order, f) ==
    [i \in DOMAIN order |-> IF SharesRank(table, order, i) THEN f[i - 1] ELSE i]

LEMMA RanksAreChosen ==
    ASSUME NEW table
    PROVE  LET order == Order(table)
               rank == CHOOSE f : f = RankRule(table, order, f)
           IN Ranks(table) = [u \in DOMAIN table |-> rank[CHOOSE i \in DOMAIN order : order[i] = u]]
BY DEF Ranks, RankRule

\* A row's place among the others, by the number of people ahead of it.
LEMMA PlaceOrTie ==
    ASSUME NEW table \in Table, NEW i \in DOMAIN Order(table)
    PROVE  LET order == Order(table)
               g(k) == 1 + Cardinality(PeopleAhead(table, order[k]))
           IN /\ order[i] \in DOMAIN table /\ i \in Nat \ {0}
              /\ SharesRank(table, order, i) => i - 1 \in DOMAIN order /\ g(i) = g(i - 1)
              /\ ~SharesRank(table, order, i) => g(i) = i
<1> DEFINE order == Order(table)
           size == Cardinality(DOMAIN table)
           D == DOMAIN table
           ahead == Places(table)
<1>1. Orders(ahead) /\ DOMAIN ahead = D /\ order = InOrder(ahead)
  BY TableOrdered DEF Places, Order
<1>2. /\ size \in Nat /\ order \in [1 .. size -> D]
      /\ \A n \in D : Cardinality(ahead[n]) + 1 \in 1 .. size /\ order[Cardinality(ahead[n]) + 1] = n
      /\ \A k \in 1 .. size : Cardinality(ahead[order[k]]) = k - 1
      /\ \A k, l \in 1 .. size : k < l <=> order[k] \in ahead[order[l]]
  BY <1>1, InOrderIs
<1>3. \A u, v \in D : u \in ahead[v] <=>
        Ahead(table[u], table[v]) \/ (table[u] = table[v] /\ ByName(u, v))
  BY DEF Places, Above
<1>4. \A v \in D : ahead[v] \subseteq D
  BY <1>1 DEF Orders
<1>5. \A u \in D : table[u] \in RowType
  BY DEF Table
<1> HIDE DEF order, ahead, D, size
<1>6. DOMAIN order = 1 .. size /\ i \in 1 .. size
  BY <1>2 DEF order
<1>7. ASSUME SharesRank(table, order, i)
      PROVE  /\ i - 1 \in DOMAIN order
             /\ PeopleAhead(table, order[i]) = PeopleAhead(table, order[i - 1])
  <2>1. i > 1 /\ RowKeys(table[order[i - 1]]) = RowKeys(table[order[i]])
    BY <1>7 DEF SharesRank
  <2>2. i - 1 \in 1 .. size /\ order[i] \in D /\ order[i - 1] \in D
    BY <1>2, <1>6, <2>1
  <2>3. table[order[i - 1]] = table[order[i]]
    BY <1>5, <2>1, <2>2, SameKeys
  <2> QED
    BY <1>6, <2>2, <2>3 DEF PeopleAhead
<1>8. ASSUME ~SharesRank(table, order, i)
      PROVE  PeopleAhead(table, order[i]) = ahead[order[i]]
  <2> DEFINE u == order[i]
  <2>1. u \in D
    BY <1>2, <1>6
  <2>2. \A v \in D : Ahead(table[v], table[u]) => v \in ahead[u]
    BY <1>3, <2>1
  <2>3. ASSUME NEW v \in D, v \in ahead[u] PROVE Ahead(table[v], table[u])
    <3> SUFFICES ASSUME ~Ahead(table[v], table[u]) PROVE FALSE
      OBVIOUS
    <3>1. table[v] = table[u]
      BY <1>3, <2>1, <2>3
    <3>2. PICK k \in 1 .. size : order[k] = v
      BY <1>2
    <3>3. k < i /\ i - 1 \in 1 .. size
      <4>1. \A x, y \in 1 .. size : x < y <=> order[x] \in ahead[order[y]]
        BY <1>2
      <4>2. order[k] \in ahead[order[i]]
        BY <2>3, <3>2
      <4>3. k < i
        BY <1>6, <4>1, <4>2
      <4> QED
        BY <1>2, <1>6, <4>3
    <3> DEFINE w == order[i - 1]
    <3>4. w \in D /\ (k = i - 1 \/ k < i - 1) /\ i - 1 < i
      <4>1. order \in [1 .. size -> D] /\ size \in Nat
        BY <1>2
      <4> QED
        BY <1>6, <3>2, <3>3, <4>1
    <3>5. (w = v \/ v \in ahead[w]) /\ w \in ahead[u]
      BY <1>2, <1>6, <3>2, <3>3, <3>4
    <3> HIDE DEF w
    <3>6. w = v \/ table[v] = table[w] \/ Ahead(table[v], table[w])
      BY <1>3, <3>4, <3>5
    <3>7. table[w] = table[u] \/ Ahead(table[w], table[u])
      BY <1>3, <2>1, <3>4, <3>5
    <3>8. table[u] \in RowType /\ table[v] \in RowType /\ table[w] \in RowType
      BY <1>5, <2>1, <3>4
    <3>9. table[w] = table[u]
      BY <3>1, <3>6, <3>7, <3>8, AheadOrders
    <3>10. SharesRank(table, order, i)
      BY <3>3, <3>9, <1>6 DEF SharesRank, w, u
    <3> QED
      BY <1>8, <3>10
  <2> HIDE DEF u
  <2>4. PeopleAhead(table, u) = ahead[u]
    BY <1>4, <2>1, <2>2, <2>3 DEF PeopleAhead, D
  <2> QED
    BY <2>4 DEF u
<1>9. order[i] \in D /\ i \in Nat \ {0}
  BY <1>2, <1>6
<1>10. ASSUME ~SharesRank(table, order, i) PROVE 1 + Cardinality(PeopleAhead(table, order[i])) = i
  BY <1>2, <1>6, <1>8, <1>10
<1> QED
  BY <1>7, <1>9, <1>10 DEF order, D

LEMMA RanksCount ==
    ASSUME NEW table \in Table, NEW u \in DOMAIN table
    PROVE  Ranks(table)[u] = 1 + Cardinality(PeopleAhead(table, u))
<1> DEFINE order == Order(table)
           rank == CHOOSE f : f = RankRule(table, order, f)
           g == [i \in DOMAIN order |-> 1 + Cardinality(PeopleAhead(table, order[i]))]
<1>1. Ranks(table) = [v \in DOMAIN table |-> rank[CHOOSE i \in DOMAIN order : order[i] = v]]
  BY RanksAreChosen
<1>2. \A i \in DOMAIN order :
        /\ order[i] \in DOMAIN table /\ i \in Nat \ {0}
        /\ SharesRank(table, order, i) => i - 1 \in DOMAIN order /\ g[i] = g[i - 1]
        /\ ~SharesRank(table, order, i) => g[i] = i
  BY PlaceOrTie
<1>3. g = RankRule(table, order, g)
  <2> DEFINE ruled == RankRule(table, order, g)
  <2>1. \A i \in DOMAIN order : ruled[i] = g[i]
    BY <1>2 DEF RankRule
  <2>2. DOMAIN ruled = DOMAIN order /\ ruled = [i \in DOMAIN order |-> ruled[i]]
    BY DEF RankRule
  <2>3. g = [i \in DOMAIN order |-> g[i]]
    OBVIOUS
  <2> HIDE DEF ruled, g
  <2>4. ruled = g
    BY <2>1, <2>2, <2>3
  <2> QED
    BY <2>4 DEF ruled
<1> HIDE DEF g
<1>4. rank = RankRule(table, order, rank)
  BY <1>3
<1> HIDE DEF rank
<1>5. \A i \in DOMAIN order : rank[i] = IF SharesRank(table, order, i) THEN rank[i - 1] ELSE i
  BY <1>4 DEF RankRule
<1> DEFINE Off == {i \in DOMAIN order : rank[i] # g[i]}
<1>6. Off = {}
  <2> SUFFICES ASSUME Off # {} PROVE FALSE
    OBVIOUS
  <2>1. Off \subseteq Nat
    BY <1>2
  <2>2. PICK i \in Off : \A j \in Off : i <= j
    BY <2>1, LeastNat
  <2>3. CASE SharesRank(table, order, i)
    <3>1. i - 1 \in DOMAIN order /\ g[i] = g[i - 1] /\ rank[i] = rank[i - 1] /\ i \in Nat
      BY <1>2, <1>5, <2>2, <2>3
    <3>2. i - 1 \notin Off
      BY <2>2, <3>1
    <3> QED
      BY <2>2, <3>1, <3>2
  <2>4. CASE ~SharesRank(table, order, i)
    BY <1>2, <1>5, <2>2, <2>4
  <2> QED
    BY <2>3, <2>4
<1>7. \E i \in DOMAIN order : order[i] = u
  <2>1. Orders(Places(table)) /\ DOMAIN Places(table) = DOMAIN table /\ order = InOrder(Places(table))
    BY TableOrdered DEF Places, Order
  <2> HIDE DEF order
  <2> QED
    BY <2>1, InOrderIs
<1> DEFINE i == CHOOSE i \in DOMAIN order : order[i] = u
<1>8. i \in DOMAIN order /\ order[i] = u
  BY <1>7
<1>9. Ranks(table)[u] = rank[i]
  BY <1>1
<1> HIDE DEF i, order
<1>10. rank[i] = g[i]
  BY <1>6, <1>8
<1> QED
  BY <1>8, <1>9, <1>10 DEF g

-----------------------------------------------------------------------------
(* The points of a page. *)

LEMMA TogetherIs == ASSUME NEW points PROVE Together(points) = Summed(points)
BY SMT DEF Together, Summed, MapThenSumSet, MapThenFoldSet, Totals, Adds, One

LEMMA WeightIs == ASSUME NEW f \in Fixtures PROVE Weight(f) \in Int
<1> DEFINE rounds == {RoundOf[g] : g \in Fixtures}
           earlier == {q \in rounds : q.knockout /\ q.season = RoundOf[f].season /\ q.pos < RoundOf[f].pos}
<1>1. IsFiniteSet(rounds)
  <2> DEFINE h == [g \in Fixtures |-> RoundOf[g]]
  <2>1. h \in Surjection(Fixtures, rounds)
    BY DEF Surjection
  <2> HIDE DEF h, rounds
  <2> QED
    BY <2>1, FS_Surjection, RankingsAssumption DEF RankingsAssumption
<1>2. Cardinality(earlier) \in Nat
  BY <1>1, FS_Subset, FS_CardinalityType
<1>3. DepthOf(rounds, RoundOf[f]) = 1 + Cardinality(earlier)
  BY DEF DepthOf
<1> HIDE DEF rounds, earlier
<1>4. PhaseWeight(DepthOf(rounds, RoundOf[f])) \in Int
  <2> PICK d \in Nat : d = DepthOf(rounds, RoundOf[f])
    BY <1>2, <1>3
  <2>1. PhaseStep \in Nat /\ PhaseCap \in Int
    BY ScoringAssumption DEF ScoringAssumption
  <2> PICK deep \in Nat : deep = (IF d > 0 THEN d ELSE 0) * PhaseStep
    BY <2>1
  <2> QED
    BY <2>1 DEF PhaseWeight
<1> QED
  BY <1>4 DEF Weight, RoundWeight, rounds

LEMMA EarnedIs == ASSUME NEW u, NEW f \in Fixtures PROVE Earned(u, f) \in Int /\ Tier(u, f) \in ScoreTier
<1> PICK t : t = Tier(u, f)
  OBVIOUS
<1>1. t \in ScoreTier
  BY DEF Tier, TierFor, ScoreTier, ScoredTiers
<1> PICK w \in Int : w = Weight(f)
  BY WeightIs
<1> DEFINE base == IF t = "NONE" THEN 0 ELSE Points[t]
<1>2. base \in Int
  BY <1>1, ScoringAssumption DEF ScoreTier, ScoringAssumption
<1>3. Earned(u, f) = base * w
  BY DEF Earned, PointsFor, Tier
<1> QED
  BY <1>1, <1>2, <1>3

\* The matches that pay a user.
Paid(u, C) == C \cap DOMAIN guess[u]

LEMMA PaidIs ==
    ASSUME PagesInv, NEW C, C \subseteq Fixtures, NEW u \in Bettors
    PROVE  /\ IsFiniteSet(Paid(u, C)) /\ Cardinality(Paid(u, C)) \in Nat
           /\ Cardinality({f \in Paid(u, C) : Tier(u, f) = "EXACT"}) \in Nat
           /\ Cardinality(DOMAIN guess[u]) \in Nat
           /\ [f \in Paid(u, C) |-> Earned(u, f)] \in [Paid(u, C) -> Int]
           /\ Together([f \in Paid(u, C) |-> Earned(u, f)]) \in Int
<1>1. IsFiniteSet(Fixtures) /\ DOMAIN guess[u] \subseteq Fixtures /\ Paid(u, C) \subseteq Fixtures
  BY RankingsAssumption DEF RankingsAssumption, PagesInv, Paid
<1>2. IsFiniteSet(Paid(u, C)) /\ IsFiniteSet(DOMAIN guess[u])
  BY <1>1, FS_Subset
<1>3. Cardinality({f \in Paid(u, C) : Tier(u, f) = "EXACT"}) \in Nat
  <2>1. IsFiniteSet({f \in Paid(u, C) : Tier(u, f) = "EXACT"})
    BY <1>2, FS_Subset
  <2> QED
    BY <2>1, FS_CardinalityType
<1> DEFINE pays == [f \in Paid(u, C) |-> Earned(u, f)]
<1>4. pays \in [Paid(u, C) -> Int]
  BY <1>1, EarnedIs
<1> HIDE DEF pays
<1>5. Together(pays) \in Int
  <2>1. PICK h : Summed(pays) = h[Paid(u, C)] /\ Adding(pays, Paid(u, C), h)
    BY <1>2, <1>4, TotalsAre
  <2> QED
    BY <2>1, TogetherIs DEF Adding
<1> QED
  BY <1>2, <1>3, <1>4, <1>5, FS_CardinalityType DEF pays

LEMMA SeasonTableIs ==
    ASSUME PagesInv, NEW scope, scope \subseteq Bettors, NEW window
    PROVE  SeasonTable(scope, window) \in Table
<1> DEFINE C == Counted(window)
           D == {v \in scope \cap enabled : guess[v] # <<>>}
           table == SeasonTable(scope, window)
           row(u) == [points |-> Together([f \in Paid(u, C) |-> Earned(u, f)]),
                      exact |-> Cardinality({f \in Paid(u, C) : Tier(u, f) = "EXACT"}),
                      scored |-> Cardinality(Paid(u, C)),
                      predicted |-> Cardinality(DOMAIN guess[u])]
<1>1. C \subseteq Fixtures
  BY DEF Counted
<1>2. table = [u \in D |-> row(u)]
  BY DEF SeasonTable, Paid
<1> HIDE DEF C
<1>3. \A u \in D : row(u) \in RowType
  BY <1>1, PaidIs DEF RowType
<1> HIDE DEF row
<1>4. [u \in D |-> row(u)] \in [D -> RowType] /\ D \in SUBSET Bettors
  BY <1>3
<1> QED
  BY <1>2, <1>4 DEF Table

LEMMA MatchTableIs ==
    ASSUME NEW scope, scope \subseteq Bettors, NEW f \in Fixtures
    PROVE  MatchTable(scope, f) \in Table
<1> DEFINE D == {v \in scope \cap enabled : Revealed(f) /\ f \in DOMAIN guess[v]}
           table == MatchTable(scope, f)
<1>1. DOMAIN table = D /\ table = [u \in D |-> table[u]]
  BY DEF MatchTable
<1>2. \A u \in D : table[u] \in RowType
  BY EarnedIs DEF MatchTable, RowType
<1> HIDE DEF table
<1>3. table \in [D -> RowType] /\ D \in SUBSET Bettors
  BY <1>1, <1>2
<1> QED
  BY <1>3 DEF Table, table

LEMMA PoolTableIs == ASSUME PagesInv PROVE PoolTable \in Table
<1>1. members \subseteq Bettors
  BY DEF PagesInv, RankingsInv
<1>2. ZeroTable(members) \in [members \cap enabled -> RowType]
  BY DEF ZeroTable, RowType
<1>3. ZeroTable(members) \in Table
  BY <1>1, <1>2 DEF Table
<1> QED
  BY <1>1, <1>3, SeasonTableIs DEF PoolTable

LEMMA PointsMeet == ASSUME PagesInv PROVE PointsAgree
<1> SUFFICES ASSUME NEW u \in DOMAIN General
             PROVE  /\ General[u].points = ListedPoints(MyBets(u))
                    /\ General[u].points = ListedPoints(AdminList(u))
                    /\ General[u].points = MatchTablePoints(u)
  BY DEF PointsAgree
<1> DEFINE C == {f \in Fixtures : HasResult(f)}
           paid == C \cap DOMAIN guess[u]
           pays == [f \in paid |-> Earned(u, f)]
<1>1. u \in Bettors /\ u \in enabled
  BY DEF General, SeasonTable
<1>2. DOMAIN guess[u] \subseteq Fixtures /\ paid \subseteq Fixtures
  BY <1>1 DEF PagesInv
<1>3. General[u].points = Together(pays)
  <2>1. Counted(NoWindow) = C
    BY DEF Counted, NoWindow, InWindow, Never
  <2> QED
    BY <2>1 DEF General, SeasonTable
<1>4. \A f \in Fixtures : /\ BetScore(u, f) # None <=> HasResult(f)
                          /\ HasResult(f) => BetScore(u, f).points = Earned(u, f)
  <2> TAKE f \in Fixtures
  <2>1. [points |-> Earned(u, f), tier |-> Tier(u, f)] \in [points : Int, tier : ScoreTier]
    BY EarnedIs
  <2>2. [points |-> Earned(u, f), tier |-> Tier(u, f)] # None
    BY <2>1, RankingsAssumption DEF RankingsAssumption
  <2> QED
    BY <2>2 DEF BetScore
<1>5. Together(pays) = ListedPoints(MyBets(u))
  <2> DEFINE list == MyBets(u)
             D == {g \in DOMAIN list : list[g] # None}
  <2>1. DOMAIN list = DOMAIN guess[u] /\ \A f \in DOMAIN guess[u] : list[f] = BetScore(u, f)
    BY DEF MyBets
  <2> HIDE DEF list
  <2>2. D = paid
    BY <1>2, <1>4, <2>1
  <2>3. [f \in D |-> list[f].points] = pays
    BY <1>2, <1>4, <2>1, <2>2
  <2> QED
    BY <2>3 DEF ListedPoints, list
<1>6. Together(pays) = ListedPoints(AdminList(u))
  <2> DEFINE list == AdminList(u)
             D == {g \in DOMAIN list : list[g] # None}
  <2>1. DOMAIN list = Fixtures /\ \A f \in Fixtures : list[f] = IF f \in DOMAIN guess[u] THEN BetScore(u, f) ELSE None
    BY DEF AdminList
  <2> HIDE DEF list
  <2>2. D = paid
    BY <1>2, <1>4, <2>1
  <2>3. [f \in D |-> list[f].points] = pays
    BY <1>2, <1>4, <2>1, <2>2
  <2> QED
    BY <2>3 DEF ListedPoints, list
<1>7. Together(pays) = MatchTablePoints(u)
  <2> DEFINE S == {g \in Fixtures : u \in DOMAIN MatchTable(Bettors, g)}
             rows == [f \in S |-> MatchTable(Bettors, f)[u].points]
  <2>1. S = {g \in Fixtures : Revealed(g) /\ g \in DOMAIN guess[u]}
    BY <1>1 DEF MatchTable
  <2>2. paid \subseteq S
    BY <1>2, <2>1 DEF Revealed
  <2>3. \A f \in S : rows[f] = IF HasResult(f) THEN Earned(u, f) ELSE 0
    BY DEF MatchTable
  <2>4. DOMAIN rows = S /\ rows = [f \in S |-> rows[f]] /\ MatchTablePoints(u) = Together(rows)
    BY DEF MatchTablePoints
  <2>5. IsFiniteSet(S)
    BY <2>1, FS_Subset, RankingsAssumption DEF RankingsAssumption
  <2> HIDE DEF rows
  <2>6. rows \in [S -> Int]
    BY <2>1, <2>3, <2>4, EarnedIs
  <2>7. \A f \in S \ paid : rows[f] = 0
    BY <2>1, <2>3
  <2>8. [f \in paid |-> rows[f]] = pays
    BY <2>2, <2>3
  <2> HIDE DEF S, paid, pays
  <2>9. Summed(rows) = Summed([f \in paid |-> rows[f]])
    BY <2>2, <2>5, <2>6, <2>7, NothingAdds
  <2> QED
    BY <2>4, <2>8, <2>9, TogetherIs
<1> QED
  BY <1>3, <1>5, <1>6, <1>7

\* Every page a user's points and position are shown on comes to the same, for any
\* number of users, matches and bets: whoever ties on every count shares the place
\* after those ahead (RankingsService.tournamentRanking, matchRanking, buildResponse,
\* StandingsService.forUser, PredictionsService.findMine, adminListForUser).
THEOREM PagesAlwaysAgree == RankingsSpec => []PagesAgree
<1>1. PagesInv => PagesAgree
  <2> SUFFICES ASSUME PagesInv PROVE PagesAgree
    OBVIOUS
  <2>1. PointsAgree
    BY PointsMeet
  <2>2. ASSUME NEW f \in Fixtures, NEW u \in DOMAIN MatchTable(members, f)
        PROVE  Ranks(MatchTable(members, f))[u] = 1 + Cardinality(PeopleAhead(MatchTable(members, f), u))
    <3>1. MatchTable(members, f) \in Table
      BY MatchTableIs DEF PagesInv, RankingsInv
    <3> QED
      BY <3>1, RanksCount
  <2>3. ASSUME NEW u \in DOMAIN General
        PROVE  Slider(u).general = 1 + Cardinality(PeopleAhead(General, u))
    <3>1. General \in Table
      BY SeasonTableIs DEF General
    <3>2. Slider(u).general = Ranks(General)[u]
      BY DEF Slider
    <3> QED
      BY <3>1, <3>2, RanksCount
  <2>4. ASSUME NEW u \in DOMAIN PoolTable
        PROVE  Slider(u).pool = 1 + Cardinality(PeopleAhead(PoolTable, u))
    <3>1. Slider(u).pool = Ranks(PoolTable)[u]
      BY DEF Slider
    <3> QED
      BY <3>1, PoolTableIs, RanksCount
  <2> QED
    BY <2>1, <2>2, <2>3, <2>4 DEF PagesAgree
<1> QED
  BY <1>1, PagesInitInv, PagesKept, PTL DEF RankingsSpec
=============================================================================
