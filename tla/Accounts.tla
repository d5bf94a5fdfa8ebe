------------------------------ MODULE Accounts ------------------------------
(***************************************************************************)
(* The accounts: signing up and in (AuthService), what an admin does to    *)
(* them (UsersService, behind JwtStrategy and RolesGuard, which read the   *)
(* account of each request anew), and the photo of a profile with its file *)
(* in the storage.  Requests overlap, each await a step.  An e-mail is its *)
(* user's, and so is a Google identity's; passwords, tokens, names and the *)
(* audit trail are left out.                                               *)
(***************************************************************************)
EXTENDS Common

CONSTANT MaxPhotos \* bound on the photos uploaded

Account == [role : {"USER", "ADMIN"}, active : BOOLEAN, photo : Nat \cup {None}]

ASSUME AccountsAssumption == MaxPhotos \in Nat /\ None \notin Nat \cup Account

VARIABLES
    account,   \* by e-mail: None, or [role, active, photo]
    google,    \* the account each Google identity is linked to
    files,     \* the photos in the storage
    uploads,   \* how many were uploaded
    asking,    \* the requests under way
    crossed    \* history: two admin requests overlapped

accountsVars == <<account, google, files, uploads, asking, crossed>>

\* a photo is numbered as it is uploaded; this one is at Google's
Picture == 0

NewAccount(photo) == [role |-> "USER", active |-> TRUE, photo |-> photo]

\* seedAdmin makes the first admin.
AccountsInit ==
    /\ \E admin \in Users :
         account = [u \in Users |-> IF u = admin THEN [NewAccount(None) EXCEPT !.role = "ADMIN"]
                                    ELSE None]
    /\ google = [u \in Users |-> None]
    /\ files = {} /\ uploads = 0 /\ asking = {} /\ crossed = FALSE

Administers(u) == account[u] # None /\ account[u].active /\ account[u].role = "ADMIN"

-----------------------------------------------------------------------------
(* Faulty variants, for testing the properties. *)

\* an admin may do to himself what he does to others
AnybodyMay(actor, target, change) == TRUE

\* the old file is deleted before the profile points at the new one
DeletedFirst == <<"upload", "delete", "point">>

-----------------------------------------------------------------------------
(* Signing up and in. *)

Ask(request) ==
    /\ Cardinality(asking) < MaxInFlight
    /\ request \notin asking
    /\ asking' = asking \cup {request}

Answered(request) == asking' = asking \ {request}

\* register: an e-mail that has an account is refused.
Register(u) ==
    /\ account[u] = None
    /\ Ask([op |-> "register", user |-> u])
    /\ UNCHANGED <<account, google, files, uploads, crossed>>

\* loginWithGoogle, for an identity not linked: an account of that e-mail is linked
\* if Google verified it, else refused.
LoginWithGoogle(u) ==
    /\ google[u] = None
    /\ Ask([op |-> IF account[u] = None THEN "google" ELSE "link", user |-> u, identity |-> u])
    /\ UNCHANGED <<account, google, files, uploads, crossed>>

\* linkGoogle, from the profile: any identity nobody has
LinkGoogle(u, identity) ==
    /\ account[u] # None /\ account[u].active /\ google[identity] = None
    /\ Ask([op |-> "link", user |-> u, identity |-> identity])
    /\ UNCHANGED <<account, google, files, uploads, crossed>>

\* The writes: an e-mail and an identity are unique in the database, so a request
\* that comes second fails.
SignedUp(request) ==
    /\ request.op \in {"register", "google", "link"}
    /\ Answered(request)
    /\ LET u == request.user
           free == /\ request.op # "link" => account[u] = None
                   /\ request.op # "register" => google[request.identity] = None
       IN /\ account' = IF free /\ request.op # "link"
                          THEN [account EXCEPT ![u] = NewAccount(
                                  IF request.op = "google" THEN Picture ELSE None)]
                          ELSE account
          /\ google' = IF free /\ request.op # "register"
                         THEN [google EXCEPT ![request.identity] = u] ELSE google
    /\ UNCHANGED <<files, uploads, crossed>>

-----------------------------------------------------------------------------
(* The admin. *)

\* setRole and setActive spare the admin himself.
MayChange(actor, target, change) ==
    actor = target => change.role = "ADMIN" /\ change.active

IsAdminRequest(request) == request.op = "change"

\* change: the role and whether the account is active, one of them as it is
ChangeAccount(actor, target) ==
    /\ Administers(actor) /\ account[target] # None
    /\ \E change \in [role : {"USER", "ADMIN"}, active : BOOLEAN] :
         /\ (change.role = account[target].role) # (change.active = account[target].active)
         /\ MayChange(actor, target, change)
         /\ Ask([op |-> "change", target |-> target,
                 field |-> IF change.role # account[target].role THEN "role" ELSE "active",
                 change |-> change])
    /\ crossed' = (crossed \/ \E r \in asking : IsAdminRequest(r))
    /\ UNCHANGED <<account, google, files, uploads>>

Changed(request) ==
    /\ IsAdminRequest(request)
    /\ Answered(request)
    /\ account' = [account EXCEPT ![request.target] =
                     IF request.field = "role" THEN [@ EXCEPT !.role = request.change.role]
                     ELSE [@ EXCEPT !.active = request.change.active]]
    /\ UNCHANGED <<google, files, uploads, crossed>>

-----------------------------------------------------------------------------
(* The photo. *)

\* setAvatar: what is done, in this order, once the profile was read
AvatarSteps == <<"upload", "point", "delete">>

\* removeAvatar
RemovalSteps == <<"point", "delete">>

SetAvatar(u) ==
    /\ account[u] # None /\ account[u].active
    /\ \E steps \in {AvatarSteps, RemovalSteps} :
         Ask([op |-> "avatar", user |-> u, old |-> account[u].photo, new |-> None, left |-> steps])
    /\ UNCHANGED <<account, google, files, uploads, crossed>>

\* The deletion is best-effort, and spares what is not ours.
AvatarStep(request) ==
    /\ request.op = "avatar"
    /\ LET step == Head(request.left)
           left == Tail(request.left)
           photo == IF step = "upload" THEN uploads + 1 ELSE request.new
       IN /\ step = "upload" => uploads < MaxPhotos
          /\ uploads' = IF step = "upload" THEN photo ELSE uploads
          /\ \/ files' = CASE step = "upload" -> files \cup {photo}
                           [] step = "delete" -> files \ {request.old}
                           [] OTHER -> files
             \/ Faults /\ step = "delete" /\ UNCHANGED files
          /\ account' = IF step = "point" THEN [account EXCEPT ![request.user].photo = photo]
                        ELSE account
          /\ asking' = (asking \ {request}) \cup
                          (IF left = <<>> THEN {} ELSE {[request EXCEPT !.new = photo, !.left = left]})
    /\ UNCHANGED <<google, crossed>>

\* A request fails at any of its awaits.
AskFails(request) ==
    /\ Faults
    /\ Answered(request)
    /\ UNCHANGED <<account, google, files, uploads, crossed>>

AccountsNext ==
    \/ \E u \in Users : Register(u) \/ LoginWithGoogle(u) \/ SetAvatar(u)
    \/ \E u, v \in Users : LinkGoogle(u, v) \/ ChangeAccount(u, v)
    \/ \E r \in asking : SignedUp(r) \/ Changed(r) \/ AvatarStep(r) \/ AskFails(r)

AccountsSpec == AccountsInit /\ [][AccountsNext]_accountsVars

-----------------------------------------------------------------------------
(* Properties. *)

\* There is always somebody who can administer - nobody can take the last admin's
\* role or deactivate him - unless two admins acted on each other at once.
SomebodyAdministers == ~crossed => \E u \in Users : Administers(u)

\* The photo a profile points at is in the storage, whatever requests overlap or
\* fail half way: a file is only deleted once no profile points at it.
PhotosStand ==
    \A u \in Users : account[u] # None => account[u].photo \in files \cup {None, Picture}
=============================================================================
