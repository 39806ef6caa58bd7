--------------------------- MODULE ProjectMembers ---------------------------
(***************************************************************************)
(* Members, roles and invitations of one project:                          *)
(*   core  routes/v1/admin/members.ts   POST, PATCH, DELETE of members,    *)
(*                                      DELETE of an invitation            *)
(*   core  routes/v1/auth/index.ts      GET /callback: a new user takes up *)
(*                                      the project's invitations          *)
(*   core  routes/v1/email/index.ts     completeEmailAuth: takes up none   *)
(*   db    queries.ts                   projectMemberQueries,              *)
(*                                      projectInvitationQueries           *)
(* Every handler reads the requester's row, then what it is about, and     *)
(* writes by id without looking again.  A user has one row per project,    *)
(* which is only marked as deleted.                                        *)
(***************************************************************************)
EXTENDS Naturals

CONSTANTS
    People,         \* users, each with an email address of their own
    Founder,        \* who made the project
    Invites,        \* rows of project_invitations
    Staff,          \* requests that core works on at a time
    Nobody, NoInvite,
    \* Bound of the model:
    MaxRequests     \* how many requests there are in all

Roles == {"member", "admin", "owner"}
Invitation == [to : People, role : Roles, status : {"pending", "accepted"},
               canceled : BOOLEAN]

ASSUME MembersAssumption ==
    /\ Founder \in People
    /\ Nobody \notin People
    /\ NoInvite \notin Invitation
    /\ MaxRequests \in Nat

VARIABLES
    role,       \* project_members.role; "none" when there is no row
    gone,       \* members whose row is marked as deleted
    known,      \* people with a row in users
    invite,     \* the invitations
    step,       \* stage of a request
    by, whom,   \* who makes it, and about whom
    want,       \* the role it asks for
    todo,       \* invitations that a sign-up has still to take up
    requests,   \* how many there have been
    \* History of the properties:
    late,       \* members whose role was changed since a request read it
    allowed     \* roles that an owner or admin gave, and to whom

rows == <<role, gone>>
requestState == <<step, by, whom, want, todo>>
membersVars == <<rows, known, invite, requestState, requests, late, allowed>>

Writing == {"restore", "update", "delete"}
MemberStage == {"idle", "find", "findMember", "create", "invite", "list",
                "listDelete", "cancel", "signUp", "taken", "join", "accept"}
               \cup Writing

MembersTypeOK ==
    /\ role \in [People -> Roles \cup {"none"}]
    /\ gone \subseteq People
    /\ known \subseteq People
    /\ invite \in [Invites -> Invitation \cup {NoInvite}]
    /\ step \in [Staff -> MemberStage]
    /\ by \in [Staff -> Roles \cup {"none"}]
    /\ whom \in [Staff -> People \cup {Nobody}]
    /\ want \in [Staff -> Roles \cup {"none"}]
    /\ todo \in [Staff -> SUBSET Invites]
    /\ requests \in Nat
    /\ late \in [Staff -> SUBSET People]
    /\ allowed \subseteq People \X Roles

(* The founder's row is written with the project.  Others may have joined. *)
MembersInit ==
    /\ role \in [People -> Roles \cup {"none"}]
    /\ role[Founder] = "owner"
    /\ gone \in SUBSET {p \in People \ {Founder} : role[p] # "none"}
    /\ known \in SUBSET People
    /\ {p \in People : role[p] # "none"} \subseteq known
    /\ invite = [i \in Invites |-> NoInvite]
    /\ step = [c \in Staff |-> "idle"]
    /\ by = [c \in Staff |-> "none"]
    /\ whom = [c \in Staff |-> Nobody]
    /\ want = [c \in Staff |-> "none"]
    /\ todo = [c \in Staff |-> {}]
    /\ requests = 0
    /\ late = [c \in Staff |-> {}]
    /\ allowed = {g \in People \X Roles : role[g[1]] = g[2]}

-----------------------------------------------------------------------------
Member(p) == role[p] # "none" /\ p \notin gone
RoleOf(p) == IF p \in gone THEN "none" ELSE role[p]
Admins == {p \in People : RoleOf(p) = "admin"}

(* The requester p has one of the roles.                                   *)
Asks(c, p, roles, to) ==
    /\ requests < MaxRequests
    /\ requests' = requests + 1
    /\ step[c] = "idle"
    /\ RoleOf(p) \in roles
    /\ step' = [step EXCEPT ![c] = to]
    /\ by' = [by EXCEPT ![c] = RoleOf(p)]

About(c, p, r) ==
    /\ whom' = [whom EXCEPT ![c] = p]
    /\ want' = [want EXCEPT ![c] = r]

Continue(c, from, to) == step[c] = from /\ step' = [step EXCEPT ![c] = to]

Close(c) ==
    /\ step' = [step EXCEPT ![c] = "idle"]
    /\ by' = [by EXCEPT ![c] = "none"]
    /\ whom' = [whom EXCEPT ![c] = Nobody]
    /\ want' = [want EXCEPT ![c] = "none"]
    /\ todo' = [todo EXCEPT ![c] = {}]

Waiting(c) == UNCHANGED <<by, whom, want, todo>>

(* History: c changes the role of p, which overtakes the requests that have*)
(* read the members and are about to write.                                *)
Overtake(c, p) ==
    late' = [o \in Staff |-> IF o = c THEN {}
                             ELSE IF step[o] \in Writing THEN late[o] \cup {p}
                             ELSE late[o]]

-----------------------------------------------------------------------------
(* POST /:projectId/members, by an owner or admin, with any role.          *)
Invite(c, p, q, r) ==
    /\ Asks(c, p, {"owner", "admin"}, "find")
    /\ About(c, q, r)
    /\ allowed' = allowed \cup {<<q, r>>}
    /\ UNCHANGED <<rows, known, invite, todo, late>>

FindInvitee(c) ==
    /\ Continue(c, "find", IF whom[c] \in known THEN "findMember"
                           ELSE "invite")
    /\ Waiting(c)
    /\ UNCHANGED <<rows, known, invite, requests, late, allowed>>

FindMember(c) ==
    /\ step[c] = "findMember"
    /\ IF Member(whom[c]) THEN Close(c)
       ELSE /\ step' = [step EXCEPT ![c] =
                           IF role[whom[c]] = "none" THEN "create"
                           ELSE "restore"]
            /\ Waiting(c)
    /\ late' = [late EXCEPT ![c] = {}]
    /\ UNCHANGED <<rows, known, invite, requests, allowed>>

Restore(c) ==
    /\ step[c] = "restore"
    /\ role' = [role EXCEPT ![whom[c]] = want[c]]
    /\ gone' = gone \ {whom[c]}
    /\ Overtake(c, whom[c])
    /\ Close(c)
    /\ UNCHANGED <<known, invite, requests, allowed>>

(* A second row is refused by the unique key, and the call is answered 500.*)
InsertMember(p, r) ==
    role' = IF role[p] = "none" THEN [role EXCEPT ![p] = r] ELSE role

CreateMember(c) ==
    /\ step[c] = "create"
    /\ InsertMember(whom[c], want[c])
    /\ Close(c)
    /\ UNCHANGED <<gone, known, invite, requests, late, allowed>>

CreateInvitation(c, i) ==
    /\ step[c] = "invite"
    /\ invite[i] = NoInvite
    /\ invite' = [invite EXCEPT ![i] =
                     [to |-> whom[c], role |-> want[c], status |-> "pending",
                      canceled |-> FALSE]]
    /\ Close(c)
    /\ UNCHANGED <<rows, known, requests, late, allowed>>

(* PATCH /:projectId/members/:memberId, by an owner.  The roles are        *)
(* compared with a list of the members read before the update.             *)
ChangeRole(c, p, q, r) ==
    /\ Asks(c, p, {"owner"}, "list")
    /\ About(c, q, r)
    /\ allowed' = allowed \cup {<<q, r>>}
    /\ UNCHANGED <<rows, known, invite, todo, late>>

MayChange(old, new) == (old = "owner") <=> (new = "owner")

ListForUpdate(c) ==
    /\ step[c] = "list"
    /\ IF Member(whom[c]) /\ MayChange(role[whom[c]], want[c])
       THEN /\ step' = [step EXCEPT ![c] = "update"]
            /\ late' = [late EXCEPT ![c] = {}]
            /\ Waiting(c)
       ELSE Close(c) /\ UNCHANGED late
    /\ UNCHANGED <<rows, known, invite, requests, allowed>>

UpdateRole(c) ==
    /\ step[c] = "update"
    /\ role' = [role EXCEPT ![whom[c]] = want[c]]
    /\ Overtake(c, whom[c])
    /\ Close(c)
    /\ UNCHANGED <<gone, known, invite, requests, allowed>>

(* DELETE /:projectId/members/:memberId, by an owner or admin.             *)
RemoveMember(c, p, q) ==
    /\ Asks(c, p, {"owner", "admin"}, "listDelete")
    /\ About(c, q, "none")
    /\ UNCHANGED <<rows, known, invite, todo, late, allowed>>

(* Mutant of MayRemove: the admin to go counts as one who stays.           *)
MayRemoveSelf(rank, p) ==
    /\ RoleOf(p) # "owner"
    /\ (rank # "owner" /\ RoleOf(p) = "admin") => Admins # {}
(* Mutant of MayRemove: only the founder is protected.                     *)
MayRemoveOwner(rank, p) ==
    /\ p # Founder
    /\ (rank # "owner" /\ RoleOf(p) = "admin") => Admins \ {p} # {}
MayRemove(rank, p) ==
    /\ RoleOf(p) # "owner"
    /\ (rank # "owner" /\ RoleOf(p) = "admin") => Admins \ {p} # {}

ListForDelete(c) ==
    /\ step[c] = "listDelete"
    /\ IF Member(whom[c]) /\ MayRemove(by[c], whom[c])
       THEN /\ step' = [step EXCEPT ![c] = "delete"]
            /\ late' = [late EXCEPT ![c] = {}]
            /\ Waiting(c)
       ELSE Close(c) /\ UNCHANGED late
    /\ UNCHANGED <<rows, known, invite, requests, allowed>>

DeleteMember(c) ==
    /\ step[c] = "delete"
    /\ gone' = gone \cup {whom[c]}
    /\ Overtake(c, whom[c])
    /\ Close(c)
    /\ UNCHANGED <<role, known, invite, requests, allowed>>

(* DELETE /:projectId/invitations/:invitationId sets deleted_at, which no  *)
(* reader of invitations looks at, and leaves the status "pending".        *)
CancelInvitation(c, p, i) ==
    /\ Asks(c, p, {"owner", "admin"}, "cancel")
    /\ invite[i] # NoInvite
    /\ todo' = [todo EXCEPT ![c] = {i}]
    /\ UNCHANGED <<rows, known, invite, whom, want, late, allowed>>

DeleteInvitation(c) ==
    /\ step[c] = "cancel"
    /\ invite' = [i \in Invites |->
                     IF i \in todo[c] THEN [invite[i] EXCEPT !.canceled = TRUE]
                     ELSE invite[i]]
    /\ Close(c)
    /\ UNCHANGED <<rows, known, requests, late, allowed>>

-----------------------------------------------------------------------------
(* GET /callback with a profile that is new: the user is created, then the *)
(* invitations are looked up.                                              *)
SignUp(c, p) ==
    /\ requests < MaxRequests
    /\ requests' = requests + 1
    /\ p \notin known
    /\ known' = known \cup {p}
    /\ Continue(c, "idle", "signUp")
    /\ whom' = [whom EXCEPT ![c] = p]
    /\ UNCHANGED <<rows, invite, by, want, todo, late, allowed>>

(* The same through an emailed code or link: no invitation is looked up.   *)
SignUpByEmail(p) ==
    /\ p \notin known
    /\ known' = known \cup {p}
    /\ UNCHANGED <<rows, invite, requestState, requests, late, allowed>>

(* The invitation named in the OAuth state, whatever its status, when its  *)
(* address is that of the profile.                                         *)
(* Mutant of Named: the address is not compared.                           *)
NamedAny(i, p) == invite[i] # NoInvite
Named(i, p) == invite[i] # NoInvite /\ invite[i].to = p

FindNamed(c, i) ==
    /\ step[c] = "signUp"
    /\ IF Named(i, whom[c])
       THEN /\ step' = [step EXCEPT ![c] = "taken"]
            /\ todo' = [todo EXCEPT ![c] = {i}]
            /\ UNCHANGED <<by, whom, want>>
       ELSE Close(c)
    /\ UNCHANGED <<rows, known, invite, requests, late, allowed>>

(* Without a named one: all that are pending for the address.              *)
FindPending(c) ==
    /\ Continue(c, "signUp", "taken")
    /\ todo' = [todo EXCEPT ![c] =
                   {i \in Invites : /\ Named(i, whom[c])
                                    /\ invite[i].status = "pending"}]
    /\ UNCHANGED <<by, whom, want>>
    /\ UNCHANGED <<rows, known, invite, requests, late, allowed>>

(* The next invitation: is the user a member already?                      *)
TakeUp(c) ==
    /\ step[c] = "taken"
    /\ IF todo[c] = {} THEN Close(c)
       ELSE /\ step' = [step EXCEPT ![c] =
                           IF Member(whom[c]) THEN "accept" ELSE "join"]
            /\ Waiting(c)
    /\ UNCHANGED <<rows, known, invite, requests, late, allowed>>

(* The unique key refuses a second row; the error ends the invitations.    *)
JoinProject(c, i) ==
    /\ step[c] = "join"
    /\ i \in todo[c]
    /\ InsertMember(whom[c], invite[i].role)
    /\ IF role[whom[c]] = "none"
       THEN /\ step' = [step EXCEPT ![c] = "accept"]
            /\ Waiting(c)
       ELSE Close(c)
    /\ UNCHANGED <<gone, known, invite, requests, late, allowed>>

Accept(c, i) ==
    /\ i \in todo[c]
    /\ Continue(c, "accept", "taken")
    /\ invite' = [invite EXCEPT ![i].status = "accepted"]
    /\ todo' = [todo EXCEPT ![c] = @ \ {i}]
    /\ UNCHANGED <<by, whom, want>>
    /\ UNCHANGED <<rows, known, requests, late, allowed>>

(* A query fails or the process dies; what was written stays.              *)
RequestFails(c) ==
    /\ step[c] # "idle"
    /\ Close(c)
    /\ UNCHANGED <<rows, known, invite, requests, late, allowed>>

-----------------------------------------------------------------------------
MembersNext ==
    \/ \E c \in Staff :
        \/ \E p \in People, q \in People, r \in Roles :
              Invite(c, p, q, r) \/ ChangeRole(c, p, q, r)
        \/ \E p \in People, q \in People : RemoveMember(c, p, q)
        \/ \E p \in People, i \in Invites : CancelInvitation(c, p, i)
        \/ \E p \in People : SignUp(c, p)
        \/ \E i \in Invites : \/ CreateInvitation(c, i) \/ FindNamed(c, i)
                              \/ JoinProject(c, i) \/ Accept(c, i)
        \/ FindInvitee(c) \/ FindMember(c) \/ Restore(c) \/ CreateMember(c)
        \/ ListForUpdate(c) \/ UpdateRole(c)
        \/ ListForDelete(c) \/ DeleteMember(c) \/ DeleteInvitation(c)
        \/ FindPending(c) \/ TakeUp(c) \/ RequestFails(c)
    \/ \E p \in People : SignUpByEmail(p)

MembersSpec == MembersInit /\ [][MembersNext]_membersVars

-----------------------------------------------------------------------------
IsOwner(p) == RoleOf(p) = "owner"

(* The API promises that an owner is neither demoted nor removed.  It does *)
(* so by comparing with a list read before the write: an owner can lose    *)
(* the role only to a request that another change of this very role has    *)
(* overtaken between its list and its write.                               *)
OwnerStays ==
    [][\A p \in People :
        (IsOwner(p) /\ ~IsOwner(p)')
        => \E c \in Staff : /\ step[c] \in Writing /\ step'[c] = "idle"
                            /\ whom[c] = p /\ p \in late[c]]_membersVars

(* So whoever made the project stays its owner, whatever the requests and  *)
(* their order: nothing ever read the founder's row as another role.       *)
FounderStays == IsOwner(Founder)

(* An admin's removal of a member never takes the last admin away, unless  *)
(* another change of a role has overtaken it; an owner's may.              *)
LastAdminStays ==
    [][\A c \in Staff :
        (step[c] = "delete" /\ step'[c] = "idle" /\ gone' # gone
           /\ by[c] # "owner" /\ late[c] = {} /\ whom[c] \in Admins)
        => Admins' # {}]_membersVars

(* A role in the project is one that somebody who was owner or admin when  *)
(* asking gave to that very person: invitations may be named by anyone, be *)
(* taken up twice or after they were canceled, and their address compared  *)
(* after the user was created.                                             *)
RolesGiven == \A p \in People : role[p] # "none" => <<p, role[p]>> \in allowed
=============================================================================
