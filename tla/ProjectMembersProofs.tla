------------------------ MODULE ProjectMembersProofs ------------------------
(* Theorems about ProjectMembers, for every value of its constants.        *)
EXTENDS ProjectMembers, TLAPS

Granting == {"find", "findMember", "create", "invite", "restore", "list",
             "update"}
TakingUp == {"taken", "join", "accept"}

(* A request is about a person, and asks for a role that was given.        *)
RequestsGiven ==
    \A c \in Staff :
        /\ step[c] \notin {"idle", "cancel"} => whom[c] \in People
        /\ step[c] \in Granting => <<whom[c], want[c]>> \in allowed
        /\ step[c] \in TakingUp => \A i \in todo[c] :
              invite[i] # NoInvite /\ invite[i].to = whom[c]
        /\ step[c] = "cancel" => \A i \in todo[c] : invite[i] # NoInvite

InvitesGiven ==
    \A i \in Invites :
        invite[i] # NoInvite => <<invite[i].to, invite[i].role>> \in allowed

(* A row that a request is about to write is there, and so is a row that   *)
(* is marked as deleted.                                                   *)
RowsThere ==
    /\ \A p \in gone : role[p] # "none"
    /\ \A c \in Staff : step[c] \in Writing => role[whom[c]] # "none"

(* What a request found still holds, unless it was overtaken.              *)
FoundHolds ==
    \A c \in Staff :
        whom[c] \notin late[c] =>
            /\ step[c] = "restore" => whom[c] \in gone
            /\ step[c] = "update" => /\ Member(whom[c])
                                     /\ MayChange(role[whom[c]], want[c])
            /\ step[c] = "delete" => /\ Member(whom[c])
                                     /\ role[whom[c]] # "owner"

(* No request is about to take the founder's role away.                    *)
FounderSafe ==
    /\ FounderStays
    /\ \A c \in Staff :
          whom[c] = Founder =>
              /\ step[c] \notin {"restore", "delete"}
              /\ step[c] = "update" => want[c] = "owner"

AnotherAdmin ==
    \A c \in Staff :
        (step[c] = "delete" /\ by[c] # "owner" /\ late[c] = {}
           /\ RoleOf(whom[c]) = "admin")
        => \E p \in Admins : p # whom[c]

MembersInductive ==
    /\ MembersTypeOK /\ RequestsGiven /\ InvitesGiven /\ RowsThere
    /\ FoundHolds /\ FounderSafe /\ AnotherAdmin /\ RolesGiven

-----------------------------------------------------------------------------
(* What a request that grants a role has.                                  *)
LEMMA GrantTypes ==
    ASSUME MembersTypeOK, RequestsGiven, NEW c \in Staff, step[c] \in Granting
    PROVE  /\ whom[c] \in People /\ want[c] \in Roles
           /\ <<whom[c], want[c]>> \in allowed
<1>1. <<whom[c], want[c]>> \in allowed
  BY DEF RequestsGiven
<1>2. <<whom[c], want[c]>> \in People \X Roles
  BY <1>1 DEF MembersTypeOK
<1>3. QED
  BY <1>1, <1>2

(* An invitation whose status or mark changes is one to the same person.   *)
LEMMA InviteTypes ==
    ASSUME MembersTypeOK, NEW i \in Invites, invite[i] # NoInvite
    PROVE  /\ invite[i].to \in People /\ invite[i].role \in Roles
           /\ [invite[i] EXCEPT !.canceled = TRUE] \in Invitation
           /\ [invite[i] EXCEPT !.canceled = TRUE].to = invite[i].to
           /\ [invite[i] EXCEPT !.canceled = TRUE].role = invite[i].role
           /\ [invite[i] EXCEPT !.status = "accepted"] \in Invitation
           /\ [invite[i] EXCEPT !.status = "accepted"].to = invite[i].to
           /\ [invite[i] EXCEPT !.status = "accepted"].role = invite[i].role
<1>1. invite[i] \in Invitation
  BY DEF MembersTypeOK
<1>2. QED
  BY <1>1 DEF Invitation

LEMMA OvertakeType ==
    ASSUME MembersTypeOK, NEW c \in Staff, NEW p \in People, Overtake(c, p)
    PROVE  late' \in [Staff -> SUBSET People]
<1>1. \A o \in Staff : (IF o = c THEN {}
                        ELSE IF step[o] \in Writing THEN late[o] \cup {p}
                        ELSE late[o]) \in SUBSET People
  BY DEF MembersTypeOK
<1>2. QED
  BY <1>1 DEF Overtake

LEMMA CloseTypes ==
    ASSUME MembersTypeOK, NEW c \in Staff, Close(c)
    PROVE  /\ step' \in [Staff -> MemberStage]
           /\ by' \in [Staff -> Roles \cup {"none"}]
           /\ whom' \in [Staff -> People \cup {Nobody}]
           /\ want' \in [Staff -> Roles \cup {"none"}]
           /\ todo' \in [Staff -> SUBSET Invites]
BY DEF MembersTypeOK, Close, MemberStage

(* Every step keeps the types.                                               *)
LEMMA MembersTypeStep ==
    ASSUME MembersTypeOK, RequestsGiven, [MembersNext]_membersVars
    PROVE  MembersTypeOK'
<1> USE MembersAssumption
        DEF MembersTypeOK, MemberStage, Roles, Writing, rows, requestState
<1>1. ASSUME NEW c \in Staff, NEW p \in People, NEW q \in People, NEW r \in Roles,
            Invite(c, p, q, r)
     PROVE  MembersTypeOK'
  BY <1>1 DEF Invite, Asks, About
<1>2. ASSUME NEW c \in Staff, NEW p \in People, NEW q \in People, NEW r \in Roles,
            ChangeRole(c, p, q, r)
     PROVE  MembersTypeOK'
  BY <1>2 DEF ChangeRole, Asks, About
<1>3. ASSUME NEW c \in Staff, NEW p \in People, NEW q \in People,
            RemoveMember(c, p, q)
     PROVE  MembersTypeOK'
  BY <1>3 DEF RemoveMember, Asks, About
<1>4. ASSUME NEW c \in Staff, NEW p \in People, NEW i \in Invites,
            CancelInvitation(c, p, i)
     PROVE  MembersTypeOK'
  BY <1>4 DEF CancelInvitation, Asks
<1>5. ASSUME NEW c \in Staff, NEW p \in People, SignUp(c, p)
     PROVE  MembersTypeOK'
  BY <1>5 DEF SignUp, Continue
<1>6. ASSUME NEW c \in Staff, NEW i \in Invites, CreateInvitation(c, i)
     PROVE  MembersTypeOK'
  <2>1. <<whom[c], want[c]>> \in People \X Roles
    BY <1>6, GrantTypes DEF CreateInvitation, Granting
  <2>2. [to |-> whom[c], role |-> want[c], status |-> "pending",
         canceled |-> FALSE] \in Invitation
    BY <2>1 DEF Invitation
  <2>3. invite' \in [Invites -> Invitation \cup {NoInvite}]
    BY <1>6, <2>2 DEF CreateInvitation
  <2>4. QED
    BY <1>6, <2>3 DEF CreateInvitation, Close
<1>7. ASSUME NEW c \in Staff, NEW i \in Invites, FindNamed(c, i)
     PROVE  MembersTypeOK'
  BY <1>7 DEF FindNamed, Close, Named
<1>8. ASSUME NEW c \in Staff, NEW i \in Invites, JoinProject(c, i)
     PROVE  MembersTypeOK'
  <2>1. whom[c] \in People /\ invite[i] # NoInvite
    BY <1>8 DEF JoinProject, RequestsGiven, TakingUp
  <2>2. role' \in [People -> Roles \cup {"none"}]
    BY <1>8, <2>1, InviteTypes DEF JoinProject, InsertMember
  <2>3. QED
    BY <1>8, <2>2 DEF JoinProject, Waiting, Close
<1>9. ASSUME NEW c \in Staff, NEW i \in Invites, Accept(c, i)
     PROVE  MembersTypeOK'
  <2>1. invite[i] # NoInvite
    BY <1>9 DEF Accept, Continue, RequestsGiven, TakingUp
  <2>2. invite' \in [Invites -> Invitation \cup {NoInvite}]
    BY <1>9, <2>1, InviteTypes DEF Accept
  <2>3. QED
    BY <1>9, <2>2 DEF Accept, Continue
<1>10. ASSUME NEW c \in Staff, FindInvitee(c) PROVE MembersTypeOK'
  BY <1>10 DEF FindInvitee, Continue, Waiting
<1>11. ASSUME NEW c \in Staff, FindMember(c) PROVE MembersTypeOK'
  BY <1>11 DEF FindMember, Close, Waiting, Member
<1>12. ASSUME NEW c \in Staff, Restore(c) PROVE MembersTypeOK'
  <2>1. whom[c] \in People /\ want[c] \in Roles
    BY <1>12, GrantTypes DEF Restore, Granting
  <2>2. late' \in [Staff -> SUBSET People]
    BY <1>12, <2>1, OvertakeType DEF Restore
  <2>3. role' \in [People -> Roles \cup {"none"}] /\ gone' \subseteq People
    BY <1>12, <2>1 DEF Restore
  <2>4. QED
    BY <1>12, <2>2, <2>3, CloseTypes DEF Restore
<1>13. ASSUME NEW c \in Staff, CreateMember(c) PROVE MembersTypeOK'
  BY <1>13 DEF CreateMember, InsertMember, Close
<1>14. ASSUME NEW c \in Staff, ListForUpdate(c) PROVE MembersTypeOK'
  BY <1>14 DEF ListForUpdate, Member, MayChange, Waiting, Close
<1>15. ASSUME NEW c \in Staff, UpdateRole(c) PROVE MembersTypeOK'
  <2>1. whom[c] \in People /\ want[c] \in Roles
    BY <1>15, GrantTypes DEF UpdateRole, Granting
  <2>2. late' \in [Staff -> SUBSET People]
    BY <1>15, <2>1, OvertakeType DEF UpdateRole
  <2>3. role' \in [People -> Roles \cup {"none"}]
    BY <1>15, <2>1 DEF UpdateRole
  <2>4. QED
    BY <1>15, <2>2, <2>3, CloseTypes DEF UpdateRole
<1>16. ASSUME NEW c \in Staff, ListForDelete(c) PROVE MembersTypeOK'
  BY <1>16 DEF ListForDelete, Member, MayRemove, Waiting, Close
<1>17. ASSUME NEW c \in Staff, DeleteMember(c) PROVE MembersTypeOK'
  <2>1. whom[c] \in People
    BY <1>17 DEF DeleteMember, RequestsGiven
  <2>2. late' \in [Staff -> SUBSET People]
    BY <1>17, <2>1, OvertakeType DEF DeleteMember
  <2>3. gone' \subseteq People
    BY <1>17, <2>1 DEF DeleteMember
  <2>4. QED
    BY <1>17, <2>2, <2>3, CloseTypes DEF DeleteMember
<1>18. ASSUME NEW c \in Staff, DeleteInvitation(c) PROVE MembersTypeOK'
  <2>1. \A i \in todo[c] : i \in Invites => invite[i] # NoInvite
    BY <1>18 DEF DeleteInvitation, RequestsGiven
  <2>2. \A i \in Invites :
           (IF i \in todo[c] THEN [invite[i] EXCEPT !.canceled = TRUE]
            ELSE invite[i]) \in Invitation \cup {NoInvite}
    BY <2>1, InviteTypes
  <2>3. invite' \in [Invites -> Invitation \cup {NoInvite}]
    BY <1>18, <2>2 DEF DeleteInvitation
  <2>4. QED
    BY <1>18, <2>3, CloseTypes DEF DeleteInvitation
<1>19. ASSUME NEW c \in Staff, FindPending(c) PROVE MembersTypeOK'
  BY <1>19 DEF FindPending, Continue, Named
<1>20. ASSUME NEW c \in Staff, TakeUp(c) PROVE MembersTypeOK'
  BY <1>20 DEF TakeUp, Close, Waiting
<1>21. ASSUME NEW c \in Staff, RequestFails(c) PROVE MembersTypeOK'
  BY <1>21 DEF RequestFails, Close
<1>22. ASSUME NEW p \in People, SignUpByEmail(p) PROVE MembersTypeOK'
  BY <1>22 DEF SignUpByEmail
<1>23. CASE UNCHANGED membersVars
  BY <1>23 DEF membersVars, rows, requestState
<1> HIDE DEF MembersTypeOK
<1> HIDE DEF MemberStage
<1>24. QED
  BY <1>1, <1>2, <1>3, <1>4, <1>5, <1>6, <1>7, <1>8, <1>9, <1>10, <1>11, <1>12,
     <1>13, <1>14, <1>15, <1>16, <1>17, <1>18, <1>19, <1>20, <1>21, <1>22,
     <1>23
     DEF MembersNext

(* Requests stay linked to what was given.                                  *)
LEMMA RequestsGivenStep ==
    ASSUME MembersTypeOK, MembersTypeOK', RequestsGiven, InvitesGiven,
           [MembersNext]_membersVars
    PROVE  RequestsGiven'
<1> USE MembersAssumption
        DEF MembersTypeOK, RequestsGiven, Granting, TakingUp, Writing, rows, requestState
<1>1. ASSUME NEW c \in Staff, NEW p \in People, NEW q \in People, NEW r \in Roles,
            Invite(c, p, q, r)
     PROVE  RequestsGiven'
  BY <1>1 DEF Invite, Asks, About
<1>2. ASSUME NEW c \in Staff, NEW p \in People, NEW q \in People, NEW r \in Roles,
            ChangeRole(c, p, q, r)
     PROVE  RequestsGiven'
  BY <1>2 DEF ChangeRole, Asks, About
<1>3. ASSUME NEW c \in Staff, NEW p \in People, NEW q \in People,
            RemoveMember(c, p, q)
     PROVE  RequestsGiven'
  BY <1>3 DEF RemoveMember, Asks, About
<1>4. ASSUME NEW c \in Staff, NEW p \in People, NEW i \in Invites,
            CancelInvitation(c, p, i)
     PROVE  RequestsGiven'
  BY <1>4 DEF CancelInvitation, Asks
<1>5. ASSUME NEW c \in Staff, NEW p \in People, SignUp(c, p)
     PROVE  RequestsGiven'
  BY <1>5 DEF SignUp, Continue
<1>6. ASSUME NEW c \in Staff, NEW i \in Invites, CreateInvitation(c, i)
     PROVE  RequestsGiven'
  BY <1>6 DEF CreateInvitation, Close
<1>7. ASSUME NEW c \in Staff, NEW i \in Invites, FindNamed(c, i)
     PROVE  RequestsGiven'
  BY <1>7 DEF FindNamed, Close, Named
<1>8. ASSUME NEW c \in Staff, NEW i \in Invites, JoinProject(c, i)
     PROVE  RequestsGiven'
  BY <1>8 DEF JoinProject, InsertMember, Waiting, Close
<1>9. ASSUME NEW c \in Staff, NEW i \in Invites, Accept(c, i)
     PROVE  RequestsGiven'
  <2>1. invite[i] # NoInvite /\ invite[i].to = whom[c]
    BY <1>9 DEF Accept, Continue
  <2>2. invite'[i] # NoInvite /\ invite'[i].to = whom[c]
    <3>1. /\ [invite[i] EXCEPT !.status = "accepted"] \in Invitation
          /\ [invite[i] EXCEPT !.status = "accepted"].to = whom[c]
      BY <2>1, InviteTypes
    <3>2. invite'[i] = [invite[i] EXCEPT !.status = "accepted"]
      BY <1>9 DEF Accept
    <3>3. QED
      BY <3>1, <3>2
  <2>3. \A j \in Invites \ {i} : invite'[j] = invite[j]
    BY <1>9 DEF Accept
  <2>4. \A o \in Staff, j \in Invites :
           invite[j] # NoInvite => /\ invite'[j] # NoInvite
                                   /\ invite'[j].to = invite[j].to
    BY <2>1, <2>2, <2>3
  <2>5. /\ \A o \in Staff : todo'[o] \subseteq todo[o]
        /\ UNCHANGED <<whom, want, allowed>>
        /\ step' = [step EXCEPT ![c] = "taken"] /\ step[c] = "accept"
    BY <1>9 DEF Accept, Continue
  <2>6. QED
    BY <2>4, <2>5
<1>10. ASSUME NEW c \in Staff, FindInvitee(c) PROVE RequestsGiven'
  BY <1>10 DEF FindInvitee, Continue, Waiting
<1>11. ASSUME NEW c \in Staff, FindMember(c) PROVE RequestsGiven'
  BY <1>11 DEF FindMember, Close, Waiting, Member
<1>12. ASSUME NEW c \in Staff, Restore(c) PROVE RequestsGiven'
  BY <1>12 DEF Restore, Overtake, Close
<1>13. ASSUME NEW c \in Staff, CreateMember(c) PROVE RequestsGiven'
  BY <1>13 DEF CreateMember, InsertMember, Close
<1>14. ASSUME NEW c \in Staff, ListForUpdate(c) PROVE RequestsGiven'
  BY <1>14 DEF ListForUpdate, Member, MayChange, Waiting, Close
<1>15. ASSUME NEW c \in Staff, UpdateRole(c) PROVE RequestsGiven'
  BY <1>15 DEF UpdateRole, Overtake, Close
<1>16. ASSUME NEW c \in Staff, ListForDelete(c) PROVE RequestsGiven'
  BY <1>16 DEF ListForDelete, Member, MayRemove, Waiting, Close
<1>17. ASSUME NEW c \in Staff, DeleteMember(c) PROVE RequestsGiven'
  BY <1>17 DEF DeleteMember, Overtake, Close
<1>18. ASSUME NEW c \in Staff, DeleteInvitation(c) PROVE RequestsGiven'
  <2>1. \A j \in Invites : invite[j] # NoInvite =>
           invite'[j] # NoInvite /\ invite'[j].to = invite[j].to
    <3> SUFFICES ASSUME NEW j \in Invites, invite[j] # NoInvite
                 PROVE  invite'[j] # NoInvite /\ invite'[j].to = invite[j].to
      OBVIOUS
    <3>1. /\ [invite[j] EXCEPT !.canceled = TRUE] \in Invitation
          /\ [invite[j] EXCEPT !.canceled = TRUE].to = invite[j].to
      BY InviteTypes
    <3>2. \/ invite'[j] = [invite[j] EXCEPT !.canceled = TRUE]
          \/ invite'[j] = invite[j]
      BY <1>18 DEF DeleteInvitation
    <3>3. QED
      BY <3>1, <3>2
  <2>2. UNCHANGED allowed /\ Close(c)
    BY <1>18 DEF DeleteInvitation
  <2>3. QED
    BY <2>1, <2>2 DEF Close
<1>19. ASSUME NEW c \in Staff, FindPending(c) PROVE RequestsGiven'
  BY <1>19 DEF FindPending, Continue, Named
<1>20. ASSUME NEW c \in Staff, TakeUp(c) PROVE RequestsGiven'
  BY <1>20 DEF TakeUp, Close, Waiting
<1>21. ASSUME NEW c \in Staff, RequestFails(c) PROVE RequestsGiven'
  BY <1>21 DEF RequestFails, Close
<1>22. ASSUME NEW p \in People, SignUpByEmail(p) PROVE RequestsGiven'
  BY <1>22 DEF SignUpByEmail
<1>23. CASE UNCHANGED membersVars
  BY <1>23 DEF membersVars, rows, requestState
<1>24. QED
  BY <1>1, <1>2, <1>3, <1>4, <1>5, <1>6, <1>7, <1>8, <1>9, <1>10, <1>11, <1>12,
     <1>13, <1>14, <1>15, <1>16, <1>17, <1>18, <1>19, <1>20, <1>21, <1>22,
     <1>23
     DEF MembersNext

(* Invitations are made of what was given.                                  *)
LEMMA InvitesGivenStep ==
    ASSUME MembersTypeOK, RequestsGiven, InvitesGiven, [MembersNext]_membersVars
    PROVE  InvitesGiven'
<1> USE MembersAssumption
        DEF MembersTypeOK, InvitesGiven, rows, requestState
<1>1. ASSUME NEW c \in Staff, NEW p \in People, NEW q \in People, NEW r \in Roles,
            Invite(c, p, q, r)
     PROVE  InvitesGiven'
  BY <1>1 DEF Invite, Asks, About
<1>2. ASSUME NEW c \in Staff, NEW p \in People, NEW q \in People, NEW r \in Roles,
            ChangeRole(c, p, q, r)
     PROVE  InvitesGiven'
  BY <1>2 DEF ChangeRole, Asks, About
<1>3. ASSUME NEW c \in Staff, NEW p \in People, NEW q \in People,
            RemoveMember(c, p, q)
     PROVE  InvitesGiven'
  BY <1>3 DEF RemoveMember, Asks, About
<1>4. ASSUME NEW c \in Staff, NEW p \in People, NEW i \in Invites,
            CancelInvitation(c, p, i)
     PROVE  InvitesGiven'
  BY <1>4 DEF CancelInvitation, Asks
<1>5. ASSUME NEW c \in Staff, NEW p \in People, SignUp(c, p)
     PROVE  InvitesGiven'
  BY <1>5 DEF SignUp, Continue
<1>6. ASSUME NEW c \in Staff, NEW i \in Invites, CreateInvitation(c, i)
     PROVE  InvitesGiven'
  <2>1. <<whom[c], want[c]>> \in allowed
    BY <1>6, GrantTypes DEF CreateInvitation, Granting
  <2>2. invite' = [invite EXCEPT ![i] =
                      [to |-> whom[c], role |-> want[c], status |-> "pending",
                       canceled |-> FALSE]] /\ UNCHANGED allowed
    BY <1>6 DEF CreateInvitation
  <2>3. QED
    BY <2>1, <2>2
<1>7. ASSUME NEW c \in Staff, NEW i \in Invites, FindNamed(c, i)
     PROVE  InvitesGiven'
  BY <1>7 DEF FindNamed, Close, Named
<1>8. ASSUME NEW c \in Staff, NEW i \in Invites, JoinProject(c, i)
     PROVE  InvitesGiven'
  BY <1>8 DEF JoinProject, InsertMember, Waiting, Close
<1>9. ASSUME NEW c \in Staff, NEW i \in Invites, Accept(c, i)
     PROVE  InvitesGiven'
  <2>1. \A j \in Invites : invite'[j] # NoInvite =>
           /\ invite[j] # NoInvite /\ invite'[j].to = invite[j].to
           /\ invite'[j].role = invite[j].role
    <3>1. invite[i] # NoInvite
      BY <1>9 DEF Accept, Continue, RequestsGiven, TakingUp
    <3>2. QED
      BY <1>9, <3>1, InviteTypes DEF Accept
  <2>2. UNCHANGED allowed
    BY <1>9 DEF Accept
  <2>3. QED
    BY <2>1, <2>2
<1>10. ASSUME NEW c \in Staff, FindInvitee(c) PROVE InvitesGiven'
  BY <1>10 DEF FindInvitee, Continue, Waiting
<1>11. ASSUME NEW c \in Staff, FindMember(c) PROVE InvitesGiven'
  BY <1>11 DEF FindMember, Close, Waiting, Member
<1>12. ASSUME NEW c \in Staff, Restore(c) PROVE InvitesGiven'
  BY <1>12 DEF Restore, Overtake, Close
<1>13. ASSUME NEW c \in Staff, CreateMember(c) PROVE InvitesGiven'
  BY <1>13 DEF CreateMember, InsertMember, Close
<1>14. ASSUME NEW c \in Staff, ListForUpdate(c) PROVE InvitesGiven'
  BY <1>14 DEF ListForUpdate, Member, MayChange, Waiting, Close
<1>15. ASSUME NEW c \in Staff, UpdateRole(c) PROVE InvitesGiven'
  BY <1>15 DEF UpdateRole, Overtake, Close
<1>16. ASSUME NEW c \in Staff, ListForDelete(c) PROVE InvitesGiven'
  BY <1>16 DEF ListForDelete, Member, MayRemove, Waiting, Close
<1>17. ASSUME NEW c \in Staff, DeleteMember(c) PROVE InvitesGiven'
  BY <1>17 DEF DeleteMember, Overtake, Close
<1>18. ASSUME NEW c \in Staff, DeleteInvitation(c) PROVE InvitesGiven'
  <2>1. \A j \in Invites : j \in todo[c] => invite[j] # NoInvite
    BY <1>18 DEF DeleteInvitation, RequestsGiven
  <2>2. \A j \in Invites : invite'[j] # NoInvite =>
           /\ invite[j] # NoInvite /\ invite'[j].to = invite[j].to
           /\ invite'[j].role = invite[j].role
    BY <1>18, <2>1, InviteTypes DEF DeleteInvitation
  <2>3. UNCHANGED allowed
    BY <1>18 DEF DeleteInvitation
  <2>4. QED
    BY <2>2, <2>3
<1>19. ASSUME NEW c \in Staff, FindPending(c) PROVE InvitesGiven'
  BY <1>19 DEF FindPending, Continue, Named
<1>20. ASSUME NEW c \in Staff, TakeUp(c) PROVE InvitesGiven'
  BY <1>20 DEF TakeUp, Close, Waiting
<1>21. ASSUME NEW c \in Staff, RequestFails(c) PROVE InvitesGiven'
  BY <1>21 DEF RequestFails, Close
<1>22. ASSUME NEW p \in People, SignUpByEmail(p) PROVE InvitesGiven'
  BY <1>22 DEF SignUpByEmail
<1>23. CASE UNCHANGED membersVars
  BY <1>23 DEF membersVars, rows, requestState
<1> HIDE DEF InvitesGiven
<1> HIDE DEF MembersTypeOK
<1>24. QED
  BY <1>1, <1>2, <1>3, <1>4, <1>5, <1>6, <1>7, <1>8, <1>9, <1>10, <1>11, <1>12,
     <1>13, <1>14, <1>15, <1>16, <1>17, <1>18, <1>19, <1>20, <1>21, <1>22,
     <1>23
     DEF MembersNext

(* A role is written from a request or an invitation.                       *)
LEMMA RolesGivenStep ==
    ASSUME MembersTypeOK, RequestsGiven, InvitesGiven, RowsThere, RolesGiven,
           [MembersNext]_membersVars
    PROVE  RolesGiven'
<1> USE DEF MembersTypeOK, RolesGiven, rows, requestState
<1>1. ASSUME NEW c \in Staff, NEW p \in People, NEW q \in People, NEW r \in Roles,
            Invite(c, p, q, r)
     PROVE  RolesGiven'
  BY <1>1 DEF Invite, Asks, About
<1>2. ASSUME NEW c \in Staff, NEW p \in People, NEW q \in People, NEW r \in Roles,
            ChangeRole(c, p, q, r)
     PROVE  RolesGiven'
  BY <1>2 DEF ChangeRole, Asks, About
<1>3. ASSUME NEW c \in Staff, NEW p \in People, NEW q \in People,
            RemoveMember(c, p, q)
     PROVE  RolesGiven'
  BY <1>3 DEF RemoveMember, Asks, About
<1>4. ASSUME NEW c \in Staff, NEW p \in People, NEW i \in Invites,
            CancelInvitation(c, p, i)
     PROVE  RolesGiven'
  BY <1>4 DEF CancelInvitation, Asks
<1>5. ASSUME NEW c \in Staff, NEW p \in People, SignUp(c, p) PROVE RolesGiven'
  BY <1>5 DEF SignUp, Continue
<1>6. ASSUME NEW c \in Staff, NEW i \in Invites, CreateInvitation(c, i)
     PROVE  RolesGiven'
  BY <1>6 DEF CreateInvitation, Close
<1>7. ASSUME NEW c \in Staff, NEW i \in Invites, FindNamed(c, i)
     PROVE  RolesGiven'
  BY <1>7 DEF FindNamed, Close, Named
<1>8. ASSUME NEW c \in Staff, NEW i \in Invites, JoinProject(c, i)
     PROVE  RolesGiven'
  <2>1. /\ invite[i] # NoInvite /\ invite[i].to = whom[c]
        /\ <<invite[i].to, invite[i].role>> \in allowed
    BY <1>8 DEF JoinProject, RequestsGiven, TakingUp, InvitesGiven
  <2>2. \A p \in People : role'[p] # role[p] =>
           p = whom[c] /\ role'[p] = invite[i].role
    BY <1>8 DEF JoinProject, InsertMember
  <2>3. UNCHANGED allowed
    BY <1>8 DEF JoinProject
  <2>4. QED
    BY <2>1, <2>2, <2>3
<1>9. ASSUME NEW c \in Staff, NEW i \in Invites, Accept(c, i) PROVE RolesGiven'
  BY <1>9 DEF Accept, Continue
<1>10. ASSUME NEW c \in Staff, FindInvitee(c) PROVE RolesGiven'
  BY <1>10 DEF FindInvitee, Continue, Waiting
<1>11. ASSUME NEW c \in Staff, FindMember(c) PROVE RolesGiven'
  BY <1>11 DEF FindMember, Close, Waiting, Member
<1>12. ASSUME NEW c \in Staff, Restore(c) PROVE RolesGiven'
  <2>1. <<whom[c], want[c]>> \in allowed /\ want[c] # "none"
    BY <1>12, GrantTypes DEF Restore, Granting, Roles
  <2>2. QED
    BY <1>12, <2>1 DEF Restore
<1>13. ASSUME NEW c \in Staff, CreateMember(c) PROVE RolesGiven'
  <2>1. <<whom[c], want[c]>> \in allowed /\ want[c] # "none"
    BY <1>13, GrantTypes DEF CreateMember, Granting, Roles
  <2>2. QED
    BY <1>13, <2>1 DEF CreateMember, InsertMember
<1>14. ASSUME NEW c \in Staff, ListForUpdate(c) PROVE RolesGiven'
  BY <1>14 DEF ListForUpdate, Member, MayChange, Waiting, Close
<1>15. ASSUME NEW c \in Staff, UpdateRole(c) PROVE RolesGiven'
  <2>1. <<whom[c], want[c]>> \in allowed /\ want[c] # "none"
    BY <1>15, GrantTypes DEF UpdateRole, Granting, Roles
  <2>2. QED
    BY <1>15, <2>1 DEF UpdateRole
<1>16. ASSUME NEW c \in Staff, ListForDelete(c) PROVE RolesGiven'
  BY <1>16 DEF ListForDelete, Member, MayRemove, Waiting, Close
<1>17. ASSUME NEW c \in Staff, DeleteMember(c) PROVE RolesGiven'
  BY <1>17 DEF DeleteMember, Overtake, Close
<1>18. ASSUME NEW c \in Staff, DeleteInvitation(c) PROVE RolesGiven'
  BY <1>18 DEF DeleteInvitation, Close
<1>19. ASSUME NEW c \in Staff, FindPending(c) PROVE RolesGiven'
  BY <1>19 DEF FindPending, Continue, Named
<1>20. ASSUME NEW c \in Staff, TakeUp(c) PROVE RolesGiven'
  BY <1>20 DEF TakeUp, Close, Waiting
<1>21. ASSUME NEW c \in Staff, RequestFails(c) PROVE RolesGiven'
  BY <1>21 DEF RequestFails, Close
<1>22. ASSUME NEW p \in People, SignUpByEmail(p) PROVE RolesGiven'
  BY <1>22 DEF SignUpByEmail
<1>23. CASE UNCHANGED membersVars
  BY <1>23 DEF membersVars, rows, requestState
<1>24. QED
  BY <1>1, <1>2, <1>3, <1>4, <1>5, <1>6, <1>7, <1>8, <1>9, <1>10, <1>11, <1>12,
     <1>13, <1>14, <1>15, <1>16, <1>17, <1>18, <1>19, <1>20, <1>21, <1>22,
     <1>23
     DEF MembersNext

(* A row is never deleted.                                                  *)
LEMMA RowsThereStep ==
    ASSUME MembersTypeOK, MembersTypeOK', RequestsGiven, RowsThere,
           [MembersNext]_membersVars
    PROVE  RowsThere'
<1> USE DEF MembersTypeOK, RowsThere, Writing, rows, requestState
<1>1. ASSUME NEW c \in Staff, NEW p \in People, NEW q \in People, NEW r \in Roles,
            Invite(c, p, q, r)
     PROVE  RowsThere'
  BY <1>1 DEF Invite, Asks, About
<1>2. ASSUME NEW c \in Staff, NEW p \in People, NEW q \in People, NEW r \in Roles,
            ChangeRole(c, p, q, r)
     PROVE  RowsThere'
  BY <1>2 DEF ChangeRole, Asks, About
<1>3. ASSUME NEW c \in Staff, NEW p \in People, NEW q \in People,
            RemoveMember(c, p, q)
     PROVE  RowsThere'
  BY <1>3 DEF RemoveMember, Asks, About
<1>4. ASSUME NEW c \in Staff, NEW p \in People, NEW i \in Invites,
            CancelInvitation(c, p, i)
     PROVE  RowsThere'
  BY <1>4 DEF CancelInvitation, Asks
<1>5. ASSUME NEW c \in Staff, NEW p \in People, SignUp(c, p) PROVE RowsThere'
  BY <1>5 DEF SignUp, Continue
<1>6. ASSUME NEW c \in Staff, NEW i \in Invites, CreateInvitation(c, i)
     PROVE  RowsThere'
  BY <1>6 DEF CreateInvitation, Close
<1>7. ASSUME NEW c \in Staff, NEW i \in Invites, FindNamed(c, i)
     PROVE  RowsThere'
  BY <1>7 DEF FindNamed, Close, Named
<1>8. ASSUME NEW c \in Staff, NEW i \in Invites, JoinProject(c, i)
     PROVE  RowsThere'
  BY <1>8 DEF JoinProject, InsertMember, Waiting, Close
<1>9. ASSUME NEW c \in Staff, NEW i \in Invites, Accept(c, i) PROVE RowsThere'
  BY <1>9 DEF Accept, Continue
<1>10. ASSUME NEW c \in Staff, FindInvitee(c) PROVE RowsThere'
  BY <1>10 DEF FindInvitee, Continue, Waiting
<1>11. ASSUME NEW c \in Staff, FindMember(c) PROVE RowsThere'
  BY <1>11 DEF FindMember, Close, Waiting, Member
<1>12. ASSUME NEW c \in Staff, Restore(c) PROVE RowsThere'
  <2>1. want[c] # "none"
    BY <1>12, GrantTypes DEF Restore, Granting, Roles
  <2>2. QED
    BY <1>12, <2>1 DEF Restore, Overtake, Close
<1>13. ASSUME NEW c \in Staff, CreateMember(c) PROVE RowsThere'
  BY <1>13 DEF CreateMember, InsertMember, Close
<1>14. ASSUME NEW c \in Staff, ListForUpdate(c) PROVE RowsThere'
  BY <1>14 DEF ListForUpdate, Member, MayChange, Waiting, Close
<1>15. ASSUME NEW c \in Staff, UpdateRole(c) PROVE RowsThere'
  <2>1. want[c] # "none"
    BY <1>15, GrantTypes DEF UpdateRole, Granting, Roles
  <2>2. QED
    BY <1>15, <2>1 DEF UpdateRole, Overtake, Close
<1>16. ASSUME NEW c \in Staff, ListForDelete(c) PROVE RowsThere'
  BY <1>16 DEF ListForDelete, Member, MayRemove, Waiting, Close
<1>17. ASSUME NEW c \in Staff, DeleteMember(c) PROVE RowsThere'
  BY <1>17 DEF DeleteMember, Overtake, Close
<1>18. ASSUME NEW c \in Staff, DeleteInvitation(c) PROVE RowsThere'
  BY <1>18 DEF DeleteInvitation, Close
<1>19. ASSUME NEW c \in Staff, FindPending(c) PROVE RowsThere'
  BY <1>19 DEF FindPending, Continue, Named
<1>20. ASSUME NEW c \in Staff, TakeUp(c) PROVE RowsThere'
  BY <1>20 DEF TakeUp, Close, Waiting
<1>21. ASSUME NEW c \in Staff, RequestFails(c) PROVE RowsThere'
  BY <1>21 DEF RequestFails, Close
<1>22. ASSUME NEW p \in People, SignUpByEmail(p) PROVE RowsThere'
  BY <1>22 DEF SignUpByEmail
<1>23. CASE UNCHANGED membersVars
  BY <1>23 DEF membersVars, rows, requestState
<1>24. QED
  BY <1>1, <1>2, <1>3, <1>4, <1>5, <1>6, <1>7, <1>8, <1>9, <1>10, <1>11, <1>12,
     <1>13, <1>14, <1>15, <1>16, <1>17, <1>18, <1>19, <1>20, <1>21, <1>22,
     <1>23
     DEF MembersNext

(* What a request found holds until it is overtaken.                        *)
LEMMA FoundHoldsStep ==
    ASSUME MembersTypeOK, RequestsGiven, RowsThere, FoundHolds,
           [MembersNext]_membersVars
    PROVE  FoundHolds'
<1> USE DEF MembersTypeOK, FoundHolds, RowsThere, Writing, Member,
        RoleOf, MayChange, rows, requestState
<1>1. ASSUME NEW c \in Staff, NEW p \in People, NEW q \in People, NEW r \in Roles,
            Invite(c, p, q, r)
     PROVE  FoundHolds'
  BY <1>1 DEF Invite, Asks, About
<1>2. ASSUME NEW c \in Staff, NEW p \in People, NEW q \in People, NEW r \in Roles,
            ChangeRole(c, p, q, r)
     PROVE  FoundHolds'
  BY <1>2 DEF ChangeRole, Asks, About
<1>3. ASSUME NEW c \in Staff, NEW p \in People, NEW q \in People,
            RemoveMember(c, p, q)
     PROVE  FoundHolds'
  BY <1>3 DEF RemoveMember, Asks, About
<1>4. ASSUME NEW c \in Staff, NEW p \in People, NEW i \in Invites,
            CancelInvitation(c, p, i)
     PROVE  FoundHolds'
  BY <1>4 DEF CancelInvitation, Asks
<1>5. ASSUME NEW c \in Staff, NEW p \in People, SignUp(c, p) PROVE FoundHolds'
  BY <1>5 DEF SignUp, Continue
<1>6. ASSUME NEW c \in Staff, NEW i \in Invites, CreateInvitation(c, i)
     PROVE  FoundHolds'
  BY <1>6 DEF CreateInvitation, Close
<1>7. ASSUME NEW c \in Staff, NEW i \in Invites, FindNamed(c, i)
     PROVE  FoundHolds'
  BY <1>7 DEF FindNamed, Close, Named
<1>8. ASSUME NEW c \in Staff, NEW i \in Invites, JoinProject(c, i)
     PROVE  FoundHolds'
  BY <1>8 DEF JoinProject, InsertMember, Waiting, Close
<1>9. ASSUME NEW c \in Staff, NEW i \in Invites, Accept(c, i) PROVE FoundHolds'
  BY <1>9 DEF Accept, Continue
<1>10. ASSUME NEW c \in Staff, FindInvitee(c) PROVE FoundHolds'
  BY <1>10 DEF FindInvitee, Continue, Waiting
<1>11. ASSUME NEW c \in Staff, FindMember(c) PROVE FoundHolds'
  BY <1>11 DEF FindMember, Close, Waiting, Member
<1>12. ASSUME NEW c \in Staff, Restore(c) PROVE FoundHolds'
  BY <1>12 DEF Restore, Overtake, Close
<1>13. ASSUME NEW c \in Staff, CreateMember(c) PROVE FoundHolds'
  BY <1>13 DEF CreateMember, InsertMember, Close
<1>14. ASSUME NEW c \in Staff, ListForUpdate(c) PROVE FoundHolds'
  BY <1>14 DEF ListForUpdate, Member, MayChange, Waiting, Close
<1>15. ASSUME NEW c \in Staff, UpdateRole(c) PROVE FoundHolds'
  BY <1>15 DEF UpdateRole, Overtake, Close
<1>16. ASSUME NEW c \in Staff, ListForDelete(c) PROVE FoundHolds'
  BY <1>16 DEF ListForDelete, Member, MayRemove, Waiting, Close
<1>17. ASSUME NEW c \in Staff, DeleteMember(c) PROVE FoundHolds'
  BY <1>17 DEF DeleteMember, Overtake, Close
<1>18. ASSUME NEW c \in Staff, DeleteInvitation(c) PROVE FoundHolds'
  BY <1>18 DEF DeleteInvitation, Close
<1>19. ASSUME NEW c \in Staff, FindPending(c) PROVE FoundHolds'
  BY <1>19 DEF FindPending, Continue, Named
<1>20. ASSUME NEW c \in Staff, TakeUp(c) PROVE FoundHolds'
  BY <1>20 DEF TakeUp, Close, Waiting
<1>21. ASSUME NEW c \in Staff, RequestFails(c) PROVE FoundHolds'
  BY <1>21 DEF RequestFails, Close
<1>22. ASSUME NEW p \in People, SignUpByEmail(p) PROVE FoundHolds'
  BY <1>22 DEF SignUpByEmail
<1>23. CASE UNCHANGED membersVars
  BY <1>23 DEF membersVars, rows, requestState
<1>24. QED
  BY <1>1, <1>2, <1>3, <1>4, <1>5, <1>6, <1>7, <1>8, <1>9, <1>10, <1>11, <1>12,
     <1>13, <1>14, <1>15, <1>16, <1>17, <1>18, <1>19, <1>20, <1>21, <1>22,
     <1>23
     DEF MembersNext

(* The founder stays out of reach.                                          *)
LEMMA FounderSafeStep ==
    ASSUME MembersTypeOK, RequestsGiven, FounderSafe, [MembersNext]_membersVars
    PROVE  FounderSafe'
<1> USE MembersAssumption
        DEF MembersTypeOK, FounderSafe, FounderStays, IsOwner, RoleOf, rows, requestState
<1>1. ASSUME NEW c \in Staff, NEW p \in People, NEW q \in People, NEW r \in Roles,
            Invite(c, p, q, r)
     PROVE  FounderSafe'
  BY <1>1 DEF Invite, Asks, About
<1>2. ASSUME NEW c \in Staff, NEW p \in People, NEW q \in People, NEW r \in Roles,
            ChangeRole(c, p, q, r)
     PROVE  FounderSafe'
  BY <1>2 DEF ChangeRole, Asks, About
<1>3. ASSUME NEW c \in Staff, NEW p \in People, NEW q \in People,
            RemoveMember(c, p, q)
     PROVE  FounderSafe'
  BY <1>3 DEF RemoveMember, Asks, About
<1>4. ASSUME NEW c \in Staff, NEW p \in People, NEW i \in Invites,
            CancelInvitation(c, p, i)
     PROVE  FounderSafe'
  BY <1>4 DEF CancelInvitation, Asks
<1>5. ASSUME NEW c \in Staff, NEW p \in People, SignUp(c, p) PROVE FounderSafe'
  BY <1>5 DEF SignUp, Continue
<1>6. ASSUME NEW c \in Staff, NEW i \in Invites, CreateInvitation(c, i)
     PROVE  FounderSafe'
  BY <1>6 DEF CreateInvitation, Close
<1>7. ASSUME NEW c \in Staff, NEW i \in Invites, FindNamed(c, i)
     PROVE  FounderSafe'
  BY <1>7 DEF FindNamed, Close, Named
<1>8. ASSUME NEW c \in Staff, NEW i \in Invites, JoinProject(c, i)
     PROVE  FounderSafe'
  BY <1>8 DEF JoinProject, InsertMember, Waiting, Close
<1>9. ASSUME NEW c \in Staff, NEW i \in Invites, Accept(c, i)
     PROVE  FounderSafe'
  BY <1>9 DEF Accept, Continue
<1>10. ASSUME NEW c \in Staff, FindInvitee(c) PROVE FounderSafe'
  BY <1>10 DEF FindInvitee, Continue, Waiting
<1>11. ASSUME NEW c \in Staff, FindMember(c) PROVE FounderSafe'
  BY <1>11 DEF FindMember, Close, Waiting, Member
<1>12. ASSUME NEW c \in Staff, Restore(c) PROVE FounderSafe'
  BY <1>12 DEF Restore, Overtake, Close
<1>13. ASSUME NEW c \in Staff, CreateMember(c) PROVE FounderSafe'
  BY <1>13 DEF CreateMember, InsertMember, Close
<1>14. ASSUME NEW c \in Staff, ListForUpdate(c) PROVE FounderSafe'
  BY <1>14 DEF ListForUpdate, Member, MayChange, Waiting, Close
<1>15. ASSUME NEW c \in Staff, UpdateRole(c) PROVE FounderSafe'
  BY <1>15 DEF UpdateRole, Overtake, Close
<1>16. ASSUME NEW c \in Staff, ListForDelete(c) PROVE FounderSafe'
  BY <1>16 DEF ListForDelete, Member, MayRemove, Waiting, Close
<1>17. ASSUME NEW c \in Staff, DeleteMember(c) PROVE FounderSafe'
  BY <1>17 DEF DeleteMember, Overtake, Close
<1>18. ASSUME NEW c \in Staff, DeleteInvitation(c) PROVE FounderSafe'
  BY <1>18 DEF DeleteInvitation, Close
<1>19. ASSUME NEW c \in Staff, FindPending(c) PROVE FounderSafe'
  BY <1>19 DEF FindPending, Continue, Named
<1>20. ASSUME NEW c \in Staff, TakeUp(c) PROVE FounderSafe'
  BY <1>20 DEF TakeUp, Close, Waiting
<1>21. ASSUME NEW c \in Staff, RequestFails(c) PROVE FounderSafe'
  BY <1>21 DEF RequestFails, Close
<1>22. ASSUME NEW p \in People, SignUpByEmail(p) PROVE FounderSafe'
  BY <1>22 DEF SignUpByEmail
<1>23. CASE UNCHANGED membersVars
  BY <1>23 DEF membersVars, rows, requestState
<1>24. QED
  BY <1>1, <1>2, <1>3, <1>4, <1>5, <1>6, <1>7, <1>8, <1>9, <1>10, <1>11, <1>12,
     <1>13, <1>14, <1>15, <1>16, <1>17, <1>18, <1>19, <1>20, <1>21, <1>22,
     <1>23
     DEF MembersNext

(* An admin who may remove an admin leaves another one.                     *)
LEMMA AnotherAdminStep ==
    ASSUME MembersTypeOK, RequestsGiven, RowsThere, AnotherAdmin,
           [MembersNext]_membersVars
    PROVE  AnotherAdmin'
<1> USE DEF MembersTypeOK, AnotherAdmin, Admins, RowsThere, Writing, RoleOf, rows, requestState
<1>1. ASSUME NEW c \in Staff, NEW p \in People, NEW q \in People, NEW r \in Roles,
            Invite(c, p, q, r)
     PROVE  AnotherAdmin'
  BY <1>1 DEF Invite, Asks, About
<1>2. ASSUME NEW c \in Staff, NEW p \in People, NEW q \in People, NEW r \in Roles,
            ChangeRole(c, p, q, r)
     PROVE  AnotherAdmin'
  BY <1>2 DEF ChangeRole, Asks, About
<1>3. ASSUME NEW c \in Staff, NEW p \in People, NEW q \in People,
            RemoveMember(c, p, q)
     PROVE  AnotherAdmin'
  BY <1>3 DEF RemoveMember, Asks, About
<1>4. ASSUME NEW c \in Staff, NEW p \in People, NEW i \in Invites,
            CancelInvitation(c, p, i)
     PROVE  AnotherAdmin'
  BY <1>4 DEF CancelInvitation, Asks
<1>5. ASSUME NEW c \in Staff, NEW p \in People, SignUp(c, p)
     PROVE  AnotherAdmin'
  BY <1>5 DEF SignUp, Continue
<1>6. ASSUME NEW c \in Staff, NEW i \in Invites, CreateInvitation(c, i)
     PROVE  AnotherAdmin'
  BY <1>6 DEF CreateInvitation, Close
<1>7. ASSUME NEW c \in Staff, NEW i \in Invites, FindNamed(c, i)
     PROVE  AnotherAdmin'
  BY <1>7 DEF FindNamed, Close, Named
<1>8. ASSUME NEW c \in Staff, NEW i \in Invites, JoinProject(c, i)
     PROVE  AnotherAdmin'
  BY <1>8 DEF JoinProject, InsertMember, Waiting, Close
<1>9. ASSUME NEW c \in Staff, NEW i \in Invites, Accept(c, i)
     PROVE  AnotherAdmin'
  BY <1>9 DEF Accept, Continue
<1>10. ASSUME NEW c \in Staff, FindInvitee(c) PROVE AnotherAdmin'
  BY <1>10 DEF FindInvitee, Continue, Waiting
<1>11. ASSUME NEW c \in Staff, FindMember(c) PROVE AnotherAdmin'
  BY <1>11 DEF FindMember, Close, Waiting, Member
<1>12. ASSUME NEW c \in Staff, Restore(c) PROVE AnotherAdmin'
  BY <1>12 DEF Restore, Overtake, Close
<1>13. ASSUME NEW c \in Staff, CreateMember(c) PROVE AnotherAdmin'
  BY <1>13 DEF CreateMember, InsertMember, Close
<1>14. ASSUME NEW c \in Staff, ListForUpdate(c) PROVE AnotherAdmin'
  BY <1>14 DEF ListForUpdate, Member, MayChange, Waiting, Close
<1>15. ASSUME NEW c \in Staff, UpdateRole(c) PROVE AnotherAdmin'
  BY <1>15 DEF UpdateRole, Overtake, Close
<1>16. ASSUME NEW c \in Staff, ListForDelete(c) PROVE AnotherAdmin'
  BY <1>16 DEF ListForDelete, Member, MayRemove, Waiting, Close
<1>17. ASSUME NEW c \in Staff, DeleteMember(c) PROVE AnotherAdmin'
  BY <1>17 DEF DeleteMember, Overtake, Close
<1>18. ASSUME NEW c \in Staff, DeleteInvitation(c) PROVE AnotherAdmin'
  BY <1>18 DEF DeleteInvitation, Close
<1>19. ASSUME NEW c \in Staff, FindPending(c) PROVE AnotherAdmin'
  BY <1>19 DEF FindPending, Continue, Named
<1>20. ASSUME NEW c \in Staff, TakeUp(c) PROVE AnotherAdmin'
  BY <1>20 DEF TakeUp, Close, Waiting
<1>21. ASSUME NEW c \in Staff, RequestFails(c) PROVE AnotherAdmin'
  BY <1>21 DEF RequestFails, Close
<1>22. ASSUME NEW p \in People, SignUpByEmail(p) PROVE AnotherAdmin'
  BY <1>22 DEF SignUpByEmail
<1>23. CASE UNCHANGED membersVars
  BY <1>23 DEF membersVars, rows, requestState
<1>24. QED
  BY <1>1, <1>2, <1>3, <1>4, <1>5, <1>6, <1>7, <1>8, <1>9, <1>10, <1>11, <1>12,
     <1>13, <1>14, <1>15, <1>16, <1>17, <1>18, <1>19, <1>20, <1>21, <1>22,
     <1>23
     DEF MembersNext

-----------------------------------------------------------------------------
(* The project has its founder's row, and no request is under way.         *)
LEMMA MembersBegin ==
    MembersInit => MembersInductive
<1> SUFFICES ASSUME MembersInit PROVE MembersInductive
  OBVIOUS
<1> USE MembersAssumption
<1>1. MembersTypeOK
  BY DEF MembersInit, MembersTypeOK, MemberStage, Roles
<1>2. RequestsGiven /\ InvitesGiven /\ FoundHolds /\ AnotherAdmin
  BY DEF MembersInit, RequestsGiven, InvitesGiven, FoundHolds, AnotherAdmin,
     Granting, TakingUp
<1>3. RowsThere /\ FounderSafe
  BY DEF MembersInit, RowsThere, FounderSafe, FounderStays, IsOwner, RoleOf,
     Writing
<1>4. RolesGiven
  BY <1>1 DEF MembersInit, RolesGiven, MembersTypeOK
<1>5. QED
  BY <1>1, <1>2, <1>3, <1>4 DEF MembersInductive

(* What the proofs of the properties rest on.                              *)
THEOREM MembersInvariant == MembersSpec => []MembersInductive
<1>1. MembersInductive /\ [MembersNext]_membersVars => MembersInductive'
  <2> SUFFICES ASSUME MembersInductive, [MembersNext]_membersVars
               PROVE  MembersInductive'
    OBVIOUS
  <2> USE DEF MembersInductive
  <2>1. MembersTypeOK'
    BY MembersTypeStep
  <2>2. RequestsGiven' /\ InvitesGiven' /\ RolesGiven'
    BY <2>1, RequestsGivenStep, InvitesGivenStep, RolesGivenStep
  <2>3. RowsThere' /\ FoundHolds'
    BY <2>1, RowsThereStep, FoundHoldsStep
  <2>4. FounderSafe' /\ AnotherAdmin'
    BY FounderSafeStep, AnotherAdminStep
  <2>5. QED
    BY <2>1, <2>2, <2>3, <2>4
<1>2. QED
  BY <1>1, MembersBegin, PTL DEF MembersSpec

(* The state of the project's members has its types.                       *)
THEOREM MembersTyped == MembersSpec => []MembersTypeOK
BY MembersInvariant, PTL DEF MembersInductive

(* Whoever made the project stays its owner (members.ts, PATCH and DELETE).*)
THEOREM FounderKept == MembersSpec => []FounderStays
BY MembersInvariant, PTL DEF MembersInductive, FounderSafe

(* Every role was given to its holder by an owner or admin.                *)
THEOREM RolesWereGiven == MembersSpec => []RolesGiven
BY MembersInvariant, PTL DEF MembersInductive

(* An owner loses the role only to a request that was overtaken between    *)
(* its list of the members and its write.                                  *)
THEOREM OwnersKept == MembersSpec => OwnerStays
<1>1. MembersInductive /\ [MembersNext]_membersVars
      => [\A p \in People :
            (IsOwner(p) /\ ~IsOwner(p)')
            => \E c \in Staff : /\ step[c] \in Writing /\ step'[c] = "idle"
                                /\ whom[c] = p /\ p \in late[c]]_membersVars
  <2> SUFFICES ASSUME MembersInductive, [MembersNext]_membersVars,
                      NEW p \in People, IsOwner(p), ~IsOwner(p)'
               PROVE  \E c \in Staff :
                         /\ step[c] \in Writing /\ step'[c] = "idle"
                         /\ whom[c] = p /\ p \in late[c]
    OBVIOUS
  <2>1. role[p] = "owner" /\ p \notin gone /\ MembersTypeOK
    BY DEF IsOwner, RoleOf, MembersInductive
  <2>2. ~(role'[p] = "owner" /\ p \notin gone')
    BY DEF IsOwner, RoleOf
  <2>3. PICK c \in Staff : \/ Restore(c) \/ UpdateRole(c) \/ DeleteMember(c)
    <3>1. ASSUME NEW c \in Staff, CreateMember(c) PROVE FALSE
      BY <2>1, <2>2, <3>1 DEF CreateMember, InsertMember, MembersTypeOK
    <3>2. ASSUME NEW c \in Staff, NEW i \in Invites, JoinProject(c, i)
          PROVE  FALSE
      BY <2>1, <2>2, <3>2 DEF JoinProject, InsertMember, MembersTypeOK
    <3>3. CASE UNCHANGED rows
      BY <2>1, <2>2, <3>3 DEF rows
    <3>4. QED
      BY <3>1, <3>2, <3>3 DEF MembersNext, membersVars, Invite, ChangeRole,
         RemoveMember, CancelInvitation, SignUp, CreateInvitation, FindNamed,
         Accept, FindInvitee, FindMember, ListForUpdate, ListForDelete,
         DeleteInvitation, FindPending, TakeUp, RequestFails, SignUpByEmail
  <2>4. whom[c] = p
    BY <2>1, <2>2, <2>3 DEF Restore, UpdateRole, DeleteMember, MembersTypeOK
  <2>5. step[c] \in Writing /\ step'[c] = "idle"
    BY <2>1, <2>3 DEF Restore, UpdateRole, DeleteMember, MembersTypeOK,
       Writing, Close
  <2>6. p \in late[c]
    <3>1. CASE Restore(c)
      BY <2>1, <2>4, <3>1 DEF Restore, MembersInductive, FoundHolds
    <3>2. CASE UpdateRole(c)
      BY <2>1, <2>2, <2>4, <3>2 DEF UpdateRole, MembersInductive, FoundHolds,
         MayChange, MembersTypeOK
    <3>3. CASE DeleteMember(c)
      BY <2>1, <2>4, <3>3 DEF DeleteMember, MembersInductive, FoundHolds
    <3>4. QED
      BY <2>3, <3>1, <3>2, <3>3
  <2>7. QED
    BY <2>4, <2>5, <2>6
<1>2. QED
  BY <1>1, MembersInvariant, PTL DEF MembersSpec, OwnerStays

(* An admin's removal that nothing overtook leaves an admin.               *)
THEOREM AnAdminStays == MembersSpec => LastAdminStays
<1>1. MembersInductive /\ [MembersNext]_membersVars
      => [\A c \in Staff :
            (step[c] = "delete" /\ step'[c] = "idle" /\ gone' # gone
               /\ by[c] # "owner" /\ late[c] = {} /\ whom[c] \in Admins)
            => Admins' # {}]_membersVars
  <2> SUFFICES ASSUME MembersInductive, [MembersNext]_membersVars,
                      NEW c \in Staff, step[c] = "delete", step'[c] = "idle",
                      gone' # gone, by[c] # "owner", late[c] = {},
                      whom[c] \in Admins
               PROVE  Admins' # {}
    OBVIOUS
  <2>1. MembersTypeOK
    BY DEF MembersInductive
  <2>2. PICK o \in Staff : Restore(o) \/ DeleteMember(o)
    BY DEF MembersNext, membersVars, rows, Invite, ChangeRole, RemoveMember,
       CancelInvitation, SignUp, CreateInvitation, FindNamed, JoinProject,
       Accept, FindInvitee, FindMember, CreateMember, ListForUpdate, UpdateRole,
       ListForDelete, DeleteInvitation, FindPending, TakeUp, RequestFails,
       SignUpByEmail
  <2>3. o = c
    BY <2>1, <2>2 DEF Restore, DeleteMember, Close, MembersTypeOK
  <2>4. DeleteMember(c)
    BY <2>2, <2>3 DEF Restore
  <2>5. PICK p \in Admins : p # whom[c]
    BY DEF MembersInductive, AnotherAdmin, Admins
  <2>6. p \in Admins'
    BY <2>4, <2>5 DEF DeleteMember, Admins, RoleOf
  <2>7. QED
    BY <2>6
<1>2. QED
  BY <1>1, MembersInvariant, PTL DEF MembersSpec, LastAdminStays
=============================================================================
