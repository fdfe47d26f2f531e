--------------------------------- MODULE Staff ---------------------------------
(***************************************************************************)
(* Staff accounts after the installation:                                  *)
(*                                                                         *)
(*   statuses, roles, sessions   app/routes/admin/staff-detail.tsx         *)
(*   who may do what to whom     app/domain/users/staff-guards.ts          *)
(*   invitations                 app/application/commands/staff-invitations.ts *)
(*                                                                         *)
(* Every staff request reads first and writes one batch at the end; between *)
(* the two other requests commit.  An account is named by its person: the   *)
(* e-mail address is unique.                                                *)
(***************************************************************************)
EXTENDS Naturals, FiniteSets

CONSTANTS
    Person,
    Founder,        \* the administrator the installation made
    Role,           \* roles are rows; super_admin is one of them
    Grants,         \* Grants[r]: the permissions of role r
    RoleChoice,     \* the sets of roles staff tick on a form
    StaffRequest,   \* submissions of the staff page
    Invitation,
    Acceptance      \* submissions of the invitation page

ASSUME StaffAssumption ==
    /\ Founder \in Person
    /\ "super_admin" \in Role
    /\ RoleChoice \subseteq SUBSET Role
    /\ DOMAIN Grants = Role
    /\ \A r \in Role : Grants[r] \subseteq Grants["super_admin"]
    /\ {"staff.roles", "staff.write"} \subseteq Grants["super_admin"]

StaffStatus == {"invited", "active", "suspended", "disabled", "archived"}

VARIABLES
    profile,    \* profile[p]: status of the staff_profiles row, or none
    roles,      \* roles[p]: the user_roles rows
    session,    \* session[p]: none, opened, or relayed to the browser
    confirmed,  \* people with an unspent step-up for staff.roles
    login,      \* people with an account
    request,    \* request[q]: locals of a staff request
    invite,     \* invite[i]: the staff_invitations row, and its sender's locals
    lapsed,     \* invitations older than seven days
    accepting,  \* accepting[k]: locals of an acceptance
    joined,     \* history: pairs of an acceptance and the invitation it joined by
    unasked,    \* history: people whose session a code opened while they were not active
    crossed,    \* history: a change was written that others had overtaken
    minted,     \* history: somebody not super_admin made a super_admin
    halfJoined  \* history: an acceptance failed between account and profile

people == <<profile, roles, session, confirmed, login, unasked>>
staffHistory == <<joined, crossed, minted, halfJoined>>
staffVars == <<profile, roles, session, confirmed, login, request, invite, lapsed, accepting,
               joined, unasked, crossed, minted, halfJoined>>

--------------------------------------------------------------------------------
(* The guards.                                                               *)

IsUsableStatus_NotGone(s) == s \in {"active", "suspended"}
IsUsableStatus(s) == s = "active"

StatusChanges == [
    invited   |-> {"active", "archived"},
    active    |-> {"suspended", "disabled", "archived"},
    suspended |-> {"active", "disabled", "archived"},
    disabled  |-> {"active", "archived"},
    archived  |-> {}]

CanChangeStatus(from, to) == to \in StatusChanges[from]

\* The active super_admins once p has status s and roles rs.
ActiveAdmins(p, s, rs) ==
    {q \in Person : IF q = p
                    THEN IsUsableStatus(s) /\ "super_admin" \in rs
                    ELSE profile[q] # "none" /\ IsUsableStatus(profile[q]) /\ "super_admin" \in roles[q]}

WouldOrphan(p, s, rs) == ActiveAdmins(p, s, rs) = {}

Permissions(rs) == UNION {Grants[r] : r \in rs}

CanGrant_OfOwn(rs, r) == "staff.roles" \in Permissions(rs)
CanGrant(rs, r) ==
    /\ "staff.roles" \in Permissions(rs)
    /\ r = "super_admin" => "super_admin" \in rs
    /\ Grants[r] \subseteq Permissions(rs)

\* requireStaff: a session, an active profile, the permission.
May(p, permission) ==
    /\ session[p] = "relayed"
    /\ profile[p] = "active"
    /\ permission \in Permissions(roles[p])

Fresh == [at |-> "new"]
Over  == [at |-> "over"]

StaffInit ==
    /\ profile = [p \in Person |-> IF p = Founder THEN "active" ELSE "none"]
    /\ roles = [p \in Person |-> IF p = Founder THEN {"super_admin"} ELSE {}]
    /\ session = [p \in Person |-> IF p = Founder THEN "relayed" ELSE "none"]
    /\ confirmed = {}
    /\ login = {Founder}
    /\ request = [q \in StaffRequest |-> Fresh]
    /\ invite = [i \in Invitation |-> Fresh]
    /\ lapsed = {}
    /\ accepting = [k \in Acceptance |-> Fresh]
    /\ joined = {}
    /\ unasked = {}
    /\ crossed = FALSE
    /\ minted = FALSE
    /\ halfJoined = FALSE

--------------------------------------------------------------------------------
(* Signing in with a password alone: Better Auth opens the session, then the  *)
(* route asks whether the account is staff, and only then hands the cookie over. *)

OpenSession(p) ==
    /\ p \in login
    /\ session[p] = "none"
    /\ session' = [session EXCEPT ![p] = "opened"]
    /\ UNCHANGED <<profile, roles, confirmed, login, unasked, request, invite, lapsed, accepting, staffHistory>>

RelaySession(p) ==
    /\ session[p] = "opened"
    /\ profile[p] = "active"
    /\ session' = [session EXCEPT ![p] = "relayed"]
    /\ unasked' = unasked \ {p}
    /\ UNCHANGED <<profile, roles, confirmed, login, request, invite, lapsed, accepting, staffHistory>>

\* With a second factor the password makes no session, only a challenge.  The
\* code makes the session, and its cookie is handed over whatever the profile
\* says.  No change of status touches a challenge that is pending, and a password
\* is accepted from whoever has an account, so the code may come at any time.
AnswerChallenge(p) ==
    /\ p \in login
    /\ session[p] # "relayed"
    /\ session' = [session EXCEPT ![p] = "relayed"]
    /\ unasked' = IF profile[p] = "active" THEN unasked \ {p} ELSE unasked \cup {p}
    /\ UNCHANGED <<profile, roles, confirmed, login, request, invite, lapsed, accepting, staffHistory>>

ConfirmIdentity(p) ==
    /\ May(p, "staff.roles")
    /\ confirmed' = confirmed \cup {p}
    /\ UNCHANGED <<profile, roles, session, login, unasked, request, invite, lapsed, accepting, staffHistory>>

RevokeSessions(a, p) ==
    /\ May(a, "staff.write")
    /\ session[p] # "none"
    /\ session' = [session EXCEPT ![p] = "none"]
    /\ UNCHANGED <<profile, roles, confirmed, login, unasked, request, invite, lapsed, accepting, staffHistory>>

--------------------------------------------------------------------------------
(* Changing a colleague.  The member and the summaries are read before the    *)
(* actor is even known.                                                       *)

Judge(q, p, s, rs, local) ==
    /\ request[q] = Fresh
    /\ profile[p] # "none"
    /\ ~WouldOrphan(p, s, rs)
    /\ request' = [request EXCEPT ![q] = local]
    /\ UNCHANGED <<people, invite, lapsed, accepting, staffHistory>>

JudgeStatus(q, p, s) ==
    /\ profile[p] # "none" /\ CanChangeStatus(profile[p], s)
    /\ Judge(q, p, s, roles[p], [at |-> "status", of |-> p, to |-> s, overtaken |-> FALSE])

JudgeRoles(q, p, rs) ==
    Judge(q, p, profile[p], rs, [at |-> "roles", of |-> p, to |-> rs, overtaken |-> FALSE])

\* requireStaff, then canActOnStaff.
AdmitStatus(q, a) ==
    /\ request[q].at = "status"
    /\ May(a, "staff.write")
    /\ a # request[q].of
    /\ request' = [request EXCEPT ![q].at = "status admitted"]
    /\ UNCHANGED <<people, invite, lapsed, accepting, staffHistory>>

\* requireStaff loads the actor's roles; the step-up is spent.
AdmitRoles(q, a) ==
    /\ request[q].at = "roles"
    /\ May(a, "staff.roles")
    /\ a \in confirmed
    /\ confirmed' = confirmed \ {a}
    /\ request' = [request EXCEPT ![q] = [at |-> "roles admitted", of |-> @.of, to |-> @.to,
                                          with |-> roles[a], overtaken |-> @.overtaken]]
    /\ UNCHANGED <<profile, roles, session, login, unasked, invite, lapsed, accepting, staffHistory>>

\* Only the roles being added are the actor's to grant.
WeighRoles(q) ==
    LET j == request[q] IN
    /\ j.at = "roles admitted"
    /\ request' = [request EXCEPT ![q] =
                     IF \A r \in j.to \ roles[j.of] : CanGrant(j.with, r)
                     THEN [j EXCEPT !.at = "roles weighed"] ELSE Over]
    /\ UNCHANGED <<people, invite, lapsed, accepting, staffHistory>>

\* Request q has written: every other change in flight is overtaken.
Overtake(q) ==
    request' = [x \in StaffRequest |->
                  IF x = q THEN Over
                  ELSE IF request[x] \in {Fresh, Over} THEN request[x]
                  ELSE [request[x] EXCEPT !.overtaken = TRUE]]

\* Losing active closes every session of the person, in the same batch.
SessionsAfter_Kept(p, s) == session
SessionsAfter(p, s) == IF IsUsableStatus(s) THEN session ELSE [session EXCEPT ![p] = "none"]

CommitStatus(q) ==
    LET j == request[q] IN
    /\ j.at = "status admitted"
    /\ profile' = [profile EXCEPT ![j.of] = j.to]
    /\ session' = SessionsAfter(j.of, j.to)
    /\ unasked' = unasked \ {j.of}
    /\ crossed' = (crossed \/ j.overtaken)
    /\ Overtake(q)
    /\ UNCHANGED <<roles, confirmed, login, invite, lapsed, accepting, joined, minted, halfJoined>>

CommitRoles(q) ==
    LET j == request[q] IN
    /\ j.at = "roles weighed"
    /\ roles' = [roles EXCEPT ![j.of] = j.to]
    /\ session' = [session EXCEPT ![j.of] = "none"]
    /\ crossed' = (crossed \/ j.overtaken)
    /\ minted' = (minted \/ ("super_admin" \in j.to \ roles[j.of] /\ "super_admin" \notin j.with))
    /\ Overtake(q)
    /\ UNCHANGED <<profile, confirmed, login, unasked, invite, lapsed, accepting, joined, halfJoined>>

--------------------------------------------------------------------------------
(* Invitations.                                                              *)

IsStaff(p) == profile[p] \notin {"none", "archived"}
Invited(p) == \E i \in Invitation : invite[i].at = "pending" /\ invite[i].to = p /\ i \notin lapsed

\* The page asks for a step-up but does not spend it.
CheckInvitation(i, a, p, rs) ==
    /\ invite[i] = Fresh
    /\ May(a, "staff.roles") /\ a \in confirmed
    /\ ~IsStaff(p) /\ ~Invited(p)
    /\ rs # {} /\ \A r \in rs : CanGrant(roles[a], r)
    /\ invite' = [invite EXCEPT ![i] =
                    [at |-> "checked", to |-> p, roles |-> rs, super |-> "super_admin" \in roles[a]]]
    /\ UNCHANGED <<people, request, lapsed, accepting, staffHistory>>

SendInvitation(i) ==
    /\ invite[i].at = "checked"
    /\ invite' = [invite EXCEPT ![i].at = "pending"]
    /\ UNCHANGED <<people, request, lapsed, accepting, staffHistory>>

LapseInvitation(i) ==
    /\ invite[i].at = "pending" /\ i \notin lapsed
    /\ lapsed' = lapsed \cup {i}
    /\ UNCHANGED <<people, request, invite, accepting, staffHistory>>

RevokeInvitation(i, a) ==
    /\ May(a, "staff.roles")
    /\ invite[i].at = "pending"
    /\ invite' = [invite EXCEPT ![i].at = "revoked"]
    /\ UNCHANGED <<people, request, lapsed, accepting, staffHistory>>

\* UPDATE ... WHERE status = 'pending' AND expires_at > now
Acceptable_Known(i) == invite[i].at \in {"pending", "accepted"}
Acceptable(i) == invite[i].at = "pending" /\ i \notin lapsed

ClaimInvitation(k, i) ==
    /\ accepting[k] = Fresh
    /\ Acceptable(i)
    /\ invite' = [invite EXCEPT ![i].at = "accepted"]
    /\ accepting' = [accepting EXCEPT ![k] = [at |-> "claimed", of |-> i]]
    /\ UNCHANGED <<people, request, lapsed, staffHistory>>

\* The account is for the invitation's address, whoever holds the link.
CreateLogin(k) ==
    LET p == invite[accepting[k].of].to IN
    /\ accepting[k].at = "claimed"
    /\ p \notin login
    /\ login' = login \cup {p}
    /\ accepting' = [accepting EXCEPT ![k].at = "has account"]
    /\ UNCHANGED <<profile, roles, session, confirmed, unasked, request, invite, lapsed, staffHistory>>

RefuseLogin(k) ==
    /\ accepting[k].at = "claimed"
    /\ accepting' = [accepting EXCEPT ![k].at = "refused"]
    /\ UNCHANGED <<people, request, invite, lapsed, staffHistory>>

\* The claim is given back by id, without a condition.
ReopenInvitation(k) ==
    /\ accepting[k].at = "refused"
    /\ invite' = [invite EXCEPT ![accepting[k].of].at = "pending"]
    /\ accepting' = [accepting EXCEPT ![k] = Over]
    /\ UNCHANGED <<people, request, lapsed, staffHistory>>

\* Profile and roles are one batch; the roles are those of the invitation,
\* whatever the inviter may still grant today.
JoinStaff(k) ==
    LET i == accepting[k].of
        p == invite[i].to
    IN
    /\ accepting[k].at = "has account"
    /\ profile' = [profile EXCEPT ![p] = "active"]
    /\ roles' = [roles EXCEPT ![p] = invite[i].roles]
    /\ session' = [session EXCEPT ![p] = "relayed"]
    /\ unasked' = unasked \ {p}
    /\ joined' = joined \cup {<<k, i>>}
    /\ minted' = (minted \/ ("super_admin" \in invite[i].roles /\ ~invite[i].super))
    /\ accepting' = [accepting EXCEPT ![k] = Over]
    /\ UNCHANGED <<confirmed, login, request, invite, lapsed, crossed, halfJoined>>

\* The batch fails or the worker dies: an account without a profile.
FailToJoin(k) ==
    /\ accepting[k].at = "has account"
    /\ halfJoined' = TRUE
    /\ accepting' = [accepting EXCEPT ![k] = Over]
    /\ UNCHANGED <<people, request, invite, lapsed, joined, crossed, minted>>

--------------------------------------------------------------------------------
StaffNext ==
    \/ \E p \in Person : OpenSession(p) \/ RelaySession(p) \/ AnswerChallenge(p) \/ ConfirmIdentity(p)
    \/ \E a, p \in Person : RevokeSessions(a, p)
    \/ \E q \in StaffRequest :
          \/ \E p \in Person, s \in StaffStatus : JudgeStatus(q, p, s)
          \/ \E p \in Person, rs \in RoleChoice : JudgeRoles(q, p, rs)
          \/ \E a \in Person : AdmitStatus(q, a) \/ AdmitRoles(q, a)
          \/ WeighRoles(q)
          \/ CommitStatus(q)
          \/ CommitRoles(q)
    \/ \E i \in Invitation :
          \/ \E a, p \in Person, rs \in RoleChoice : CheckInvitation(i, a, p, rs)
          \/ SendInvitation(i)
          \/ LapseInvitation(i)
          \/ \E a \in Person : RevokeInvitation(i, a)
    \/ \E k \in Acceptance :
          \/ \E i \in Invitation : ClaimInvitation(k, i)
          \/ CreateLogin(k)
          \/ RefuseLogin(k)
          \/ ReopenInvitation(k)
          \/ JoinStaff(k)
          \/ FailToJoin(k)

StaffSpec == StaffInit /\ [][StaffNext]_staffVars

--------------------------------------------------------------------------------
(* Properties.                                                               *)

StaffTypeOK ==
    /\ profile \in [Person -> StaffStatus \cup {"none"}]
    /\ roles \in [Person -> SUBSET Role]
    /\ session \in [Person -> {"none", "opened", "relayed"}]
    /\ confirmed \subseteq Person
    /\ login \subseteq Person
    /\ \A q \in StaffRequest : request[q].at \in
          {"new", "over", "status", "status admitted", "roles", "roles admitted", "roles weighed"}
    /\ \A i \in Invitation : invite[i].at \in {"new", "checked", "pending", "accepted", "revoked"}
    /\ lapsed \subseteq Invitation
    /\ \A k \in Acceptance : accepting[k].at \in {"new", "over", "claimed", "has account", "refused"}
    /\ joined \subseteq Acceptance \X Invitation
    /\ unasked \subseteq Person
    /\ crossed \in BOOLEAN /\ minted \in BOOLEAN /\ halfJoined \in BOOLEAN

\* No sequence of demotions, suspensions and archivals leaves the shop without
\* an administrator who can sign in, unless two changes overlapped: the guard
\* judges summaries that were read before.
AdminRemains == crossed \/ \E p \in Person : profile[p] = "active" /\ "super_admin" \in roles[p]

\* Nobody who is not super_admin makes a super_admin: not by ticking the role,
\* not by an invitation, not by saving a list of roles read earlier, unless
\* another change of staff overtook that list.
SuperFromSuper == crossed \/ ~minted

\* A person who loses active keeps no session a browser can use, and the password
\* alone gives no new one: the sign-in asks for the profile after the session
\* exists, so a suspension in between still finds it.  A code of the second factor
\* does give one, for nobody asks there; every page then refuses it, and unasked
\* names these people until their status changes or they sign in again.
SessionsOfTheActive == \A p \in Person \ unasked : session[p] = "relayed" => profile[p] = "active"

\* One invitation makes one colleague, however often the link is used, and
\* giving a failed claim back never revives an invitation that was revoked or
\* used: one that is accepted has its colleague, or somebody is still accepting
\* it, or the batch after the account failed and nobody can use it any more.
InvitationSpentOnce ==
    /\ \A x, y \in joined : x[2] = y[2] => x = y
    /\ \A x \in joined : invite[x[2]].at = "accepted"
    /\ halfJoined \/ \A i \in Invitation : invite[i].at = "accepted" =>
          \/ \E x \in joined : x[2] = i
          \/ \E k \in Acceptance : accepting[k] \notin {Fresh, Over} /\ accepting[k].of = i
================================================================================
