------------------------------ MODULE Workspace ------------------------------
(***************************************************************************)
(* One shared workspace of apps/api/src/auth: who belongs to it and in     *)
(* which role, the transfer of its ownership, its invites, the device      *)
(* tokens of its members, and the triggers of the database that guard its  *)
(* last owner (V022).  A request reads, and may wait for the rows that     *)
(* another has written; its writes are seen by others, and its rows free,  *)
(* when its transaction commits.                                           *)
(*                                                                         *)
(* A membership that is removed keeps its role.  Users are active, and     *)
(* each signs in with the address the invites for them name.  Letters are  *)
(* what was given to the delivery of invites, each with the secret it      *)
(* carries; secrets and device tokens are numbers, given out in order.     *)
(***************************************************************************)
EXTENDS Integers, FiniteSets

CONSTANTS
    Users,           \* people
    Nobody,          \* no user
    Newcomers,       \* users who may be invited
    Officers,        \* requests in progress at a time
    Invites,         \* ids of invites: numbers
    Secrets,         \* secrets of invites: numbers
    Devices,         \* device tokens: numbers
    MaxErrands,      \* bound: requests begun
    MaxFailures      \* bound: requests that fail half way

ASSUME NobodyAssumption == Nobody \notin Users /\ Newcomers \subseteq Users
ASSUME NumbersAssumption ==
    Invites \subseteq Nat \ {0} /\ Secrets \subseteq Nat \ {0} /\ Devices \subseteq Nat \ {0}
ASSUME ErrandsAssumption == MaxErrands \in Nat /\ MaxFailures \in Nat

VARIABLES
    member,     \* [Users -> Membership]: committed rows of memberships
    patron,     \* owner_user_id of the household
    transfer,   \* the pending row of ownership_transfers
    invite,     \* [Invites -> Invite]: committed rows of invites
    letters,    \* secrets that were delivered
    token,      \* [Devices -> Token]: committed rows of device_tokens
    errand,     \* [Officers -> Errand]: the request each is serving
    errands,    \* requests begun so far
    failures,   \* requests that failed so far
    skewed,     \* history: two commits were vetted before either was seen
    missed      \* history: users with a token no cleanup was ever to see

workspaceVars == <<member, patron, transfer, invite, letters, token, errand,
                   errands, failures, skewed, missed>>

-----------------------------------------------------------------------------
(* State space *)

Membership == [role : {"owner", "member"}, status : {"none", "active", "removed"}]

Transfer == [from : Users \cup {Nobody}, to : Users \cup {Nobody}]

NoTransfer == [from |-> Nobody, to |-> Nobody]

Invite == [whom : Users \cup {Nobody}, role : {"owner", "member"}, secret : Secrets \cup {0},
           expired : BOOLEAN, consumed : BOOLEAN, revoked : BOOLEAN]

NoInvite == [whom |-> Nobody, role |-> "member", secret |-> 0,
             expired |-> FALSE, consumed |-> FALSE, revoked |-> FALSE]

(* person: whose device it is; user: the column user_id *)
Token == [state  : {"free", "live", "windowed", "revoked"},
          person : Users \cup {Nobody}, user : Users \cup {Nobody},
          parent : Devices \cup {0}]

NoToken == [state |-> "free", person |-> Nobody, user |-> Nobody, parent |-> 0]

Errand == [op   : {"none", "remove", "leave", "offer", "take", "invite", "resend",
                   "join", "register", "rotate"},
           step : {"asked", "checked", "written", "vetted", "due", "aimed"},
           from : Users \cup {Nobody}, on : Users \cup {Nobody},
           invite : Invites \cup {0}, expected : Secrets \cup {0},
           secret : Secrets \cup {0}, renew : BOOLEAN,
           device : Devices \cup {0}, aim : SUBSET Devices]

NoErrand == [op |-> "none", step |-> "asked", from |-> Nobody, on |-> Nobody,
             invite |-> 0, expected |-> 0, secret |-> 0, renew |-> FALSE,
             device |-> 0, aim |-> {}]

Active(u) == member[u].status = "active"
HasRole(u, role) == Active(u) /\ member[u].role = role
Owners(rows) == {u \in Users : rows[u].status = "active" /\ rows[u].role = "owner"}

Least(S) == {x \in S : \A y \in S : x <= y}
FreshSecret == Least(Secrets \ letters)
FreshInvite == Least({i \in Invites : invite[i].whom = Nobody})
FreshDevice == Least({d \in Devices : token[d].state = "free"})
Usable(d) == token[d].state \in {"live", "windowed"}

(* A workspace whose founder is its owner_user_id, another member of either *)
(* role who has a device, and nobody else.                                  *)
WorkspaceInit ==
    /\ \E founder \in Users \ Newcomers, second \in Users, role \in {"owner", "member"} :
          /\ second # founder
          /\ patron = founder
          /\ member = [u \in Users |->
                [role |-> IF u = founder THEN "owner" ELSE IF u = second THEN role ELSE "member",
                 status |-> IF u \in {founder, second} THEN "active" ELSE "none"]]
          /\ token = [d \in Devices |->
                IF d = 1 THEN [state |-> "live", person |-> second, user |-> second, parent |-> 0]
                ELSE NoToken]
    /\ transfer = NoTransfer
    /\ invite = [i \in Invites |-> NoInvite]
    /\ letters = {}
    /\ errand = [c \in Officers |-> NoErrand]
    /\ errands = 0
    /\ failures = 0
    /\ skewed = FALSE
    /\ missed = {}

-----------------------------------------------------------------------------
(* Requests and rows *)

Serve(c, e) ==
    /\ errand[c].op = "none"
    /\ errands < MaxErrands
    /\ errands' = errands + 1
    /\ errand' = [errand EXCEPT ![c] = e]

At(c, op, step) == errand[c].op = op /\ errand[c].step = step

Finish(c) == errand' = [errand EXCEPT ![c] = NoErrand]

Onward(c, step) == errand' = [errand EXCEPT ![c].step = step]

(* The rows of memberships that are written and not committed *)
Written(e) ==
    CASE e.op = "none" \/ e.step \notin {"written", "vetted"} -> {}
      [] e.op \in {"remove", "leave", "join"} -> {e.on}
      [] e.op = "take" -> {e.from, e.on}
      [] OTHER -> {}

MembersFree(c, S) == \A d \in Officers \ {c} : Written(errand[d]) \cap S = {}

(* The row of the transfer, from the UPDATE that accepts it on *)
TransferFree(c) ==
    \A d \in Officers \ {c} : ~(errand[d].op = "take" /\ errand[d].step # "asked")

(* Variant: acceptInvite selects without FOR UPDATE. *)
InviteFreeAlways(i) == TRUE

(* The row of an invite, from the SELECT ... FOR UPDATE of acceptInvite on *)
InviteFree(i) ==
    \A d \in Officers : ~(errand[d].op = "join" /\ errand[d].invite = i)

(* Variant: rotate selects without FOR UPDATE. *)
DeviceFreeAlways(d) == TRUE

(* The row of a device token that is being rotated *)
DeviceFree(d) ==
    \A c \in Officers : ~(At(c, "rotate", "written") /\ errand[c].device = d)

(* The memberships as the transaction of e sees them *)
Seen(e, rows) ==
    CASE Written(e) = {} -> rows
      [] e.op \in {"remove", "leave"} -> [rows EXCEPT ![e.on].status = "removed"]
      [] e.op = "take" -> [u \in Users |->
            IF rows[u].status = "none" THEN rows[u]
            ELSE IF u = e.on THEN [rows[u] EXCEPT !.role = "owner"]
            ELSE IF u = e.from THEN [rows[u] EXCEPT !.role = "member"]
            ELSE rows[u]]
      [] e.op = "join" -> [rows EXCEPT ![e.on] =
            IF rows[e.on].status = "none"
            THEN [role |-> invite[e.invite].role, status |-> "active"]
            ELSE rows[e.on]]

(* protect_shared_workspace_owners, the BEFORE trigger of an UPDATE *)
Guarded(u, rows) == u \notin Owners(rows) \/ Cardinality(Owners(rows)) > 1

-----------------------------------------------------------------------------
(* removeMember and leave *)

AskRemove(c, a, u) ==
    /\ HasRole(a, "owner")
    /\ Serve(c, [NoErrand EXCEPT !.op = "remove", !.on = u])
    /\ UNCHANGED <<member, patron, transfer, invite, letters, token, failures, skewed, missed>>

AskLeave(c, u) ==
    /\ Active(u)
    /\ Serve(c, [NoErrand EXCEPT !.op = "leave", !.on = u,
                                 !.from = IF HasRole(u, "owner") THEN u ELSE Nobody])
    /\ UNCHANGED <<member, patron, transfer, invite, letters, token, failures, skewed, missed>>

LastOwner(e) ==
    CASE e.op = "remove" -> (patron = e.on \/ Cardinality(Owners(member)) <= 1)
                            /\ HasRole(e.on, "owner")
      [] e.op = "leave" -> e.from = e.on /\ Cardinality(Owners(member)) <= 1

CheckDeparture(c) ==
    /\ \E op \in {"remove", "leave"} : At(c, op, "asked")
    /\ IF LastOwner(errand[c]) THEN Finish(c) ELSE Onward(c, "checked")
    /\ UNCHANGED <<member, patron, transfer, invite, letters, token, errands, failures,
                   skewed, missed>>

WriteDeparture(c) ==
    /\ \E op \in {"remove", "leave"} : At(c, op, "checked")
    /\ LET u == errand[c].on IN
       /\ MembersFree(c, {u})
       /\ IF member[u].status # "none" /\ Guarded(u, member)
          THEN Onward(c, "written")
          ELSE Finish(c)
    /\ UNCHANGED <<member, patron, transfer, invite, letters, token, errands, failures,
                   skewed, missed>>

(* Variant: the workspace is not looked at again at COMMIT. *)
VettedEarly(e) == TRUE

(* assert_shared_workspace_owner, the constraint trigger at COMMIT *)
Vetted(e) == Owners(Seen(e, member)) # {}

Vet(c) ==
    /\ errand[c].step = "written"
    /\ Written(errand[c]) # {}
    /\ IF Vetted(errand[c]) THEN Onward(c, "vetted") ELSE Finish(c)
    /\ UNCHANGED <<member, patron, transfer, invite, letters, token, errands, failures,
                   skewed, missed>>

Overlaps(c) == \E d \in Officers \ {c} : errand[d].step = "vetted"

CommitMembership(c) ==
    /\ errand[c].step = "vetted"
    /\ LET e == errand[c] IN
       /\ member' = Seen(e, member)
       /\ patron' = IF e.op = "take" THEN e.on ELSE patron
       /\ transfer' = IF e.op = "take" THEN NoTransfer ELSE transfer
       /\ invite' = IF e.op = "join" THEN [invite EXCEPT ![e.invite].consumed = TRUE] ELSE invite
       /\ IF e.op \in {"remove", "leave"} THEN Onward(c, "due") ELSE Finish(c)
    /\ skewed' = (skewed \/ Overlaps(c))
    /\ UNCHANGED <<letters, token, errands, failures, missed>>

(* onMemberRevoked: one UPDATE, which sees the tokens committed when it     *)
(* begins, and waits for those that are being rotated.                      *)
Revocable(u) == {d \in Devices : token[d].user = u /\ Usable(d)}

AimRevocation(c) ==
    /\ errand[c].step = "due"
    /\ errand' = [errand EXCEPT ![c].step = "aimed", ![c].aim = Revocable(errand[c].on)]
    /\ missed' = missed \ {errand[c].on}
    /\ UNCHANGED <<member, patron, transfer, invite, letters, token, errands, failures, skewed>>

RevokeAllForUserWorkspace(c) ==
    /\ errand[c].step = "aimed"
    /\ \A d \in errand[c].aim : DeviceFree(d)
    /\ token' = [d \in Devices |->
          IF d \in errand[c].aim THEN [token[d] EXCEPT !.state = "revoked"] ELSE token[d]]
    /\ Finish(c)
    /\ UNCHANGED <<member, patron, transfer, invite, letters, errands, failures, skewed, missed>>

-----------------------------------------------------------------------------
(* Ownership transfers.  A comparison with the role of somebody who is not  *)
(* an active member is neither true nor false, and raises nothing.          *)

AskOffer(c, a, u) ==
    /\ HasRole(a, "owner")
    /\ a # u
    /\ Serve(c, [NoErrand EXCEPT !.op = "offer", !.from = a, !.on = u])
    /\ UNCHANGED <<member, patron, transfer, invite, letters, token, failures, skewed, missed>>

FileOffer(c) ==
    /\ At(c, "offer", "asked")
    /\ TransferFree(c)
    /\ LET e == errand[c] IN
       transfer' = IF \/ transfer # NoTransfer
                      \/ HasRole(e.from, "member")
                      \/ HasRole(e.on, "owner")
                   THEN transfer
                   ELSE [from |-> e.from, to |-> e.on]
    /\ Finish(c)
    /\ UNCHANGED <<member, patron, invite, letters, token, errands, failures, skewed, missed>>

AskTake(c, u) ==
    /\ Active(u)
    /\ transfer.to = u
    /\ Serve(c, [NoErrand EXCEPT !.op = "take", !.from = transfer.from, !.on = u])
    /\ UNCHANGED <<member, patron, transfer, invite, letters, token, failures, skewed, missed>>

CheckTake(c) ==
    /\ At(c, "take", "asked")
    /\ TransferFree(c)
    /\ LET e == errand[c] IN
       IF \/ transfer # [from |-> e.from, to |-> e.on]
          \/ HasRole(e.from, "member")
          \/ HasRole(e.on, "owner")
       THEN Finish(c)
       ELSE Onward(c, "checked")
    /\ UNCHANGED <<member, patron, transfer, invite, letters, token, errands, failures,
                   skewed, missed>>

(* The destination is made an owner first, and counts when the source is    *)
(* guarded.                                                                 *)
WriteTake(c) ==
    /\ At(c, "take", "checked")
    /\ LET e == errand[c]
           raised == [u \in Users |-> IF u = e.on THEN [member[u] EXCEPT !.role = "owner"]
                                      ELSE member[u]]
       IN /\ MembersFree(c, {e.from, e.on})
          /\ IF Guarded(e.from, raised) THEN Onward(c, "written") ELSE Finish(c)
    /\ UNCHANGED <<member, patron, transfer, invite, letters, token, errands, failures,
                   skewed, missed>>

-----------------------------------------------------------------------------
(* Invites *)

AskInvite(c, a, u) ==
    /\ HasRole(a, "owner")
    /\ Serve(c, [NoErrand EXCEPT !.op = "invite", !.on = u])
    /\ UNCHANGED <<member, patron, transfer, invite, letters, token, failures, skewed, missed>>

(* resendInvite, up to getPendingInvite *)
AskResend(c, a, i) ==
    /\ HasRole(a, "owner")
    /\ invite[i].whom # Nobody
    /\ ~invite[i].consumed /\ ~invite[i].revoked
    /\ Serve(c, [NoErrand EXCEPT !.op = "resend", !.invite = i, !.renew = invite[i].expired,
                                 !.expected = invite[i].secret])
    /\ UNCHANGED <<member, patron, transfer, invite, letters, token, failures, skewed, missed>>

(* deliver: before anything is written *)
Deliver(c) ==
    /\ \E op \in {"invite", "resend"} : At(c, op, "asked")
    /\ \E k \in FreshSecret :
          /\ letters' = letters \cup {k}
          /\ errand' = [errand EXCEPT ![c].step = "checked", ![c].secret = k]
    /\ UNCHANGED <<member, patron, transfer, invite, token, errands, failures, skewed, missed>>

InsertInvite(c) ==
    /\ At(c, "invite", "checked")
    /\ \E i \in FreshInvite, role \in {"owner", "member"} :
          invite' = [invite EXCEPT ![i] =
              [NoInvite EXCEPT !.whom = errand[c].on, !.role = role, !.secret = errand[c].secret]]
    /\ Finish(c)
    /\ UNCHANGED <<member, patron, transfer, letters, token, errands, failures, skewed, missed>>

Pending(i) == ~invite[i].consumed /\ ~invite[i].revoked

ActivateResentInvite(c) ==
    /\ At(c, "resend", "checked")
    /\ LET e == errand[c] IN
       /\ InviteFree(e.invite)
       /\ invite' = IF Pending(e.invite) /\ invite[e.invite].secret = e.expected
                    THEN [invite EXCEPT ![e.invite].secret = e.secret,
                                        ![e.invite].expired = @ /\ ~e.renew]
                    ELSE invite
    /\ Finish(c)
    /\ UNCHANGED <<member, patron, transfer, letters, token, errands, failures, skewed, missed>>

RevokeInvite(a, i) ==
    /\ HasRole(a, "owner")
    /\ invite[i].whom # Nobody
    /\ InviteFree(i)
    /\ Pending(i)
    /\ invite' = [invite EXCEPT ![i].revoked = TRUE]
    /\ UNCHANGED <<member, patron, transfer, letters, token, errand, errands, failures,
                   skewed, missed>>

ExpireInvite(i) ==
    /\ invite[i].whom # Nobody
    /\ invite' = [invite EXCEPT ![i].expired = TRUE]
    /\ UNCHANGED <<member, patron, transfer, letters, token, errand, errands, failures,
                   skewed, missed>>

(* acceptInvite: the invite is found by the secret of a letter, locked, and *)
(* checked.                                                                 *)
AskJoin(c, u, i) ==
    /\ invite[i].secret \in letters
    /\ invite[i].whom = u
    /\ InviteFree(i)
    /\ Pending(i) /\ ~invite[i].expired
    /\ Serve(c, [NoErrand EXCEPT !.op = "join", !.step = "checked", !.invite = i, !.on = u])
    /\ UNCHANGED <<member, patron, transfer, invite, letters, token, failures, skewed, missed>>

(* INSERT ... ON CONFLICT DO UPDATE SET role = memberships.role *)
WriteJoin(c) ==
    /\ At(c, "join", "checked")
    /\ MembersFree(c, {errand[c].on})
    /\ Onward(c, "written")
    /\ UNCHANGED <<member, patron, transfer, invite, letters, token, errands, failures,
                   skewed, missed>>

-----------------------------------------------------------------------------
(* Device tokens.  Requests with a device token are those of an active      *)
(* member (resolveAuthorizedDevice).                                        *)

AskRegister(c, u) ==
    /\ Active(u)
    /\ Serve(c, [NoErrand EXCEPT !.op = "register", !.on = u])
    /\ UNCHANGED <<member, patron, transfer, invite, letters, token, failures, skewed, missed>>

(* No cleanup is to see a token of u that is committed now. *)
MissedNow(u) ==
    IF Active(u) \/ \E d \in Officers : errand[d].step = "due" /\ errand[d].on = u
    THEN missed ELSE missed \cup {u}

Register(c) ==
    /\ At(c, "register", "asked")
    /\ LET u == errand[c].on IN
       /\ \E d \in FreshDevice :
             token' = [token EXCEPT ![d] =
                 [state |-> "live", person |-> u, user |-> u, parent |-> 0]]
       /\ missed' = MissedNow(u)
    /\ Finish(c)
    /\ UNCHANGED <<member, patron, transfer, invite, letters, errands, failures, skewed>>

AskRotate(c, d) ==
    /\ Usable(d)
    /\ token[d].user \in Users => Active(token[d].user)
    /\ Serve(c, [NoErrand EXCEPT !.op = "rotate", !.device = d])
    /\ UNCHANGED <<member, patron, transfer, invite, letters, token, failures, skewed, missed>>

(* SELECT ... FOR UPDATE; a token that was rotated is refused with 409. *)
LockPredecessor(c) ==
    /\ At(c, "rotate", "asked")
    /\ DeviceFree(errand[c].device)
    /\ IF token[errand[c].device].state = "live" THEN Onward(c, "written") ELSE Finish(c)
    /\ UNCHANGED <<member, patron, transfer, invite, letters, token, errands, failures,
                   skewed, missed>>

(* Variant: the user is not carried over to the successor. *)
SuccessorUnowned(p) ==
    [state |-> "live", person |-> token[p].person, user |-> Nobody, parent |-> p]

(* The token that takes the place of p *)
Successor(p) == [state |-> "live", person |-> token[p].person, user |-> token[p].user, parent |-> p]

CommitRotate(c) ==
    /\ At(c, "rotate", "written")
    /\ LET p == errand[c].device IN
       /\ \E d \in FreshDevice :
             token' = [token EXCEPT ![d] = Successor(p), ![p].state = "windowed"]
       /\ missed' = MissedNow(token[p].person)
    /\ Finish(c)
    /\ UNCHANGED <<member, patron, transfer, invite, letters, errands, failures, skewed>>

(* POST /auth/devices/revoke *)
Revoke(d) ==
    /\ Usable(d)
    /\ DeviceFree(d)
    /\ token' = [token EXCEPT ![d].state = "revoked"]
    /\ UNCHANGED <<member, patron, transfer, invite, letters, errand, errands, failures,
                   skewed, missed>>

-----------------------------------------------------------------------------
(* The process or its connection dies: what is not committed is rolled      *)
(* back, what is to follow the commit is not done.                          *)
Fail(c) ==
    /\ errand[c].op # "none"
    /\ failures < MaxFailures
    /\ failures' = failures + 1
    /\ missed' = IF errand[c].step \in {"due", "aimed"} THEN missed \cup {errand[c].on} ELSE missed
    /\ Finish(c)
    /\ UNCHANGED <<member, patron, transfer, invite, letters, token, errands, skewed>>

Ask(c) ==
    \/ \E a, u \in Users : AskRemove(c, a, u)
    \/ \E u \in Users : AskLeave(c, u)
    \/ \E a, u \in Users : AskOffer(c, a, u)
    \/ \E u \in Users : AskTake(c, u)
    \/ \E a \in Users, u \in Newcomers : AskInvite(c, a, u)
    \/ \E a \in Users, i \in Invites : AskResend(c, a, i)
    \/ \E u \in Users, i \in Invites : AskJoin(c, u, i)
    \/ \E u \in Users : AskRegister(c, u)
    \/ \E d \in Devices : AskRotate(c, d)

Proceed(c) ==
    \/ CheckDeparture(c)
    \/ WriteDeparture(c)
    \/ Vet(c)
    \/ CommitMembership(c)
    \/ AimRevocation(c)
    \/ RevokeAllForUserWorkspace(c)
    \/ FileOffer(c)
    \/ CheckTake(c)
    \/ WriteTake(c)
    \/ Deliver(c)
    \/ InsertInvite(c)
    \/ ActivateResentInvite(c)
    \/ WriteJoin(c)
    \/ Register(c)
    \/ LockPredecessor(c)
    \/ CommitRotate(c)
    \/ Fail(c)

WorkspaceNext ==
    \/ \E c \in Officers : Ask(c) \/ Proceed(c)
    \/ \E a \in Users, i \in Invites : RevokeInvite(a, i)
    \/ \E i \in Invites : ExpireInvite(i)
    \/ \E d \in Devices : Revoke(d)

WorkspaceSpec == WorkspaceInit /\ [][WorkspaceNext]_workspaceVars

-----------------------------------------------------------------------------
(* Properties *)

(* Every variable stays in its type. *)
WorkspaceTypeOK ==
    /\ member \in [Users -> Membership]
    /\ patron \in Users
    /\ transfer \in Transfer
    /\ invite \in [Invites -> Invite]
    /\ letters \subseteq Secrets
    /\ token \in [Devices -> Token]
    /\ errand \in [Officers -> Errand]
    /\ errands \in 0 .. MaxErrands
    /\ failures \in 0 .. MaxFailures
    /\ skewed \in BOOLEAN
    /\ missed \subseteq Users

(* "Last owner cannot leave directly" (V022:2): whatever removals,          *)
(* departures, transfers and invites overlap, somebody who is active owns   *)
(* the workspace, unless two transactions were both vetted by the trigger   *)
(* at COMMIT before either was seen by the other.                           *)
OwnerRemains == Owners(member) # {} \/ skewed

(* An invite is settled once: it is not both consumed by its acceptance and *)
(* answered as revoked, whichever of accepting, revoking and resending      *)
(* overlap.                                                                 *)
InviteSettlesOnce == \A i \in Invites : ~(invite[i].consumed /\ invite[i].revoked)

(* "This bounds every rotation to exactly one successor, including          *)
(* parallel/concurrent callers" (device-token.ts:39-40).                    *)
OneSuccessor == \A d \in Devices : Cardinality({e \in Devices : token[e].parent = d}) <= 1

(* When the removal of a member has been answered, no token of theirs is    *)
(* left, those that descend from a rotation included, but for a request of  *)
(* theirs that was in progress meanwhile, or a failure before the cleanup.  *)
RemovedHoldNoToken ==
    \A u \in Users :
       (/\ member[u].status = "removed"
        /\ u \notin missed
        /\ \A c \in Officers : ~(errand[c].step \in {"due", "aimed"} /\ errand[c].on = u))
       => \A d \in Devices : token[d].person = u => ~Usable(d)

=============================================================================
