---------------------------- MODULE OfflineSnapshot ----------------------------
(***************************************************************************)
(* What one browser keeps of a workspace for the time without a server, in *)
(* apps/pwa: the two envelopes of IndexedDB (snapshot-db.ts), V2 keyed by  *)
(* the token and V3 by the person, the identity and binding kept in        *)
(* localStorage (offline-identity.ts), and the page that fills and reads   *)
(* them: AuthGate, WorkspaceProvider, the boot of AppStateProvider         *)
(* (runBootstrap) and the purge that a logout or a switch makes            *)
(* (clearSensitiveSession).  Everything in the page is asynchronous: a boot*)
(* goes on after its page was left, and saves what it had asked for.       *)
(*                                                                         *)
(* The data of a domain is who asked the server for it, and of which       *)
(* workspace.  Any request may fail to reach the server.  Both people      *)
(* belong to every workspace; losing a membership takes the path of a lost *)
(* session.  Snapshots are enabled, the V1 snapshot is gone, and a boot    *)
(* has sent its requests before a person can have signed in (Dispatched).  *)
(***************************************************************************)
EXTENDS Integers

CONSTANTS
    People, Places,  \* users, workspaces
    Domains,         \* accounts, transactions, ...: numbers, in their order
    Boots,           \* boots in progress at a time
    Empty,           \* nobody, nowhere, nothing
    MaxMoves         \* bound: what the person, the session and the clock do, and
                     \* deletions and writes that fail

ASSUME EmptyAssumption == Empty \notin People /\ Empty \notin Places /\ Empty \notin Boots
ASSUME DomainsAssumption == Domains \subseteq Nat
ASSUME MovesAssumption == MaxMoves \in Nat

VARIABLES
    cookie,    \* the person of the session the server keeps
    stored,    \* localStorage: token (0: none), principal, workspace binding
    slot,      \* [{2, 3} -> envelope or Empty]: IndexedDB
    tab,       \* the page: AuthGate, WorkspaceProvider and what is shown
    boot,      \* [Boots -> Boot]: boots that go on, of this page or one left
    writing,   \* saves between their read of an envelope and their put
    dropping,  \* envelopes a purge has begun to delete
    moves,     \* moves so far, which number the tokens
    rejected   \* history: no session was confirmed since the last purge

snapshotVars ==
    <<cookie, stored, slot, tab, boot, writing, dropping, moves, rejected>>

-----------------------------------------------------------------------------
(* State space *)

Item == [who : People, where : Places]
Data == [Domains -> Item \cup {Empty}]

(* who is kept by V3 only; the token, as its fingerprint, by V2 only. *)
Envelope == [token : 0 .. MaxMoves, who : People \cup {Empty},
             where : Places \cup {Empty}, data : Data, old : BOOLEAN]

Stored == [token : 0 .. MaxMoves, who : People \cup {Empty}, where : Places \cup {Empty}]

Tab == [screen  : {"login", "choosing", "open", "switching", "leaving"},
        status  : {"authenticated", "unreachable", "unauthenticated"},
        user    : People \cup {Empty},   \* of the session, or of the offline identity
        current : Places \cup {Empty},   \* activeWorkspaceIdRef
        header  : Places \cup {Empty},   \* X-Workspace-Id
        goal    : Places \cup {Empty},   \* of a selectWorkspace that waits
        mounted : Boots \cup {Empty},    \* the boot whose provider is mounted
        shown   : Data]

Boot == [stage   : {"idle", "preload", "send", "refused", "fetch", "stamp", "save",
                    "migrate", "backfill", "forget", "offline"},
         token   : 0 .. MaxMoves,
         who     : People \cup {Empty},  \* v3Identity
         where   : Places \cup {Empty},
         cached  : Data,                 \* what was read of V2
         from    : Item \cup {Empty},    \* whose data the requests ask for
         subject : Places \cup {Empty},  \* read by the V2 saves before their turn
         todo    : SUBSET ({2, 3} \X Domains)]

Save == [slot : {2, 3}, env : Envelope, by : Boots]

NoData == [d \in Domains |-> Empty]

NoBoot == [stage |-> "idle", token |-> 0, who |-> Empty, where |-> Empty,
           cached |-> NoData, from |-> Empty, subject |-> Empty, todo |-> {}]

NewTab == [screen |-> "login", status |-> "unauthenticated", user |-> Empty,
           current |-> Empty, header |-> Empty, goal |-> Empty,
           mounted |-> Empty, shown |-> NoData]

Forgotten == [token |-> 0, who |-> Empty, where |-> Empty]

SnapshotInit ==
    /\ cookie = Empty
    /\ stored = Forgotten
    /\ slot = [s \in {2, 3} |-> Empty]
    /\ tab = NewTab
    /\ boot = [b \in Boots |-> NoBoot]
    /\ writing = {}
    /\ dropping = {}
    /\ moves = 0
    /\ rejected = FALSE

-----------------------------------------------------------------------------
(* Helpers *)

Moves == moves < MaxMoves /\ moves' = moves + 1

Stage(b, stage) == boot' = [boot EXCEPT ![b].stage = stage]

BootEnds(b) == boot' = [boot EXCEPT ![b] = NoBoot]

Owned(e, who, where) == e.who = who /\ e.where = where

(* tokenFingerprint: a V2 envelope saved under the token of this boot *)
OfSession(e, b) == e # Empty /\ e.token = boot[b].token

(* readV3Snapshot and getV3OfflineLockState: an envelope of this person and *)
(* this workspace, within its age                                           *)
Readable(who, where) ==
    /\ slot[3] # Empty /\ who # Empty /\ where # Empty
    /\ Owned(slot[3], who, where)
    /\ ~slot[3].old

(* Variant: a purge takes the tokens and leaves the identity. *)
PurgedTokens(s) == [s EXCEPT !.token = 0]

(* clearSensitiveSession with clearToken and clearOfflineIdentity *)
Purged(s) == Forgotten

(* The purge of a rejection: the slots are deleted while the page waits.  A *)
(* device token that was just verified may be kept.                         *)
Rejects(tokens) ==
    /\ stored' \in {[Purged(stored) EXCEPT !.token = t] : t \in tokens}
    /\ dropping' = {2, 3}
    /\ rejected' = TRUE

-----------------------------------------------------------------------------
(* AuthGate *)

(* init: the probe finds a session, finds none, or finds no server; a token *)
(* the server does not know is dropped.                                     *)
Reload ==
    /\ Moves
    /\ boot' = [b \in Boots |-> NoBoot]
    /\ writing' = {}
    /\ \/ /\ cookie # Empty
          /\ stored' \in {[stored EXCEPT !.who = cookie],
                          [stored EXCEPT !.who = cookie, !.token = 0]}
          /\ tab' = [NewTab EXCEPT !.screen = "choosing", !.status = "authenticated",
                                   !.user = cookie]
          /\ dropping' = {}
          /\ rejected' = FALSE
       \/ /\ cookie = Empty
          /\ tab' = [NewTab EXCEPT !.screen = "leaving"]
          /\ Rejects({0, stored.token})
       \/ /\ tab' = IF Readable(stored.who, stored.where)
                    THEN [NewTab EXCEPT !.screen = "choosing", !.status = "unreachable",
                                        !.user = stored.who]
                    ELSE [NewTab EXCEPT !.status = "unreachable"]
          /\ dropping' = {}
          /\ UNCHANGED <<stored, rejected>>
    /\ UNCHANGED <<cookie, slot>>

(* Whoever has typed a password had no page with requests to send. *)
Dispatched == \A b \in Boots : boot[b].stage \notin {"preload", "send"}

(* handleLogin: a new token, and a person only when the probe confirms it *)
SignIn(u) ==
    /\ tab.screen = "login"
    /\ Dispatched
    /\ Moves
    /\ \/ /\ cookie' = u
          /\ stored' = [stored EXCEPT !.token = moves', !.who = u]
          /\ tab' = [tab EXCEPT !.screen = "choosing", !.status = "authenticated",
                                !.user = u, !.header = Empty]
          /\ rejected' = FALSE
          /\ UNCHANGED dropping
       \/ /\ cookie' = u
          /\ stored' = [stored EXCEPT !.token = moves']
          /\ tab' = [tab EXCEPT !.status = "unreachable", !.header = Empty]
          /\ UNCHANGED <<dropping, rejected>>
       \/ /\ cookie' = Empty
          /\ tab' = [tab EXCEPT !.screen = "leaving", !.header = Empty]
          /\ Rejects({0})
    /\ UNCHANGED <<slot, boot, writing>>

(* expireSession, until its purge is done: the page is still mounted. *)
Expires ==
    /\ tab' = [tab EXCEPT !.screen = "leaving", !.header = Empty]
    /\ Rejects({0})

(* handleLogout: the server has ended the session. *)
SignOut ==
    /\ tab.screen = "open" /\ tab.status = "authenticated"
    /\ Moves
    /\ cookie' = Empty
    /\ Expires
    /\ UNCHANGED <<slot, boot, writing>>

(* Some request of the page was answered 401. *)
Unauthorized ==
    /\ tab.screen = "open" /\ cookie = Empty
    /\ Expires
    /\ UNCHANGED <<cookie, slot, boot, writing, moves>>

(* The login screen: the providers are unmounted, what waits goes on. *)
Leave ==
    /\ tab.screen = "leaving" /\ dropping = {}
    /\ tab' = [NewTab EXCEPT !.goal = tab.goal]
    /\ UNCHANGED <<cookie, stored, slot, boot, writing, dropping, moves, rejected>>

-----------------------------------------------------------------------------
(* WorkspaceProvider *)

(* The providers of a workspace mount and boot: online with the identity of *)
(* this moment, offline if the probe found no server.                       *)
Begun(t, s) ==
    IF t.status = "authenticated"
    THEN [NoBoot EXCEPT !.stage = IF s.token = 0 THEN "send" ELSE "preload",
                        !.token = s.token,
                        !.who   = IF s.where = Empty THEN Empty ELSE t.user,
                        !.where = s.where]
    ELSE IF s.who # Empty /\ s.where # Empty
    THEN [NoBoot EXCEPT !.stage = "offline", !.who = s.who, !.where = s.where]
    ELSE NoBoot

Mounts(b, t, s) ==
    /\ boot[b].stage = "idle"
    /\ boot' = [boot EXCEPT ![b] = Begun(t, s)]
    /\ tab' = [t EXCEPT !.screen = "open", !.mounted = b, !.shown = NoData]
    /\ stored' = s

(* load: a workspace of the session is bound, or the list does not arrive. *)
Enter(b) ==
    /\ tab.screen = "choosing"
    /\ \/ /\ cookie # Empty
          /\ \E w \in Places :
                Mounts(b, [tab EXCEPT !.current = w, !.header = w],
                          [stored EXCEPT !.where = w])
       \/ Mounts(b, tab, stored)
    /\ UNCHANGED <<cookie, slot, writing, dropping, moves, rejected>>

(* selectWorkspace, until its purge is done; the switch of a revoked        *)
(* membership (refreshWorkspaces) keeps the header meanwhile.               *)
Select(w) ==
    /\ tab.screen = "open" /\ tab.current \notin {w, Empty}
    /\ Moves
    /\ tab' \in {[tab EXCEPT !.screen = "switching", !.mounted = Empty, !.shown = NoData,
                             !.goal = w, !.header = h] : h \in {Empty, tab.header}}
    /\ stored' = [stored EXCEPT !.where = Empty]
    /\ dropping' = {2, 3}
    /\ UNCHANGED <<cookie, slot, boot, writing, rejected>>

(* refreshWorkspaces where load had found no list: nothing to purge *)
Refresh(b, w) ==
    /\ tab.screen = "open" /\ tab.current = Empty /\ cookie # Empty
    /\ Moves
    /\ Mounts(b, [tab EXCEPT !.current = w, !.header = w], [stored EXCEPT !.where = w])
    /\ UNCHANGED <<cookie, slot, writing, dropping, rejected>>

(* selectWorkspace, after its purge: bound even where the page was left. *)
Arrive(b) ==
    /\ tab.goal # Empty /\ dropping = {}
    /\ LET t == [tab EXCEPT !.goal = Empty, !.current = tab.goal, !.header = tab.goal]
           s == [stored EXCEPT !.where = tab.goal]
       IN IF tab.screen = "switching" THEN Mounts(b, t, s)
          ELSE /\ tab' = [t EXCEPT !.current = tab.current]
               /\ stored' = s
               /\ UNCHANGED boot
    /\ UNCHANGED <<cookie, slot, writing, dropping, moves, rejected>>

(* deleteV2Snapshot, deleteV3Snapshot: an error or the timeout is swallowed. *)
Delete(s) ==
    /\ s \in dropping
    /\ dropping' = dropping \ {s}
    /\ \/ slot' = [slot EXCEPT ![s] = Empty] /\ UNCHANGED moves
       \/ Moves /\ UNCHANGED slot
    /\ UNCHANGED <<cookie, stored, tab, boot, writing, rejected>>

-----------------------------------------------------------------------------
(* The boot of AppStateProvider *)

(* readV2Snapshot: an envelope of another token or workspace is deleted. *)
Preload(b) ==
    /\ boot[b].stage = "preload"
    /\ LET e == slot[2]
           ours == OfSession(e, b)
           served == ours /\ stored.where # Empty /\ e.where = stored.where /\ ~e.old
           kept == ours /\ (stored.where = Empty \/ e.where = stored.where)
       IN /\ boot' = [boot EXCEPT ![b].stage = "send",
                                  ![b].cached = IF served THEN e.data ELSE NoData]
          /\ slot' = IF kept THEN slot ELSE [slot EXCEPT ![2] = Empty]
    /\ UNCHANGED <<cookie, stored, tab, writing, dropping, moves, rejected>>

(* Variant: what a boot dispatches reaches whichever page is there. *)
HeardByAny(b) == TRUE

(* The reducer and the flags of a boot are those of its page. *)
Heard(b) == tab.mounted = b

(* The requests carry the session and the workspace of the moment they are  *)
(* sent; without a workspace the server refuses them.                       *)
Send(b) ==
    /\ boot[b].stage = "send"
    /\ boot' = [boot EXCEPT
          ![b].stage = IF cookie = Empty THEN "refused" ELSE "fetch",
          ![b].from = IF cookie = Empty \/ tab.header = Empty THEN Empty
                      ELSE [who |-> cookie, where |-> tab.header]]
    /\ UNCHANGED <<cookie, stored, slot, tab, writing, dropping, moves, rejected>>

(* 401: the session expires, whichever page the boot was of. *)
Refused(b) ==
    /\ boot[b].stage = "refused"
    /\ Expires
    /\ BootEnds(b)
    /\ UNCHANGED <<cookie, slot, writing, moves>>

(* The answers: what arrived is shown and saved, what failed is shown from  *)
(* the snapshot; the reducer hears a mounted page only.                     *)
Load(b, got) ==
    /\ boot[b].stage = "fetch"
    /\ got = {} \/ boot[b].from # Empty
    /\ LET v2 == IF boot[b].token = 0 THEN {} ELSE {2} \X got
           v3 == IF boot[b].who = Empty THEN {} ELSE {3} \X got
       IN boot' = [boot EXCEPT ![b].stage = IF v2 = {} THEN "save" ELSE "stamp",
                               ![b].todo = v2 \cup v3, ![b].cached = NoData]
    /\ tab' = IF ~Heard(b) THEN tab
              ELSE [tab EXCEPT !.shown =
                      [d \in Domains |-> IF d \in got THEN boot[b].from
                                         ELSE boot[b].cached[d]]]
    /\ UNCHANGED <<cookie, stored, slot, writing, dropping, moves, rejected>>

(* writeV2Snapshot, before its turn: the binding as it is by now *)
Stamp(b) ==
    /\ boot[b].stage = "stamp"
    /\ boot' = [boot EXCEPT ![b].stage = "save", ![b].subject = stored.where]
    /\ UNCHANGED <<cookie, stored, slot, tab, writing, dropping, moves, rejected>>

(* Variant: saves do not wait for each other. *)
AnyTurn == TRUE

(* withWriteLock: one save at a time *)
ItsTurn == writing = {}

Fresh2(b) == [token |-> boot[b].token, who |-> Empty, where |-> stored.where,
              data |-> NoData, old |-> FALSE]

Fresh3(b) == [token |-> 0, who |-> boot[b].who, where |-> boot[b].where,
              data |-> NoData, old |-> FALSE]

(* The envelope a save adopts: one of its own partition, or a new one; a    *)
(* V2 envelope without a workspace gains the one the save has read.         *)
Base(b, s) ==
    IF s = 3 THEN IF slot[3] # Empty /\ slot[3].who = boot[b].who
                       /\ slot[3].where = boot[b].where
                  THEN slot[3] ELSE Fresh3(b)
    ELSE LET e == IF OfSession(slot[2], b) /\ slot[2].where = boot[b].subject
                  THEN slot[2] ELSE Fresh2(b)
         IN IF e.where = Empty THEN [e EXCEPT !.where = boot[b].subject] ELSE e

(* The saves of a boot take their turns in the order of its domains, V3     *)
(* before V2, which waits for the fingerprint.                              *)
NextSave(todo) ==
    {v \in todo : \A t \in todo : t[1] < v[1] \/ (t[1] = v[1] /\ v[2] <= t[2])}

(* writeV2Snapshot, writeV3Snapshot: the envelope is read, to be put back   *)
(* with one domain more.                                                    *)
TakeTurn(b) ==
    /\ ItsTurn
    /\ \E t \in NextSave(boot[b].todo) :
       LET s == t[1]
           env == [Base(b, s) EXCEPT !.data[t[2]] = boot[b].from, !.old = FALSE]
       IN /\ boot[b].stage \in {"stamp", "save"}
          /\ s = 2 => boot[b].stage = "save"
          /\ writing' = writing \cup {[slot |-> s, by |-> b, env |-> env]}
          /\ boot' = [boot EXCEPT ![b].todo = @ \ {t}]
    /\ UNCHANGED <<cookie, stored, slot, tab, dropping, moves, rejected>>

(* writeV2Envelope, writeV3Envelope: put, or failed and swallowed *)
Put(w) ==
    /\ w \in writing
    /\ writing' = writing \ {w}
    /\ \/ slot' = [slot EXCEPT ![w.slot] = w.env] /\ UNCHANGED moves
       \/ Moves /\ UNCHANGED slot
    /\ UNCHANGED <<cookie, stored, tab, boot, dropping, rejected>>

SavesDone(b) == boot[b].todo = {} /\ \A w \in writing : w.by # b

(* A page that is still mounted, and proven online, folds V2 into V3. *)
Saved(b) ==
    /\ boot[b].stage = "save" /\ SavesDone(b)
    /\ \/ /\ Heard(b) /\ boot[b].token # 0 /\ boot[b].who # Empty
          /\ Stage(b, "migrate")
       \/ BootEnds(b)
    /\ UNCHANGED <<cookie, stored, slot, tab, writing, dropping, moves, rejected>>

(* migrateV2toV3: a V2 envelope without a workspace, or too old, is deleted;*)
(* one of another token or workspace is left alone.                         *)
Migrate(b) ==
    /\ boot[b].stage = "migrate"
    /\ LET e == slot[2]
           ours == OfSession(e, b)
           fit == ours /\ e.where = boot[b].where
       IN /\ IF fit /\ ~e.old
             THEN boot' = [boot EXCEPT ![b].stage = "backfill", ![b].cached = e.data]
             ELSE BootEnds(b)
          /\ slot' = IF ours /\ (e.where = Empty \/ (fit /\ e.old))
                     THEN [slot EXCEPT ![2] = Empty] ELSE slot
    /\ UNCHANGED <<cookie, stored, tab, writing, dropping, moves, rejected>>

(* The domains V3 lacks *)
Backfill(b) ==
    /\ boot[b].stage = "backfill"
    /\ ItsTurn
    /\ LET base == Base(b, 3)
           data == [d \in Domains |-> IF base.data[d] = Empty THEN boot[b].cached[d]
                                      ELSE base.data[d]]
       IN writing' = writing \cup
            {[slot |-> 3, by |-> b, env |-> [base EXCEPT !.data = data, !.old = FALSE]]}
    /\ Stage(b, "forget")
    /\ UNCHANGED <<cookie, stored, slot, tab, dropping, moves, rejected>>

Migrated(b) ==
    /\ boot[b].stage = "forget" /\ SavesDone(b)
    /\ slot' = [slot EXCEPT ![2] = Empty]
    /\ BootEnds(b)
    /\ UNCHANGED <<cookie, stored, tab, writing, dropping, moves, rejected>>

(* The offline boot: preloadV3Snapshot *)
OfflineRead(b) ==
    /\ boot[b].stage = "offline"
    /\ tab' = IF Heard(b) /\ Readable(boot[b].who, boot[b].where)
              THEN [tab EXCEPT !.shown = slot[3].data] ELSE tab
    /\ BootEnds(b)
    /\ UNCHANGED <<cookie, stored, slot, writing, dropping, moves, rejected>>

-----------------------------------------------------------------------------
(* Environment *)

(* The server forgets the session. *)
SessionEnds ==
    /\ cookie # Empty
    /\ Moves
    /\ cookie' = Empty
    /\ UNCHANGED <<stored, slot, tab, boot, writing, dropping, rejected>>

(* 72 hours pass. *)
GrowOld(s) ==
    /\ slot[s] # Empty /\ ~slot[s].old
    /\ Moves
    /\ slot' = [slot EXCEPT ![s].old = TRUE]
    /\ UNCHANGED <<cookie, stored, tab, boot, writing, dropping, rejected>>

BootStep(b) ==
    \/ Preload(b) \/ Send(b) \/ Refused(b)
    \/ \E got \in SUBSET Domains : Load(b, got)
    \/ Stamp(b)
    \/ TakeTurn(b)
    \/ Saved(b) \/ Migrate(b) \/ Backfill(b) \/ Migrated(b)
    \/ OfflineRead(b)

SnapshotNext ==
    \/ Reload
    \/ \E u \in People : SignIn(u)
    \/ SignOut \/ Unauthorized \/ Leave
    \/ \E w \in Places : Select(w)
    \/ \E b \in Boots : \/ Enter(b) \/ Arrive(b) \/ BootStep(b)
                        \/ \E w \in Places : Refresh(b, w)
    \/ \E s \in {2, 3} : Delete(s) \/ GrowOld(s)
    \/ \E w \in writing : Put(w)
    \/ SessionEnds

SnapshotSpec == SnapshotInit /\ [][SnapshotNext]_snapshotVars

-----------------------------------------------------------------------------
(* Properties *)

SnapshotTypeOK ==
    /\ cookie \in People \cup {Empty}
    /\ stored \in Stored
    /\ slot \in [{2, 3} -> Envelope \cup {Empty}]
    /\ tab \in Tab
    /\ boot \in [Boots -> Boot]
    /\ writing \subseteq Save
    /\ dropping \subseteq {2, 3}
    /\ moves \in 0 .. MaxMoves
    /\ rejected \in BOOLEAN

(* Whatever boots of other sessions still save, whatever purge was missed,  *)
(* a page shows a person what the server gave that person.                  *)
ShownIsOfPerson ==
    \A d \in Domains :
        tab.screen = "open" /\ tab.shown[d] # Empty => tab.shown[d].who = tab.user

(* No data of one workspace is shown as another's                           *)
(* (workspace-context.tsx, selectWorkspace).                                *)
ShownIsOfWorkspace ==
    \A d \in Domains :
        tab.screen = "open" /\ tab.shown[d] # Empty =>
            tab.shown[d].where = IF tab.current # Empty THEN tab.current ELSE stored.where

(* From a logout or a rejection until a session is confirmed, no failure of *)
(* the network opens the snapshot, though a boot may have saved it again.   *)
RejectedStaysClosed ==
    rejected => tab.screen \in {"login", "leaving"}

(* While the V3 envelope stays its owner's, no save takes a domain out of   *)
(* it: the saves of one boot, and of two, do not overwrite each other.      *)
SavesAreKept ==
    [][LET e == slot[3] f == slot'[3]
       IN e # Empty /\ f # Empty /\ e.who = f.who /\ e.where = f.where
            => \A d \in Domains : e.data[d] # Empty => f.data[d] # Empty]_snapshotVars
=============================================================================
