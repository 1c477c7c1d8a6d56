---------------------------- MODULE Approval_Proofs ----------------------------
(***************************************************************************)
(* What surrounds the approval store: the browser that approvals are given *)
(* in (OfflineSnapshot) and the agent that asks for them (DraftHandoff).   *)
(*                                                                         *)
(* The browser shares no state with the store.  Its invariant says that    *)
(* some assignment of persons to tokens owns whatever it keeps.            *)
(*                                                                         *)
(* The agent does: at the end its API, which DraftHandoff knows by         *)
(* DecisionContract, is the store itself, and what was proved of the two   *)
(* is joined into what a transaction on the ledger has to do with the      *)
(* message that asked for it.                                              *)
(***************************************************************************)
EXTENDS MCApproval, PendingV2_Proofs

(***************************************************************************)
(*                             OfflineSnapshot                             *)
(***************************************************************************)
(* What is kept of a domain is of the person. *)
Of(data, who) == \A d \in Domains : data[d] # Empty => data[d].who = who

(* A token is given to one person, who is who signs in with it; owner says  *)
(* who.  Envelopes hold what their person, or that of their token, was      *)
(* given:                                                                   *)
Assignments == [1 .. MaxMoves -> People \cup {Empty}]

EnvelopeOK(owner, s, e) ==
    /\ s = 2 => e.token \in 1 .. moves /\ Of(e.data, owner[e.token])
    /\ s = 3 => Of(e.data, e.who)

EnvelopesOK(owner) ==
    /\ \A s \in {2, 3} : slot[s] # Empty => EnvelopeOK(owner, s, slot[s])
    /\ \A w \in writing : EnvelopeOK(owner, w.slot, w.env)

(* a boot asks for, and has read, what is of its person: that of its token, *)
(* and of the identity it began with;                                       *)
BootOK(owner, o) ==
    /\ o.token \in 0 .. moves
    /\ o.token # 0 => Of(o.cached, owner[o.token])
    /\ o.token # 0 /\ o.from # Empty => o.from.who = owner[o.token]
    /\ o.token = 0 => o.cached = NoData
    /\ o.who # Empty /\ o.from # Empty => o.from.who = o.who
    /\ o.who # Empty /\ o.token # 0 => o.who = owner[o.token]
    /\ o.stage = "preload" => o.token # 0
    /\ o.stage \in {"preload", "send"} => o.todo = {}
    /\ o.stage \in {"preload", "send"} /\ cookie # Empty =>
          (o.token # 0 => cookie = owner[o.token]) /\ (o.who # Empty => cookie = o.who)
    /\ o.stage \in {"migrate", "backfill"} => o.token # 0 /\ o.who # Empty
    /\ \A v \in o.todo : o.from # Empty /\ (v[1] = 2 => o.token # 0) /\ (v[1] = 3 => o.who # Empty)

BootsOK(owner) == \A b \in Boots : BootOK(owner, boot[b])

(* so does the boot of the page, whose person is the page's;                *)
MountOK(owner, o) ==
    o.stage # "idle" =>
       /\ o.from # Empty => o.from.who = tab.user
       /\ o.token # 0 => owner[o.token] = tab.user
       /\ o.stage \in {"preload", "send"} => tab.status = "authenticated"
       /\ o.stage = "offline" => o.who = tab.user

(* and the page's person is that of the session, or of the identity kept.   *)
PageOK(owner) ==
    /\ stored.token \in 0 .. moves
    /\ stored.token # 0 /\ cookie # Empty => cookie = owner[stored.token]
    /\ tab.status = "authenticated" =>
          /\ cookie \in {Empty, tab.user} /\ tab.screen # "login"
          /\ tab.screen # "leaving" /\ stored.token # 0 => owner[stored.token] = tab.user
    /\ tab.screen \in {"choosing", "open", "switching"} => stored.who = tab.user
    /\ tab.screen \in {"login", "choosing"} => tab.mounted = Empty /\ tab.shown = NoData
    /\ Of(tab.shown, tab.user)
    /\ tab.mounted # Empty => MountOK(owner, boot[tab.mounted])

SnapshotOwned(owner) == EnvelopesOK(owner) /\ BootsOK(owner) /\ PageOK(owner)

(* A save that waits to be put has what its envelope holds by now. *)
SavesOK ==
    /\ \A v, w \in writing : v = w
    /\ \A w \in writing :
          w.slot = 3 /\ slot[3] # Empty /\ Owned(slot[3], w.env.who, w.env.where) =>
              \A d \in Domains : slot[3].data[d] # Empty => w.env.data[d] # Empty

(* A purge has taken the identity. *)
RejectionOK == rejected => stored.who = Empty /\ tab.screen \in {"login", "leaving"}

SnapshotInv ==
    /\ SnapshotTypeOK /\ SavesOK /\ RejectionOK
    /\ \E owner \in Assignments : SnapshotOwned(owner)

-----------------------------------------------------------------------------
(* What an action is proved from, for the owners of tokens so far *)
Snapshot(owner) ==
    /\ SnapshotTypeOK /\ SavesOK /\ RejectionOK
    /\ owner \in Assignments /\ SnapshotOwned(owner)

(* Envelopes that stay, grow old, or go *)
Fades(s) ==
    slot'[s] = Empty \/ slot'[s] = slot[s]
      \/ (slot[s] # Empty /\ slot'[s] = [slot[s] EXCEPT !.old = TRUE])

LEMMA FadingKeeps ==
    ASSUME SnapshotTypeOK, NEW s \in {2, 3}, Fades(s), slot'[s] # Empty
    PROVE  /\ slot[s] # Empty /\ slot'[s] \in Envelope
           /\ slot'[s].token = slot[s].token /\ slot'[s].who = slot[s].who
           /\ slot'[s].where = slot[s].where /\ slot'[s].data = slot[s].data
<1>1. CASE slot'[s] = slot[s]
  BY <1>1 DEF SnapshotTypeOK
<1>2. CASE slot[s] # Empty /\ slot'[s] = [slot[s] EXCEPT !.old = TRUE]
  <2>1. slot[s] \in Envelope
    BY <1>2 DEF SnapshotTypeOK
  <2> QED BY <1>2, <2>1 DEF Envelope
<1> QED BY <1>1, <1>2 DEF Fades

LEMMA EnvelopesKept ==
    ASSUME NEW owner, Snapshot(owner), \A s \in {2, 3} : Fades(s), writing' \subseteq writing,
           slot' \in [{2, 3} -> Envelope \cup {Empty}], moves' = moves \/ Moves
    PROVE  EnvelopesOK(owner)' /\ SavesOK'
<1>1. moves \in 0 .. MaxMoves /\ \A n \in 1 .. moves : n \in 1 .. moves'
  BY DEF Snapshot, SnapshotTypeOK, Moves
<1>2. ASSUME NEW s, NEW e, EnvelopeOK(owner, s, e)
      PROVE  /\ s = 2 => e.token \in 1 .. moves' /\ Of(e.data, owner[e.token])
             /\ s = 3 => Of(e.data, e.who)
  BY <1>1, <1>2 DEF EnvelopeOK
<1>3. \A w \in writing' : EnvelopeOK(owner, w.slot, w.env)'
  BY <1>2 DEF Snapshot, SnapshotOwned, EnvelopesOK, EnvelopeOK, Of
<1>4. \A s \in {2, 3} : slot'[s] # Empty => EnvelopeOK(owner, s, slot[s])'
  <2> SUFFICES ASSUME NEW s \in {2, 3}, slot'[s] # Empty PROVE EnvelopeOK(owner, s, slot[s])'
    OBVIOUS
  <2>1. /\ slot[s] # Empty /\ slot'[s].token = slot[s].token /\ slot'[s].who = slot[s].who
        /\ slot'[s].data = slot[s].data
    BY FadingKeeps DEF Snapshot
  <2>2. EnvelopeOK(owner, s, slot[s])
    BY <2>1 DEF Snapshot, SnapshotOwned, EnvelopesOK
  <2> QED BY <1>1, <2>1, <2>2 DEF EnvelopeOK, Of
<1>5. SavesOK'
  <2>1. slot'[3] # Empty =>
            /\ slot[3] # Empty /\ slot'[3].who = slot[3].who /\ slot'[3].where = slot[3].where
            /\ slot'[3].data = slot[3].data
    BY FadingKeeps DEF Snapshot
  <2> QED BY <2>1 DEF Snapshot, SavesOK, Owned
<1> QED BY <1>3, <1>4, <1>5 DEF EnvelopesOK

(* A save is added. *)
LEMMA EnvelopeAdded ==
    ASSUME NEW owner, Snapshot(owner), NEW w \in Save, EnvelopeOK(owner, w.slot, w.env),
           writing = {}, writing' = writing \cup {w}, UNCHANGED <<slot, moves>>,
           w.slot = 3 /\ slot[3] # Empty /\ Owned(slot[3], w.env.who, w.env.where) =>
               \A d \in Domains : slot[3].data[d] # Empty => w.env.data[d] # Empty
    PROVE  EnvelopesOK(owner)' /\ SavesOK' /\ writing' \subseteq Save
<1>1. writing' = {w}
  OBVIOUS
<1>2. EnvelopesOK(owner)'
  BY <1>1 DEF Snapshot, SnapshotOwned, EnvelopesOK, EnvelopeOK, Of
<1>3. SavesOK'
  BY <1>1 DEF SavesOK, Owned
<1> QED BY <1>1, <1>2, <1>3

(* One boot moves on. *)
LEMMA BootMoves ==
    ASSUME NEW owner, Snapshot(owner), NEW b \in Boots, NEW o \in Boot,
           boot' = [boot EXCEPT ![b] = o], BootOK(owner, o),
           cookie' = cookie \/ cookie' = Empty, moves' = moves \/ Moves
    PROVE  /\ boot' \in [Boots -> Boot] /\ boot'[b] = o
           /\ \A c \in Boots : c # b => boot'[c] = boot[c]
           /\ BootsOK(owner)'
<1>1. /\ boot' \in [Boots -> Boot] /\ boot'[b] = o
      /\ \A c \in Boots : c # b => boot'[c] = boot[c]
  BY DEF Snapshot, SnapshotTypeOK
<1>2. moves \in 0 .. MaxMoves /\ \A n \in 0 .. moves : n \in 0 .. moves'
  BY DEF Snapshot, SnapshotTypeOK, Moves
<1>3. \A c \in Boots : BootOK(owner, boot'[c])
  BY <1>1 DEF Snapshot, SnapshotOwned, BootsOK
<1>4. \A c \in Boots : BootOK(owner, boot[c])'
  <2> SUFFICES ASSUME NEW c \in Boots PROVE BootOK(owner, boot[c])'
    OBVIOUS
  <2> DEFINE p == boot'[c]
  <2>1. BootOK(owner, p)
    BY <1>3
  <2> QED BY <1>2, <2>1 DEF BootOK, Of
<1> QED BY <1>1, <1>4 DEF BootsOK

(* The session ends at most, and boots stay as they are. *)
LEMMA BootsKept ==
    ASSUME NEW owner, Snapshot(owner), boot' = boot,
           cookie' = cookie \/ cookie' = Empty, moves' = moves \/ Moves
    PROVE  BootsOK(owner)'
<1>1. moves \in 0 .. MaxMoves /\ \A n \in 0 .. moves : n \in 0 .. moves'
  BY DEF Snapshot, SnapshotTypeOK, Moves
<1> SUFFICES ASSUME NEW c \in Boots PROVE BootOK(owner, boot[c])'
  BY DEF BootsOK
<1>2. BootOK(owner, boot[c])
  BY DEF Snapshot, SnapshotOwned, BootsOK
<1> QED BY <1>1, <1>2 DEF BootOK, Of

(* The page stays as it is, or shows something else. *)
LEMMA PageKept ==
    ASSUME NEW owner, Snapshot(owner), stored' = stored,
           cookie' = cookie \/ cookie' = Empty, moves' = moves \/ Moves,
           tab.mounted # Empty => MountOK(owner, boot'[tab.mounted]),
           NEW data \in Data, tab' = [tab EXCEPT !.shown = data], Of(data, tab.user),
           tab.mounted = Empty => data = tab.shown
    PROVE  PageOK(owner)' /\ tab' \in Tab
<1>1. moves \in 0 .. MaxMoves /\ \A n \in 0 .. moves : n \in 0 .. moves'
  BY DEF Snapshot, SnapshotTypeOK, Moves
<1>2. tab \in Tab /\ PageOK(owner)
  BY DEF Snapshot, SnapshotTypeOK, SnapshotOwned
<1>3. /\ tab' \in Tab /\ tab'.screen = tab.screen /\ tab'.status = tab.status
      /\ tab'.user = tab.user /\ tab'.mounted = tab.mounted /\ tab'.shown = data
  BY <1>2 DEF Tab
<1>4. tab'.mounted # Empty => MountOK(owner, boot[tab.mounted])'
  BY <1>3 DEF MountOK
<1>5. Of(tab.shown, tab.user)'
  BY <1>3 DEF Of
<1> QED BY <1>1, <1>2, <1>3, <1>4, <1>5 DEF PageOK

-----------------------------------------------------------------------------
(* The steps of a boot *)

LEMMA SnapshotParts ==
    ASSUME NEW owner, SnapshotTypeOK', SavesOK', RejectionOK', owner \in Assignments,
           EnvelopesOK(owner)', BootsOK(owner)', PageOK(owner)'
    PROVE  Snapshot(owner)'
BY DEF Snapshot, SnapshotOwned

(* b becomes o, and shows data if it is the page's. *)
BootGoes(owner, b, o, data) ==
    /\ boot' = [boot EXCEPT ![b] = o] /\ o \in Boot /\ BootOK(owner, o)
    /\ tab.mounted = b => MountOK(owner, o)
    /\ data \in Data /\ Of(data, tab.user) /\ tab' = [tab EXCEPT !.shown = data]
    /\ tab.mounted = Empty => data = tab.shown
    /\ UNCHANGED <<cookie, stored, dropping, moves, rejected>>

LEMMA BootGoesOn ==
    ASSUME NEW owner, Snapshot(owner), NEW b \in Boots, NEW o, NEW data,
           BootGoes(owner, b, o, data), EnvelopesOK(owner)', SavesOK', writing' \subseteq Save,
           slot' \in [{2, 3} -> Envelope \cup {Empty}]
    PROVE  Snapshot(owner)'
<1>1. /\ boot' \in [Boots -> Boot] /\ boot'[b] = o
      /\ \A c \in Boots : c # b => boot'[c] = boot[c]
      /\ BootsOK(owner)'
  BY BootMoves DEF BootGoes
<1>2. PageOK(owner)' /\ tab' \in Tab
  <2>1. tab.mounted # Empty => MountOK(owner, boot'[tab.mounted])
    BY <1>1 DEF BootGoes, Snapshot, SnapshotOwned, PageOK, SnapshotTypeOK, Tab
  <2> QED BY <2>1, PageKept DEF BootGoes
<1>3. SnapshotTypeOK'
  BY <1>1, <1>2 DEF BootGoes, Snapshot, SnapshotTypeOK
<1>4. RejectionOK'
  <2>1. tab'.screen = tab.screen
    BY DEF BootGoes, Snapshot, SnapshotTypeOK, Tab
  <2> QED BY <2>1 DEF BootGoes, Snapshot, RejectionOK
<1>5. owner \in Assignments
  BY DEF Snapshot
<1> QED BY <1>1, <1>2, <1>3, <1>4, <1>5, SnapshotParts

(* Nothing else is shown. *)
LEMMA BootGoesSilently ==
    ASSUME NEW owner, Snapshot(owner), NEW b \in Boots, NEW o \in Boot, BootOK(owner, o),
           tab.mounted = b => MountOK(owner, o), boot' = [boot EXCEPT ![b] = o],
           UNCHANGED <<cookie, stored, tab, dropping, moves, rejected>>
    PROVE  BootGoes(owner, b, o, tab.shown)
<1>1. tab \in Tab /\ Of(tab.shown, tab.user)
  BY DEF Snapshot, SnapshotTypeOK, SnapshotOwned, PageOK
<1>2. tab.shown \in Data /\ tab' = [tab EXCEPT !.shown = tab.shown]
  BY <1>1 DEF Tab
<1> QED BY <1>1, <1>2 DEF BootGoes

(* What is known of a boot *)
LEMMA BootFacts ==
    ASSUME NEW owner, Snapshot(owner), NEW b \in Boots
    PROVE  /\ boot[b] \in Boot /\ BootOK(owner, boot[b])
           /\ tab.mounted = b => MountOK(owner, boot[b])
           /\ slot \in [{2, 3} -> Envelope \cup {Empty}] /\ writing \subseteq Save
           /\ tab \in Tab /\ cookie \in People \cup {Empty}
           /\ tab.status = "authenticated" => cookie \in {Empty, tab.user}
BY EmptyAssumption DEF Snapshot, SnapshotTypeOK, SnapshotOwned, BootsOK, PageOK

(* A boot that is over *)
LEMMA NoBootOK ==
    ASSUME NEW owner, Snapshot(owner)
    PROVE  NoBoot \in Boot /\ BootOK(owner, NoBoot) /\ MountOK(owner, NoBoot)
<1>1. moves \in Nat
  BY MovesAssumption DEF Snapshot, SnapshotTypeOK
<1>2. NoData \in Data
  BY DEF NoData, Data
<1>3. NoBoot \in Boot
  <2>1. 0 \in 0 .. MaxMoves
    BY MovesAssumption
  <2> QED BY <1>2, <2>1 DEF NoBoot, Boot
<1> QED BY <1>1, <1>3 DEF NoBoot, BootOK, MountOK

LEMMA Preloads ==
    ASSUME NEW owner, Snapshot(owner), NEW b \in Boots, Preload(b)
    PROVE  Snapshot(owner)'
<1> DEFINE p == boot[b]
           cached == IF OfSession(slot[2], b) /\ stored.where # Empty
                        /\ slot[2].where = stored.where /\ ~slot[2].old
                     THEN slot[2].data ELSE NoData
           o == [p EXCEPT !.stage = "send", !.cached = cached]
<1>1. /\ p.stage = "preload" /\ p \in Boot /\ BootOK(owner, p)
      /\ tab.mounted = b => MountOK(owner, p)
      /\ slot \in [{2, 3} -> Envelope \cup {Empty}] /\ writing \subseteq Save
      /\ UNCHANGED <<cookie, stored, tab, writing, dropping, moves, rejected>>
      /\ boot' = [boot EXCEPT ![b].stage = "send", ![b].cached = cached]
      /\ slot' = slot \/ slot' = [slot EXCEPT ![2] = Empty]
  BY BootFacts DEF Preload
<1>2. cached \in Data /\ Of(cached, owner[p.token])
  <2>1. CASE OfSession(slot[2], b)
    <3>1. slot[2] \in Envelope /\ slot[2] # Empty /\ slot[2].token = p.token
      BY <1>1, <2>1 DEF OfSession
    <3>2. EnvelopeOK(owner, 2, slot[2])
      BY <3>1 DEF Snapshot, SnapshotOwned, EnvelopesOK
    <3>3. Of(slot[2].data, owner[p.token]) /\ slot[2].data \in Data
      BY <3>1, <3>2 DEF EnvelopeOK, Envelope
    <3> QED BY <3>3 DEF Of, NoData, Data
  <2>2. CASE ~OfSession(slot[2], b)
    BY <2>2 DEF Of, NoData, Data
  <2> QED BY <2>1, <2>2
<1>3. boot' = [boot EXCEPT ![b] = o]
  BY <1>1 DEF Snapshot, SnapshotTypeOK
<1> HIDE DEF cached, p
<1>4. /\ o \in Boot /\ o.stage = "send" /\ o.cached = cached /\ o.token = p.token /\ o.from = p.from
      /\ o.who = p.who /\ o.todo = p.todo
  BY <1>1, <1>2 DEF Boot
<1> HIDE DEF o
<1>5. BootOK(owner, o) /\ (tab.mounted = b => MountOK(owner, o))
  BY <1>1, <1>2, <1>4 DEF BootOK, MountOK
<1>6. BootGoes(owner, b, o, tab.shown)
  BY <1>1, <1>3, <1>4, <1>5, BootGoesSilently
<1>7. slot' \in [{2, 3} -> Envelope \cup {Empty}] /\ \A s \in {2, 3} : Fades(s)
  BY <1>1 DEF Fades
<1>8. EnvelopesOK(owner)' /\ SavesOK'
  BY <1>1, <1>7, EnvelopesKept
<1> QED BY <1>1, <1>6, <1>7, <1>8, BootGoesOn

LEMMA Sendings ==
    ASSUME NEW owner, Snapshot(owner), NEW b \in Boots, Send(b)
    PROVE  Snapshot(owner)'
<1> DEFINE p == boot[b]
           from == IF cookie = Empty \/ tab.header = Empty THEN Empty
                   ELSE [who |-> cookie, where |-> tab.header]
           stage == IF cookie = Empty THEN "refused" ELSE "fetch"
           o == [p EXCEPT !.stage = stage, !.from = from]
<1>1. /\ p.stage = "send" /\ p \in Boot /\ BootOK(owner, p)
      /\ tab.mounted = b => MountOK(owner, p)
      /\ slot \in [{2, 3} -> Envelope \cup {Empty}] /\ writing \subseteq Save
      /\ tab \in Tab /\ cookie \in People \cup {Empty}
      /\ tab.status = "authenticated" => cookie \in {Empty, tab.user}
      /\ UNCHANGED <<cookie, stored, slot, tab, writing, dropping, moves, rejected>>
      /\ boot' = [boot EXCEPT ![b] = o]
  BY BootFacts DEF Send, Snapshot, SnapshotTypeOK
<1>2. /\ from \in Item \cup {Empty}
      /\ from # Empty => cookie # Empty /\ from.who = cookie
  BY <1>1 DEF Item, Tab
<1>3. stage \in {"refused", "fetch"}
  OBVIOUS
<1> HIDE DEF p, from, stage
<1>4. /\ o \in Boot /\ o.stage = stage /\ o.from = from /\ o.token = p.token /\ o.cached = p.cached
      /\ o.who = p.who /\ o.todo = p.todo
  BY <1>1, <1>2, <1>3 DEF Boot
<1> HIDE DEF o
<1>5. BootOK(owner, o) /\ (tab.mounted = b => MountOK(owner, o))
  BY <1>1, <1>2, <1>3, <1>4 DEF BootOK, MountOK
<1>6. BootGoes(owner, b, o, tab.shown)
  BY <1>1, <1>4, <1>5, BootGoesSilently
<1>7. \A s \in {2, 3} : Fades(s)
  BY <1>1 DEF Fades
<1>8. EnvelopesOK(owner)' /\ SavesOK'
  BY <1>1, <1>7, EnvelopesKept
<1> QED BY <1>1, <1>6, <1>8, BootGoesOn

LEMMA Loads ==
    ASSUME NEW owner, Snapshot(owner), NEW b \in Boots, NEW got \in SUBSET Domains, Load(b, got)
    PROVE  Snapshot(owner)'
<1> DEFINE p == boot[b]
           v2 == IF p.token = 0 THEN {} ELSE {2} \X got
           v3 == IF p.who = Empty THEN {} ELSE {3} \X got
           todo == v2 \cup v3
           stage == IF v2 = {} THEN "save" ELSE "stamp"
           o == [p EXCEPT !.stage = stage, !.todo = todo, !.cached = NoData]
           fetched == [d \in Domains |-> IF d \in got THEN p.from ELSE p.cached[d]]
           data == IF Heard(b) THEN fetched ELSE tab.shown
<1>1. /\ p.stage = "fetch" /\ p \in Boot /\ BootOK(owner, p)
      /\ tab.mounted = b => MountOK(owner, p)
      /\ slot \in [{2, 3} -> Envelope \cup {Empty}] /\ writing \subseteq Save
      /\ got = {} \/ p.from # Empty
      /\ UNCHANGED <<cookie, stored, slot, writing, dropping, moves, rejected>>
      /\ boot' = [boot EXCEPT ![b].stage = stage, ![b].todo = todo, ![b].cached = NoData]
      /\ tab' = IF ~Heard(b) THEN tab ELSE [tab EXCEPT !.shown = fetched]
      /\ tab \in Tab /\ Of(tab.shown, tab.user) /\ boot \in [Boots -> Boot]
  BY BootFacts DEF Load, Snapshot, SnapshotTypeOK, SnapshotOwned, PageOK
<1>2. todo \in SUBSET ({2, 3} \X Domains) /\ stage \in {"save", "stamp"}
  OBVIOUS
<1>a. got # {} => p.from # Empty
  BY <1>1
<1>3. \A v \in todo : p.from # Empty /\ (v[1] = 2 => p.token # 0) /\ (v[1] = 3 => p.who # Empty)
  <2> SUFFICES ASSUME NEW v \in todo
               PROVE  p.from # Empty /\ (v[1] = 2 => p.token # 0) /\ (v[1] = 3 => p.who # Empty)
    OBVIOUS
  <2>1. CASE v \in v2
    <3>1. p.token # 0 /\ v \in {2} \X got
      BY <2>1
    <3>2. v[1] = 2 /\ got # {}
      BY <3>1
    <3> QED BY <1>a, <3>1, <3>2
  <2>2. CASE v \in v3
    <3>1. p.who # Empty /\ v \in {3} \X got
      BY <2>2
    <3>2. v[1] = 3 /\ got # {}
      BY <3>1
    <3> QED BY <1>a, <3>1, <3>2
  <2> QED BY <2>1, <2>2
<1>4. boot' = [boot EXCEPT ![b] = o]
  BY <1>1
<1>5. fetched \in Data
  BY <1>1 DEF Data, Boot
<1>6. Heard(b) => Of(fetched, tab.user)
  <2> SUFFICES ASSUME Heard(b), NEW d \in Domains, fetched[d] # Empty
               PROVE  fetched[d].who = tab.user
    BY DEF Of
  <2>1. MountOK(owner, p)
    BY <1>1 DEF Heard
  <2>2. CASE d \in got
    BY <1>1, <2>1, <2>2 DEF MountOK
  <2>3. CASE d \notin got
    <3>1. fetched[d] = p.cached[d]
      BY <2>3
    <3>2. p.token # 0
      BY <1>1, <3>1 DEF BootOK, NoData
    <3> QED BY <1>1, <2>1, <3>1, <3>2 DEF BootOK, MountOK, Of
  <2> QED BY <2>2, <2>3
<1>7. /\ data \in Data /\ Of(data, tab.user) /\ tab' = [tab EXCEPT !.shown = data]
      /\ tab.mounted = Empty => data = tab.shown
  <2>1. CASE Heard(b)
    <3>1. tab.mounted # Empty
      BY <2>1, EmptyAssumption DEF Heard
    <3> HIDE DEF fetched
    <3> QED BY <1>1, <1>5, <1>6, <2>1, <3>1
  <2>2. CASE ~Heard(b)
    <3> HIDE DEF fetched
    <3>1. data = tab.shown /\ tab' = tab
      BY <1>1, <2>2
    <3> HIDE DEF data
    <3> QED BY <1>1, <3>1 DEF Tab
  <2> QED BY <2>1, <2>2
<1> HIDE DEF p, todo, stage, fetched, data
<1>8. NoData \in Data
  BY DEF NoData, Data
<1>9. /\ o \in Boot /\ o.stage = stage /\ o.todo = todo /\ o.cached = NoData /\ o.token = p.token
      /\ o.from = p.from /\ o.who = p.who
  BY <1>1, <1>2, <1>8 DEF Boot
<1> HIDE DEF o
<1>10. BootOK(owner, o)
  <2>1. \A who : Of(NoData, who)
    BY DEF Of, NoData
  <2> QED BY <1>1, <1>2, <1>3, <1>9, <2>1 DEF BootOK
<1>11. tab.mounted = b => MountOK(owner, o)
  BY <1>1, <1>2, <1>9 DEF MountOK
<1>12. BootGoes(owner, b, o, data)
  BY <1>1, <1>4, <1>7, <1>9, <1>10, <1>11 DEF BootGoes
<1>13. EnvelopesOK(owner)' /\ SavesOK'
  <2>1. \A s \in {2, 3} : Fades(s)
    BY <1>1 DEF Fades
  <2> QED BY <1>1, <2>1, EnvelopesKept
<1> QED BY <1>1, <1>12, <1>13, BootGoesOn

LEMMA Stamps ==
    ASSUME NEW owner, Snapshot(owner), NEW b \in Boots, Stamp(b)
    PROVE  Snapshot(owner)'
<1> DEFINE p == boot[b]
           o == [p EXCEPT !.stage = "save", !.subject = stored.where]
<1>1. /\ p.stage = "stamp" /\ p \in Boot /\ BootOK(owner, p)
      /\ tab.mounted = b => MountOK(owner, p)
      /\ slot \in [{2, 3} -> Envelope \cup {Empty}] /\ writing \subseteq Save
      /\ UNCHANGED <<cookie, stored, slot, tab, writing, dropping, moves, rejected>>
      /\ boot' = [boot EXCEPT ![b] = o] /\ stored.where \in Places \cup {Empty}
  BY BootFacts DEF Stamp, Snapshot, SnapshotTypeOK, Stored
<1> HIDE DEF p
<1>2. /\ o \in Boot /\ o.stage = "save" /\ o.from = p.from /\ o.token = p.token /\ o.cached = p.cached
      /\ o.who = p.who /\ o.todo = p.todo
  BY <1>1 DEF Boot
<1> HIDE DEF o
<1>3. BootOK(owner, o) /\ (tab.mounted = b => MountOK(owner, o))
  BY <1>1, <1>2 DEF BootOK, MountOK
<1>4. BootGoes(owner, b, o, tab.shown)
  BY <1>1, <1>2, <1>3, BootGoesSilently
<1>5. EnvelopesOK(owner)' /\ SavesOK'
  <2>1. \A s \in {2, 3} : Fades(s)
    BY <1>1 DEF Fades
  <2> QED BY <1>1, <2>1, EnvelopesKept
<1> QED BY <1>1, <1>4, <1>5, BootGoesOn

(* The envelope a save adopts is of its boot. *)
LEMMA Bases ==
    ASSUME NEW owner, Snapshot(owner), NEW b \in Boots, NEW s \in {2, 3},
           s = 2 => boot[b].token # 0
    PROVE  /\ Base(b, s) \in Envelope
           /\ s = 2 => Base(b, s).token = boot[b].token /\ Of(Base(b, s).data, owner[boot[b].token])
           /\ s = 3 => /\ Base(b, s).who = boot[b].who /\ Base(b, s).where = boot[b].where
                       /\ Of(Base(b, s).data, boot[b].who)
                       /\ slot[3] # Empty /\ Owned(slot[3], boot[b].who, boot[b].where) =>
                             Base(b, s).data = slot[3].data
<1> DEFINE p == boot[b]
<1>1. /\ p \in Boot /\ stored.where \in Places \cup {Empty}
      /\ slot \in [{2, 3} -> Envelope \cup {Empty}]
      /\ \A t \in {2, 3} : slot[t] # Empty => EnvelopeOK(owner, t, slot[t])
  BY BootFacts DEF Snapshot, SnapshotTypeOK, Stored, SnapshotOwned, EnvelopesOK
<1>2. NoData \in Data /\ \A who : Of(NoData, who)
  BY DEF NoData, Data, Of
<1>3. CASE s = 3
  <2>1. CASE slot[3] # Empty /\ slot[3].who = p.who /\ slot[3].where = p.where
    <3>1. Base(b, s) = slot[3] /\ slot[3] \in Envelope /\ EnvelopeOK(owner, 3, slot[3])
      BY <1>1, <1>3, <2>1 DEF Base
    <3> QED BY <1>3, <2>1, <3>1 DEF EnvelopeOK
  <2>2. CASE ~(slot[3] # Empty /\ slot[3].who = p.who /\ slot[3].where = p.where)
    <3>1. Base(b, s) = Fresh3(b)
      BY <1>3, <2>2 DEF Base
    <3>2. 0 \in 0 .. MaxMoves
      BY MovesAssumption
    <3>3. /\ Fresh3(b) \in Envelope /\ Fresh3(b).who = p.who /\ Fresh3(b).where = p.where
          /\ Fresh3(b).data = NoData
      BY <1>1, <1>2, <3>2 DEF Fresh3, Envelope, Boot
    <3> QED BY <1>2, <1>3, <2>2, <3>1, <3>3 DEF Owned
  <2> QED BY <2>1, <2>2
<1>4. CASE s = 2
  <2> DEFINE e == IF OfSession(slot[2], b) /\ slot[2].where = p.subject THEN slot[2] ELSE Fresh2(b)
  <2>1. e \in Envelope /\ e.token = p.token /\ Of(e.data, owner[p.token])
    <3>1. CASE OfSession(slot[2], b)
      <4>1. slot[2] \in Envelope /\ slot[2].token = p.token /\ Of(slot[2].data, owner[p.token])
        BY <1>1, <3>1 DEF OfSession, EnvelopeOK
      <4>2. Fresh2(b) \in Envelope /\ Fresh2(b).token = p.token /\ Fresh2(b).data = NoData
        BY <1>1, <1>2 DEF Fresh2, Envelope, Boot
      <4> QED BY <1>2, <4>1, <4>2
    <3>2. CASE ~OfSession(slot[2], b)
      <4>1. e = Fresh2(b)
        BY <3>2
      <4>2. Fresh2(b) \in Envelope /\ Fresh2(b).token = p.token /\ Fresh2(b).data = NoData
        BY <1>1, <1>2 DEF Fresh2, Envelope, Boot
      <4> QED BY <1>2, <4>1, <4>2
    <3> QED BY <3>1, <3>2
  <2>2. Base(b, s) = IF e.where = Empty THEN [e EXCEPT !.where = p.subject] ELSE e
    BY <1>4 DEF Base
  <2>3. p.subject \in Places \cup {Empty}
    BY <1>1 DEF Boot
  <2> HIDE DEF e, p
  <2>4. Base(b, s) \in Envelope /\ Base(b, s).token = p.token /\ Of(Base(b, s).data, owner[p.token])
    BY <2>1, <2>2, <2>3 DEF Envelope
  <2> QED BY <1>4, <2>4 DEF p
<1> QED BY <1>3, <1>4

LEMMA TakesTurn ==
    ASSUME NEW owner, Snapshot(owner), NEW b \in Boots, TakeTurn(b)
    PROVE  Snapshot(owner)'
<1> DEFINE p == boot[b]
<1>1. /\ p \in Boot /\ BootOK(owner, p) /\ (tab.mounted = b => MountOK(owner, p))
      /\ slot \in [{2, 3} -> Envelope \cup {Empty}] /\ writing = {}
      /\ UNCHANGED <<cookie, stored, slot, tab, dropping, moves, rejected>>
      /\ boot \in [Boots -> Boot]
  BY BootFacts DEF TakeTurn, ItsTurn, Snapshot, SnapshotTypeOK
<1>2. PICK t \in NextSave(p.todo) :
         LET s == t[1]
             env == [Base(b, s) EXCEPT !.data[t[2]] = p.from, !.old = FALSE]
         IN /\ p.stage \in {"stamp", "save"}
            /\ writing' = writing \cup {[slot |-> s, by |-> b, env |-> env]}
            /\ boot' = [boot EXCEPT ![b].todo = @ \ {t}]
  BY Zenon DEF TakeTurn
<1>3. /\ t \in p.todo /\ t[1] \in {2, 3} /\ t[2] \in Domains
      /\ p.from # Empty /\ (t[1] = 2 => p.token # 0) /\ (t[1] = 3 => p.who # Empty)
  BY <1>1 DEF NextSave, Boot, BootOK
<1> DEFINE s == t[1]
           d == t[2]
           base == Base(b, s)
           env == [base EXCEPT !.data[d] = p.from, !.old = FALSE]
           w == [slot |-> s, by |-> b, env |-> env]
           todo == p.todo \ {t}
           o == [p EXCEPT !.todo = todo]
<1>4. /\ base \in Envelope
      /\ s = 2 => base.token = p.token /\ Of(base.data, owner[p.token])
      /\ s = 3 => /\ base.who = p.who /\ base.where = p.where /\ Of(base.data, p.who)
                  /\ slot[3] # Empty /\ Owned(slot[3], p.who, p.where) => base.data = slot[3].data
  BY <1>1, <1>3, Bases
<1>5. writing' = writing \cup {w} /\ boot' = [boot EXCEPT ![b] = o] /\ p.stage \in {"stamp", "save"}
  BY <1>1, <1>2
<1>6. p.from \in Item /\ (s = 2 => p.from.who = owner[p.token]) /\ (s = 3 => p.from.who = p.who)
  BY <1>1, <1>3 DEF Boot, BootOK
<1>7. todo \in SUBSET ({2, 3} \X Domains) /\ todo \subseteq p.todo
  BY <1>1 DEF Boot
<1>8. s \in {2, 3} /\ d \in Domains /\ p.from # Empty /\ (s = 2 => p.token \in 1 .. moves)
  <2>1. moves \in 0 .. MaxMoves
    BY DEF Snapshot, SnapshotTypeOK
  <2> QED BY <1>1, <1>3, <2>1 DEF BootOK
<1> HIDE DEF s, d, base, p, todo
<1>9. /\ env \in Envelope /\ env.token = base.token /\ env.who = base.who /\ env.where = base.where
      /\ env.data = [base.data EXCEPT ![d] = p.from]
  BY <1>4, <1>6, <1>8 DEF Envelope, Data
<1> HIDE DEF env
<1>10. base.data \in Data /\ env.data[d] = p.from /\ \A f \in Domains : f # d => env.data[f] = base.data[f]
  BY <1>4, <1>8, <1>9 DEF Envelope, Data
<1>11. w \in Save /\ w.slot = s /\ w.env = env
  BY <1>8, <1>9 DEF Save
<1> HIDE DEF w
<1>12. EnvelopeOK(owner, s, env)
  BY <1>4, <1>6, <1>8, <1>9, <1>10 DEF EnvelopeOK, Of
<1>13. s = 3 /\ slot[3] # Empty /\ Owned(slot[3], env.who, env.where) =>
           \A f \in Domains : slot[3].data[f] # Empty => env.data[f] # Empty
  BY <1>4, <1>8, <1>9, <1>10 DEF Owned
<1>14. EnvelopesOK(owner)' /\ SavesOK' /\ writing' \subseteq Save
  BY <1>1, <1>5, <1>11, <1>12, <1>13, EnvelopeAdded
<1>15. /\ o \in Boot /\ o.stage = p.stage /\ o.from = p.from /\ o.token = p.token
       /\ o.cached = p.cached /\ o.who = p.who /\ o.todo = todo
  BY <1>1, <1>7 DEF Boot
<1> HIDE DEF o
<1>16. BootOK(owner, o) /\ (tab.mounted = b => MountOK(owner, o))
  BY <1>1, <1>5, <1>7, <1>15 DEF BootOK, MountOK
<1>17. BootGoes(owner, b, o, tab.shown)
  BY <1>1, <1>5, <1>15, <1>16, BootGoesSilently
<1> QED BY <1>1, <1>14, <1>17, BootGoesOn

LEMMA Saves ==
    ASSUME NEW owner, Snapshot(owner), NEW b \in Boots, Saved(b)
    PROVE  Snapshot(owner)'
<1> DEFINE p == boot[b]
           q == [p EXCEPT !.stage = "migrate"]
<1>1. /\ p \in Boot /\ BootOK(owner, p) /\ (tab.mounted = b => MountOK(owner, p))
      /\ slot \in [{2, 3} -> Envelope \cup {Empty}] /\ writing \subseteq Save
      /\ p.stage = "save"
      /\ UNCHANGED <<cookie, stored, slot, tab, writing, dropping, moves, rejected>>
  BY BootFacts DEF Saved
<1>2. PICK o \in {q, NoBoot} : /\ boot' = [boot EXCEPT ![b] = o]
                               /\ o = q => (p.token # 0 /\ p.who # Empty) \/ q = NoBoot
  BY DEF Saved, Stage, BootEnds
<1> HIDE DEF p
<1>3. CASE o = NoBoot
  <2>1. BootGoes(owner, b, o, tab.shown)
    BY <1>1, <1>2, <1>3, NoBootOK, BootGoesSilently
  <2>2. EnvelopesOK(owner)' /\ SavesOK'
    <3>1. \A s \in {2, 3} : Fades(s)
      BY <1>1 DEF Fades
    <3> QED BY <1>1, <3>1, EnvelopesKept
  <2> QED BY <1>1, <2>1, <2>2, BootGoesOn
<1>4. CASE o = q /\ q # NoBoot
  <2>1. /\ o \in Boot /\ o.stage = "migrate" /\ o.from = p.from /\ o.token = p.token
        /\ o.cached = p.cached /\ o.who = p.who /\ o.todo = p.todo
    BY <1>1, <1>4 DEF Boot
  <2>2. p.token # 0 /\ p.who # Empty
    BY <1>2, <1>4
  <2>3. BootOK(owner, o) /\ (tab.mounted = b => MountOK(owner, o))
    BY <1>1, <2>1, <2>2 DEF BootOK, MountOK
  <2>4. BootGoes(owner, b, o, tab.shown)
    BY <1>1, <1>2, <2>1, <2>3, BootGoesSilently
  <2>5. EnvelopesOK(owner)' /\ SavesOK'
    <3>1. \A s \in {2, 3} : Fades(s)
      BY <1>1 DEF Fades
    <3> QED BY <1>1, <3>1, EnvelopesKept
  <2> QED BY <1>1, <2>4, <2>5, BootGoesOn
<1> QED BY <1>3, <1>4

(* A boot that is over, and may delete V2 *)
LEMMA BootIsOver ==
    ASSUME NEW owner, Snapshot(owner), NEW b \in Boots, boot' = [boot EXCEPT ![b] = NoBoot],
           UNCHANGED <<cookie, stored, tab, writing, dropping, moves, rejected>>,
           slot' = slot \/ slot' = [slot EXCEPT ![2] = Empty]
    PROVE  Snapshot(owner)'
<1>1. slot \in [{2, 3} -> Envelope \cup {Empty}] /\ writing \subseteq Save
  BY BootFacts
<1>2. slot' \in [{2, 3} -> Envelope \cup {Empty}] /\ \A s \in {2, 3} : Fades(s)
  BY <1>1 DEF Fades
<1>3. EnvelopesOK(owner)' /\ SavesOK'
  BY <1>1, <1>2, EnvelopesKept
<1>4. BootGoes(owner, b, NoBoot, tab.shown)
  BY NoBootOK, BootGoesSilently
<1> QED BY <1>1, <1>2, <1>3, <1>4, BootGoesOn

LEMMA Migrates ==
    ASSUME NEW owner, Snapshot(owner), NEW b \in Boots, Migrate(b) \/ Migrated(b)
    PROVE  Snapshot(owner)'
<1>1. /\ UNCHANGED <<cookie, stored, tab, writing, dropping, moves, rejected>>
      /\ slot' = slot \/ slot' = [slot EXCEPT ![2] = Empty]
  BY DEF Migrate, Migrated
<1>2. CASE BootEnds(b)
  BY <1>1, <1>2, BootIsOver DEF BootEnds
<1>3. CASE /\ boot[b].stage = "migrate" /\ OfSession(slot[2], b)
           /\ boot' = [boot EXCEPT ![b].stage = "backfill", ![b].cached = slot[2].data]
  <2> DEFINE p == boot[b]
             cached == slot[2].data
             o == [p EXCEPT !.stage = "backfill", !.cached = cached]
  <2>1. /\ p \in Boot /\ BootOK(owner, p) /\ (tab.mounted = b => MountOK(owner, p))
        /\ slot \in [{2, 3} -> Envelope \cup {Empty}] /\ writing \subseteq Save
        /\ p.stage = "migrate" /\ boot' = [boot EXCEPT ![b] = o]
    BY <1>3, BootFacts DEF Snapshot, SnapshotTypeOK
  <2>2. slot[2] \in Envelope /\ slot[2].token = p.token /\ EnvelopeOK(owner, 2, slot[2])
    BY <1>3, <2>1 DEF OfSession, Snapshot, SnapshotOwned, EnvelopesOK
  <2>3. cached \in Data /\ Of(cached, owner[p.token])
    BY <2>2 DEF EnvelopeOK, Envelope
  <2> HIDE DEF p, cached
  <2>4. /\ o \in Boot /\ o.stage = "backfill" /\ o.from = p.from /\ o.token = p.token
        /\ o.cached = cached /\ o.who = p.who /\ o.todo = p.todo
    BY <2>1, <2>3 DEF Boot
  <2> HIDE DEF o
  <2>5. BootOK(owner, o) /\ (tab.mounted = b => MountOK(owner, o))
    BY <2>1, <2>3, <2>4 DEF BootOK, MountOK
  <2>6. BootGoes(owner, b, o, tab.shown)
    BY <1>1, <2>1, <2>4, <2>5, BootGoesSilently
  <2>7. slot' \in [{2, 3} -> Envelope \cup {Empty}] /\ \A s \in {2, 3} : Fades(s)
    BY <1>1, <2>1 DEF Fades
  <2>8. EnvelopesOK(owner)' /\ SavesOK'
    BY <1>1, <2>7, EnvelopesKept
  <2> QED BY <1>1, <2>1, <2>6, <2>7, <2>8, BootGoesOn
<1> QED BY <1>2, <1>3 DEF Migrate, Migrated

LEMMA Backfills ==
    ASSUME NEW owner, Snapshot(owner), NEW b \in Boots, Backfill(b)
    PROVE  Snapshot(owner)'
<1> DEFINE p == boot[b]
           base == Base(b, 3)
           data == [d \in Domains |-> IF base.data[d] = Empty THEN p.cached[d] ELSE base.data[d]]
           env == [base EXCEPT !.data = data, !.old = FALSE]
           w == [slot |-> 3, by |-> b, env |-> env]
           o == [p EXCEPT !.stage = "forget"]
<1>1. /\ p \in Boot /\ BootOK(owner, p) /\ (tab.mounted = b => MountOK(owner, p))
      /\ slot \in [{2, 3} -> Envelope \cup {Empty}] /\ writing = {} /\ p.stage = "backfill"
      /\ UNCHANGED <<cookie, stored, slot, tab, dropping, moves, rejected>>
      /\ writing' = writing \cup {w} /\ boot' = [boot EXCEPT ![b] = o]
  BY BootFacts DEF Backfill, ItsTurn, Stage
<1>2. /\ base \in Envelope /\ base.who = p.who /\ base.where = p.where /\ Of(base.data, p.who)
      /\ slot[3] # Empty /\ Owned(slot[3], p.who, p.where) => base.data = slot[3].data
  BY Bases
<1>3. Of(p.cached, p.who) /\ p.cached \in Data /\ base.data \in Data
  <2>1. p.token # 0 /\ p.who # Empty /\ p.who = owner[p.token] /\ Of(p.cached, owner[p.token])
    BY <1>1 DEF BootOK
  <2> QED BY <1>1, <1>2, <2>1 DEF Boot, Envelope
<1> HIDE DEF p, base
<1>4. data \in Data /\ Of(data, p.who) /\ \A d \in Domains : base.data[d] # Empty => data[d] # Empty
  BY <1>2, <1>3 DEF Data, Of
<1> HIDE DEF data
<1>5. env \in Envelope /\ env.who = p.who /\ env.where = p.where /\ env.data = data
  BY <1>2, <1>4 DEF Envelope
<1> HIDE DEF env
<1>6. w \in Save /\ w.slot = 3 /\ w.env = env
  BY <1>5 DEF Save
<1> HIDE DEF w
<1>7. EnvelopesOK(owner)' /\ SavesOK' /\ writing' \subseteq Save
  <2>1. EnvelopeOK(owner, 3, env)
    BY <1>4, <1>5 DEF EnvelopeOK
  <2>2. slot[3] # Empty /\ Owned(slot[3], env.who, env.where) =>
            \A d \in Domains : slot[3].data[d] # Empty => env.data[d] # Empty
    BY <1>2, <1>4, <1>5
  <2> QED BY <1>1, <1>6, <2>1, <2>2, EnvelopeAdded
<1>8. /\ o \in Boot /\ o.stage = "forget" /\ o.from = p.from /\ o.token = p.token
      /\ o.cached = p.cached /\ o.who = p.who /\ o.todo = p.todo
  BY <1>1 DEF Boot
<1> HIDE DEF o
<1>9. BootOK(owner, o) /\ (tab.mounted = b => MountOK(owner, o))
  BY <1>1, <1>8 DEF BootOK, MountOK
<1>10. BootGoes(owner, b, o, tab.shown)
  BY <1>1, <1>8, <1>9, BootGoesSilently
<1> QED BY <1>1, <1>7, <1>10, BootGoesOn

LEMMA ReadsOffline ==
    ASSUME NEW owner, Snapshot(owner), NEW b \in Boots, OfflineRead(b)
    PROVE  Snapshot(owner)'
<1> DEFINE p == boot[b]
           opens == Heard(b) /\ Readable(p.who, p.where)
           data == IF opens THEN slot[3].data ELSE tab.shown
<1>1. /\ p.stage = "offline" /\ (tab.mounted = b => MountOK(owner, p))
      /\ slot \in [{2, 3} -> Envelope \cup {Empty}] /\ writing \subseteq Save /\ tab \in Tab
      /\ tab' = IF opens THEN [tab EXCEPT !.shown = slot[3].data] ELSE tab
      /\ boot' = [boot EXCEPT ![b] = NoBoot]
      /\ UNCHANGED <<cookie, stored, slot, writing, dropping, moves, rejected>>
      /\ Of(tab.shown, tab.user)
  BY BootFacts DEF OfflineRead, BootEnds, Snapshot, SnapshotOwned, PageOK
<1>2. data \in Data /\ Of(data, tab.user) /\ (tab.mounted = Empty => data = tab.shown)
  <2>1. CASE opens
    <3>1. slot[3] # Empty /\ slot[3] \in Envelope /\ slot[3].who = p.who
      BY <1>1, <2>1 DEF Readable, Owned
    <3>2. Of(slot[3].data, p.who)
      BY <3>1 DEF Snapshot, SnapshotOwned, EnvelopesOK, EnvelopeOK
    <3>3. p.who = tab.user /\ tab.mounted # Empty
      BY <1>1, <2>1, EmptyAssumption DEF Heard, MountOK
    <3> QED BY <2>1, <3>1, <3>2, <3>3 DEF Envelope
  <2>2. CASE ~opens
    BY <1>1, <2>2 DEF Tab
  <2> QED BY <2>1, <2>2
<1>3. tab' = [tab EXCEPT !.shown = data]
  <2> HIDE DEF opens
  <2> QED BY <1>1 DEF Tab
<1> HIDE DEF data
<1>4. BootGoes(owner, b, NoBoot, data)
  BY <1>1, <1>2, <1>3, NoBootOK DEF BootGoes
<1>5. EnvelopesOK(owner)' /\ SavesOK'
  <2>1. \A s \in {2, 3} : Fades(s)
    BY <1>1 DEF Fades
  <2> QED BY <1>1, <2>1, EnvelopesKept
<1> QED BY <1>1, <1>4, <1>5, BootGoesOn

-----------------------------------------------------------------------------
(* Envelopes are deleted and grow old, the session ends. *)

LEMMA Backstage ==
    ASSUME NEW owner, Snapshot(owner), UNCHANGED <<stored, tab, boot, rejected>>,
           cookie' = cookie \/ cookie' = Empty, moves' = moves \/ Moves,
           \A s \in {2, 3} : Fades(s), slot' \in [{2, 3} -> Envelope \cup {Empty}],
           writing' = writing, dropping' \subseteq {2, 3}
    PROVE  Snapshot(owner)'
<1>1. EnvelopesOK(owner)' /\ SavesOK'
  BY EnvelopesKept
<1>2. BootsOK(owner)'
  BY BootsKept
<1>3. PageOK(owner)'
  <2>1. /\ tab \in Tab /\ Of(tab.shown, tab.user)
        /\ tab.mounted # Empty => MountOK(owner, boot'[tab.mounted])
    BY DEF Snapshot, SnapshotTypeOK, SnapshotOwned, PageOK
  <2>2. tab.shown \in Data /\ tab' = [tab EXCEPT !.shown = tab.shown]
    BY <2>1 DEF Tab
  <2> QED BY <2>1, <2>2, PageKept
<1>4. SnapshotTypeOK'
  BY MovesAssumption DEF Snapshot, SnapshotTypeOK, Moves
<1>5. RejectionOK' /\ owner \in Assignments
  BY DEF Snapshot, RejectionOK
<1> QED BY <1>1, <1>2, <1>3, <1>4, <1>5, SnapshotParts

LEMMA Deletes ==
    ASSUME NEW owner, Snapshot(owner), NEW s \in {2, 3}, Delete(s) \/ GrowOld(s)
    PROVE  Snapshot(owner)'
<1>1. slot \in [{2, 3} -> Envelope \cup {Empty}] /\ dropping \subseteq {2, 3}
  BY DEF Snapshot, SnapshotTypeOK
<1>2. CASE Delete(s)
  <2>1. slot' = slot \/ slot' = [slot EXCEPT ![s] = Empty]
    BY <1>2 DEF Delete
  <2>2. slot' \in [{2, 3} -> Envelope \cup {Empty}] /\ \A t \in {2, 3} : Fades(t)
    BY <1>1, <2>1 DEF Fades
  <2> QED BY <1>1, <1>2, <2>2, Backstage DEF Delete
<1>3. CASE GrowOld(s)
  <2>1. slot[s] # Empty /\ slot[s] \in Envelope
    BY <1>1, <1>3 DEF GrowOld
  <2>2. [slot[s] EXCEPT !.old = TRUE] \in Envelope
    BY <2>1 DEF Envelope
  <2>3. slot' = [slot EXCEPT ![s] = [slot[s] EXCEPT !.old = TRUE]]
    BY <1>1, <1>3 DEF GrowOld
  <2>4. slot' \in [{2, 3} -> Envelope \cup {Empty}] /\ \A t \in {2, 3} : Fades(t)
    BY <1>1, <2>1, <2>2, <2>3 DEF Fades
  <2> QED BY <1>1, <1>3, <2>4, Backstage DEF GrowOld
<1> QED BY <1>2, <1>3

LEMMA EndsSession ==
    ASSUME NEW owner, Snapshot(owner), SessionEnds
    PROVE  Snapshot(owner)'
<1>1. slot \in [{2, 3} -> Envelope \cup {Empty}] /\ dropping \subseteq {2, 3}
  BY DEF Snapshot, SnapshotTypeOK
<1>2. \A t \in {2, 3} : Fades(t)
  BY DEF SessionEnds, Fades
<1> QED BY <1>1, <1>2, Backstage DEF SessionEnds

LEMMA Puts ==
    ASSUME NEW owner, Snapshot(owner), NEW w \in writing, Put(w)
    PROVE  Snapshot(owner)'
<1>1. /\ slot \in [{2, 3} -> Envelope \cup {Empty}] /\ dropping \subseteq {2, 3}
      /\ writing \subseteq Save /\ \A v \in writing : v = w
      /\ moves \in 0 .. MaxMoves /\ SnapshotTypeOK /\ RejectionOK /\ owner \in Assignments
  BY DEF Snapshot, SnapshotTypeOK, SavesOK
<1>2. /\ writing' = {}
      /\ moves' = moves \/ Moves
      /\ UNCHANGED <<cookie, stored, tab, boot, dropping, rejected>>
      /\ slot' = slot \/ slot' = [slot EXCEPT ![w.slot] = w.env]
  BY <1>1 DEF Put
<1>3. w.slot \in {2, 3} /\ w.env \in Envelope /\ EnvelopeOK(owner, w.slot, w.env)
  BY <1>1 DEF Save, Snapshot, SnapshotOwned, EnvelopesOK
<1>4. slot' \in [{2, 3} -> Envelope \cup {Empty}]
  BY <1>1, <1>2, <1>3
<1>5. \A n \in 1 .. moves : n \in 1 .. moves'
  BY <1>1, <1>2 DEF Moves
<1>6. EnvelopesOK(owner)'
  <2>1. \A s \in {2, 3} : slot'[s] # Empty => EnvelopeOK(owner, s, slot'[s])
    BY <1>1, <1>2, <1>3 DEF Snapshot, SnapshotOwned, EnvelopesOK
  <2>2. \A s \in {2, 3} : slot'[s] # Empty => EnvelopeOK(owner, s, slot[s])'
    BY <1>5, <2>1 DEF EnvelopeOK, Of
  <2> QED BY <1>2, <2>2 DEF EnvelopesOK
<1>7. SavesOK'
  BY <1>2 DEF SavesOK
<1>8. BootsOK(owner)'
  BY <1>2, BootsKept
<1>9. PageOK(owner)'
  <2>1. /\ tab \in Tab /\ Of(tab.shown, tab.user)
        /\ tab.mounted # Empty => MountOK(owner, boot'[tab.mounted])
    BY <1>2 DEF Snapshot, SnapshotTypeOK, SnapshotOwned, PageOK
  <2>2. tab.shown \in Data /\ tab' = [tab EXCEPT !.shown = tab.shown]
    BY <1>2, <2>1 DEF Tab
  <2> QED BY <1>2, <2>1, <2>2, PageKept
<1>10. SnapshotTypeOK'
  BY <1>1, <1>2, <1>4, MovesAssumption DEF SnapshotTypeOK, Moves
<1>11. RejectionOK'
  BY <1>1, <1>2 DEF RejectionOK
<1> QED BY <1>1, <1>6, <1>7, <1>8, <1>9, <1>10, <1>11, SnapshotParts

-----------------------------------------------------------------------------
(* The page *)

(* It changes, and nobody signs in. *)
LEMMA PageMoves ==
    ASSUME NEW owner, Snapshot(owner), slot' = slot, writing' \subseteq writing,
           dropping' \subseteq {2, 3},
           cookie' = cookie \/ cookie' = Empty, moves' = moves \/ Moves,
           BootsOK(owner)', boot' \in [Boots -> Boot],
           tab' \in Tab, stored' \in Stored, PageOK(owner)', rejected' \in BOOLEAN, RejectionOK'
    PROVE  Snapshot(owner)'
<1>1. slot' \in [{2, 3} -> Envelope \cup {Empty}] /\ \A s \in {2, 3} : Fades(s)
  BY DEF Snapshot, SnapshotTypeOK, Fades
<1>2. EnvelopesOK(owner)' /\ SavesOK'
  BY <1>1, EnvelopesKept
<1>3. SnapshotTypeOK'
  BY <1>1, MovesAssumption DEF Snapshot, SnapshotTypeOK, Moves
<1>4. owner \in Assignments
  BY DEF Snapshot
<1> QED BY <1>2, <1>3, <1>4, SnapshotParts

LEMMA NoDataIsOf == NoData \in Data /\ \A who : Of(NoData, who)
BY DEF NoData, Data, Of

LEMMA NewTabIs ==
    /\ NewTab \in Tab /\ NewTab.screen = "login" /\ NewTab.status = "unauthenticated"
    /\ NewTab.user = Empty /\ NewTab.mounted = Empty /\ NewTab.shown = NoData
BY NoDataIsOf DEF NewTab, Tab

(* What a purge leaves *)
LEMMA RejectsIs ==
    ASSUME NEW tokens \in SUBSET (0 .. MaxMoves), Rejects(tokens)
    PROVE  /\ stored' \in Stored /\ stored'.token \in tokens /\ stored'.who = Empty
           /\ dropping' = {2, 3} /\ rejected' = TRUE
<1>1. PICK t \in tokens : stored' = [Forgotten EXCEPT !.token = t]
  BY DEF Rejects, Purged
<1>2. Forgotten \in Stored /\ Forgotten.who = Empty
  <2>1. 0 \in 0 .. MaxMoves
    BY MovesAssumption
  <2> QED BY <2>1 DEF Forgotten, Stored
<1>3. stored' \in Stored /\ stored'.token = t /\ stored'.who = Empty
  BY <1>1, <1>2 DEF Stored
<1> QED BY <1>3 DEF Rejects

LEMMA Expiring ==
    ASSUME NEW owner, Snapshot(owner), Expires, UNCHANGED <<slot, writing>>,
           cookie' = cookie \/ cookie' = Empty, moves' = moves \/ Moves,
           boot' = boot \/ \E b \in Boots : boot' = [boot EXCEPT ![b] = NoBoot]
    PROVE  Snapshot(owner)'
<1>1. 0 \in 0 .. MaxMoves /\ 0 \in 0 .. moves'
  BY MovesAssumption DEF Snapshot, SnapshotTypeOK, Moves
<1>2. {0} \in SUBSET (0 .. MaxMoves) /\ Rejects({0})
  BY <1>1 DEF Expires
<1>3. stored' \in Stored /\ stored'.token = 0 /\ stored'.who = Empty /\ dropping' = {2, 3} /\ rejected' = TRUE
  BY <1>2, RejectsIs
<1>4. tab \in Tab /\ PageOK(owner) /\ boot \in [Boots -> Boot]
  BY DEF Snapshot, SnapshotTypeOK, SnapshotOwned
<1>5. /\ tab' \in Tab /\ tab'.screen = "leaving" /\ tab'.status = tab.status /\ tab'.user = tab.user
      /\ tab'.mounted = tab.mounted /\ tab'.shown = tab.shown
  BY <1>4 DEF Expires, Tab
<1>6. /\ BootsOK(owner)' /\ boot' \in [Boots -> Boot]
      /\ \A c \in Boots : boot'[c] = boot[c] \/ boot'[c] = NoBoot
  <2>1. CASE boot' = boot
    BY <1>4, <2>1, BootsKept
  <2>2. ASSUME NEW b \in Boots, boot' = [boot EXCEPT ![b] = NoBoot]
        PROVE  /\ BootsOK(owner)' /\ boot' \in [Boots -> Boot]
               /\ \A c \in Boots : boot'[c] = boot[c] \/ boot'[c] = NoBoot
    BY <2>2, NoBootOK, BootMoves
  <2> QED BY <2>1, <2>2
<1>7. tab'.mounted # Empty => MountOK(owner, boot[tab.mounted])'
  <2> SUFFICES ASSUME tab.mounted # Empty PROVE MountOK(owner, boot[tab.mounted])'
    BY <1>5
  <2>1. tab.mounted \in Boots
    BY <1>4 DEF Tab
  <2>2. MountOK(owner, boot'[tab.mounted])
    BY <1>4, <1>6, <2>1, NoBootOK DEF PageOK
  <2> QED BY <1>5, <2>2 DEF MountOK
<1>8. PageOK(owner)'
  <2>1. Of(tab.shown, tab.user)'
    BY <1>4, <1>5 DEF PageOK, Of
  <2> QED BY <1>1, <1>3, <1>4, <1>5, <1>7, <2>1 DEF PageOK
<1>9. RejectionOK'
  BY <1>3, <1>5 DEF RejectionOK
<1> QED BY <1>3, <1>5, <1>6, <1>8, <1>9, PageMoves

LEMMA Expirations ==
    ASSUME NEW owner, Snapshot(owner), SignOut \/ Unauthorized \/ \E b \in Boots : Refused(b)
    PROVE  Snapshot(owner)'
BY Expiring DEF SignOut, Unauthorized, Refused, BootEnds

LEMMA Leaves ==
    ASSUME NEW owner, Snapshot(owner), Leave
    PROVE  Snapshot(owner)'
<1>1. /\ UNCHANGED <<cookie, stored, slot, boot, writing, dropping, moves, rejected>>
      /\ tab' = [NewTab EXCEPT !.goal = tab.goal] /\ tab \in Tab /\ stored \in Stored
      /\ dropping \subseteq {2, 3} /\ boot \in [Boots -> Boot] /\ rejected \in BOOLEAN
      /\ PageOK(owner) /\ RejectionOK
  BY DEF Leave, Snapshot, SnapshotTypeOK, SnapshotOwned
<1>2. /\ tab' \in Tab /\ tab'.screen = "login" /\ tab'.status = "unauthenticated"
      /\ tab'.mounted = Empty /\ tab'.shown = NoData
  BY <1>1, NewTabIs DEF Tab
<1>3. BootsOK(owner)'
  BY <1>1, BootsKept
<1>4. PageOK(owner)'
  <2>1. Of(tab.shown, tab.user)'
    BY <1>2, NoDataIsOf DEF Of
  <2> QED BY <1>1, <1>2, <2>1 DEF PageOK
<1>5. RejectionOK'
  BY <1>1, <1>2 DEF RejectionOK
<1> QED BY <1>1, <1>2, <1>3, <1>4, <1>5, PageMoves

LEMMA Selects ==
    ASSUME NEW owner, Snapshot(owner), NEW place \in Places, Select(place)
    PROVE  Snapshot(owner)'
<1>1. PICK h \in {Empty, tab.header} :
          tab' = [tab EXCEPT !.screen = "switching", !.mounted = Empty, !.shown = NoData,
                             !.goal = place, !.header = h]
  BY DEF Select
<1>2. /\ UNCHANGED <<cookie, slot, boot, writing, rejected>> /\ Moves /\ dropping' = {2, 3}
      /\ stored' = [stored EXCEPT !.where = Empty] /\ tab.screen = "open"
      /\ tab \in Tab /\ stored \in Stored /\ boot \in [Boots -> Boot] /\ rejected \in BOOLEAN
      /\ PageOK(owner) /\ RejectionOK /\ moves \in 0 .. MaxMoves
  BY DEF Select, Snapshot, SnapshotTypeOK, SnapshotOwned
<1>3. /\ tab' \in Tab /\ tab'.screen = "switching" /\ tab'.status = tab.status
      /\ tab'.user = tab.user /\ tab'.mounted = Empty /\ tab'.shown = NoData
  BY <1>1, <1>2, NoDataIsOf DEF Tab
<1>4. stored' \in Stored /\ stored'.token = stored.token /\ stored'.who = stored.who
  BY <1>2 DEF Stored
<1>5. BootsOK(owner)'
  BY <1>2, BootsKept
<1>6. PageOK(owner)'
  <2>1. Of(tab.shown, tab.user)'
    BY <1>3, NoDataIsOf DEF Of
  <2>2. stored'.token \in 0 .. moves'
    BY <1>2, <1>4 DEF PageOK, Moves
  <2> QED BY <1>2, <1>3, <1>4, <2>1, <2>2 DEF PageOK
<1>7. RejectionOK'
  BY <1>2, <1>3 DEF RejectionOK
<1> QED BY <1>2, <1>3, <1>4, <1>5, <1>6, <1>7, PageMoves

(* The providers of a workspace mount: their boot is of the page's person. *)
LEMMA BegunIs ==
    ASSUME NEW owner, Snapshot(owner), NEW t \in Tab, NEW s \in Stored,
           t.user = tab.user, t.status = tab.status, s.token = stored.token, s.who = stored.who,
           tab.screen \in {"choosing", "open", "switching"}
    PROVE  /\ Begun(t, s) \in Boot /\ BootOK(owner, Begun(t, s)) /\ MountOK(owner, Begun(t, s))
<1> DEFINE o == Begun(t, s)
<1>1. /\ PageOK(owner) /\ tab \in Tab /\ stored \in Stored /\ stored.who = tab.user
      /\ stored.token \in 0 .. moves /\ moves \in 0 .. MaxMoves
      /\ tab.status = "authenticated" => cookie \in {Empty, tab.user}
  BY DEF Snapshot, SnapshotTypeOK, SnapshotOwned, PageOK
<1>2. tab.status = "authenticated" /\ stored.token # 0 => owner[stored.token] = tab.user
  BY <1>1 DEF PageOK
<1>3. /\ NoBoot \in Boot /\ BootOK(owner, NoBoot) /\ MountOK(owner, NoBoot)
      /\ NoBoot.cached = NoData /\ NoBoot.from = Empty /\ NoBoot.todo = {}
  BY NoBootOK DEF NoBoot
<1>4. CASE t.status = "authenticated"
  <2> DEFINE stage == IF s.token = 0 THEN "send" ELSE "preload"
             who == IF s.where = Empty THEN Empty ELSE t.user
             q == [NoBoot EXCEPT !.stage = stage, !.token = s.token, !.who = who, !.where = s.where]
  <2>1. o = q
    BY <1>4 DEF Begun
  <2>2. /\ stage \in {"send", "preload"} /\ (stage = "preload" => s.token # 0)
        /\ who \in {Empty, tab.user} /\ who \in People \cup {Empty}
        /\ s.token \in 0 .. MaxMoves /\ s.where \in Places \cup {Empty}
    BY DEF Tab, Stored
  <2> HIDE DEF stage, who
  <2>3. /\ q \in Boot /\ q.stage = stage /\ q.token = s.token /\ q.who = who
        /\ q.cached = NoData /\ q.from = Empty /\ q.todo = {}
    BY <1>3, <2>2 DEF Boot
  <2> HIDE DEF q
  <2>4. BootOK(owner, q)
    <3>1. Of(q.cached, owner[q.token])
      BY <2>3, NoDataIsOf
    <3>2. q.token # 0 => owner[q.token] = tab.user
      BY <1>2, <1>4, <2>3
    <3>3. q.stage \notin {"migrate", "backfill"} /\ (q.stage = "preload" => q.token # 0)
      BY <2>2, <2>3
    <3> QED BY <1>1, <1>4, <2>2, <2>3, <3>1, <3>2, <3>3 DEF BootOK
  <2>5. MountOK(owner, q)
    BY <1>2, <1>4, <2>2, <2>3 DEF MountOK
  <2> QED BY <2>1, <2>3, <2>4, <2>5
<1>5. CASE t.status # "authenticated" /\ s.who # Empty /\ s.where # Empty
  <2> DEFINE q == [NoBoot EXCEPT !.stage = "offline", !.who = s.who, !.where = s.where]
  <2>1. o = q
    BY <1>5 DEF Begun
  <2>2. NoBoot.token = 0 /\ s.who \in People \cup {Empty} /\ s.where \in Places \cup {Empty}
    BY DEF NoBoot, Stored
  <2>3. /\ q \in Boot /\ q.stage = "offline" /\ q.token = 0 /\ q.who = tab.user
        /\ q.cached = NoData /\ q.from = Empty /\ q.todo = {}
    BY ZenonT(60), <1>1, <1>3, <2>2 DEF Boot
  <2> HIDE DEF q
  <2>4. BootOK(owner, q) /\ MountOK(owner, q)
    BY <1>1, <2>3 DEF BootOK, MountOK
  <2> QED BY <2>1, <2>3, <2>4
<1>6. CASE t.status # "authenticated" /\ ~(s.who # Empty /\ s.where # Empty)
  BY <1>3, <1>6 DEF Begun
<1> QED BY <1>4, <1>5, <1>6

LEMMA Mounting ==
    ASSUME NEW owner, Snapshot(owner), NEW b \in Boots, NEW t \in Tab, NEW s \in Stored,
           t.user = tab.user, t.status = tab.status, s.token = stored.token, s.who = stored.who,
           tab.screen \in {"choosing", "open", "switching"}, Mounts(b, t, s),
           UNCHANGED <<cookie, slot, writing, dropping, rejected>>, moves' = moves \/ Moves
    PROVE  Snapshot(owner)'
<1> DEFINE o == Begun(t, s)
<1>1. /\ tab \in Tab /\ PageOK(owner) /\ RejectionOK /\ dropping \subseteq {2, 3}
      /\ rejected \in BOOLEAN /\ moves \in 0 .. MaxMoves
  BY DEF Snapshot, SnapshotTypeOK, SnapshotOwned
<1>2. o \in Boot /\ BootOK(owner, o) /\ MountOK(owner, o)
  BY BegunIs
<1>3. boot' = [boot EXCEPT ![b] = o] /\ stored' = s
  BY DEF Mounts
<1>4. boot' \in [Boots -> Boot] /\ boot'[b] = o /\ BootsOK(owner)'
  <2> HIDE DEF o
  <2> QED BY <1>2, <1>3, BootMoves
<1>5. /\ tab' \in Tab /\ tab'.screen = "open" /\ tab'.mounted = b /\ tab'.shown = NoData
      /\ tab'.user = tab.user /\ tab'.status = tab.status
  BY NoDataIsOf DEF Mounts, Tab
<1> HIDE DEF o
<1>6. PageOK(owner)'
  <2>1. Of(tab.shown, tab.user)'
    BY <1>5, NoDataIsOf DEF Of
  <2>2. MountOK(owner, boot[tab.mounted])'
    BY <1>2, <1>4, <1>5 DEF MountOK
  <2>3. stored'.token \in 0 .. moves'
    BY <1>1, <1>3 DEF PageOK, Moves
  <2> QED BY <1>1, <1>3, <1>5, <2>1, <2>2, <2>3 DEF PageOK
<1>7. RejectionOK'
  BY <1>1, <1>5 DEF RejectionOK
<1> QED BY <1>1, <1>3, <1>4, <1>5, <1>6, <1>7, PageMoves

LEMMA Enters ==
    ASSUME NEW owner, Snapshot(owner), NEW b \in Boots,
           Enter(b) \/ \E w \in Places : Refresh(b, w)
    PROVE  Snapshot(owner)'
<1>1. tab \in Tab /\ stored \in Stored /\ SnapshotTypeOK
  BY DEF Snapshot, SnapshotTypeOK
<1>2. /\ tab.screen \in {"choosing", "open"} /\ UNCHANGED <<cookie, slot, writing, dropping, rejected>>
      /\ moves' = moves \/ Moves
  BY DEF Enter, Refresh
<1>3. ASSUME NEW w \in Places,
             Mounts(b, [tab EXCEPT !.current = w, !.header = w], [stored EXCEPT !.where = w])
      PROVE  Snapshot(owner)'
  <2> DEFINE t == [tab EXCEPT !.current = w, !.header = w]
             s == [stored EXCEPT !.where = w]
  <2>1. /\ t \in Tab /\ t.user = tab.user /\ t.status = tab.status
        /\ s \in Stored /\ s.token = stored.token /\ s.who = stored.who
    BY <1>1 DEF Tab, Stored
  <2>2. Mounts(b, t, s)
    BY <1>3
  <2> HIDE DEF t, s
  <2> QED BY <1>2, <2>1, <2>2, Mounting
<1>4. CASE Mounts(b, tab, stored)
  BY <1>1, <1>2, <1>4, Mounting
<1> QED BY <1>3, <1>4 DEF Enter, Refresh

LEMMA Arrives ==
    ASSUME NEW owner, Snapshot(owner), NEW b \in Boots, Arrive(b)
    PROVE  Snapshot(owner)'
<1> DEFINE t == [tab EXCEPT !.goal = Empty, !.current = tab.goal, !.header = tab.goal]
           s == [stored EXCEPT !.where = tab.goal]
<1>1. /\ tab \in Tab /\ stored \in Stored /\ dropping \subseteq {2, 3} /\ rejected \in BOOLEAN
      /\ boot \in [Boots -> Boot] /\ PageOK(owner) /\ RejectionOK
      /\ UNCHANGED <<cookie, slot, writing, dropping, moves, rejected>>
  BY DEF Arrive, Snapshot, SnapshotTypeOK, SnapshotOwned
<1>2. /\ t \in Tab /\ t.user = tab.user /\ t.status = tab.status /\ t.screen = tab.screen
      /\ t.mounted = tab.mounted /\ t.shown = tab.shown
      /\ s \in Stored /\ s.token = stored.token /\ s.who = stored.who
  BY <1>1 DEF Tab, Stored
<1>3. CASE tab.screen = "switching"
  <2>1. Mounts(b, t, s)
    BY <1>3 DEF Arrive
  <2> HIDE DEF t, s
  <2> QED BY <1>1, <1>2, <1>3, <2>1, Mounting
<1>4. CASE tab.screen # "switching"
  <2>1. tab' = [t EXCEPT !.current = tab.current] /\ stored' = s /\ boot' = boot
    BY <1>4 DEF Arrive
  <2> HIDE DEF t, s
  <2>2. /\ tab' \in Tab /\ tab'.user = tab.user /\ tab'.status = tab.status
        /\ tab'.screen = tab.screen /\ tab'.mounted = tab.mounted /\ tab'.shown = tab.shown
    BY <1>1, <1>2, <2>1 DEF Tab
  <2>3. BootsOK(owner)'
    BY <1>1, <2>1, BootsKept
  <2>4. PageOK(owner)'
    <3>1. Of(tab.shown, tab.user)'
      BY <1>1, <2>2 DEF PageOK, Of
    <3>2. tab'.mounted # Empty => MountOK(owner, boot[tab.mounted])'
      BY <1>1, <2>1, <2>2 DEF PageOK, MountOK
    <3> QED BY <1>1, <1>2, <2>1, <2>2, <3>1, <3>2 DEF PageOK
  <2>5. RejectionOK'
    BY <1>1, <1>2, <2>1, <2>2 DEF RejectionOK
  <2> QED BY <1>1, <1>2, <2>1, <2>2, <2>3, <2>4, <2>5, PageMoves
<1> QED BY <1>3, <1>4

LEMMA Reloads ==
    ASSUME NEW owner, Snapshot(owner), Reload
    PROVE  Snapshot(owner)'
<1>1. /\ tab \in Tab /\ stored \in Stored /\ dropping \subseteq {2, 3} /\ rejected \in BOOLEAN
      /\ cookie \in People \cup {Empty} /\ moves \in 0 .. MaxMoves /\ PageOK(owner)
  BY DEF Snapshot, SnapshotTypeOK, SnapshotOwned
<1>2. /\ Moves /\ boot' = [b \in Boots |-> NoBoot] /\ writing' = {} /\ UNCHANGED <<cookie, slot>>
  BY DEF Reload
<1>3. boot' \in [Boots -> Boot] /\ BootsOK(owner)'
  <2>1. moves' \in Nat /\ 0 \in 0 .. moves'
    BY <1>1, <1>2, MovesAssumption DEF Moves
  <2>2. \A b \in Boots : boot'[b] = NoBoot
    BY <1>2
  <2>3. \A b \in Boots : BootOK(owner, boot[b])'
    BY <2>1, <2>2 DEF NoBoot, BootOK
  <2> QED BY <1>2, <2>3, NoBootOK DEF BootsOK
<1>4. stored.token \in 0 .. MaxMoves /\ 0 \in 0 .. MaxMoves /\ moves' \in 0 .. MaxMoves
      /\ \A n \in 0 .. moves : n \in 0 .. moves'
  BY <1>1, <1>2, MovesAssumption DEF Stored, Moves
(* Each case has these three to show. *)
<1>5. ASSUME /\ tab' \in Tab /\ stored' \in Stored /\ dropping' \subseteq {2, 3}
             /\ rejected' \in BOOLEAN /\ RejectionOK'
             /\ tab'.mounted = Empty /\ tab'.shown = NoData
             /\ stored'.token \in {0, stored.token}
             /\ tab'.screen \in {"login", "leaving", "choosing"}
             /\ tab'.screen = "choosing" => stored'.who = tab'.user
             /\ tab'.status = "authenticated" => /\ cookie # Empty /\ tab'.user = cookie
                                                /\ tab'.screen = "choosing"
      PROVE  Snapshot(owner)'
  <2>1. Of(tab.shown, tab.user)'
    BY <1>5, NoDataIsOf DEF Of
  <2>2. stored'.token \in 0 .. moves'
    BY <1>1, <1>4, <1>5 DEF PageOK
  <2>3. stored'.token # 0 /\ cookie' # Empty => cookie' = owner[stored'.token]
    BY <1>1, <1>2, <1>5 DEF PageOK
  <2>4. PageOK(owner)'
    BY <1>2, <1>5, <2>1, <2>2, <2>3 DEF PageOK
  <2> QED BY <1>2, <1>3, <1>5, <2>4, PageMoves
<1>6. CASE /\ cookie # Empty
           /\ stored' \in {[stored EXCEPT !.who = cookie],
                           [stored EXCEPT !.who = cookie, !.token = 0]}
           /\ tab' = [NewTab EXCEPT !.screen = "choosing", !.status = "authenticated",
                                    !.user = cookie]
           /\ dropping' = {} /\ rejected' = FALSE
  <2>1. /\ tab' \in Tab /\ tab'.mounted = Empty /\ tab'.shown = NoData /\ tab'.screen = "choosing"
        /\ tab'.user = cookie
    BY <1>1, <1>6, NewTabIs DEF Tab
  <2>2. stored' \in Stored /\ stored'.token \in {0, stored.token} /\ stored'.who = cookie
    BY <1>1, <1>4, <1>6 DEF Stored
  <2>3. RejectionOK'
    BY <1>6 DEF RejectionOK
  <2> QED BY <1>5, <1>6, <2>1, <2>2, <2>3
<1>7. CASE cookie = Empty /\ tab' = [NewTab EXCEPT !.screen = "leaving"] /\ Rejects({0, stored.token})
  <2>1. /\ tab' \in Tab /\ tab'.mounted = Empty /\ tab'.shown = NoData /\ tab'.screen = "leaving"
        /\ tab'.status = "unauthenticated"
    BY <1>7, NewTabIs DEF Tab
  <2>2. {0, stored.token} \in SUBSET (0 .. MaxMoves)
    BY <1>4
  <2>3. /\ stored' \in Stored /\ stored'.token \in {0, stored.token} /\ stored'.who = Empty
        /\ dropping' = {2, 3} /\ rejected' = TRUE
    BY <1>7, <2>2, RejectsIs
  <2>4. RejectionOK'
    BY <2>1, <2>3 DEF RejectionOK
  <2> QED BY <1>5, <2>1, <2>3, <2>4
<1>8. CASE /\ tab' = IF Readable(stored.who, stored.where)
                     THEN [NewTab EXCEPT !.screen = "choosing", !.status = "unreachable",
                                         !.user = stored.who]
                     ELSE [NewTab EXCEPT !.status = "unreachable"]
           /\ dropping' = {} /\ UNCHANGED <<stored, rejected>>
  <2>1. CASE Readable(stored.who, stored.where)
    <3>1. /\ tab' \in Tab /\ tab'.mounted = Empty /\ tab'.shown = NoData
          /\ tab'.screen = "choosing" /\ tab'.user = stored.who /\ tab'.status = "unreachable"
      BY <1>1, <1>8, <2>1, NewTabIs DEF Tab, Stored
    <3>2. stored.who # Empty
      BY <2>1 DEF Readable
    <3>3. RejectionOK'
      BY <1>8, <3>2 DEF RejectionOK, Snapshot
    <3> QED BY <1>1, <1>5, <1>8, <3>1, <3>3
  <2>2. CASE ~Readable(stored.who, stored.where)
    <3>1. /\ tab' \in Tab /\ tab'.mounted = Empty /\ tab'.shown = NoData
          /\ tab'.screen = "login" /\ tab'.status = "unreachable"
      BY <1>8, <2>2, NewTabIs DEF Tab
    <3>2. RejectionOK'
      BY <1>8, <3>1 DEF RejectionOK, Snapshot
    <3> QED BY <1>1, <1>5, <1>8, <3>1, <3>2
  <2> QED BY <2>1, <2>2
<1> QED BY <1>6, <1>7, <1>8 DEF Reload

-----------------------------------------------------------------------------
(* Somebody signs in: the new token is that person's. *)

LEMMA TokenGiven ==
    ASSUME NEW owner, Snapshot(owner), NEW u \in People, Moves, Dispatched,
           UNCHANGED <<slot, boot, writing>>, NEW given, given = [owner EXCEPT ![moves'] = u]
    PROVE  /\ given \in Assignments /\ given[moves'] = u
           /\ EnvelopesOK(given)' /\ BootsOK(given)' /\ SavesOK'
<1>1. /\ moves \in 0 .. MaxMoves /\ moves' = moves + 1 /\ moves' \in 1 .. MaxMoves
      /\ owner \in Assignments /\ moves \notin {moves'}
  BY MovesAssumption DEF Snapshot, SnapshotTypeOK, Moves
<1>2. given \in Assignments /\ given[moves'] = u
  BY <1>1 DEF Assignments
<1>3. \A n \in 1 .. moves : n \in 1 .. moves' /\ given[n] = owner[n]
  BY <1>1 DEF Assignments
<1>4. \A n \in 0 .. moves : n \in 0 .. moves' /\ (n # 0 => n \in 1 .. moves)
  BY <1>1
<1>5. EnvelopesOK(given)'
  <2>1. ASSUME NEW s, NEW e, EnvelopeOK(owner, s, e)
        PROVE  /\ s = 2 => e.token \in 1 .. moves' /\ Of(e.data, given[e.token])
               /\ s = 3 => Of(e.data, e.who)
    BY <1>3, <2>1 DEF EnvelopeOK
  <2>2. \A w \in writing' : EnvelopeOK(given, w.slot, w.env)'
    BY <2>1 DEF Snapshot, SnapshotOwned, EnvelopesOK, EnvelopeOK, Of
  <2>3. \A s \in {2, 3} : slot'[s] # Empty => EnvelopeOK(given, s, slot[s])'
    BY <2>1 DEF Snapshot, SnapshotOwned, EnvelopesOK, EnvelopeOK, Of
  <2> QED BY <2>2, <2>3 DEF EnvelopesOK
<1>6. BootsOK(given)'
  <2> SUFFICES ASSUME NEW b \in Boots PROVE BootOK(given, boot[b])'
    BY DEF BootsOK
  <2> DEFINE o == boot[b]
  <2>1. BootOK(owner, o) /\ o.stage \notin {"preload", "send"} /\ boot'[b] = o
    BY DEF Snapshot, SnapshotOwned, BootsOK, Dispatched
  <2> HIDE DEF o
  <2>2. o.token \in 0 .. moves' /\ (o.token # 0 => given[o.token] = owner[o.token])
    BY <1>3, <1>4, <2>1 DEF BootOK
  <2> QED BY <2>1, <2>2 DEF BootOK, Of
<1>7. SavesOK'
  BY DEF Snapshot, SavesOK, Owned
<1> QED BY <1>2, <1>5, <1>6, <1>7

LEMMA SignsIn ==
    ASSUME NEW owner, Snapshot(owner), NEW u \in People, SignIn(u)
    PROVE  \E given \in Assignments : Snapshot(given)'
<1>0. PICK given : given = [owner EXCEPT ![moves'] = u]
  OBVIOUS
<1>1. /\ tab \in Tab /\ stored \in Stored /\ dropping \subseteq {2, 3} /\ rejected \in BOOLEAN
      /\ slot \in [{2, 3} -> Envelope \cup {Empty}] /\ boot \in [Boots -> Boot] /\ writing \subseteq Save
      /\ cookie \in People \cup {Empty} /\ moves \in 0 .. MaxMoves /\ PageOK(owner)
      /\ RejectionOK /\ owner \in Assignments
  BY DEF Snapshot, SnapshotTypeOK, SnapshotOwned
<1>2. /\ Moves /\ Dispatched /\ tab.screen = "login" /\ UNCHANGED <<slot, boot, writing>>
  BY DEF SignIn
<1>3. /\ tab.mounted = Empty /\ tab.shown = NoData /\ tab.status # "authenticated"
  BY <1>1, <1>2 DEF PageOK
<1>4. /\ given \in Assignments /\ given[moves'] = u
      /\ EnvelopesOK(given)' /\ BootsOK(given)' /\ SavesOK'
  BY <1>0, <1>2, TokenGiven
<1>5. moves' \in 1 .. MaxMoves /\ moves' \in 0 .. MaxMoves /\ moves' \in 0 .. moves'
  BY <1>1, <1>2, MovesAssumption DEF Moves
<1>6. ASSUME /\ cookie' = u /\ tab' \in Tab /\ stored' \in Stored /\ dropping' \subseteq {2, 3}
             /\ rejected' \in BOOLEAN /\ RejectionOK' /\ stored'.token = moves'
             /\ tab'.mounted = Empty /\ tab'.shown = NoData
             /\ \/ tab'.screen = "choosing" /\ tab'.user = u /\ stored'.who = u
                \/ tab'.screen = "login" /\ tab'.status = "unreachable"
      PROVE  \E g \in Assignments : Snapshot(g)'
  <2>1. Of(tab.shown, tab.user)'
    BY <1>6, NoDataIsOf DEF Of
  <2>2. PageOK(given)'
    BY <1>4, <1>5, <1>6, <2>1 DEF PageOK
  <2>3. SnapshotTypeOK'
    BY <1>1, <1>2, <1>5, <1>6 DEF SnapshotTypeOK
  <2>4. Snapshot(given)'
    BY <1>4, <1>6, <2>2, <2>3, SnapshotParts
  <2> QED BY <1>4, <2>4
<1>7. CASE /\ cookie' = u /\ stored' = [stored EXCEPT !.token = moves', !.who = u]
           /\ tab' = [tab EXCEPT !.screen = "choosing", !.status = "authenticated",
                                 !.user = u, !.header = Empty]
           /\ rejected' = FALSE /\ UNCHANGED dropping
  <2>1. /\ tab' \in Tab /\ tab'.screen = "choosing" /\ tab'.user = u /\ tab'.mounted = Empty
        /\ tab'.shown = NoData
    BY ZenonT(60), <1>1, <1>3, <1>7 DEF Tab
  <2>2. stored' \in Stored /\ stored'.token = moves' /\ stored'.who = u
    BY <1>1, <1>5, <1>7 DEF Stored
  <2>3. RejectionOK'
    BY <1>7 DEF RejectionOK
  <2> QED BY <1>1, <1>6, <1>7, <2>1, <2>2, <2>3
<1>8. CASE /\ cookie' = u /\ stored' = [stored EXCEPT !.token = moves']
           /\ tab' = [tab EXCEPT !.status = "unreachable", !.header = Empty]
           /\ UNCHANGED <<dropping, rejected>>
  <2>1. /\ tab' \in Tab /\ tab'.screen = "login" /\ tab'.status = "unreachable"
        /\ tab'.mounted = Empty /\ tab'.shown = NoData
    BY <1>1, <1>2, <1>3, <1>8 DEF Tab
  <2>2. stored' \in Stored /\ stored'.token = moves' /\ stored'.who = stored.who
    BY <1>1, <1>5, <1>8 DEF Stored
  <2>3. RejectionOK'
    BY <1>1, <1>8, <2>1, <2>2 DEF RejectionOK
  <2> QED BY <1>1, <1>6, <1>8, <2>1, <2>2, <2>3
<1>9. CASE /\ cookie' = Empty
           /\ tab' = [tab EXCEPT !.screen = "leaving", !.header = Empty]
           /\ Rejects({0})
  <2>1. /\ tab' \in Tab /\ tab'.screen = "leaving" /\ tab'.mounted = Empty /\ tab'.shown = NoData
        /\ tab'.status = tab.status
    BY <1>1, <1>3, <1>9 DEF Tab
  <2>2. {0} \in SUBSET (0 .. MaxMoves) /\ 0 \in 0 .. moves'
    BY <1>5, MovesAssumption
  <2>3. /\ stored' \in Stored /\ stored'.token = 0 /\ stored'.who = Empty
        /\ dropping' = {2, 3} /\ rejected' = TRUE
    BY <1>9, <2>2, RejectsIs
  <2>4. Of(tab.shown, tab.user)'
    BY <2>1, NoDataIsOf DEF Of
  <2>5. PageOK(owner)'
    BY <1>3, <1>9, <2>1, <2>2, <2>3, <2>4 DEF PageOK
  <2>6. RejectionOK'
    BY <2>1, <2>3 DEF RejectionOK
  <2>7. BootsOK(owner)'
    BY <1>2, <1>9, BootsKept
  <2>8. Snapshot(owner)'
    BY <1>1, <1>2, <1>9, <2>1, <2>3, <2>5, <2>6, <2>7, PageMoves
  <2> QED BY <1>1, <2>8
<1> QED BY <1>7, <1>8, <1>9 DEF SignIn

-----------------------------------------------------------------------------
(* The invariant *)

LEMMA SnapshotStarts == SnapshotInit => SnapshotInv
<1> SUFFICES ASSUME SnapshotInit PROVE SnapshotInv
  OBVIOUS
<1>1. moves = 0 /\ 0 \in 0 .. MaxMoves /\ 0 \in 0 .. moves
  BY MovesAssumption DEF SnapshotInit
<1>2. /\ tab \in Tab /\ tab.screen = "login" /\ tab.status = "unauthenticated"
      /\ tab.mounted = Empty /\ tab.shown = NoData
  BY NewTabIs DEF SnapshotInit
<1>3. stored \in Stored /\ stored.token = 0 /\ stored.who = Empty
  BY <1>1 DEF SnapshotInit, Forgotten, Stored
<1>4. NoBoot \in Boot
  BY <1>1, NoDataIsOf DEF NoBoot, Boot
<1>5. SnapshotTypeOK
  BY <1>1, <1>2, <1>3, <1>4 DEF SnapshotInit, SnapshotTypeOK
<1>6. SavesOK /\ RejectionOK
  BY DEF SnapshotInit, SavesOK, RejectionOK
<1> DEFINE owner == [n \in 1 .. MaxMoves |-> Empty]
<1>7. owner \in Assignments
  BY DEF Assignments
<1> HIDE DEF owner
<1>8. EnvelopesOK(owner)
  BY DEF SnapshotInit, EnvelopesOK
<1>9. BootsOK(owner)
  <2>1. BootOK(owner, NoBoot)
    BY <1>1 DEF NoBoot, BootOK
  <2> QED BY <2>1 DEF SnapshotInit, BootsOK
<1>10. PageOK(owner)
  <2>1. Of(tab.shown, tab.user)
    BY <1>2, NoDataIsOf
  <2> QED BY <1>1, <1>2, <1>3, <2>1 DEF PageOK
<1> QED BY <1>5, <1>6, <1>7, <1>8, <1>9, <1>10 DEF SnapshotInv, SnapshotOwned

LEMMA SnapshotStays ==
    ASSUME NEW owner, Snapshot(owner), UNCHANGED snapshotVars
    PROVE  Snapshot(owner)'
<1>1. SnapshotTypeOK'
  BY DEF Snapshot, SnapshotTypeOK, snapshotVars
<1>2. slot' \in [{2, 3} -> Envelope \cup {Empty}] /\ \A s \in {2, 3} : Fades(s)
  BY DEF Snapshot, SnapshotTypeOK, snapshotVars, Fades
<1>3. dropping' \subseteq {2, 3}
  BY <1>1 DEF SnapshotTypeOK
<1> QED BY <1>2, <1>3, Backstage DEF snapshotVars

LEMMA BootSteps ==
    ASSUME NEW owner, Snapshot(owner), NEW b \in Boots, BootStep(b)
    PROVE  Snapshot(owner)'
<1>1. CASE Preload(b)
  BY <1>1, Preloads
<1>2. CASE Send(b)
  BY <1>2, Sendings
<1>3. CASE Refused(b)
  BY <1>3, Expirations
<1>4. ASSUME NEW got \in SUBSET Domains, Load(b, got)
      PROVE  Snapshot(owner)'
  BY <1>4, Loads
<1>5. CASE Stamp(b)
  BY <1>5, Stamps
<1>6. CASE TakeTurn(b)
  BY <1>6, TakesTurn
<1>7. CASE Saved(b)
  BY <1>7, Saves
<1>8. CASE Migrate(b) \/ Migrated(b)
  BY <1>8, Migrates
<1>9. CASE Backfill(b)
  BY <1>9, Backfills
<1>10. CASE OfflineRead(b)
  BY <1>10, ReadsOffline
<1> QED BY <1>1, <1>2, <1>3, <1>4, <1>5, <1>6, <1>7, <1>8, <1>9, <1>10 DEF BootStep

LEMMA SnapshotSteps == SnapshotInv /\ [SnapshotNext]_snapshotVars => SnapshotInv'
<1> SUFFICES ASSUME SnapshotInv, [SnapshotNext]_snapshotVars PROVE SnapshotInv'
  OBVIOUS
<1>1. PICK owner \in Assignments : Snapshot(owner)
  BY DEF SnapshotInv, Snapshot
<1>2. \E given \in Assignments : Snapshot(given)'
  <2>1. CASE Reload
    BY <1>1, <2>1, Reloads
  <2>2. ASSUME NEW u \in People, SignIn(u)
        PROVE  \E given \in Assignments : Snapshot(given)'
    BY <1>1, <2>2, SignsIn
  <2>3. CASE SignOut \/ Unauthorized
    BY <1>1, <2>3, Expirations
  <2>4. CASE Leave
    BY <1>1, <2>4, Leaves
  <2>5. ASSUME NEW w \in Places, Select(w)
        PROVE  \E given \in Assignments : Snapshot(given)'
    BY <1>1, <2>5, Selects
  <2>6. ASSUME NEW b \in Boots, Enter(b) \/ \E w \in Places : Refresh(b, w)
        PROVE  \E given \in Assignments : Snapshot(given)'
    BY <1>1, <2>6, Enters
  <2>7. ASSUME NEW b \in Boots, Arrive(b)
        PROVE  \E given \in Assignments : Snapshot(given)'
    BY <1>1, <2>7, Arrives
  <2>8. ASSUME NEW b \in Boots, BootStep(b)
        PROVE  \E given \in Assignments : Snapshot(given)'
    BY <1>1, <2>8, BootSteps
  <2>9. ASSUME NEW s \in {2, 3}, Delete(s) \/ GrowOld(s)
        PROVE  \E given \in Assignments : Snapshot(given)'
    BY <1>1, <2>9, Deletes
  <2>10. ASSUME NEW w \in writing, Put(w)
         PROVE  \E given \in Assignments : Snapshot(given)'
    BY <1>1, <2>10, Puts
  <2>11. CASE SessionEnds
    BY <1>1, <2>11, EndsSession
  <2>12. CASE UNCHANGED snapshotVars
    BY <1>1, <2>12, SnapshotStays
  <2> QED BY <2>1, <2>2, <2>3, <2>4, <2>5, <2>6, <2>7, <2>8, <2>9, <2>10, <2>11, <2>12
       DEF SnapshotNext
<1> QED BY <1>2 DEF Snapshot, SnapshotInv

THEOREM SnapshotInvariance == SnapshotSpec => []SnapshotInv
<1> QED BY SnapshotStarts, SnapshotSteps, PTL DEF SnapshotSpec

(* Every variable of the browser keeps its type. *)
THEOREM SnapshotTypes == SnapshotSpec => []SnapshotTypeOK
<1>1. SnapshotInv => SnapshotTypeOK
  BY DEF SnapshotInv
<1> QED BY <1>1, SnapshotInvariance, PTL

(* Whatever boots of sessions that are over still save, and whatever purge  *)
(* failed, the page shows a person what the server gave to that person      *)
(* (readV2Snapshot, preloadV3Snapshot, migrateV2toV3).                      *)
THEOREM ShownToOwner == SnapshotSpec => []ShownIsOfPerson
<1>1. SnapshotInv => ShownIsOfPerson
  BY DEF SnapshotInv, SnapshotOwned, PageOK, Of, ShownIsOfPerson
<1> QED BY <1>1, SnapshotInvariance, PTL

(* After a rejection no failure of the network opens the snapshot until a   *)
(* session is confirmed (clearSensitiveSession, AuthGate).                  *)
THEOREM RejectionCloses == SnapshotSpec => []RejectedStaysClosed
<1>1. SnapshotInv => RejectedStaysClosed
  BY DEF SnapshotInv, RejectionOK, RejectedStaysClosed
<1> QED BY <1>1, SnapshotInvariance, PTL

(* What becomes of the envelopes in one step *)
LEMMA EnvelopesMove ==
    ASSUME SnapshotTypeOK, [SnapshotNext]_snapshotVars
    PROVE  Fades(3) \/ \E w \in writing : slot' = [slot EXCEPT ![w.slot] = w.env]
<1>1. slot \in [{2, 3} -> Envelope \cup {Empty}]
  BY DEF SnapshotTypeOK
<1>2. slot' = slot => Fades(3)
  BY DEF Fades
<1>3. \A s \in {2, 3} : slot' = [slot EXCEPT ![s] = Empty] => Fades(3)
  BY <1>1 DEF Fades
<1>4. CASE SignOut \/ Unauthorized \/ Leave \/ SessionEnds \/ Reload \/ UNCHANGED snapshotVars
  BY <1>2, <1>4 DEF SignOut, Unauthorized, Leave, SessionEnds, Reload, snapshotVars
<1>5. CASE \/ \E u \in People : SignIn(u)
           \/ \E w \in Places : Select(w)
           \/ \E b \in Boots : Enter(b) \/ Arrive(b) \/ \E w \in Places : Refresh(b, w)
  BY <1>2, <1>5 DEF SignIn, Select, Enter, Arrive, Refresh
<1>6. ASSUME NEW b \in Boots, BootStep(b)
      PROVE  Fades(3)
  <2>1. CASE \/ Send(b) \/ Refused(b) \/ \E got \in SUBSET Domains : Load(b, got)
             \/ Stamp(b) \/ TakeTurn(b) \/ Saved(b) \/ Backfill(b) \/ OfflineRead(b)
    BY <1>2, <2>1 DEF Send, Refused, Load, Stamp, TakeTurn, Saved, Backfill, OfflineRead
  <2>2. CASE Preload(b) \/ Migrate(b) \/ Migrated(b)
    <3>1. slot' = slot \/ slot' = [slot EXCEPT ![2] = Empty]
      BY <2>2 DEF Preload, Migrate, Migrated
    <3> QED BY <1>2, <1>3, <3>1
  <2> QED BY SMTT(30), <1>6, <2>1, <2>2 DEF BootStep
<1>7. ASSUME NEW s \in {2, 3}, Delete(s) \/ GrowOld(s)
      PROVE  Fades(3)
  <2>1. CASE Delete(s)
    BY <1>2, <1>3, <2>1 DEF Delete
  <2>2. CASE GrowOld(s)
    BY <1>1, <2>2 DEF GrowOld, Fades
  <2> QED BY <1>7, <2>1, <2>2
<1>8. ASSUME NEW w \in writing, Put(w)
      PROVE  Fades(3) \/ slot' = [slot EXCEPT ![w.slot] = w.env]
  BY <1>2, <1>8 DEF Put
<1> QED BY <1>4, <1>5, <1>6, <1>7, <1>8 DEF SnapshotNext

(* While the V3 envelope stays its owner's, no save takes a domain out of   *)
(* it (writeV3Snapshot and backfillV3FromV2 under withWriteLock).           *)
THEOREM SavesNeverLost == SnapshotSpec => SavesAreKept
<1> DEFINE Kept == LET e == slot[3] f == slot'[3]
                   IN e # Empty /\ f # Empty /\ e.who = f.who /\ e.where = f.where
                        => \A d \in Domains : e.data[d] # Empty => f.data[d] # Empty
<1>1. SnapshotInv /\ [SnapshotNext]_snapshotVars => [Kept]_snapshotVars
  <2> SUFFICES ASSUME SnapshotInv, SnapshotNext \/ UNCHANGED snapshotVars,
                      slot[3] # Empty, slot'[3] # Empty,
                      slot[3].who = slot'[3].who, slot[3].where = slot'[3].where,
                      NEW d \in Domains, slot[3].data[d] # Empty
               PROVE  slot'[3].data[d] # Empty
    OBVIOUS
  <2>1. SnapshotTypeOK /\ SavesOK
    BY DEF SnapshotInv
  <2>2. CASE Fades(3)
    BY <2>1, <2>2, FadingKeeps
  <2>3. ASSUME NEW w \in writing, slot' = [slot EXCEPT ![w.slot] = w.env]
        PROVE  slot'[3].data[d] # Empty
    <3>1. w.slot \in {2, 3} /\ slot \in [{2, 3} -> Envelope \cup {Empty}]
      BY <2>1 DEF SnapshotTypeOK, Save
    <3>2. CASE w.slot = 3
      <4>1. slot'[3] = w.env
        BY <2>3, <3>1, <3>2
      <4> QED BY <2>1, <3>2, <4>1 DEF SavesOK, Owned
    <3>3. CASE w.slot = 2
      BY <2>3, <3>1, <3>3
    <3> QED BY <3>1, <3>2, <3>3
  <2> QED BY <2>1, <2>2, <2>3, EnvelopesMove
<1>2. SnapshotSpec => [][Kept]_snapshotVars
  BY <1>1, SnapshotInvariance, PTL DEF SnapshotSpec
<1> QED BY <1>2 DEF SavesAreKept

-----------------------------------------------------------------------------
(***************************************************************************)
(*                               Side by side                              *)
(***************************************************************************)
(* The store and the browser share no state: every behaviour of the two     *)
(* (ApprovalSpec) is one of each, and what was proved of each holds while   *)
(* both are there.                                                          *)
THEOREM ApprovalIsBoth == ApprovalSpec => Spec /\ SnapshotSpec
<1>1. ApprovalInit => Init /\ SnapshotInit
  BY DEF ApprovalInit
<1>2. [ApprovalNext]_approvalVars => [Next]_vars
  BY DEF ApprovalNext, approvalVars
<1>3. [ApprovalNext]_approvalVars => [SnapshotNext]_snapshotVars
  BY DEF ApprovalNext, approvalVars
<1> QED BY <1>1, <1>2, <1>3, PTL DEF ApprovalSpec, Spec, SnapshotSpec

(* ApprovalTypeOK: operations, executions, attestations, envelopes, boots   *)
(* and pages stay within their types and bounds (TypeOK of PendingV2,       *)
(* SnapshotTypeOK).                                                         *)
THEOREM ApprovalTypes == ApprovalSpec => []ApprovalTypeOK
<1>1. TypeOK /\ SnapshotTypeOK => ApprovalTypeOK
  BY DEF ApprovalTypeOK
<1> QED BY <1>1, ApprovalIsBoth, TypeCorrect, SnapshotTypes, PTL

-----------------------------------------------------------------------------
(***************************************************************************)
(*                       From the message to the ledger                    *)
(***************************************************************************)
CONSTANTS Messages, Whats, Accounts, Scripts, Turns,
          MaxProposals,  \* draftMaxProposeAttempts
          MaxTurns
VARIABLES said, draft, turn, reply, late, aged, begun, winners

(* The agent, with the store for its API: what it sees of an operation is   *)
(* the status and the hash of its row.                                      *)
Agent == INSTANCE DraftHandoff_Proofs WITH
    MaxAttempts <- MaxProposals,
    standing    <- Standing,
    content     <- Proposal

(* What DraftHandoff assumes of its constants *)
AgentAssumption ==
    /\ None \notin Messages /\ None \notin Whats /\ None \notin Accounts
    /\ IsFiniteSet(Messages)
    /\ Scripts \subseteq [Messages -> Agent!Saying]
    /\ MaxProposals \in Nat \ {0} /\ MaxTurns \in Nat

(* A transaction was asked for by a message, which described it and whose   *)
(* account some message named for it, and an attestation was consumed.      *)
TransactionsAreMeant ==
    \A e \in ledger : \E via \in {"draft", "turn"}, m \in Messages :
        /\ e.op = <<via, m>>
        /\ Consented(e.op)
        /\ e.hash.what = said[m].what
        /\ \E n \in Messages :
              /\ said[n].account = e.hash.account
              /\ n = m \/ (via = "draft" /\ said[n].what \in {None, e.hash.what}
                                         /\ ~said[n].reset)

(* What a card showed is what was executed. *)
CardsAreExecuted ==
    \A t \in Turns : reply[t].kind = "card" =>
        \A e \in ledger : e.op = reply[t].request.op => e.hash = reply[t].request.hash

(* A draft that was replaced, dropped, expired or never completed moves no  *)
(* money, and one that is consumed has a row.                               *)
DraftsHaveTheirRows ==
    \A m \in Messages :
        /\ draft[m].status \in {"absent", "active", "replaced", "dropped", "expired"}
              => \A e \in ledger : e.op # <<"draft", m>>
        /\ draft[m].status = "consumed" => row[<<"draft", m>>].status # "absent"

(* Once "cancelled" was said, no operation that awaited a decision when the *)
(* turn began can be confirmed or claimed; one that nobody had claimed has  *)
(* moved nothing.                                                           *)
CancelledIsClosed ==
    \A t \in Turns : reply[t].kind = "cancelled" => \A o \in reply[t].past :
        /\ row[o].status \notin {"proposed", "confirmed"}
        /\ row[o].status \in {"cancelled", "expired"} /\ ~Consented(o)
               => Recorded(o) = {}

EndToEnd ==
    /\ TransactionsAreMeant
    /\ CardsAreExecuted
    /\ DraftsHaveTheirRows
    /\ CancelledIsClosed

(* What the agent sees is what the rows say. *)
LEMMA SeenThroughView ==
    ASSUME Inv, Agent!TypeOK
    PROVE  /\ Ops = Agent!Ops
           /\ \A o \in Ops : /\ Proposal[o] = row[o].hash
                             /\ Standing[o] = StandingOf(row[o].status)
                             /\ Standing[o] = "absent" <=> row[o].status = "absent"
                             /\ Standing[o] = "open" <=>
                                    row[o].status \in {"proposed", "confirmed"}
<1>1. DOMAIN Standing = Ops /\ DOMAIN Standing = Agent!Ops
  BY DEF Standing, Agent!TypeOK
<1>2. \A o \in Ops : /\ Proposal[o] = row[o].hash
                     /\ Standing[o] = StandingOf(row[o].status)
  BY DEF Proposal, Standing
<1>3. \A o \in Ops : row[o].status \in Statuses \cup {"absent"}
  BY DEF Inv, TypeOK, Row
<1>4. \A s \in Statuses \cup {"absent"} :
          /\ StandingOf(s) = "absent" <=> s = "absent"
          /\ StandingOf(s) = "open" <=> s \in {"proposed", "confirmed"}
  BY DEF StandingOf, Statuses
<1> QED BY <1>1, <1>2, <1>3, <1>4

LEMMA Meant ==
    ASSUME Inv, EffectsWereConfirmed, Agent!TypeOK, Agent!NothingInherited
    PROVE  TransactionsAreMeant
<1> SUFFICES ASSUME NEW e \in ledger
             PROVE  \E via \in {"draft", "turn"}, m \in Messages :
                      /\ e.op = <<via, m>>
                      /\ Consented(e.op)
                      /\ e.hash.what = said[m].what
                      /\ \E n \in Messages :
                            /\ said[n].account = e.hash.account
                            /\ n = m \/ (via = "draft" /\ said[n].what \in {None, e.hash.what}
                                                       /\ ~said[n].reset)
  BY DEF TransactionsAreMeant
<1>1. e.op \in Ops /\ e.hash \in Hashes /\ Consented(e.op)
  BY DEF Inv, TypeOK, Entry, EffectsWereConfirmed
<1>2. e.op \in Agent!Ops /\ Proposal[e.op] = e.hash
  BY <1>1, SeenThroughView DEF Inv, EffectAtMostOnce
<1>3. PICK via \in {"draft", "turn"}, m \in Messages : e.op = <<via, m>>
  BY <1>2 DEF Agent!Ops
<1>4. Proposal[<<via, m>>] = e.hash /\ e.hash # None
  BY <1>1, <1>2, <1>3, NoneAssumption
<1>5. /\ e.hash.what = said[m].what
      /\ \E n \in Messages :
            /\ said[n].account = e.hash.account
            /\ n = m \/ (via = "draft" /\ said[n].what \in {None, e.hash.what}
                                       /\ ~said[n].reset)
  <2> DEFINE op == Proposal[<<via, m>>]
  <2>1. op # None =>
          /\ op.what = said[m].what
          /\ \E n \in Messages :
                /\ said[n].account = op.account
                /\ n = m \/ (via = "draft" /\ said[n].what \in {None, op.what}
                                           /\ ~said[n].reset)
    BY Zenon DEF Agent!NothingInherited
  <2> QED BY <1>4, <2>1
<1> QED BY <1>1, <1>3, <1>5

LEMMA AllTogether ==
    ASSUME Inv, EffectsWereConfirmed, Agent!TypeOK,
           Agent!NothingInherited, Agent!CardIsTrue, Agent!HandoffIsTraceable,
           Agent!CancelIsHonest
    PROVE  EndToEnd
<1>1. TransactionsAreMeant
  BY Meant
<1>2. \A e \in ledger : e.op \in Ops /\ Proposal[e.op] = e.hash /\ row[e.op].status # "absent"
  BY SeenThroughView DEF Inv, TypeOK, Entry, EffectAtMostOnce, LedgerOK
<1>3. CardsAreExecuted
  BY <1>2 DEF CardsAreExecuted, Agent!CardIsTrue
<1>4. DraftsHaveTheirRows
  <2>1. \A m \in Messages : <<"draft", m>> \in Ops
    BY SeenThroughView DEF Agent!Ops
  <2>2. \A m \in Messages :
            /\ draft[m].status \in {"absent", "active", "replaced", "dropped", "expired"}
                  => Standing[<<"draft", m>>] = "absent"
            /\ draft[m].status = "consumed" => Standing[<<"draft", m>>] # "absent"
    BY Zenon DEF Agent!HandoffIsTraceable
  <2>3. ASSUME NEW m \in Messages, NEW o, o = <<"draft", m>>
        PROVE  /\ Standing[o] = "absent" => \A e \in ledger : e.op # o
               /\ Standing[o] # "absent" => row[o].status # "absent"
    <3>1. o \in Ops
      BY <2>1, <2>3
    <3>2. Standing[o] = "absent" <=> row[o].status = "absent"
      BY <3>1, SeenThroughView
    <3> QED BY <1>2, <3>2
  <2>4. ASSUME NEW m \in Messages
        PROVE  /\ draft[m].status \in {"absent", "active", "replaced", "dropped", "expired"}
                     => \A e \in ledger : e.op # <<"draft", m>>
               /\ draft[m].status = "consumed" => row[<<"draft", m>>].status # "absent"
    <3> DEFINE o == <<"draft", m>>
    <3>1. /\ draft[m].status \in {"absent", "active", "replaced", "dropped", "expired"}
                => Standing[o] = "absent"
          /\ draft[m].status = "consumed" => Standing[o] # "absent"
      BY <2>2
    <3>2. /\ Standing[o] = "absent" => \A e \in ledger : e.op # o
          /\ Standing[o] # "absent" => row[o].status # "absent"
      BY <2>3
    <3> QED BY Zenon, <3>1, <3>2
  <2> QED BY <2>4, Zenon DEF DraftsHaveTheirRows
<1>5. CancelledIsClosed
  <2>1. \A t \in Turns : reply[t].past \subseteq Ops
    BY SeenThroughView DEF Agent!TypeOK, Agent!Reply
  <2> QED
    BY <2>1, SeenThroughView
       DEF CancelledIsClosed, Agent!CancelIsHonest, EffectsWereConfirmed
<1> QED BY <1>1, <1>3, <1>4, <1>5 DEF EndToEnd

(* Composed with the store, whose executions crash, are recovered, retried  *)
(* and settled late, the agent keeps its word about money: EndToEnd.        *)
THEOREM MessageToLedger == AgentAssumption /\ Agent!Spec /\ Spec => []EndToEnd
<1>0. AgentAssumption =>
          /\ None \notin Messages /\ None \notin Whats /\ None \notin Accounts
          /\ Agent!IsFiniteSet(Messages)
          /\ Scripts \subseteq [Messages -> Agent!Saying]
          /\ MaxProposals \in Nat \ {0} /\ MaxTurns \in Nat
  BY DEF AgentAssumption, IsFiniteSet, Agent!IsFiniteSet
<1>1. AgentAssumption /\ Agent!Spec => []Agent!TypeOK
  BY <1>0, Agent!TypeCorrect
<1>2. AgentAssumption /\ Agent!Spec => []Agent!NothingInherited
  BY <1>0, Agent!NoInheritance
<1>3. AgentAssumption /\ Agent!Spec => []Agent!CardIsTrue
  BY <1>0, Agent!CardTrue
<1>4. AgentAssumption /\ Agent!Spec => []Agent!HandoffIsTraceable
  BY <1>0, Agent!HandoffTraced
<1>5. AgentAssumption /\ Agent!Spec => []Agent!CancelIsHonest
  BY <1>0, Agent!CancelHonest
<1>6. Inv /\ EffectsWereConfirmed /\ Agent!TypeOK
        /\ Agent!NothingInherited /\ Agent!CardIsTrue /\ Agent!HandoffIsTraceable
        /\ Agent!CancelIsHonest => EndToEnd
  BY AllTogether
<1> QED BY <1>1, <1>2, <1>3, <1>4, <1>5, <1>6, Invariance, NothingUnconfirmed, PTL
=============================================================================
