----------------------------- MODULE DraftHandoff -----------------------------
(***************************************************************************)
(* The agent's mutation turns: conversation-orchestrator.ts (runMutation-  *)
(* Turn, continueDraft, freshMutationFlow, executePropose, runCancelTurn), *)
(* pending-operation-coordinator.ts (resolveCancel) and the draft store    *)
(* SqlMutationDraftStore of mutation-draft.ts, composed with the approval  *)
(* API as DecisionContract promises it.                                    *)
(*                                                                         *)
(* A message that describes a transaction without its account leaves a     *)
(* draft; a later message that names the account completes it and hands    *)
(* it to the API under a key derived from the draft; a message complete by *)
(* itself is proposed under a key derived from the message.  A turn is the *)
(* handling of one message.  It runs without interruption from one await   *)
(* to the next, and other turns run while it awaits: every action here is  *)
(* one such stretch, and every request to the API is a step of its own     *)
(* that may be lost, answered late, or handled after the turn gave up.     *)
(***************************************************************************)
EXTENDS Integers, FiniteSets

CONSTANTS
    Messages,      \* intention ids: a message and its redeliveries share one
    Whats,         \* kind and amount, with their description and date
    Accounts,      \* accounts a message may name
    None,
    Scripts,       \* what the messages may say, [Messages -> Saying]
    Turns,         \* turns that can be in flight at a time
    MaxAttempts,   \* draftMaxProposeAttempts
    MaxTurns       \* bound: turns begun

(* what the text describes, the account it names, whether it asks to start *)
(* over (isResetText) and whether it asks to cancel (isCancelText)         *)
Saying == [what : Whats \cup {None}, account : Accounts \cup {None},
           reset : BOOLEAN, cancel : BOOLEAN]

ASSUME NoneAssumption ==
    None \notin Messages /\ None \notin Whats /\ None \notin Accounts
ASSUME MessagesAssumption == IsFiniteSet(Messages)
ASSUME ScriptsAssumption == Scripts \subseteq [Messages -> Saying]
ASSUME BoundsAssumption == MaxAttempts \in Nat \ {0} /\ MaxTurns \in Nat

VARIABLES
    said,      \* [Messages -> Saying]
    draft,     \* [Messages -> Draft]: the table mutation_drafts, by intention
    turn,      \* [Turns -> Turn]: local state of the turns in flight
    reply,     \* [Turns -> Reply]: the answer of the last turn
    late,      \* proposals whose sender gave up and the API may still handle
    aged,      \* drafts past their expires_at
    begun,     \* history: turns begun
    winners,   \* history: [Messages -> SUBSET Messages]: whose cas was told ok
    standing,  \* the operations of the API, by idempotency key
    content

agentVars == <<said, draft, turn, reply, aged, begun, winners>>
vars == <<said, draft, turn, reply, late, aged, begun, winners, standing, content>>

-----------------------------------------------------------------------------
(* State space *)

Statuses == {"absent", "active", "proposing", "consumed", "expired", "replaced",
             "rejected",    \* discarded, propose_rejected
             "dropped"}     \* discarded, user_cancel

Draft == [status : Statuses, what : Whats \cup {None},
          account : Accounts \cup {None}, last : Messages \cup {None}]

NoDraft == [status |-> "absent", what |-> None, account |-> None, last |-> None]

(* Idempotency keys: deriveProposalKey, deriveIdempotencyKey of a turn *)
Ops == {"draft", "turn"} \X Messages
Hashes == [what : Whats, account : Accounts]
Requests == [op : Ops, hash : Hashes]

API == INSTANCE DecisionContract WITH Nothing <- None

Turn == [pc      : {"idle", "resolving", "asking", "listing", "cancelling"},
         msg     : Messages \cup {None},
         draft   : Messages \cup {None},   \* the draft it continues or proposes
         request : Requests \cup {None},
         why     : {"none", "propose", "recover", "settle", "direct"},
         tries   : 0 .. MaxAttempts,
         answer  : {"none", "ok", "rejected"},
         queue   : SUBSET Requests,        \* proposing drafts left to re-emit
         aged    : SUBSET Messages,        \* expired by the turn's own clock
         unknown : BOOLEAN,                \* outcomeUnknown
         found   : SUBSET Ops,             \* operations listed, then cancelled
         past    : SUBSET Ops]             \* history: open since its beginning

Idle == [pc |-> "idle", msg |-> None, draft |-> None, request |-> None,
         why |-> "none", tries |-> 0, answer |-> "none", queue |-> {},
         aged |-> {}, unknown |-> FALSE, found |-> {}, past |-> {}]

Reply == [kind : {"none", "clarify", "card", "known", "failed", "inconclusive",
                  "cancelled", "elsewhere"},
          request : Requests \cup {None}, past : SUBSET Ops]

Says(kind) == [kind |-> kind, request |-> None, past |-> {}]

Init ==
    /\ said \in Scripts
    /\ draft = [m \in Messages |-> NoDraft]
    /\ turn = [t \in Turns |-> Idle]
    /\ reply = [t \in Turns |-> Says("none")]
    /\ late = {}
    /\ aged = {}
    /\ begun = 0
    /\ winners = [m \in Messages |-> {}]
    /\ API!Init

-----------------------------------------------------------------------------
(* The draft store.  Each operation maps a table to a table. *)

Listed(d, status, old) == {m \in Messages \ old : d[m].status = status}

Marked(d, which, status, by) ==
    [m \in Messages |->
        IF m \in which THEN [d[m] EXCEPT !.status = status, !.last = by] ELSE d[m]]

(* Variant: whatever has not ended expires. *)
ExpireUnended(d) ==
    [m \in Messages |->
        IF d[m].status \in {"active", "proposing"} /\ m \in aged
        THEN [d[m] EXCEPT !.status = "expired"] ELSE d[m]]

ExpireStale(d) ==
    [m \in Messages |->
        IF d[m].status = "active" /\ m \in aged
        THEN [d[m] EXCEPT !.status = "expired"] ELSE d[m]]

(* Variant: the row is written whatever its status. *)
CasUnguarded(row, by) ==
    [row |-> [row EXCEPT !.status = "proposing", !.last = by], ok |-> TRUE]

(* cas: an UPDATE guarded by the status, then a read that takes the row for *)
(* its own when it is proposing under its own intention.                    *)
Cas(row, by) ==
    LET after == IF row.status = "active"
                 THEN [row EXCEPT !.status = "proposing", !.last = by]
                 ELSE row
    IN  [row |-> after, ok |-> after.status = "proposing" /\ after.last = by]

-----------------------------------------------------------------------------
(* Ways a stretch of a turn ends: with w as its local state so far and d as *)
(* the table it leaves.                                                     *)

End(t, d, r) ==
    /\ draft' = d
    /\ turn' = [turn EXCEPT ![t] = Idle]
    /\ reply' = [reply EXCEPT ![t] = r]

Await(t, d, w) ==
    /\ draft' = d
    /\ turn' = [turn EXCEPT ![t] = w]
    /\ UNCHANGED reply

Proposal(d, m) ==
    [op |-> <<"draft", m>>, hash |-> [what |-> d[m].what, account |-> d[m].account]]

Ask(t, d, w, why, m, request) ==
    Await(t, d, [w EXCEPT !.pc = "asking", !.why = why, !.draft = m,
                          !.request = request, !.tries = 1, !.answer = "none"])

AskNext(t, d, w, why) ==
    \E request \in w.queue :
        Ask(t, d, [w EXCEPT !.queue = @ \ {request}], why, request.op[2], request)

(* Variant: every draft hasRecoverableDraft speaks of is proposed again. *)
ReemissionsUnended(d, old) ==
    {Proposal(d, m) : m \in Listed(d, "proposing", old) \cup Listed(d, "active", old)}

(* A snapshot: what listProposing returned, with the arguments it returned *)
Reemissions(d, old) == {Proposal(d, m) : m \in Listed(d, "proposing", old)}

(* resolveCancel after its loop over the proposing drafts *)
Settle(t, d, w) ==
    \/ /\ w.queue # {}
       /\ AskNext(t, d, w, "settle")
    \/ /\ w.queue = {}
       /\ LET left == Marked(d, Listed(d, "active", w.aged), "dropped", w.msg)
          IN  IF w.unknown
              THEN End(t, left, Says("inconclusive"))
              ELSE Await(t, left, [Idle EXCEPT !.pc = "listing", !.msg = w.msg,
                                               !.past = w.past])

BeginCancel(t, d, m) ==
    LET kept == ExpireStale(d)
    IN  Settle(t, kept, [Idle EXCEPT !.msg = m,
                                     !.queue = Reemissions(kept, aged),
                                     !.aged = aged,
                                     !.past = {o \in Ops : standing[o] = "open"}])

(* freshMutationFlow up to the reads of resolveMutationEntities *)
Fresh(t, d, w) ==
    IF said[w.msg].what = None
    THEN End(t, d, Says("clarify"))
    ELSE Await(t, d, [Idle EXCEPT !.pc = "resolving", !.msg = w.msg])

(* Variant: only the request to start over replaces a draft. *)
ReplacesOnReset(m, row) == said[m].reset

(* isReplacement *)
Replaces(m, row) ==
    said[m].reset \/ (said[m].what # None /\ said[m].what # row.what)

(* runMutationTurn after its recovery loop *)
Choose(t, d, w) ==
    LET actives == Listed(d, "active", w.aged)
        replaces == \A m \in actives : Replaces(w.msg, d[m])
    IN  \/ /\ said[w.msg].cancel
           /\ BeginCancel(t, d, w.msg)
        \/ /\ ~said[w.msg].cancel
           /\ replaces
           /\ Cardinality(actives) >= 2 => said[w.msg].what # None
           /\ Fresh(t, Marked(d, actives, "replaced", w.msg), w)
        \/ /\ ~said[w.msg].cancel
           /\ Cardinality(actives) = 1
           /\ ~replaces
           /\ \E m \in actives :
                  Await(t, d, [Idle EXCEPT !.pc = "resolving", !.msg = w.msg,
                                           !.draft = m])
        \/ /\ ~said[w.msg].cancel
           /\ Cardinality(actives) >= 2
           /\ ~replaces \/ said[w.msg].what = None
           /\ End(t, d, Says("clarify"))

Recover(t, d, w) ==
    IF w.queue # {} THEN AskNext(t, d, w, "recover") ELSE Choose(t, d, w)

-----------------------------------------------------------------------------
(* Turns *)

(* findByIntention, the latest such draft; any of them, should stamps tie *)
Redelivered(d, m) == {n \in Messages : d[n].last = m}

(* what a redelivered message converges to without new state *)
Converges(row, n) ==
    row.status \in {"active", "consumed"} \/ (row.status = "proposing" /\ n \notin aged)

BeginMutation(t, m) ==
    LET kept == ExpireStale(draft)
        again == Redelivered(kept, m)
    IN  \/ \E n \in again :
              \/ /\ kept[n].status = "consumed"
                 /\ End(t, kept, Says("known"))
              \/ /\ kept[n].status = "active"
                 /\ End(t, kept, Says("clarify"))
              \/ /\ kept[n].status = "proposing" /\ n \notin aged
                 /\ Ask(t, kept, [Idle EXCEPT !.msg = m], "propose", n,
                        Proposal(kept, n))
        \/ /\ again = {} \/ \E n \in again : ~Converges(kept[n], n)
           /\ Recover(t, kept, [Idle EXCEPT !.msg = m, !.aged = aged,
                                            !.queue = Reemissions(kept, aged)])

(* hasDraftForTurn *)
HasDraft(m) ==
    \/ Listed(draft, "active", aged) \cup Listed(draft, "proposing", aged) # {}
    \/ Redelivered(draft, m) # {}

(* runTurn: the message arrives, for the first time or again *)
Deliver(t, m) ==
    /\ turn[t].pc = "idle"
    /\ begun < MaxTurns
    /\ begun' = begun + 1
    /\ \/ said[m].cancel /\ BeginCancel(t, draft, m)
       \/ (said[m].what # None \/ HasDraft(m)) /\ BeginMutation(t, m)
       \/ /\ ~said[m].cancel /\ said[m].what = None /\ ~HasDraft(m)
          /\ End(t, draft, Says("elsewhere"))
    /\ UNCHANGED <<said, late, aged, winners, standing, content>>

(* continueDraft after its reads: account is what they resolved, or None *)
Continue(t, account) ==
    LET w == turn[t]
        m == w.draft
        row == [draft[m] EXCEPT !.last = w.msg,
                                !.account = IF account = None THEN @ ELSE account]
        cas == Cas(row, w.msg)
        table == [draft EXCEPT ![m] = cas.row]
    IN  \/ /\ account = None
           /\ End(t, [draft EXCEPT ![m] = row], Says("clarify"))
           /\ UNCHANGED winners
        \/ /\ account # None /\ cas.ok
           /\ Ask(t, table, [Idle EXCEPT !.msg = w.msg], "propose", m,
                  Proposal(table, m))
           /\ winners' = [winners EXCEPT ![m] = @ \cup {w.msg}]
        \/ /\ account # None /\ ~cas.ok
           /\ End(t, table, Says(CASE cas.row.status = "consumed" -> "known"
                                   [] cas.row.status = "proposing" -> "inconclusive"
                                   [] OTHER -> "clarify"))
           /\ UNCHANGED winners

(* freshMutationFlow after its reads *)
Originate(t, account) ==
    LET m == turn[t].msg
    IN  /\ \/ /\ account = None
              /\ End(t, [draft EXCEPT ![m] =
                              IF @ = NoDraft
                              THEN [status |-> "active", what |-> said[m].what,
                                    account |-> None, last |-> m]
                              ELSE @], Says("clarify"))
           \/ /\ account # None
              /\ Ask(t, draft, [Idle EXCEPT !.msg = m], "direct", None,
                     [op |-> <<"turn", m>>,
                      hash |-> [what |-> said[m].what, account |-> account]])
        /\ UNCHANGED winners

(* The account and category lists arrive, or do not: an unreadable list, an *)
(* unknown or ambiguous name resolve to nothing.                            *)
Resolve(t) ==
    /\ turn[t].pc = "resolving"
    /\ \E account \in {said[turn[t].msg].account, None} :
           IF turn[t].draft = None THEN Originate(t, account) ELSE Continue(t, account)
    /\ UNCHANGED <<said, late, aged, begun, standing, content>>

(* Variant: the arguments of an existing operation are not compared. *)
HandleUnchecked(request, answer) ==
    \/ API!Propose(request.op, request.hash) /\ answer = "ok"
    \/ standing[request.op] # "absent" /\ answer = "ok" /\ UNCHANGED <<standing, content>>

(* propose on the API: a new operation, the existing one, or a conflict *)
Handle(request, answer) ==
    \/ API!Propose(request.op, request.hash) /\ answer = "ok"
    \/ /\ standing[request.op] # "absent"
       /\ answer = IF content[request.op] = request.hash THEN "ok" ELSE "rejected"
       /\ UNCHANGED <<standing, content>>

Answered(t, answer) == turn' = [turn EXCEPT ![t].answer = answer]

Serve(t) ==
    /\ turn[t].pc = "asking" /\ turn[t].answer = "none"
    /\ \E answer \in {"ok", "rejected"} :
           Handle(turn[t].request, answer) /\ Answered(t, answer)
    /\ UNCHANGED <<said, draft, reply, late, aged, begun, winners>>

(* A definitive 4xx before the store is reached: authentication, capability, *)
(* validation                                                               *)
Refuse(t) ==
    /\ turn[t].pc = "asking" /\ turn[t].answer = "none"
    /\ Answered(t, "rejected")
    /\ UNCHANGED <<said, draft, reply, late, aged, begun, winners, standing, content>>

ServeLate(request) ==
    /\ request \in late
    /\ late' = late \ {request}
    /\ \E answer \in {"ok", "rejected"} : Handle(request, answer)
    /\ UNCHANGED agentVars

(* The answer to a proposal reaches its turn. *)
Receive(t) ==
    LET w == turn[t]
        to == IF w.answer = "ok" THEN "consumed" ELSE "rejected"
    IN  /\ w.pc = "asking" /\ w.answer # "none"
        /\ \/ /\ w.why \in {"propose", "direct"}
              /\ End(t, IF w.why = "direct" THEN draft
                        ELSE Marked(draft, {w.draft}, to, w.msg),
                     IF w.answer = "ok"
                     THEN [Says("card") EXCEPT !.request = w.request]
                     ELSE Says("failed"))
           \/ /\ w.why = "recover"
              /\ Recover(t, [draft EXCEPT ![w.draft].status = to], w)
           \/ /\ w.why = "settle"
              /\ Settle(t, Marked(draft, {w.draft}, to, w.msg), w)
        /\ UNCHANGED <<said, late, aged, begun, winners, standing, content>>

(* No answer comes (a transport error, a 5xx): the outcome is unknown, and  *)
(* the request itself may still arrive.                                     *)
GiveUp(t) ==
    LET w == turn[t]
        touched == [draft EXCEPT ![w.draft].last = w.msg]
    IN  /\ w.pc = "asking"
        /\ late' = IF w.answer = "none" THEN late \cup {w.request} ELSE late
        /\ \/ /\ w.why = "propose" /\ w.tries < MaxAttempts
              /\ Await(t, draft, [w EXCEPT !.tries = @ + 1, !.answer = "none"])
           \/ /\ w.why = "propose" /\ w.tries = MaxAttempts
              /\ End(t, touched, Says("inconclusive"))
           \/ /\ w.why = "recover"
              /\ Recover(t, draft, w)
           \/ /\ w.why = "settle"
              /\ Settle(t, touched, [w EXCEPT !.unknown = TRUE])
           \/ /\ w.why = "direct"
              /\ End(t, draft, Says("failed"))
        /\ UNCHANGED <<said, aged, begun, winners, standing, content>>

-----------------------------------------------------------------------------
(* The rest of a cancelling turn: resolveDecisionTarget, client.cancel *)

ListActive(t) ==
    /\ turn[t].pc = "listing" /\ turn[t].answer = "none"
    /\ turn' = [turn EXCEPT ![t].answer = "ok",
                            ![t].found = {o \in Ops : standing[o] = "open"}]
    /\ UNCHANGED <<said, draft, reply, late, aged, begun, winners, standing, content>>

Cancelled(w) == [Says("cancelled") EXCEPT !.past = w.past]

(* Variant: of several operations, one is cancelled. *)
ChooseTargetAny(t) ==
    LET w == turn[t]
    IN  /\ w.pc = "listing" /\ w.answer # "none"
        /\ \/ /\ w.found = {}
              /\ End(t, draft, Cancelled(w))
           \/ \E o \in w.found :
                  Await(t, draft, [w EXCEPT !.pc = "cancelling", !.answer = "none",
                                            !.found = {o}])
        /\ UNCHANGED <<said, late, aged, begun, winners, standing, content>>

ChooseTarget(t) ==
    LET w == turn[t]
    IN  /\ w.pc = "listing" /\ w.answer # "none"
        /\ \/ /\ w.found = {}
              /\ End(t, draft, Cancelled(w))
           \/ /\ Cardinality(w.found) = 1
              /\ Await(t, draft, [w EXCEPT !.pc = "cancelling", !.answer = "none"])
           \/ /\ Cardinality(w.found) >= 2
              /\ End(t, draft, Says("clarify"))
        /\ UNCHANGED <<said, late, aged, begun, winners, standing, content>>

ServeCancel(t) ==
    /\ turn[t].pc = "cancelling" /\ turn[t].answer = "none"
    /\ \E o \in turn[t].found :
           \/ API!Close(o) /\ Answered(t, "ok")
           \/ standing[o] # "open" /\ UNCHANGED <<standing, content>> /\ Answered(t, "rejected")
    /\ UNCHANGED <<said, draft, reply, late, aged, begun, winners>>

Conclude(t) ==
    /\ turn[t].pc = "cancelling" /\ turn[t].answer # "none"
    /\ End(t, draft, IF turn[t].answer = "ok" THEN Cancelled(turn[t])
                     ELSE Says("inconclusive"))
    /\ UNCHANGED <<said, late, aged, begun, winners, standing, content>>

Abandon(t) ==
    /\ turn[t].pc \in {"listing", "cancelling"}
    /\ End(t, draft, Says("inconclusive"))
    /\ UNCHANGED <<said, late, aged, begun, winners, standing, content>>

-----------------------------------------------------------------------------
(* Environment *)

(* The buttons of the card, a confirming turn and the expiry of operations, *)
(* as far as drafts can tell.  An operation taken up is no longer one that  *)
(* a cancellation begun before answers for.                                 *)
Decided(o) ==
    /\ \/ /\ API!Close(o) \/ API!Reopen(o)
          /\ UNCHANGED <<turn, reply>>
       \/ /\ API!Take(o)
          /\ turn' = [t \in Turns |-> [turn[t] EXCEPT !.past = @ \ {o}]]
          /\ reply' = [t \in Turns |-> [reply[t] EXCEPT !.past = @ \ {o}]]
    /\ UNCHANGED <<said, draft, late, aged, begun, winners>>

(* DEFAULT_DRAFT_TTL_MS have passed since the draft was created. *)
Age(m) ==
    /\ draft[m] # NoDraft
    /\ m \notin aged
    /\ aged' = aged \cup {m}
    /\ UNCHANGED <<said, draft, turn, reply, late, begun, winners, standing, content>>

(* The Durable Object is evicted: its turns are lost, its tables are not. *)
Evict ==
    /\ \E t \in Turns : turn[t] # Idle
    /\ turn' = [t \in Turns |-> Idle]
    /\ late' = late \cup {turn[t].request : t \in {s \in Turns :
                   turn[s].pc = "asking" /\ turn[s].answer = "none"}}
    /\ UNCHANGED <<said, draft, reply, aged, begun, winners, standing, content>>

Next ==
    \/ \E t \in Turns : \/ \E m \in Messages : Deliver(t, m)
                        \/ Resolve(t) \/ Serve(t) \/ Refuse(t) \/ Receive(t)
                        \/ GiveUp(t) \/ ListActive(t) \/ ChooseTarget(t)
                        \/ ServeCancel(t) \/ Conclude(t) \/ Abandon(t)
    \/ \E request \in late : ServeLate(request)
    \/ \E o \in Ops : Decided(o)
    \/ \E m \in Messages : Age(m)
    \/ Evict

Spec == Init /\ [][Next]_vars

-----------------------------------------------------------------------------
(* Properties *)

(* Every table, turn and reply has the shape the code gives it. *)
TypeOK ==
    /\ said \in Scripts
    /\ draft \in [Messages -> Draft]
    /\ turn \in [Turns -> Turn]
    /\ reply \in [Turns -> Reply]
    /\ late \subseteq Requests
    /\ aged \subseteq Messages
    /\ begun \in 0 .. MaxTurns
    /\ winners \in [Messages -> SUBSET Messages]
    /\ standing \in [Ops -> {"absent", "open", "taken", "closed"}]
    /\ content \in [Ops -> Hashes \cup {None}]

(* requests by which an operation may yet come to be *)
Travelling ==
    late \cup (UNION {turn[t].queue : t \in Turns})
         \cup {turn[t].request : t \in {s \in Turns :
                   turn[s].pc = "asking" /\ turn[s].answer = "none"}}

(* The handoff can be traced from the draft (specification V3, INV-09): a   *)
(* draft that was replaced, dropped by a cancellation, expired, or is still *)
(* waiting for its account has no operation and nothing on its way that     *)
(* could create one, whatever turns overlapped, were lost or were answered  *)
(* late; and a consumed draft has its operation.                            *)
HandoffIsTraceable ==
    \A m \in Messages :
        /\ draft[m].status \in {"absent", "active", "replaced", "dropped", "expired"}
              => /\ standing[<<"draft", m>>] = "absent"
                 /\ \A request \in Travelling : request.op # <<"draft", m>>
        /\ draft[m].status = "consumed" => standing[<<"draft", m>>] # "absent"

(* A draft that was replaced, dropped or expired stays so, although every   *)
(* turn that still holds it writes its row without looking at the status.   *)
ClosedStaysClosed ==
    [][\A m \in Messages :
          draft[m].status \in {"replaced", "dropped", "expired"} =>
              draft'[m].status = draft[m].status]_vars

(* "Cancelado" is only said when it is so (INV-10): once a cancelling turn  *)
(* has said it, no operation that awaited a decision when the turn began    *)
(* awaits one still, unless an execution took it up meanwhile.              *)
CancelIsHonest ==
    \A t \in Turns :
        reply[t].kind = "cancelled" =>
            \A o \in reply[t].past : standing[o] # "open"

(* The card shows what would be executed (INV-02): the arguments a turn     *)
(* puts on the card are those of the operation the card names, although the *)
(* arguments of its draft may have been overwritten by then.                *)
CardIsTrue ==
    \A t \in Turns :
        reply[t].kind = "card" => content[reply[t].request.op] = reply[t].request.hash

(* Nothing is inherited (section 7.8): an operation records what its own    *)
(* message described, on an account named by that message or by one that    *)
(* did not describe another transaction and did not start over.             *)
NothingInherited ==
    \A m \in Messages, via \in {"draft", "turn"} :
        LET op == content[<<via, m>>]
        IN  op # None =>
              /\ op.what = said[m].what
              /\ \E n \in Messages :
                    /\ said[n].account = op.account
                    /\ n = m \/ (via = "draft" /\ said[n].what \in {None, op.what}
                                               /\ ~said[n].reset)

(* The compare-and-set elects one continuation (mutation-draft.ts:12-16).   *)
SingleWinner ==
    \A m \in Messages : Cardinality(winners[m]) <= 1
=============================================================================
