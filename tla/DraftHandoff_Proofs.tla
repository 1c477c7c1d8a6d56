--------------------------- MODULE DraftHandoff_Proofs ---------------------------
(***************************************************************************)
(* The safety properties of DraftHandoff, for any messages, scripts,       *)
(* number of turns in flight, attempts and turns begun.                    *)
(*                                                                         *)
(* None of them is inductive alone.  DraftInv joins the types with what a  *)
(* stretch of a turn may rely on after an await, although other turns ran  *)
(* meanwhile:                                                              *)
(*   RowsOK      a row describes what its own message said, on an account  *)
(*               some message named for it, and one that was never handed  *)
(*               over has no operation                                     *)
(*   TurnsOK     the draft a turn holds, the request it makes and those it *)
(*               has queued are of rows that were handed over, and the     *)
(*               operations it answers for were not taken up               *)
(*   RepliesOK   what a turn has said is still so                          *)
(*   LateOK, ContentOK   the same of requests on their way and operations  *)
(* Later says how one stretch may change the table: it is all the other    *)
(* turns need to know of it.                                               *)
(***************************************************************************)
EXTENDS DraftHandoff, FiniteSetTheorems, TLAPS

(* statuses of a draft of which a proposal has left, or may have *)
HandedOver == {"proposing", "consumed", "rejected"}

Closed == {"replaced", "dropped", "expired"}

(* Message n may have given the account of what m described. *)
MayName(n, m, via) ==
    n = m \/ (via = "draft" /\ said[n].what \in {None, said[m].what} /\ ~said[n].reset)

Sourced(m, a, via) == \E n \in Messages : said[n].account = a /\ MayName(n, m, via)

Described(o, h) == h.what = said[o[2]].what /\ Sourced(o[2], h.account, o[1])

RowOK(m, row) ==
    /\ row.status # "absent" => row.what \in Whats /\ row.what = said[m].what
    /\ row.account # None => Sourced(m, row.account, "draft")
    /\ row.status = "proposing" => row.account # None
    /\ row.status \notin HandedOver => standing[<<"draft", m>>] = "absent"
    /\ row.status = "consumed" => standing[<<"draft", m>>] # "absent"

RowsOK(d) == \A m \in Messages : RowOK(m, d[m])

Table(d) == d \in [Messages -> Draft] /\ RowsOK(d)

RequestOK(d, q) ==
    /\ Described(q.op, q.hash)
    /\ q.op[1] = "draft" => d[q.op[2]].status \in HandedOver

QueueOK(d, queue) == \A q \in queue : q.op[1] = "draft" /\ RequestOK(d, q)

Granted(q) == standing[q.op] # "absent" /\ content[q.op] = q.hash

NotTaken(past) == \A o \in past : standing[o] \in {"open", "closed"}

AllClosed(ops) == \A o \in ops : standing[o] = "closed"

Resolving(d, w) ==
    /\ w.draft = None => said[w.msg].what # None
    /\ w.draft # None => /\ d[w.draft].status # "absent"
                         /\ said[w.msg].what \in {None, said[w.draft].what}
                         /\ ~said[w.msg].reset

Asking(d, w) ==
    /\ w.request \in Requests /\ w.why # "none" /\ RequestOK(d, w.request)
    /\ w.why = "direct" => w.request.op[1] = "turn"
    /\ w.why # "direct" => w.draft # None /\ w.request.op = <<"draft", w.draft>>
    /\ w.answer = "ok" => Granted(w.request)

Cancelling(w) ==
    /\ w.pc = "listing" /\ w.answer # "none" => AllClosed(w.past \ w.found)
    /\ w.pc = "cancelling" => Cardinality(w.found) = 1 /\ AllClosed(w.past \ w.found)
    /\ w.pc = "cancelling" /\ w.answer = "ok" => AllClosed(w.found)

TurnOK(d, w) ==
    /\ w.pc # "idle" => w.msg # None
    /\ w.pc = "resolving" => Resolving(d, w)
    /\ w.pc = "asking" => Asking(d, w)
    /\ QueueOK(d, w.queue)
    /\ NotTaken(w.past)
    /\ Cancelling(w)

ReplyOK(r) ==
    /\ r.kind = "card" => r.request \in Requests /\ Granted(r.request)
    /\ NotTaken(r.past)
    /\ r.kind = "cancelled" => AllClosed(r.past)

TurnsOK == \A t \in Turns : TurnOK(draft, turn[t])

RepliesOK == \A t \in Turns : ReplyOK(reply[t])

LateOK == \A q \in late : RequestOK(draft, q)

ContentOK == \A o \in Ops : content[o] # None => Described(o, content[o])

DraftInv == TypeOK /\ RowsOK(draft) /\ TurnsOK /\ RepliesOK /\ LateOK /\ ContentOK

-----------------------------------------------------------------------------
(* One stretch of a turn *)

(* How a stretch may change a row, *)
RowStep(m, r, s) ==
    /\ s \in Draft /\ RowOK(m, s)
    /\ r.status \in HandedOver => s.status \in HandedOver
    /\ r.status # "absent" => s.status # "absent"
    /\ r.status \in Closed => s.status = r.status

(* ... and the table. *)
Later(d, e) ==
    /\ e \in [Messages -> Draft]
    /\ \A m \in Messages : RowStep(m, d[m], e[m])

(* What a stretch of turn t leaves behind. *)
Stretched(t) ==
    /\ Later(draft, draft')
    /\ \E w \in Turn : turn' = [turn EXCEPT ![t] = w] /\ TurnOK(draft', w)
    /\ \/ reply' = reply
       \/ \E r \in Reply : reply' = [reply EXCEPT ![t] = r] /\ ReplyOK(r)

(* the local state a stretch goes on with *)
Carried(d, w) == w \in Turn /\ w.msg # None /\ QueueOK(d, w.queue) /\ NotTaken(w.past)

LEMMA LaterSame == ASSUME NEW d, Table(d) PROVE Later(d, d)
BY DEF Table, RowsOK, Later, RowStep

LEMMA LaterTable == ASSUME NEW d, NEW e, Later(d, e) PROVE Table(e)
BY DEF Table, RowsOK, Later, RowStep

LEMMA LaterTrans ==
    ASSUME NEW d, NEW e, NEW f, Later(d, e), Later(e, f) PROVE Later(d, f)
<1> SUFFICES ASSUME NEW m \in Messages PROVE RowStep(m, d[m], f[m])
  BY DEF Later
<1>1. RowStep(m, d[m], e[m]) /\ RowStep(m, e[m], f[m])
  BY DEF Later
<1> QED BY <1>1 DEF RowStep, Closed, HandedOver

(* A request stays sound when the table moves on, *)
LEMMA RequestLater ==
    ASSUME NEW d, NEW e, Later(d, e), NEW q \in Requests, RequestOK(d, q)
    PROVE  RequestOK(e, q)
<1>1. q.op[1] = "draft" => q.op[2] \in Messages
  BY DEF Requests, Ops
<1> QED BY <1>1 DEF RequestOK, Later, RowStep

LEMMA QueueLater ==
    ASSUME NEW d, NEW e, Later(d, e), NEW Q \in SUBSET Requests, QueueOK(d, Q)
    PROVE  QueueOK(e, Q)
BY RequestLater DEF QueueOK

(* ... and so does a turn that awaits. *)
LEMMA TurnLater ==
    ASSUME NEW d, NEW e, Later(d, e), NEW w \in Turn, TurnOK(d, w)
    PROVE  TurnOK(e, w)
<1>1. QueueOK(e, w.queue)
  BY QueueLater DEF Turn, TurnOK
<1>2. ASSUME w.pc = "resolving" PROVE Resolving(e, w)
  BY <1>2 DEF TurnOK, Resolving, Later, RowStep, Turn
<1>3. ASSUME w.pc = "asking" PROVE Asking(e, w)
  <2>1. w.request \in Requests
    BY <1>3 DEF Turn, TurnOK, Asking
  <2> QED BY <1>3, <2>1, RequestLater DEF TurnOK, Asking
<1> QED BY <1>1, <1>2, <1>3 DEF TurnOK

(* A row is as sound with another status that says no more, *)
LEMMA RowRestated ==
    ASSUME NEW m \in Messages, NEW r \in Draft, RowOK(m, r),
           NEW by \in Messages \cup {None}, NEW s \in Statuses,
           \/ r.status = s
           \/ r.status = "active" /\ s \in Closed
           \/ /\ r.status \in HandedOver /\ s \in {"consumed", "rejected"}
              /\ s = "consumed" => standing[<<"draft", m>>] # "absent"
    PROVE  /\ RowStep(m, r, [r EXCEPT !.status = s, !.last = by])
           /\ RowStep(m, r, [r EXCEPT !.status = s])
<1>1. /\ [r EXCEPT !.status = s, !.last = by] \in Draft
      /\ [r EXCEPT !.status = s] \in Draft
  BY DEF Draft
<1> QED BY <1>1 DEF RowStep, RowOK, Draft, Statuses, Closed, HandedOver

(* so the table may be marked, *)
LEMMA MarkedLater ==
    ASSUME NEW d, Table(d), NEW which \in SUBSET Messages, NEW s \in Statuses,
           NEW by \in Messages \cup {None},
           \A m \in which :
               \/ d[m].status = "active" /\ s \in Closed
               \/ /\ d[m].status \in HandedOver /\ s \in {"consumed", "rejected"}
                  /\ s = "consumed" => standing[<<"draft", m>>] # "absent"
    PROVE  Later(d, Marked(d, which, s, by))
<1> DEFINE e == Marked(d, which, s, by)
<1>1. ASSUME NEW m \in Messages PROVE RowStep(m, d[m], e[m])
  <2>1. d[m] \in Draft /\ RowOK(m, d[m]) /\ RowStep(m, d[m], d[m])
    BY DEF Table, RowsOK, RowStep
  <2>2. CASE m \in which
    <3>1. e[m] = [d[m] EXCEPT !.status = s, !.last = by]
      BY <2>2 DEF Marked
    <3>2. RowStep(m, d[m], [d[m] EXCEPT !.status = s, !.last = by])
      BY <2>1, <2>2, RowRestated
    <3> QED BY <3>1, <3>2
  <2>3. CASE m \notin which
    BY <2>1, <2>3 DEF Marked
  <2> QED BY <2>2, <2>3
<1>2. e \in [Messages -> Draft]
  <2>1. e = [m \in Messages |-> e[m]]
    BY DEF Marked
  <2>2. \A m \in Messages : e[m] \in Draft
    BY <1>1 DEF RowStep
  <2> HIDE DEF e
  <2> QED BY <2>1, <2>2
<1> QED BY <1>1, <1>2 DEF Later

(* stale drafts may expire, *)
LEMMA ExpireLater ==
    ASSUME NEW d, Table(d)
    PROVE  Later(d, ExpireStale(d))
<1> DEFINE e == ExpireStale(d)
<1>1. ASSUME NEW m \in Messages PROVE RowStep(m, d[m], e[m])
  <2>1. d[m] \in Draft /\ RowOK(m, d[m]) /\ RowStep(m, d[m], d[m])
    BY DEF Table, RowsOK, RowStep
  <2>2. CASE d[m].status = "active" /\ m \in aged
    <3>1. e[m] = [d[m] EXCEPT !.status = "expired"]
      BY <2>2 DEF ExpireStale
    <3>2. "expired" \in Statuses /\ "expired" \in Closed
      BY DEF Statuses, Closed
    <3>3. RowStep(m, d[m], [d[m] EXCEPT !.status = "expired"])
      BY <2>1, <2>2, <3>2, RowRestated
    <3> QED BY <3>1, <3>3
  <2>3. CASE ~(d[m].status = "active" /\ m \in aged)
    BY <2>1, <2>3 DEF ExpireStale
  <2> QED BY <2>2, <2>3
<1>2. e \in [Messages -> Draft]
  <2>1. e = [m \in Messages |-> e[m]]
    BY DEF ExpireStale
  <2>2. \A m \in Messages : e[m] \in Draft
    BY <1>1 DEF RowStep
  <2> HIDE DEF e
  <2> QED BY <2>1, <2>2
<1> QED BY <1>1, <1>2 DEF Later

(* and one row may be written. *)
LEMMA RowLater ==
    ASSUME NEW d, Table(d), NEW m \in Messages, NEW r, RowStep(m, d[m], r)
    PROVE  Later(d, [d EXCEPT ![m] = r])
BY DEF Later, RowStep, Table, RowsOK

(* What a draft being proposed is proposed as may be requested, *)
LEMMA ProposalOK ==
    ASSUME NEW d, Table(d), NEW m \in Messages, d[m].status = "proposing"
    PROVE  /\ Proposal(d, m) \in Requests
           /\ Proposal(d, m).op = <<"draft", m>>
           /\ RequestOK(d, Proposal(d, m))
<1>1. /\ d[m].what \in Whats /\ d[m].what = said[m].what
      /\ d[m].account \in Accounts /\ Sourced(m, d[m].account, "draft")
  BY DEF Table, RowsOK, RowOK, Draft
<1>2. Proposal(d, m) \in Requests
  BY <1>1 DEF Proposal, Requests, Ops, Hashes
<1> QED BY <1>1, <1>2 DEF Proposal, RequestOK, Described, HandedOver

(* and so may what listProposing returns. *)
LEMMA ReemissionsOK ==
    ASSUME NEW d, Table(d), NEW old
    PROVE  /\ Reemissions(d, old) \in SUBSET Requests
           /\ QueueOK(d, Reemissions(d, old))
<1> SUFFICES ASSUME NEW m \in Messages, d[m].status = "proposing"
             PROVE  /\ Proposal(d, m) \in Requests
                    /\ Proposal(d, m).op[1] = "draft"
                    /\ RequestOK(d, Proposal(d, m))
  BY DEF Reemissions, Listed, QueueOK
<1>1. Proposal(d, m).op[1] = "draft"
  BY DEF Proposal
<1> QED BY <1>1, ProposalOK

-----------------------------------------------------------------------------
(* Each way a stretch of a turn goes on leaves what Stretched says. *)

LEMMA Ends ==
    ASSUME NEW t \in Turns, NEW d, Later(draft, d), NEW r \in Reply, ReplyOK(r),
           End(t, d, r)
    PROVE  Stretched(t)
<1>1. Idle \in Turn
  BY BoundsAssumption DEF Idle, Turn
<1>2. TurnOK(d, Idle)
  BY DEF Idle, TurnOK, QueueOK, NotTaken, Cancelling
<1> QED BY <1>1, <1>2 DEF End, Stretched

LEMMA Says_OK ==
    ASSUME NEW k \in {"clarify", "known", "failed", "inconclusive", "elsewhere"}
    PROVE  Says(k) \in Reply /\ ReplyOK(Says(k))
BY DEF Says, Reply, ReplyOK, NotTaken

LEMMA Awaits ==
    ASSUME NEW t \in Turns, NEW d, Later(draft, d), NEW w \in Turn, TurnOK(d, w),
           Await(t, d, w)
    PROVE  Stretched(t)
BY DEF Await, Stretched

LEMMA Asks ==
    ASSUME NEW t \in Turns, NEW d, Later(draft, d), NEW w, Carried(d, w),
           NEW why \in {"propose", "recover", "settle"}, NEW m \in Messages,
           NEW q \in Requests, RequestOK(d, q), q.op = <<"draft", m>>,
           Ask(t, d, w, why, m, q)
    PROVE  Stretched(t)
<1> DEFINE v == [w EXCEPT !.pc = "asking", !.why = why, !.draft = m,
                          !.request = q, !.tries = 1, !.answer = "none"]
<1>1. v \in Turn
  <2>1. w \in Turn /\ 1 \in 0 .. MaxAttempts
    BY BoundsAssumption DEF Carried
  <2> QED BY <2>1 DEF Turn
<1>2. /\ v.pc = "asking" /\ v.why = why /\ v.draft = m /\ v.request = q
      /\ v.answer = "none" /\ v.queue = w.queue /\ v.past = w.past /\ v.msg = w.msg
  BY DEF Carried, Turn
<1>3. m # None
  BY NoneAssumption
<1>4. Await(t, d, v)
  BY DEF Ask
<1> HIDE DEF v
<1>5. TurnOK(d, v)
  BY <1>2, <1>3 DEF TurnOK, Asking, Carried, Cancelling
<1> QED BY <1>1, <1>4, <1>5, Awaits

LEMMA AsksNext ==
    ASSUME NEW t \in Turns, NEW d, Later(draft, d), NEW w, Carried(d, w),
           NEW why \in {"recover", "settle"}, AskNext(t, d, w, why)
    PROVE  Stretched(t)
<1>1. PICK q \in w.queue :
          Ask(t, d, [w EXCEPT !.queue = @ \ {q}], why, q.op[2], q)
  BY DEF AskNext
<1> DEFINE v == [w EXCEPT !.queue = w.queue \ {q}]
<1>2. q \in Requests /\ RequestOK(d, q) /\ q.op[1] = "draft"
  BY <1>1 DEF Carried, Turn, QueueOK
<1>3. q.op[2] \in Messages /\ q.op = <<"draft", q.op[2]>>
  BY <1>2 DEF Requests, Ops
<1>4. Carried(d, v)
  BY <1>1 DEF Carried, Turn, QueueOK
<1>5. Ask(t, d, v, why, q.op[2], q)
  BY <1>1
<1> HIDE DEF v
<1> QED BY <1>2, <1>3, <1>4, <1>5, Asks

(* resolveCancel, once its loop is over or has another draft to settle *)
LEMMA Settles ==
    ASSUME NEW t \in Turns, NEW d, Later(draft, d), NEW w, Carried(d, w), Settle(t, d, w)
    PROVE  Stretched(t)
<1> DEFINE S == Listed(d, "active", w.aged)
           left == Marked(d, S, "dropped", w.msg)
           v == [Idle EXCEPT !.pc = "listing", !.msg = w.msg, !.past = w.past]
<1>1. CASE AskNext(t, d, w, "settle")
  BY <1>1, AsksNext
<1>2. Later(draft, left)
  <2>1. S \in SUBSET Messages /\ \A m \in S : d[m].status = "active"
    BY DEF Listed
  <2>2. /\ w.msg \in Messages \cup {None}
        /\ "dropped" \in Statuses /\ "dropped" \in Closed
    BY DEF Carried, Turn, Statuses, Closed
  <2>3. Table(d)
    BY LaterTable
  <2> HIDE DEF S
  <2>4. Later(d, left)
    BY <2>1, <2>2, <2>3, MarkedLater
  <2> HIDE DEF left
  <2> QED BY <2>4, LaterTrans
<1>3. CASE w.unknown /\ End(t, left, Says("inconclusive"))
  <2> HIDE DEF left
  <2> QED BY <1>2, <1>3, Says_OK, Ends
<1>4. CASE Await(t, left, v)
  <2>1. v \in Turn
    <3>1. 0 \in 0 .. MaxAttempts
      BY BoundsAssumption
    <3> QED BY <3>1 DEF Carried, Idle, Turn
  <2>2. TurnOK(left, v)
    BY DEF TurnOK, Carried, Idle, QueueOK, Cancelling
  <2> HIDE DEF left, v
  <2> QED BY <1>2, <1>4, <2>1, <2>2, Awaits
<1> QED BY <1>1, <1>3, <1>4 DEF Settle

LEMMA CancelBegins ==
    ASSUME NEW t \in Turns, NEW d, Later(draft, d), NEW m \in Messages,
           aged \subseteq Messages, BeginCancel(t, d, m)
    PROVE  Stretched(t)
<1> DEFINE kept == ExpireStale(d)
           v == [Idle EXCEPT !.msg = m, !.queue = Reemissions(kept, aged),
                             !.aged = aged, !.past = {o \in Ops : standing[o] = "open"}]
<1>1. Later(draft, kept) /\ Table(kept)
  BY LaterTable, LaterTrans, ExpireLater
<1>2. Carried(kept, v)
  <2> HIDE DEF kept
  <2>1. Reemissions(kept, aged) \in SUBSET Requests /\ QueueOK(kept, Reemissions(kept, aged))
    BY <1>1, ReemissionsOK
  <2>2. 0 \in 0 .. MaxAttempts /\ m # None
    BY BoundsAssumption, NoneAssumption
  <2>3. v \in Turn
    BY <2>1, <2>2 DEF Idle, Turn
  <2>4. /\ v.msg = m /\ v.queue = Reemissions(kept, aged)
        /\ v.past = {o \in Ops : standing[o] = "open"}
    BY DEF Idle
  <2> QED BY <2>1, <2>2, <2>3, <2>4 DEF Carried, NotTaken
<1>3. Settle(t, kept, v)
  BY DEF BeginCancel
<1> HIDE DEF kept, v
<1> QED BY <1>1, <1>2, <1>3, Settles

(* the branches of runMutationTurn *)
LEMMA Freshens ==
    ASSUME NEW t \in Turns, NEW d, Later(draft, d), NEW w, Carried(d, w), Fresh(t, d, w)
    PROVE  Stretched(t)
<1> DEFINE v == [Idle EXCEPT !.pc = "resolving", !.msg = w.msg]
<1>1. CASE End(t, d, Says("clarify"))
  BY <1>1, Says_OK, Ends
<1>2. CASE said[w.msg].what # None /\ Await(t, d, v)
  <2>1. v \in Turn
    <3>1. 0 \in 0 .. MaxAttempts
      BY BoundsAssumption
    <3> QED BY <3>1 DEF Carried, Idle, Turn
  <2>2. TurnOK(d, v)
    BY <1>2 DEF TurnOK, Carried, Idle, QueueOK, Cancelling, Resolving, NotTaken
  <2> HIDE DEF v
  <2> QED BY <1>2, <2>1, <2>2, Awaits
<1> QED BY <1>1, <1>2 DEF Fresh

LEMMA Chooses ==
    ASSUME TypeOK, NEW t \in Turns, NEW d, Later(draft, d), NEW w, Carried(d, w),
           Choose(t, d, w)
    PROVE  Stretched(t)
<1> DEFINE S == Listed(d, "active", w.aged)
           over == Marked(d, S, "replaced", w.msg)
<1>1. S \in SUBSET Messages /\ \A m \in S : d[m].status = "active"
  BY DEF Listed
<1>2. w.msg \in Messages /\ Table(d)
  BY LaterTable DEF Carried, Turn
<1>3. CASE BeginCancel(t, d, w.msg)
  BY <1>2, <1>3, CancelBegins DEF TypeOK
<1>4. CASE Fresh(t, over, w)
  <2>1. "replaced" \in Statuses /\ "replaced" \in Closed
    BY DEF Statuses, Closed
  <2> HIDE DEF S
  <2>2. Later(d, over)
    BY <1>1, <1>2, <2>1, MarkedLater
  <2> HIDE DEF over
  <2>3. Carried(over, w)
    BY <2>2, QueueLater DEF Carried, Turn
  <2>4. Later(draft, over)
    BY <2>2, LaterTrans
  <2> QED BY <1>4, <2>3, <2>4, Freshens
<1>5. ASSUME Cardinality(S) = 1, ~(\A m \in S : Replaces(w.msg, d[m])),
             NEW m \in S,
             Await(t, d, [Idle EXCEPT !.pc = "resolving", !.msg = w.msg, !.draft = m])
      PROVE  Stretched(t)
  <2> DEFINE v == [Idle EXCEPT !.pc = "resolving", !.msg = w.msg, !.draft = m]
  <2>1. ~Replaces(w.msg, d[m])
    <3> HIDE DEF S
    <3>1. IsFiniteSet(S)
      BY <1>1, MessagesAssumption, FS_Subset
    <3>2. \A x \in S : x = m
      BY <1>5, <3>1, FS_Singleton
    <3> QED BY <1>5, <3>2
  <2>2. m \in Messages /\ d[m].status = "active" /\ d[m].what = said[m].what /\ m # None
    BY <1>1, <1>2, NoneAssumption DEF Table, RowsOK, RowOK
  <2>3. v \in Turn
    <3>1. 0 \in 0 .. MaxAttempts
      BY BoundsAssumption
    <3> QED BY <1>2, <2>2, <3>1 DEF Idle, Turn
  <2>4. TurnOK(d, v)
    BY <1>2, <2>1, <2>2, NoneAssumption
       DEF TurnOK, Idle, QueueOK, Cancelling, Resolving, NotTaken, Replaces
  <2>5. Await(t, d, v)
    BY <1>5
  <2> HIDE DEF v
  <2> QED BY <2>3, <2>4, <2>5, Awaits
<1>6. CASE End(t, d, Says("clarify"))
  BY <1>6, Says_OK, Ends
<1> QED BY <1>3, <1>4, <1>5, <1>6 DEF Choose

LEMMA Recovers ==
    ASSUME TypeOK, NEW t \in Turns, NEW d, Later(draft, d), NEW w, Carried(d, w),
           Recover(t, d, w)
    PROVE  Stretched(t)
BY AsksNext, Chooses DEF Recover

-----------------------------------------------------------------------------
(* Each stretch leaves what Stretched says ... *)

LEMMA TurnFacts ==
    ASSUME DraftInv, NEW t \in Turns
    PROVE  /\ turn[t] \in Turn /\ TurnOK(draft, turn[t])
           /\ said \in [Messages -> Saying]
           /\ Table(draft) /\ Later(draft, draft)
<1>1. Table(draft)
  BY DEF DraftInv, TypeOK, Table
<1>2. said \in [Messages -> Saying]
  BY ScriptsAssumption DEF DraftInv, TypeOK
<1> QED BY <1>1, <1>2, LaterSame DEF DraftInv, TypeOK, TurnsOK

LEMMA BeginsMutation ==
    ASSUME DraftInv, NEW t \in Turns, NEW m \in Messages, BeginMutation(t, m)
    PROVE  Stretched(t)
<1> DEFINE kept == ExpireStale(draft)
           again == Redelivered(kept, m)
<1>1. Later(draft, kept) /\ Table(kept)
  BY TurnFacts, ExpireLater, LaterTable
<1>2. CASE \E n \in again : End(t, kept, Says("known")) \/ End(t, kept, Says("clarify"))
  <2> HIDE DEF kept
  <2> QED BY <1>1, <1>2, Says_OK, Ends
<1>3. ASSUME NEW n \in again, kept[n].status = "proposing",
             Ask(t, kept, [Idle EXCEPT !.msg = m], "propose", n, Proposal(kept, n))
      PROVE  Stretched(t)
  <2>1. n \in Messages
    BY DEF Redelivered
  <2> HIDE DEF kept
  <2> DEFINE v == [Idle EXCEPT !.msg = m]
  <2>2. /\ Proposal(kept, n) \in Requests
        /\ Proposal(kept, n).op = <<"draft", n>>
        /\ RequestOK(kept, Proposal(kept, n))
    BY <1>1, <1>3, <2>1, ProposalOK
  <2>3. Carried(kept, v)
    <3>1. 0 \in 0 .. MaxAttempts /\ m # None
      BY BoundsAssumption, NoneAssumption
    <3>2. v \in Turn
      BY <3>1 DEF Idle, Turn
    <3> QED BY <3>1, <3>2 DEF Idle, Carried, QueueOK, NotTaken
  <2>4. Ask(t, kept, v, "propose", n, Proposal(kept, n))
    BY <1>3
  <2> HIDE DEF v
  <2> QED BY <1>1, <2>1, <2>2, <2>3, <2>4, Asks
<1>4. ASSUME Recover(t, kept, [Idle EXCEPT !.msg = m, !.aged = aged,
                                           !.queue = Reemissions(kept, aged)])
      PROVE  Stretched(t)
  <2> DEFINE v == [Idle EXCEPT !.msg = m, !.aged = aged, !.queue = Reemissions(kept, aged)]
  <2>1. Carried(kept, v)
    <3> HIDE DEF kept
    <3>1. Reemissions(kept, aged) \in SUBSET Requests /\ QueueOK(kept, Reemissions(kept, aged))
      BY <1>1, ReemissionsOK
    <3>2. 0 \in 0 .. MaxAttempts /\ m # None /\ aged \subseteq Messages
      BY BoundsAssumption, NoneAssumption DEF DraftInv, TypeOK
    <3>3. v \in Turn
      BY <3>1, <3>2 DEF Idle, Turn
    <3>4. v.msg = m /\ v.queue = Reemissions(kept, aged) /\ v.past = {}
      BY DEF Idle
    <3> QED BY <3>1, <3>2, <3>3, <3>4 DEF Carried, NotTaken
  <2>2. Recover(t, kept, v)
    BY <1>4
  <2>3. TypeOK
    BY DEF DraftInv
  <2> HIDE DEF kept, v
  <2> QED BY <1>1, <2>1, <2>2, <2>3, Recovers
<1> QED BY <1>2, <1>3, <1>4 DEF BeginMutation

LEMMA Delivers ==
    ASSUME DraftInv, NEW t \in Turns, NEW m \in Messages, Deliver(t, m)
    PROVE  Stretched(t)
<1>1. Later(draft, draft) /\ aged \subseteq Messages
  BY TurnFacts DEF DraftInv, TypeOK
<1>2. CASE BeginCancel(t, draft, m)
  BY <1>1, <1>2, CancelBegins
<1>3. CASE BeginMutation(t, m)
  BY <1>3, BeginsMutation
<1>4. CASE End(t, draft, Says("elsewhere"))
  BY <1>1, <1>4, Says_OK, Ends
<1> QED BY <1>2, <1>3, <1>4 DEF Deliver

(* Only a draft that is active is taken by the compare-and-set. *)
LEMMA CasStep ==
    ASSUME NEW m \in Messages, NEW r \in Draft, NEW s \in Draft, NEW by \in Messages,
           RowStep(m, r, s), s.account # None
    PROVE  RowStep(m, r, Cas(s, by).row)
<1> DEFINE u == [s EXCEPT !.status = "proposing", !.last = by]
<1>1. CASE s.status = "active"
  <2>1. Cas(s, by).row = u
    BY <1>1 DEF Cas
  <2>2. /\ u.status = "proposing" /\ u.account = s.account /\ u.what = s.what /\ u \in Draft
    BY DEF Draft, Statuses
  <2> HIDE DEF u
  <2>3. RowOK(m, u)
    BY <1>1, <2>2 DEF RowStep, RowOK, HandedOver
  <2> QED BY <1>1, <2>1, <2>2, <2>3 DEF RowStep, HandedOver, Closed
<1>2. CASE s.status # "active"
  BY <1>2 DEF Cas
<1> QED BY <1>1, <1>2

LEMMA Continues ==
    ASSUME DraftInv, NEW t \in Turns, turn[t].pc = "resolving", turn[t].draft # None,
           NEW account \in {said[turn[t].msg].account, None}, Continue(t, account)
    PROVE  Stretched(t)
<1> DEFINE w == turn[t]
           m == w.draft
           row == [draft[m] EXCEPT !.last = w.msg,
                                   !.account = IF account = None THEN @ ELSE account]
           cas == Cas(row, w.msg)
           noted == [draft EXCEPT ![m] = row]
           table == [draft EXCEPT ![m] = cas.row]
<1>1. /\ Table(draft) /\ draft[m] \in Draft /\ RowOK(m, draft[m])
      /\ m \in Messages /\ w.msg \in Messages /\ w \in Turn
      /\ said[w.msg].account \in Accounts \cup {None}
      /\ draft[m].status # "absent" /\ draft[m].what = said[m].what
      /\ said[w.msg].what \in {None, said[m].what} /\ ~said[w.msg].reset
  <2>1. w \in Turn /\ TurnOK(draft, w) /\ said \in [Messages -> Saying] /\ Table(draft)
    BY TurnFacts
  <2>2. m \in Messages /\ w.msg \in Messages /\ Resolving(draft, w)
    BY <2>1 DEF Turn, TurnOK
  <2>3. draft[m] \in Draft /\ RowOK(m, draft[m])
    BY <2>1, <2>2 DEF Table, RowsOK
  <2>4. /\ draft[m].status # "absent" /\ said[w.msg].what \in {None, said[m].what}
        /\ ~said[w.msg].reset
    BY <2>2 DEF Resolving
  <2>5. draft[m].what = said[m].what
    BY <2>3, <2>4 DEF RowOK
  <2>6. said[w.msg].account \in Accounts \cup {None}
    BY <2>1, <2>2 DEF Saying
  <2> QED BY <2>1, <2>2, <2>3, <2>4, <2>5, <2>6
<1>2. RowStep(m, draft[m], row) /\ row \in Draft /\ (account # None => row.account # None)
  <2> HIDE DEF w, m
  <2>1. /\ row \in Draft /\ row.status = draft[m].status /\ row.what = draft[m].what
        /\ row.account = IF account = None THEN draft[m].account ELSE account
    <3>1. account \in Accounts \cup {None} /\ draft[m] \in Draft /\ w.msg \in Messages
      BY <1>1 DEF w
    <3> QED BY <3>1 DEF Draft
  <2>2. account # None => Sourced(m, account, "draft")
    BY <1>1 DEF Sourced, MayName, w, m
  <2> HIDE DEF row
  <2> QED BY <1>1, <2>1, <2>2 DEF RowStep, RowOK
<1>3. CASE account = None /\ End(t, noted, Says("clarify"))
  <2> HIDE DEF row
  <2>1. Later(draft, noted)
    BY <1>1, <1>2, RowLater
  <2> HIDE DEF noted
  <2> QED BY <1>3, <2>1, Says_OK, Ends
<1>4. ASSUME account # None PROVE Later(draft, table)
  <2> HIDE DEF row, w, m
  <2>1. RowStep(m, draft[m], Cas(row, w.msg).row)
    BY <1>1, <1>2, <1>4, CasStep
  <2> QED BY <1>1, <2>1, RowLater
<1>5. ASSUME account # None, cas.ok,
             Ask(t, table, [Idle EXCEPT !.msg = w.msg], "propose", m, Proposal(table, m))
      PROVE  Stretched(t)
  <2> DEFINE v == [Idle EXCEPT !.msg = w.msg]
  <2>1. cas.row.status = "proposing"
    BY <1>5 DEF Cas
  <2>2. table[m].status = "proposing" /\ Table(table) /\ Later(draft, table)
    <3>1. table[m] = cas.row
      BY <1>1 DEF Table
    <3> HIDE DEF table
    <3> QED BY <1>4, <1>5, <2>1, <3>1, LaterTable
  <2> HIDE DEF table, cas, row
  <2>3. /\ Proposal(table, m) \in Requests
        /\ Proposal(table, m).op = <<"draft", m>>
        /\ RequestOK(table, Proposal(table, m))
    BY <1>1, <2>2, ProposalOK
  <2>4. Carried(table, v)
    <3>1. 0 \in 0 .. MaxAttempts /\ w.msg # None
      BY <1>1, BoundsAssumption, NoneAssumption
    <3> HIDE DEF w
    <3>2. v \in Turn
      BY <1>1, <3>1 DEF Idle, Turn
    <3> QED BY <3>1, <3>2 DEF Idle, Carried, QueueOK, NotTaken
  <2>5. Ask(t, table, v, "propose", m, Proposal(table, m))
    BY <1>5
  <2> HIDE DEF v, w, m
  <2> QED BY <1>1, <2>2, <2>3, <2>4, <2>5, Asks
<1>6. ASSUME account # None,
             NEW k \in {"known", "inconclusive", "clarify"}, End(t, table, Says(k))
      PROVE  Stretched(t)
  <2> HIDE DEF table
  <2> QED BY <1>4, <1>6, Says_OK, Ends
<1>7. \/ account = None /\ End(t, noted, Says("clarify"))
      \/ /\ account # None /\ cas.ok
         /\ Ask(t, table, [Idle EXCEPT !.msg = w.msg], "propose", m, Proposal(table, m))
      \/ /\ account # None
         /\ \E k \in {"known", "inconclusive", "clarify"} : End(t, table, Says(k))
  BY Zenon DEF Continue
<1> HIDE DEF table, noted, cas
<1> QED BY <1>3, <1>5, <1>6, <1>7

LEMMA Originates ==
    ASSUME DraftInv, NEW t \in Turns, turn[t].pc = "resolving", turn[t].draft = None,
           NEW account \in {said[turn[t].msg].account, None}, Originate(t, account)
    PROVE  Stretched(t)
<1> DEFINE m == turn[t].msg
           fresh == [status |-> "active", what |-> said[m].what, account |-> None, last |-> m]
           row == IF draft[m] = NoDraft THEN fresh ELSE draft[m]
           table == [draft EXCEPT ![m] = row]
           q == [op |-> <<"turn", m>>,
                 hash |-> [what |-> said[m].what, account |-> account]]
           v == [Idle EXCEPT !.msg = m, !.pc = "asking", !.why = "direct", !.draft = None,
                             !.request = q, !.tries = 1, !.answer = "none"]
<1>1. /\ Table(draft) /\ Later(draft, draft) /\ turn[t] \in Turn
      /\ TurnOK(draft, turn[t]) /\ said \in [Messages -> Saying]
  BY TurnFacts
<1>2. m \in Messages /\ said[m].what # None
  BY <1>1 DEF Turn, TurnOK, Resolving
<1>3. said[m].what \in Whats /\ said[m].account \in Accounts \cup {None} /\ m # None
  BY <1>1, <1>2, NoneAssumption DEF Saying
<1>4. RowStep(m, draft[m], row)
  <2>1. draft[m] \in Draft /\ RowOK(m, draft[m])
    BY <1>1, <1>2 DEF Table, RowsOK
  <2>2. CASE draft[m] = NoDraft
    <3>1. draft[m].status = "absent" /\ standing[<<"draft", m>>] = "absent"
      BY <2>1, <2>2 DEF NoDraft, RowOK, HandedOver
    <3>2. fresh \in Draft
      BY <1>2, <1>3 DEF Draft, Statuses
    <3> QED BY <1>3, <2>2, <3>1, <3>2 DEF RowStep, RowOK, HandedOver, Closed
  <2>3. CASE draft[m] # NoDraft
    BY <2>1, <2>3 DEF RowStep
  <2> QED BY <2>2, <2>3
<1>5. CASE End(t, table, Says("clarify"))
  <2> HIDE DEF row
  <2>1. Later(draft, table)
    BY <1>1, <1>2, <1>4, RowLater
  <2> HIDE DEF table
  <2> QED BY <1>5, <2>1, Says_OK, Ends
<1>6. CASE account # None /\ Await(t, draft, v)
  <2>1. q \in Requests
    BY <1>2, <1>3, <1>6 DEF Requests, Ops, Hashes
  <2>2. RequestOK(draft, q)
    BY <1>2, <1>6 DEF RequestOK, Described, Sourced, MayName
  <2>3. q.op[1] = "turn"
    OBVIOUS
  <2> HIDE DEF q
  <2>4. v \in Turn
    <3>1. 1 \in 0 .. MaxAttempts
      BY BoundsAssumption
    <3> QED BY <1>2, <2>1, <3>1 DEF Idle, Turn
  <2>5. TurnOK(draft, v)
    BY <1>3, <2>1, <2>2, <2>3 DEF TurnOK, Idle, QueueOK, Cancelling, Asking, NotTaken
  <2> HIDE DEF v, m
  <2> QED BY <1>1, <1>6, <2>4, <2>5, Awaits
<1>7. \/ End(t, table, Says("clarify"))
      \/ account # None /\ Await(t, draft, v)
  <2>1. \/ End(t, table, Says("clarify"))
        \/ account # None /\ Ask(t, draft, [Idle EXCEPT !.msg = m], "direct", None, q)
    BY Zenon DEF Originate
  <2>2. ASSUME Ask(t, draft, [Idle EXCEPT !.msg = m], "direct", None, q)
        PROVE  Await(t, draft, v)
    <3> HIDE DEF m, q
    <3>1. [[Idle EXCEPT !.msg = m] EXCEPT !.pc = "asking", !.why = "direct",
              !.draft = None, !.request = q, !.tries = 1, !.answer = "none"] = v
      BY DEF Idle
    <3> QED BY <2>2, <3>1 DEF Ask
  <2> HIDE DEF table, v, q
  <2> QED BY <2>1, <2>2
<1> HIDE DEF table, v
<1> QED BY <1>5, <1>6, <1>7

LEMMA Resolves ==
    ASSUME DraftInv, NEW t \in Turns, Resolve(t)
    PROVE  Stretched(t)
<1>1. PICK account \in {said[turn[t].msg].account, None} :
          IF turn[t].draft = None THEN Originate(t, account) ELSE Continue(t, account)
  BY DEF Resolve
<1>2. turn[t].pc = "resolving"
  BY DEF Resolve
<1>3. CASE turn[t].draft = None
  BY <1>1, <1>2, <1>3, Originates
<1>4. CASE turn[t].draft # None
  BY <1>1, <1>2, <1>4, Continues
<1> QED BY <1>3, <1>4

(* What a turn that awaits an answer has in hand *)
LEMMA AskingFacts ==
    ASSUME DraftInv, NEW t \in Turns, turn[t].pc = "asking"
    PROVE  /\ turn[t].request \in Requests /\ RequestOK(draft, turn[t].request)
           /\ turn[t].answer = "ok" => Granted(turn[t].request)
           /\ Carried(draft, turn[t])
           /\ turn[t].why # "direct" =>
                  /\ turn[t].draft \in Messages
                  /\ turn[t].request.op = <<"draft", turn[t].draft>>
                  /\ draft[turn[t].draft].status \in HandedOver
<1>1. turn[t] \in Turn /\ TurnOK(draft, turn[t])
  BY TurnFacts
<1>2. Carried(draft, turn[t]) /\ Asking(draft, turn[t])
  BY <1>1 DEF TurnOK, Carried
<1>3. turn[t].why # "direct" =>
          /\ turn[t].draft \in Messages
          /\ turn[t].request.op = <<"draft", turn[t].draft>>
  BY <1>1, <1>2 DEF Asking, Turn
<1>4. turn[t].why # "direct" => draft[turn[t].draft].status \in HandedOver
  BY <1>2, <1>3 DEF Asking, RequestOK
<1> QED BY <1>2, <1>3, <1>4 DEF Asking

(* The row of a draft in hand may be settled by its answer. *)
LEMMA Settled ==
    ASSUME DraftInv, NEW t \in Turns, turn[t].pc = "asking", turn[t].answer # "none",
           turn[t].why # "direct",
           NEW to, to = IF turn[t].answer = "ok" THEN "consumed" ELSE "rejected"
    PROVE  /\ Later(draft, Marked(draft, {turn[t].draft}, to, turn[t].msg))
           /\ Later(draft, [draft EXCEPT ![turn[t].draft].status = to])
<1> DEFINE m == turn[t].draft
<1>1. /\ m \in Messages /\ draft[m].status \in HandedOver /\ Table(draft)
      /\ turn[t].msg \in Messages \cup {None} /\ draft[m] \in Draft /\ RowOK(m, draft[m])
  BY AskingFacts, TurnFacts DEF Turn, Table, RowsOK
<1>2. /\ to \in Statuses /\ to \in {"consumed", "rejected"}
      /\ to = "consumed" => standing[<<"draft", m>>] # "absent"
  BY AskingFacts DEF Statuses, Granted
<1> HIDE DEF m
<1>3. Later(draft, Marked(draft, {m}, to, turn[t].msg))
  <2> DEFINE S == {m}
  <2>1. S \in SUBSET Messages /\ \A x \in S : x = m
    BY <1>1
  <2> HIDE DEF S
  <2>2. Later(draft, Marked(draft, S, to, turn[t].msg))
    BY <1>1, <1>2, <2>1, MarkedLater
  <2> QED BY <2>2 DEF S
<1>4. Later(draft, [draft EXCEPT ![m] = [draft[m] EXCEPT !.status = to]])
  <2> DEFINE r == [draft[m] EXCEPT !.status = to]
  <2>1. RowStep(m, draft[m], r)
    BY <1>1, <1>2, RowRestated
  <2> HIDE DEF r
  <2>2. Later(draft, [draft EXCEPT ![m] = r])
    BY <1>1, <2>1, RowLater
  <2> QED BY <2>2 DEF r
<1>5. [draft EXCEPT ![m].status = to] = [draft EXCEPT ![m] = [draft[m] EXCEPT !.status = to]]
  OBVIOUS
<1> QED BY <1>3, <1>4, <1>5 DEF m

LEMMA CarriedLater ==
    ASSUME NEW d, NEW e, Later(d, e), NEW w, Carried(d, w)
    PROVE  Carried(e, w)
BY QueueLater DEF Carried, Turn

LEMMA Receives ==
    ASSUME DraftInv, NEW t \in Turns, Receive(t)
    PROVE  Stretched(t)
<1> DEFINE w == turn[t]
           to == IF w.answer = "ok" THEN "consumed" ELSE "rejected"
           marked == Marked(draft, {w.draft}, to, w.msg)
           set == [draft EXCEPT ![w.draft].status = to]
           r == IF w.answer = "ok" THEN [Says("card") EXCEPT !.request = w.request]
                ELSE Says("failed")
           d == IF w.why = "direct" THEN draft ELSE marked
<1>1. w.pc = "asking" /\ w.answer # "none"
  BY DEF Receive
<1>2. w.why # "direct" => Later(draft, marked) /\ Later(draft, set)
  BY <1>1, Settled
<1>3. Carried(draft, w) /\ TypeOK /\ Later(draft, draft)
  BY <1>1, AskingFacts, TurnFacts DEF DraftInv
<1>4. r \in Reply /\ ReplyOK(r)
  <2>1. CASE w.answer = "ok"
    <3>1. w.request \in Requests /\ Granted(w.request)
      BY <1>1, <2>1, AskingFacts
    <3>2. [Says("card") EXCEPT !.request = w.request] \in Reply
      BY <3>1 DEF Says, Reply
    <3> QED BY <2>1, <3>1, <3>2 DEF Says, ReplyOK, NotTaken
  <2>2. CASE w.answer # "ok"
    BY <2>2, Says_OK
  <2> QED BY <2>1, <2>2
<1>5. \/ End(t, d, r)
      \/ w.why = "recover" /\ Recover(t, set, w)
      \/ w.why = "settle" /\ Settle(t, marked, w)
  BY Zenon DEF Receive
<1> HIDE DEF marked, set, r, w
<1>6. CASE End(t, d, r)
  <2>1. Later(draft, d)
    BY <1>2, <1>3
  <2> HIDE DEF d
  <2> QED BY <1>4, <1>6, <2>1, Ends
<1>7. CASE w.why = "recover" /\ Recover(t, set, w)
  BY <1>2, <1>3, <1>7, CarriedLater, Recovers
<1>8. CASE w.why = "settle" /\ Settle(t, marked, w)
  BY <1>2, <1>3, <1>8, CarriedLater, Settles
<1> QED BY <1>5, <1>6, <1>7, <1>8

LEMMA GivesUp ==
    ASSUME DraftInv, NEW t \in Turns, GiveUp(t)
    PROVE  Stretched(t)
<1> DEFINE w == turn[t]
           touched == [draft EXCEPT ![w.draft].last = w.msg]
           v == [w EXCEPT !.tries = @ + 1, !.answer = "none"]
           u == [w EXCEPT !.unknown = TRUE]
<1>1. /\ w.pc = "asking" /\ w \in Turn /\ TurnOK(draft, w) /\ TypeOK
      /\ Carried(draft, w) /\ Later(draft, draft) /\ Table(draft)
  BY AskingFacts, TurnFacts DEF DraftInv, GiveUp
<1>2. w.why # "direct" => Later(draft, touched)
  <2> SUFFICES ASSUME w.why # "direct" PROVE Later(draft, touched)
    OBVIOUS
  <2> DEFINE m == w.draft
             r == [draft[m] EXCEPT !.last = w.msg]
  <2>1. m \in Messages /\ draft[m] \in Draft /\ RowOK(m, draft[m]) /\ w.msg \in Messages \cup {None}
    BY <1>1, AskingFacts DEF Table, RowsOK, Turn
  <2>2. RowStep(m, draft[m], r)
    <3> HIDE DEF m, w
    <3> QED BY <2>1 DEF RowStep, RowOK, Draft
  <2> HIDE DEF r
  <2>3. Later(draft, [draft EXCEPT ![m] = r])
    BY <1>1, <2>1, <2>2, RowLater
  <2> QED BY <2>3 DEF r
<1>3. \/ w.why = "propose" /\ w.tries < MaxAttempts /\ Await(t, draft, v)
      \/ w.why = "propose" /\ End(t, touched, Says("inconclusive"))
      \/ w.why = "recover" /\ Recover(t, draft, w)
      \/ w.why = "settle" /\ Settle(t, touched, u)
      \/ w.why = "direct" /\ End(t, draft, Says("failed"))
  BY Zenon DEF GiveUp
<1>4. CASE w.tries < MaxAttempts /\ Await(t, draft, v)
  <2> HIDE DEF w
  <2>1. w.tries + 1 \in 0 .. MaxAttempts
    BY <1>1, <1>4, BoundsAssumption DEF Turn
  <2>2. v \in Turn
    BY <1>1, <2>1 DEF Turn
  <2>3. TurnOK(draft, v)
    <3>1. /\ v.pc = "asking" /\ v.answer = "none" /\ v.request = w.request
          /\ v.why = w.why /\ v.draft = w.draft /\ v.msg = w.msg
          /\ v.queue = w.queue /\ v.past = w.past
      BY <1>1 DEF Turn
    <3> HIDE DEF v
    <3> QED BY <1>1, <3>1 DEF TurnOK, Asking, Cancelling
  <2> HIDE DEF v
  <2> QED BY <1>1, <1>4, <2>2, <2>3, Awaits
<1>5. CASE w.why = "propose" /\ End(t, touched, Says("inconclusive"))
  <2> HIDE DEF w, touched
  <2> QED BY <1>2, <1>5, Says_OK, Ends
<1>6. CASE Recover(t, draft, w)
  BY <1>1, <1>6, Recovers
<1>7. CASE w.why = "settle" /\ Settle(t, touched, u)
  <2>1. Carried(draft, u)
    <3> HIDE DEF w
    <3>1. u \in Turn /\ u.msg = w.msg /\ u.queue = w.queue /\ u.past = w.past
      BY <1>1 DEF Turn
    <3> HIDE DEF u
    <3> QED BY <1>1, <3>1 DEF Carried
  <2> HIDE DEF w, touched, u
  <2> QED BY <1>2, <1>7, <2>1, CarriedLater, Settles
<1>8. CASE End(t, draft, Says("failed"))
  BY <1>1, <1>8, Says_OK, Ends
<1> HIDE DEF w, touched, u, v
<1> QED BY <1>3, <1>4, <1>5, <1>6, <1>7, <1>8

LEMMA Refuses ==
    ASSUME DraftInv, NEW t \in Turns, Refuse(t)
    PROVE  Stretched(t)
<1> DEFINE w == turn[t]
           v == [w EXCEPT !.answer = "rejected"]
<1>1. /\ w.pc = "asking" /\ w \in Turn /\ TurnOK(draft, w)
      /\ Later(draft, draft) /\ draft' = draft /\ reply' = reply
  BY TurnFacts DEF Refuse
<1>2. turn' = [turn EXCEPT ![t] = v]
  BY DEF Refuse, Answered
<1> HIDE DEF w
<1>3. /\ v \in Turn /\ v.pc = w.pc /\ v.answer = "rejected" /\ v.request = w.request
      /\ v.why = w.why /\ v.draft = w.draft /\ v.msg = w.msg
      /\ v.queue = w.queue /\ v.past = w.past
  BY <1>1 DEF Turn
<1> HIDE DEF v
<1>4. TurnOK(draft, v)
  BY <1>1, <1>3 DEF TurnOK, Asking, Cancelling
<1> QED BY <1>1, <1>2, <1>3, <1>4 DEF Stretched

LEMMA Lists ==
    ASSUME DraftInv, NEW t \in Turns, ListActive(t)
    PROVE  Stretched(t)
<1> DEFINE w == turn[t]
           open == {o \in Ops : standing[o] = "open"}
           v == [w EXCEPT !.answer = "ok", !.found = open]
<1>1. /\ w.pc = "listing" /\ w \in Turn /\ TurnOK(draft, w)
      /\ Later(draft, draft) /\ draft' = draft /\ reply' = reply
  BY TurnFacts DEF ListActive
<1>2. turn' = [turn EXCEPT ![t] = v]
  BY DEF ListActive
<1> HIDE DEF w
<1>3. /\ v \in Turn /\ v.pc = w.pc /\ v.found = open /\ v.msg = w.msg
      /\ v.queue = w.queue /\ v.past = w.past
  BY <1>1 DEF Turn
<1>4. AllClosed(w.past \ open)
  BY <1>1 DEF TurnOK, NotTaken, AllClosed, Turn
<1> HIDE DEF v
<1>5. TurnOK(draft, v)
  BY <1>1, <1>3, <1>4 DEF TurnOK, Cancelling
<1> QED BY <1>1, <1>2, <1>3, <1>5 DEF Stretched

(* A turn says "cancelled" once all it answers for is closed. *)
LEMMA Cancelled_OK ==
    ASSUME NEW w \in Turn, AllClosed(w.past)
    PROVE  Cancelled(w) \in Reply /\ ReplyOK(Cancelled(w))
<1>1. /\ Cancelled(w) \in Reply /\ Cancelled(w).kind = "cancelled"
      /\ Cancelled(w).past = w.past
  BY DEF Cancelled, Says, Reply, Turn
<1> QED BY <1>1 DEF ReplyOK, AllClosed, NotTaken

LEMMA ChoosesTarget ==
    ASSUME DraftInv, NEW t \in Turns, ChooseTarget(t)
    PROVE  Stretched(t)
<1> DEFINE w == turn[t]
           v == [w EXCEPT !.pc = "cancelling", !.answer = "none"]
<1>1. /\ w.pc = "listing" /\ w.answer # "none" /\ w \in Turn /\ TurnOK(draft, w)
      /\ Later(draft, draft)
  BY TurnFacts DEF ChooseTarget
<1>2. AllClosed(w.past \ w.found)
  BY <1>1 DEF TurnOK, Cancelling
<1>3. CASE w.found = {} /\ End(t, draft, Cancelled(w))
  <2>1. AllClosed(w.past)
    BY <1>2, <1>3 DEF AllClosed
  <2> HIDE DEF w
  <2> QED BY <1>1, <1>3, <2>1, Cancelled_OK, Ends
<1>4. CASE Cardinality(w.found) = 1 /\ Await(t, draft, v)
  <2> HIDE DEF w
  <2>1. /\ v \in Turn /\ v.pc = "cancelling" /\ v.answer = "none" /\ v.msg = w.msg
        /\ v.found = w.found /\ v.queue = w.queue /\ v.past = w.past
    BY <1>1 DEF Turn
  <2> HIDE DEF v
  <2>2. TurnOK(draft, v)
    BY <1>1, <1>2, <1>4, <2>1 DEF TurnOK, Cancelling
  <2> QED BY <1>1, <1>4, <2>1, <2>2, Awaits
<1>5. CASE End(t, draft, Says("clarify"))
  BY <1>1, <1>5, Says_OK, Ends
<1>6. \/ w.found = {} /\ End(t, draft, Cancelled(w))
      \/ Cardinality(w.found) = 1 /\ Await(t, draft, v)
      \/ End(t, draft, Says("clarify"))
  BY Zenon DEF ChooseTarget
<1> HIDE DEF w, v
<1> QED BY <1>3, <1>4, <1>5, <1>6

LEMMA Concludes ==
    ASSUME DraftInv, NEW t \in Turns, Conclude(t)
    PROVE  Stretched(t)
<1>1. /\ turn[t].pc = "cancelling" /\ turn[t] \in Turn /\ TurnOK(draft, turn[t])
      /\ Later(draft, draft)
  BY TurnFacts DEF Conclude
<1>2. CASE turn[t].answer = "ok" /\ End(t, draft, Cancelled(turn[t]))
  <2>1. AllClosed(turn[t].past)
    BY <1>1, <1>2 DEF TurnOK, Cancelling, AllClosed
  <2> QED BY <1>1, <1>2, <2>1, Cancelled_OK, Ends
<1>3. CASE End(t, draft, Says("inconclusive"))
  BY <1>1, <1>3, Says_OK, Ends
<1> QED BY <1>2, <1>3 DEF Conclude

LEMMA Abandons ==
    ASSUME DraftInv, NEW t \in Turns, Abandon(t)
    PROVE  Stretched(t)
BY TurnFacts, Says_OK, Ends DEF Abandon

-----------------------------------------------------------------------------
(* ... and what Stretched says keeps the invariant and closed drafts closed. *)

ClosedKept ==
    \A m \in Messages : draft[m].status \in Closed => draft'[m].status = draft[m].status

LEMMA StretchKeeps ==
    ASSUME DraftInv, NEW t \in Turns, Stretched(t), UNCHANGED <<said, standing, content>>,
           late' \subseteq Requests, \A q \in late' : RequestOK(draft, q),
           aged' \subseteq Messages, begun' \in 0 .. MaxTurns,
           winners' \in [Messages -> SUBSET Messages]
    PROVE  DraftInv' /\ ClosedKept
<1>1. Later(draft, draft')
  BY DEF Stretched
<1>2. RowsOK(draft') /\ draft' \in [Messages -> Draft] /\ ClosedKept
  BY <1>1, LaterTable DEF Table, ClosedKept, Later, RowStep
<1>3. RowsOK(draft)'
  BY ZenonT(60), <1>2 DEF RowsOK, RowOK, Sourced, MayName
<1>4. PICK w \in Turn : turn' = [turn EXCEPT ![t] = w] /\ TurnOK(draft', w)
  BY DEF Stretched
<1>5. turn' \in [Turns -> Turn] /\ \A s \in Turns : TurnOK(draft', turn'[s])
  <2>1. turn \in [Turns -> Turn] /\ \A s \in Turns : TurnOK(draft, turn[s])
    BY DEF DraftInv, TypeOK, TurnsOK
  <2>2. \A s \in Turns : turn[s] \in Turn /\ TurnOK(draft', turn[s])
    BY <1>1, <2>1, TurnLater
  <2> QED BY <1>4, <2>1, <2>2
<1>6. TurnsOK'
  <2>1. ASSUME NEW s \in Turns PROVE TurnOK(draft, turn[s])'
    <3>1. TurnOK(draft', turn'[s])
      BY <1>5
    <3> QED BY <3>1
          DEF TurnOK, Resolving, Asking, QueueOK, RequestOK, Described, Sourced,
              MayName, Granted, NotTaken, Cancelling, AllClosed
  <2> QED BY ZenonT(60), <2>1 DEF TurnsOK
<1>7. reply' \in [Turns -> Reply] /\ RepliesOK'
  <2>1. reply \in [Turns -> Reply] /\ \A s \in Turns : ReplyOK(reply[s])
    BY DEF DraftInv, TypeOK, RepliesOK
  <2>2. reply' \in [Turns -> Reply] /\ \A s \in Turns : ReplyOK(reply'[s])
    BY <2>1 DEF Stretched
  <2> QED BY <2>2 DEF RepliesOK, ReplyOK, Granted, NotTaken, AllClosed
<1>8. LateOK'
  <2>1. \A q \in late' : RequestOK(draft', q)
    BY <1>1, RequestLater
  <2> QED BY <2>1 DEF LateOK, RequestOK, Described, Sourced, MayName
<1>9. ContentOK'
  BY DEF DraftInv, ContentOK, Described, Sourced, MayName
<1>10. TypeOK'
  BY <1>2, <1>5, <1>7 DEF DraftInv, TypeOK
<1> QED BY <1>2, <1>3, <1>6, <1>7, <1>8, <1>9, <1>10 DEF DraftInv

-----------------------------------------------------------------------------
(* The API moves: operations come to be, close, and are taken up. *)

ApiMoves ==
    /\ standing' \in [Ops -> {"absent", "open", "taken", "closed"}]
    /\ content' \in [Ops -> Hashes \cup {None}]
    /\ \A o \in Ops :
           /\ standing[o] # "absent" => standing'[o] # "absent" /\ content'[o] = content[o]
           /\ standing[o] = "closed" => standing'[o] = "closed"

(* An operation that is not taken up is not. *)
NoneTaken ==
    \A o \in Ops : standing[o] \in {"open", "closed"} => standing'[o] \in {"open", "closed"}

LEMMA HandleMoves ==
    ASSUME DraftInv, NEW q \in Requests, RequestOK(draft, q), NEW answer, Handle(q, answer),
           UNCHANGED <<said, draft>>
    PROVE  /\ ApiMoves /\ NoneTaken /\ RowsOK(draft)' /\ ContentOK'
           /\ answer = "ok" => Granted(q)'
<1>1. /\ standing \in [Ops -> {"absent", "open", "taken", "closed"}]
      /\ content \in [Ops -> Hashes \cup {None}]
      /\ q.op \in Ops /\ q.hash \in Hashes
  BY DEF DraftInv, TypeOK, Requests
<1>2. CASE API!Propose(q.op, q.hash)
  <2>1. /\ standing[q.op] = "absent"
        /\ standing' = [standing EXCEPT ![q.op] = "open"]
        /\ content' = [content EXCEPT ![q.op] = q.hash]
    BY <1>2 DEF API!Propose
  <2>2. ApiMoves /\ NoneTaken /\ Granted(q)'
    BY <1>1, <2>1 DEF ApiMoves, NoneTaken, Granted
  <2>3. ContentOK'
    <3>1. \A o \in Ops : content'[o] = IF o = q.op THEN q.hash ELSE content[o]
      BY <1>1, <2>1
    <3>2. \A o \in Ops : content'[o] # None => Described(o, content'[o])
      BY <3>1 DEF DraftInv, ContentOK, RequestOK
    <3> QED BY <3>2 DEF ContentOK, Described, Sourced, MayName
  <2>4. RowsOK(draft)'
    <3> SUFFICES ASSUME NEW m \in Messages PROVE RowOK(m, draft[m])'
      BY DEF RowsOK
    <3>1. RowOK(m, draft[m]) /\ <<"draft", m>> \in Ops
      BY DEF DraftInv, RowsOK, Ops
    <3>2. draft[m].status \notin HandedOver => <<"draft", m>> # q.op
      BY DEF RequestOK
    <3>3. /\ draft[m].status \notin HandedOver => standing'[<<"draft", m>>] = "absent"
          /\ draft[m].status = "consumed" => standing'[<<"draft", m>>] # "absent"
      BY <1>1, <2>1, <3>1, <3>2 DEF RowOK
    <3> QED BY <3>1, <3>3 DEF RowOK, Sourced, MayName
  <2> QED BY <2>2, <2>3, <2>4
<1>3. CASE /\ standing[q.op] # "absent" /\ UNCHANGED <<standing, content>>
           /\ answer = IF content[q.op] = q.hash THEN "ok" ELSE "rejected"
  <2>1. ApiMoves /\ NoneTaken
    BY <1>1, <1>3 DEF ApiMoves, NoneTaken
  <2>2. answer = "ok" => Granted(q)'
    BY <1>3 DEF Granted
  <2>3. ContentOK' /\ RowsOK(draft)'
    BY <1>3 DEF DraftInv, ContentOK, Described, Sourced, MayName, RowsOK, RowOK
  <2> QED BY <2>1, <2>2, <2>3
<1> QED BY <1>2, <1>3 DEF Handle

(* An operation that exists changes its standing. *)
LEMMA GoesMoves ==
    ASSUME DraftInv, NEW o \in Ops, NEW from \in {"open", "taken"},
           NEW to \in {"open", "taken", "closed"}, API!Goes(o, from, to),
           UNCHANGED <<said, draft>>
    PROVE  /\ ApiMoves /\ RowsOK(draft)' /\ ContentOK'
           /\ to # "taken" => NoneTaken
           /\ standing'[o] = to
           /\ \A p \in Ops : p # o => standing'[p] = standing[p]
<1>1. /\ standing \in [Ops -> {"absent", "open", "taken", "closed"}]
      /\ content \in [Ops -> Hashes \cup {None}]
      /\ standing[o] = from /\ standing' = [standing EXCEPT ![o] = to] /\ content' = content
  BY DEF DraftInv, TypeOK, API!Goes
<1>2. ApiMoves /\ (to # "taken" => NoneTaken)
  BY <1>1 DEF ApiMoves, NoneTaken
<1>3. ContentOK'
  BY <1>1 DEF DraftInv, ContentOK, Described, Sourced, MayName
<1>4. RowsOK(draft)'
  <2> SUFFICES ASSUME NEW m \in Messages PROVE RowOK(m, draft[m])'
    BY DEF RowsOK
  <2>1. RowOK(m, draft[m]) /\ <<"draft", m>> \in Ops
    BY DEF DraftInv, RowsOK, Ops
  <2>2. standing'[<<"draft", m>>] = "absent" <=> standing[<<"draft", m>>] = "absent"
    BY <1>1, <2>1
  <2> QED BY <2>1, <2>2 DEF RowOK, Sourced, MayName
<1> QED BY <1>1, <1>2, <1>3, <1>4

(* What was granted, closed or asked for stays so. *)
LEMMA ApiKeeps ==
    ASSUME ApiMoves, UNCHANGED <<said, draft>>
    PROVE  /\ \A q \in Requests : Granted(q) => Granted(q)'
           /\ \A q : RequestOK(draft, q) => RequestOK(draft, q)'
           /\ \A S \in SUBSET Ops : AllClosed(S) => AllClosed(S)'
           /\ NoneTaken => \A S \in SUBSET Ops : NotTaken(S) => NotTaken(S)'
<1>1. \A q \in Requests : q.op \in Ops
  BY DEF Requests
<1>2. \A q \in Requests : Granted(q) => Granted(q)'
  BY <1>1 DEF ApiMoves, Granted
<1>3. \A q : RequestOK(draft, q) => RequestOK(draft, q)'
  BY DEF RequestOK, Described, Sourced, MayName
<1>4. \A S \in SUBSET Ops : AllClosed(S) => AllClosed(S)'
  BY DEF ApiMoves, AllClosed
<1>5. NoneTaken => \A S \in SUBSET Ops : NotTaken(S) => NotTaken(S)'
  BY DEF NoneTaken, NotTaken
<1> QED BY <1>2, <1>3, <1>4, <1>5

(* A turn that answers for no more than before is as sound as it was. *)
LEMMA TurnApi ==
    ASSUME DraftInv, ApiMoves, UNCHANGED <<said, draft>>, NEW t \in Turns,
           NEW P \in SUBSET turn[t].past,
           \A o \in P : standing'[o] \in {"open", "closed"},
           turn'[t] = [turn[t] EXCEPT !.past = P]
    PROVE  turn'[t] \in Turn /\ TurnOK(draft, turn[t])'
<1>1. turn[t] \in Turn /\ TurnOK(draft, turn[t])
  BY TurnFacts
<1>2. /\ turn'[t] \in Turn /\ turn'[t].past = P
      /\ turn'[t].pc = turn[t].pc /\ turn'[t].msg = turn[t].msg
      /\ turn'[t].draft = turn[t].draft /\ turn'[t].request = turn[t].request
      /\ turn'[t].why = turn[t].why /\ turn'[t].answer = turn[t].answer
      /\ turn'[t].queue = turn[t].queue /\ turn'[t].found = turn[t].found
  <2> DEFINE w == turn[t]
             v == turn'[t]
  <2>1. w \in Turn /\ P \in SUBSET Ops /\ v = [w EXCEPT !.past = P]
    BY <1>1 DEF Turn
  <2> HIDE DEF w, v
  <2>2. /\ v \in Turn /\ v.past = P /\ v.pc = w.pc /\ v.msg = w.msg /\ v.draft = w.draft
        /\ v.request = w.request /\ v.why = w.why /\ v.answer = w.answer
        /\ v.queue = w.queue /\ v.found = w.found
    BY <2>1 DEF Turn
  <2> QED BY <2>2 DEF w, v
<1>3. turn'[t].pc = "resolving" => Resolving(draft, turn[t])'
  BY <1>1, <1>2 DEF TurnOK, Resolving
<1>4. turn'[t].pc = "asking" => Asking(draft, turn[t])'
  BY <1>1, <1>2, ApiKeeps DEF TurnOK, Asking
<1>5. QueueOK(draft, turn[t].queue)'
  BY <1>1, <1>2, ApiKeeps DEF TurnOK, QueueOK
<1>6. Cancelling(turn[t])'
  <2>1. Cancelling(turn[t]) /\ turn[t].past \subseteq Ops /\ turn[t].found \subseteq Ops
    BY <1>1 DEF TurnOK, Turn
  <2>2. AllClosed(turn[t].past \ turn[t].found) => AllClosed(turn[t].past \ turn[t].found)'
    BY <1>2, <2>1 DEF AllClosed, ApiMoves
  <2>3. AllClosed(turn[t].found) => AllClosed(turn[t].found)'
    BY <1>2, <2>1 DEF AllClosed, ApiMoves
  <2> QED BY <1>2, <2>1, <2>2, <2>3 DEF Cancelling
<1>7. (turn'[t].pc # "idle" => turn'[t].msg # None) /\ NotTaken(turn[t].past)'
  BY <1>1, <1>2 DEF TurnOK, NotTaken
<1> QED BY <1>2, <1>3, <1>4, <1>5, <1>6, <1>7 DEF TurnOK

LEMMA TurnQuiet ==
    ASSUME DraftInv, ApiMoves, NoneTaken, UNCHANGED <<said, draft>>, NEW t \in Turns,
           turn'[t] = turn[t]
    PROVE  TurnOK(draft, turn[t])'
<1>1. turn[t] \in Turn /\ NotTaken(turn[t].past) /\ turn[t].past \in SUBSET Ops
  BY TurnFacts DEF TurnOK, Turn
<1>2. turn[t] = [turn[t] EXCEPT !.past = turn[t].past]
  <2> DEFINE w == turn[t]
  <2>1. w \in Turn
    BY <1>1
  <2> HIDE DEF w
  <2>2. w = [w EXCEPT !.past = w.past]
    BY <2>1 DEF Turn
  <2> QED BY <2>2 DEF w
<1>3. \A o \in turn[t].past : standing'[o] \in {"open", "closed"}
  BY <1>1 DEF NoneTaken, NotTaken
<1> DEFINE P == turn[t].past
<1>4. P \in SUBSET turn[t].past /\ turn'[t] = [turn[t] EXCEPT !.past = P]
  BY <1>2
<1> QED BY <1>3, <1>4, TurnApi

LEMMA ReplyApi ==
    ASSUME DraftInv, ApiMoves, NEW t \in Turns, NEW P \in SUBSET reply[t].past,
           \A o \in P : standing'[o] \in {"open", "closed"},
           reply'[t] = [reply[t] EXCEPT !.past = P]
    PROVE  reply'[t] \in Reply /\ ReplyOK(reply[t])'
<1>1. reply[t] \in Reply /\ ReplyOK(reply[t])
  BY DEF DraftInv, TypeOK, RepliesOK
<1>2. /\ reply'[t] \in Reply /\ reply'[t].past = P /\ reply'[t].kind = reply[t].kind
      /\ reply'[t].request = reply[t].request
  <2> DEFINE r == reply[t]
  <2>1. r \in Reply /\ P \in SUBSET Ops /\ reply'[t] = [r EXCEPT !.past = P]
    BY <1>1 DEF Reply
  <2> HIDE DEF r
  <2>2. [r EXCEPT !.past = P] \in Reply
    BY <2>1 DEF Reply
  <2>3. /\ [r EXCEPT !.past = P].past = P /\ [r EXCEPT !.past = P].kind = r.kind
        /\ [r EXCEPT !.past = P].request = r.request
    BY <2>1 DEF Reply
  <2> QED BY <2>1, <2>2, <2>3 DEF r
<1>3. reply'[t].kind = "card" => reply'[t].request \in Requests /\ Granted(reply[t].request)'
  <2>1. \A q \in Requests : q.op \in Ops
    BY DEF Requests
  <2> QED BY <1>1, <1>2, <2>1 DEF ReplyOK, Granted, ApiMoves
<1>4. NotTaken(reply[t].past)'
  BY <1>2 DEF NotTaken
<1>5. reply'[t].kind = "cancelled" => AllClosed(reply[t].past)'
  <2>1. reply[t].past \subseteq Ops
    BY <1>1 DEF Reply
  <2> QED BY <1>1, <1>2, <2>1 DEF ReplyOK, AllClosed, ApiMoves
<1> QED BY <1>2, <1>3, <1>4, <1>5 DEF ReplyOK

LEMMA RepliesQuiet ==
    ASSUME DraftInv, ApiMoves, NoneTaken, reply' = reply
    PROVE  RepliesOK'
<1> SUFFICES ASSUME NEW t \in Turns PROVE ReplyOK(reply[t])'
  BY DEF RepliesOK
<1>1. reply[t] \in Reply /\ ReplyOK(reply[t])
  BY DEF DraftInv, TypeOK, RepliesOK
<1>2. reply[t] = [reply[t] EXCEPT !.past = reply[t].past]
  <2> DEFINE r == reply[t]
  <2>1. r \in Reply
    BY <1>1
  <2> HIDE DEF r
  <2>2. r = [r EXCEPT !.past = r.past]
    BY <2>1 DEF Reply
  <2> QED BY <2>2 DEF r
<1>3. \A o \in reply[t].past : standing'[o] \in {"open", "closed"}
  BY <1>1 DEF NoneTaken, NotTaken, ReplyOK, Reply
<1> DEFINE P == reply[t].past
<1>4. P \in SUBSET reply[t].past /\ reply'[t] = [reply[t] EXCEPT !.past = P]
  BY <1>2
<1> QED BY <1>3, <1>4, ReplyApi

LEMMA LateApi ==
    ASSUME DraftInv, ApiMoves, UNCHANGED <<said, draft>>, late' \subseteq late
    PROVE  LateOK'
BY ApiKeeps DEF DraftInv, LateOK

LEMMA Serves ==
    ASSUME DraftInv, NEW t \in Turns, Serve(t)
    PROVE  DraftInv'
<1>1. PICK answer \in {"ok", "rejected"} :
          Handle(turn[t].request, answer) /\ Answered(t, answer)
  BY DEF Serve
<1>2. /\ turn[t].request \in Requests /\ RequestOK(draft, turn[t].request)
      /\ turn[t] \in Turn /\ TurnOK(draft, turn[t]) /\ turn[t].pc = "asking"
      /\ UNCHANGED <<said, draft, reply, late, aged, begun, winners>>
  BY AskingFacts, TurnFacts DEF Serve
<1>3. /\ ApiMoves /\ NoneTaken /\ RowsOK(draft)' /\ ContentOK'
      /\ answer = "ok" => Granted(turn[t].request)'
  <2> DEFINE q == turn[t].request
  <2>1. q \in Requests /\ RequestOK(draft, q) /\ Handle(q, answer) /\ UNCHANGED <<said, draft>>
    BY <1>1, <1>2
  <2>2. turn'[t].request = q
    BY <1>1, <1>2 DEF Answered, DraftInv, TypeOK, Turn
  <2>3. ApiMoves /\ NoneTaken /\ RowsOK(draft)' /\ ContentOK'
    <3> HIDE DEF q
    <3> QED BY <2>1, HandleMoves
  <2>4. answer = "ok" => standing'[q.op] # "absent" /\ content'[q.op] = q.hash
    <3> HIDE DEF q
    <3> QED BY <2>1, HandleMoves DEF Granted
  <2> QED BY <2>2, <2>3, <2>4 DEF Granted
<1>4. /\ turn' \in [Turns -> Turn]
      /\ \A s \in Turns : s # t => turn'[s] = turn[s]
      /\ turn'[t] = [turn[t] EXCEPT !.answer = answer]
  <2>1. turn \in [Turns -> Turn] /\ [turn[t] EXCEPT !.answer = answer] \in Turn
    <3> DEFINE w == turn[t]
    <3>1. w \in Turn
      BY <1>2
    <3> HIDE DEF w
    <3>2. [w EXCEPT !.answer = answer] \in Turn
      BY <3>1 DEF Turn
    <3> QED BY <3>2 DEF w, DraftInv, TypeOK
  <2>2. turn' = [turn EXCEPT ![t] = [turn[t] EXCEPT !.answer = answer]]
    BY <1>1 DEF Answered
  <2> QED BY <2>1, <2>2
<1>5. TurnOK(draft, turn[t])'
  <2>1. /\ turn'[t].pc = "asking" /\ turn'[t].answer = answer
        /\ turn'[t].request = turn[t].request /\ turn'[t].why = turn[t].why
        /\ turn'[t].draft = turn[t].draft /\ turn'[t].msg = turn[t].msg
        /\ turn'[t].queue = turn[t].queue /\ turn'[t].past = turn[t].past
    BY <1>2, <1>4 DEF Turn
  <2>2. Asking(draft, turn[t])'
    BY <1>2, <1>3, <2>1, ApiKeeps DEF TurnOK, Asking
  <2>3. QueueOK(draft, turn[t].queue)'
    BY <1>2, <1>3, <2>1, ApiKeeps DEF TurnOK, QueueOK
  <2>4. NotTaken(turn[t].past)' /\ turn'[t].msg # None
    BY <1>2, <1>3, <2>1 DEF TurnOK, NotTaken, NoneTaken, Turn
  <2> QED BY <2>1, <2>2, <2>3, <2>4 DEF TurnOK, Cancelling
<1>6. TurnsOK'
  <2>1. \A s \in Turns : s # t => TurnOK(draft, turn[s])'
    BY <1>2, <1>3, <1>4, TurnQuiet
  <2> QED BY <1>5, <2>1 DEF TurnsOK
<1>7. RepliesOK' /\ LateOK'
  BY <1>2, <1>3, RepliesQuiet, LateApi
<1>8. TypeOK'
  BY <1>2, <1>3, <1>4 DEF DraftInv, TypeOK, ApiMoves
<1> QED BY <1>3, <1>6, <1>7, <1>8 DEF DraftInv

LEMMA ServesLate ==
    ASSUME DraftInv, NEW q \in late, ServeLate(q)
    PROVE  DraftInv'
<1>1. PICK answer \in {"ok", "rejected"} : Handle(q, answer)
  BY DEF ServeLate
<1>2. /\ q \in Requests /\ RequestOK(draft, q) /\ late' \subseteq late
      /\ UNCHANGED <<said, draft, turn, reply, aged, begun, winners>>
  BY DEF ServeLate, agentVars, DraftInv, TypeOK, LateOK
<1>3. ApiMoves /\ NoneTaken /\ RowsOK(draft)' /\ ContentOK'
  BY <1>1, <1>2, HandleMoves
<1>4. TurnsOK'
  BY <1>2, <1>3, TurnQuiet DEF TurnsOK
<1>5. RepliesOK' /\ LateOK'
  BY <1>2, <1>3, RepliesQuiet, LateApi
<1>6. TypeOK'
  BY <1>2, <1>3 DEF DraftInv, TypeOK, ApiMoves
<1> QED BY <1>3, <1>4, <1>5, <1>6 DEF DraftInv

LEMMA ServesCancel ==
    ASSUME DraftInv, NEW t \in Turns, ServeCancel(t)
    PROVE  DraftInv'
<1>1. /\ turn[t].pc = "cancelling" /\ turn[t].answer = "none"
      /\ turn[t] \in Turn /\ TurnOK(draft, turn[t])
      /\ UNCHANGED <<said, draft, reply, late, aged, begun, winners>>
  BY TurnFacts DEF ServeCancel
<1>2. PICK o \in turn[t].found :
          \/ API!Close(o) /\ Answered(t, "ok")
          \/ /\ standing[o] # "open" /\ UNCHANGED <<standing, content>>
             /\ Answered(t, "rejected")
  BY DEF ServeCancel
<1>3. o \in Ops /\ turn[t].found = {o}
  <2>1. turn[t].found \subseteq Ops /\ Cardinality(turn[t].found) = 1
    BY <1>1 DEF Turn, TurnOK, Cancelling
  <2>2. IsFiniteSet(turn[t].found)
    <3>1. IsFiniteSet({"draft", "turn"}) /\ IsFiniteSet(Messages)
      <4>1. IsFiniteSet({"draft"}) /\ {"draft", "turn"} = {"draft"} \cup {"turn"}
        BY FS_Singleton
      <4> QED BY <4>1, MessagesAssumption, FS_AddElement
    <3>2. IsFiniteSet(Ops)
      BY <3>1, FS_Product DEF Ops
    <3> QED BY <2>1, <3>2, FS_Subset
  <2> QED BY <1>2, <2>1, <2>2, FS_Singleton
<1>4. PICK answer \in {"ok", "rejected"} :
         /\ Answered(t, answer)
         /\ ApiMoves /\ NoneTaken /\ RowsOK(draft)' /\ ContentOK'
         /\ answer = "ok" => standing'[o] = "closed"
  <2>1. CASE API!Close(o) /\ Answered(t, "ok")
    <3>1. API!Goes(o, "open", "closed")
      BY <2>1 DEF API!Close
    <3>2. ApiMoves /\ NoneTaken /\ RowsOK(draft)' /\ ContentOK' /\ standing'[o] = "closed"
      BY <1>1, <1>3, <3>1, GoesMoves
    <3> QED BY <2>1, <3>2
  <2>2. CASE UNCHANGED <<standing, content>> /\ Answered(t, "rejected")
    <3>1. ApiMoves /\ NoneTaken /\ RowsOK(draft)' /\ ContentOK'
      BY <1>1, <2>2 DEF DraftInv, TypeOK, ApiMoves, NoneTaken, RowsOK, RowOK, ContentOK,
                        Described, Sourced, MayName
    <3> QED BY <2>2, <3>1
  <2> QED BY <1>2, <2>1, <2>2
<1>5. /\ turn' \in [Turns -> Turn]
      /\ \A s \in Turns : s # t => turn'[s] = turn[s]
      /\ turn'[t] = [turn[t] EXCEPT !.answer = answer]
  <2>1. turn \in [Turns -> Turn] /\ [turn[t] EXCEPT !.answer = answer] \in Turn
    <3> DEFINE w == turn[t]
    <3>1. w \in Turn
      BY <1>1
    <3> HIDE DEF w
    <3>2. [w EXCEPT !.answer = answer] \in Turn
      BY <3>1 DEF Turn
    <3> QED BY <3>2 DEF w, DraftInv, TypeOK
  <2>2. turn' = [turn EXCEPT ![t] = [turn[t] EXCEPT !.answer = answer]]
    BY <1>4 DEF Answered
  <2> QED BY <2>1, <2>2
<1>6. TurnOK(draft, turn[t])'
  <2>1. /\ turn'[t].pc = "cancelling" /\ turn'[t].answer = answer
        /\ turn'[t].msg = turn[t].msg /\ turn'[t].found = turn[t].found
        /\ turn'[t].queue = turn[t].queue /\ turn'[t].past = turn[t].past
    BY <1>1, <1>5 DEF Turn
  <2>2. QueueOK(draft, turn[t].queue)'
    BY <1>1, <1>4, <2>1, ApiKeeps DEF TurnOK, QueueOK
  <2>3. NotTaken(turn[t].past)' /\ turn'[t].msg # None
    BY <1>1, <1>4, <2>1 DEF TurnOK, NotTaken, NoneTaken, Turn
  <2>4. AllClosed(turn[t].past \ turn[t].found)' /\ (answer = "ok" => AllClosed(turn[t].found)')
    BY <1>1, <1>3, <1>4, <2>1 DEF TurnOK, Cancelling, AllClosed, ApiMoves, Turn
  <2>5. Cancelling(turn[t])'
    BY <1>1, <2>1, <2>4 DEF TurnOK, Cancelling
  <2> QED BY <2>1, <2>2, <2>3, <2>5 DEF TurnOK
<1>7. TurnsOK'
  <2>1. \A s \in Turns : s # t => TurnOK(draft, turn[s])'
    BY <1>1, <1>4, <1>5, TurnQuiet
  <2> QED BY <1>6, <2>1 DEF TurnsOK
<1>8. RepliesOK' /\ LateOK'
  BY <1>1, <1>4, RepliesQuiet, LateApi
<1>9. TypeOK'
  BY <1>1, <1>4, <1>5 DEF DraftInv, TypeOK, ApiMoves
<1> QED BY <1>4, <1>7, <1>8, <1>9 DEF DraftInv

LEMMA Decides ==
    ASSUME DraftInv, NEW o \in Ops, Decided(o)
    PROVE  DraftInv'
<1>1. UNCHANGED <<said, draft, late, aged, begun, winners>>
  BY DEF Decided
<1>2. CASE (API!Close(o) \/ API!Reopen(o)) /\ UNCHANGED <<turn, reply>>
  <2>1. API!Goes(o, "open", "closed") \/ API!Goes(o, "taken", "open")
    BY <1>2 DEF API!Close, API!Reopen
  <2>2. ApiMoves /\ NoneTaken /\ RowsOK(draft)' /\ ContentOK'
    BY <1>1, <2>1, GoesMoves
  <2>3. TurnsOK'
    BY <1>1, <1>2, <2>2, TurnQuiet DEF TurnsOK
  <2>4. RepliesOK' /\ LateOK'
    BY <1>1, <1>2, <2>2, RepliesQuiet, LateApi
  <2>5. TypeOK'
    BY <1>1, <1>2, <2>2 DEF DraftInv, TypeOK, ApiMoves
  <2> QED BY <2>2, <2>3, <2>4, <2>5 DEF DraftInv
<1>3. CASE /\ API!Take(o)
           /\ turn' = [t \in Turns |-> [turn[t] EXCEPT !.past = @ \ {o}]]
           /\ reply' = [t \in Turns |-> [reply[t] EXCEPT !.past = @ \ {o}]]
  <2>1. API!Goes(o, "open", "taken")
    BY <1>3 DEF API!Take
  <2>2. /\ ApiMoves /\ RowsOK(draft)' /\ ContentOK'
        /\ \A p \in Ops : p # o => standing'[p] = standing[p]
    BY <1>1, <2>1, GoesMoves
  <2>3. ASSUME NEW t \in Turns PROVE turn'[t] \in Turn /\ TurnOK(draft, turn[t])'
    <3> DEFINE P == turn[t].past \ {o}
    <3>1. turn[t].past \subseteq Ops /\ NotTaken(turn[t].past)
      BY TurnFacts DEF TurnOK, Turn
    <3>2. turn'[t] = [turn[t] EXCEPT !.past = P]
      BY <1>3
    <3>3. \A p \in P : standing'[p] \in {"open", "closed"}
      BY <2>2, <3>1 DEF NotTaken
    <3>4. P \in SUBSET turn[t].past
      OBVIOUS
    <3> HIDE DEF P
    <3> QED BY <1>1, <2>2, <3>2, <3>3, <3>4, TurnApi
  <2>4. ASSUME NEW t \in Turns PROVE reply'[t] \in Reply /\ ReplyOK(reply[t])'
    <3> DEFINE P == reply[t].past \ {o}
    <3>1. reply[t].past \subseteq Ops /\ NotTaken(reply[t].past)
      BY DEF DraftInv, TypeOK, RepliesOK, ReplyOK, Reply
    <3>2. reply'[t] = [reply[t] EXCEPT !.past = P]
      BY <1>3
    <3>3. \A p \in P : standing'[p] \in {"open", "closed"}
      BY <2>2, <3>1 DEF NotTaken
    <3>4. P \in SUBSET reply[t].past
      OBVIOUS
    <3> HIDE DEF P
    <3> QED BY <2>2, <3>2, <3>3, <3>4, ReplyApi
  <2>5. TurnsOK' /\ RepliesOK' /\ LateOK'
    BY <1>1, <2>2, <2>3, <2>4, LateApi DEF TurnsOK, RepliesOK
  <2>6. turn' \in [Turns -> Turn] /\ reply' \in [Turns -> Reply]
    BY <1>3, <2>3, <2>4
  <2>7. TypeOK'
    BY <1>1, <2>2, <2>6 DEF DraftInv, TypeOK, ApiMoves
  <2> QED BY <2>2, <2>5, <2>7 DEF DraftInv
<1> QED BY <1>2, <1>3 DEF Decided

(* A step that leaves the API, the table and the replies alone. *)
LEMMA Aside ==
    ASSUME DraftInv, UNCHANGED <<said, draft, reply, begun, winners, standing, content>>,
           turn' \in [Turns -> Turn],
           \A t \in Turns : turn'[t] = turn[t] \/ turn'[t] = Idle,
           late' \subseteq Requests, \A q \in late' : RequestOK(draft, q),
           aged' \subseteq Messages
    PROVE  DraftInv'
<1>1. RowsOK(draft)' /\ RepliesOK' /\ ContentOK'
  BY DEF DraftInv, RowsOK, RowOK, RepliesOK, ReplyOK, Granted, NotTaken, AllClosed,
         ContentOK, Described, Sourced, MayName
<1>2. LateOK'
  BY SMTT(30) DEF LateOK, RequestOK, Described, Sourced, MayName
<1>3. TurnsOK'
  <2>1. TurnOK(draft, Idle)
    BY DEF TurnOK, Idle, QueueOK, NotTaken, Cancelling
  <2>2. \A t \in Turns : TurnOK(draft, turn'[t])
    <3>1. \A t \in Turns : TurnOK(draft, turn[t])
      BY ZenonT(60) DEF DraftInv, TurnsOK
    <3> QED BY <2>1, <3>1
  <2>3. ASSUME NEW t \in Turns PROVE TurnOK(draft, turn[t])'
    <3>1. TurnOK(draft', turn'[t])
      BY <2>2
    <3> QED BY <3>1
          DEF TurnOK, Resolving, Asking, QueueOK, RequestOK, Described, Sourced,
              MayName, Granted, NotTaken, Cancelling, AllClosed
  <2> QED BY ZenonT(60), <2>3 DEF TurnsOK
<1>4. TypeOK'
  BY DEF DraftInv, TypeOK
<1> QED BY <1>1, <1>2, <1>3, <1>4 DEF DraftInv

LEMMA Evicts ==
    ASSUME DraftInv, Evict
    PROVE  DraftInv'
<1>1. /\ UNCHANGED <<said, draft, reply, aged, begun, winners, standing, content>>
      /\ turn' = [t \in Turns |-> Idle]
      /\ late' = late \cup {turn[t].request : t \in {s \in Turns :
                     turn[s].pc = "asking" /\ turn[s].answer = "none"}}
  BY DEF Evict
<1>2. \A q \in late' : q \in Requests /\ RequestOK(draft, q)
  BY <1>1, AskingFacts DEF DraftInv, TypeOK, LateOK
<1>3. Idle \in Turn
  BY BoundsAssumption DEF Idle, Turn
<1>4. aged' \subseteq Messages
  BY <1>1 DEF DraftInv, TypeOK
<1> QED BY <1>1, <1>2, <1>3, <1>4, Aside

LEMMA InvInit == Init => DraftInv
<1> SUFFICES ASSUME Init PROVE DraftInv
  OBVIOUS
<1>1. /\ NoDraft \in Draft /\ Idle \in Turn /\ Says("none") \in Reply
  BY BoundsAssumption DEF NoDraft, Draft, Statuses, Idle, Turn, Says, Reply
<1>2. /\ standing = [o \in Ops |-> "absent"] /\ content = [o \in Ops |-> None]
  BY DEF Init, API!Init
<1>3. TypeOK
  BY <1>1, <1>2, BoundsAssumption DEF Init, TypeOK
<1>4. RowsOK(draft)
  BY <1>2 DEF Init, RowsOK, RowOK, NoDraft, Ops, HandedOver
<1>5. TurnsOK /\ RepliesOK /\ LateOK /\ ContentOK
  BY <1>2 DEF Init, TurnsOK, TurnOK, Idle, QueueOK, NotTaken, Cancelling, RepliesOK,
              ReplyOK, Says, LateOK, ContentOK
<1> QED BY <1>3, <1>4, <1>5 DEF DraftInv

(* Every step keeps the invariant, and closed drafts closed. *)
LEMMA InvStep == DraftInv /\ [Next]_vars => DraftInv' /\ ClosedKept
<1> SUFFICES ASSUME DraftInv, [Next]_vars PROVE DraftInv' /\ ClosedKept
  OBVIOUS
<1>1. /\ late \subseteq Requests /\ \A q \in late : RequestOK(draft, q)
      /\ aged \subseteq Messages /\ begun \in 0 .. MaxTurns
      /\ winners \in [Messages -> SUBSET Messages]
  BY DEF DraftInv, TypeOK, LateOK
<1>2. draft' = draft => ClosedKept
  BY DEF ClosedKept
<1>3. ASSUME NEW t \in Turns, Stretched(t),
             UNCHANGED <<said, late, aged, begun, winners, standing, content>>
      PROVE  DraftInv' /\ ClosedKept
  BY <1>1, <1>3, StretchKeeps
<1>4. ASSUME NEW t \in Turns, NEW m \in Messages, Deliver(t, m)
      PROVE  DraftInv' /\ ClosedKept
  <2>1. /\ UNCHANGED <<said, late, aged, winners, standing, content>>
        /\ begun' \in 0 .. MaxTurns
    BY <1>1, <1>4, BoundsAssumption DEF Deliver
  <2> QED BY <1>1, <1>4, <2>1, Delivers, StretchKeeps
<1>5. ASSUME NEW t \in Turns, Resolve(t) PROVE DraftInv' /\ ClosedKept
  <2>1. UNCHANGED <<said, late, aged, begun, standing, content>>
    BY <1>5 DEF Resolve
  <2>2. winners' \in [Messages -> SUBSET Messages]
    <3>1. turn[t].pc = "resolving" /\ turn[t].msg \in Messages
      <4>1. turn[t] \in Turn /\ TurnOK(draft, turn[t]) /\ turn[t].pc = "resolving"
        BY <1>5, TurnFacts DEF Resolve
      <4> QED BY <4>1 DEF TurnOK, Turn
    <3>2. \/ UNCHANGED winners
          \/ winners' = [winners EXCEPT ![turn[t].draft] = @ \cup {turn[t].msg}]
      BY <1>5 DEF Resolve, Originate, Continue
    <3> QED BY <1>1, <3>1, <3>2
  <2> QED BY <1>1, <1>5, <2>1, <2>2, Resolves, StretchKeeps
<1>6. ASSUME NEW t \in Turns, GiveUp(t) PROVE DraftInv' /\ ClosedKept
  <2>1. /\ UNCHANGED <<said, aged, begun, winners, standing, content>>
        /\ late' = IF turn[t].answer = "none" THEN late \cup {turn[t].request} ELSE late
        /\ turn[t].pc = "asking"
    BY <1>6 DEF GiveUp
  <2>2. \A q \in late' : q \in Requests /\ RequestOK(draft, q)
    BY <1>1, <2>1, AskingFacts
  <2> QED BY <1>1, <1>6, <2>1, <2>2, GivesUp, StretchKeeps
<1>7. ASSUME NEW t \in Turns,
             Refuse(t) \/ Receive(t) \/ ListActive(t) \/ ChooseTarget(t) \/ Conclude(t)
                \/ Abandon(t)
      PROVE  DraftInv' /\ ClosedKept
  <2>1. UNCHANGED <<said, late, aged, begun, winners, standing, content>>
    BY <1>7 DEF Refuse, Receive, ListActive, ChooseTarget, Conclude, Abandon
  <2>2. Stretched(t)
    BY <1>7, Refuses, Receives, Lists, ChoosesTarget, Concludes, Abandons
  <2> QED BY <1>3, <2>1, <2>2
<1>8. ASSUME NEW t \in Turns, Serve(t) \/ ServeCancel(t) PROVE DraftInv' /\ ClosedKept
  <2>1. draft' = draft
    BY <1>8 DEF Serve, ServeCancel
  <2> QED BY <1>2, <1>8, <2>1, Serves, ServesCancel
<1>9. ASSUME NEW q \in late, ServeLate(q) PROVE DraftInv' /\ ClosedKept
  <2>1. draft' = draft
    BY <1>9 DEF ServeLate, agentVars
  <2> QED BY <1>2, <1>9, <2>1, ServesLate
<1>10. ASSUME NEW o \in Ops, Decided(o) PROVE DraftInv' /\ ClosedKept
  <2>1. draft' = draft
    BY <1>10 DEF Decided
  <2> QED BY <1>2, <1>10, <2>1, Decides
<1>11. ASSUME NEW m \in Messages, Age(m) PROVE DraftInv' /\ ClosedKept
  <2>1. /\ UNCHANGED <<said, draft, turn, reply, late, begun, winners, standing, content>>
        /\ aged' \subseteq Messages
    BY <1>1, <1>11 DEF Age
  <2>2. turn' \in [Turns -> Turn]
    BY <2>1 DEF DraftInv, TypeOK
  <2> QED BY <1>1, <1>2, <2>1, <2>2, Aside
<1>12. CASE Evict
  <2>1. draft' = draft
    BY <1>12 DEF Evict
  <2> QED BY <1>2, <1>12, <2>1, Evicts
<1>13. CASE UNCHANGED vars
  <2>1. /\ UNCHANGED <<said, draft, turn, reply, late, aged, begun, winners, standing, content>>
        /\ turn' \in [Turns -> Turn]
    BY <1>13 DEF vars, DraftInv, TypeOK
  <2> QED BY <1>1, <1>2, <2>1, Aside
<1> QED
  BY <1>4, <1>5, <1>6, <1>7, <1>8, <1>9, <1>10, <1>11, <1>12, <1>13 DEF Next

-----------------------------------------------------------------------------
(* The theorems *)

(* What the stretches of the turns rely on holds in every reachable state,  *)
(* whatever turns overlap, are evicted, or are answered late.               *)
THEOREM Invariance == Spec => []DraftInv
<1>1. DraftInv /\ [Next]_vars => DraftInv'
  BY InvStep
<1> QED BY InvInit, <1>1, PTL DEF Spec

(* Every table, turn and reply has the shape the code gives it. *)
THEOREM TypeCorrect == Spec => []TypeOK
<1>1. DraftInv => TypeOK
  BY DEF DraftInv
<1> QED BY Invariance, <1>1, PTL

(* A draft that was never handed over has no operation and nothing on its   *)
(* way that could create one; a consumed draft has its operation.           *)
THEOREM HandoffTraced == Spec => []HandoffIsTraceable
<1>1. DraftInv => HandoffIsTraceable
  <2> SUFFICES ASSUME DraftInv, NEW m \in Messages
               PROVE  /\ draft[m].status \notin HandedOver
                            => /\ standing[<<"draft", m>>] = "absent"
                               /\ \A q \in Travelling : q.op # <<"draft", m>>
                      /\ draft[m].status = "consumed" => standing[<<"draft", m>>] # "absent"
    BY DEF HandoffIsTraceable, HandedOver
  <2>1. RowOK(m, draft[m])
    BY DEF DraftInv, RowsOK
  <2>2. ASSUME NEW q \in Travelling, q.op = <<"draft", m>>
        PROVE  draft[m].status \in HandedOver
    <3>1. ASSUME NEW t \in Turns, q \in turn[t].queue PROVE RequestOK(draft, q)
      BY <3>1, TurnFacts DEF TurnOK, QueueOK
    <3>2. ASSUME NEW t \in Turns, turn[t].pc = "asking", q = turn[t].request
          PROVE  RequestOK(draft, q)
      BY <3>2, AskingFacts
    <3>3. \/ q \in late
          \/ \E t \in Turns : q \in turn[t].queue
          \/ \E t \in Turns : turn[t].pc = "asking" /\ q = turn[t].request
      <4> DEFINE asked == {turn[t].request : t \in {s \in Turns :
                               turn[s].pc = "asking" /\ turn[s].answer = "none"}}
                 queued == UNION {turn[t].queue : t \in Turns}
      <4>1. q \in asked => \E t \in Turns : turn[t].pc = "asking" /\ q = turn[t].request
        OBVIOUS
      <4>2. q \in queued => \E t \in Turns : q \in turn[t].queue
        OBVIOUS
      <4>3. q \in late \cup queued \cup asked
        BY <2>2 DEF Travelling
      <4> HIDE DEF asked, queued
      <4> QED BY <4>1, <4>2, <4>3
    <3>4. RequestOK(draft, q)
      BY <3>1, <3>2, <3>3 DEF DraftInv, LateOK
    <3> QED BY <2>2, <3>4 DEF RequestOK
  <2> QED BY <2>1, <2>2 DEF RowOK
<1> QED BY Invariance, <1>1, PTL

(* A draft that was replaced, dropped or expired stays so. *)
THEOREM ClosedForGood == Spec => ClosedStaysClosed
<1> DEFINE A == \A m \in Messages :
                    draft[m].status \in {"replaced", "dropped", "expired"} =>
                        draft'[m].status = draft[m].status
<1>1. DraftInv /\ [Next]_vars => A
  BY InvStep DEF ClosedKept, Closed
<1>2. DraftInv /\ [Next]_vars => [A]_vars
  BY <1>1
<1> HIDE DEF A
<1>3. Spec => [][A]_vars
  BY Invariance, <1>2, PTL DEF Spec
<1> QED BY <1>3 DEF ClosedStaysClosed, A

(* Once a turn has said "cancelado", nothing that awaited a decision when   *)
(* it began awaits one still, unless it was executed meanwhile.             *)
THEOREM CancelHonest == Spec => []CancelIsHonest
<1>1. DraftInv => CancelIsHonest
  BY DEF DraftInv, RepliesOK, ReplyOK, AllClosed, CancelIsHonest
<1> QED BY Invariance, <1>1, PTL

(* The card shows what the operation it names would execute. *)
THEOREM CardTrue == Spec => []CardIsTrue
<1>1. DraftInv => CardIsTrue
  BY DEF DraftInv, RepliesOK, ReplyOK, Granted, CardIsTrue
<1> QED BY Invariance, <1>1, PTL

(* An operation records what its own message described, on an account named *)
(* by that message or by one that continued it.                             *)
THEOREM NoInheritance == Spec => []NothingInherited
<1>1. DraftInv => NothingInherited
  <2> SUFFICES ASSUME DraftInv, NEW m \in Messages, NEW via \in {"draft", "turn"},
                      content[<<via, m>>] # None
               PROVE  /\ content[<<via, m>>].what = said[m].what
                      /\ \E n \in Messages :
                            /\ said[n].account = content[<<via, m>>].account
                            /\ \/ n = m
                               \/ /\ via = "draft" /\ ~said[n].reset
                                  /\ said[n].what \in {None, content[<<via, m>>].what}
    BY Zenon DEF NothingInherited
  <2>1. <<via, m>> \in Ops
    BY DEF Ops
  <2>2. Described(<<via, m>>, content[<<via, m>>])
    BY <2>1 DEF DraftInv, ContentOK
  <2> QED BY <2>2 DEF Described, Sourced, MayName
<1> QED BY Invariance, <1>1, PTL

-----------------------------------------------------------------------------
(* The agent and the API *)

(* A request the API handles is one proposal, or changes nothing. *)
LEMMA HandleContract ==
    ASSUME NEW q \in Requests, NEW answer, Handle(q, answer)
    PROVE  API!Next \/ UNCHANGED API!vars
<1>1. q.op \in Ops /\ q.hash \in Hashes
  BY DEF Requests
<1>2. CASE API!Propose(q.op, q.hash)
  BY <1>1, <1>2 DEF API!Next
<1>3. CASE UNCHANGED <<standing, content>>
  BY <1>3 DEF API!vars
<1> QED BY <1>2, <1>3 DEF Handle

LEMMA ApiStep == DraftInv /\ [Next]_vars => [API!Next]_(API!vars)
<1> SUFFICES ASSUME DraftInv, [Next]_vars
             PROVE  API!Next \/ UNCHANGED API!vars
  OBVIOUS
<1> DEFINE Untouched == UNCHANGED <<standing, content>>
<1>1. Untouched => UNCHANGED API!vars
  BY DEF API!vars
<1>2. ASSUME NEW t \in Turns, NEW m \in Messages, Deliver(t, m) PROVE Untouched
  BY <1>2 DEF Deliver
<1>3. ASSUME NEW t \in Turns, Resolve(t) \/ Refuse(t) \/ Receive(t) \/ GiveUp(t)
      PROVE  Untouched
  BY <1>3 DEF Resolve, Refuse, Receive, GiveUp
<1>4. ASSUME NEW t \in Turns,
             ListActive(t) \/ ChooseTarget(t) \/ Conclude(t) \/ Abandon(t)
      PROVE  Untouched
  BY <1>4 DEF ListActive, ChooseTarget, Conclude, Abandon
<1>5. ASSUME NEW t \in Turns, Serve(t) PROVE API!Next \/ UNCHANGED API!vars
  <2>1. turn[t].pc = "asking" /\ \E answer \in {"ok", "rejected"} : Handle(turn[t].request, answer)
    BY <1>5 DEF Serve
  <2>2. turn[t].request \in Requests
    BY <2>1, AskingFacts
  <2> QED BY <2>1, <2>2, HandleContract
<1>6. ASSUME NEW t \in Turns, ServeCancel(t) PROVE API!Next \/ UNCHANGED API!vars
  <2>1. PICK o \in turn[t].found : API!Close(o) \/ Untouched
    BY <1>6 DEF ServeCancel
  <2>2. turn[t].found \subseteq Ops
    BY DEF DraftInv, TypeOK, Turn
  <2> QED BY <1>1, <2>1, <2>2 DEF API!Next
<1>7. ASSUME NEW q \in late, ServeLate(q) PROVE API!Next \/ UNCHANGED API!vars
  <2>1. q \in Requests
    BY DEF DraftInv, TypeOK
  <2> QED BY <1>7, <2>1, HandleContract DEF ServeLate
<1>8. ASSUME NEW o \in Ops, Decided(o) PROVE API!Next
  BY <1>8 DEF Decided, API!Next
<1>9. ASSUME (\E m \in Messages : Age(m)) \/ Evict PROVE Untouched
  BY <1>9 DEF Age, Evict
<1>10. CASE UNCHANGED vars
  BY <1>1, <1>10 DEF vars
<1> QED
  BY <1>1, <1>2, <1>3, <1>4, <1>5, <1>6, <1>7, <1>8, <1>9, <1>10 DEF Next

(* The agent, the buttons of its cards, requests handled after their sender *)
(* gave up and evicted turns included, uses the API as DecisionContract     *)
(* lets a client use it.  DecisionsOfStore (PendingV2_Proofs) is the other  *)
(* half: the store is that API.                                             *)
THEOREM UsesDecisions == Spec => API!Spec
<1>1. Init => API!Init
  BY DEF Init
<1> QED BY <1>1, Invariance, ApiStep, PTL DEF Spec, API!Spec
=============================================================================
