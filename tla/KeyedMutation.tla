---------------------------- MODULE KeyedMutation ----------------------------
(***************************************************************************)
(* The two protocols that tie a financial effect to an idempotency key in  *)
(* apps/api: lookupOrRecord (writes/postgres.ts, table operation_records), *)
(* which claims the key first and runs the effect on the claim's client,   *)
(* and runKeyedMutation (writes/pending-idempotency.ts, table              *)
(* idempotency_keys), which runs the effect first and records the key      *)
(* last.  Each request is one READ COMMITTED transaction, modelled one     *)
(* statement at a time: other requests see what has been committed, and    *)
(* wait where PostgreSQL makes them wait - on the uncommitted insertion of *)
(* their key or on a row another transaction has updated.                  *)
(*                                                                         *)
(* A claim row is seen as processing only if an earlier build committed it *)
(* alone and died: such orphans are part of the initial states, and their  *)
(* lease is kept as the time left on the database clock.                   *)
(***************************************************************************)
EXTENDS Integers, FiniteSets

CONSTANTS
    ClaimKeys,       \* keys of operation_records (Idempotency-Key requests)
    RecordKeys,      \* keys of idempotency_keys ('pending-v2:' executions)
    Hashes,          \* payload hashes
    None,            \* no key, no hash
    Sessions,        \* requests in progress at a time
    LeaseTicks,      \* lease left on an orphan, at most
    MaxSkew,         \* bound on API clock - database clock, in ticks
    MaxEffects       \* bound: effects started, over all keys

Keys == ClaimKeys \cup RecordKeys

ASSUME KeysAssumption == ClaimKeys \cap RecordKeys = {}
ASSUME NoneAssumption == None \notin Keys \cup Hashes
ASSUME BoundsAssumption ==
    /\ LeaseTicks \in Nat
    /\ MaxSkew \in Nat
    /\ MaxEffects \in Nat

VARIABLES
    record,    \* [Keys -> Record]: the committed row of each key
    effects,   \* committed financial effects
    work,      \* [Sessions -> Work]: the transaction of each request
    started,   \* effects started so far, which numbers them
    answers,   \* history: successful answers given to callers
    conflicts  \* history: <<key, hash>> answered idempotency.conflict

vars == <<record, effects, work, started, answers, conflicts>>

-----------------------------------------------------------------------------
(* State space *)

Skews == -MaxSkew .. MaxSkew
Left == -MaxSkew .. LeaseTicks

(* response: the number of the effect the stored response describes; the    *)
(* lease is kept while it matters, until the row is completed.              *)
Record == [status   : {"none", "processing", "completed"},
           hash     : Hashes \cup {None},
           lease    : Left,
           response : Nat]

Effect == [key : Keys, hash : Hashes, id : Nat]

Work == [pc   : {"idle", "claim", "lost", "takeover", "reread", "select",
                 "effect", "record", "settle", "commit"},
         key  : Keys \cup {None},
         hash : Hashes \cup {None},
         id   : Nat]                 \* the effect this transaction has made

NoRecord == [status |-> "none", hash |-> None, lease |-> 0, response |-> 0]

Idle == [pc |-> "idle", key |-> None, hash |-> None, id |-> 0]

Orphan(h, left) ==
    [status |-> "processing", hash |-> h, lease |-> left, response |-> 0]

Init ==
    /\ record \in [Keys -> {NoRecord} \cup {Orphan(h, LeaseTicks) : h \in Hashes}]
    /\ \A k \in RecordKeys : record[k] = NoRecord
    /\ effects = {}
    /\ work = [s \in Sessions |-> Idle]
    /\ started = 0
    /\ answers = {}
    /\ conflicts = {}

-----------------------------------------------------------------------------
(* Helpers *)

Goto(s, pc) == work' = [work EXCEPT ![s].pc = pc]

(* matchesPayloadHash of the committed row and the caller's payload *)
Matches(s) == record[work[s].key].hash = work[s].hash

(* Transactions that hold the key: the uncommitted INSERT or the row lock of *)
(* the takeover.                                                            *)
Holders(k) ==
    {s \in Sessions : /\ work[s].key = k
                      /\ \/ work[s].pc = "commit"
                         \/ work[s].pc = "effect" /\ k \in ClaimKeys}

Waits(s) == Holders(work[s].key) \ {s} # {}

(* The transaction ends and its caller is answered. *)
Replay(s) ==
    /\ answers' = answers \cup
           {[key |-> work[s].key, hash |-> work[s].hash,
             id |-> record[work[s].key].response]}
    /\ work' = [work EXCEPT ![s] = Idle]
    /\ UNCHANGED <<record, effects, started, conflicts>>

Conflict(s) ==
    /\ conflicts' = conflicts \cup {<<work[s].key, work[s].hash>>}
    /\ work' = [work EXCEPT ![s] = Idle]
    /\ UNCHANGED <<record, effects, started, answers>>

(* idempotency.in_progress, or an error of the effect: ROLLBACK *)
Refuse(s) ==
    /\ work' = [work EXCEPT ![s] = Idle]
    /\ UNCHANGED <<record, effects, started, answers, conflicts>>

(* Replays the stored response to the payload it was stored for. *)
Answered(s) == IF Matches(s) THEN Replay(s) ELSE Conflict(s)

-----------------------------------------------------------------------------
(* lookupOrRecord *)

Request(s, k, h) ==
    /\ work[s].pc = "idle"
    /\ work' = [work EXCEPT ![s] =
                  [pc |-> IF k \in ClaimKeys THEN "claim" ELSE "select",
                   key |-> k, hash |-> h, id |-> 0]]
    /\ UNCHANGED <<record, effects, started, answers, conflicts>>

(* INSERT ... ON CONFLICT DO NOTHING: waits for an uncommitted insertion of *)
(* the same key, and inserts nothing over a committed row.                  *)
Claim(s) ==
    /\ work[s].pc = "claim"
    /\ \/ /\ record[work[s].key].status = "none"
          /\ ~Waits(s)
          /\ Goto(s, "effect")
       \/ /\ record[work[s].key].status # "none"
          /\ Goto(s, "lost")
    /\ UNCHANGED <<record, effects, started, answers, conflicts>>

(* resolveLostClaimRace, first read: an expired lease is judged on the API  *)
(* clock, skew ahead of the database's.                                     *)
ResolveLost(s, skew) ==
    /\ work[s].pc = "lost"
    /\ LET r == record[work[s].key] IN
       \/ /\ ~Matches(s) \/ r.status = "completed"
          /\ Answered(s)
       \/ /\ Matches(s) /\ r.status = "processing"
          /\ IF r.lease > skew THEN Refuse(s)
             ELSE Goto(s, "takeover")
                  /\ UNCHANGED <<record, effects, started, answers, conflicts>>

(* Variant: the takeover is conditional on the lease only. *)
TakeableByLease(k) == record[k].lease <= 0

(* WHERE ... status = 'processing' AND lease_until <= NOW() *)
Takeable(k) == record[k].status = "processing" /\ record[k].lease <= 0

(* The takeover waits for the row lock and re-evaluates its condition. *)
TakeOver(s) ==
    /\ work[s].pc = "takeover"
    /\ ~Waits(s)
    /\ Goto(s, IF Takeable(work[s].key) THEN "effect" ELSE "reread")
    /\ UNCHANGED <<record, effects, started, answers, conflicts>>

(* Variant: a takeover that lost its race is always a conflict. *)
RereadConflicts(s) ==
    /\ work[s].pc = "reread"
    /\ Conflict(s)

Reread(s) ==
    /\ work[s].pc = "reread"
    /\ IF record[work[s].key].status = "processing" THEN Refuse(s)
       ELSE Answered(s)

-----------------------------------------------------------------------------
(* runKeyedMutation *)

SelectKey(s) ==
    /\ work[s].pc = "select"
    /\ IF record[work[s].key].status = "completed" THEN Answered(s)
       ELSE /\ Goto(s, "effect")
            /\ UNCHANGED <<record, effects, started, answers, conflicts>>

(* KeyReplaySignal when the INSERT has inserted nothing *)
Recorded(s) == IF record[work[s].key].status = "none" THEN "commit" ELSE "settle"

(* INSERT_KEY, after the mutation: a loser rolls its own mutation back. *)
RecordKey(s) ==
    /\ work[s].pc = "record"
    /\ ~Waits(s)
    /\ Goto(s, Recorded(s))
    /\ UNCHANGED <<record, effects, started, answers, conflicts>>

(* Variant: the loser answers with the mutation it has just rolled back. *)
SettleWithOwn(s) ==
    /\ work[s].pc = "settle"
    /\ answers' = answers \cup
           {[key |-> work[s].key, hash |-> work[s].hash, id |-> work[s].id]}
    /\ work' = [work EXCEPT ![s] = Idle]
    /\ UNCHANGED <<record, effects, started, conflicts>>

(* The winner's record, read outside the transaction. *)
Settle(s) ==
    /\ work[s].pc = "settle"
    /\ Answered(s)

-----------------------------------------------------------------------------
(* Both protocols *)

(* The producer or mutation, on the transaction's own client: it is made,   *)
(* uncommitted, or throws and everything is rolled back.                    *)
RunEffect(s) ==
    /\ work[s].pc = "effect"
    /\ \/ Refuse(s)
       \/ /\ started < MaxEffects
          /\ started' = started + 1
          /\ work' = [work EXCEPT
                ![s].pc = IF work[s].key \in ClaimKeys THEN "commit" ELSE "record",
                ![s].id = started + 1]
          /\ UNCHANGED <<record, effects, answers, conflicts>>

(* The effect and the completed row of its key become visible together; the *)
(* answer reaches the caller or is lost.                                    *)
Commit(s) ==
    /\ work[s].pc = "commit"
    /\ LET w == work[s]
           e == [key |-> w.key, hash |-> w.hash, id |-> w.id]
       IN /\ record' = [record EXCEPT ![w.key] =
                          [status |-> "completed", hash |-> w.hash,
                           lease |-> 0, response |-> w.id]]
          /\ effects' = effects \cup {e}
          /\ answers' \in {answers, answers \cup {e}}
    /\ work' = [work EXCEPT ![s] = Idle]
    /\ UNCHANGED <<started, conflicts>>

-----------------------------------------------------------------------------
(* Environment *)

(* The process or its connection dies before the commit, or a statement     *)
(* runs into the lock or statement timeout of the pool: ROLLBACK.           *)
Crash(s) ==
    /\ work[s].pc # "idle"
    /\ work' = [work EXCEPT ![s] = Idle]
    /\ UNCHANGED <<record, effects, started, answers, conflicts>>

(* Variant: times past are counted without bound. *)
SoonerUnbounded(r) == [r EXCEPT !.lease = @ - 1]

Sooner(r) ==
    IF r.status = "processing" /\ r.lease > -MaxSkew
    THEN [r EXCEPT !.lease = @ - 1] ELSE r

Tick ==
    /\ record' = [k \in Keys |-> Sooner(record[k])]
    /\ UNCHANGED <<effects, work, started, answers, conflicts>>

(* One statement of an open transaction *)
Step(s) ==
    \/ Claim(s)
    \/ \E skew \in Skews : ResolveLost(s, skew)
    \/ TakeOver(s)
    \/ Reread(s)
    \/ SelectKey(s)
    \/ RecordKey(s)
    \/ Settle(s)
    \/ RunEffect(s)
    \/ Commit(s)

Next ==
    \/ \E s \in Sessions : \/ \E k \in Keys, h \in Hashes : Request(s, k, h)
                           \/ Step(s)
                           \/ Crash(s)
    \/ Tick

Spec == Init /\ [][Next]_vars

-----------------------------------------------------------------------------
(* Properties *)

(* Every variable stays in its type. *)
TypeOK ==
    /\ record \in [Keys -> Record]
    /\ effects \subseteq Effect
    /\ work \in [Sessions -> Work]
    /\ started \in Nat
    /\ answers \subseteq Effect
    /\ conflicts \subseteq Keys \X Hashes

(* However requests with one key overlap, crash, are retried or take over   *)
(* an orphan, at most one effect is committed for it.                       *)
EffectAtMostOnce ==
    \A e, f \in effects : e.key = f.key => e = f

(* The conflict answer means what the API says it means: the key was used   *)
(* with another payload, never that a race with the same payload was lost.  *)
ConflictMeansOtherPayload ==
    \A k \in Keys, h \in Hashes : <<k, h>> \in conflicts =>
        record[k].status # "none" /\ record[k].hash # h

(* Both protocols implement the keyed write: the effect of a key is         *)
(* committed in one step, nothing replaces it, and whoever is told that its *)
(* request succeeded is told of the effect committed under its key, and     *)
(* asked for it: never of one that was rolled back, or that another payload *)
(* asked for.                                                               *)
Contract == INSTANCE KeyedWrite WITH
    Ids    <- 1 .. MaxEffects,
    posted <- effects,
    told   <- answers

ImplementsKeyedWrite == Contract!Spec

=============================================================================
