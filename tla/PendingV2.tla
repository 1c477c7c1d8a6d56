------------------------------ MODULE PendingV2 ------------------------------
(***************************************************************************)
(* The approval protocol of apps/api/src/approvals/pending-v2.ts: a        *)
(* proposed financial mutation is confirmed (which issues a one-use        *)
(* attestation), claimed with that attestation, executed outside every     *)
(* transaction and settled by a second transaction, with lease-based       *)
(* recovery of executions whose process died.                              *)
(*                                                                         *)
(* One row of the table pending_operations per member of Ops (a workspace  *)
(* and idempotency key).  Every store method is one or two single-row      *)
(* transactions under the row lock, so each transaction is one atomic      *)
(* action; the executor runs between two of them and is an action of its   *)
(* own.  A timestamp is kept as the time left until it (in ticks, negative *)
(* once past), so that time needs no bound; times left stop counting at    *)
(* -MaxSkew, below which every clock of the system calls them past.        *)
(***************************************************************************)
EXTENDS Integers, FiniteSets

CONSTANTS
    Ops,             \* operations: (workspace_id, idempotency_key) pairs
    Hashes,          \* proposal hashes: what the operation would execute
    None,            \* no hash, no operation
    Workers,         \* request handlers that can be executing at a time
    LeaseTicks,      \* execution lease, resolvePendingV2LeaseMs
    TtlTicks,        \* proposal lifetime, expiresAt - createdAt
    SecondTicks,     \* ticks in a second (String(date) drops the fraction)
    MaxSkew,         \* bound on API clock - database clock, in ticks
    MaxAttempts,     \* bound: execution_attempt_count
    MaxTokens,       \* bound: attestations issued per operation
    MaxCrashes       \* bound: handlers lost to a process crash

ASSUME NoneAssumption == None \notin Hashes /\ None \notin Ops

ASSUME BoundsAssumption ==
    /\ LeaseTicks \in Nat \ {0}
    /\ TtlTicks \in Nat \ {0}
    /\ SecondTicks \in Nat \ {0}
    /\ MaxSkew \in Nat
    /\ MaxAttempts \in Nat
    /\ MaxTokens \in Nat
    /\ MaxCrashes \in Nat

VARIABLES
    row,       \* [Ops -> Row]: the table pending_operations
    ledger,    \* committed transactions, each under its idempotency key
    work,      \* [Workers -> Work]: local state of in-flight executions
    phase,     \* ticks into the current second of the API clock
    audit,     \* operations with an 'expire' event pushed by confirm
    spent,     \* history: attestations a claim has consumed
    crashes    \* history: handlers lost so far

vars == <<row, ledger, work, phase, audit, spent, crashes>>

-----------------------------------------------------------------------------
(* State space *)

Statuses == {"proposed", "confirmed", "executing", "succeeded",
             "failed", "cancelled", "expired"}
Terminal == {"succeeded", "cancelled", "expired"}

Skews == -MaxSkew .. MaxSkew
Left(max) == -MaxSkew .. max

Row == [status   : Statuses \cup {"absent"},
        hash     : Hashes \cup {None},
        token    : Nat,              \* serial of the current attestation, 0: none
        consumed : BOOLEAN,          \* attestation_consumed_at IS NOT NULL
        attempt  : Nat,              \* execution_attempt_count
        lease    : Left(LeaseTicks), \* execution_lease_expires_at
        ttl      : Left(TtlTicks),   \* expires_at
        mutation : Nat]              \* mutation_id, 0: none

Work == [pc      : {"idle", "running", "settling"},
         op      : Ops \cup {None},
         attempt : Nat,              \* claimAttempt / renewAttempt
         lease   : Left(LeaseTicks), \* the lease this execution was given
         outcome : {"none", "succeeded", "error"},
         receipt : Nat]

(* A transaction row: the key it was created under, what it executed and   *)
(* the attempt whose executor created it (which serves as its id).         *)
Entry == [op : Ops, hash : Hashes, by : Nat]

AbsentRow == [status |-> "absent", hash |-> None, token |-> 0,
              consumed |-> FALSE, attempt |-> 0, lease |-> 0, ttl |-> 0,
              mutation |-> 0]

IdleWork == [pc |-> "idle", op |-> None, attempt |-> 0, lease |-> 0,
             outcome |-> "none", receipt |-> 0]

Init ==
    /\ row = [o \in Ops |-> AbsentRow]
    /\ ledger = {}
    /\ work = [w \in Workers |-> IdleWork]
    /\ phase = 0
    /\ audit = {}
    /\ spent = {}
    /\ crashes = 0

-----------------------------------------------------------------------------
(* Store methods *)

(* propose: INSERT ... ON CONFLICT returns the existing row unchanged; only *)
(* the inserting call has an effect.                                        *)
Propose(o, h) ==
    /\ row[o].status = "absent"
    /\ row' = [row EXCEPT ![o] = [AbsentRow EXCEPT !.status = "proposed",
                                                   !.hash = h,
                                                   !.ttl = TtlTicks]]
    /\ UNCHANGED <<ledger, work, phase, audit, spent, crashes>>

(* Date.parse(String(expires_at)) <= Date.now(), on an API clock that is    *)
(* skew ahead of the database clock: the parse drops the fraction of the    *)
(* second.                                                                  *)
PastExpiry(o, skew) ==
    row[o].ttl - ((phase + row[o].ttl) % SecondTicks) <= skew

(* Variant: the UPDATE of an expired confirm is committed. *)
ConfirmExpiredCommitted(o, skew) ==
    /\ row[o].status # "absent"
    /\ PastExpiry(o, skew)
    /\ row' = [row EXCEPT ![o].status = "expired"]
    /\ audit' = audit \cup {o}
    /\ UNCHANGED <<ledger, work, phase, spent, crashes>>

(* confirm, expired: the UPDATE to 'expired' is followed by a throw inside  *)
(* withTransaction, which rolls it back; the pushed audit event remains.    *)
(* The check precedes every status test.                                    *)
ConfirmExpired(o, skew) ==
    /\ row[o].status # "absent"
    /\ PastExpiry(o, skew)
    /\ audit' = audit \cup {o}
    /\ UNCHANGED <<row, ledger, work, phase, spent, crashes>>

IssueToken(r) == [r EXCEPT !.status = "confirmed", !.token = @ + 1]

(* confirm: the first confirmation and the re-emission of a lost one both   *)
(* install the hash of a new attestation over the old one.                  *)
Confirm(o, skew) ==
    /\ ~PastExpiry(o, skew)
    /\ \/ row[o].status = "proposed"
       \/ row[o].status = "confirmed" /\ ~row[o].consumed
    /\ row[o].token < MaxTokens
    /\ row' = [row EXCEPT ![o] = IssueToken(@)]
    /\ UNCHANGED <<ledger, work, phase, audit, spent, crashes>>

(* Variant: the attempt is captured before the row is renewed. *)
StartedBeforeRenewal(o, attempt) ==
    [IdleWork EXCEPT !.pc = "running", !.op = o, !.attempt = attempt - 1,
                     !.lease = LeaseTicks]

(* What execute and reconcile carry across the executor call. *)
Started(o, attempt) ==
    [pc |-> "running", op |-> o, attempt |-> attempt, lease |-> LeaseTicks,
     outcome |-> "none", receipt |-> 0]

(* execute, TX1: a conditional UPDATE by attestation hash. An attestation   *)
(* that is not the row's current one matches nothing, so the claim is by    *)
(* the current attestation or it is a miss with no effect.                  *)
Claim(w, o) ==
    /\ work[w].pc = "idle"
    /\ row[o].status = "confirmed"
    /\ ~row[o].consumed
    /\ row[o].ttl > 0
    /\ row[o].attempt < MaxAttempts
    /\ row' = [row EXCEPT ![o].consumed = TRUE,
                          ![o].status = "executing",
                          ![o].lease = LeaseTicks,
                          ![o].attempt = @ + 1]
    /\ work' = [work EXCEPT ![w] = Started(o, row[o].attempt + 1)]
    /\ spent' = spent \cup {<<o, row[o].token>>}
    /\ UNCHANGED <<ledger, phase, audit, crashes>>

(* Variant: the lease is parsed from String(date), as expires_at is. *)
LeaseOverInSeconds(o, skew) ==
    row[o].lease - ((phase + row[o].lease) % SecondTicks) <= skew

(* leaseExpiresAt <= Date.now(), at full precision. *)
LeaseOver(o, skew) == row[o].lease <= skew

(* Variant: the renewal keeps the attempt. *)
RenewedSameAttempt(r) == [r EXCEPT !.lease = LeaseTicks]

Renewed(r) == [r EXCEPT !.lease = LeaseTicks, !.attempt = @ + 1]

(* reconcileExpiredExecuting, TX-R: renew the lease and take a new attempt. *)
Reconcile(w, o, skew) ==
    /\ work[w].pc = "idle"
    /\ row[o].status = "executing"
    /\ LeaseOver(o, skew)
    /\ row[o].attempt < MaxAttempts
    /\ row' = [row EXCEPT ![o] = Renewed(@)]
    /\ work' = [work EXCEPT ![w] = Started(o, row'[o].attempt)]
    /\ UNCHANGED <<ledger, phase, audit, spent, crashes>>

(* The WriteStore's record under the operation's idempotency key. *)
Recorded(o) == {e \in ledger : e.op = o}

(* Variant: the write ignores the key. *)
WrittenUnkeyed(w) ==
    ledger \cup {[op |-> work[w].op, hash |-> row[work[w].op].hash,
                  by |-> work[w].attempt]}

(* The keyed write: replay the recorded transaction or create it. *)
Written(w) ==
    LET o == work[w].op IN
    IF Recorded(o) # {} THEN ledger
    ELSE ledger \cup {[op |-> o, hash |-> row[o].hash, by |-> work[w].attempt]}

(* Variant: a replay is answered with the id of the current attempt. *)
ReceiptOfAttempt(o, entries) == row[o].attempt

ReceiptOf(o, entries) == (CHOOSE e \in entries : e.op = o).by

(* The executor, outside every transaction: it succeeds with a receipt for  *)
(* the recorded transaction, or throws - before its write committed or,     *)
(* when the answer of the COMMIT is lost, after it.  An incomplete result   *)
(* is handled like a throw.                                                 *)
RunExecutor(w) ==
    /\ work[w].pc = "running"
    /\ \/ /\ ledger' = Written(w)
          /\ work' = [work EXCEPT ![w].pc = "settling",
                                  ![w].outcome = "succeeded",
                                  ![w].receipt = ReceiptOf(work[w].op, ledger')]
       \/ /\ ledger' \in {ledger, Written(w)}
          /\ work' = [work EXCEPT ![w].pc = "settling", ![w].outcome = "error"]
    /\ UNCHANGED <<row, phase, audit, spent, crashes>>

(* stillOurs / stillRenewed *)
StillOurs(w) ==
    /\ row[work[w].op].status = "executing"
    /\ row[work[w].op].attempt = work[w].attempt

(* TX2 of execute and of reconcileExpiredExecuting: settle the row if it is *)
(* still this execution's, leave the authoritative row alone otherwise.     *)
Settle(w) ==
    /\ work[w].pc = "settling"
    /\ LET o == work[w].op IN
       IF ~StillOurs(w) THEN row' = row
       ELSE row' = [row EXCEPT
                ![o].status = IF work[w].outcome = "succeeded" THEN "succeeded"
                              ELSE "failed",
                ![o].mutation = IF work[w].outcome = "succeeded"
                                THEN work[w].receipt ELSE @]
    /\ work' = [work EXCEPT ![w] = IdleWork]
    /\ UNCHANGED <<ledger, phase, audit, spent, crashes>>

(* Variants: retry leaves the attestation consumed; retry re-arms the same  *)
(* attestation instead of issuing one.                                      *)
RetriedConsumed(r) == IssueToken(r)
RetriedSameToken(r) == [r EXCEPT !.status = "confirmed", !.consumed = FALSE]

Retried(r) == [IssueToken(r) EXCEPT !.consumed = FALSE]

(* retry: a new attestation; neither expires_at nor the attempt is touched. *)
Retry(o) ==
    /\ row[o].status = "failed"
    /\ row[o].token < MaxTokens
    /\ row' = [row EXCEPT ![o] = Retried(@)]
    /\ UNCHANGED <<ledger, work, phase, audit, spent, crashes>>

Undecided(o) == row[o].status \in {"proposed", "confirmed"}

Cancel(o) ==
    /\ Undecided(o)
    /\ row' = [row EXCEPT ![o].status = "cancelled"]
    /\ UNCHANGED <<ledger, work, phase, audit, spent, crashes>>

Expire(o) ==
    /\ Undecided(o)
    /\ row' = [row EXCEPT ![o].status = "expired"]
    /\ UNCHANGED <<ledger, work, phase, audit, spent, crashes>>

-----------------------------------------------------------------------------
(* Environment *)

(* The process dies: a handler is gone, whatever it had read with it. *)
Crash(w) ==
    /\ work[w].pc # "idle"
    /\ crashes < MaxCrashes
    /\ work' = [work EXCEPT ![w] = IdleWork]
    /\ crashes' = crashes + 1
    /\ UNCHANGED <<row, ledger, phase, audit, spent>>

(* Variant: times past are counted without bound. *)
SoonerUnbounded(t) == t - 1

Sooner(t) == IF t > -MaxSkew THEN t - 1 ELSE t

Tick ==
    /\ phase' = (phase + 1) % SecondTicks
    /\ row' = [o \in Ops |-> [row[o] EXCEPT !.lease = Sooner(@),
                                            !.ttl = Sooner(@)]]
    /\ work' = [w \in Workers |-> [work[w] EXCEPT !.lease = Sooner(@)]]
    /\ UNCHANGED <<ledger, audit, spent, crashes>>

Next ==
    \/ \E o \in Ops : \/ \E h \in Hashes : Propose(o, h)
                      \/ \E s \in Skews : Confirm(o, s)
                      \/ \E s \in Skews : ConfirmExpired(o, s)
                      \/ Retry(o)
                      \/ Cancel(o)
                      \/ Expire(o)
    \/ \E w \in Workers : \/ \E o \in Ops : Claim(w, o)
                          \/ \E o \in Ops, s \in Skews : Reconcile(w, o, s)
                          \/ RunExecutor(w)
                          \/ Settle(w)
                          \/ Crash(w)
    \/ Tick

Spec == Init /\ [][Next]_vars

-----------------------------------------------------------------------------
(* Properties *)

(* Every variable stays in its type. *)
TypeOK ==
    /\ row \in [Ops -> Row]
    /\ ledger \subseteq Entry
    /\ work \in [Workers -> Work]
    /\ phase \in 0 .. SecondTicks - 1
    /\ audit \subseteq Ops
    /\ spent \subseteq Ops \X Nat
    /\ crashes \in Nat

InFlight(w) == work[w].pc # "idle"

(* However often an operation is claimed, recovered or retried, and however *)
(* many executors overlap, its idempotency key holds at most one            *)
(* transaction, and that transaction is the one that was proposed.          *)
EffectAtMostOnce ==
    \A e \in ledger : /\ e.hash = row[e.op].hash
                      /\ \A f \in ledger : e.op = f.op => e = f

(* A row that says succeeded carries the id of the transaction that really  *)
(* is on the ledger, also when a recovered attempt settled it.              *)
SucceededIsOnLedger ==
    \A o \in Ops : row[o].status = "succeeded" =>
        \E e \in ledger : e.op = o /\ e.by = row[o].mutation

(* Two in-flight executions never hold the same attempt of an operation,    *)
(* and none holds an attempt the row has not reached: the attempt guard of  *)
(* TX2 identifies one execution.                                            *)
AttemptOwnership ==
    \A v, w \in Workers :
        InFlight(v) =>
            /\ work[v].attempt <= row[work[v].op].attempt
            /\ (InFlight(w) /\ v # w /\ work[v].op = work[w].op
                    => work[v].attempt # work[w].attempt)

(* A second execution of an operation starts only when the lease of the     *)
(* first has run out (up to the skew between the API and database clocks)   *)
(* or the first has been settled: while an unsettled execution's lease is   *)
(* valid it is the only one that may still write (SPEC V3 11.2).            *)
NoOverlapDuringLease ==
    \A v, w \in Workers :
        InFlight(v) /\ InFlight(w) /\ work[v].op = work[w].op
            /\ work[v].attempt < work[w].attempt
        => work[v].lease <= MaxSkew

(* A confirmed row always holds an unconsumed attestation, so it can always *)
(* be claimed or re-emitted (confirm's consumed branch is never taken), and *)
(* a consumed attestation is never held by a row that can be claimed.       *)
ConfirmedIsClaimable ==
    \A o \in Ops : row[o].status = "confirmed" =>
        ~row[o].consumed /\ row[o].token > 0 /\ <<o, row[o].token>> \notin spent

(* The state machine of SPEC V3 section 13: no step, of any handler however *)
(* late, moves a row along an edge the machine does not have; in particular *)
(* nothing leaves a terminal status, and what it executed stays.            *)
Edges == {<<"absent", "proposed">>, <<"proposed", "confirmed">>,
          <<"proposed", "cancelled">>, <<"proposed", "expired">>,
          <<"confirmed", "executing">>, <<"confirmed", "cancelled">>,
          <<"confirmed", "expired">>, <<"executing", "succeeded">>,
          <<"executing", "failed">>, <<"failed", "confirmed">>}

FollowsMachine ==
    [][\A o \in Ops :
        /\ row[o].status # row'[o].status =>
               <<row[o].status, row'[o].status>> \in Edges
        /\ row[o].status \in Terminal => row'[o].mutation = row[o].mutation]_vars

(* An attestation is consumed by at most one claim, whatever confirm,       *)
(* retry and lost answers do in between.                                    *)
AttestationSingleUse ==
    [][\A o \in Ops :
        row[o].status = "confirmed" /\ row'[o].status = "executing" =>
            <<o, row[o].token>> \notin spent]_vars

(* The store implements its contract. *)
Contract == INSTANCE ApprovalContract WITH
    Nothing  <- None,
    status   <- [o \in Ops |-> row[o].status],
    proposal <- [o \in Ops |-> row[o].hash],
    started  <- {o \in Ops : row[o].attempt > 0},
    posted   <- [o \in Ops |-> IF Recorded(o) = {} THEN None
                               ELSE (CHOOSE e \in Recorded(o) : TRUE).hash],
    reported <- {o \in Ops : row[o].mutation > 0}

ImplementsContract == Contract!Spec

(* What a user is told by "Operação cancelada com segurança", and SPEC V3   *)
(* line 1806 ("executor nunca chamado"): nothing was executed for it.       *)
CancelledHasNoEffect ==
    \A o \in Ops : row[o].status = "cancelled" => Recorded(o) = {}

(* The audit trail of the store records an expiry only of an operation that *)
(* the store did expire.                                                    *)
AuditedExpiryIsStored ==
    \A o \in audit : row[o].status = "expired"

=============================================================================
