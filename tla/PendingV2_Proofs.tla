--------------------------- MODULE PendingV2_Proofs ---------------------------
(***************************************************************************)
(* The safety properties of PendingV2 for any operations, hashes, number   *)
(* of concurrent executions, lease, lifetime, skew and bounds.             *)
(*                                                                         *)
(* None of the properties is inductive alone: that TX2 stores a receipt of *)
(* a transaction on the ledger depends on what an execution carries across *)
(* its executor call, and that an attestation is claimed once depends on   *)
(* the serials of those already spent.  Inv joins them:                    *)
(*   TypeOK        the types                                               *)
(*   WorkOK        what an in-flight execution holds is still true of the  *)
(*                 row and of the ledger                                   *)
(*   EffectAtMostOnce, SucceededIsOnLedger, AttemptOwnership               *)
(*   TokensOK      spent attestations are below or at the row's current    *)
(*                 one, and a row that can be claimed holds a fresh one    *)
(* Four more invariants rest on it: LeaseOK, from which the exclusion      *)
(* during a lease follows, ReceiptsOK, which the refinements need,         *)
(* ConsentOK, by which nothing is executed that nobody confirmed, and      *)
(* DueOK, about what confirm audits as expired.                            *)
(*                                                                         *)
(* Three abstractions of the store are proved: ApprovalContract, through   *)
(* it DecisionContract, which is how the agent sees the store, and         *)
(* KeyedWrite, which is what the store needs of its executor.              *)
(***************************************************************************)
EXTENDS PendingV2, TLAPS

(* An in-flight execution is of a proposed operation, under an attempt it  *)
(* took from the row, and a success it is about to settle is on the ledger. *)
WorkOK ==
    \A w \in Workers : InFlight(w) =>
        /\ work[w].op \in Ops
        /\ row[work[w].op].status # "absent"
        /\ work[w].pc = "settling" /\ work[w].outcome = "succeeded" =>
               \E e \in ledger : e.op = work[w].op /\ e.by = work[w].receipt

(* Only a proposed operation has a transaction, and it has a hash. *)
LedgerOK ==
    /\ \A e \in ledger : row[e.op].status # "absent"
    /\ \A o \in Ops : row[o].status # "absent" => row[o].hash \in Hashes

TokensOK ==
    /\ \A o \in Ops : \A n \in Nat : <<o, n>> \in spent => n <= row[o].token
    /\ \A o \in Ops : row[o].status = "proposed" => ~row[o].consumed
    /\ \A o \in Ops : row[o].status = "absent" =>
           row[o].token = 0 /\ row[o].attempt = 0
    /\ ConfirmedIsClaimable

Inv == /\ TypeOK
       /\ WorkOK
       /\ LedgerOK
       /\ EffectAtMostOnce
       /\ SucceededIsOnLedger
       /\ AttemptOwnership
       /\ TokensOK

-----------------------------------------------------------------------------
(* Lemmas about the helpers *)

(* A time left stays in its range as time passes. *)
LEMMA SoonerType ==
    ASSUME NEW m \in Nat, NEW t \in Left(m)
    PROVE  Sooner(t) \in Left(m)
BY BoundsAssumption DEF Sooner, Left

(* The constant rows and locals are of their types. *)
LEMMA ConstantsTyped ==
    /\ AbsentRow \in Row
    /\ IdleWork \in Work
    /\ LeaseTicks \in Left(LeaseTicks)
    /\ TtlTicks \in Left(TtlTicks)
BY BoundsAssumption DEF AbsentRow, IdleWork, Row, Work, Left

(* The row updates of confirm, retry, claim and renewal, field by field. *)
LEMMA RowUpdates ==
    ASSUME NEW r \in Row
    PROVE  /\ r.token \in Nat /\ r.attempt \in Nat
           /\ IssueToken(r) \in Row
           /\ IssueToken(r).status = "confirmed"
           /\ IssueToken(r).token = r.token + 1
           /\ IssueToken(r).hash = r.hash /\ IssueToken(r).attempt = r.attempt
           /\ IssueToken(r).consumed = r.consumed
           /\ IssueToken(r).mutation = r.mutation
           /\ Retried(r) \in Row
           /\ Retried(r).status = "confirmed"
           /\ Retried(r).token = r.token + 1
           /\ Retried(r).hash = r.hash /\ Retried(r).attempt = r.attempt
           /\ ~Retried(r).consumed
           /\ Retried(r).mutation = r.mutation
           /\ Renewed(r) \in Row
           /\ Renewed(r).status = r.status
           /\ Renewed(r).attempt = r.attempt + 1
           /\ Renewed(r).hash = r.hash /\ Renewed(r).token = r.token
           /\ Renewed(r).mutation = r.mutation
<1>1. r.token \in Nat /\ r.attempt \in Nat
  BY DEF Row
<1>2. r.token + 1 \in Nat /\ r.attempt + 1 \in Nat
  BY <1>1
<1>3. /\ IssueToken(r) \in Row
      /\ IssueToken(r).status = "confirmed"
      /\ IssueToken(r).token = r.token + 1
      /\ IssueToken(r).hash = r.hash /\ IssueToken(r).attempt = r.attempt
      /\ IssueToken(r).consumed = r.consumed
      /\ IssueToken(r).mutation = r.mutation
  BY <1>2 DEF IssueToken, Row, Statuses
<1>4. /\ Retried(r) \in Row
      /\ Retried(r).status = "confirmed"
      /\ Retried(r).token = r.token + 1
      /\ Retried(r).hash = r.hash /\ Retried(r).attempt = r.attempt
      /\ ~Retried(r).consumed
      /\ Retried(r).mutation = r.mutation
  BY <1>3 DEF Retried, Row
<1>5. /\ Renewed(r) \in Row
      /\ Renewed(r).status = r.status
      /\ Renewed(r).attempt = r.attempt + 1
      /\ Renewed(r).hash = r.hash /\ Renewed(r).token = r.token
      /\ Renewed(r).mutation = r.mutation
  BY <1>2, ConstantsTyped DEF Renewed, Row
<1> QED BY <1>1, <1>3, <1>4, <1>5

(* The keyed write leaves exactly one transaction under the key, of the     *)
(* proposed hash, and touches no other key.                                 *)
LEMMA WrittenKeyed ==
    ASSUME TypeOK, WorkOK, LedgerOK, EffectAtMostOnce,
           NEW w \in Workers, InFlight(w)
    PROVE  /\ Written(w) \subseteq Entry
           /\ ledger \subseteq Written(w)
           /\ \E e \in Written(w) : e.op = work[w].op
           /\ \A e \in Written(w) : e \in ledger \/ e.op = work[w].op
           /\ \A e \in Written(w) :
                 /\ e.hash = row[e.op].hash
                 /\ \A f \in Written(w) : e.op = f.op => e = f
<1> DEFINE o == work[w].op
           new == [op |-> o, hash |-> row[o].hash, by |-> work[w].attempt]
<1>1. /\ o \in Ops /\ row[o].hash \in Hashes /\ work[w].attempt \in Nat
      /\ ledger \subseteq Entry
  BY DEF TypeOK, WorkOK, LedgerOK, Work
<1>2. CASE Recorded(o) # {}
  <2>1. Written(w) = ledger
    BY <1>2 DEF Written
  <2>2. PICK e \in ledger : e.op = o
    BY <1>2 DEF Recorded
  <2> QED BY <1>1, <2>1, <2>2 DEF EffectAtMostOnce
<1>3. CASE Recorded(o) = {}
  <2>1. Written(w) = ledger \cup {new}
    BY <1>3 DEF Written
  <2>2. \A e \in ledger : e.op # o
    BY <1>3 DEF Recorded
  <2>3. new \in Entry /\ new.op = o /\ new.hash = row[o].hash
    BY <1>1 DEF Entry
  <2> HIDE DEF new
  <2> QED BY <1>1, <2>1, <2>2, <2>3 DEF EffectAtMostOnce
<1> QED BY <1>2, <1>3

-----------------------------------------------------------------------------
(* The steps, by shape *)

(* Inv holds of the empty table. *)
LEMMA InitInv == Init => Inv
<1> SUFFICES ASSUME Init PROVE Inv
  OBVIOUS
<1>1. TypeOK
  BY ConstantsTyped, BoundsAssumption DEF Init, TypeOK
<1>2. \A o \in Ops : row[o].status = "absent" /\ ~row[o].consumed
                       /\ row[o].token = 0 /\ row[o].attempt = 0
  BY DEF Init, AbsentRow
<1>3. \A w \in Workers : ~InFlight(w)
  BY DEF Init, IdleWork, InFlight
<1>4. ledger = {} /\ spent = {}
  BY DEF Init
<1> QED
  BY <1>1, <1>2, <1>3, <1>4
     DEF Inv, WorkOK, LedgerOK, EffectAtMostOnce, SucceededIsOnLedger,
         AttemptOwnership, TokensOK, ConfirmedIsClaimable

(* A store method that changes one row and touches neither what was        *)
(* executed nor the attempt: propose, confirm, retry, cancel, expire.       *)
LEMMA RowStep ==
    ASSUME Inv, NEW o \in Ops, NEW r \in Row,
           row' = [row EXCEPT ![o] = r],
           UNCHANGED <<ledger, work, spent>>,
           phase' = phase, audit' = audit, crashes' = crashes,
           r.status \notin {"absent", "succeeded"},
           r.hash \in Hashes,
           row[o].status # "absent" => r.hash = row[o].hash,
           r.attempt = row[o].attempt,
           r.token >= row[o].token,
           r.status = "proposed" => ~r.consumed,
           r.status = "confirmed" => ~r.consumed /\ r.token > row[o].token
    PROVE  Inv'
<1>1. /\ row' \in [Ops -> Row] /\ row'[o] = r
      /\ \A p \in Ops : p # o => row'[p] = row[p]
  BY DEF Inv, TypeOK
<1>2. TypeOK'
  BY <1>1 DEF Inv, TypeOK
<1>3. WorkOK'
  BY <1>1 DEF Inv, WorkOK, InFlight
<1>4. LedgerOK' /\ EffectAtMostOnce'
  BY <1>1 DEF Inv, TypeOK, LedgerOK, EffectAtMostOnce, Entry
<1>5. SucceededIsOnLedger'
  BY <1>1 DEF Inv, SucceededIsOnLedger
<1>6. AttemptOwnership'
  BY <1>1 DEF Inv, AttemptOwnership, WorkOK, InFlight
<1>7. TokensOK'
  <2>1. row[o] \in Row /\ r.token \in Nat /\ row[o].token \in Nat
    BY DEF Inv, TypeOK, Row
  <2>2. \A p \in Ops : \A n \in Nat : <<p, n>> \in spent' => n <= row'[p].token
    BY <1>1, <2>1 DEF Inv, TokensOK
  <2>3. <<o, r.token>> \in spent => r.token <= row[o].token
    BY <2>1 DEF Inv, TokensOK
  <2>4. r.status = "confirmed" => <<o, r.token>> \notin spent /\ r.token > 0
    BY <2>1, <2>3
  <2>5. ConfirmedIsClaimable'
    BY <1>1, <2>4 DEF Inv, TokensOK, ConfirmedIsClaimable
  <2> QED BY <1>1, <2>2, <2>5 DEF Inv, TokensOK
<1> QED BY <1>2, <1>3, <1>4, <1>5, <1>6, <1>7 DEF Inv

(* TX1 and TX-R: the row takes a new attempt and an idle handler holds it.  *)
LEMMA StartStep ==
    ASSUME Inv, NEW o \in Ops, NEW w \in Workers, NEW r \in Row,
           ~InFlight(w),
           row[o].status # "absent",
           row' = [row EXCEPT ![o] = r],
           work' = [work EXCEPT ![w] = Started(o, row[o].attempt + 1)],
           r.status = "executing", r.hash = row[o].hash,
           r.attempt = row[o].attempt + 1, r.token = row[o].token,
           ledger' = ledger,
           spent' \in {spent, spent \cup {<<o, row[o].token>>}},
           phase' = phase, audit' = audit, crashes' = crashes
    PROVE  Inv'
<1> DEFINE s == Started(o, row[o].attempt + 1)
<1>1. /\ row' \in [Ops -> Row] /\ row'[o] = r
      /\ \A p \in Ops : p # o => row'[p] = row[p]
  BY DEF Inv, TypeOK
<1>2. row[o] \in Row /\ row[o].attempt \in Nat /\ row[o].token \in Nat
  BY DEF Inv, TypeOK, Row
<1>3. /\ s \in Work /\ s.pc = "running" /\ s.op = o
      /\ s.attempt = row[o].attempt + 1
  BY <1>2, ConstantsTyped DEF Started, Work
<1> HIDE DEF s
<1>4. /\ work' \in [Workers -> Work] /\ work'[w] = s
      /\ \A v \in Workers : v # w => work'[v] = work[v]
  BY <1>3 DEF Inv, TypeOK, s
<1>5. TypeOK'
  BY <1>1, <1>2, <1>4 DEF Inv, TypeOK
<1>6. WorkOK'
  BY <1>1, <1>3, <1>4 DEF Inv, WorkOK, InFlight
<1>7. LedgerOK' /\ EffectAtMostOnce'
  BY <1>1 DEF Inv, TypeOK, LedgerOK, EffectAtMostOnce, Entry
<1>8. SucceededIsOnLedger'
  BY <1>1 DEF Inv, SucceededIsOnLedger
<1>9. AttemptOwnership'
  <2>1. \A v \in Workers : v # w /\ InFlight(v) /\ work[v].op = o =>
           work[v].attempt <= row[o].attempt /\ work[v].attempt \in Nat
    BY DEF Inv, AttemptOwnership, TypeOK, Work
  <2>2. ASSUME NEW v \in Workers, InFlight(v)'
        PROVE  work'[v].attempt <= row'[work'[v].op].attempt
    <3>1. CASE v = w
      BY <1>1, <1>2, <1>3, <1>4, <3>1
    <3>2. CASE v # w
      BY <1>1, <1>2, <1>4, <2>1, <2>2, <3>2 DEF Inv, AttemptOwnership, WorkOK, InFlight
    <3> QED BY <3>1, <3>2
  <2>3. ASSUME NEW v \in Workers, NEW u \in Workers, InFlight(v)', InFlight(u)',
               v # u, work'[v].op = work'[u].op
        PROVE  work'[v].attempt # work'[u].attempt
    <3>1. CASE v # w /\ u # w
      BY <1>4, <2>3, <3>1 DEF Inv, AttemptOwnership, InFlight
    <3>2. CASE v = w
      BY <1>2, <1>3, <1>4, <2>1, <2>3, <3>2 DEF InFlight
    <3>3. CASE u = w
      BY <1>2, <1>3, <1>4, <2>1, <2>3, <3>3 DEF InFlight
    <3> QED BY <3>1, <3>2, <3>3
  <2> QED BY <2>2, <2>3 DEF AttemptOwnership
<1>10. TokensOK'
  <2>1. \A p \in Ops : \A n \in Nat : <<p, n>> \in spent' => n <= row'[p].token
    BY <1>1, <1>2 DEF Inv, TokensOK
  <2>2. ConfirmedIsClaimable'
    BY <1>1 DEF Inv, TokensOK, ConfirmedIsClaimable
  <2> QED BY <1>1, <2>1, <2>2 DEF Inv, TokensOK
<1> QED BY <1>5, <1>6, <1>7, <1>8, <1>9, <1>10 DEF Inv

(* A step that only changes what one in-flight execution holds, and may     *)
(* end it, keeps Inv if what it still holds is true.                        *)
LEMMA WorkerStep ==
    ASSUME Inv, NEW w \in Workers, NEW u \in Work,
           InFlight(w),
           work' = [work EXCEPT ![w] = u],
           u.pc # "idle" => u.op = work[w].op /\ u.attempt = work[w].attempt,
           u.pc = "settling" /\ u.outcome = "succeeded" =>
               \E e \in ledger' : e.op = work[w].op /\ e.by = u.receipt,
           ledger' \in {ledger, Written(w)},
           row' = row, spent' = spent, phase' = phase, audit' = audit,
           crashes' \in Nat
    PROVE  Inv'
<1>1. /\ work' \in [Workers -> Work] /\ work'[w] = u
      /\ \A v \in Workers : v # w => work'[v] = work[v]
  BY DEF Inv, TypeOK
<1>2. /\ ledger' \subseteq Entry /\ ledger \subseteq ledger'
      /\ \A e \in ledger' : e \in ledger \/ e.op = work[w].op
      /\ \A e \in ledger' : /\ e.hash = row[e.op].hash
                            /\ \A f \in ledger' : e.op = f.op => e = f
  BY WrittenKeyed DEF Inv, TypeOK, EffectAtMostOnce
<1>3. TypeOK'
  BY <1>1, <1>2 DEF Inv, TypeOK
<1>4. WorkOK'
  BY <1>1, <1>2 DEF Inv, WorkOK, InFlight
<1>5. LedgerOK' /\ EffectAtMostOnce'
  BY <1>2 DEF Inv, LedgerOK, EffectAtMostOnce, WorkOK
<1>6. SucceededIsOnLedger'
  BY <1>2 DEF Inv, SucceededIsOnLedger
<1>7. AttemptOwnership'
  BY <1>1 DEF Inv, AttemptOwnership, InFlight
<1>8. TokensOK'
  BY DEF Inv, TokensOK, ConfirmedIsClaimable
<1> QED BY <1>3, <1>4, <1>5, <1>6, <1>7, <1>8 DEF Inv

(* TX2, when the row is still this execution's. *)
LEMMA SettleStep ==
    ASSUME Inv, NEW w \in Workers, Settle(w), StillOurs(w)
    PROVE  Inv'
<1> DEFINE o == work[w].op
           ok == work[w].outcome = "succeeded"
           r == [row[o] EXCEPT !.status = IF ok THEN "succeeded" ELSE "failed",
                               !.mutation = IF ok THEN work[w].receipt ELSE @]
<1>1. o \in Ops /\ row[o] \in Row /\ work[w] \in Work /\ row[o].status = "executing"
  BY DEF Inv, TypeOK, WorkOK, Settle, InFlight, StillOurs
<1>2. /\ r \in Row /\ r.status \in {"succeeded", "failed"}
      /\ r.hash = row[o].hash /\ r.token = row[o].token
      /\ r.attempt = row[o].attempt
      /\ r.status = "succeeded" => ok /\ r.mutation = work[w].receipt
  BY <1>1 DEF Row, Work, Statuses
<1>3. row' = [row EXCEPT ![o] = r]
  BY <1>1 DEF Settle, Inv, TypeOK
<1> HIDE DEF r
<1>4. /\ row' \in [Ops -> Row] /\ row'[o] = r
      /\ \A p \in Ops : p # o => row'[p] = row[p]
  BY <1>1, <1>2, <1>3 DEF Inv, TypeOK
<1>5. /\ work' \in [Workers -> Work] /\ ~InFlight(w)'
      /\ \A v \in Workers : v # w => work'[v] = work[v]
      /\ UNCHANGED <<ledger, phase, audit, spent, crashes>>
  BY ConstantsTyped DEF Settle, Inv, TypeOK, InFlight, IdleWork
<1>6. TypeOK'
  BY <1>4, <1>5 DEF Inv, TypeOK
<1>7. WorkOK'
  BY <1>2, <1>4, <1>5 DEF Inv, WorkOK, InFlight
<1>8. LedgerOK' /\ EffectAtMostOnce'
  BY <1>1, <1>2, <1>4, <1>5 DEF Inv, TypeOK, LedgerOK, EffectAtMostOnce, Entry
<1>9. SucceededIsOnLedger'
  BY <1>2, <1>4, <1>5 DEF Inv, SucceededIsOnLedger, WorkOK, InFlight, Settle
<1>10. AttemptOwnership'
  BY <1>2, <1>4, <1>5 DEF Inv, AttemptOwnership, WorkOK, InFlight
<1>11. TokensOK'
  BY <1>2, <1>4, <1>5 DEF Inv, TokensOK, ConfirmedIsClaimable
<1> QED BY <1>6, <1>7, <1>8, <1>9, <1>10, <1>11 DEF Inv

(* The passage of time changes only times left. *)
LEMMA TickStep ==
    ASSUME Inv, Tick
    PROVE  Inv'
<1>1. \A o \in Ops : /\ row'[o] \in Row
                     /\ row'[o].status = row[o].status
                     /\ row'[o].hash = row[o].hash
                     /\ row'[o].token = row[o].token
                     /\ row'[o].consumed = row[o].consumed
                     /\ row'[o].attempt = row[o].attempt
                     /\ row'[o].mutation = row[o].mutation
  <2> SUFFICES ASSUME NEW o \in Ops
               PROVE  /\ row'[o] \in Row
                      /\ row'[o].status = row[o].status
                      /\ row'[o].hash = row[o].hash
                      /\ row'[o].token = row[o].token
                      /\ row'[o].consumed = row[o].consumed
                      /\ row'[o].attempt = row[o].attempt
                      /\ row'[o].mutation = row[o].mutation
    OBVIOUS
  <2>1. row[o] \in Row
    BY DEF Inv, TypeOK
  <2>2. row'[o] = [row[o] EXCEPT !.lease = Sooner(@), !.ttl = Sooner(@)]
    BY DEF Tick
  <2>3. Sooner(row[o].lease) \in Left(LeaseTicks) /\ Sooner(row[o].ttl) \in Left(TtlTicks)
    BY <2>1, SoonerType, BoundsAssumption DEF Row
  <2> QED BY <2>1, <2>2, <2>3 DEF Row
<1>2. \A w \in Workers : /\ work'[w] \in Work
                         /\ work'[w].pc = work[w].pc
                         /\ work'[w].op = work[w].op
                         /\ work'[w].attempt = work[w].attempt
                         /\ work'[w].outcome = work[w].outcome
                         /\ work'[w].receipt = work[w].receipt
  <2> SUFFICES ASSUME NEW w \in Workers
               PROVE  /\ work'[w] \in Work
                      /\ work'[w].pc = work[w].pc
                      /\ work'[w].op = work[w].op
                      /\ work'[w].attempt = work[w].attempt
                      /\ work'[w].outcome = work[w].outcome
                      /\ work'[w].receipt = work[w].receipt
    OBVIOUS
  <2>1. work[w] \in Work
    BY DEF Inv, TypeOK
  <2>2. work'[w] = [work[w] EXCEPT !.lease = Sooner(@)]
    BY DEF Tick
  <2>3. Sooner(work[w].lease) \in Left(LeaseTicks)
    BY <2>1, SoonerType, BoundsAssumption DEF Work
  <2> QED BY <2>1, <2>2, <2>3 DEF Work
<1>3. UNCHANGED <<ledger, audit, spent, crashes>> /\ phase' \in 0 .. SecondTicks - 1
  <2>1. phase \in Int /\ SecondTicks \in Nat \ {0}
    BY BoundsAssumption DEF Inv, TypeOK
  <2>2. (phase + 1) % SecondTicks \in 0 .. SecondTicks - 1
    BY <2>1
  <2> QED BY <2>2 DEF Tick
<1>4. row' \in [Ops -> Row] /\ work' \in [Workers -> Work]
  BY <1>1, <1>2 DEF Tick
<1>5. TypeOK'
  BY <1>3, <1>4 DEF Inv, TypeOK
<1>6. WorkOK'
  BY <1>1, <1>2, <1>3 DEF Inv, WorkOK, InFlight
<1>7. LedgerOK' /\ EffectAtMostOnce'
  BY <1>1, <1>3 DEF Inv, TypeOK, LedgerOK, EffectAtMostOnce, Entry
<1>8. SucceededIsOnLedger'
  BY <1>1, <1>3 DEF Inv, SucceededIsOnLedger
<1>9. AttemptOwnership'
  BY <1>1, <1>2 DEF Inv, AttemptOwnership, WorkOK, InFlight
<1>10. TokensOK'
  BY <1>1, <1>3 DEF Inv, TokensOK, ConfirmedIsClaimable
<1> QED BY <1>5, <1>6, <1>7, <1>8, <1>9, <1>10 DEF Inv

-----------------------------------------------------------------------------
(* Every step preserves Inv: one case per action. *)
LEMMA StepInv == Inv /\ [Next]_vars => Inv'
<1> SUFFICES ASSUME Inv, [Next]_vars PROVE Inv'
  OBVIOUS
<1>1. ASSUME NEW o \in Ops, NEW h \in Hashes, Propose(o, h) PROVE Inv'
  <2> DEFINE r == [AbsentRow EXCEPT !.status = "proposed", !.hash = h,
                                    !.ttl = TtlTicks]
  <2>1. /\ r \in Row /\ r.status = "proposed" /\ r.hash = h
        /\ r.attempt = 0 /\ r.token = 0 /\ ~r.consumed
    BY ConstantsTyped DEF AbsentRow, Row, Statuses
  <2>2. row[o].status = "absent" /\ row[o].attempt = 0 /\ row[o].token = 0
    BY <1>1 DEF Propose, Inv, TokensOK
  <2>3. row' = [row EXCEPT ![o] = r]
    BY <1>1 DEF Propose
  <2> HIDE DEF r
  <2>4. /\ UNCHANGED <<ledger, work, spent>>
        /\ phase' = phase /\ audit' = audit /\ crashes' = crashes
    BY <1>1 DEF Propose
  <2>5. r.token >= row[o].token /\ r.attempt = row[o].attempt
    BY <2>1, <2>2
  <2> QED BY <2>1, <2>2, <2>3, <2>4, <2>5, RowStep
<1>2. ASSUME NEW o \in Ops, NEW s \in Skews, Confirm(o, s) PROVE Inv'
  <2> DEFINE r == IssueToken(row[o])
  <2>1. row[o] \in Row /\ row[o].status \in {"proposed", "confirmed"} /\ ~row[o].consumed
    BY <1>2 DEF Confirm, Inv, TypeOK, TokensOK
  <2>2. /\ r \in Row /\ r.status = "confirmed" /\ r.hash = row[o].hash
        /\ r.attempt = row[o].attempt /\ r.token > row[o].token /\ ~r.consumed
    BY <2>1, RowUpdates
  <2>3. row' = [row EXCEPT ![o] = r]
    BY <1>2 DEF Confirm
  <2>4. r.hash \in Hashes /\ r.token >= row[o].token
    BY <2>1, <2>2 DEF Inv, LedgerOK, Row
  <2> HIDE DEF r
  <2> QED BY <1>2, <2>2, <2>3, <2>4, RowStep DEF Confirm
<1>3. ASSUME NEW o \in Ops, NEW s \in Skews, ConfirmExpired(o, s) PROVE Inv'
  BY <1>3 DEF ConfirmExpired, Inv, TypeOK, WorkOK, LedgerOK, EffectAtMostOnce,
      SucceededIsOnLedger, AttemptOwnership, TokensOK, ConfirmedIsClaimable, InFlight
<1>4. ASSUME NEW o \in Ops, Retry(o) PROVE Inv'
  <2> DEFINE r == Retried(row[o])
  <2>1. row[o] \in Row /\ row[o].status = "failed"
    BY <1>4 DEF Retry, Inv, TypeOK
  <2>2. /\ r \in Row /\ r.status = "confirmed" /\ r.hash = row[o].hash
        /\ r.attempt = row[o].attempt /\ r.token > row[o].token /\ ~r.consumed
    BY <2>1, RowUpdates
  <2>3. row' = [row EXCEPT ![o] = r]
    BY <1>4 DEF Retry
  <2>4. r.hash \in Hashes /\ r.token >= row[o].token
    BY <2>1, <2>2 DEF Inv, LedgerOK, Row
  <2> HIDE DEF r
  <2> QED BY <1>4, <2>2, <2>3, <2>4, RowStep DEF Retry
<1>5. ASSUME NEW o \in Ops, Cancel(o) \/ Expire(o) PROVE Inv'
  <2>1. PICK t \in {"cancelled", "expired"} : row' = [row EXCEPT ![o].status = t]
    BY <1>5 DEF Cancel, Expire
  <2> DEFINE r == [row[o] EXCEPT !.status = t]
  <2>2. row[o] \in Row /\ row[o].status \in {"proposed", "confirmed"}
    BY <1>5 DEF Cancel, Expire, Undecided, Inv, TypeOK
  <2>3. /\ r \in Row /\ r.status = t /\ r.hash = row[o].hash
        /\ r.attempt = row[o].attempt /\ r.token = row[o].token
    BY <2>2 DEF Row, Statuses
  <2>4. row' = [row EXCEPT ![o] = r]
    BY <2>1
  <2>5. r.hash \in Hashes /\ r.token >= row[o].token
    BY <2>2, <2>3 DEF Inv, LedgerOK, Row
  <2> HIDE DEF r
  <2> QED BY <1>5, <2>3, <2>4, <2>5, RowStep DEF Cancel, Expire
<1>6. ASSUME NEW w \in Workers, NEW o \in Ops, Claim(w, o) PROVE Inv'
  <2> DEFINE r == [row[o] EXCEPT !.consumed = TRUE, !.status = "executing",
                                 !.lease = LeaseTicks, !.attempt = @ + 1]
  <2>1. row[o] \in Row /\ row[o].status = "confirmed"
    BY <1>6 DEF Claim, Inv, TypeOK
  <2>2. /\ r \in Row /\ r.status = "executing" /\ r.hash = row[o].hash
        /\ r.attempt = row[o].attempt + 1 /\ r.token = row[o].token
    <3>1. row[o].attempt + 1 \in Nat
      BY <2>1, RowUpdates
    <3> QED BY <2>1, <3>1, ConstantsTyped DEF Row, Statuses
  <2>3. row' = [row EXCEPT ![o] = r]
    BY <1>6 DEF Claim
  <2> HIDE DEF r
  <2> QED BY ZenonT(60), <1>6, <2>1, <2>2, <2>3, StartStep DEF Claim, InFlight
<1>7. ASSUME NEW w \in Workers, NEW o \in Ops, NEW s \in Skews, Reconcile(w, o, s)
      PROVE  Inv'
  <2> DEFINE r == Renewed(row[o])
  <2>1. row[o] \in Row /\ row[o].status = "executing"
    BY <1>7 DEF Reconcile, Inv, TypeOK
  <2>2. /\ r \in Row /\ r.status = "executing" /\ r.hash = row[o].hash
        /\ r.attempt = row[o].attempt + 1 /\ r.token = row[o].token
    BY <2>1, RowUpdates
  <2>3. row' = [row EXCEPT ![o] = r]
    BY <1>7 DEF Reconcile
  <2> HIDE DEF r
  <2>4. row'[o].attempt = row[o].attempt + 1
    BY <2>2, <2>3 DEF Inv, TypeOK
  <2> QED BY <1>7, <2>1, <2>2, <2>3, <2>4, StartStep DEF Reconcile, InFlight
<1>8. ASSUME NEW w \in Workers, RunExecutor(w) PROVE Inv'
  <2>1. InFlight(w) /\ work[w] \in Work /\ work[w].op \in Ops
    BY <1>8 DEF RunExecutor, InFlight, Inv, TypeOK, WorkOK
  <2>2. CASE /\ ledger' = Written(w)
             /\ work' = [work EXCEPT ![w].pc = "settling",
                                     ![w].outcome = "succeeded",
                                     ![w].receipt = ReceiptOf(work[w].op, ledger')]
    <3> DEFINE n == ReceiptOf(work[w].op, ledger')
               u == [work[w] EXCEPT !.pc = "settling", !.outcome = "succeeded",
                                    !.receipt = n]
    <3>1. \E e \in ledger' : e.op = work[w].op
      BY <2>1, <2>2, WrittenKeyed DEF Inv
    <3>2. ledger' \subseteq Entry
      BY <2>1, <2>2, WrittenKeyed DEF Inv
    <3>3. n \in Nat /\ \E e \in ledger' : e.op = work[w].op /\ e.by = n
      BY <3>1, <3>2 DEF ReceiptOf, Entry
    <3> HIDE DEF n
    <3>4. /\ u \in Work /\ u.pc = "settling" /\ u.op = work[w].op
          /\ u.attempt = work[w].attempt /\ u.receipt = n
      BY <2>1, <3>3 DEF Work
    <3>5. work' = [work EXCEPT ![w] = u]
      BY <2>2 DEF n
    <3> HIDE DEF u
    <3>6. crashes' \in Nat
      BY <1>8 DEF RunExecutor, Inv, TypeOK
    <3> QED BY <1>8, <2>1, <2>2, <3>3, <3>4, <3>5, <3>6, WorkerStep DEF RunExecutor
  <2>3. CASE /\ ledger' \in {ledger, Written(w)}
             /\ work' = [work EXCEPT ![w].pc = "settling", ![w].outcome = "error"]
    <3> DEFINE u == [work[w] EXCEPT !.pc = "settling", !.outcome = "error"]
    <3>1. /\ u \in Work /\ u.pc = "settling" /\ u.op = work[w].op
          /\ u.attempt = work[w].attempt /\ u.outcome = "error"
      BY <2>1 DEF Work
    <3>2. work' = [work EXCEPT ![w] = u]
      BY <2>3
    <3> HIDE DEF u
    <3>3. crashes' \in Nat
      BY <1>8 DEF RunExecutor, Inv, TypeOK
    <3> QED BY <1>8, <2>1, <2>3, <3>1, <3>2, <3>3, WorkerStep DEF RunExecutor
  <2> QED BY <1>8, <2>2, <2>3 DEF RunExecutor
<1>9. ASSUME NEW w \in Workers, Settle(w) PROVE Inv'
  <2>1. CASE StillOurs(w)
    BY <1>9, <2>1, SettleStep
  <2>2. CASE ~StillOurs(w)
    <3>1. row' = row /\ work' = [work EXCEPT ![w] = IdleWork] /\ InFlight(w)
          /\ crashes' \in Nat
      BY <1>9, <2>2 DEF Settle, InFlight, Inv, TypeOK
    <3>2. IdleWork \in Work /\ IdleWork.pc = "idle"
      BY ConstantsTyped DEF IdleWork
    <3> QED BY <1>9, <3>1, <3>2, WorkerStep DEF Settle
  <2> QED BY <2>1, <2>2
<1>10. ASSUME NEW w \in Workers, Crash(w) PROVE Inv'
  <2>1. IdleWork \in Work /\ IdleWork.pc = "idle"
    BY ConstantsTyped DEF IdleWork
  <2>2. crashes' \in Nat /\ InFlight(w)
    BY <1>10 DEF Crash, Inv, TypeOK, InFlight
  <2> QED BY <1>10, <2>1, <2>2, WorkerStep DEF Crash
<1>11. CASE Tick
  BY <1>11, TickStep
<1>12. CASE UNCHANGED vars
  BY <1>12 DEF vars, Inv, TypeOK, WorkOK, LedgerOK, EffectAtMostOnce,
      SucceededIsOnLedger, AttemptOwnership, TokensOK, ConfirmedIsClaimable, InFlight
<1> QED
  BY <1>1, <1>2, <1>3, <1>4, <1>5, <1>6, <1>7, <1>8, <1>9, <1>10, <1>11, <1>12 DEF Next

(* Inv holds throughout every behaviour. *)
THEOREM Invariance == Spec => []Inv
BY InitInv, StepInv, PTL DEF Spec

-----------------------------------------------------------------------------
(* The properties *)

(* The types are respected. *)
THEOREM TypeCorrect == Spec => []TypeOK
BY Invariance, PTL DEF Inv

(* At most one transaction is ever recorded under an operation's            *)
(* idempotency key, and it is the one that was proposed, for any number of  *)
(* claims, recoveries, retries, crashes and overlapping executors.          *)
THEOREM SingleEffect == Spec => []EffectAtMostOnce
BY Invariance, PTL DEF Inv

(* A succeeded row names a transaction that is on the ledger under its key. *)
THEOREM SuccessIsReal == Spec => []SucceededIsOnLedger
BY Invariance, PTL DEF Inv

(* The attempt an execution captured identifies it: no two in-flight        *)
(* executions of an operation share one.                                    *)
THEOREM AttemptIdentifies == Spec => []AttemptOwnership
BY Invariance, PTL DEF Inv

(* A confirmed operation is never left without a usable attestation.        *)
THEOREM ConfirmedRecoverable == Spec => []ConfirmedIsClaimable
BY Invariance, PTL DEF Inv, TokensOK

(* No step moves a row off the status machine, and a terminal row keeps     *)
(* its status and its mutation id whatever late execution settles.          *)
THEOREM MachineFollowed == Spec => FollowsMachine
<1> DEFINE A == \A o \in Ops :
        /\ row[o].status # row'[o].status =>
               <<row[o].status, row'[o].status>> \in Edges
        /\ row[o].status \in Terminal => row'[o].mutation = row[o].mutation
<1>1. Inv /\ [Next]_vars => [A]_vars
  <2> SUFFICES ASSUME Inv, Next PROVE A
    BY DEF vars
  <2> SUFFICES ASSUME NEW p \in Ops
               PROVE  /\ row[p].status # row'[p].status =>
                             <<row[p].status, row'[p].status>> \in Edges
                      /\ row[p].status \in Terminal =>
                             row'[p].mutation = row[p].mutation
    OBVIOUS
  <2> USE DEF Edges, Terminal
  <2>0. row \in [Ops -> Row] /\ row[p] \in Row
    BY DEF Inv, TypeOK
  <2>1. ASSUME NEW o \in Ops, NEW h \in Hashes, Propose(o, h) PROVE A
    BY <2>0, <2>1 DEF Propose, AbsentRow, Inv, TypeOK
  <2>2. ASSUME NEW o \in Ops, NEW s \in Skews, Confirm(o, s) PROVE A
    <3>1. row[o].status \in {"proposed", "confirmed"}
      BY <2>2 DEF Confirm
    <3>2. row' = [row EXCEPT ![o] = IssueToken(row[o])]
      BY <2>2 DEF Confirm
    <3> QED BY <3>1, <3>2, RowUpdates DEF Inv, TypeOK
  <2>3. ASSUME NEW o \in Ops, Retry(o) \/ Cancel(o) \/ Expire(o) PROVE A
    <3>1. CASE Retry(o)
      <4>1. row[o].status = "failed" /\ row' = [row EXCEPT ![o] = Retried(row[o])]
        BY <3>1 DEF Retry
      <4> QED BY <4>1, RowUpdates DEF Inv, TypeOK
    <3>2. CASE Cancel(o) \/ Expire(o)
      BY <3>2 DEF Cancel, Expire, Undecided, Inv, TypeOK, Row
    <3> QED BY <2>3, <3>1, <3>2
  <2>4. ASSUME NEW w \in Workers, NEW o \in Ops, Claim(w, o) PROVE A
    BY <2>4 DEF Claim, Inv, TypeOK, Row
  <2>5. ASSUME NEW w \in Workers, NEW o \in Ops, NEW s \in Skews, Reconcile(w, o, s)
        PROVE  A
    BY <2>5 DEF Reconcile, Renewed, Inv, TypeOK, Row
  <2>6. ASSUME NEW w \in Workers, Settle(w) PROVE A
    <3>1. CASE StillOurs(w)
      <4>1. row[work[w].op].status = "executing" /\ work[w].op \in Ops
        BY <2>6, <3>1 DEF Settle, StillOurs, InFlight, Inv, WorkOK
      <4>2. /\ \A o \in Ops : o # work[w].op => row'[o] = row[o]
            /\ row'[work[w].op].status \in {"succeeded", "failed"}
        BY <2>6, <3>1, <4>1 DEF Settle, Inv, TypeOK, Row
      <4> QED BY <4>1, <4>2
    <3>2. CASE ~StillOurs(w)
      BY <2>6, <3>2 DEF Settle
    <3> QED BY <3>1, <3>2
  <2>7. CASE Tick
    BY <2>7 DEF Tick, Inv, TypeOK, Row
  <2>8. ASSUME row' = row PROVE A
    BY <2>8
  <2> QED
    BY <2>1, <2>2, <2>3, <2>4, <2>5, <2>6, <2>7, <2>8
       DEF Next, ConfirmExpired, RunExecutor, Crash
<1> QED BY Invariance, <1>1, PTL DEF Spec, FollowsMachine

(* No attestation is consumed by two claims. *)
THEOREM AttestationsSpentOnce == Spec => AttestationSingleUse
<1> DEFINE A == \A o \in Ops :
        row[o].status = "confirmed" /\ row'[o].status = "executing" =>
            <<o, row[o].token>> \notin spent
<1>1. Inv /\ [Next]_vars => [A]_vars
  BY DEF Inv, TokensOK, ConfirmedIsClaimable
<1> QED BY Invariance, <1>1, PTL DEF Spec, AttestationSingleUse

-----------------------------------------------------------------------------
(***************************************************************************)
(* The execution lease excludes.  NoOverlapDuringLease compares two        *)
(* executions and says nothing of the row, which is where the next one is  *)
(* decided.  LeaseOK relates each execution to the row: the one that holds *)
(* the row's latest attempt finds it executing, under the very lease it    *)
(* was given; any other has outlived its lease.                            *)
(***************************************************************************)
Latest(w) == work[w].attempt = row[work[w].op].attempt

LeaseOK ==
    \A w \in Workers : InFlight(w) =>
        /\ Latest(w) => /\ row[work[w].op].status = "executing"
                        /\ work[w].lease = row[work[w].op].lease
        /\ ~Latest(w) => work[w].lease <= MaxSkew

-----------------------------------------------------------------------------

LEMMA LeaseInit == Init => LeaseOK
BY DEF Init, LeaseOK, IdleWork, InFlight

(* A row that is not executing changes, but for its attempt. *)
LEMMA LeaseRow ==
    ASSUME Inv, LeaseOK, NEW o \in Ops, NEW r,
           row[o].status # "executing", r.attempt = row[o].attempt,
           row' = [row EXCEPT ![o] = r], work' = work
    PROVE  LeaseOK'
<1>1. row'[o] = r /\ \A p \in Ops : p # o => row'[p] = row[p]
  BY DEF Inv, TypeOK
<1> SUFFICES ASSUME NEW w \in Workers, InFlight(w)
             PROVE  /\ Latest(w)' => /\ row'[work[w].op].status = "executing"
                                     /\ work[w].lease = row'[work[w].op].lease
                    /\ ~Latest(w)' => work[w].lease <= MaxSkew
  BY DEF LeaseOK, InFlight
<1>2. work[w].op \in Ops
  BY DEF Inv, WorkOK
<1>3. CASE work[w].op # o
  BY <1>1, <1>2, <1>3 DEF LeaseOK, Latest
<1>4. CASE work[w].op = o
  BY <1>1, <1>4 DEF LeaseOK, Latest
<1> QED BY <1>3, <1>4

(* An execution starts: on a row that nobody executes, or whose lease is    *)
(* over by the clock of the handler, which is at most MaxSkew ahead.        *)
LEMMA LeaseStart ==
    ASSUME Inv, LeaseOK, NEW o \in Ops, NEW w \in Workers, NEW r,
           row[o].status = "executing" => row[o].lease <= MaxSkew,
           row' = [row EXCEPT ![o] = r],
           r.status = "executing", r.attempt = row[o].attempt + 1,
           r.lease = LeaseTicks,
           work' = [work EXCEPT ![w] = Started(o, row[o].attempt + 1)]
    PROVE  LeaseOK'
<1>1. /\ row'[o] = r /\ \A p \in Ops : p # o => row'[p] = row[p]
      /\ work'[w] = Started(o, row[o].attempt + 1)
      /\ \A v \in Workers : v # w => work'[v] = work[v]
  BY DEF Inv, TypeOK
<1>2. ASSUME NEW v \in Workers, v # w, InFlight(v)'
      PROVE  /\ Latest(v)' => /\ row'[work'[v].op].status = "executing"
                              /\ work'[v].lease = row'[work'[v].op].lease
             /\ ~Latest(v)' => work'[v].lease <= MaxSkew
  <2>1. InFlight(v) /\ work'[v] = work[v] /\ work[v].op \in Ops
    BY <1>1, <1>2 DEF Inv, WorkOK, InFlight
  <2>2. CASE work[v].op # o
    BY <1>1, <2>1, <2>2 DEF LeaseOK, Latest
  <2>3. CASE work[v].op = o
    <3>1. work[v].attempt \in Nat /\ row[o].attempt \in Nat
          /\ work[v].attempt <= row[o].attempt
      BY <2>1, <2>3 DEF Inv, TypeOK, Work, Row, AttemptOwnership
    <3>2. ~Latest(v)'
      BY <1>1, <2>1, <2>3, <3>1 DEF Latest
    <3>3. work[v].lease <= MaxSkew
      BY <2>1, <2>3 DEF LeaseOK, Latest
    <3> QED BY <2>1, <3>2, <3>3
  <2> QED BY <2>2, <2>3
<1>3. /\ Latest(w)' /\ row'[work'[w].op].status = "executing"
      /\ work'[w].lease = row'[work'[w].op].lease
  BY <1>1 DEF Latest, Started
<1> QED BY <1>2, <1>3 DEF LeaseOK

(* An execution moves on or ends, and the row is left alone. *)
LEMMA LeaseWorker ==
    ASSUME Inv, LeaseOK, NEW w \in Workers, NEW u, InFlight(w),
           work' = [work EXCEPT ![w] = u], row' = row,
           u.pc # "idle" => /\ u.op = work[w].op /\ u.attempt = work[w].attempt
                            /\ u.lease = work[w].lease
    PROVE  LeaseOK'
<1>1. work'[w] = u /\ \A v \in Workers : v # w => work'[v] = work[v]
  BY DEF Inv, TypeOK
<1> QED BY <1>1 DEF LeaseOK, Latest, InFlight

(* TX2 takes the row out of executing; whoever else is in flight on it      *)
(* holds an older attempt.                                                  *)
LEMMA LeaseSettle ==
    ASSUME Inv, LeaseOK, NEW w \in Workers, Settle(w), StillOurs(w)
    PROVE  LeaseOK'
<1> DEFINE o == work[w].op
<1>1. /\ o \in Ops /\ row[o] \in Row /\ InFlight(w) /\ Latest(w)
  BY DEF Inv, TypeOK, WorkOK, Settle, InFlight, StillOurs, Latest
<1>2. /\ row'[o].attempt = row[o].attempt
      /\ \A p \in Ops : p # o => row'[p] = row[p]
  BY <1>1 DEF Settle, Inv, TypeOK, Row
<1>3. ~InFlight(w)' /\ \A v \in Workers : v # w => work'[v] = work[v]
  BY DEF Settle, Inv, TypeOK, InFlight, IdleWork
<1> SUFFICES ASSUME NEW v \in Workers, InFlight(v)'
             PROVE  /\ Latest(v)' => /\ row'[work'[v].op].status = "executing"
                                     /\ work'[v].lease = row'[work'[v].op].lease
                    /\ ~Latest(v)' => work'[v].lease <= MaxSkew
  BY DEF LeaseOK
<1>4. v # w /\ work'[v] = work[v] /\ InFlight(v) /\ work[v].op \in Ops
  BY <1>3 DEF InFlight, Inv, WorkOK
<1>5. CASE work[v].op # o
  BY <1>2, <1>4, <1>5 DEF LeaseOK, Latest
<1>6. CASE work[v].op = o
  <2>1. ~Latest(v)
    BY <1>1, <1>4, <1>6 DEF Latest, Inv, AttemptOwnership
  <2> QED BY <1>2, <1>4, <1>6, <2>1 DEF LeaseOK, Latest
<1> QED BY <1>5, <1>6

(* Time runs for the row and for the execution alike. *)
LEMMA LeaseTick ==
    ASSUME Inv, LeaseOK, Tick
    PROVE  LeaseOK'
<1> SUFFICES ASSUME NEW w \in Workers, InFlight(w)'
             PROVE  /\ Latest(w)' => /\ row'[work'[w].op].status = "executing"
                                     /\ work'[w].lease = row'[work'[w].op].lease
                    /\ ~Latest(w)' => work'[w].lease <= MaxSkew
  BY DEF LeaseOK
<1> DEFINE o == work[w].op
<1>1. work[w] \in Work
  BY DEF Inv, TypeOK
<1>2. /\ work'[w] = [work[w] EXCEPT !.lease = Sooner(@)]
  BY DEF Tick
<1>3. /\ work'[w].pc = work[w].pc /\ work'[w].op = o
      /\ work'[w].attempt = work[w].attempt
      /\ work'[w].lease = Sooner(work[w].lease)
  BY <1>1, <1>2 DEF Work
<1>4. InFlight(w) /\ o \in Ops /\ row[o] \in Row
  BY <1>3 DEF InFlight, Inv, WorkOK, TypeOK
<1>5. row'[o] = [row[o] EXCEPT !.lease = Sooner(@), !.ttl = Sooner(@)]
  BY <1>4 DEF Tick
<1>6. /\ row'[o].status = row[o].status /\ row'[o].attempt = row[o].attempt
      /\ row'[o].lease = Sooner(row[o].lease)
  BY <1>4, <1>5 DEF Row
<1>7. Latest(w)' <=> Latest(w)
  BY <1>3, <1>6 DEF Latest
<1>8. work[w].lease \in Int /\ MaxSkew \in Int
  BY <1>1, BoundsAssumption DEF Work, Left
<1>9. work[w].lease <= MaxSkew => Sooner(work[w].lease) <= MaxSkew
  BY <1>8 DEF Sooner
<1> QED BY <1>3, <1>4, <1>6, <1>7, <1>9 DEF LeaseOK

-----------------------------------------------------------------------------
(* Every step preserves LeaseOK: one case per action. *)
LEMMA LeaseStep == Inv /\ LeaseOK /\ [Next]_vars => LeaseOK'
<1> SUFFICES ASSUME Inv, LeaseOK, [Next]_vars PROVE LeaseOK'
  OBVIOUS
<1>0. \A o \in Ops : row[o] \in Row
  BY DEF Inv, TypeOK
<1>1. ASSUME NEW o \in Ops, NEW h \in Hashes, Propose(o, h) PROVE LeaseOK'
  <2> DEFINE r == [AbsentRow EXCEPT !.status = "proposed", !.hash = h,
                                    !.ttl = TtlTicks]
  <2>1. r.attempt = 0 /\ row[o].status = "absent" /\ row[o].attempt = 0
    BY <1>1 DEF Propose, AbsentRow, Inv, TokensOK
  <2>2. row' = [row EXCEPT ![o] = r] /\ work' = work
    BY <1>1 DEF Propose
  <2> HIDE DEF r
  <2> QED BY <2>1, <2>2, LeaseRow
<1>2. ASSUME NEW o \in Ops, NEW s \in Skews, Confirm(o, s) PROVE LeaseOK'
  <2>1. IssueToken(row[o]).attempt = row[o].attempt
    BY <1>0, RowUpdates
  <2> QED BY <1>2, <2>1, LeaseRow DEF Confirm
<1>3. ASSUME NEW o \in Ops, NEW s \in Skews, ConfirmExpired(o, s) PROVE LeaseOK'
  BY <1>3 DEF ConfirmExpired, LeaseOK, Latest, InFlight
<1>4. ASSUME NEW o \in Ops, Retry(o) PROVE LeaseOK'
  <2>1. Retried(row[o]).attempt = row[o].attempt
    BY <1>0, RowUpdates
  <2> QED BY <1>4, <2>1, LeaseRow DEF Retry
<1>5. ASSUME NEW o \in Ops, Cancel(o) \/ Expire(o) PROVE LeaseOK'
  <2>1. PICK t \in {"cancelled", "expired"} : row' = [row EXCEPT ![o].status = t]
    BY <1>5 DEF Cancel, Expire
  <2> DEFINE r == [row[o] EXCEPT !.status = t]
  <2>2. r.attempt = row[o].attempt /\ row[o].status # "executing"
    BY <1>0, <1>5 DEF Row, Cancel, Expire, Undecided
  <2>3. row' = [row EXCEPT ![o] = r] /\ work' = work
    BY <1>5, <2>1 DEF Cancel, Expire
  <2> HIDE DEF r
  <2> QED BY <2>2, <2>3, LeaseRow
<1>6. ASSUME NEW w \in Workers, NEW o \in Ops, Claim(w, o) PROVE LeaseOK'
  <2> DEFINE r == [row[o] EXCEPT !.consumed = TRUE, !.status = "executing",
                                 !.lease = LeaseTicks, !.attempt = @ + 1]
  <2>1. /\ r.status = "executing" /\ r.attempt = row[o].attempt + 1
        /\ r.lease = LeaseTicks
    BY <1>0 DEF Row
  <2>2. row' = [row EXCEPT ![o] = r] /\ row[o].status # "executing"
    BY <1>6 DEF Claim
  <2> HIDE DEF r
  <2> QED BY <1>6, <2>1, <2>2, LeaseStart DEF Claim
<1>7. ASSUME NEW w \in Workers, NEW o \in Ops, NEW s \in Skews, Reconcile(w, o, s)
      PROVE  LeaseOK'
  <2> DEFINE r == Renewed(row[o])
  <2>1. /\ r.status = "executing" /\ r.attempt = row[o].attempt + 1
        /\ r.lease = LeaseTicks
    <3>1. r.status = "executing" /\ r.attempt = row[o].attempt + 1
      BY <1>0, <1>7, RowUpdates DEF Reconcile
    <3>2. r.lease = LeaseTicks
      BY <1>0 DEF Renewed, Row
    <3> QED BY <3>1, <3>2
  <2>2. row' = [row EXCEPT ![o] = r]
    BY <1>7 DEF Reconcile
  <2>3. row[o].lease <= MaxSkew
    BY <1>0, <1>7, BoundsAssumption DEF Reconcile, LeaseOver, Skews, Row, Left
  <2> HIDE DEF r
  <2>4. row'[o].attempt = row[o].attempt + 1
    BY <2>1, <2>2 DEF Inv, TypeOK
  <2> QED BY <1>7, <2>1, <2>2, <2>3, <2>4, LeaseStart DEF Reconcile
<1>8. ASSUME NEW w \in Workers, RunExecutor(w) PROVE LeaseOK'
  <2>1. InFlight(w) /\ work[w] \in Work /\ row' = row
    BY <1>8 DEF RunExecutor, InFlight, Inv, TypeOK
  <2>2. PICK outcome, n : work' = [work EXCEPT ![w].pc = "settling",
                                               ![w].outcome = outcome,
                                               ![w].receipt = n]
    <3>1. CASE work' = [work EXCEPT ![w].pc = "settling", ![w].outcome = "error"]
      <4>1. work' = [work EXCEPT ![w].pc = "settling", ![w].outcome = "error",
                                 ![w].receipt = work[w].receipt]
        BY <2>1, <3>1 DEF Inv, TypeOK, Work
      <4> QED BY <4>1
    <3> QED BY <1>8, <3>1 DEF RunExecutor
  <2> DEFINE u == [work[w] EXCEPT !.pc = "settling", !.outcome = outcome,
                                  !.receipt = n]
  <2>3. /\ u.op = work[w].op /\ u.attempt = work[w].attempt
        /\ u.lease = work[w].lease
    BY <2>1 DEF Work
  <2>4. work' = [work EXCEPT ![w] = u]
    BY <2>2
  <2> HIDE DEF u
  <2> QED BY <2>1, <2>3, <2>4, LeaseWorker
<1>9. ASSUME NEW w \in Workers, Settle(w) PROVE LeaseOK'
  <2>1. CASE StillOurs(w)
    BY <1>9, <2>1, LeaseSettle
  <2>2. CASE ~StillOurs(w)
    <3>1. /\ row' = row /\ work' = [work EXCEPT ![w] = IdleWork] /\ InFlight(w)
          /\ IdleWork.pc = "idle"
      BY <1>9, <2>2 DEF Settle, InFlight, IdleWork
    <3> QED BY <3>1, LeaseWorker
  <2> QED BY <2>1, <2>2
<1>10. ASSUME NEW w \in Workers, Crash(w) PROVE LeaseOK'
  <2>1. /\ row' = row /\ work' = [work EXCEPT ![w] = IdleWork] /\ InFlight(w)
        /\ IdleWork.pc = "idle"
    BY <1>10 DEF Crash, InFlight, IdleWork
  <2> QED BY <2>1, LeaseWorker
<1>11. CASE Tick
  BY <1>11, LeaseTick
<1>12. CASE UNCHANGED vars
  BY <1>12 DEF vars, LeaseOK, Latest, InFlight
<1> QED
  BY <1>1, <1>2, <1>3, <1>4, <1>5, <1>6, <1>7, <1>8, <1>9, <1>10, <1>11, <1>12 DEF Next

(* The relation of every execution to its row holds throughout. *)
THEOREM LeaseInvariance == Spec => []LeaseOK
BY LeaseInit, LeaseStep, Invariance, PTL DEF Spec

(* While an unsettled execution's lease is valid, no later execution of the *)
(* operation is in flight.                                                  *)
THEOREM LeaseExcludes == Spec => []NoOverlapDuringLease
<1>1. Inv /\ LeaseOK => NoOverlapDuringLease
  <2> SUFFICES ASSUME Inv, LeaseOK, NEW v \in Workers, NEW w \in Workers,
                      InFlight(v), InFlight(w), work[v].op = work[w].op,
                      work[v].attempt < work[w].attempt
               PROVE  work[v].lease <= MaxSkew
    BY DEF NoOverlapDuringLease
  <2>1. /\ work[v].attempt \in Nat /\ work[w].attempt \in Nat
        /\ row[work[w].op].attempt \in Nat
        /\ work[w].attempt <= row[work[w].op].attempt
    BY DEF Inv, TypeOK, WorkOK, Work, Row, AttemptOwnership
  <2>2. ~Latest(v)
    BY <2>1 DEF Latest
  <2> QED BY <2>2 DEF LeaseOK
<1> QED BY <1>1, LeaseInvariance, Invariance, PTL

-----------------------------------------------------------------------------
(***************************************************************************)
(* PendingV2 implements ApprovalContract.  The refinement mapping reads    *)
(* the status and the hash off the row, takes an operation to have started *)
(* when its row has counted an attempt, to be posted with the hash of the  *)
(* transaction under its key, and to be reported when its row has a        *)
(* mutation id.  Every action then maps to one action of the contract or   *)
(* to a stuttering step.  That it does so rests on Inv and on ReceiptsOK:  *)
(* attempts, and so the ids of transactions, are positive, a row that was  *)
(* not proposed has no receipt and one that is executing has counted an    *)
(* attempt.                                                                *)
(***************************************************************************)
ReceiptsOK ==
    /\ \A w \in Workers : InFlight(w) => work[w].attempt > 0
    /\ \A e \in ledger : e.by > 0
    /\ \A o \in Ops : /\ row[o].status = "absent" => row[o].mutation = 0
                      /\ row[o].status = "executing" => row[o].attempt > 0

(* The mapping, by name *)
Status == [o \in Ops |-> row[o].status]
Proposal == [o \in Ops |-> row[o].hash]
StartedOps == {o \in Ops : row[o].attempt > 0}
Posted == [o \in Ops |-> IF Recorded(o) = {} THEN None
                         ELSE (CHOOSE e \in Recorded(o) : TRUE).hash]
Reported == {o \in Ops : row[o].mutation > 0}

-----------------------------------------------------------------------------
(* ReceiptsOK holds ... *)

(* ... of the empty table, *)
LEMMA ReceiptsInit == Init => ReceiptsOK
BY DEF Init, ReceiptsOK, AbsentRow, IdleWork, InFlight

(* A row changes, its receipt does not. *)
LEMMA ReceiptsRow ==
    ASSUME Inv, ReceiptsOK, NEW o \in Ops, NEW r \in Row,
           row' = [row EXCEPT ![o] = r], UNCHANGED <<ledger, work>>,
           r.status \notin {"absent", "executing"}
    PROVE  ReceiptsOK'
BY DEF Inv, TypeOK, ReceiptsOK, InFlight

(* An execution starts under the next attempt. *)
LEMMA ReceiptsStart ==
    ASSUME Inv, ReceiptsOK, NEW o \in Ops, NEW w \in Workers, NEW r \in Row,
           row' = [row EXCEPT ![o] = r], ledger' = ledger,
           r.status # "absent", r.attempt = row[o].attempt + 1,
           work' = [work EXCEPT ![w] = Started(o, row[o].attempt + 1)]
    PROVE  ReceiptsOK'
<1>1. row[o].attempt \in Nat
  BY DEF Inv, TypeOK, Row
<1>2. Started(o, row[o].attempt + 1).attempt > 0 /\ r.attempt > 0
  BY <1>1 DEF Started
<1> QED BY <1>2 DEF Inv, TypeOK, ReceiptsOK, InFlight

(* What TX2 writes to a row that is still its own *)
LEMMA SettledRow ==
    ASSUME Inv, NEW w \in Workers, Settle(w), StillOurs(w)
    PROVE  /\ work[w].op \in Ops /\ row[work[w].op].status = "executing"
           /\ \E r \in Row :
                 /\ row' = [row EXCEPT ![work[w].op] = r]
                 /\ r.hash = row[work[w].op].hash
                 /\ r.attempt = row[work[w].op].attempt
                 /\ \/ /\ work[w].outcome = "succeeded"
                       /\ r.status = "succeeded" /\ r.mutation = work[w].receipt
                    \/ r.status = "failed" /\ r.mutation = row[work[w].op].mutation
<1> DEFINE o == work[w].op
           ok == work[w].outcome = "succeeded"
           r == [row[o] EXCEPT !.status = IF ok THEN "succeeded" ELSE "failed",
                               !.mutation = IF ok THEN work[w].receipt ELSE @]
<1>1. o \in Ops /\ row[o] \in Row /\ work[w] \in Work /\ row[o].status = "executing"
  BY DEF Inv, TypeOK, WorkOK, Settle, InFlight, StillOurs
<1>2. /\ r \in Row /\ r.hash = row[o].hash /\ r.attempt = row[o].attempt
      /\ \/ ok /\ r.status = "succeeded" /\ r.mutation = work[w].receipt
         \/ r.status = "failed" /\ r.mutation = row[o].mutation
  BY <1>1 DEF Row, Work, Statuses
<1>3. row' = [row EXCEPT ![o] = r]
  BY <1>1 DEF Settle, Inv, TypeOK
<1> QED BY <1>1, <1>2, <1>3

(* ... and no step breaks it. *)
LEMMA ReceiptsStep == Inv /\ ReceiptsOK /\ [Next]_vars => ReceiptsOK'
<1> SUFFICES ASSUME Inv, ReceiptsOK, [Next]_vars PROVE ReceiptsOK'
  OBVIOUS
<1>1. ASSUME NEW o \in Ops, NEW h \in Hashes, Propose(o, h) PROVE ReceiptsOK'
  <2> DEFINE r == [AbsentRow EXCEPT !.status = "proposed", !.hash = h,
                                    !.ttl = TtlTicks]
  <2>1. r \in Row /\ r.status = "proposed"
    BY ConstantsTyped DEF AbsentRow, Row, Statuses
  <2>2. row' = [row EXCEPT ![o] = r] /\ UNCHANGED <<ledger, work>>
    BY <1>1 DEF Propose
  <2> HIDE DEF r
  <2> QED BY <2>1, <2>2, ReceiptsRow
<1>2. ASSUME NEW o \in Ops, NEW s \in Skews, Confirm(o, s) PROVE ReceiptsOK'
  <2>1. row[o] \in Row
    BY DEF Inv, TypeOK
  <2> QED BY <1>2, <2>1, RowUpdates, ReceiptsRow DEF Confirm
<1>3. ASSUME NEW o \in Ops, NEW s \in Skews, ConfirmExpired(o, s) PROVE ReceiptsOK'
  BY <1>3 DEF ConfirmExpired, ReceiptsOK, InFlight
<1>4. ASSUME NEW o \in Ops, Retry(o) PROVE ReceiptsOK'
  <2>1. row[o] \in Row
    BY DEF Inv, TypeOK
  <2> QED BY <1>4, <2>1, RowUpdates, ReceiptsRow DEF Retry
<1>5. ASSUME NEW o \in Ops, Cancel(o) \/ Expire(o) PROVE ReceiptsOK'
  BY <1>5 DEF Cancel, Expire, Undecided, Inv, TypeOK, Row, ReceiptsOK, InFlight
<1>6. ASSUME NEW w \in Workers, NEW o \in Ops, Claim(w, o) PROVE ReceiptsOK'
  <2> DEFINE r == [row[o] EXCEPT !.consumed = TRUE, !.status = "executing",
                                 !.lease = LeaseTicks, !.attempt = @ + 1]
  <2>1. row[o] \in Row
    BY DEF Inv, TypeOK
  <2>2. row[o].attempt + 1 \in Nat
    BY <2>1, RowUpdates
  <2>3. r \in Row /\ r.status = "executing" /\ r.attempt = row[o].attempt + 1
    BY <2>1, <2>2, ConstantsTyped DEF Row, Statuses
  <2>4. row' = [row EXCEPT ![o] = r]
    BY <1>6 DEF Claim
  <2> HIDE DEF r
  <2> QED BY <1>6, <2>3, <2>4, ReceiptsStart DEF Claim
<1>7. ASSUME NEW w \in Workers, NEW o \in Ops, NEW s \in Skews, Reconcile(w, o, s)
      PROVE  ReceiptsOK'
  <2>1. row[o] \in Row /\ row[o].status = "executing"
    BY <1>7 DEF Reconcile, Inv, TypeOK
  <2>2. /\ Renewed(row[o]) \in Row /\ Renewed(row[o]).status = "executing"
        /\ Renewed(row[o]).attempt = row[o].attempt + 1
    BY <2>1, RowUpdates
  <2>3. row' = [row EXCEPT ![o] = Renewed(row[o])]
    BY <1>7 DEF Reconcile
  <2>4. row'[o].attempt = row[o].attempt + 1
    BY <2>2, <2>3 DEF Inv, TypeOK
  <2> QED BY <1>7, <2>2, <2>3, <2>4, ReceiptsStart DEF Reconcile
<1>8. ASSUME NEW w \in Workers, RunExecutor(w) PROVE ReceiptsOK'
  <2>1. InFlight(w) /\ ledger' \in {ledger, Written(w)} /\ row' = row
    BY <1>8 DEF RunExecutor, InFlight
  <2>2. \A e \in ledger' : e.by > 0
    BY <2>1 DEF ReceiptsOK, Written
  <2>3. \A v \in Workers : work'[v].attempt = work[v].attempt
    BY <1>8 DEF RunExecutor, Inv, TypeOK, Work
  <2>4. \A v \in Workers : InFlight(v)' => InFlight(v)
    BY <1>8 DEF RunExecutor, Inv, TypeOK, InFlight
  <2> QED BY <2>1, <2>2, <2>3, <2>4 DEF ReceiptsOK
<1>9. ASSUME NEW w \in Workers, Settle(w) PROVE ReceiptsOK'
  <2>1. /\ work' = [work EXCEPT ![w] = IdleWork] /\ InFlight(w)
        /\ ledger' = ledger /\ IdleWork.pc = "idle"
    BY <1>9 DEF Settle, InFlight, IdleWork
  <2>2. \A o \in Ops : /\ row'[o].status = "absent" => row'[o].mutation = 0
                       /\ row'[o].status = "executing" => row'[o].attempt > 0
    <3>1. CASE StillOurs(w)
      BY <1>9, <3>1, SettledRow DEF Inv, TypeOK, ReceiptsOK
    <3>2. CASE ~StillOurs(w)
      BY <1>9, <3>2 DEF Settle, ReceiptsOK
    <3> QED BY <3>1, <3>2
  <2>3. \A v \in Workers : InFlight(v)' => work'[v].attempt > 0
    BY <2>1 DEF Inv, TypeOK, ReceiptsOK, InFlight
  <2>4. \A e \in ledger' : e.by > 0
    BY <2>1 DEF ReceiptsOK
  <2> QED BY <2>2, <2>3, <2>4 DEF ReceiptsOK
<1>10. ASSUME NEW w \in Workers, Crash(w) PROVE ReceiptsOK'
  BY <1>10 DEF Crash, IdleWork, Inv, TypeOK, ReceiptsOK, InFlight
<1>11. CASE Tick
  <2>1. /\ \A o \in Ops : /\ row'[o].status = row[o].status
                          /\ row'[o].mutation = row[o].mutation
                          /\ row'[o].attempt = row[o].attempt
        /\ \A w \in Workers : /\ work'[w].pc = work[w].pc
                              /\ work'[w].attempt = work[w].attempt
        /\ ledger' = ledger
    BY ZenonT(60), <1>11 DEF Tick, Inv, TypeOK, Row, Work
  <2> QED BY <2>1 DEF ReceiptsOK, InFlight
<1>12. CASE UNCHANGED vars
  BY <1>12 DEF vars, ReceiptsOK, InFlight
<1> QED
  BY <1>1, <1>2, <1>3, <1>4, <1>5, <1>6, <1>7, <1>8, <1>9, <1>10, <1>11, <1>12 DEF Next

-----------------------------------------------------------------------------
(* The simulation *)

(* The empty table is the contract's initial state. *)
LEMMA ContractInit == Init => Contract!Init
BY DEF Init, Contract!Init, AbsentRow, Recorded

(* One row changes: so does one operation of the contract. *)
LEMMA RowMaps ==
    ASSUME TypeOK, NEW o \in Ops, NEW r \in Row,
           row' = [row EXCEPT ![o] = r], ledger' = ledger
    PROVE  /\ Status' = [Status EXCEPT ![o] = r.status]
           /\ Proposal' = [Proposal EXCEPT ![o] = r.hash]
           /\ r.attempt = row[o].attempt => StartedOps' = StartedOps
           /\ r.attempt > 0 => StartedOps' = StartedOps \cup {o}
           /\ Posted' = Posted
           /\ r.mutation = row[o].mutation => Reported' = Reported
           /\ r.mutation > 0 => Reported' = Reported \cup {o}
<1>1. row' \in [Ops -> Row] /\ \A p \in Ops : row'[p] = IF p = o THEN r ELSE row[p]
  BY DEF TypeOK
<1>2. Status' = [Status EXCEPT ![o] = r.status]
  BY <1>1 DEF Status
<1>3. Proposal' = [Proposal EXCEPT ![o] = r.hash]
  BY <1>1 DEF Proposal
<1>4. /\ r.attempt = row[o].attempt => StartedOps' = StartedOps
      /\ r.attempt > 0 => StartedOps' = StartedOps \cup {o}
  BY <1>1 DEF StartedOps
<1>5. Posted' = Posted
  BY DEF Posted, Recorded
<1>6. /\ r.mutation = row[o].mutation => Reported' = Reported
      /\ r.mutation > 0 => Reported' = Reported \cup {o}
  BY <1>1 DEF Reported
<1> QED BY <1>2, <1>3, <1>4, <1>5, <1>6

(* No row changes what the contract sees of it: a stuttering step. *)
LEMMA Stutter ==
    ASSUME \A o \in Ops : /\ row'[o].status = row[o].status
                          /\ row'[o].hash = row[o].hash
                          /\ row'[o].attempt = row[o].attempt
                          /\ row'[o].mutation = row[o].mutation,
           ledger' = ledger
    PROVE  UNCHANGED Contract!vars
<1>1. Status' = Status /\ Proposal' = Proposal
  BY DEF Status, Proposal
<1>2. StartedOps' = StartedOps /\ Reported' = Reported
  BY DEF StartedOps, Reported
<1>3. Posted' = Posted
  BY DEF Posted, Recorded
<1> QED BY <1>1, <1>2, <1>3
        DEF Contract!vars, Status, Proposal, StartedOps, Posted, Reported

(* A row that moves along the status machine and keeps its hash, attempt    *)
(* and receipt is a step of the contract: confirm, retry, cancel, expire,   *)
(* and a TX2 that records a failure.                                        *)
LEMMA MoveMaps ==
    ASSUME TypeOK, NEW o \in Ops, NEW r \in Row,
           row' = [row EXCEPT ![o] = r], ledger' = ledger,
           r.hash = row[o].hash, r.attempt = row[o].attempt,
           r.mutation = row[o].mutation,
           \/ /\ row[o].status \in {"proposed", "confirmed", "failed"}
              /\ r.status = "confirmed"
           \/ /\ row[o].status \in {"proposed", "confirmed"}
              /\ r.status \in {"cancelled", "expired"}
           \/ row[o].status = "executing" /\ r.status = "failed"
    PROVE  Contract!Next
<1>1. /\ Status' = [Status EXCEPT ![o] = r.status]
      /\ Proposal' = [Proposal EXCEPT ![o] = row[o].hash]
      /\ StartedOps' = StartedOps /\ Posted' = Posted /\ Reported' = Reported
  BY RowMaps
<1>2. Proposal' = Proposal /\ Status[o] = row[o].status
  BY <1>1 DEF Proposal, Status
<1>3. UNCHANGED <<Proposal, StartedOps, Posted, Reported>>
  BY <1>1, <1>2
<1>4. CASE r.status = "confirmed"
  <2>1. Contract!Authorise(o)
    BY <1>1, <1>2, <1>3, <1>4
       DEF Contract!Authorise, Contract!Move, Status, Proposal, StartedOps, Posted, Reported
  <2> QED BY <2>1 DEF Contract!Next
<1>5. CASE r.status \in {"cancelled", "expired"}
  <2>1. Contract!Withdraw(o)
    BY <1>1, <1>2, <1>3, <1>5
       DEF Contract!Withdraw, Contract!Move, Status, Proposal, StartedOps, Posted, Reported
  <2> QED BY <2>1 DEF Contract!Next
<1>6. CASE r.status = "failed"
  <2>1. Contract!Fail(o)
    BY <1>1, <1>2, <1>3, <1>6
       DEF Contract!Fail, Contract!Move, Status, Proposal, StartedOps, Posted, Reported
  <2> QED BY <2>1 DEF Contract!Next
<1> QED BY <1>4, <1>5, <1>6

(* propose is the contract's Propose. *)
LEMMA ProposeMaps ==
    ASSUME Inv, ReceiptsOK, NEW o \in Ops, NEW h \in Hashes, Propose(o, h)
    PROVE  Contract!Next
<1> DEFINE r == [AbsentRow EXCEPT !.status = "proposed", !.hash = h,
                                  !.ttl = TtlTicks]
<1>1. /\ r \in Row /\ r.status = "proposed" /\ r.hash = h
      /\ r.attempt = 0 /\ r.mutation = 0
  BY ConstantsTyped DEF AbsentRow, Row, Statuses
<1>2. /\ row[o].status = "absent" /\ row[o].attempt = 0 /\ row[o].mutation = 0
      /\ row' = [row EXCEPT ![o] = r] /\ ledger' = ledger
  BY DEF Propose, Inv, TokensOK, ReceiptsOK
<1> HIDE DEF r
<1>3. /\ Status' = [Status EXCEPT ![o] = "proposed"]
      /\ Proposal' = [Proposal EXCEPT ![o] = h]
      /\ StartedOps' = StartedOps /\ Posted' = Posted /\ Reported' = Reported
      /\ Status[o] = "absent"
  BY <1>1, <1>2, RowMaps DEF Inv, Status
<1>4. Contract!Propose(o, h)
  BY <1>3 DEF Contract!Propose, Contract!Move, Status, Proposal, StartedOps,
              Posted, Reported
<1> QED BY <1>4 DEF Contract!Next

(* TX1 is the contract's Start. *)
LEMMA ClaimMaps ==
    ASSUME Inv, NEW w \in Workers, NEW o \in Ops, Claim(w, o)
    PROVE  Contract!Next
<1> DEFINE r == [row[o] EXCEPT !.consumed = TRUE, !.status = "executing",
                               !.lease = LeaseTicks, !.attempt = @ + 1]
<1>1. row[o] \in Row /\ row[o].status = "confirmed"
  BY DEF Claim, Inv, TypeOK
<1>2. row[o].attempt \in Nat
  BY <1>1 DEF Row
<1>3. /\ r \in Row /\ r.status = "executing" /\ r.hash = row[o].hash
      /\ r.attempt > 0 /\ r.mutation = row[o].mutation
  <2>1. row[o].attempt + 1 \in Nat /\ row[o].attempt + 1 > 0
    BY <1>2
  <2>2. r \in Row /\ r.attempt = row[o].attempt + 1
    BY <1>1, <2>1, ConstantsTyped DEF Row, Statuses
  <2> QED BY <1>1, <2>1, <2>2 DEF Row
<1>4. row' = [row EXCEPT ![o] = r] /\ ledger' = ledger
  BY DEF Claim
<1> HIDE DEF r
<1>5. /\ Status' = [Status EXCEPT ![o] = r.status]
      /\ Proposal' = [Proposal EXCEPT ![o] = r.hash]
      /\ r.attempt > 0 => StartedOps' = StartedOps \cup {o}
      /\ Posted' = Posted
      /\ r.mutation = row[o].mutation => Reported' = Reported
  BY <1>3, <1>4, RowMaps DEF Inv
<1>6. Proposal' = Proposal /\ Status[o] = "confirmed"
  BY <1>1, <1>3, <1>5 DEF Proposal, Status
<1>7. Contract!Start(o)
  BY <1>3, <1>5, <1>6 DEF Contract!Start, Contract!Move, Status, Proposal, StartedOps,
                    Posted, Reported
<1> QED BY <1>7 DEF Contract!Next

(* A recovery changes nothing the contract can see. *)
LEMMA ReconcileMaps ==
    ASSUME Inv, ReceiptsOK, NEW w \in Workers, NEW o \in Ops, NEW s \in Skews,
           Reconcile(w, o, s)
    PROVE  UNCHANGED Contract!vars
<1> DEFINE r == Renewed(row[o])
<1>1. row[o] \in Row /\ row[o].status = "executing" /\ row[o].attempt > 0
  BY DEF Reconcile, Inv, TypeOK, ReceiptsOK
<1>2. /\ r \in Row /\ r.status = row[o].status /\ r.hash = row[o].hash
      /\ r.attempt = row[o].attempt + 1 /\ r.mutation = row[o].mutation
      /\ row[o].attempt \in Nat
  BY <1>1, RowUpdates
<1>3. row' = [row EXCEPT ![o] = r] /\ ledger' = ledger
  BY DEF Reconcile
<1> HIDE DEF r
<1>4. /\ Status' = [Status EXCEPT ![o] = r.status]
      /\ Proposal' = [Proposal EXCEPT ![o] = r.hash]
      /\ r.attempt > 0 => StartedOps' = StartedOps \cup {o}
      /\ Posted' = Posted
      /\ r.mutation = row[o].mutation => Reported' = Reported
  BY <1>2, <1>3, RowMaps DEF Inv
<1>5. Status' = Status /\ Proposal' = Proposal
  BY <1>2, <1>4 DEF Status, Proposal
<1>6. StartedOps' = StartedOps /\ Reported' = Reported
  BY <1>1, <1>2, <1>4 DEF StartedOps
<1> QED BY <1>4, <1>5, <1>6
        DEF Contract!vars, Status, Proposal, StartedOps, Posted, Reported

(* The executor posts once, or changes nothing the contract can see. *)
LEMMA ExecutorMaps ==
    ASSUME Inv, ReceiptsOK, NEW w \in Workers, RunExecutor(w),
           NEW o \in Ops, work[w].op = o
    PROVE  Contract!Next \/ UNCHANGED Contract!vars
<1> DEFINE new == [op |-> o, hash |-> row[o].hash, by |-> work[w].attempt]
<1>1. /\ InFlight(w) /\ row' = row /\ ledger' \in {ledger, Written(w)}
      /\ work[w].attempt \in Nat
  BY DEF RunExecutor, InFlight, Inv, WorkOK, TypeOK, Work
<1>2. CASE ledger' = ledger
  BY <1>1, <1>2, Stutter
<1>3. CASE ledger' # ledger
  <2>1. Recorded(o) = {} /\ ledger' = ledger \cup {new}
    BY <1>1, <1>3 DEF Written
  <2>2. o \in StartedOps
    <3>1. work[w].attempt > 0 /\ work[w].attempt <= row[o].attempt /\ row[o].attempt \in Nat
      BY <1>1 DEF ReceiptsOK, Inv, AttemptOwnership, TypeOK, Row
    <3> QED BY <1>1, <3>1 DEF StartedOps
  <2>3. new.op = o /\ new.hash = row[o].hash
    OBVIOUS
  <2> HIDE DEF new
  <2>4. Recorded(o)' = {new}
    BY <2>1, <2>3 DEF Recorded
  <2>5. \A p \in Ops : p # o => Recorded(p)' = Recorded(p)
    BY <2>1, <2>3 DEF Recorded
  <2>6. /\ Posted'[o] = row[o].hash
        /\ \A p \in Ops : p # o => Posted'[p] = Posted[p]
    <3>1. (CHOOSE e \in Recorded(o)' : TRUE) \in Recorded(o)'
      BY <2>4
    <3>2. (CHOOSE e \in Recorded(o)' : TRUE) = new /\ Recorded(o)' # {}
      BY <2>4, <3>1
    <3>3. Posted'[o] = row[o].hash
      BY <2>3, <3>2 DEF Posted
    <3>4. ASSUME NEW p \in Ops, p # o PROVE Posted'[p] = Posted[p]
      <4>1. Recorded(p)' = Recorded(p)
        BY <2>5, <3>4
      <4>2. (CHOOSE e \in Recorded(p) : TRUE)' = CHOOSE e \in Recorded(p) : TRUE
        BY <4>1
      <4> QED BY <4>1, <4>2 DEF Posted
    <3> QED BY <3>3, <3>4
  <2>7. Posted' = [Posted EXCEPT ![o] = Proposal[o]] /\ Posted[o] = None
    BY <1>1, <2>1, <2>6 DEF Posted, Proposal
  <2>8. UNCHANGED <<Status, Proposal, StartedOps, Reported>>
    BY <1>1 DEF Status, Proposal, StartedOps, Reported
  <2>9. Contract!Post(o)
    BY <2>2, <2>7, <2>8
       DEF Contract!Post, Status, Proposal, StartedOps, Posted, Reported
  <2> QED BY <1>1, <2>9 DEF Contract!Next
<1> QED BY <1>2, <1>3

(* TX2 reports a transaction that is posted, records a failure, or leaves   *)
(* the row to whoever it belongs to.                                        *)
LEMMA SettleMaps ==
    ASSUME Inv, ReceiptsOK, NEW w \in Workers, Settle(w),
           NEW o \in Ops, work[w].op = o
    PROVE  Contract!Next \/ UNCHANGED Contract!vars
<1>1. CASE ~StillOurs(w)
  BY <1>1, Stutter DEF Settle
<1>2. CASE StillOurs(w)
  <2>1. PICK r \in Row :
           /\ row' = [row EXCEPT ![o] = r]
           /\ r.hash = row[o].hash
           /\ r.attempt = row[o].attempt
           /\ \/ /\ work[w].outcome = "succeeded"
                 /\ r.status = "succeeded" /\ r.mutation = work[w].receipt
              \/ r.status = "failed" /\ r.mutation = row[o].mutation
    BY <1>2, SettledRow
  <2>2. row[o].status = "executing" /\ ledger' = ledger
    BY <1>2, SettledRow DEF Settle
  <2>3. CASE r.status = "failed" /\ r.mutation = row[o].mutation
    BY <2>1, <2>2, <2>3, MoveMaps DEF Inv
  <2>4. CASE /\ work[w].outcome = "succeeded"
             /\ r.status = "succeeded" /\ r.mutation = work[w].receipt
    <3>1. PICK e \in ledger : e.op = o /\ e.by = work[w].receipt
      BY <2>4 DEF Inv, WorkOK, InFlight, Settle
    <3>2. r.mutation > 0
      BY <2>4, <3>1 DEF ReceiptsOK
    <3>3. Posted[o] # None
      <4>1. Recorded(o) # {} /\ \A f \in Recorded(o) : f.hash = row[o].hash
        BY <3>1 DEF Recorded, Inv, EffectAtMostOnce
      <4>2. (CHOOSE f \in Recorded(o) : TRUE) \in Recorded(o)
        BY <4>1
      <4>3. row[o].hash \in Hashes
        BY <2>2 DEF Inv, LedgerOK
      <4> QED BY <4>1, <4>2, <4>3, NoneAssumption DEF Posted
    <3>4. /\ Status' = [Status EXCEPT ![o] = r.status]
          /\ Proposal' = [Proposal EXCEPT ![o] = r.hash]
          /\ r.attempt = row[o].attempt => StartedOps' = StartedOps
          /\ Posted' = Posted
          /\ r.mutation > 0 => Reported' = Reported \cup {o}
      BY <2>1, <2>2, RowMaps DEF Inv
    <3>5. Proposal' = Proposal /\ Status[o] = "executing"
      BY <2>1, <2>2, <3>4 DEF Proposal, Status
    <3>6. Contract!Succeed(o)
      BY <2>1, <2>4, <3>2, <3>3, <3>4, <3>5
         DEF Contract!Succeed, Contract!Move, Status, Proposal, StartedOps,
             Posted, Reported
    <3> QED BY <3>6 DEF Contract!Next
  <2> QED BY <2>1, <2>3, <2>4
<1> QED BY <1>1, <1>2

(* Every step of the store is a step of its contract or a stutter.          *)
LEMMA ContractStep ==
    Inv /\ ReceiptsOK /\ [Next]_vars => [Contract!Next]_(Contract!vars)
<1> SUFFICES ASSUME Inv, ReceiptsOK, [Next]_vars
             PROVE  Contract!Next \/ UNCHANGED Contract!vars
  OBVIOUS
<1> USE DEF Inv
<1>1. ASSUME NEW o \in Ops, NEW h \in Hashes, Propose(o, h) PROVE Contract!Next
  BY <1>1, ProposeMaps
<1>2. ASSUME NEW o \in Ops, NEW s \in Skews, Confirm(o, s) PROVE Contract!Next
  <2>1. row[o] \in Row /\ row[o].status \in {"proposed", "confirmed"}
    BY <1>2 DEF Confirm, TypeOK
  <2>2. row' = [row EXCEPT ![o] = IssueToken(row[o])] /\ ledger' = ledger
    BY <1>2 DEF Confirm
  <2> QED BY <2>1, <2>2, RowUpdates, MoveMaps
<1>3. ASSUME NEW o \in Ops, NEW s \in Skews, ConfirmExpired(o, s)
      PROVE  UNCHANGED Contract!vars
  BY <1>3, Stutter DEF ConfirmExpired
<1>4. ASSUME NEW o \in Ops, Retry(o) PROVE Contract!Next
  <2>1. row[o] \in Row /\ row[o].status = "failed"
    BY <1>4 DEF Retry, TypeOK
  <2>2. row' = [row EXCEPT ![o] = Retried(row[o])] /\ ledger' = ledger
    BY <1>4 DEF Retry
  <2> QED BY <2>1, <2>2, RowUpdates, MoveMaps
<1>5. ASSUME NEW o \in Ops, Cancel(o) \/ Expire(o) PROVE Contract!Next
  <2>1. PICK t \in {"cancelled", "expired"} : row' = [row EXCEPT ![o].status = t]
    BY <1>5 DEF Cancel, Expire
  <2> DEFINE r == [row[o] EXCEPT !.status = t]
  <2>2. /\ row[o] \in Row /\ row[o].status \in {"proposed", "confirmed"}
        /\ ledger' = ledger
    BY <1>5 DEF Cancel, Expire, Undecided, TypeOK
  <2>3. /\ r \in Row /\ r.status = t /\ r.hash = row[o].hash
        /\ r.attempt = row[o].attempt /\ r.mutation = row[o].mutation
    BY <2>2 DEF Row, Statuses
  <2>4. row' = [row EXCEPT ![o] = r]
    BY <2>1
  <2> HIDE DEF r
  <2> QED BY <2>2, <2>3, <2>4, MoveMaps
<1>6. ASSUME NEW w \in Workers, NEW o \in Ops, Claim(w, o) PROVE Contract!Next
  BY <1>6, ClaimMaps
<1>7. ASSUME NEW w \in Workers, NEW o \in Ops, NEW s \in Skews, Reconcile(w, o, s)
      PROVE  UNCHANGED Contract!vars
  BY <1>7, ReconcileMaps
<1>8. ASSUME NEW w \in Workers, RunExecutor(w)
      PROVE  Contract!Next \/ UNCHANGED Contract!vars
  <2>1. work[w].op \in Ops
    BY <1>8 DEF RunExecutor, InFlight, WorkOK
  <2> QED BY <1>8, <2>1, ExecutorMaps
<1>9. ASSUME NEW w \in Workers, Settle(w)
      PROVE  Contract!Next \/ UNCHANGED Contract!vars
  <2>1. work[w].op \in Ops
    BY <1>9 DEF Settle, InFlight, WorkOK
  <2> QED BY <1>9, <2>1, SettleMaps
<1>10. ASSUME NEW w \in Workers, Crash(w) PROVE UNCHANGED Contract!vars
  BY <1>10, Stutter DEF Crash
<1>11. CASE Tick
  <2>1. /\ \A o \in Ops : /\ row'[o].status = row[o].status
                          /\ row'[o].hash = row[o].hash
                          /\ row'[o].attempt = row[o].attempt
                          /\ row'[o].mutation = row[o].mutation
        /\ ledger' = ledger
    BY ZenonT(60), <1>11 DEF Tick, TypeOK, Row
  <2> QED BY <2>1, Stutter
<1>12. CASE UNCHANGED vars
  BY <1>12, Stutter DEF vars
<1> QED
  BY <1>1, <1>2, <1>3, <1>4, <1>5, <1>6, <1>7, <1>8, <1>9, <1>10, <1>11, <1>12 DEF Next

(* The store implements its contract: whatever executions, recoveries,      *)
(* retries and crashes overlap, and however clocks disagree, its callers    *)
(* see an operation that moves along the status machine, posts once after   *)
(* it was claimed and is reported succeeded only once it was posted.        *)
THEOREM ContractImplemented == Spec => ImplementsContract
<1>1. Spec => []ReceiptsOK
  BY Invariance, ReceiptsInit, ReceiptsStep, PTL DEF Spec
<1> QED
  BY <1>1, Invariance, ContractInit, ContractStep, PTL
     DEF Spec, ImplementsContract, Contract!Spec

-----------------------------------------------------------------------------
(* The view of a client: the two refinements together *)

(* What a client of the API can tell of an operation *)
StandingOf(s) ==
    CASE s \in {"proposed", "confirmed"} -> "open"
      [] s \in {"executing", "succeeded", "failed"} -> "taken"
      [] s \in {"cancelled", "expired"} -> "closed"
      [] OTHER -> "absent"

Standing == [o \in Ops |-> StandingOf(row[o].status)]

Decisions == INSTANCE DecisionContract WITH
    Nothing  <- None,
    standing <- Standing,
    content  <- Proposal

Middle == INSTANCE ApprovalContract_Proofs WITH
    Nothing  <- None,
    status   <- Status,
    proposal <- Proposal,
    started  <- StartedOps,
    posted   <- Posted,
    reported <- Reported

(* The mapping of ImplementsContract, by name *)
LEMMA ContractByName == ImplementsContract => Middle!Spec
<1>1. Contract!Init => Middle!Init
  BY DEF Contract!Init, Middle!Init, Status, Proposal, StartedOps, Posted, Reported
<1>2. [Contract!Next]_(Contract!vars) => [Middle!Next]_(Middle!vars)
  BY DEF Contract!Next, Contract!vars, Contract!Propose, Contract!Authorise,
         Contract!Withdraw, Contract!Start, Contract!Post, Contract!Succeed,
         Contract!Fail, Contract!Move,
         Middle!Next, Middle!vars, Middle!Propose, Middle!Authorise,
         Middle!Withdraw, Middle!Start, Middle!Post, Middle!Succeed,
         Middle!Fail, Middle!Move,
         Status, Proposal, StartedOps, Posted, Reported
<1> QED BY <1>1, <1>2, PTL DEF ImplementsContract, Contract!Spec, Middle!Spec

(* ApprovalContract gives a client the same view. *)
LEMMA ViewThroughContract == Middle!Spec => Decisions!Spec
<1>1. \A s : Middle!StandingOf(s) = StandingOf(s)
  BY DEF Middle!StandingOf, StandingOf, Middle!Open, Middle!Taken, Middle!Closed
<1>2. Middle!Standing = Standing
  <2>1. Middle!Standing = [o \in Ops |-> Middle!StandingOf(Status[o])]
    BY DEF Middle!Standing
  <2>2. \A o \in Ops : Status[o] = row[o].status
    BY DEF Status
  <2> QED BY <1>1, <2>1, <2>2 DEF Standing
<1>3. Middle!Standing' = Standing'
  <2>1. Middle!Standing' = [o \in Ops |-> Middle!StandingOf(Status'[o])]
    BY DEF Middle!Standing
  <2>2. \A o \in Ops : Status'[o] = row'[o].status
    BY DEF Status
  <2> QED BY <1>1, <2>1, <2>2 DEF Standing
<1>4. Middle!Decisions!Init => Decisions!Init
  BY <1>2 DEF Middle!Decisions!Init, Decisions!Init
<1>5. [Middle!Decisions!Next]_(Middle!Decisions!vars) => [Decisions!Next]_(Decisions!vars)
  BY <1>2, <1>3
     DEF Middle!Decisions!Next, Middle!Decisions!vars, Middle!Decisions!Propose,
         Middle!Decisions!Goes, Middle!Decisions!Close, Middle!Decisions!Take, Middle!Decisions!Reopen,
         Decisions!Next, Decisions!vars, Decisions!Propose, Decisions!Goes, Decisions!Close,
         Decisions!Take, Decisions!Reopen
<1>6. Middle!Spec => Middle!Decisions!Spec
  BY Middle!DecisionsImplemented
<1> QED BY <1>4, <1>5, <1>6, PTL DEF Middle!Decisions!Spec, Decisions!Spec

(* What the agent assumes of the API (DecisionContract), the store does: an *)
(* operation is proposed once, what it would execute never changes, and it  *)
(* is taken up or closed only while it awaits a decision.                   *)
THEOREM DecisionsOfStore == Spec => Decisions!Spec
BY ContractImplemented, ContractByName, ViewThroughContract

-----------------------------------------------------------------------------
(* The write of the executor *)

(* What the store makes of the executor's write: the effect of an attempt   *)
(* under the key of its operation; it is told of one when the row names it. *)
EffectOf(e) == [key |-> e.op, hash |-> e.hash, id |-> e.by]
Effects == {EffectOf(e) : e \in ledger}
Receipts == {EffectOf(e) : e \in {f \in ledger : row[f.op].mutation = f.by}}

Keyed == INSTANCE KeyedWrite WITH
    Keys   <- Ops,
    Ids    <- Nat,
    posted <- Effects,
    told   <- Receipts

LEMMA KeyedStutter ==
    ASSUME TypeOK, ledger' = ledger,
           \A o \in Ops : row'[o].mutation = row[o].mutation
    PROVE  UNCHANGED Keyed!vars
<1>1. \A e \in ledger : row'[e.op].mutation = row[e.op].mutation
  BY DEF TypeOK, Entry
<1>2. Receipts' = Receipts
  BY <1>1 DEF Receipts
<1>3. Effects' = Effects
  BY DEF Effects
<1> QED BY <1>2, <1>3 DEF Keyed!vars

LEMMA KeyedRow ==
    ASSUME TypeOK, NEW o \in Ops, NEW r \in Row, row' = [row EXCEPT ![o] = r],
           r.mutation = row[o].mutation, ledger' = ledger
    PROVE  UNCHANGED Keyed!vars
<1>1. \A p \in Ops : row'[p].mutation = row[p].mutation
  BY DEF TypeOK
<1> QED BY <1>1, KeyedStutter

(* The executor posts under a key that nothing was posted under, or writes  *)
(* nothing.                                                                 *)
LEMMA KeyedExecutor ==
    ASSUME Inv, NEW w \in Workers, RunExecutor(w)
    PROVE  Keyed!Next \/ UNCHANGED Keyed!vars
<1> DEFINE o == work[w].op
           new == [op |-> o, hash |-> row[o].hash, by |-> work[w].attempt]
<1>1. /\ o \in Ops /\ row[o].hash \in Hashes /\ work[w].attempt \in Nat
      /\ row' = row /\ ledger' \in {ledger, Written(w)}
  BY DEF RunExecutor, InFlight, Inv, WorkOK, LedgerOK, TypeOK, Work
<1>2. CASE ledger' = ledger
  BY <1>1, <1>2, KeyedStutter DEF Inv
<1>3. CASE ledger' # ledger
  <2>1. Recorded(o) = {} /\ ledger' = ledger \cup {new}
    BY <1>1, <1>3 DEF Written
  <2>2. EffectOf(new) = [key |-> o, hash |-> row[o].hash, id |-> work[w].attempt]
    BY DEF EffectOf
  <2>3. new.op = o
    OBVIOUS
  <2> HIDE DEF new
  <2>4. Effects' = Effects \cup {EffectOf(new)}
    BY <2>1 DEF Effects
  <2>5. Receipts' \in {Receipts, Receipts \cup {EffectOf(new)}}
    <3>1. CASE row[o].mutation = new.by
      BY <1>1, <2>1, <2>3, <3>1 DEF Receipts
    <3>2. CASE row[o].mutation # new.by
      BY <1>1, <2>1, <2>3, <3>2 DEF Receipts
    <3> QED BY <3>1, <3>2
  <2>6. \A p \in Effects : p.key # EffectOf(new).key
    <3>1. \A e \in ledger : EffectOf(e).key = e.op
      BY DEF EffectOf
    <3>2. \A e \in ledger : e.op # o
      BY <2>1 DEF Recorded
    <3> QED BY <2>2, <3>1, <3>2 DEF Effects
  <2>7. Keyed!Post(EffectOf(new))
    BY <2>4, <2>5, <2>6 DEF Keyed!Post
  <2> HIDE DEF o
  <2>8. \E k \in Ops, h \in Hashes, id \in Nat :
            Keyed!Post([key |-> k, hash |-> h, id |-> id])
    BY <1>1, <2>2, <2>7
  <2> QED BY <2>8 DEF Keyed!Next
<1> QED BY <1>2, <1>3

(* TX2 stores the receipt of the effect under the key, or none. *)
LEMMA KeyedSettle ==
    ASSUME Inv, NEW w \in Workers, Settle(w)
    PROVE  Keyed!Next \/ UNCHANGED Keyed!vars
<1> DEFINE o == work[w].op
<1>1. CASE ~StillOurs(w)
  BY <1>1, KeyedStutter DEF Settle, Inv
<1>2. CASE StillOurs(w)
  <2>1. o \in Ops /\ ledger' = ledger
    BY <1>2, SettledRow DEF Settle
  <2>2. PICK r \in Row :
           /\ row' = [row EXCEPT ![o] = r]
           /\ \/ work[w].outcome = "succeeded" /\ r.mutation = work[w].receipt
              \/ r.mutation = row[o].mutation
    BY <1>2, SettledRow
  <2>3. CASE r.mutation = row[o].mutation
    BY <2>1, <2>2, <2>3, KeyedRow DEF Inv
  <2>4. CASE work[w].outcome = "succeeded" /\ r.mutation = work[w].receipt
    <3>1. PICK e \in ledger : e.op = o /\ e.by = work[w].receipt
      BY <2>4 DEF Inv, WorkOK, InFlight, Settle
    <3>2. \A f \in ledger : f.op = o => f = e
      BY <3>1 DEF Inv, EffectAtMostOnce
    <3>3. \A p \in Ops : row'[p] = IF p = o THEN r ELSE row[p]
      BY <2>1, <2>2 DEF Inv, TypeOK
    <3>4. \A f \in ledger :
              row'[f.op].mutation = f.by <=> f = e \/ row[f.op].mutation = f.by
      BY <2>4, <3>1, <3>2, <3>3 DEF Inv, TypeOK, Entry
    <3>5. {f \in ledger : row'[f.op].mutation = f.by}
              = {f \in ledger : row[f.op].mutation = f.by} \cup {e}
      BY <3>1, <3>4
    <3>6. Receipts' = Receipts \cup {EffectOf(e)}
      BY <2>1, <3>5 DEF Receipts
    <3>7. Effects' = Effects /\ EffectOf(e) \in Effects
      BY <2>1, <3>1 DEF Effects
    <3>8. Keyed!Tell(EffectOf(e))
      BY <3>6, <3>7 DEF Keyed!Tell
    <3> QED BY <3>7, <3>8 DEF Keyed!Next
  <2> QED BY <2>2, <2>3, <2>4
<1> QED BY <1>1, <1>2

LEMMA KeyedStep ==
    Inv /\ ReceiptsOK /\ [Next]_vars => [Keyed!Next]_(Keyed!vars)
<1> SUFFICES ASSUME Inv, ReceiptsOK, [Next]_vars
             PROVE  Keyed!Next \/ UNCHANGED Keyed!vars
  OBVIOUS
<1> USE DEF Inv
<1>1. ASSUME NEW o \in Ops, NEW h \in Hashes, Propose(o, h)
      PROVE  UNCHANGED Keyed!vars
  <2>1. PICK r \in Row : r.mutation = 0 /\ row' = [row EXCEPT ![o] = r]
    <3>1. [AbsentRow EXCEPT !.status = "proposed", !.hash = h, !.ttl = TtlTicks] \in Row
      BY ConstantsTyped DEF AbsentRow, Row, Statuses
    <3> QED BY <1>1, <3>1 DEF Propose, AbsentRow
  <2>2. row[o].mutation = 0 /\ ledger' = ledger
    BY <1>1 DEF Propose, ReceiptsOK
  <2> QED BY <2>1, <2>2, KeyedRow
<1>2. ASSUME NEW o \in Ops, NEW s \in Skews, Confirm(o, s)
      PROVE  UNCHANGED Keyed!vars
  <2>1. row[o] \in Row /\ ledger' = ledger
    BY <1>2 DEF Confirm, TypeOK
  <2> QED BY <1>2, <2>1, RowUpdates, KeyedRow DEF Confirm
<1>3. ASSUME NEW o \in Ops, NEW s \in Skews, ConfirmExpired(o, s)
      PROVE  UNCHANGED Keyed!vars
  BY <1>3, KeyedStutter DEF ConfirmExpired
<1>4. ASSUME NEW o \in Ops, Retry(o) PROVE UNCHANGED Keyed!vars
  <2>1. row[o] \in Row /\ ledger' = ledger
    BY <1>4 DEF Retry, TypeOK
  <2> QED BY <1>4, <2>1, RowUpdates, KeyedRow DEF Retry
<1>5. ASSUME NEW o \in Ops, Cancel(o) \/ Expire(o) PROVE UNCHANGED Keyed!vars
  <2>1. \A p \in Ops : row'[p].mutation = row[p].mutation
    BY <1>5 DEF Cancel, Expire, TypeOK, Row
  <2> QED BY <1>5, <2>1, KeyedStutter DEF Cancel, Expire
<1>6. ASSUME NEW w \in Workers, NEW o \in Ops, Claim(w, o)
      PROVE  UNCHANGED Keyed!vars
  <2>1. \A p \in Ops : row'[p].mutation = row[p].mutation
    BY <1>6 DEF Claim, TypeOK, Row
  <2> QED BY <1>6, <2>1, KeyedStutter DEF Claim
<1>7. ASSUME NEW w \in Workers, NEW o \in Ops, NEW s \in Skews, Reconcile(w, o, s)
      PROVE  UNCHANGED Keyed!vars
  <2>1. row[o] \in Row /\ ledger' = ledger
    BY <1>7 DEF Reconcile, TypeOK
  <2> QED BY <1>7, <2>1, RowUpdates, KeyedRow DEF Reconcile
<1>8. ASSUME NEW w \in Workers, RunExecutor(w) PROVE Keyed!Next \/ UNCHANGED Keyed!vars
  BY <1>8, KeyedExecutor
<1>9. ASSUME NEW w \in Workers, Settle(w) PROVE Keyed!Next \/ UNCHANGED Keyed!vars
  BY <1>9, KeyedSettle
<1>10. ASSUME NEW w \in Workers, Crash(w) PROVE UNCHANGED Keyed!vars
  BY <1>10, KeyedStutter DEF Crash
<1>11. CASE Tick
  <2>1. \A p \in Ops : row'[p].mutation = row[p].mutation
    BY <1>11 DEF Tick, TypeOK, Row
  <2> QED BY <1>11, <2>1, KeyedStutter DEF Tick
<1>12. CASE UNCHANGED vars
  BY <1>12, KeyedStutter DEF vars
<1> QED
  BY <1>1, <1>2, <1>3, <1>4, <1>5, <1>6, <1>7, <1>8, <1>9, <1>10, <1>11, <1>12 DEF Next

(* The store asks of the executor's write no more than an idempotency key   *)
(* gives (KeyedWrite, which KeyedMutation implements): one effect under the *)
(* key of an operation, posted at once and never replaced, and a receipt    *)
(* only of that effect, whatever executions overlap, recover and crash.     *)
THEOREM WritesAreKeyed == Spec => Keyed!Spec
<1>1. Init => Keyed!Init
  BY DEF Init, Keyed!Init, Effects, Receipts
<1>2. Spec => []ReceiptsOK
  BY Invariance, ReceiptsInit, ReceiptsStep, PTL DEF Spec
<1> QED BY <1>1, <1>2, Invariance, KeyedStep, PTL DEF Spec, Keyed!Spec

-----------------------------------------------------------------------------
(***************************************************************************)
(* Consent.  A claim consumes an attestation, which a confirmation issued, *)
(* and only a claim makes the first attempt; the executor runs for nothing *)
(* but an attempt.                                                         *)
(***************************************************************************)
Consented(o) == \E n \in Nat \ {0} : <<o, n>> \in spent

ConsentOK ==
    /\ \A o \in Ops : row[o].attempt > 0 => Consented(o)
    /\ \A e \in ledger : row[e.op].attempt > 0

(* No money moves of which nobody said yes: every transaction is of an      *)
(* operation whose attestation was consumed, and an operation that was      *)
(* cancelled or expired before anybody claimed it has none.                 *)
EffectsWereConfirmed ==
    /\ \A e \in ledger : Consented(e.op)
    /\ \A o \in Ops : row[o].status \in {"cancelled", "expired"} /\ ~Consented(o)
                          => Recorded(o) = {}

(* A row changes, its attempts do not. *)
LEMMA ConsentRow ==
    ASSUME Inv, ConsentOK, NEW o \in Ops, NEW r \in Row,
           row' = [row EXCEPT ![o] = r], UNCHANGED <<ledger, spent>>,
           r.attempt = row[o].attempt
    PROVE  ConsentOK'
<1>1. \A p \in Ops : row'[p].attempt = row[p].attempt
  BY DEF Inv, TypeOK
<1>2. \A e \in ledger : e.op \in Ops
  BY DEF Inv, TypeOK, Entry
<1> QED BY <1>1, <1>2 DEF ConsentOK, Consented

LEMMA ConsentStep == Inv /\ ReceiptsOK /\ ConsentOK /\ [Next]_vars => ConsentOK'
<1> SUFFICES ASSUME Inv, ReceiptsOK, ConsentOK, [Next]_vars PROVE ConsentOK'
  OBVIOUS
<1>1. ASSUME NEW o \in Ops, NEW h \in Hashes, Propose(o, h) PROVE ConsentOK'
  <2> DEFINE r == [AbsentRow EXCEPT !.status = "proposed", !.hash = h,
                                    !.ttl = TtlTicks]
  <2>1. r \in Row /\ r.attempt = row[o].attempt
    BY <1>1, ConstantsTyped DEF Propose, AbsentRow, Row, Statuses, Inv, TokensOK
  <2>2. row' = [row EXCEPT ![o] = r] /\ UNCHANGED <<ledger, spent>>
    BY <1>1 DEF Propose
  <2> HIDE DEF r
  <2> QED BY <2>1, <2>2, ConsentRow
<1>2. ASSUME NEW o \in Ops, NEW s \in Skews, Confirm(o, s) PROVE ConsentOK'
  <2>1. row[o] \in Row
    BY DEF Inv, TypeOK
  <2> QED BY <1>2, <2>1, RowUpdates, ConsentRow DEF Confirm
<1>3. ASSUME NEW o \in Ops, NEW s \in Skews, ConfirmExpired(o, s) PROVE ConsentOK'
  BY <1>3 DEF ConfirmExpired, ConsentOK, Consented
<1>4. ASSUME NEW o \in Ops, Retry(o) PROVE ConsentOK'
  <2>1. row[o] \in Row
    BY DEF Inv, TypeOK
  <2> QED BY <1>4, <2>1, RowUpdates, ConsentRow DEF Retry
<1>5. ASSUME NEW o \in Ops, Cancel(o) \/ Expire(o) PROVE ConsentOK'
  <2>1. PICK s \in {"cancelled", "expired"} :
            row' = [row EXCEPT ![o].status = s] /\ UNCHANGED <<ledger, spent>>
    BY <1>5 DEF Cancel, Expire
  <2> DEFINE r == [row[o] EXCEPT !.status = s]
  <2>2. r \in Row /\ r.attempt = row[o].attempt /\ row' = [row EXCEPT ![o] = r]
    BY <2>1 DEF Inv, TypeOK, Row, Statuses
  <2> HIDE DEF r
  <2> QED BY <2>1, <2>2, ConsentRow
<1>6. ASSUME NEW w \in Workers, NEW o \in Ops, Claim(w, o) PROVE ConsentOK'
  <2>1. /\ row[o].token \in Nat \ {0} /\ row[o].attempt \in Nat
        /\ \A e \in ledger : e.op \in Ops
    BY <1>6 DEF Claim, Inv, TypeOK, Row, Entry, TokensOK, ConfirmedIsClaimable
  <2>2. /\ \A p \in Ops \ {o} : row'[p].attempt = row[p].attempt
        /\ row'[o].attempt = row[o].attempt + 1
    BY <1>6 DEF Claim, Inv, TypeOK, Row
  <2>3. spent \subseteq spent' /\ <<o, row[o].token>> \in spent' /\ ledger' = ledger
    BY <1>6 DEF Claim
  <2>4. Consented(o)'
    BY <2>1, <2>3 DEF Consented
  <2>5. \A p \in Ops : Consented(p) => Consented(p)'
    BY <2>3 DEF Consented
  <2> QED BY <2>1, <2>2, <2>3, <2>4, <2>5 DEF ConsentOK
<1>7. ASSUME NEW w \in Workers, NEW o \in Ops, NEW s \in Skews, Reconcile(w, o, s)
      PROVE  ConsentOK'
  <2>1. row[o] \in Row /\ row[o].attempt > 0 /\ UNCHANGED <<ledger, spent>>
    BY <1>7 DEF Reconcile, Inv, TypeOK, ReceiptsOK
  <2>2. /\ \A p \in Ops \ {o} : row'[p].attempt = row[p].attempt
        /\ row'[o].attempt = row[o].attempt + 1 /\ row[o].attempt \in Nat
    BY <1>7, <2>1, RowUpdates DEF Reconcile, Inv, TypeOK
  <2>3. \A e \in ledger : e.op \in Ops
    BY DEF Inv, TypeOK, Entry
  <2> QED BY <2>1, <2>2, <2>3 DEF ConsentOK, Consented
<1>8. ASSUME NEW w \in Workers, RunExecutor(w) PROVE ConsentOK'
  <2>1. InFlight(w) /\ ledger' \in {ledger, Written(w)} /\ UNCHANGED <<row, spent>>
    BY <1>8 DEF RunExecutor, InFlight
  <2>2. \A e \in ledger' : e \in ledger \/ e.op = work[w].op
    BY <2>1, WrittenKeyed DEF Inv
  <2>3. row[work[w].op].attempt > 0
    BY <2>1 DEF Inv, TypeOK, WorkOK, Work, Row, AttemptOwnership, ReceiptsOK
  <2> QED BY <2>1, <2>2, <2>3 DEF ConsentOK, Consented
<1>9. ASSUME NEW w \in Workers, Settle(w) PROVE ConsentOK'
  <2>1. UNCHANGED <<ledger, spent>>
    BY <1>9 DEF Settle
  <2>2. CASE StillOurs(w)
    BY <1>9, <2>1, <2>2, SettledRow, ConsentRow
  <2>3. CASE ~StillOurs(w)
    BY <1>9, <2>1, <2>3 DEF Settle, ConsentOK, Consented
  <2> QED BY <2>2, <2>3
<1>10. ASSUME NEW w \in Workers, Crash(w) PROVE ConsentOK'
  BY <1>10 DEF Crash, ConsentOK, Consented
<1>11. CASE Tick
  <2>1. /\ \A o \in Ops : row'[o].attempt = row[o].attempt
        /\ UNCHANGED <<ledger, spent>>
    BY <1>11 DEF Tick, Inv, TypeOK, Row
  <2>2. \A e \in ledger : e.op \in Ops
    BY DEF Inv, TypeOK, Entry
  <2> QED BY <2>1, <2>2 DEF ConsentOK, Consented
<1>12. CASE UNCHANGED vars
  BY <1>12 DEF vars, ConsentOK, Consented
<1> QED
  BY <1>1, <1>2, <1>3, <1>4, <1>5, <1>6, <1>7, <1>8, <1>9, <1>10, <1>11, <1>12 DEF Next

(* EffectsWereConfirmed, whatever is retried, recovered, cancelled late or   *)
(* cut off.                                                                 *)
THEOREM NothingUnconfirmed == Spec => []EffectsWereConfirmed
<1>1. Init => ConsentOK
  BY DEF Init, ConsentOK, AbsentRow
<1>2. Spec => []ReceiptsOK
  BY Invariance, ReceiptsInit, ReceiptsStep, PTL DEF Spec
<1>3. Inv /\ ConsentOK => EffectsWereConfirmed
  <2> SUFFICES ASSUME Inv, ConsentOK PROVE EffectsWereConfirmed
    OBVIOUS
  <2>1. \A e \in ledger : e.op \in Ops /\ Consented(e.op)
    BY DEF Inv, TypeOK, Entry, ConsentOK
  <2> QED BY <2>1 DEF EffectsWereConfirmed, Recorded
<1> QED BY <1>1, <1>2, <1>3, Invariance, ConsentStep, PTL DEF Spec

-----------------------------------------------------------------------------
(***************************************************************************)
(* Expiry.  What confirm audits as expired is not stored as such (see      *)
(* AuditedExpiryIsStored, which does not hold); but it was due.            *)
(***************************************************************************)
Due(o) == row[o].ttl < MaxSkew + SecondTicks

DueOK == \A o \in audit : row[o].status # "absent" /\ Due(o)

(* What an API clock calls past its expiry is so but for the skew of that   *)
(* clock and the second whose fraction the parse drops.                     *)
LEMMA PastIsDue ==
    ASSUME Inv, NEW o \in Ops, NEW s \in Skews, PastExpiry(o, s)
    PROVE  Due(o)
<1>1. row[o].ttl \in Int /\ phase \in Int /\ SecondTicks \in Nat \ {0}
      /\ s \in Int /\ s <= MaxSkew /\ MaxSkew \in Nat
  BY BoundsAssumption DEF Inv, TypeOK, Row, Left, Skews
<1>2. (phase + row[o].ttl) % SecondTicks \in 0 .. SecondTicks - 1
  BY <1>1
<1> QED BY <1>1, <1>2 DEF PastExpiry, Due

(* A row is not taken back, and no handler extends its lifetime. *)
LEMMA DueRow ==
    ASSUME Inv, DueOK, NEW o \in Ops, NEW r \in Row,
           row' = [row EXCEPT ![o] = r], audit' = audit,
           r.status # "absent", row[o].status # "absent" => r.ttl = row[o].ttl
    PROVE  DueOK'
<1>1. /\ \A p \in Ops \ {o} : row'[p] = row[p]
      /\ row'[o] = r
  BY DEF Inv, TypeOK
<1>2. audit \subseteq Ops
  BY DEF Inv, TypeOK
<1> QED BY <1>1, <1>2 DEF DueOK, Due

LEMMA DueStep == Inv /\ DueOK /\ [Next]_vars => DueOK'
<1> SUFFICES ASSUME Inv, DueOK, [Next]_vars PROVE DueOK'
  OBVIOUS
<1> DEFINE Kept(o) ==
        \E r \in Row : /\ row' = [row EXCEPT ![o] = r] /\ r.status # "absent"
                       /\ row[o].status # "absent" => r.ttl = row[o].ttl
<1>0. ASSUME NEW o \in Ops, audit' = audit, Kept(o) PROVE DueOK'
  BY <1>0, DueRow
<1>1. ASSUME NEW o \in Ops, NEW h \in Hashes, Propose(o, h) PROVE DueOK'
  <2> DEFINE r == [AbsentRow EXCEPT !.status = "proposed", !.hash = h,
                                    !.ttl = TtlTicks]
  <2>1. r \in Row /\ r.status # "absent"
    BY ConstantsTyped DEF AbsentRow, Row, Statuses
  <2>2. row' = [row EXCEPT ![o] = r] /\ row[o].status = "absent" /\ audit' = audit
    BY <1>1 DEF Propose
  <2> HIDE DEF r
  <2> QED BY <1>0, <2>1, <2>2
<1>2. ASSUME NEW o \in Ops, NEW r \in Row, r.status # "absent",
             r.ttl = row[o].ttl, row' = [row EXCEPT ![o] = r], audit' = audit
      PROVE  DueOK'
  BY <1>0, <1>2
<1>3. ASSUME NEW o \in Ops, Retry(o) \/ \E s \in Skews : Confirm(o, s)
      PROVE  DueOK'
  <2>1. row[o] \in Row
    BY DEF Inv, TypeOK
  <2>2. /\ IssueToken(row[o]).ttl = row[o].ttl /\ Retried(row[o]).ttl = row[o].ttl
    BY <2>1 DEF IssueToken, Retried, Row
  <2> QED BY <1>2, <1>3, <2>1, <2>2, RowUpdates DEF Confirm, Retry
<1>4. ASSUME NEW o \in Ops, NEW s \in Skews, ConfirmExpired(o, s) PROVE DueOK'
  <2>1. Due(o) /\ row[o].status # "absent"
    BY <1>4, PastIsDue DEF ConfirmExpired
  <2> QED BY <1>4, <2>1 DEF ConfirmExpired, DueOK, Due
<1>5. ASSUME NEW o \in Ops, Cancel(o) \/ Expire(o) PROVE DueOK'
  <2>1. PICK s \in {"cancelled", "expired"} :
            row' = [row EXCEPT ![o].status = s] /\ audit' = audit
    BY <1>5 DEF Cancel, Expire
  <2> DEFINE r == [row[o] EXCEPT !.status = s]
  <2>2. r \in Row /\ r.status # "absent" /\ r.ttl = row[o].ttl
        /\ row' = [row EXCEPT ![o] = r]
    BY <2>1 DEF Inv, TypeOK, Row, Statuses
  <2> HIDE DEF r
  <2> QED BY <1>2, <2>1, <2>2
<1>6. ASSUME NEW w \in Workers, NEW o \in Ops, Claim(w, o) PROVE DueOK'
  <2> DEFINE r == [row[o] EXCEPT !.consumed = TRUE, !.status = "executing",
                                 !.lease = LeaseTicks, !.attempt = @ + 1]
  <2>1. row[o] \in Row
    BY DEF Inv, TypeOK
  <2>2. row[o].attempt + 1 \in Nat
    BY <2>1, RowUpdates
  <2>3. r \in Row /\ r.status # "absent" /\ r.ttl = row[o].ttl
    BY <2>1, <2>2, ConstantsTyped DEF Row, Statuses
  <2>4. row' = [row EXCEPT ![o] = r] /\ audit' = audit
    BY <1>6 DEF Claim
  <2> HIDE DEF r
  <2> QED BY <1>2, <2>3, <2>4
<1>7. ASSUME NEW w \in Workers, NEW o \in Ops, NEW s \in Skews, Reconcile(w, o, s)
      PROVE  DueOK'
  <2>1. row[o] \in Row /\ row[o].status = "executing"
    BY <1>7 DEF Reconcile, Inv, TypeOK
  <2>2. /\ Renewed(row[o]) \in Row /\ Renewed(row[o]).status # "absent"
        /\ Renewed(row[o]).ttl = row[o].ttl
    BY <2>1, RowUpdates DEF Renewed, Row
  <2> QED BY <1>2, <1>7, <2>2 DEF Reconcile
<1>8. ASSUME NEW w \in Workers, RunExecutor(w) \/ Crash(w) PROVE DueOK'
  BY <1>8 DEF RunExecutor, Crash, DueOK, Due
<1>9. ASSUME NEW w \in Workers, Settle(w) PROVE DueOK'
  <2>1. audit' = audit
    BY <1>9 DEF Settle
  <2>2. CASE StillOurs(w)
    <3> DEFINE o == work[w].op
               ok == work[w].outcome = "succeeded"
               r == [row[o] EXCEPT !.status = IF ok THEN "succeeded" ELSE "failed",
                                   !.mutation = IF ok THEN work[w].receipt ELSE @]
    <3>1. o \in Ops /\ row[o] \in Row /\ work[w] \in Work
      BY <1>9 DEF Inv, TypeOK, WorkOK, Settle, InFlight
    <3>2. r \in Row /\ r.status # "absent" /\ r.ttl = row[o].ttl
      BY <3>1 DEF Row, Work, Statuses
    <3>3. row' = [row EXCEPT ![o] = r]
      BY <1>9, <2>2, <3>1 DEF Settle, Inv, TypeOK
    <3> HIDE DEF r
    <3> QED BY <1>2, <2>1, <3>1, <3>2, <3>3
  <2>3. CASE ~StillOurs(w)
    BY <1>9, <2>1, <2>3 DEF Settle, DueOK, Due
  <2> QED BY <2>2, <2>3
<1>10. CASE Tick
  <2>1. \A o \in Ops : /\ row'[o].status = row[o].status
                       /\ row'[o].ttl = Sooner(row[o].ttl)
    BY <1>10 DEF Tick, Inv, TypeOK, Row
  <2>2. \A o \in Ops : row[o].ttl \in Int
    BY BoundsAssumption DEF Inv, TypeOK, Row, Left
  <2>3. \A o \in Ops : Due(o) => Due(o)'
    BY <2>1, <2>2, BoundsAssumption DEF Due, Sooner
  <2> QED BY <1>10, <2>1, <2>3 DEF Tick, DueOK, Inv, TypeOK
<1>11. CASE UNCHANGED vars
  BY <1>11 DEF vars, DueOK, Due
<1> QED
  BY <1>1, <1>3, <1>4, <1>5, <1>6, <1>7, <1>8, <1>9, <1>10, <1>11 DEF Next

(* An audited expiry is never early: whatever fraction the parse drops and  *)
(* whatever clock judged it, the operation was within the skew of the       *)
(* clocks and a second of its expiry, or past it, and stays so.             *)
THEOREM AuditedExpiryWasDue == Spec => [](\A o \in audit : Due(o))
<1>1. Init => DueOK
  BY DEF Init, DueOK
<1>2. DueOK => \A o \in audit : Due(o)
  BY DEF DueOK
<1> QED BY <1>1, <1>2, Invariance, DueStep, PTL DEF Spec
=============================================================================
