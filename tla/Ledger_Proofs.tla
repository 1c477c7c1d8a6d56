----------------------------- MODULE Ledger_Proofs -----------------------------
(***************************************************************************)
(* For any number of requests, accounts and transactions: every variable   *)
(* of Ledger stays in its type; requests that take their row locks by      *)
(* lockAccountsOrdered never wait for each other in a circle; and balances *)
(* agree with the transactions unless a request wrote over rows that had   *)
(* changed since it read them.                                             *)
(*                                                                         *)
(* The invariant says what a request is about at each moment: the accounts *)
(* it holds or still wants are those that what it read, and what it will   *)
(* write, move money of; what it holds nobody else holds, and has the      *)
(* balance it has seen; and what it holds is below what it wants.          *)
(***************************************************************************)
EXTENDS Ledger, SumTheorems

HasEntry(t) == t.amount # 0 /\ t.from # Keep

OneImage(w, i, t) == w.images = {<<i, t>>}

Plan(w) == w.todo \cup w.held

(* What the requests have in mind *)
PlansCreate(w) ==
    w.images = {} /\ w.new.state = "active" /\ HasEntry(w.new) /\ Plan(w) = Touched(w.new)

PlansDelete(w) ==
    \E i \in Ids, t \in Tx : OneImage(w, i, t) /\ t.state = "active" /\ Plan(w) = Touched(t)

KeepsBalances(t, p) == p.amount = Keep /\ p.from \in {Keep, t.from}

PlansUpdate(w) ==
    \E i \in Ids, t \in Tx :
        /\ OneImage(w, i, t) /\ InCategory(t) /\ HasEntry(t)
        /\ \/ Plan(w) = {t.from, Patched(t, w.patch).from}
           \/ Plan(w) = {} /\ KeepsBalances(t, w.patch)

PlansCascade(w) ==
    /\ \A x, y \in w.images : x[1] = y[1] => x = y
    /\ \A x \in w.images : InCategory(x[2]) /\ HasEntry(x[2])
    /\ Plan(w) = {x[2].from : x \in w.images}

Planned(w) ==
    /\ w.op = "none" => w = Idle
    /\ w.op = "create" => PlansCreate(w)
    /\ w.op = "delete" => PlansDelete(w)
    /\ w.op = "update" => PlansUpdate(w)
    /\ w.op = "cascade" => PlansCascade(w)

(* What is held is below what is wanted, except by a cascade. *)
Ascending(w) == w.op # "cascade" => \A a \in w.held, b \in w.todo : a < b

Plans == \A s \in Sessions : Planned(work[s]) /\ Ascending(work[s])

Exclusive == \A s, r \in Sessions : s # r => work[s].held \cap work[r].held = {}

SeenIsTrue == \A s \in Sessions : \A a \in work[s].held : work[s].seen[a] = account[a].balance

LedgerInv ==
    TypeOK /\ Plans /\ Exclusive /\ SeenIsTrue /\ BalancesMatchUnlessStale

-----------------------------------------------------------------------------
(* Types of the operators *)

USE DEF Keep, Amounts

LEMMA AccountsAreNat == Accounts \subseteq Nat /\ 0 \notin Accounts
BY AccountsAssumption

LEMMA TxFields ==
    ASSUME NEW t \in Tx
    PROVE  /\ t.from \in Accounts \cup {0} /\ t.to \in Accounts \cup {0} /\ t.amount \in Nat
           /\ HasEntry(t) => t.from \in Accounts
           /\ Touched(t) \in SUBSET Accounts
           /\ [t EXCEPT !.state = "deleted"] \in Tx
           /\ HasEntry(t) => HasEntry([t EXCEPT !.state = "deleted"])
BY AccountsAreNat, BoundsAssumption DEF Tx, HasEntry, Touched

LEMMA EffectType ==
    ASSUME NEW t \in Tx, NEW a PROVE Effect(t, a) \in Int
<1>1. t.amount \in Nat
  BY TxFields
<1>2. Effect(t, a) \in {0, t.amount, -t.amount}
  BY DEF Effect
<1> QED BY <1>1, <1>2

(* A transaction moves no money of an account it does not touch. *)
LEMMA EffectElsewhere ==
    ASSUME NEW t \in Tx, NEW a \in Accounts,
           a \notin Touched(t) \/ (InCategory(t) /\ a # t.from) \/ t.state # "active"
    PROVE  Effect(t, a) = 0
BY DEF Effect, Touched, InCategory

LEMMA PatchedType ==
    ASSUME NEW t \in Tx, NEW p \in Patch
    PROVE  /\ Patched(t, p) \in Tx
           /\ Patched(t, p).state = t.state /\ Patched(t, p).kind = t.kind
           /\ HasEntry(t) => HasEntry(Patched(t, p))
           /\ InCategory(t) => InCategory(Patched(t, p))
           /\ KeepsBalances(t, p) => \A a : Effect(Patched(t, p), a) = Effect(t, a)
<1> DEFINE q == Patched(t, p)
<1>1. /\ q \in Tx /\ q.state = t.state /\ q.kind = t.kind /\ q.to = t.to
      /\ q.amount = (IF p.amount = Keep THEN t.amount ELSE p.amount)
      /\ q.from = (IF p.from = Keep THEN t.from ELSE p.from)
  BY DEF Patched, Tx, Patch
<1> HIDE DEF q
<1> QED BY <1>1 DEF q, HasEntry, InCategory, KeepsBalances, Effect

LEMMA FreeTxType == FreeTx \in Tx
BY DEF FreeTx, Tx

LEMMA NoPatchType == NoPatch \in Patch
BY DEF NoPatch, Patch

LEMMA EntryType ==
    ASSUME NEW kind \in {"expense", "income", "transfer"}, NEW m \in Amounts,
           NEW a \in Accounts, NEW b \in Accounts \cup {Keep}
    PROVE  /\ Entry(kind, m, a, b) \in Tx /\ HasEntry(Entry(kind, m, a, b))
           /\ Entry(kind, m, a, b).state = "active"
           /\ Touched(Entry(kind, m, a, b)) = {a, b} \cap Accounts
BY AccountsAreNat, BoundsAssumption DEF Entry, Tx, HasEntry, Touched

LEMMA IdleType ==
    /\ Idle \in Work /\ Planned(Idle) /\ Ascending(Idle)
    /\ Idle.held = {} /\ Idle.todo = {} /\ Idle.images = {} /\ Idle.op = "none"
    /\ Idle.seen \in [Accounts -> Int] /\ Idle.new = FreeTx /\ Idle.patch = NoPatch
BY FreeTxType, NoPatchType DEF Idle, Work, Planned, Ascending

LEMMA MovementsSum ==
    \A a : Movements(a) = SumFunctionOnSet([i \in Ids |-> Effect(tx[i], a)], Ids)
BY DEF Movements, SumFunction

LEMMA MovementsType ==
    ASSUME tx \in [Ids -> Tx], NEW a PROVE Movements(a) \in Int
<1> DEFINE f == [i \in Ids |-> Effect(tx[i], a)]
<1>1. \A i \in Ids : f[i] \in Int
  BY EffectType
<1> HIDE DEF f
<1>2. SumFunctionOnSet(f, Ids) \in Int
  BY <1>1, IdsAssumption, SumSplit
<1> QED BY <1>2, MovementsSum DEF f

(* One transaction is written. *)
LEMMA MovementsChanged ==
    ASSUME tx \in [Ids -> Tx], NEW i \in Ids, NEW t \in Tx, tx' = [tx EXCEPT ![i] = t], NEW a
    PROVE  Movements(a)' = Movements(a) - Effect(tx[i], a) + Effect(t, a)
<1> DEFINE f == [j \in Ids |-> Effect(tx[j], a)]
           h == [j \in Ids |-> Effect(tx'[j], a)]
<1>1. /\ \A j \in Ids : f[j] \in Int /\ h[j] \in Int
      /\ \A j \in Ids \ {i} : f[j] = h[j]
      /\ f[i] = Effect(tx[i], a) /\ h[i] = Effect(t, a)
  BY EffectType
<1>2. Movements(a)' = SumFunctionOnSet(h, Ids) /\ Movements(a) = SumFunctionOnSet(f, Ids)
  BY DEF Movements, SumFunction
<1> HIDE DEF f, h
<1>3. SumFunctionOnSet(h, Ids) = SumFunctionOnSet(f, Ids) - f[i] + h[i]
  BY <1>1, IdsAssumption, SumChanged
<1> QED BY <1>1, <1>2, <1>3

-----------------------------------------------------------------------------
(* A request begins. *)

(* What a request is when it begins: it holds nothing. *)
Fresh(w) == w \in Work /\ Planned(w) /\ Ascending(w) /\ w.held = {}

LEMMA BeginKeeps ==
    ASSUME LedgerInv, NEW s \in Sessions, NEW w, Fresh(w), Begin(s, w)
    PROVE  LedgerInv'
<1>1. /\ work' = [work EXCEPT ![s] = w] /\ begun' \in 0 .. MaxRequests
      /\ account' = account /\ tx' = tx /\ category' = category /\ stale' = stale
  BY BoundsAssumption DEF Begin, LedgerInv, TypeOK
<1>2. TypeOK'
  BY <1>1 DEF LedgerInv, TypeOK, Fresh
<1>3. Plans'
  BY <1>1 DEF LedgerInv, TypeOK, Plans, Fresh
<1>4. Exclusive' /\ SeenIsTrue'
  BY <1>1 DEF LedgerInv, TypeOK, Exclusive, SeenIsTrue, Fresh
<1>5. BalancesMatchUnlessStale'
  BY <1>1 DEF LedgerInv, BalancesMatchUnlessStale, BalancesMatch, Movements
<1> QED BY <1>2, <1>3, <1>4, <1>5 DEF LedgerInv

LEMMA FreshCreate ==
    ASSUME NEW new \in Tx, new.state = "active", HasEntry(new), NEW todo, todo = Touched(new)
    PROVE  Fresh([Idle EXCEPT !.op = "create", !.todo = todo, !.new = new])
<1> DEFINE w == [Idle EXCEPT !.op = "create", !.todo = todo, !.new = new]
<1>1. /\ w \in Work /\ w.op = "create" /\ w.images = {} /\ w.new = new /\ w.todo = todo
      /\ w.held = {}
  BY IdleType, TxFields DEF Work
<1> HIDE DEF w
<1>2. PlansCreate(w)
  BY <1>1 DEF PlansCreate, Plan
<1>3. Planned(w) /\ Ascending(w)
  BY <1>1, <1>2 DEF Planned, Ascending
<1> QED BY <1>1, <1>3 DEF Fresh, w

LEMMA FreshDelete ==
    ASSUME NEW i \in Ids, NEW t \in Tx, t.state = "active"
    PROVE  Fresh([Idle EXCEPT !.op = "delete", !.images = {<<i, t>>}, !.todo = Touched(t)])
<1> DEFINE w == [Idle EXCEPT !.op = "delete", !.images = {<<i, t>>}, !.todo = Touched(t)]
<1>0. {<<i, t>>} \in SUBSET (Ids \X Tx)
  OBVIOUS
<1>1. /\ w \in Work /\ w.op = "delete" /\ w.images = {<<i, t>>} /\ w.todo = Touched(t)
      /\ w.held = {}
  BY <1>0, IdleType, TxFields DEF Work
<1> HIDE DEF w
<1>2. PlansDelete(w)
  BY <1>1 DEF PlansDelete, Plan, OneImage
<1>3. Planned(w) /\ Ascending(w)
  BY <1>1, <1>2 DEF Planned, Ascending
<1> QED BY <1>1, <1>3 DEF Fresh, w

LEMMA FreshUpdate ==
    ASSUME NEW i \in Ids, NEW t \in Tx, InCategory(t), HasEntry(t), NEW p \in Patch, NEW todo,
           \/ todo = {t.from, Patched(t, p).from}
           \/ todo = {} /\ KeepsBalances(t, p)
    PROVE  Fresh([Idle EXCEPT !.op = "update", !.images = {<<i, t>>}, !.patch = p, !.todo = todo])
<1> DEFINE w == [Idle EXCEPT !.op = "update", !.images = {<<i, t>>}, !.patch = p, !.todo = todo]
<1>0. {<<i, t>>} \in SUBSET (Ids \X Tx)
  OBVIOUS
<1>1. todo \in SUBSET Accounts
  BY TxFields, PatchedType
<1>2. /\ w \in Work /\ w.op = "update" /\ w.images = {<<i, t>>} /\ w.patch = p /\ w.todo = todo
      /\ w.held = {}
  BY <1>0, <1>1, IdleType DEF Work
<1> HIDE DEF w
<1>3. PlansUpdate(w)
  BY <1>2 DEF PlansUpdate, Plan, OneImage
<1>4. Planned(w) /\ Ascending(w)
  BY <1>2, <1>3 DEF Planned, Ascending
<1> QED BY <1>2, <1>4 DEF Fresh, w

LEMMA FreshCascade ==
    ASSUME NEW D \in SUBSET Ids, \A i \in D : tx[i] \in Tx /\ InCategory(tx[i]) /\ HasEntry(tx[i])
    PROVE  Fresh([Idle EXCEPT !.op = "cascade", !.images = {<<i, tx[i]>> : i \in D},
                              !.todo = {tx[i].from : i \in D}])
<1> DEFINE images == {<<i, tx[i]>> : i \in D}
           todo == {tx[i].from : i \in D}
           w == [Idle EXCEPT !.op = "cascade", !.images = images, !.todo = todo]
<1>1. todo \in SUBSET Accounts /\ images \in SUBSET (Ids \X Tx)
  <2>1. \A i \in D : tx[i].from \in Accounts
    BY TxFields
  <2> QED BY <2>1
<1>2. /\ \A x, y \in images : x[1] = y[1] => x = y
      /\ \A x \in images : InCategory(x[2]) /\ HasEntry(x[2])
      /\ todo = {x[2].from : x \in images}
  <2>1. ASSUME NEW x \in images
        PROVE  x[1] \in D /\ x = <<x[1], tx[x[1]]>> /\ x[2] = tx[x[1]]
    OBVIOUS
  <2>2. \A i \in D : <<i, tx[i]>> \in images
    OBVIOUS
  <2> HIDE DEF images
  <2> QED BY <2>1, <2>2
<1> HIDE DEF images, todo
<1>3. /\ w \in Work /\ w.op = "cascade" /\ w.images = images /\ w.todo = todo /\ w.held = {}
  BY <1>1, IdleType DEF Work
<1> HIDE DEF w
<1>4. PlansCascade(w)
  BY <1>2, <1>3 DEF PlansCascade, Plan
<1>5. Planned(w) /\ Ascending(w)
  BY <1>3, <1>4 DEF Planned, Ascending
<1> QED BY <1>3, <1>5 DEF Fresh, w, images, todo

LEMMA FreshDeactivate ==
    ASSUME NEW a \in Accounts
    PROVE  Fresh([Idle EXCEPT !.op = "deactivate", !.todo = {a}])
<1> DEFINE w == [Idle EXCEPT !.op = "deactivate", !.todo = {a}]
<1>1. w \in Work /\ w.op = "deactivate" /\ w.held = {}
  BY IdleType DEF Work
<1> HIDE DEF w
<1>2. Planned(w) /\ Ascending(w)
  BY <1>1 DEF Planned, Ascending
<1> QED BY <1>1, <1>2 DEF Fresh, w

LEMMA RequestKeeps ==
    ASSUME LedgerInv, NEW s \in Sessions, Request(s)
    PROVE  LedgerInv'
<1>0. /\ \A i \in Ids : tx[i] \in Tx /\ (tx[i].state # "free" => HasEntry(tx[i]))
      /\ Keep \in Accounts \cup {Keep}
  BY DEF LedgerInv, TypeOK, HasEntry
<1>1. ASSUME NEW a \in Accounts, NEW m \in Amounts, CreateExpense(s, a, m)
      PROVE  LedgerInv'
  <2> DEFINE new == Entry("expense", m, a, Keep)
  <2>1. new \in Tx /\ new.state = "active" /\ HasEntry(new) /\ Touched(new) = {a}
    BY <1>0, EntryType, AccountsAreNat
  <2>2. Begin(s, [Idle EXCEPT !.op = "create", !.todo = {a}, !.new = new])
    BY <1>1 DEF CreateExpense
  <2> HIDE DEF new
  <2> QED BY <2>1, <2>2, FreshCreate, BeginKeeps
<1>2. ASSUME NEW a \in Accounts, NEW m \in Amounts, CreateIncome(s, a, m)
      PROVE  LedgerInv'
  <2> DEFINE new == Entry("income", m, a, Keep)
  <2>1. new \in Tx /\ new.state = "active" /\ HasEntry(new) /\ Touched(new) = {a}
    BY <1>0, EntryType, AccountsAreNat
  <2>2. Begin(s, [Idle EXCEPT !.op = "create", !.todo = {a}, !.new = new])
    BY <1>2 DEF CreateIncome
  <2> HIDE DEF new
  <2> QED BY <2>1, <2>2, FreshCreate, BeginKeeps
<1>3. ASSUME NEW a \in Accounts, NEW b \in Accounts, NEW m \in Amounts, CreateTransfer(s, a, b, m)
      PROVE  LedgerInv'
  <2> DEFINE new == Entry("transfer", m, a, b)
  <2>1. new \in Tx /\ new.state = "active" /\ HasEntry(new) /\ Touched(new) = {a, b}
    BY EntryType
  <2>2. Begin(s, [Idle EXCEPT !.op = "create", !.todo = {a, b}, !.new = new])
    BY <1>3 DEF CreateTransfer
  <2> HIDE DEF new
  <2> QED BY <2>1, <2>2, FreshCreate, BeginKeeps
<1>4. ASSUME NEW i \in Ids, SoftDelete(s, i)
      PROVE  LedgerInv'
  BY <1>0, <1>4, FreshDelete, BeginKeeps DEF SoftDelete
<1>5. ASSUME NEW i \in Ids, NEW p \in Patch, Update(s, i, p)
      PROVE  LedgerInv'
  <2> DEFINE touched == p.amount # Keep \/ (p.from # Keep /\ p.from # tx[i].from)
             todo == IF touched THEN {tx[i].from, Patched(tx[i], p).from} ELSE {}
             w == [Idle EXCEPT !.op = "update", !.images = {<<i, tx[i]>>}, !.patch = p,
                               !.todo = todo]
  <2>1. tx[i] \in Tx /\ InCategory(tx[i]) /\ HasEntry(tx[i])
    BY <1>0, <1>5 DEF Update, InCategory
  <2>2. \/ todo = {tx[i].from, Patched(tx[i], p).from}
        \/ todo = {} /\ KeepsBalances(tx[i], p)
    BY DEF KeepsBalances
  <2>3. Begin(s, w)
    BY <1>5 DEF Update
  <2> HIDE DEF todo
  <2>4. Fresh(w)
    BY <2>1, <2>2, FreshUpdate
  <2> HIDE DEF w
  <2> QED BY <2>3, <2>4, BeginKeeps
<1>6. ASSUME DeleteCategory(s)
      PROVE  LedgerInv'
  <2> DEFINE doomed == {i \in Ids : InCategory(tx[i])}
             w == [Idle EXCEPT !.op = "cascade", !.images = {<<i, tx[i]>> : i \in doomed},
                               !.todo = {tx[i].from : i \in doomed}]
  <2>1. /\ doomed \in SUBSET Ids
        /\ \A i \in doomed : tx[i] \in Tx /\ InCategory(tx[i]) /\ HasEntry(tx[i])
    BY <1>0 DEF InCategory
  <2>2. Begin(s, w)
    BY <1>6 DEF DeleteCategory
  <2> HIDE DEF doomed
  <2>3. Fresh(w)
    BY <2>1, FreshCascade
  <2> HIDE DEF w
  <2> QED BY <2>2, <2>3, BeginKeeps
<1>7. ASSUME NEW a \in Accounts, DeactivateAccount(s, a)
      PROVE  LedgerInv'
  BY <1>7, FreshDeactivate, BeginKeeps DEF DeactivateAccount
<1> QED BY <1>1, <1>2, <1>3, <1>4, <1>5, <1>6, <1>7 DEF Request

-----------------------------------------------------------------------------
(* A request takes a lock: the next in the order of the accounts. *)

LEMMA PlanOnly ==
    ASSUME NEW w, NEW v, v.op = w.op, v.images = w.images, v.new = w.new, v.patch = w.patch,
           Plan(v) = Plan(w), w.op # "none", Planned(w)
    PROVE  Planned(v)
BY DEF Planned, PlansCreate, PlansDelete, PlansUpdate, PlansCascade, OneImage

LEMMA LockKeeps ==
    ASSUME LedgerInv, NEW s \in Sessions, Lock(s)
    PROVE  LedgerInv'
<1> DEFINE w == work[s]  v == work'[s]
<1>1. PICK a \in NextLocks(s) :
          /\ Free(s, a)
          /\ work' = [work EXCEPT ![s].todo = @ \ {a}, ![s].held = @ \cup {a},
                                  ![s].seen[a] = account[a].balance]
  BY DEF Lock
<1>2. /\ account' = account /\ tx' = tx /\ category' = category /\ begun' = begun
      /\ stale' = stale
  BY DEF Lock
<1>3. /\ work \in [Sessions -> Work] /\ w \in Work /\ Planned(w) /\ Ascending(w)
      /\ account \in [Accounts -> [balance : Int, active : BOOLEAN]]
  BY DEF LedgerInv, TypeOK, Plans
<1>4. a \in w.todo /\ a \in Accounts /\ account[a].balance \in Int
  BY <1>3 DEF NextLocks, Work
<1>5. /\ v = [w EXCEPT !.todo = @ \ {a}, !.held = @ \cup {a},
                       !.seen = [@ EXCEPT ![a] = account[a].balance]]
      /\ \A r \in Sessions \ {s} : work'[r] = work[r]
      /\ work' = [work EXCEPT ![s] = v]
  BY ZenonT(60), <1>1, <1>3
<1>6. /\ v.op = w.op /\ v.images = w.images /\ v.new = w.new /\ v.patch = w.patch
      /\ v.todo = w.todo \ {a} /\ v.held = w.held \cup {a}
      /\ v.seen = [w.seen EXCEPT ![a] = account[a].balance]
      /\ v \in Work
  <2> DEFINE seen == [w.seen EXCEPT ![a] = account[a].balance]
  <2>1. seen \in [Accounts -> Int]
    BY <1>3, <1>4 DEF Work
  <2>2. v = [w EXCEPT !.todo = w.todo \ {a}, !.held = w.held \cup {a}, !.seen = seen]
    BY <1>5
  <2> HIDE DEF seen, v
  <2> QED BY <1>3, <1>4, <2>1, <2>2 DEF Work, seen
<1> HIDE DEF v
<1>7. TypeOK'
  BY <1>2, <1>5, <1>6 DEF LedgerInv, TypeOK
<1>8. Planned(v)
  <2>1. Plan(v) = Plan(w)
    BY <1>4, <1>6 DEF Plan
  <2>2. w.op # "none"
    BY <1>3, <1>4, IdleType DEF Planned
  <2> QED BY <1>3, <1>6, <2>1, <2>2, PlanOnly
<1>9. Ascending(v)
  <2> SUFFICES ASSUME w.op # "cascade", NEW b \in w.held \cup {a}, NEW c \in w.todo \ {a}
               PROVE  b < c
    BY <1>6 DEF Ascending
  <2>1. a \in Int /\ c \in Int /\ c # a
    BY <1>3, <1>4, AccountsAreNat DEF Work
  <2>2. a <= c
    BY DEF NextLocks
  <2>3. CASE b = a
    BY <2>1, <2>2, <2>3
  <2>4. CASE b \in w.held
    BY <2>4, <1>3 DEF Ascending
  <2> QED BY <2>3, <2>4
<1>10. Plans'
  BY <1>5, <1>8, <1>9 DEF LedgerInv, Plans, v
<1>11. Exclusive'
  <2>1. \A r \in Sessions \ {s} : a \notin work[r].held
    BY <1>1 DEF Free
  <2>2. work'[s].held = work[s].held \cup {a}
    BY <1>6 DEF v
  <2> SUFFICES ASSUME NEW p \in Sessions, NEW q \in Sessions, p # q
               PROVE  work'[p].held \cap work'[q].held = {}
    BY DEF Exclusive
  <2>3. work[p].held \cap work[q].held = {}
    BY DEF LedgerInv, Exclusive
  <2>4. CASE p = s
    BY <1>5, <2>1, <2>2, <2>3, <2>4
  <2>5. CASE q = s
    BY <1>5, <2>1, <2>2, <2>3, <2>5
  <2> QED BY <1>5, <2>3, <2>4, <2>5
<1>12. SeenIsTrue'
  <2>1. \A b \in v.held : v.seen[b] = account[b].balance
    BY <1>3, <1>4, <1>6 DEF LedgerInv, SeenIsTrue, Work
  <2> SUFFICES ASSUME NEW r \in Sessions, NEW b \in work'[r].held
               PROVE  work'[r].seen[b] = account[b].balance
    BY <1>2 DEF SeenIsTrue
  <2>2. CASE r = s
    BY <2>1, <2>2 DEF v
  <2> QED BY <1>5, <2>2 DEF LedgerInv, SeenIsTrue
<1>13. BalancesMatchUnlessStale'
  BY <1>2 DEF LedgerInv, BalancesMatchUnlessStale, BalancesMatch, Movements
<1> QED BY <1>7, <1>10, <1>11, <1>12, <1>13 DEF LedgerInv

-----------------------------------------------------------------------------
(* A request ends: its locks go, and nobody else's balances have moved. *)

Rows == [Accounts -> [balance : Int, active : BOOLEAN]]

LEMMA EndKeeps ==
    ASSUME LedgerInv, NEW s \in Sessions, End(s),
           \A a \in Accounts \ work[s].held : account'[a].balance = account[a].balance
    PROVE  work' \in [Sessions -> Work] /\ Plans' /\ Exclusive' /\ SeenIsTrue'
<1>1. /\ work \in [Sessions -> Work]
      /\ work' = [work EXCEPT ![s] = Idle]
  BY DEF LedgerInv, TypeOK, End
<1>2. work' \in [Sessions -> Work] /\ Plans' /\ Exclusive'
  BY <1>1, IdleType DEF LedgerInv, Plans, Exclusive
<1>3. SeenIsTrue'
  <2> SUFFICES ASSUME NEW r \in Sessions, NEW a \in work'[r].held
               PROVE  work'[r].seen[a] = account'[a].balance
    BY DEF SeenIsTrue
  <2>1. r # s /\ work'[r] = work[r]
    BY <1>1, IdleType
  <2>2. a \in Accounts \ work[s].held
    BY <1>1, <2>1 DEF LedgerInv, Exclusive, Work
  <2> QED BY <2>1, <2>2 DEF LedgerInv, SeenIsTrue
<1> QED BY <1>2, <1>3

(* What a ready request does to the balances it holds *)
LEMMA ReversedSum ==
    \A s, a : Reversed(s, a) =
        work[s].seen[a]
          - SumFunctionOnSet([x \in work[s].images |-> Effect(x[2], a)], work[s].images)
          + SumFunctionOnSet([t \in After(s) |-> Effect(t, a)], After(s))
BY DEF Reversed, SumFunction

LEMMA ImagesSum ==
    ASSUME NEW i, NEW t \in Tx, NEW images, images = {<<i, t>>}, NEW a
    PROVE  SumFunctionOnSet([x \in images |-> Effect(x[2], a)], images) = Effect(t, a)
<1> DEFINE f == [x \in images |-> Effect(x[2], a)]
<1>1. f[<<i, t>>] = Effect(t, a)
  OBVIOUS
<1>2. Effect(t, a) \in Int
  BY EffectType
<1> HIDE DEF f
<1>3. SumFunctionOnSet(f, {<<i, t>>}) = f[<<i, t>>]
  BY <1>1, <1>2, SumOne
<1> QED BY <1>1, <1>3 DEF f

LEMMA ImagesFinite ==
    ASSUME NEW images \in SUBSET (Ids \X Tx), \A x, y \in images : x[1] = y[1] => x = y
    PROVE  IsFiniteSet(images)
<1> DEFINE p == [x \in images |-> x[1]]
<1>1. p \in Injection(images, Ids)
  BY DEF Injection, IsInjective
<1> QED BY <1>1, IdsAssumption, FS_Injection

LEMMA ReversedDelete ==
    ASSUME NEW s, work[s].op = "delete", NEW i, NEW t \in Tx, work[s].images = {<<i, t>>},
           NEW a, work[s].seen[a] \in Int
    PROVE  Reversed(s, a) = work[s].seen[a] - Effect(t, a)
<1>1. After(s) = {}
  BY DEF After
<1>2. SumFunctionOnSet([x \in After(s) |-> Effect(x, a)], After(s)) = 0
  BY <1>1, SumEmpty
<1>3. SumFunctionOnSet([x \in work[s].images |-> Effect(x[2], a)], work[s].images) = Effect(t, a)
  <2> DEFINE images == work[s].images
  <2>1. images = {<<i, t>>}
    OBVIOUS
  <2> HIDE DEF images
  <2>2. SumFunctionOnSet([x \in images |-> Effect(x[2], a)], images) = Effect(t, a)
    BY <2>1, ImagesSum
  <2> QED BY <2>2 DEF images
<1>4. Effect(t, a) \in Int
  BY EffectType
<1>5. Reversed(s, a) = work[s].seen[a] - Effect(t, a) + 0
  BY <1>2, <1>3, ReversedSum
<1> QED BY <1>4, <1>5

LEMMA ReversedUpdate ==
    ASSUME NEW s, work[s].op = "update", work[s].patch \in Patch,
           NEW i, NEW t \in Tx, work[s].images = {<<i, t>>},
           NEW a, work[s].seen[a] \in Int
    PROVE  Reversed(s, a) =
               work[s].seen[a] - Effect(t, a) + Effect(Patched(t, work[s].patch), a)
<1> DEFINE q == Patched(t, work[s].patch)
           f == [x \in After(s) |-> Effect(x, a)]
<1>1. After(s) = {q}
  BY DEF After
<1>2. q \in Tx /\ Effect(q, a) \in Int
  BY PatchedType, EffectType
<1>3. f[q] = Effect(q, a)
  BY <1>1
<1> HIDE DEF f, q
<1>4. SumFunctionOnSet(f, After(s)) = Effect(q, a)
  BY <1>1, <1>2, <1>3, SumOne
<1>5. SumFunctionOnSet([x \in work[s].images |-> Effect(x[2], a)], work[s].images) = Effect(t, a)
  <2> DEFINE images == work[s].images
  <2>1. images = {<<i, t>>}
    OBVIOUS
  <2> HIDE DEF images
  <2>2. SumFunctionOnSet([x \in images |-> Effect(x[2], a)], images) = Effect(t, a)
    BY <2>1, ImagesSum
  <2> QED BY <2>2 DEF images
<1> QED BY <1>4, <1>5, ReversedSum DEF f, q

LEMMA ReversedCascade ==
    ASSUME NEW s, work[s].op = "cascade", NEW a,
           work[s].images \in SUBSET (Ids \X Tx), PlansCascade(work[s]),
           work[s].seen[a] \in Int
    PROVE  /\ Reversed(s, a) = work[s].seen[a] -
                SumFunctionOnSet([x \in work[s].images |-> Effect(x[2], a)], work[s].images)
           /\ Reversed(s, a) \in Int
<1> DEFINE images == work[s].images
           f == [x \in images |-> Effect(x[2], a)]
<1>1. After(s) = {}
  BY DEF After
<1>2. SumFunctionOnSet([x \in After(s) |-> Effect(x, a)], After(s)) = 0
  BY <1>1, SumEmpty
<1>3. \A x \in images : f[x] \in Int
  BY EffectType
<1>4. IsFiniteSet(images)
  BY ImagesFinite DEF PlansCascade
<1> HIDE DEF f
<1>5. SumFunctionOnSet(f, images) \in Int
  BY <1>3, <1>4, SumSplit
<1>6. Reversed(s, a) = work[s].seen[a] - SumFunctionOnSet(f, images) + 0
  BY <1>2, ReversedSum DEF f
<1> QED BY <1>5, <1>6 DEF f

-----------------------------------------------------------------------------
(* The commits *)

(* What is known of a ready request *)
LEMMA ReadyFacts ==
    ASSUME LedgerInv, NEW s \in Sessions, NEW op, Ready(s, op), op # "none"
    PROVE  /\ work[s] \in Work /\ Planned(work[s]) /\ work[s].op = op
           /\ Plan(work[s]) = work[s].held
           /\ tx \in [Ids -> Tx] /\ account \in Rows
           /\ \A a \in Accounts : /\ Movements(a) \in Int /\ account[a].balance \in Int
                                  /\ work[s].seen[a] \in Int
           /\ \A a \in work[s].held : work[s].seen[a] = account[a].balance
<1>1. /\ work[s] \in Work /\ Planned(work[s]) /\ work[s].op = op /\ work[s].todo = {}
      /\ tx \in [Ids -> Tx] /\ account \in Rows
  BY DEF LedgerInv, TypeOK, Plans, Ready, Rows
<1>2. \A a \in Accounts : Movements(a) \in Int
  BY <1>1, MovementsType
<1> QED BY <1>1, <1>2 DEF LedgerInv, SeenIsTrue, Plan, Rows, Work

LEMMA CommitCreateKeeps ==
    ASSUME LedgerInv, NEW s \in Sessions, CommitCreate(s)
    PROVE  LedgerInv'
<1> DEFINE t == work[s].new
<1>1. PICK i \in Ids : tx[i].state = "free" /\ tx' = [tx EXCEPT ![i] = t]
  BY DEF CommitCreate
<1>2. /\ account' = [a \in Accounts |-> [account[a] EXCEPT !.balance = @ + Effect(t, a)]]
      /\ category' = category /\ begun' = begun /\ stale' = stale /\ End(s)
      /\ Ready(s, "create")
  BY DEF CommitCreate
<1>3. /\ work[s] \in Work /\ Planned(work[s]) /\ work[s].op = "create"
      /\ Plan(work[s]) = work[s].held /\ tx \in [Ids -> Tx] /\ account \in Rows
      /\ \A a \in Accounts : Movements(a) \in Int /\ account[a].balance \in Int
  BY <1>2, ReadyFacts
<1>4. t \in Tx /\ HasEntry(t) /\ Touched(t) = work[s].held
  BY <1>3 DEF Planned, PlansCreate, Work
<1>5. \A a \in Accounts : Effect(t, a) \in Int /\ (a \notin work[s].held => Effect(t, a) = 0)
  BY <1>4, EffectType, EffectElsewhere
<1>6. \A a \in Accounts : account'[a].balance = account[a].balance + Effect(t, a)
  BY <1>2, <1>3 DEF Rows
<1>7. account' \in Rows
  BY <1>2, <1>3, <1>5 DEF Rows
<1>8. work' \in [Sessions -> Work] /\ Plans' /\ Exclusive' /\ SeenIsTrue'
  <2>1. \A a \in Accounts \ work[s].held : account'[a].balance = account[a].balance
    BY <1>3, <1>5, <1>6
  <2> QED BY <1>2, <2>1, EndKeeps
<1>9. TypeOK'
  BY <1>1, <1>2, <1>3, <1>4, <1>7, <1>8 DEF LedgerInv, TypeOK, HasEntry, Rows
<1>10. BalancesMatchUnlessStale'
  <2> SUFFICES ASSUME ~stale, NEW a \in Accounts
               PROVE  account'[a].balance = Opening + Movements(a)'
    BY <1>2 DEF BalancesMatchUnlessStale, BalancesMatch
  <2>1. account[a].balance = Opening + Movements(a)
    BY DEF LedgerInv, BalancesMatchUnlessStale, BalancesMatch
  <2>2. Effect(tx[i], a) = 0
    BY <1>1, <1>3, EffectElsewhere
  <2>3. Movements(a)' = Movements(a) - Effect(tx[i], a) + Effect(t, a)
    BY <1>1, <1>3, <1>4, MovementsChanged
  <2> QED BY <1>3, <1>5, <1>6, <2>1, <2>2, <2>3, BoundsAssumption
<1> QED BY <1>8, <1>9, <1>10 DEF LedgerInv

LEMMA CommitDeleteKeeps ==
    ASSUME LedgerInv, NEW s \in Sessions, CommitDelete(s)
    PROVE  LedgerInv'
<1> DEFINE held == work[s].held
<1>1. /\ SetBalances(s) /\ stale' = (stale \/ Edited(s)) /\ End(s)
      /\ category' = category /\ begun' = begun /\ Ready(s, "delete")
  BY DEF CommitDelete
<1>2. /\ work[s] \in Work /\ Planned(work[s]) /\ work[s].op = "delete"
      /\ Plan(work[s]) = held /\ tx \in [Ids -> Tx] /\ account \in Rows
      /\ \A a \in Accounts : /\ Movements(a) \in Int /\ account[a].balance \in Int
                             /\ work[s].seen[a] \in Int
      /\ \A a \in held : work[s].seen[a] = account[a].balance
  BY <1>1, ReadyFacts
<1>3. PICK i \in Ids, t \in Tx : /\ work[s].images = {<<i, t>>} /\ t.state = "active"
                                 /\ held = Touched(t)
  BY <1>2 DEF Planned, PlansDelete, OneImage
<1> DEFINE gone == [tx[i] EXCEPT !.state = "deleted"]
<1>4. Deletable(i) /\ tx' = [tx EXCEPT ![i] = gone]
  <2>1. PICK image \in work[s].images :
            Deletable(image[1]) /\ tx' = [tx EXCEPT ![image[1]].state = "deleted"]
    BY DEF CommitDelete
  <2>2. image[1] = i
    BY <1>3, <2>1
  <2> QED BY <1>2, <2>1, <2>2
<1>5. gone \in Tx /\ (HasEntry(tx[i]) => HasEntry(gone)) /\ gone.state = "deleted"
  BY <1>2, TxFields
<1>6. \A a \in Accounts : Effect(t, a) \in Int /\ (a \notin held => Effect(t, a) = 0)
  BY <1>3, EffectType, EffectElsewhere
<1>7. account' = [a \in Accounts |-> IF a \in held
                     THEN [account[a] EXCEPT !.balance = Reversed(s, a)] ELSE account[a]]
  BY <1>1 DEF SetBalances
<1>8. ASSUME NEW a \in Accounts, a \in held
      PROVE  Reversed(s, a) = account[a].balance - Effect(t, a)
  <2>1. work[s].seen[a] = account[a].balance /\ work[s].seen[a] \in Int
    BY <1>2, <1>8
  <2>2. work[s].op = "delete" /\ work[s].images = {<<i, t>>}
    BY <1>2, <1>3
  <2>3. Reversed(s, a) = work[s].seen[a] - Effect(t, a)
    BY <2>1, <2>2, ReversedDelete
  <2> QED BY <2>1, <2>3
<1>9. \A a \in Accounts : account'[a].balance = account[a].balance - Effect(t, a)
  BY <1>2, <1>6, <1>7, <1>8 DEF Rows
<1>10. account' \in Rows
  BY <1>2, <1>6, <1>7, <1>8 DEF Rows
<1> HIDE DEF gone
<1>11. work' \in [Sessions -> Work] /\ Plans' /\ Exclusive' /\ SeenIsTrue'
  BY <1>1, <1>2, <1>6, <1>9, EndKeeps
<1>12. TypeOK'
  <2>1. stale' \in BOOLEAN
    BY <1>1 DEF LedgerInv, TypeOK, Edited
  <2>2. tx[i].state # "free"
    BY <1>4 DEF Deletable
  <2> QED BY <1>1, <1>2, <1>4, <1>5, <1>10, <1>11, <2>1, <2>2
      DEF LedgerInv, TypeOK, HasEntry, Rows
<1>13. BalancesMatchUnlessStale'
  <2> SUFFICES ASSUME ~stale', NEW a \in Accounts
               PROVE  account'[a].balance = Opening + Movements(a)'
    BY DEF BalancesMatchUnlessStale, BalancesMatch
  <2>1. account[a].balance = Opening + Movements(a)
    BY <1>1 DEF LedgerInv, BalancesMatchUnlessStale, BalancesMatch
  <2>2. tx[i] = t
    BY <1>1, <1>3, <1>4 DEF Edited, Deletable
  <2>3. Effect(gone, a) = 0
    BY <1>5, EffectElsewhere
  <2>4. Movements(a)' = Movements(a) - Effect(tx[i], a) + Effect(gone, a)
    BY <1>2, <1>4, <1>5, MovementsChanged
  <2> QED BY <1>2, <1>6, <1>9, <2>1, <2>2, <2>3, <2>4, BoundsAssumption
<1> QED BY <1>11, <1>12, <1>13 DEF LedgerInv

LEMMA CommitUpdateKeeps ==
    ASSUME LedgerInv, NEW s \in Sessions, CommitUpdate(s)
    PROVE  LedgerInv'
<1> DEFINE held == work[s].held  p == work[s].patch
<1>1. /\ SetBalances(s) /\ stale' = (stale \/ Outdated(s)) /\ End(s)
      /\ category' = category /\ begun' = begun /\ Ready(s, "update")
      /\ tx' = [i \in Ids |-> IF i \in {image[1] : image \in work[s].images}
                              THEN Patched(tx[i], p) ELSE tx[i]]
  BY DEF CommitUpdate
<1>2. /\ work[s] \in Work /\ Planned(work[s]) /\ work[s].op = "update"
      /\ Plan(work[s]) = held /\ tx \in [Ids -> Tx] /\ account \in Rows
      /\ \A a \in Accounts : /\ Movements(a) \in Int /\ account[a].balance \in Int
                             /\ work[s].seen[a] \in Int
      /\ \A a \in held : work[s].seen[a] = account[a].balance
  BY <1>1, ReadyFacts
<1>3. p \in Patch
  BY <1>2 DEF Work
<1>4. PICK i \in Ids, t \in Tx :
          /\ work[s].images = {<<i, t>>} /\ InCategory(t)
          /\ \/ held = {t.from, Patched(t, p).from}
             \/ held = {} /\ KeepsBalances(t, p)
  BY <1>2 DEF Planned, PlansUpdate, OneImage
<1> DEFINE new == Patched(tx[i], p)
<1>5. tx' = [tx EXCEPT ![i] = new]
  <2>1. {image[1] : image \in work[s].images} = {i}
    BY <1>4
  <2> QED BY <1>1, <1>2, <2>1
<1>6. new \in Tx /\ (HasEntry(tx[i]) => HasEntry(new)) /\ new.state = tx[i].state
  BY <1>2, <1>3, PatchedType
<1> DEFINE delta(a) == Effect(Patched(t, p), a) - Effect(t, a)
<1>7. ASSUME NEW a \in Accounts
      PROVE  /\ Effect(t, a) \in Int /\ Effect(Patched(t, p), a) \in Int
             /\ a \notin held => Effect(Patched(t, p), a) = Effect(t, a)
  <2>1. Patched(t, p) \in Tx /\ InCategory(Patched(t, p))
    BY <1>3, <1>4, PatchedType
  <2>2. Effect(t, a) \in Int /\ Effect(Patched(t, p), a) \in Int
    BY <2>1, EffectType
  <2>3. ASSUME a \notin held PROVE Effect(Patched(t, p), a) = Effect(t, a)
    <3>1. CASE held = {t.from, Patched(t, p).from}
      BY <1>4, <2>1, <2>3, <3>1, EffectElsewhere
    <3>2. CASE KeepsBalances(t, p)
      BY <1>3, <3>2, PatchedType
    <3> QED BY <1>4, <3>1, <3>2
  <2> QED BY <2>2, <2>3
<1>8. account' = [a \in Accounts |-> IF a \in held
                     THEN [account[a] EXCEPT !.balance = Reversed(s, a)] ELSE account[a]]
  BY <1>1 DEF SetBalances
<1>9. \A a \in Accounts : a \in held =>
          Reversed(s, a) = account[a].balance - Effect(t, a) + Effect(Patched(t, p), a)
  BY ZenonT(60), <1>2, <1>3, <1>4, ReversedUpdate
<1>10. \A a \in Accounts :
          account'[a].balance = account[a].balance - Effect(t, a) + Effect(Patched(t, p), a)
  BY <1>2, <1>7, <1>8, <1>9 DEF Rows
<1>11. account' \in Rows
  BY <1>2, <1>7, <1>8, <1>9 DEF Rows
<1> HIDE DEF new
<1>12. work' \in [Sessions -> Work] /\ Plans' /\ Exclusive' /\ SeenIsTrue'
  BY <1>1, <1>2, <1>7, <1>10, EndKeeps
<1>13. TypeOK'
  <2>1. stale' \in BOOLEAN
    BY <1>1 DEF LedgerInv, TypeOK, Outdated
  <2> QED BY <1>1, <1>2, <1>5, <1>6, <1>11, <1>12, <2>1 DEF LedgerInv, TypeOK, HasEntry, Rows
<1>14. BalancesMatchUnlessStale'
  <2> SUFFICES ASSUME ~stale', NEW a \in Accounts
               PROVE  account'[a].balance = Opening + Movements(a)'
    BY DEF BalancesMatchUnlessStale, BalancesMatch
  <2>1. account[a].balance = Opening + Movements(a)
    BY <1>1 DEF LedgerInv, BalancesMatchUnlessStale, BalancesMatch
  <2>2. tx[i] = t
    BY <1>1, <1>4 DEF Outdated
  <2>3. Movements(a)' = Movements(a) - Effect(tx[i], a) + Effect(new, a)
    BY <1>2, <1>5, <1>6, MovementsChanged
  <2> QED BY <1>2, <1>7, <1>10, <2>1, <2>2, <2>3, BoundsAssumption DEF new
<1> QED BY <1>12, <1>13, <1>14 DEF LedgerInv

LEMMA CommitCascadeKeeps ==
    ASSUME LedgerInv, NEW s \in Sessions, CommitCascade(s)
    PROVE  LedgerInv'
<1> DEFINE held == work[s].held  images == work[s].images
           missedOne == \E i \in Ids : InCategory(tx[i]) /\ <<i, tx[i]>> \notin images
           read(a) == [x \in images |-> Effect(x[2], a)]
<1>1. /\ SetBalances(s) /\ stale' = (stale \/ Outdated(s) \/ missedOne) /\ End(s)
      /\ category' = FALSE /\ begun' = begun /\ Ready(s, "cascade")
      /\ tx' = [i \in Ids |-> IF InCategory(tx[i])
                              THEN [tx[i] EXCEPT !.state = "deleted"] ELSE tx[i]]
  BY DEF CommitCascade
<1>2. /\ work[s] \in Work /\ Planned(work[s]) /\ work[s].op = "cascade"
      /\ Plan(work[s]) = held /\ tx \in [Ids -> Tx] /\ account \in Rows
      /\ \A a \in Accounts : /\ Movements(a) \in Int /\ account[a].balance \in Int
                             /\ work[s].seen[a] \in Int
      /\ \A a \in held : work[s].seen[a] = account[a].balance
  BY <1>1, ReadyFacts
<1>3. /\ PlansCascade(work[s]) /\ images \in SUBSET (Ids \X Tx)
      /\ \A x, y \in images : x[1] = y[1] => x = y
      /\ \A x \in images : InCategory(x[2]) /\ x[1] \in Ids /\ x[2] \in Tx /\ x[2].from \in held
  BY <1>2 DEF Planned, PlansCascade, Work
<1>4. IsFiniteSet(images)
  BY <1>3, ImagesFinite
<1>5. account' = [a \in Accounts |-> IF a \in held
                     THEN [account[a] EXCEPT !.balance = Reversed(s, a)] ELSE account[a]]
  BY <1>1 DEF SetBalances
<1>6. ASSUME NEW a \in Accounts
      PROVE  /\ Reversed(s, a) = work[s].seen[a] - SumFunctionOnSet(read(a), images)
             /\ Reversed(s, a) \in Int
  BY <1>2, <1>3, ReversedCascade
<1>7. \A a \in Accounts \ held : account'[a].balance = account[a].balance
  BY <1>5
<1>8. account' \in Rows
  BY <1>2, <1>5, <1>6 DEF Rows
<1>9. work' \in [Sessions -> Work] /\ Plans' /\ Exclusive' /\ SeenIsTrue'
  BY <1>1, <1>7, EndKeeps
<1>10. \A i \in Ids : tx'[i] \in Tx /\ (HasEntry(tx[i]) => HasEntry(tx'[i]))
                      /\ (tx[i].state = "free" => tx'[i].state = "free")
  BY <1>1, <1>2, TxFields DEF InCategory
<1>11. TypeOK'
  <2>1. stale' \in BOOLEAN
    BY <1>1 DEF LedgerInv, TypeOK, Outdated
  <2>2. tx' \in [Ids -> Tx]
    BY <1>1, <1>10
  <2>3. \A i \in Ids : tx'[i].state # "free" => HasEntry(tx'[i])
    BY <1>10 DEF LedgerInv, TypeOK, HasEntry
  <2> QED BY <1>1, <1>8, <1>9, <2>1, <2>2, <2>3 DEF LedgerInv, TypeOK, HasEntry, Rows
(* What was read is what is deleted, unless it was outdated. *)
<1>12. ASSUME ~stale', NEW a \in Accounts
       PROVE  Movements(a) - Movements(a)' = SumFunctionOnSet(read(a), images)
  <2> DEFINE f == [i \in Ids |-> Effect(tx[i], a)]
             g == [i \in Ids |-> Effect(tx'[i], a)]
             p == [x \in images |-> x[1]]
             h == read(a)
  <2>1. \A x \in images : tx[x[1]] = x[2]
    BY <1>1, <1>12 DEF Outdated
  <2>2. \A i \in Ids : InCategory(tx[i]) => <<i, tx[i]>> \in images
    BY <1>1, <1>12
  <2>3. \A i \in Ids : f[i] \in Int /\ g[i] \in Int
    BY <1>2, <1>10, EffectType
  <2>4. ASSUME NEW x \in images PROVE p[x] \in Ids /\ h[x] = f[p[x]] - g[p[x]]
    <3>1. tx'[x[1]].state = "deleted" /\ tx'[x[1]] \in Tx
      BY <1>1, <1>2, <1>3, <2>1, TxFields DEF Tx
    <3>2. Effect(tx'[x[1]], a) = 0 /\ Effect(x[2], a) \in Int
      BY <1>3, <3>1, EffectElsewhere, EffectType
    <3> QED BY <1>3, <2>1, <3>2
  <2>5. \A x, y \in images : p[x] = p[y] => x = y
    BY <1>3
  <2>6. ASSUME NEW i \in Ids, \A x \in images : p[x] # i PROVE f[i] = g[i]
    <3>1. ~InCategory(tx[i])
      BY <2>2, <2>6
    <3> QED BY <1>1, <3>1
  <2>7. Movements(a) = SumFunctionOnSet(f, Ids) /\ Movements(a)' = SumFunctionOnSet(g, Ids)
    BY DEF Movements, SumFunction
  <2> HIDE DEF f, g, p, h, images
  <2>8. SumFunctionOnSet(f, Ids) - SumFunctionOnSet(g, Ids) = SumFunctionOnSet(h, images)
    BY <1>4, <2>3, <2>4, <2>5, <2>6, IdsAssumption, SumMoved
  <2> QED BY <2>7, <2>8 DEF h
(* No account moves but those that are held. *)
<1>13. ASSUME ~stale', NEW a \in Accounts, a \notin held
       PROVE  Movements(a)' = Movements(a)
  <2> DEFINE f == [i \in Ids |-> Effect(tx[i], a)]
             g == [i \in Ids |-> Effect(tx'[i], a)]
  <2>1. ASSUME NEW i \in Ids PROVE f[i] = g[i]
    <3>1. CASE InCategory(tx[i])
      <4>1. <<i, tx[i]>> \in images
        BY <1>1, <1>13, <3>1
      <4>2. tx[i].from # a /\ tx[i] \in Tx
        BY <1>2, <1>3, <1>13, <4>1
      <4>3. tx'[i] \in Tx /\ tx'[i].state = "deleted"
        BY <1>1, <1>2, <1>10, <3>1 DEF Tx
      <4>4. Effect(tx[i], a) = 0 /\ Effect(tx'[i], a) = 0
        BY <3>1, <4>2, <4>3, EffectElsewhere
      <4> QED BY <4>4
    <3>2. CASE ~InCategory(tx[i])
      BY <1>1, <3>2
    <3> QED BY <3>1, <3>2
  <2>2. Movements(a) = SumFunctionOnSet(f, Ids) /\ Movements(a)' = SumFunctionOnSet(g, Ids)
    BY DEF Movements, SumFunction
  <2> HIDE DEF f, g
  <2> QED BY <2>1, <2>2, IdsAssumption, SumSame
<1>14. BalancesMatchUnlessStale'
  <2> SUFFICES ASSUME ~stale', NEW a \in Accounts
               PROVE  account'[a].balance = Opening + Movements(a)'
    BY DEF BalancesMatchUnlessStale, BalancesMatch
  <2>1. account[a].balance = Opening + Movements(a)
    BY <1>1 DEF LedgerInv, BalancesMatchUnlessStale, BalancesMatch
  <2>2. Movements(a) \in Int /\ Movements(a)' \in Int
    <3>1. Movements(a) \in Int
      BY <1>2
    <3>2. tx' \in [Ids -> Tx]
      BY <1>1, <1>10
    <3> DEFINE g == [i \in Ids |-> Effect(tx'[i], a)]
    <3>3. \A i \in Ids : g[i] \in Int
      BY <3>2, EffectType
    <3>4. Movements(a)' = SumFunctionOnSet(g, Ids)
      BY DEF Movements, SumFunction
    <3> HIDE DEF g
    <3> QED BY <3>1, <3>3, <3>4, IdsAssumption, SumSplit
  <2>3. CASE a \in held
    <3>1. account'[a].balance = account[a].balance - SumFunctionOnSet(read(a), images)
      BY <1>2, <1>5, <1>6, <2>3 DEF Rows
    <3>2. Movements(a) - Movements(a)' = SumFunctionOnSet(read(a), images)
      BY <1>12
    <3> QED BY <2>1, <2>2, <3>1, <3>2, BoundsAssumption
  <2>4. CASE a \notin held
    BY <1>7, <1>13, <2>1, <2>4
  <2> QED BY <2>3, <2>4
<1> QED BY <1>9, <1>11, <1>14 DEF LedgerInv

LEMMA CommitDeactivateKeeps ==
    ASSUME LedgerInv, NEW s \in Sessions, CommitDeactivate(s)
    PROVE  LedgerInv'
<1>1. /\ account' = [a \in Accounts |-> IF a \in work[s].held
                        THEN [account[a] EXCEPT !.active = FALSE] ELSE account[a]]
      /\ tx' = tx /\ category' = category /\ begun' = begun /\ stale' = stale /\ End(s)
  BY DEF CommitDeactivate
<1>2. account' \in Rows /\ \A a \in Accounts : account'[a].balance = account[a].balance
  BY <1>1 DEF LedgerInv, TypeOK, Rows
<1>3. work' \in [Sessions -> Work] /\ Plans' /\ Exclusive' /\ SeenIsTrue'
  BY <1>1, <1>2, EndKeeps
<1>4. TypeOK'
  BY <1>1, <1>2, <1>3 DEF LedgerInv, TypeOK, Rows
<1>5. BalancesMatchUnlessStale'
  BY <1>1, <1>2 DEF LedgerInv, BalancesMatchUnlessStale, BalancesMatch, Movements
<1> QED BY <1>3, <1>4, <1>5 DEF LedgerInv

LEMMA RollbackKeeps ==
    ASSUME LedgerInv, NEW s \in Sessions, Rollback(s)
    PROVE  LedgerInv'
<1>1. /\ account' = account /\ tx' = tx /\ category' = category /\ begun' = begun
      /\ stale' = stale /\ End(s)
  BY DEF Rollback
<1>2. work' \in [Sessions -> Work] /\ Plans' /\ Exclusive' /\ SeenIsTrue'
  BY <1>1, EndKeeps
<1>3. TypeOK'
  BY <1>1, <1>2 DEF LedgerInv, TypeOK
<1>4. BalancesMatchUnlessStale'
  BY <1>1 DEF LedgerInv, BalancesMatchUnlessStale, BalancesMatch, Movements
<1> QED BY <1>2, <1>3, <1>4 DEF LedgerInv

-----------------------------------------------------------------------------
LEMMA InitOK == Init => LedgerInv
<1> SUFFICES ASSUME Init PROVE LedgerInv
  OBVIOUS
<1>1. \A e \in Entries : e \in Tx /\ HasEntry(e)
  BY EntryType DEF Entries
<1>2. tx \in [Ids -> Tx] /\ \A i \in Ids : tx[i].state # "free" => HasEntry(tx[i])
  BY <1>1, FreeTxType DEF Init, FreeTx
<1>3. \A a \in Accounts : Opening + Movements(a) \in Int
  BY <1>2, MovementsType, BoundsAssumption
<1>4. TypeOK
  <2>1. account \in Rows
    BY <1>3 DEF Init, Rows
  <2>2. work \in [Sessions -> Work] /\ begun \in 0 .. MaxRequests
    BY IdleType, BoundsAssumption DEF Init
  <2>3. category \in BOOLEAN /\ stale \in BOOLEAN
    BY DEF Init
  <2> QED BY <1>2, <2>1, <2>2, <2>3 DEF TypeOK, HasEntry, Rows
<1>5. Plans /\ Exclusive /\ SeenIsTrue
  BY IdleType DEF Init, Plans, Exclusive, SeenIsTrue
<1>6. BalancesMatchUnlessStale
  BY DEF Init, BalancesMatchUnlessStale, BalancesMatch
<1> QED BY <1>4, <1>5, <1>6 DEF LedgerInv

(* The invariant holds in every state. *)
THEOREM Invariance == Spec => []LedgerInv
<1>1. LedgerInv /\ [Next]_vars => LedgerInv'
  <2> SUFFICES ASSUME LedgerInv, [Next]_vars PROVE LedgerInv'
    OBVIOUS
  <2>1. CASE Next
    BY <2>1, RequestKeeps, LockKeeps, CommitCreateKeeps, CommitDeleteKeeps, CommitUpdateKeeps,
       CommitCascadeKeeps, CommitDeactivateKeeps, RollbackKeeps DEF Next
  <2>2. CASE UNCHANGED vars
    <3>1. TypeOK' /\ Plans' /\ Exclusive' /\ SeenIsTrue'
      BY <2>2 DEF vars, LedgerInv, TypeOK, Plans, Exclusive, SeenIsTrue
    <3>2. BalancesMatchUnlessStale'
      BY <2>2 DEF vars, LedgerInv, BalancesMatchUnlessStale, BalancesMatch, Movements
    <3> QED BY <3>1, <3>2 DEF LedgerInv
  <2> QED BY <2>1, <2>2
<1> QED BY InitOK, <1>1, PTL DEF Spec

(* Every variable stays in its type, and a row that is not free has an      *)
(* amount and an account.                                                   *)
THEOREM TypeCorrect == Spec => []TypeOK
<1>1. LedgerInv => TypeOK
  BY DEF LedgerInv
<1> QED BY Invariance, <1>1, PTL

(* balance_cents is initial_balance_cents plus the movements of the active  *)
(* transactions (V058), unless a request wrote over a transaction that had  *)
(* changed since it read it without a lock.                                 *)
THEOREM BalancesAreMovements == Spec => []BalancesMatchUnlessStale
<1>1. LedgerInv => BalancesMatchUnlessStale
  BY DEF LedgerInv
<1> QED BY Invariance, <1>1, PTL

(* No two requests that lock in the order of the ids wait for each other,   *)
(* whatever they have read and whoever else is at work.                     *)
THEOREM OrderedLocking == Spec => []OrderedNeverDeadlock
<1>1. LedgerInv => OrderedNeverDeadlock
  <2> SUFFICES ASSUME LedgerInv,
                      NEW S \in SUBSET Sessions, S # {}, \A s \in S : work[s].op # "cascade",
                      \A s \in S : \E r \in S : s # r /\ WaitsFor(s, r)
               PROVE  FALSE
    BY DEF OrderedNeverDeadlock
  <2> DEFINE Sought(s) == {a \in NextLocks(s) : \E r \in S : a \in work[r].held}
             sought == [s \in S |-> CHOOSE a \in Sought(s) : TRUE]
  <2>1. ASSUME NEW s \in S
        PROVE  sought[s] \in Int /\ \E r \in S : sought[s] < sought[r] /\ sought[r] \in Int
    <3>1. \A q \in S : Sought(q) # {}
      BY DEF WaitsFor
    <3>2. \A q \in S : sought[q] \in Sought(q)
      BY <3>1
    <3>3. \A q \in S : sought[q] \in work[q].todo /\ sought[q] \in Int
                      /\ \E r \in S : sought[q] \in work[r].held
      <4> HIDE DEF sought
      <4>1. \A q \in S : sought[q] \in work[q].todo /\ \E r \in S : sought[q] \in work[r].held
        BY <3>2 DEF NextLocks
      <4>2. \A q \in S : work[q].todo \subseteq Accounts
        BY DEF LedgerInv, TypeOK, Work
      <4>3. \A q \in S : sought[q] \in Int
        <5>1. \A a \in Accounts : a \in Int
          BY AccountsAreNat
        <5> QED BY <4>1, <4>2, <5>1
      <4> QED BY <4>1, <4>3
    <3> HIDE DEF sought
    <3>4. PICK r \in S : sought[s] \in work[r].held
      BY <3>3
    <3>5. sought[s] < sought[r]
      BY <3>3, <3>4 DEF LedgerInv, Plans, Ascending
    <3> QED BY <3>3, <3>5
  <2>2. IsFiniteSet(S)
    BY FS_Subset, SessionsAssumption
  <2> HIDE DEF sought
  <2>3. PICK s \in S : \A r \in S : sought[r] <= sought[s]
    BY <2>1, <2>2, LargestOfSome
  <2>4. PICK r \in S : sought[s] < sought[r] /\ sought[r] \in Int
    BY <2>1
  <2> QED BY <2>1, <2>3, <2>4
<1> QED BY Invariance, <1>1, PTL
=============================================================================
