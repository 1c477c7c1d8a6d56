------------------------------- MODULE Ledger -------------------------------
(***************************************************************************)
(* The write store of apps/api/src/writes/postgres.ts: transactions, the   *)
(* materialised balances of the accounts they move money between, and the  *)
(* concurrent requests that change both.  Each request is one READ         *)
(* COMMITTED transaction: it reads what is committed, takes the row locks  *)
(* of the accounts it touches (SELECT ... FOR UPDATE, in the order of      *)
(* their ids), and its writes are seen by others when it commits and the   *)
(* locks go.  What a request reads before it has locked may be stale by    *)
(* the time it writes.                                                     *)
(*                                                                         *)
(* Accounts are of the kinds bank and cash, whose balance may be negative  *)
(* (assertDebitAllowed is a no-op on them); expenses and incomes are in    *)
(* one category, transfers in none; no transaction pays a payable.         *)
(***************************************************************************)
EXTENDS Integers, FiniteSets, Functions

CONSTANTS
    Accounts,        \* account ids: numbers, in their sort order
    Ids,             \* transaction ids
    MaxAmount,       \* bound: amount_cents
    Opening,         \* initial_balance_cents of every account
    Sessions,        \* requests in progress at a time
    MaxRequests      \* bound: requests begun

Keep == 0            \* a field the patch leaves out; no account and no amount

ASSUME AccountsAssumption == IsFiniteSet(Accounts) /\ Accounts \subseteq Nat \ {Keep}
ASSUME IdsAssumption == IsFiniteSet(Ids)
ASSUME SessionsAssumption == IsFiniteSet(Sessions)      \* the connections of the pool
ASSUME BoundsAssumption ==
    /\ MaxAmount \in Nat \ {0}
    /\ Opening \in Int
    /\ MaxRequests \in Nat

VARIABLES
    account,   \* [Accounts -> [balance, active]]: committed rows
    tx,        \* [Ids -> Tx]: committed rows of transactions
    category,  \* the category of expenses and incomes is active
    work,      \* [Sessions -> Work]: the database transaction of each request
    begun,     \* requests begun so far
    stale      \* history: a write was computed from rows changed since read

vars == <<account, tx, category, work, begun, stale>>

-----------------------------------------------------------------------------
(* State space *)

Amounts == 1 .. MaxAmount

Tx == [state  : {"free", "active", "deleted"},
       kind   : {"expense", "income", "transfer"},
       amount : Amounts \cup {0},
       from   : Accounts \cup {Keep},      \* account_id
       to     : Accounts \cup {Keep}]      \* transfer_to_account_id

FreeTx == [state |-> "free", kind |-> "expense", amount |-> 0,
           from |-> Keep, to |-> Keep]

Entry(kind, m, a, b) ==
    [state |-> "active", kind |-> kind, amount |-> m, from |-> a, to |-> b]

Patch == [amount : Amounts \cup {Keep}, from : Accounts \cup {Keep}]
NoPatch == [amount |-> Keep, from |-> Keep]

Work == [op     : {"none", "create", "delete", "update", "cascade", "deactivate"},
         images : SUBSET (Ids \X Tx),   \* rows read before any lock
         new    : Tx,                   \* what a create inserts
         patch  : Patch,
         todo   : SUBSET Accounts,      \* accounts still to lock
         held   : SUBSET Accounts,      \* account rows locked
         seen   : [Accounts -> Int]]    \* balances read under the lock

Idle == [op |-> "none", images |-> {}, new |-> FreeTx, patch |-> NoPatch,
         todo |-> {}, held |-> {}, seen |-> [a \in Accounts |-> 0]]

-----------------------------------------------------------------------------
(* Effects on balances *)

Effect(t, a) ==
    IF t.state # "active" THEN 0
    ELSE CASE t.kind = "income" /\ t.from = a -> t.amount
           [] t.kind # "income" /\ t.from = a -> -t.amount
           [] t.kind = "transfer" /\ t.to = a -> t.amount
           [] OTHER -> 0

Movements(a) == SumFunction([i \in Ids |-> Effect(tx[i], a)])

Touched(t) == {t.from, t.to} \cap Accounts

(* Variant: the columns of the patch are written without COALESCE. *)
PatchedNull(t, p) == [t EXCEPT !.amount = p.amount, !.from = p.from]

Patched(t, p) ==
    [t EXCEPT !.amount = IF p.amount = Keep THEN @ ELSE p.amount,
              !.from = IF p.from = Keep THEN @ ELSE p.from]

InCategory(t) == t.state = "active" /\ t.kind # "transfer"

(* Every transactions table with balances that agree with it. *)
Entries == {Entry(k, m, a, Keep) : k \in {"expense", "income"}, m \in Amounts,
                                   a \in Accounts}
           \cup {Entry("transfer", m, p[1], p[2]) :
                   m \in Amounts, p \in {q \in Accounts \X Accounts : q[1] # q[2]}}

Init ==
    /\ tx \in [Ids -> {FreeTx} \cup Entries]
    /\ account = [a \in Accounts |-> [balance |-> Opening + Movements(a),
                                      active |-> TRUE]]
    /\ category = TRUE
    /\ work = [s \in Sessions |-> Idle]
    /\ begun = 0
    /\ stale = FALSE

-----------------------------------------------------------------------------
(* The first reads of a request: BEGIN, and what is read without a lock. *)

Begin(s, w) ==
    /\ work[s].op = "none"
    /\ begun < MaxRequests
    /\ begun' = begun + 1
    /\ work' = [work EXCEPT ![s] = w]
    /\ UNCHANGED <<account, tx, category, stale>>

(* createExpenseInTx locks the account before it reads anything. *)
CreateExpense(s, a, m) ==
    Begin(s, [Idle EXCEPT !.op = "create", !.todo = {a},
                          !.new = Entry("expense", m, a, Keep)])

(* createIncomeInTx checks the account and the category without a lock; its *)
(* UPDATE of the balance takes the row lock.                                *)
CreateIncome(s, a, m) ==
    /\ account[a].active /\ category
    /\ Begin(s, [Idle EXCEPT !.op = "create", !.todo = {a},
                             !.new = Entry("income", m, a, Keep)])

CreateTransfer(s, a, b, m) ==
    /\ a # b
    /\ Begin(s, [Idle EXCEPT !.op = "create", !.todo = {a, b},
                             !.new = Entry("transfer", m, a, b)])

(* softDeleteTransactionInTx: findActiveTransaction takes no lock. *)
SoftDelete(s, i) ==
    /\ tx[i].state = "active"
    /\ Begin(s, [Idle EXCEPT !.op = "delete", !.images = {<<i, tx[i]>>},
                             !.todo = Touched(tx[i])])

(* updateTransactionInTx of an expense or income: the accounts are locked   *)
(* only when the balance is touched; otherwise the account named is read.   *)
Update(s, i, p) ==
    /\ InCategory(tx[i])
    /\ p # NoPatch
    /\ LET touched == p.amount # Keep \/ (p.from # Keep /\ p.from # tx[i].from)
       IN /\ ~touched => account[p.from].active
          /\ Begin(s, [Idle EXCEPT
                !.op = "update", !.images = {<<i, tx[i]>>}, !.patch = p,
                !.todo = IF touched THEN {tx[i].from, Patched(tx[i], p).from}
                         ELSE {}])

(* deleteCategory, mode cascade: the doomed transactions are read first. *)
DeleteCategory(s) ==
    /\ category
    /\ LET doomed == {i \in Ids : InCategory(tx[i])} IN
       Begin(s, [Idle EXCEPT !.op = "cascade",
                             !.images = {<<i, tx[i]>> : i \in doomed},
                             !.todo = {tx[i].from : i \in doomed}])

(* deactivateAccountInTx counts the account's transactions without a lock. *)
DeactivateAccount(s, a) ==
    /\ account[a].active
    /\ \A i \in Ids : tx[i].state = "active" => a \notin Touched(tx[i])
    /\ Begin(s, [Idle EXCEPT !.op = "deactivate", !.todo = {a}])

-----------------------------------------------------------------------------
(* Locks *)

(* Variant: accounts are locked in whatever order the request names them. *)
AnyOrder(s) == work[s].todo

Free(s, a) == \A r \in Sessions \ {s} : a \notin work[r].held

(* lockAccountsOrdered locks by id; the cascade row by row, in the order of *)
(* an unordered SELECT.                                                     *)
NextLocks(s) ==
    IF work[s].op = "cascade" THEN work[s].todo
    ELSE {a \in work[s].todo : \A b \in work[s].todo : a <= b}

Lock(s) ==
    /\ \E a \in NextLocks(s) :
          /\ Free(s, a)
          /\ work' = [work EXCEPT ![s].todo = @ \ {a},
                                  ![s].held = @ \cup {a},
                                  ![s].seen[a] = account[a].balance]
    /\ UNCHANGED <<account, tx, category, begun, stale>>

-----------------------------------------------------------------------------
(* Writes and COMMIT, once every lock is held *)

Ready(s, op) == work[s].op = op /\ work[s].todo = {}

After(s) ==
    IF work[s].op = "update"
    THEN {Patched(image[2], work[s].patch) : image \in work[s].images}
    ELSE {}

(* balance_cents = $2, computed from the balances and the rows read. *)
Reversed(s, a) ==
    work[s].seen[a]
      - SumFunction([image \in work[s].images |-> Effect(image[2], a)])
      + SumFunction([t \in After(s) |-> Effect(t, a)])

SetBalances(s) ==
    account' = [a \in Accounts |->
        IF a \in work[s].held
        THEN [account[a] EXCEPT !.balance = Reversed(s, a)] ELSE account[a]]

(* What the request writes over is no longer what it has read; a deletion   *)
(* only writes over a row that is still active.                             *)
Outdated(s) == \E image \in work[s].images : tx[image[1]] # image[2]
Edited(s) == \E image \in work[s].images :
                tx[image[1]].state = "active" /\ tx[image[1]] # image[2]

End(s) == work' = [work EXCEPT ![s] = Idle]

(* INSERT, and balance_cents = balance_cents + $2 for each leg. *)
CommitCreate(s) ==
    /\ Ready(s, "create")
    /\ LET t == work[s].new IN
       /\ t.kind = "expense" => category
       /\ t.kind # "income" => \A a \in Touched(t) : account[a].active
       /\ \E i \in Ids : tx[i].state = "free" /\ tx' = [tx EXCEPT ![i] = t]
       /\ account' = [a \in Accounts |-> [account[a] EXCEPT !.balance = @ + Effect(t, a)]]
    /\ End(s)
    /\ UNCHANGED <<category, begun, stale>>

(* Variant: the number of rows tombstoned is not looked at. *)
DeletableAlways(i) == TRUE

(* UPDATE ... WHERE deleted_at IS NULL has found the row. *)
Deletable(i) == tx[i].state = "active"

CommitDelete(s) ==
    /\ Ready(s, "delete")
    /\ \E image \in work[s].images :
          /\ Deletable(image[1])
          /\ tx' = [tx EXCEPT ![image[1]].state = "deleted"]
    /\ SetBalances(s)
    /\ stale' = (stale \/ Edited(s))
    /\ End(s)
    /\ UNCHANGED <<category, begun>>

(* The row is patched whatever has become of it since it was read. *)
CommitUpdate(s) ==
    /\ Ready(s, "update")
    /\ work[s].held # {} =>
         \A image \in work[s].images :
             account[Patched(image[2], work[s].patch).from].active
    /\ tx' = [i \in Ids |-> IF i \in {image[1] : image \in work[s].images}
                            THEN Patched(tx[i], work[s].patch) ELSE tx[i]]
    /\ SetBalances(s)
    /\ stale' = (stale \/ Outdated(s))
    /\ End(s)
    /\ UNCHANGED <<category, begun>>

(* Every transaction of the category that is active by then is tombstoned.  *)
CommitCascade(s) ==
    /\ Ready(s, "cascade")
    /\ tx' = [i \in Ids |-> IF InCategory(tx[i])
                            THEN [tx[i] EXCEPT !.state = "deleted"] ELSE tx[i]]
    /\ SetBalances(s)
    /\ stale' = (stale \/ Outdated(s) \/ \E i \in Ids :
                    InCategory(tx[i]) /\ <<i, tx[i]>> \notin work[s].images)
    /\ category' = FALSE
    /\ End(s)
    /\ UNCHANGED begun

CommitDeactivate(s) ==
    /\ Ready(s, "deactivate")
    /\ account' = [a \in Accounts |-> IF a \in work[s].held
                      THEN [account[a] EXCEPT !.active = FALSE] ELSE account[a]]
    /\ End(s)
    /\ UNCHANGED <<tx, category, begun, stale>>

(* A check that failed, a lock timeout, a deadlock victim, a crash. *)
Rollback(s) ==
    /\ work[s].op # "none"
    /\ End(s)
    /\ UNCHANGED <<account, tx, category, begun, stale>>

-----------------------------------------------------------------------------

Request(s) ==
    \/ \E a \in Accounts, m \in Amounts : CreateExpense(s, a, m) \/ CreateIncome(s, a, m)
    \/ \E a, b \in Accounts, m \in Amounts : CreateTransfer(s, a, b, m)
    \/ \E i \in Ids : SoftDelete(s, i)
    \/ \E i \in Ids, p \in Patch : Update(s, i, p)
    \/ DeleteCategory(s)
    \/ \E a \in Accounts : DeactivateAccount(s, a)

Next ==
    \E s \in Sessions :
        \/ Request(s)
        \/ Lock(s)
        \/ CommitCreate(s)
        \/ CommitDelete(s)
        \/ CommitUpdate(s)
        \/ CommitCascade(s)
        \/ CommitDeactivate(s)
        \/ Rollback(s)

Spec == Init /\ [][Next]_vars

-----------------------------------------------------------------------------
(* Properties *)

(* Every variable stays in its type, and a row that is not free has an      *)
(* amount and an account.                                                   *)
TypeOK ==
    /\ account \in [Accounts -> [balance : Int, active : BOOLEAN]]
    /\ tx \in [Ids -> Tx]
    /\ \A i \in Ids : tx[i].state # "free" => tx[i].amount # 0 /\ tx[i].from # Keep
    /\ category \in BOOLEAN
    /\ work \in [Sessions -> Work]
    /\ begun \in 0 .. MaxRequests
    /\ stale \in BOOLEAN

(* balance_cents == initial_balance_cents + movements (V058): what the      *)
(* balances say is what the active transactions say.                        *)
BalancesMatch == \A a \in Accounts : account[a].balance = Opening + Movements(a)

(* The row locks make every interleaving of creations, deletions, updates   *)
(* and cascades exact, except where a request wrote over a transaction that *)
(* had changed since it read it without a lock.                             *)
BalancesMatchUnlessStale == stale \/ BalancesMatch

WaitsFor(s, r) == \E a \in NextLocks(s) : a \in work[r].held

(* Requests that take their locks by lockAccountsOrdered never wait for     *)
(* each other in a circle: of any of them, one waits for none of the others.*)
OrderedNeverDeadlock ==
    \A S \in (SUBSET {q \in Sessions : work[q].op # "cascade"}) \ {{}} :
        \E s \in S : \A r \in S : s # r => ~WaitsFor(s, r)

(* An inactive account has no active transactions: the check of             *)
(* deactivateAccountInTx.                                                   *)
InactiveIsUnused ==
    \A i \in Ids : tx[i].state = "active" =>
        \A a \in Touched(tx[i]) : account[a].active

=============================================================================
