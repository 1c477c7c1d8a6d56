------------------------------- MODULE Cards -------------------------------
(***************************************************************************)
(* The statements of a credit card: apps/api/src/cards/postgres.ts, with   *)
(* the two requests of writes/postgres.ts that reach a card's transactions *)
(* and know nothing of statements, the deletion of a transaction and the   *)
(* cascade of a category.  A request is one READ COMMITTED transaction: it *)
(* reads, takes its row locks one after the other, and writes; its writes  *)
(* are seen by others, and its locks go, when it commits.                  *)
(*                                                                         *)
(* There is one card, whose purchases are all in one category; its account *)
(* and those of the payers stay active.  A charge is a transaction, with   *)
(* the row of card_purchases that mirrors a purchase.                      *)
(***************************************************************************)
EXTENDS BillingMonth, Sequences, FiniteSets, Functions

CONSTANTS
    Cycles,          \* months for which there may be a statement
    Charges,         \* ids of transactions: numbers above those of Cycles
    Costs,           \* amount_cents
    Purses,          \* accounts that pay statements
    Plastic,         \* the account of the card
    Absent,          \* no transaction, no account
    Dates,           \* the days on which something happens
    ClosingDays,     \* values of closing_day
    DueDays,         \* values of due_day
    Splits,          \* values of installmentsTotal
    Tellers,         \* requests in progress at a time
    MaxVisits        \* bound: requests begun

ASSUME RowsAssumption ==
    /\ Cycles \subseteq Nat \ {0} /\ Charges \subseteq Nat /\ Cycles \cap Charges = {}
    /\ IsFiniteSet(Charges)
    /\ Purses \cap (Cycles \cup Charges) = {} /\ Plastic \notin Cycles \cup Charges \cup Purses
    /\ Absent \notin Charges \cup Purses
ASSUME TermsAssumption ==
    /\ Dates \subseteq Nat /\ ClosingDays \subseteq 1 .. 31 /\ DueDays \subseteq 1 .. 31
    /\ Costs \subseteq Nat \ {0} /\ Splits \subseteq Nat \ {0} /\ MaxVisits \in Nat
    /\ IsFiniteSet(Tellers)

VARIABLES
    statement,  \* [Cycles -> Statement]: committed rows of statements
    charge,     \* [Charges -> Charge]: committed rows of transactions
    card,       \* the row of the card in accounts
    purse,      \* [Purses -> Int]: balance_cents, from an opening of 0
    date,       \* today
    till,       \* [Tellers -> Visit]: the request each is serving
    visits      \* requests begun so far

cardsVars == <<statement, charge, card, purse, date, till, visits>>

-----------------------------------------------------------------------------
(* State space *)

Statement == [status  : {"none", "open", "partial", "closed", "overdue", "paid"},
              closing : Nat, due : Nat, total : Nat, paid : Nat]

(* mirror: amount_cents of the row of card_purchases, 0 when it is deleted *)
Charge == [state  : {"free", "active", "deleted"},
           kind   : {"purchase", "payment"},
           cost   : Nat,
           cycle  : Cycles \cup {0},
           payer  : Purses \cup {Absent},
           mirror : Nat]

Parcels == [cycle : Cycles, closing : Nat, due : Nat, cost : Nat]

Locks == Cycles \cup Charges \cup Purses \cup {Plastic}

Visit == [op      : {"none", "buy", "pay", "cancel", "edit", "delete", "sweep"},
          parcels : Seq(Parcels),
          charge  : Charges \cup {Absent},
          cycle   : Cycles \cup {0},
          cost    : Nat,
          payer   : Purses \cup {Absent},
          images  : SUBSET (Charges \X Nat),   \* charges read, and their cost
          wants   : Seq(Locks),                \* rows still to lock
          held    : SUBSET Locks]              \* rows locked

NoStatement == [status |-> "none", closing |-> 0, due |-> 0, total |-> 0, paid |-> 0]

NoCharge == [state |-> "free", kind |-> "purchase", cost |-> 0, cycle |-> 0,
             payer |-> Absent, mirror |-> 0]

NoVisit == [op |-> "none", parcels |-> <<>>, charge |-> Absent, cycle |-> 0,
            cost |-> 0, payer |-> Absent, images |-> {}, wants |-> <<>>, held |-> {}]

-----------------------------------------------------------------------------
(* Cycles *)

(* getClosingDate, getDueDate *)
ClosingDate(d, day) ==
    IF Day(d) > day THEN OnDay(Month(d) + 1, day) ELSE OnDay(Month(d), day)

DueDate(closing, day) ==
    IF day <= Day(closing) THEN OnDay(Month(closing) + 1, day)
    ELSE OnDay(Month(closing), day)

ComputeStatus(s, d) ==
    CASE s.paid >= s.total -> "paid"
      [] s.paid < s.total /\ s.paid > 0 -> IF d > s.due THEN "overdue" ELSE "partial"
      [] OTHER -> IF d > s.due THEN "overdue"
                  ELSE IF d >= s.closing THEN "closed" ELSE "open"

ParcelOf(d, n, total, i) ==
    LET closing == ClosingDate(AddMonths(d, i - 1), card.closing)
    IN [cycle |-> Month(closing), closing |-> closing,
        due |-> DueDate(closing, card.due), cost |-> Parcel(total, n, i)]

-----------------------------------------------------------------------------
(* Rows *)

Purchases(rows, c) ==
    {x \in Charges : rows[x].state = "active" /\ rows[x].kind = "purchase"
                                              /\ rows[x].cycle = c}

Unused == {x \in Charges : charge[x].state = "free"}

(* randomUUID: ids are never compared but for equality, and are given out   *)
(* in the order of the numbers.                                             *)
NextUnused(n) == {x \in Unused : Cardinality({y \in Unused : y <= x}) <= n}

Total(rows, S) == SumFunctionOnSet([x \in Charges |-> rows[x].cost], S)

(* recalcStatementLockedTx *)
Recalculated(s, total) ==
    [s EXCEPT !.total = total,
              !.status = ComputeStatus([s EXCEPT !.total = total], date)]

Bought(p) == [state |-> "active", kind |-> "purchase", cost |-> p.cost,
              cycle |-> p.cycle, payer |-> Absent, mirror |-> p.cost]

Paid(c, a, cost) == [state |-> "active", kind |-> "payment", cost |-> cost,
                     cycle |-> c, payer |-> a, mirror |-> 0]

(* One purchase has been made, today, and perhaps part of it paid for. *)
CardsInit ==
    /\ date \in Earliest(Dates)
    /\ \E closing \in ClosingDays, due \in DueDays, cost \in Costs, a \in Purses :
       \E paid \in {0} \cup {k \in Costs : k <= cost},
          bought \in Earliest(Charges) : \E receipt \in Earliest(Charges \ {bought}) :
          LET closes == ClosingDate(date, closing)
              p == [cycle |-> Month(closes), cost |-> cost]
              s == [NoStatement EXCEPT !.closing = closes, !.due = DueDate(closes, due),
                                       !.total = cost, !.paid = paid]
          IN
          /\ p.cycle \in Cycles
          /\ card = [closing |-> closing, due |-> due, balance |-> paid]
          /\ charge = [x \in Charges |->
                IF x = bought THEN Bought(p)
                ELSE IF x = receipt /\ paid > 0 THEN Paid(p.cycle, a, paid)
                ELSE NoCharge]
          /\ statement = [c \in Cycles |->
                IF c = p.cycle THEN [s EXCEPT !.status = ComputeStatus(s, date)]
                ELSE NoStatement]
          /\ purse = [b \in Purses |-> IF b = a THEN -paid ELSE 0]
    /\ till = [s \in Tellers |-> NoVisit]
    /\ visits = 0

(* BEGIN, and what is read without a lock *)
Arrive(s, visit) ==
    /\ till[s].op = "none"
    /\ visits < MaxVisits
    /\ visits' = visits + 1
    /\ till' = [till EXCEPT ![s] = visit]
    /\ UNCHANGED <<statement, charge, card, purse, date>>

Lockable(s, l) == \A r \in Tellers \ {s} : l \notin till[r].held

TakeLock(s) ==
    /\ till[s].wants # <<>>
    /\ Lockable(s, Head(till[s].wants))
    /\ till' = [till EXCEPT ![s].held = @ \cup {Head(till[s].wants)},
                            ![s].wants = Tail(@)]
    /\ UNCHANGED <<statement, charge, card, purse, date, visits>>

Granted(s, op) == till[s].op = op /\ till[s].wants = <<>>

(* COMMIT or ROLLBACK *)
Leave(s) == till' = [till EXCEPT ![s] = NoVisit]

-----------------------------------------------------------------------------
(* Purchases *)

(* The statement of every parcel is found or inserted, and locked, in turn: *)
(* the unique index makes an insert wait for another of the same cycle.     *)
Buy(s, d, n, total) ==
    LET parcels == [i \in 1 .. n |-> ParcelOf(d, n, total, i)] IN
    /\ \A i \in 1 .. n : parcels[i].cycle \in Cycles
    /\ Arrive(s, [NoVisit EXCEPT !.op = "buy", !.parcels = parcels,
                                 !.wants = [i \in 1 .. n |-> parcels[i].cycle]])

CreateCardPurchase(s, d, cost) == Buy(s, d, 1, cost)
CreateCardInstallments(s, d, n, cost) == Buy(s, d, n, cost)

(* INSERT ... ON CONFLICT DO NOTHING *)
FindOrCreate(s, c) ==
    IF statement[c].status # "none" THEN statement[c]
    ELSE LET first == CHOOSE i \in DOMAIN till[s].parcels : till[s].parcels[i].cycle = c
         IN [NoStatement EXCEPT !.status = "open",
                                !.closing = till[s].parcels[first].closing,
                                !.due = till[s].parcels[first].due]

CommitBuy(s) ==
    /\ Granted(s, "buy")
    /\ LET parcels == till[s].parcels
           billed == {parcels[i].cycle : i \in DOMAIN parcels}
           ids == NextUnused(Len(parcels))
           nth(x) == Cardinality({y \in ids : y <= x})
       IN /\ Cardinality(ids) = Len(parcels)
          /\ charge' = [x \in Charges |-> IF x \in ids THEN Bought(parcels[nth(x)])
                                         ELSE charge[x]]
          /\ statement' = [c \in Cycles |->
                IF c \in billed
                THEN Recalculated(FindOrCreate(s, c), Total(charge', Purchases(charge', c)))
                ELSE statement[c]]
    /\ Leave(s)
    /\ UNCHANGED <<card, purse, date, visits>>

(* Variant: cancelPurchaseInTx and updatePurchase do not look at the status. *)
OpenAlways(c) == TRUE

(* The status as it is stored, under the lock of the statement *)
Open(c) == statement[c].status = "open"

(* Variant: the transaction is locked before its statement (before F5). *)
LedgerFirst(op, x) ==
    IF op = "edit" THEN <<x, charge[x].cycle>> ELSE <<charge[x].cycle, x>>

StatementFirst(op, x) == <<charge[x].cycle, x>>

(* The purchase is peeked at, to find its statement. *)
Peek(s, op, x, cost) ==
    /\ charge[x].state = "active" /\ charge[x].kind = "purchase"
    /\ Arrive(s, [NoVisit EXCEPT !.op = op, !.charge = x, !.cost = cost,
                     !.cycle = charge[x].cycle, !.wants = StatementFirst(op, x)])

CancelPurchase(s, x) == Peek(s, "cancel", x, 0)
UpdatePurchase(s, x, cost) == Peek(s, "edit", x, cost)

(* Variant: the mirror is left as it was. *)
EditedLedgerOnly(s) == [charge[till[s].charge] EXCEPT !.cost = till[s].cost]

(* What is written to the purchase, in the ledger and in its mirror *)
CancelledCharge(s) == [charge[till[s].charge] EXCEPT !.state = "deleted", !.mirror = 0]
EditedCharge(s) == [charge[till[s].charge] EXCEPT !.cost = till[s].cost,
                                                  !.mirror = till[s].cost]

Rewrite(s, row) ==
    LET x == till[s].charge
        c == till[s].cycle
    IN /\ Open(c)
       /\ charge[x].state = "active"
       /\ charge' = [charge EXCEPT ![x] = row]
       /\ statement' = [statement EXCEPT ![c] =
             Recalculated(@, Total(charge', Purchases(charge', c)))]
       /\ Leave(s)
       /\ UNCHANGED <<card, purse, date, visits>>

CommitCancel(s) == Granted(s, "cancel") /\ Rewrite(s, CancelledCharge(s))
CommitEdit(s) == Granted(s, "edit") /\ Rewrite(s, EditedCharge(s))

-----------------------------------------------------------------------------
(* Payments *)

(* The statement is locked, then the payer, and last the card by an UPDATE. *)
PayStatement(s, c, a, cost) ==
    /\ statement[c].status # "none"
    /\ Arrive(s, [NoVisit EXCEPT !.op = "pay", !.cycle = c, !.payer = a,
                                 !.cost = cost, !.wants = <<c, a, Plastic>>])

Remaining(c) == statement[c].total - statement[c].paid

PaidIn(s, cost) ==
    [s EXCEPT !.paid = @ + cost,
              !.status = ComputeStatus([s EXCEPT !.paid = @ + cost], date)]

CommitPay(s) ==
    /\ Granted(s, "pay")
    /\ LET c == till[s].cycle
           a == till[s].payer
           cost == till[s].cost
       IN /\ Remaining(c) > 0
          /\ cost <= Remaining(c)
          /\ statement' = [statement EXCEPT ![c] = PaidIn(@, cost)]
          /\ purse' = [purse EXCEPT ![a] = @ - cost]
          /\ card' = [card EXCEPT !.balance = @ + cost]
          /\ \E x \in NextUnused(1) :
                charge' = [charge EXCEPT ![x] = Paid(c, a, cost)]
    /\ Leave(s)
    /\ UNCHANGED <<date, visits>>

-----------------------------------------------------------------------------
(* The card, and the requests that do not know of statements *)

(* updateCard: the statements there are keep their dates. *)
UpdateCard(closing, due) ==
    /\ visits < MaxVisits
    /\ visits' = visits + 1
    /\ \A s \in Tellers : Plastic \notin till[s].held
    /\ card' = [card EXCEPT !.closing = closing, !.due = due]
    /\ UNCHANGED <<statement, charge, purse, date, till>>

AccountOf(x) == IF charge[x].kind = "payment" THEN charge[x].payer ELSE Plastic

(* softDeleteTransactionInTx *)
DeleteCharge(s, x) ==
    /\ charge[x].state = "active"
    /\ Arrive(s, [NoVisit EXCEPT !.op = "delete", !.images = {<<x, charge[x].cost>>},
                                 !.wants = <<AccountOf(x), x>>])

(* deleteCategory, mode cascade *)
SweepCategory(s) ==
    LET doomed == {x \in Charges : charge[x].state = "active" /\ charge[x].kind = "purchase"}
    IN /\ doomed # {}
       /\ Arrive(s, [NoVisit EXCEPT !.op = "sweep", !.wants = <<Plastic>>,
                        !.images = {<<x, charge[x].cost>> : x \in doomed}])

(* reverseBalanceForDelete, for what was read *)
Restore(s) ==
    LET back(a) == SumFunctionOnSet([image \in till[s].images |-> image[2]],
                       {image \in till[s].images : AccountOf(image[1]) = a})
    IN /\ card' = [card EXCEPT !.balance = @ + back(Plastic)]
       /\ purse' = [a \in Purses |-> purse[a] + back(a)]

Tombstone(S) ==
    charge' = [x \in Charges |-> IF x \in S THEN [charge[x] EXCEPT !.state = "deleted"]
                                 ELSE charge[x]]

(* Variant: the number of rows tombstoned is not looked at. *)
StillThereAlways(x) == TRUE

StillThere(x) == charge[x].state = "active"

CommitDeleteCharge(s) ==
    /\ Granted(s, "delete")
    /\ \A image \in till[s].images : StillThere(image[1])
    /\ Tombstone({image[1] : image \in till[s].images})
    /\ Restore(s)
    /\ Leave(s)
    /\ UNCHANGED <<statement, date, visits>>

CommitSweep(s) ==
    /\ Granted(s, "sweep")
    /\ LET doomed == {x \in Charges : charge[x].state = "active" /\ charge[x].kind = "purchase"}
       IN /\ \A x \in doomed : Lockable(s, x)
          /\ Tombstone(doomed)
    /\ Restore(s)
    /\ Leave(s)
    /\ UNCHANGED <<statement, date, visits>>

-----------------------------------------------------------------------------

NextDate ==
    /\ \E d \in Dates : d > date /\ date' = d
    /\ UNCHANGED <<statement, charge, card, purse, till, visits>>

(* A check that failed, a lock timeout, a crash *)
Abort(s) ==
    /\ till[s].op # "none"
    /\ Leave(s)
    /\ UNCHANGED <<statement, charge, card, purse, date, visits>>

AtCounter(s) ==
    \/ \E d \in Dates, cost \in Costs :
          \/ CreateCardPurchase(s, d, cost)
          \/ \E n \in Splits : CreateCardInstallments(s, d, n, cost)
    \/ \E x \in Charges : CancelPurchase(s, x) \/ DeleteCharge(s, x)
    \/ \E x \in Charges, cost \in Costs : UpdatePurchase(s, x, cost)
    \/ \E c \in Cycles, a \in Purses, cost \in Costs : PayStatement(s, c, a, cost)
    \/ SweepCategory(s)

CardsNext ==
    \/ \E closing \in ClosingDays, due \in DueDays : UpdateCard(closing, due)
    \/ NextDate
    \/ \E s \in Tellers :
          \/ AtCounter(s)
          \/ TakeLock(s)
          \/ CommitBuy(s)
          \/ CommitCancel(s)
          \/ CommitEdit(s)
          \/ CommitPay(s)
          \/ CommitDeleteCharge(s)
          \/ CommitSweep(s)
          \/ Abort(s)

CardsSpec == CardsInit /\ [][CardsNext]_cardsVars

-----------------------------------------------------------------------------
(* Properties *)

(* Every variable stays in its type. *)
CardsTypeOK ==
    /\ statement \in [Cycles -> Statement]
    /\ charge \in [Charges -> Charge]
    /\ card \in [closing : ClosingDays, due : DueDays, balance : Int]
    /\ purse \in [Purses -> Int]
    /\ date \in Dates
    /\ till \in [Tellers -> Visit]
    /\ visits \in 0 .. MaxVisits

(* Purchases removed by a request that knows nothing of statements: their   *)
(* mirror is still there.                                                   *)
Orphans(c) == {x \in Charges : charge[x].state = "deleted" /\ charge[x].cycle = c
                                                           /\ charge[x].mirror # 0}

(* Overlapping purchases, instalments, edits and cancellations lose none of *)
(* each other: the total of a statement is the sum of its purchases, more   *)
(* only by purchases that the ledger has removed behind its back, and the   *)
(* mirror of a purchase says what the purchase says.                        *)
TotalsLoseNothing ==
    /\ \A c \in Cycles :
          \E S \in SUBSET Orphans(c) :
              statement[c].total = Total(charge, Purchases(charge, c) \cup S)
    /\ \A x \in Charges : charge[x].state = "active" /\ charge[x].kind = "purchase" =>
          charge[x].mirror = charge[x].cost

(* However payments, edits and cancellations overlap, a statement is never  *)
(* paid more than it asks for, unless the ledger has removed one of its     *)
(* purchases.                                                               *)
NeverOverpaid ==
    \A c \in Cycles : statement[c].paid <= statement[c].total \/ Orphans(c) # {}

Payments(c) == {x \in Charges : charge[x].state # "free" /\ charge[x].cycle = c
                                                         /\ charge[x].kind = "payment"}

Spendings(a) == {x \in Charges : charge[x].state = "active" /\ charge[x].payer = a}

(* Every payment is counted once on its statement and taken once from its   *)
(* payer, and given back once when it is deleted, however many requests pay *)
(* the statement, and delete the payment, at a time.                        *)
PaymentsBookedOnce ==
    /\ \A c \in Cycles : statement[c].paid = Total(charge, Payments(c))
    /\ \A a \in Purses : purse[a] = -Total(charge, Spendings(a))

(* r waits for a row that s has locked. *)
Blocks(s, r) == till[r].wants # <<>> /\ Head(till[r].wants) \in till[s].held

(* The lock order statement, account, transaction (F5): the requests of a   *)
(* card never wait for each other in a circle: of any of them, one waits    *)
(* for none of the others.                                                  *)
CardsNeverDeadlock ==
    \A S \in (SUBSET Tellers) \ {{}} :
        \E r \in S : \A s \in S : s # r => ~Blocks(s, r)

=============================================================================
