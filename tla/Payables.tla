------------------------------ MODULE Payables ------------------------------
(***************************************************************************)
(* The bills of a household: apps/api/src/payables/postgres.ts, with the   *)
(* transactions and the balances its payments write and the two requests   *)
(* of writes/postgres.ts that can reach those transactions, the deletion   *)
(* of a transaction and the cascade of a category.  A request is one READ  *)
(* COMMITTED transaction.  Paying and undoing a payment lock the bill      *)
(* before they read it; every other request reads without a lock, waits    *)
(* for the rows it updates and writes them whatever they have become.      *)
(*                                                                         *)
(* Payers are accounts of the kinds bank and cash which stay active;       *)
(* patches of transactions and deactivated accounts are in Ledger.         *)
(***************************************************************************)
EXTENDS BillingMonth, FiniteSets, Functions

CONSTANTS
    Bills,           \* ids of accounts_payable: numbers
    Postings,        \* ids of transactions: numbers
    Payers,          \* ids of accounts
    Prices,          \* amount_cents
    Names,           \* descriptions of bills and templates
    Nobody,          \* no bill, no transaction, no account
    Calendar,        \* the days on which something happens
    DaysAhead,       \* how far autoCreateFromTemplates looks
    StartingBills,   \* the bills one of which there is at first
    Templates,       \* the templates a household may have
    BillPatches,     \* the patches PATCH /payables/:id is called with
    Clerks,          \* requests in progress at a time
    MaxCalls         \* bound: requests begun

ASSUME HouseholdAssumption ==
    /\ Bills \subseteq Nat /\ Postings \subseteq Nat /\ IsFiniteSet(Postings)
    /\ Nobody \notin Bills \cup Postings \cup Payers
    /\ Prices \subseteq Nat \ {0} /\ Calendar \subseteq Nat /\ MaxCalls \in Nat
    /\ Prices # {} /\ Payers # {} /\ Names # {}

VARIABLES
    bill,       \* [Bills -> Bill]: committed rows of accounts_payable
    posting,    \* [Postings -> Posting]: committed rows of transactions
    funds,      \* [Payers -> Int]: balance_cents, from an opening of 0
    templates,  \* rows of payable_templates
    filing,     \* the category of the filed bills is active
    today,
    desk,       \* [Clerks -> Job]: the request each is serving
    calls,      \* requests begun so far
    wiped,      \* history: payments tombstoned by a cascade
    raced       \* history: a reversal was computed from rows changed since

payablesVars ==
    <<bill, posting, funds, templates, filing, today, desk, calls, wiped, raced>>

-----------------------------------------------------------------------------
(* State space *)

(* every: months between occurrences, 0 for a one_time bill; until: its end *)
(* date, 0 for none; filed: it has a category; paid: paid_amount_cents;     *)
(* payment: paid_transaction_id.                                            *)
Bill == [status  : {"free", "pending", "overdue", "paid", "cancelled"},
         name    : Names,
         price   : Prices,
         due     : Nat,
         payer   : Payers,
         every   : {0, 1, 3, 12},
         until   : Nat,
         filed   : BOOLEAN,
         paid    : Prices \cup {0},
         payment : Postings \cup {Nobody}]

Posting == [state : {"free", "active", "deleted"},
            price : Prices,
            payer : Payers,
            filed : BOOLEAN]

Template == [name : Names, price : Prices, payer : Payers,
             every : {1, 3, 12}, day : 1 .. 31]

Patching == [price : Prices \cup {0},
             due   : Nat,
             payer : Payers \cup {Nobody}]

(* The rows requests are called with are of their types, and a bill is *)
(* created unpaid.                                                     *)
ASSUME RequestsAssumption ==
    /\ \A row \in StartingBills : /\ row \in Bill /\ row.status = "pending"
                                   /\ row.paid = 0 /\ row.payment = Nobody
    /\ Templates \subseteq Template /\ BillPatches \subseteq Patching

AnyOne(S) == CHOOSE x \in S : TRUE

NoBill == [status |-> "free", name |-> AnyOne(Names), price |-> AnyOne(Prices),
           due |-> 0, payer |-> AnyOne(Payers), every |-> 0, until |-> 0,
           filed |-> FALSE, paid |-> 0, payment |-> Nobody]

NoPosting == [state |-> "free", price |-> AnyOne(Prices),
              payer |-> AnyOne(Payers), filed |-> FALSE]

Job == [op      : {"none", "pay", "unpay", "update", "delete", "cascade", "auto"},
        bill    : Bills \cup {Nobody},
        row     : Bill,                        \* the bill as it was read
        named   : Postings \cup {Nobody},      \* the transaction asked for
        seen    : BOOLEAN,                     \* the payment was active
        prepay  : BOOLEAN,
        patch   : Patching,
        images  : SUBSET Postings,             \* the transactions read
        todo    : SUBSET Template,
        fresh   : SUBSET Bill,                 \* rows inserted, uncommitted
        day     : Nat]

NoPatching == [price |-> 0, due |-> 0, payer |-> Nobody]

NoJob == [op |-> "none", bill |-> Nobody, row |-> NoBill, named |-> Nobody,
          seen |-> FALSE, prepay |-> FALSE, patch |-> NoPatching,
          images |-> {}, todo |-> {}, fresh |-> {}, day |-> 0]

-----------------------------------------------------------------------------
(* Dates *)

(* Variant: a day that is today's counts as past. *)
NextDueLate(day, d) ==
    IF OnDay(Month(d), day) <= d THEN OnDay(Month(d) + 1, day)
    ELSE OnDay(Month(d), day)

(* nextTemplateDue *)
NextDue(day, d) ==
    IF OnDay(Month(d), day) < d THEN OnDay(Month(d) + 1, day)
    ELSE OnDay(Month(d), day)

Lateness(due, d) == IF d <= due THEN "pending" ELSE "overdue"

-----------------------------------------------------------------------------
(* Rows *)

FreeBills == {b \in Bills : bill[b].status = "free"}
FreePostings == {e \in Postings : posting[e].state = "free"}

(* randomUUID: ids are never compared but for equality, and are given out   *)
(* in the order of the numbers.                                             *)
IsNew(x, free) == x \in Earliest(free)

Amount(S) == SumFunctionOnSet([e \in Postings |-> posting[e].price], S)

Linked(e) == \E b \in Bills : bill[b].payment = e

NewBill(name, price, due, payer, every, until, filed) ==
    [status |-> "pending", name |-> name, price |-> price, due |-> due,
     payer |-> payer, every |-> every, until |-> until, filed |-> filed,
     paid |-> 0, payment |-> Nobody]

BillOf(t, due) == NewBill(t.name, t.price, due, t.payer, t.every, 0, FALSE)

PayablesInit ==
    /\ \E row \in StartingBills :
          bill = [b \in Bills |-> IF IsNew(b, Bills) THEN row ELSE NoBill]
    /\ \E filed \in BOOLEAN, first \in Earliest(Postings) :
          posting = [e \in Postings |->
              IF e = first
              THEN [NoPosting EXCEPT !.state = "active", !.filed = filed]
              ELSE NoPosting]
    /\ funds = [a \in Payers |->
                  IF a = NoPosting.payer THEN -NoPosting.price ELSE 0]
    /\ templates \in {{}} \cup {{t} : t \in Templates}
    /\ filing = TRUE
    /\ today \in Earliest(Calendar)
    /\ desk = [c \in Clerks |-> NoJob]
    /\ calls = 0
    /\ wiped = {}
    /\ raced = FALSE

(* A request that reads, locks or waits before it writes *)
Takes(c, job) ==
    /\ desk[c].op = "none"
    /\ calls < MaxCalls
    /\ calls' = calls + 1
    /\ desk' = [desk EXCEPT ![c] = job]
    /\ UNCHANGED <<bill, posting, funds, templates, filing, today, wiped, raced>>

(* and one whose first statement that matters is its last. *)
AtOnce ==
    /\ calls < MaxCalls
    /\ calls' = calls + 1
    /\ UNCHANGED <<posting, funds, filing, today, desk, wiped, raced>>

Serving(c, op) == desk[c].op = op
Done(c) == desk' = [desk EXCEPT ![c] = NoJob]

(* Variant: SELECT without FOR UPDATE. *)
RowFreeAlways(b) == TRUE

(* No open transaction holds the lock of the bill. *)
RowFree(b) ==
    \A c \in Clerks : Serving(c, "pay") \/ Serving(c, "unpay") => desk[c].bill # b

-----------------------------------------------------------------------------
(* Creation *)

(* createPayable: pending, whatever the due date *)
CreateBill(row) ==
    /\ AtOnce
    /\ row.filed => filing
    /\ \E b \in Bills : IsNew(b, FreeBills) /\ bill' = [bill EXCEPT ![b] = row]
    /\ UNCHANGED templates

(* createPayableWithTemplate *)
CreateWithTemplate(t) ==
    /\ AtOnce
    /\ templates' = templates \cup {t}
    /\ \E b \in Bills, due \in Calendar :
          /\ IsNew(b, FreeBills)
          /\ Day(due) = t.day
          /\ bill' = [bill EXCEPT ![b] =
                [BillOf(t, due) EXCEPT !.status = Lateness(due, today)]]

CreateTemplate(t) ==
    /\ AtOnce
    /\ templates' = templates \cup {t}
    /\ UNCHANGED bill

CreateFromTemplate ==
    /\ AtOnce
    /\ \E t \in templates, due \in Calendar, b \in Bills :
          /\ IsNew(b, FreeBills)
          /\ bill' = [bill EXCEPT ![b] = BillOf(t, due)]
    /\ UNCHANGED templates

(* autoCreateFromTemplates looks at one template after the other. *)
AutoCreate(c) ==
    Takes(c, [NoJob EXCEPT !.op = "auto", !.todo = templates, !.day = today])

Missing(c, t, due) ==
    \A row \in {bill[b] : b \in Bills \ FreeBills} \cup desk[c].fresh :
        row.name = t.name => row.due # due

AutoCheck(c) ==
    /\ Serving(c, "auto")
    /\ \E t \in desk[c].todo :
          LET due == NextDue(t.day, desk[c].day)
              wanted == /\ DayNumber(due) <= DayNumber(desk[c].day) + DaysAhead
                        /\ Missing(c, t, due)
          IN desk' = [desk EXCEPT ![c].todo = @ \ {t},
                 ![c].fresh = IF wanted THEN @ \cup {BillOf(t, due)} ELSE @]
    /\ UNCHANGED <<bill, posting, funds, templates, filing, today, calls, wiped, raced>>

AutoCommit(c) ==
    /\ Serving(c, "auto")
    /\ desk[c].todo = {}
    /\ \E place \in [desk[c].fresh -> FreeBills] :
          /\ \A x, y \in desk[c].fresh : place[x] = place[y] => x = y
          /\ \A b \in FreeBills, x \in desk[c].fresh :
                b < place[x] => \E y \in desk[c].fresh : b = place[y]
          /\ bill' = [b \in Bills |->
                IF \E x \in desk[c].fresh : place[x] = b
                THEN CHOOSE x \in desk[c].fresh : place[x] = b ELSE bill[b]]
    /\ Done(c)
    /\ UNCHANGED <<posting, funds, templates, filing, today, calls, wiped, raced>>

-----------------------------------------------------------------------------
(* Payment *)

(* SELECT ... FOR UPDATE, and the status under the lock *)
Pay(c, b, prepay) ==
    /\ RowFree(b)
    /\ bill[b].status \in {"pending", "overdue"}
    /\ Takes(c, [NoJob EXCEPT !.op = "pay", !.bill = b, !.row = bill[b],
                              !.prepay = prepay])

Recurs(job) ==
    /\ job.row.every # 0
    /\ ~job.prepay
    /\ job.row.until # 0 => AddMonths(job.row.due, job.row.every) <= job.row.until

Successor(row) ==
    NewBill(row.name, row.price, AddMonths(row.due, row.every), row.payer,
            row.every, row.until, row.filed)

PayCommit(c) ==
    /\ Serving(c, "pay")
    /\ LET job == desk[c]
           row == job.row
       IN \E e \in Postings :
          LET settled == [bill EXCEPT ![job.bill].status = "paid",
                                      ![job.bill].paid = bill[job.bill].price,
                                      ![job.bill].payment = e]
          IN /\ IsNew(e, FreePostings)
             /\ posting' = [posting EXCEPT ![e] =
                   [state |-> "active", price |-> row.price, payer |-> row.payer,
                    filed |-> row.filed]]
             /\ funds' = [funds EXCEPT ![row.payer] = @ - row.price]
             /\ \/ /\ Recurs(job)
                   /\ \E b \in Bills : /\ IsNew(b, FreeBills)
                                        /\ bill' = [settled EXCEPT ![b] = Successor(row)]
                \/ /\ ~Recurs(job)
                   /\ bill' = settled
    /\ Done(c)
    /\ UNCHANGED <<templates, filing, today, calls, wiped, raced>>

(* Variant: the transaction the caller names is not compared. *)
NamedAny(b, t) == TRUE

(* expectedPaidTransactionId, which a caller may leave out *)
Named(b, t) == t = Nobody \/ bill[b].payment = t

(* undoPayablePayment locks the bill and reads its payment without a lock.  *)
(* A caller names a transaction it was told of, or none.                    *)
Unpay(c, b, t) ==
    /\ RowFree(b)
    /\ bill[b].status = "paid"
    /\ t \notin FreePostings
    /\ Named(b, t)
    /\ Takes(c, [NoJob EXCEPT !.op = "unpay", !.bill = b, !.row = bill[b],
                     !.named = t,
                     !.seen = posting[bill[b].payment].state = "active"])

(* Variant: what the bill says is given back, not what was taken. *)
RefundOfBill(job) ==
    [payer |-> bill[job.bill].payer,
     price |-> IF job.seen THEN bill[job.bill].price ELSE 0]

Refund(job) ==
    [payer |-> posting[job.row.payment].payer,
     price |-> IF job.seen THEN posting[job.row.payment].price ELSE 0]

UnpayCommit(c) ==
    /\ Serving(c, "unpay")
    /\ LET job == desk[c]
           e == job.row.payment
       IN /\ bill' = [bill EXCEPT ![job.bill].status = Lateness(job.row.due, today),
                                  ![job.bill].paid = 0,
                                  ![job.bill].payment = Nobody]
          /\ funds' = [funds EXCEPT ![Refund(job).payer] = @ + Refund(job).price]
          /\ posting' = [posting EXCEPT ![e].state = "deleted"]
          /\ raced' = (raced \/ (job.seen /\ posting[e].state # "active"))
    /\ Done(c)
    /\ UNCHANGED <<templates, filing, today, calls, wiped>>

-----------------------------------------------------------------------------
(* The other updates of a bill *)

(* cancelPayable: no lock, no look at the status *)
Cancel(b) ==
    /\ AtOnce
    /\ bill[b].status # "free"
    /\ RowFree(b)
    /\ bill' = [bill EXCEPT ![b].status = "cancelled"]
    /\ UNCHANGED templates

(* updatePayable: the status is read without a lock, and is left alone. *)
UpdateBill(c, b, patch) ==
    /\ bill[b].status \notin {"free", "cancelled"}
    /\ patch # NoPatching
    /\ Takes(c, [NoJob EXCEPT !.op = "update", !.bill = b, !.patch = patch])

(* Variant: a field the patch leaves out is overwritten. *)
Overwritten(old, new, none) == new

(* COALESCE *)
Patched(old, new, none) == IF new = none THEN old ELSE new

UpdateBillCommit(c) ==
    /\ Serving(c, "update")
    /\ LET b == desk[c].bill
           patch == desk[c].patch
       IN /\ RowFree(b)
          /\ bill' = [bill EXCEPT
                ![b].price = Patched(@, patch.price, 0),
                ![b].due = Patched(@, patch.due, 0),
                ![b].payer = Patched(@, patch.payer, Nobody)]
    /\ Done(c)
    /\ UNCHANGED <<posting, funds, templates, filing, today, calls, wiped, raced>>

(* refreshPayableStatus: one UPDATE, which waits for the rows it matches *)
Refresh ==
    /\ AtOnce
    /\ LET late == {b \in Bills : bill[b].status = "pending" /\ bill[b].due < today}
       IN /\ \A b \in late : RowFree(b)
          /\ bill' = [b \in Bills |-> IF b \in late
                        THEN [bill[b] EXCEPT !.status = "overdue"] ELSE bill[b]]
    /\ UNCHANGED templates

-----------------------------------------------------------------------------
(* The write store *)

(* softDeleteTransactionInTx *)
DeletePosting(c, e) ==
    /\ posting[e].state = "active"
    /\ ~Linked(e)                          \* assertNotLinkedToPaidPayable
    /\ Takes(c, [NoJob EXCEPT !.op = "delete", !.images = {e}])

(* deleteCategory, mode cascade: no look at the bills *)
DropCategory(c) ==
    /\ filing
    /\ Takes(c, [NoJob EXCEPT !.op = "cascade", !.images =
                    {e \in Postings : posting[e].state = "active" /\ posting[e].filed}])

GiveBack(c) ==
    funds' = [a \in Payers |-> funds[a] + Amount({e \in desk[c].images : posting[e].payer = a})]

DeleteCommit(c) ==
    /\ Serving(c, "delete")
    /\ \A e \in desk[c].images : posting[e].state = "active"
    /\ posting' = [e \in Postings |-> IF e \in desk[c].images
                     THEN [posting[e] EXCEPT !.state = "deleted"] ELSE posting[e]]
    /\ GiveBack(c)
    /\ Done(c)
    /\ UNCHANGED <<bill, templates, filing, today, calls, wiped, raced>>

DropCategoryCommit(c) ==
    /\ Serving(c, "cascade")
    /\ LET doomed == {e \in Postings : posting[e].state = "active" /\ posting[e].filed}
       IN /\ posting' = [e \in Postings |-> IF e \in doomed
                           THEN [posting[e] EXCEPT !.state = "deleted"] ELSE posting[e]]
          /\ wiped' = wiped \cup doomed
          /\ raced' = (raced \/ doomed # desk[c].images)
    /\ GiveBack(c)
    /\ filing' = FALSE
    /\ Done(c)
    /\ UNCHANGED <<bill, templates, today, calls>>

-----------------------------------------------------------------------------

DayPasses ==
    /\ \E d \in Calendar : d > today /\ today' = d
    /\ UNCHANGED <<bill, posting, funds, templates, filing, desk, calls, wiped, raced>>

(* A check that failed, a lock timeout, a crash *)
GiveUp(c) ==
    /\ desk[c].op # "none"
    /\ Done(c)
    /\ UNCHANGED <<bill, posting, funds, templates, filing, today, calls, wiped, raced>>

Call(c) ==
    \/ \E b \in Bills, prepay \in BOOLEAN : Pay(c, b, prepay)
    \/ \E b \in Bills, t \in Postings \cup {Nobody} : Unpay(c, b, t)
    \/ \E b \in Bills, patch \in BillPatches : UpdateBill(c, b, patch)
    \/ \E e \in Postings : DeletePosting(c, e)
    \/ DropCategory(c)
    \/ AutoCreate(c)

PayablesNext ==
    \/ \E row \in StartingBills : CreateBill(row)
    \/ \E t \in Templates : CreateWithTemplate(t) \/ CreateTemplate(t)
    \/ CreateFromTemplate
    \/ \E b \in Bills : Cancel(b)
    \/ Refresh
    \/ DayPasses
    \/ \E c \in Clerks :
          \/ Call(c)
          \/ AutoCheck(c)
          \/ AutoCommit(c)
          \/ PayCommit(c)
          \/ UnpayCommit(c)
          \/ UpdateBillCommit(c)
          \/ DeleteCommit(c)
          \/ DropCategoryCommit(c)
          \/ GiveUp(c)

PayablesSpec == PayablesInit /\ [][PayablesNext]_payablesVars

-----------------------------------------------------------------------------
(* Properties *)

(* Every variable stays in its type. *)
PayablesTypeOK ==
    /\ bill \in [Bills -> Bill]
    /\ posting \in [Postings -> Posting]
    /\ funds \in [Payers -> Int]
    /\ templates \subseteq Template
    /\ filing \in BOOLEAN
    /\ today \in Nat
    /\ desk \in [Clerks -> Job]
    /\ calls \in Nat
    /\ wiped \subseteq Postings
    /\ raced \in BOOLEAN

PaymentOf(b) == posting[bill[b].payment]

(* A payment is booked exactly once: a paid bill has a transaction of its   *)
(* own, for the amount it says was paid, active unless a cascade has        *)
(* removed it, and an unpaid bill has none - however payments, undos,       *)
(* cancellations and deletions overlap.  Only a cancellation can leave a    *)
(* payment on a bill that is not paid.                                      *)
PaymentIsBookedOnce ==
    /\ \A b \in Bills :
          /\ bill[b].status = "paid" => bill[b].payment # Nobody
          /\ bill[b].payment # Nobody =>
                /\ bill[b].status \in {"paid", "cancelled"}
                /\ bill[b].paid = PaymentOf(b).price
                /\ PaymentOf(b).state = "active" \/ bill[b].payment \in wiped
    /\ \A b, d \in Bills : bill[b].payment = bill[d].payment =>
          b = d \/ bill[b].payment = Nobody

Spent(a) == Amount({e \in Postings : posting[e].state = "active" /\ posting[e].payer = a})

(* Every payment is taken from one account once and given back to it once,  *)
(* whatever became of the bill in between, unless a cascade and another     *)
(* reversal of the same transaction overlapped.                             *)
FundsMatchUnlessRaced == raced \/ \A a \in Payers : funds[a] = -Spent(a)

(* A transaction that a bill links to is tombstoned only by a cascade, or   *)
(* by an undo whose caller named it: a late or repeated undo never reverses *)
(* the payment that came after the one it means, and a deletion none.       *)
OnlyNamedPaymentsUndone ==
    [][\A e \in Postings :
          Linked(e) /\ posting[e].state = "active" /\ posting'[e].state = "deleted" =>
              \/ e \in wiped'
              \/ \E c \in Clerks : /\ Serving(c, "unpay")
                                   /\ desk[c].named \in {e, Nobody}]_payablesVars

(* A bill made from a template is due on the first day that is both not     *)
(* before the day it was made and the template's day of its month, or the   *)
(* month's last when it is shorter: none is due in the past, and no         *)
(* occurrence is passed over at the end of a month or a year.               *)
TemplateBillsAreNext ==
    \A c \in Clerks : \A row \in desk[c].fresh : \E t \in templates :
        /\ row.name = t.name
        /\ row.due \in Earliest({d \in desk[c].day .. desk[c].day + 200 :
              Day(d) \in 1 .. DaysIn(Month(d))
                /\ (Day(d) = t.day \/ (Day(d) < t.day /\ Day(d) = DaysIn(Month(d))))})

=============================================================================
