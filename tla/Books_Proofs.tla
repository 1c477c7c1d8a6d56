---------------------------- MODULE Books_Proofs ----------------------------
(***************************************************************************)
(* The invariants of the statements of a card and of the bills of a        *)
(* household, for any ids, prices, dates, requests and bounds.             *)
(*                                                                         *)
(* Cards: every request queues for its locks in one order, which makes a   *)
(* deadlock impossible; a request that holds a row has it as it read it,   *)
(* which makes the totals and the payments hold.                           *)
(*                                                                         *)
(* Payables: only paying and undoing lock the bill they read.  What the    *)
(* other requests read may change before they write; the invariant says    *)
(* which of it cannot, and that is enough.                                 *)
(***************************************************************************)
EXTENDS MCBooks, SumTheorems

-----------------------------------------------------------------------------
(* Dates *)

LEMMA DaysInIs == \A m : DaysIn(m) \in 28 .. 31
<1>1. {28, 29, 30, 31} \subseteq 28 .. 31
  OBVIOUS
<1>2. \A m : DaysIn(m) \in {28, 29, 30, 31}
  BY DEF DaysIn
<1> QED BY <1>1, <1>2

(* A date by its parts *)
LEMMA DateParts ==
    ASSUME NEW m \in Int, NEW day \in 0 .. 99
    PROVE  Month(100 * m + day) = m /\ Day(100 * m + day) = day
BY DEF Month, Day

LEMMA DateIs ==
    ASSUME NEW d \in Nat
    PROVE  Month(d) \in Nat /\ Day(d) \in 0 .. 99 /\ d = 100 * Month(d) + Day(d)
BY DEF Month, Day

LEMMA OnDayIs ==
    ASSUME NEW m \in Nat, NEW day \in 0 .. 99
    PROVE  /\ OnDay(m, day) \in Nat /\ Month(OnDay(m, day)) = m
           /\ Day(OnDay(m, day)) = IF day <= DaysIn(m) THEN day ELSE DaysIn(m)
           /\ OnDay(m, day) = 100 * m + Day(OnDay(m, day))
<1> DEFINE k == IF day <= DaysIn(m) THEN day ELSE DaysIn(m)
<1>1. k \in 0 .. 99
  BY DaysInIs
<1>2. OnDay(m, day) = 100 * m + k
  BY DEF OnDay
<1> HIDE DEF k
<1>3. m \in Int /\ 100 * m + k \in Nat
  BY <1>1
<1>4. Month(100 * m + k) = m /\ Day(100 * m + k) = k
  BY <1>1, <1>3, DateParts
<1>5. Month(OnDay(m, day)) = m /\ Day(OnDay(m, day)) = k /\ OnDay(m, day) \in Nat
  BY <1>2, <1>3, <1>4
<1> QED BY <1>2, <1>5 DEF k

LEMMA AddMonthsIs ==
    ASSUME NEW d \in Nat, NEW k \in Nat
    PROVE  AddMonths(d, k) \in Nat /\ Month(AddMonths(d, k)) = Month(d) + k
<1>1. Month(d) + k \in Nat /\ Day(d) \in 0 .. 99
  BY DateIs
<1> QED BY <1>1, OnDayIs DEF AddMonths

-----------------------------------------------------------------------------
(* The statements of a card *)

(* Locks are taken statements first, in the order of their cycles, then the *)
(* payer, the card, and a transaction.                                      *)
Sooner(h, l) ==
    \/ h = l
    \/ h \in Cycles /\ (l \in Cycles => h < l)
    \/ h \in Purses /\ l \in {Plastic} \cup Charges
    \/ h = Plastic /\ l \in Charges

QueueOK(v) ==
    /\ \A i, j \in DOMAIN v.wants : i < j => Sooner(v.wants[i], v.wants[j])
    /\ \A h \in v.held, i \in DOMAIN v.wants : Sooner(h, v.wants[i])

LocksOK ==
    /\ \A s \in Tellers : QueueOK(till[s])
    /\ \A s, r \in Tellers : s # r => till[s].held \cap till[r].held = {}

(* A row is what it was inserted as, until it is deleted. *)
ChargeOK(x) ==
    /\ charge[x].state = "free" => charge[x] = NoCharge
    /\ charge[x].state # "free" => charge[x].cycle \in Cycles
    /\ charge[x].kind = "payment" => charge[x].payer \in Purses /\ charge[x].mirror = 0
    /\ charge[x].kind = "purchase" => charge[x].payer = Absent
    /\ charge[x].kind = "purchase" /\ charge[x].state = "active" =>
          charge[x].mirror = charge[x].cost

ChargesOK == \A x \in Charges : ChargeOK(x)

(* What has been read of the rows stays true of them. *)
Peeked(x, c) ==
    x \in Charges /\ c \in Cycles /\ charge[x].state # "free" /\ charge[x].cycle = c

ImageOK(image) ==
    /\ charge[image[1]].state # "free"
    /\ charge[image[1]].kind = "payment" => image[2] = charge[image[1]].cost

VisitOK(v) ==
    /\ v.op \in {"cancel", "edit"} =>
          Peeked(v.charge, v.cycle) /\ charge[v.charge].kind = "purchase"
    /\ v.op = "pay" => v.cycle \in Cycles /\ v.payer \in Purses
    /\ IsFiniteSet(v.images) /\ \A image \in v.images : ImageOK(image)
    /\ v.op = "delete" => \E image \in v.images : v.images = {image}
    /\ v.op = "sweep" => \A image \in v.images : charge[image[1]].kind = "purchase"

VisitsOK == \A s \in Tellers : VisitOK(till[s])

(* Nothing has been paid on an open statement. *)
OpenOK == \A c \in Cycles : statement[c].status \in {"none", "open"} => statement[c].paid = 0

CardsInv ==
    /\ CardsTypeOK /\ LocksOK /\ ChargesOK /\ VisitsOK /\ OpenOK
    /\ TotalsLoseNothing /\ NeverOverpaid /\ PaymentsBookedOnce

-----------------------------------------------------------------------------
(* Cycles *)

LEMMA ClosingDateIs ==
    ASSUME NEW d \in Nat, NEW day \in 1 .. 31
    PROVE  /\ ClosingDate(d, day) \in Nat
           /\ Month(ClosingDate(d, day)) \in {Month(d), Month(d) + 1}
<1>1. Month(d) \in Nat /\ Month(d) + 1 \in Nat /\ day \in 0 .. 99
  BY DateIs
<1> QED BY <1>1, OnDayIs DEF ClosingDate

LEMMA DueDateIs ==
    ASSUME NEW d \in Nat, NEW day \in 1 .. 31
    PROVE  DueDate(d, day) \in Nat
<1>1. Month(d) \in Nat /\ Month(d) + 1 \in Nat /\ day \in 0 .. 99
  BY DateIs
<1> QED BY <1>1, OnDayIs DEF DueDate

(* The parcels of a purchase fall on cycles that do not go back. *)
LEMMA ParcelsAre ==
    ASSUME CardsTypeOK, NEW d \in Nat, NEW n \in Nat \ {0}, NEW total \in Nat, NEW i \in 1 .. n
    PROVE  LET p == ParcelOf(d, n, total, i)
           IN /\ p.cycle \in {Month(d) + i - 1, Month(d) + i}
              /\ p.cycle \in Cycles => p \in Parcels
<1> DEFINE on == AddMonths(d, i - 1)
           closing == ClosingDate(on, card.closing)
           due == DueDate(closing, card.due)
<1>1. card.closing \in 1 .. 31 /\ card.due \in 1 .. 31
  BY TermsAssumption DEF CardsTypeOK
<1>2. on \in Nat /\ Month(on) = Month(d) + (i - 1) /\ Month(d) \in Nat
  BY AddMonthsIs, DateIs
<1>3. closing \in Nat /\ Month(closing) \in {Month(on), Month(on) + 1}
  BY <1>1, <1>2, ClosingDateIs
<1>4. due \in Nat
  BY <1>1, <1>3, DueDateIs
<1>5. Parcel(total, n, i) \in Nat
  <2>1. total \div n \in Nat /\ total % n \in Nat
    OBVIOUS
  <2> QED BY <2>1 DEF Parcel
<1>6. ParcelOf(d, n, total, i) =
        [cycle |-> Month(closing), closing |-> closing, due |-> due, cost |-> Parcel(total, n, i)]
  BY DEF ParcelOf
<1> HIDE DEF on, closing, due
<1> QED BY <1>2, <1>3, <1>4, <1>5, <1>6 DEF Parcels

-----------------------------------------------------------------------------
(* Statuses and totals *)

LEMMA StatusIs ==
    ASSUME NEW s \in Statement, NEW d
    PROVE  /\ ComputeStatus(s, d) \in {"open", "partial", "closed", "overdue", "paid"}
           /\ ComputeStatus(s, d) = "open" => s.paid = 0
BY DEF ComputeStatus, Statement

(* The costs of some rows *)
CostOf(rows) == [x \in Charges |-> rows[x].cost]

LEMMA CostsAre ==
    ASSUME NEW rows \in [Charges -> Charge]
    PROVE  \A x \in Charges : CostOf(rows)[x] = rows[x].cost /\ CostOf(rows)[x] \in Nat
BY DEF CostOf, Charge

LEMMA TotalIs ==
    ASSUME NEW rows \in [Charges -> Charge], NEW S \in SUBSET Charges
    PROVE  Total(rows, S) \in Nat
<1>1. IsFiniteSet(S)
  BY FS_Subset, RowsAssumption
<1>2. \A x \in S : CostOf(rows)[x] \in Nat
  BY CostsAre
<1> QED BY <1>1, <1>2, SumNatural DEF Total, CostOf

LEMMA TotalZero ==
    ASSUME NEW rows \in [Charges -> Charge], NEW S \in SUBSET Charges,
           \A x \in S : rows[x].cost = 0
    PROVE  Total(rows, S) = 0
<1>1. IsFiniteSet(S)
  BY FS_Subset, RowsAssumption
<1>2. \A x \in S : CostOf(rows)[x] \in Nat /\ CostOf(rows)[x] = 0
  BY CostsAre
<1> QED BY <1>1, <1>2, SumNatural DEF Total, CostOf

LEMMA TotalSame ==
    ASSUME NEW rows \in [Charges -> Charge], NEW then \in [Charges -> Charge],
           NEW S \in SUBSET Charges, \A x \in S : then[x].cost = rows[x].cost
    PROVE  Total(then, S) = Total(rows, S)
<1>1. IsFiniteSet(S)
  BY FS_Subset, RowsAssumption
<1>2. \A x \in S : CostOf(then)[x] = CostOf(rows)[x]
  BY CostsAre
<1> QED BY <1>1, <1>2, SumSame DEF Total, CostOf

LEMMA TotalJoined ==
    ASSUME NEW rows \in [Charges -> Charge], NEW S \in SUBSET Charges, NEW T \in SUBSET Charges,
           S \cap T = {}
    PROVE  Total(rows, S \cup T) = Total(rows, S) + Total(rows, T)
<1>1. IsFiniteSet(S) /\ IsFiniteSet(T)
  BY FS_Subset, RowsAssumption
<1>2. /\ \A x \in S \cup T : CostOf(rows)[x] \in Nat /\ CostOf(rows)[x] \in Int
      /\ \A x \in T : CostOf(rows)[x] = rows[x].cost
  BY CostsAre
<1> QED BY <1>1, <1>2, SumJoined DEF Total, CostOf

LEMMA TotalOne ==
    ASSUME NEW rows \in [Charges -> Charge], NEW x \in Charges
    PROVE  Total(rows, {x}) = rows[x].cost
<1>1. CostOf(rows)[x] = rows[x].cost /\ CostOf(rows)[x] \in Int
  BY CostsAre
<1> QED BY <1>1, SumOne DEF Total, CostOf

-----------------------------------------------------------------------------
(* Locks *)

(* No two locks are each to be taken before the other. *)
LEMMA SoonerIsAnOrder ==
    ASSUME NEW h \in Locks, NEW l \in Locks, Sooner(h, l), Sooner(l, h)
    PROVE  h = l
BY RowsAssumption DEF Sooner, Locks

LEMMA NoVisitIs ==
    /\ NoVisit \in Visit /\ VisitOK(NoVisit) /\ QueueOK(NoVisit) /\ NoVisit.held = {}
    /\ NoVisit.op = "none" /\ NoVisit.wants = <<>>
<1>1. /\ NoVisit.op = "none" /\ NoVisit.wants = <<>> /\ NoVisit.held = {}
      /\ NoVisit.images = {}
  BY DEF NoVisit
<1>2. NoVisit \in Visit
  BY DEF NoVisit, Visit
<1>3. QueueOK(NoVisit)
  BY <1>1 DEF QueueOK
<1>4. VisitOK(NoVisit)
  BY <1>1, FS_EmptySet DEF VisitOK
<1> QED BY <1>1, <1>2, <1>3, <1>4

(* A request that leaves without a trace, or with rows that endure, leaves  *)
(* the others as they were.                                                 *)
Endures(x) ==
    charge[x].state # "free" =>
        /\ charge'[x].state # "free" /\ charge'[x].kind = charge[x].kind
        /\ charge'[x].cycle = charge[x].cycle
        /\ charge[x].kind = "payment" => charge'[x].cost = charge[x].cost

LEMMA Frees ==
    ASSUME CardsInv, NEW s \in Tellers, Leave(s), \A x \in Charges : Endures(x)
    PROVE  till' \in [Tellers -> Visit] /\ LocksOK' /\ VisitsOK'
<1>1. /\ till \in [Tellers -> Visit]
      /\ till' = [till EXCEPT ![s] = NoVisit]
  BY DEF CardsInv, CardsTypeOK, Leave
<1>2. till' \in [Tellers -> Visit] /\ \A r \in Tellers : r # s => till'[r] = till[r]
  BY <1>1, NoVisitIs
<1>3. till'[s] = NoVisit
  BY <1>1
<1>4. \A r \in Tellers : QueueOK(till'[r])
  BY <1>2, <1>3, NoVisitIs DEF CardsInv, LocksOK
<1>5. \A r, q \in Tellers : r # q => till'[r].held \cap till'[q].held = {}
  BY <1>2, <1>3, NoVisitIs DEF CardsInv, LocksOK
<1>6. \A r \in Tellers : VisitOK(till[r])'
  <2>1. SUFFICES ASSUME NEW r \in Tellers, r # s PROVE VisitOK(till[r])'
    <3>1. VisitOK(till[s])'
      <4>1. VisitOK(NoVisit)'
        BY NoVisitIs DEF VisitOK, NoVisit
      <4> QED BY <1>3, <4>1
    <3> QED BY <2>1, <3>1
  <2>2. PICK v \in Visit : v = till[r] /\ VisitOK(v)
    BY <1>1 DEF CardsInv, VisitsOK
  <2>3. \A image \in v.images : image[1] \in Charges
    BY <2>2 DEF Visit
  <2>4. VisitOK(v)'
    <3>1. \A image \in v.images : ImageOK(image)'
      BY <2>2, <2>3 DEF VisitOK, ImageOK, Endures
    <3>2. v.op \in {"cancel", "edit"} =>
            Peeked(v.charge, v.cycle)' /\ charge'[v.charge].kind = "purchase"
      BY <2>2 DEF VisitOK, Peeked, Endures
    <3>3. v.op = "sweep" => \A image \in v.images : charge'[image[1]].kind = "purchase"
      BY <2>2, <2>3 DEF VisitOK, ImageOK, Endures
    <3> QED BY <2>2, <3>1, <3>2, <3>3 DEF VisitOK
  <2> QED BY <1>2, <2>1, <2>2, <2>4
<1>7. LocksOK' /\ VisitsOK'
  BY <1>4, <1>5, <1>6 DEF LocksOK, VisitsOK
<1> QED BY <1>2, <1>7

(* A request that has begun, or has taken one lock more, changes no row. *)
LEMMA Waits ==
    ASSUME CardsInv, NEW s \in Tellers, NEW visit \in Visit,
           till' = [till EXCEPT ![s] = visit], visits' \in 0 .. MaxVisits,
           UNCHANGED <<statement, charge, card, purse, date>>,
           QueueOK(visit), VisitOK(visit),
           \A r \in Tellers : r # s => till[r].held \cap visit.held = {}
    PROVE  CardsInv'
<1>1. till \in [Tellers -> Visit]
  BY DEF CardsInv, CardsTypeOK
<1>2. /\ till' \in [Tellers -> Visit] /\ till'[s] = visit
      /\ \A r \in Tellers : r # s => till'[r] = till[r]
  BY <1>1
<1>3. LocksOK'
  BY <1>2 DEF CardsInv, LocksOK, QueueOK
<1>4. VisitsOK'
  <2>1. \A v : VisitOK(v) => VisitOK(v)'
    BY DEF VisitOK, Peeked, ImageOK
  <2> QED BY <1>2, <2>1 DEF CardsInv, VisitsOK
<1>5. CardsTypeOK'
  BY <1>2 DEF CardsInv, CardsTypeOK
<1>6. ChargesOK' /\ OpenOK' /\ TotalsLoseNothing' /\ NeverOverpaid' /\ PaymentsBookedOnce'
  <2>1. ChargesOK' /\ OpenOK'
    BY DEF CardsInv, ChargesOK, ChargeOK, OpenOK
  <2>2. \A c : Purchases(charge, c)' = Purchases(charge, c) /\ Orphans(c)' = Orphans(c)
    BY DEF Purchases, Orphans
  <2>3. \A S : Total(charge, S)' = Total(charge, S)
    BY DEF Total
  <2>4. \A a : Payments(a)' = Payments(a) /\ Spendings(a)' = Spendings(a)
    BY DEF Payments, Spendings
  <2>5. TotalsLoseNothing'
    BY <2>2, <2>3 DEF CardsInv, TotalsLoseNothing
  <2>6. NeverOverpaid'
    BY <2>2 DEF CardsInv, NeverOverpaid
  <2>7. PaymentsBookedOnce'
    BY <2>3, <2>4 DEF CardsInv, PaymentsBookedOnce
  <2> QED BY <2>1, <2>5, <2>6, <2>7
<1> QED BY <1>3, <1>4, <1>5, <1>6 DEF CardsInv

LEMMA LockTaken ==
    ASSUME CardsInv, NEW s \in Tellers, TakeLock(s)
    PROVE  CardsInv'
<1>1. till[s] \in Visit /\ till \in [Tellers -> Visit] /\ visits \in 0 .. MaxVisits
  BY DEF CardsInv, CardsTypeOK
<1> DEFINE w == till[s].wants
<1>2. w \in Seq(Locks) /\ w # <<>> /\ till[s].held \subseteq Locks
  BY <1>1 DEF Visit, TakeLock
<1>3. /\ Head(w) \in Locks /\ Head(w) = w[1] /\ Tail(w) \in Seq(Locks) /\ 1 \in DOMAIN w
      /\ \A i \in DOMAIN Tail(w) : i \in Nat /\ i + 1 \in DOMAIN w /\ Tail(w)[i] = w[i + 1]
  BY <1>2
<1> DEFINE visit == [till[s] EXCEPT !.held = till[s].held \cup {Head(w)}, !.wants = Tail(w)]
<1>4. /\ till' = [till EXCEPT ![s] = visit] /\ visits' = visits
      /\ UNCHANGED <<statement, charge, card, purse, date>>
      /\ Lockable(s, Head(w))
  BY <1>1 DEF TakeLock
<1>5. visit \in Visit
  BY <1>1, <1>2, <1>3 DEF Visit
<1>6. /\ visit.op = till[s].op /\ visit.images = till[s].images /\ visit.charge = till[s].charge
      /\ visit.cycle = till[s].cycle /\ visit.payer = till[s].payer
      /\ visit.held = till[s].held \cup {Head(w)} /\ visit.wants = Tail(w)
  BY <1>1 DEF Visit
<1>7. VisitOK(till[s]) /\ QueueOK(till[s])
  BY DEF CardsInv, VisitsOK, LocksOK
<1> HIDE DEF visit
<1>8. VisitOK(visit)
  BY <1>6, <1>7 DEF VisitOK
<1>9. QueueOK(visit)
  <2>1. \A i, j \in DOMAIN visit.wants : i < j => Sooner(visit.wants[i], visit.wants[j])
    <3>1. \A i, j \in DOMAIN Tail(w) : i < j => i + 1 < j + 1
      BY <1>3
    <3> QED BY <1>3, <1>6, <1>7, <3>1 DEF QueueOK
  <2>2. \A h \in visit.held, i \in DOMAIN visit.wants : Sooner(h, visit.wants[i])
    <3>1. \A i \in DOMAIN Tail(w) : 1 < i + 1
      <4>1. \A i \in DOMAIN Tail(w) : i # 0
        BY <1>2
      <4> QED BY <1>3, <4>1
    <3> QED BY <1>3, <1>6, <1>7, <3>1 DEF QueueOK
  <2> QED BY <2>1, <2>2 DEF QueueOK
<1>10. \A r \in Tellers : r # s => till[r].held \cap visit.held = {}
  BY <1>4, <1>6 DEF CardsInv, LocksOK, Lockable
<1> QED BY <1>1, <1>4, <1>5, <1>8, <1>9, <1>10, Waits

-----------------------------------------------------------------------------
(* The requests that begin *)

LEMMA Begins ==
    ASSUME CardsInv, NEW s \in Tellers, NEW visit \in Visit, Arrive(s, visit),
           visit.held = {}, VisitOK(visit),
           \A i, j \in DOMAIN visit.wants : i < j => Sooner(visit.wants[i], visit.wants[j])
    PROVE  CardsInv'
<1>1. QueueOK(visit)
  BY DEF QueueOK
<1>2. /\ till' = [till EXCEPT ![s] = visit]
      /\ UNCHANGED <<statement, charge, card, purse, date>>
      /\ \A r \in Tellers : r # s => till[r].held \cap visit.held = {}
  BY DEF Arrive
<1>3. visits' \in 0 .. MaxVisits
  BY TermsAssumption DEF Arrive, CardsInv, CardsTypeOK
<1> QED BY <1>1, <1>2, <1>3, Waits

(* A visit by its fields *)
Fields(v) == [op |-> v.op, parcels |-> v.parcels, charge |-> v.charge, cycle |-> v.cycle,
              cost |-> v.cost, payer |-> v.payer, images |-> v.images, wants |-> v.wants,
              held |-> v.held]

LEMMA VisitIs ==
    ASSUME NEW v, v = Fields(v), v.op \in {"pay", "cancel", "edit", "delete", "sweep"},
           v.parcels = <<>>, v.charge \in Charges \cup {Absent}, v.cycle \in Cycles \cup {0},
           v.cost \in Nat, v.payer \in Purses \cup {Absent},
           v.images \in SUBSET (Charges \X Nat), v.wants \in Seq(Locks), v.held = {}
    PROVE  v \in Visit
<1>1. v.parcels \in Seq(Parcels) /\ v.held \in SUBSET Locks
  OBVIOUS
<1> QED BY <1>1 DEF Visit, Fields

LEMMA Buys ==
    ASSUME CardsInv, NEW s \in Tellers, NEW d \in Dates, NEW n \in Nat \ {0},
           NEW cost \in Costs, Buy(s, d, n, cost)
    PROVE  CardsInv'
<1> DEFINE p(i) == ParcelOf(d, n, cost, i)
<1>1. PICK parcels : parcels = [i \in 1 .. n |-> p(i)]
  OBVIOUS
<1>2. PICK wants : wants = [i \in 1 .. n |-> parcels[i].cycle]
  OBVIOUS
<1> DEFINE visit == [NoVisit EXCEPT !.op = "buy", !.parcels = parcels, !.wants = wants]
<1>3. (\A i \in 1 .. n : parcels[i].cycle \in Cycles) /\ Arrive(s, visit)
  BY <1>1, <1>2 DEF Buy
<1>4. d \in Nat /\ cost \in Nat /\ CardsTypeOK
  BY TermsAssumption DEF CardsInv
<1>5. \A i \in 1 .. n : /\ parcels[i].cycle \in {Month(d) + i - 1, Month(d) + i}
                        /\ parcels[i] \in Parcels
  <2>1. SUFFICES ASSUME NEW i \in 1 .. n
                 PROVE  /\ parcels[i].cycle \in {Month(d) + i - 1, Month(d) + i}
                        /\ parcels[i] \in Parcels
    OBVIOUS
  <2>2. parcels[i] = p(i) /\ parcels[i].cycle \in Cycles
    BY <1>1, <1>3
  <2> HIDE DEF p
  <2>3. p(i).cycle \in {Month(d) + i - 1, Month(d) + i}
        /\ (p(i).cycle \in Cycles => p(i) \in Parcels)
    <3> USE DEF p
    <3> QED BY <1>4, ParcelsAre
  <2> QED BY <2>2, <2>3
<1>6. parcels \in Seq(Parcels)
  BY <1>1, <1>5
<1>7. \A i \in 1 .. n : wants[i] = parcels[i].cycle /\ wants[i] \in Cycles
  BY <1>2, <1>3
<1>8. wants \in Seq(Locks) /\ DOMAIN wants = 1 .. n
  BY <1>2, <1>7 DEF Locks
<1>9. visit \in Visit
  BY <1>6, <1>8 DEF Visit, NoVisit
<1>10. /\ visit.op = "buy" /\ visit.held = {} /\ visit.images = {} /\ visit.wants = wants
  BY DEF NoVisit
<1> HIDE DEF visit, p
<1>11. VisitOK(visit)
  BY <1>10, FS_EmptySet DEF VisitOK
<1>12. \A i, j \in 1 .. n : i < j => Sooner(wants[i], wants[j])
  <2>1. SUFFICES ASSUME NEW i \in 1 .. n, NEW j \in 1 .. n, i < j
                 PROVE  Sooner(wants[i], wants[j])
    OBVIOUS
  <2>2. wants[i] \in {Month(d) + i - 1, Month(d) + i} /\ wants[j] \in {Month(d) + j - 1, Month(d) + j}
    BY <1>5, <1>7
  <2>3. Month(d) \in Nat
    BY <1>4, DateIs
  <2>4. wants[i] = wants[j] \/ wants[i] < wants[j]
    BY <2>1, <2>2, <2>3
  <2> QED BY <1>7, <2>4 DEF Sooner
<1> QED BY <1>3, <1>8, <1>9, <1>10, <1>11, <1>12, Begins

LEMMA Peeks ==
    ASSUME CardsInv, NEW s \in Tellers, NEW x \in Charges, NEW op \in {"cancel", "edit"},
           NEW cost \in Nat, Peek(s, op, x, cost)
    PROVE  CardsInv'
<1> DEFINE c == charge[x].cycle
           wants == <<c, x>>
<1>0. PICK visit : visit = [NoVisit EXCEPT !.op = op, !.charge = x, !.cost = cost,
                      !.cycle = c, !.wants = wants]
  OBVIOUS
<1>1. charge[x].state = "active" /\ charge[x].kind = "purchase" /\ Arrive(s, visit)
  BY <1>0 DEF Peek, StatementFirst
<1>2. c \in Cycles
  BY <1>1 DEF CardsInv, ChargesOK, ChargeOK
<1> HIDE DEF c
<1>3. wants \in Seq(Locks) /\ wants = <<c, x>>
  BY <1>2 DEF Locks
<1> HIDE DEF wants
<1>4. visit \in Visit
  <2>1. /\ visit.op = op /\ visit.charge = x /\ visit.cycle = c /\ visit.cost = cost
        /\ visit.payer = Absent /\ visit.images = {} /\ visit.wants = wants
        /\ visit.parcels = <<>> /\ visit.held = {} /\ visit = Fields(visit)
    BY <1>0 DEF NoVisit, Fields
  <2> QED BY <1>2, <1>3, <2>1, VisitIs
<1>5. /\ visit.op = op /\ visit.charge = x /\ visit.cycle = c /\ visit.held = {}
      /\ visit.images = {} /\ visit.wants = <<c, x>>
  BY <1>0, <1>3 DEF NoVisit
<1>6. VisitOK(visit)
  BY <1>1, <1>2, <1>5, FS_EmptySet DEF VisitOK, Peeked, c
<1>7. \A i, j \in DOMAIN visit.wants : i < j => Sooner(visit.wants[i], visit.wants[j])
  <2>1. Sooner(c, x)
    BY <1>2, RowsAssumption DEF Sooner
  <2> QED BY <1>5, <2>1
<1> QED BY <1>1, <1>4, <1>5, <1>6, <1>7, Begins

LEMMA PayBegins ==
    ASSUME CardsInv, NEW s \in Tellers, NEW c \in Cycles, NEW a \in Purses, NEW cost \in Costs,
           PayStatement(s, c, a, cost)
    PROVE  CardsInv'
<1> DEFINE wants == <<c, a, Plastic>>
<1>0. PICK visit : visit = [NoVisit EXCEPT !.op = "pay", !.cycle = c, !.payer = a,
                      !.cost = cost, !.wants = wants]
  OBVIOUS
<1>1. Arrive(s, visit)
  BY <1>0 DEF PayStatement
<1>2. wants \in Seq(Locks) /\ wants = <<c, a, Plastic>> /\ cost \in Nat
  BY TermsAssumption DEF Locks
<1> HIDE DEF wants
<1>3. visit \in Visit
  <2>1. /\ visit.op = "pay" /\ visit.charge = Absent /\ visit.cycle = c /\ visit.cost = cost
        /\ visit.payer = a /\ visit.images = {} /\ visit.wants = wants
        /\ visit.parcels = <<>> /\ visit.held = {} /\ visit = Fields(visit)
    BY <1>0 DEF NoVisit, Fields
  <2> QED BY <1>2, <2>1, VisitIs
<1>4. /\ visit.op = "pay" /\ visit.cycle = c /\ visit.payer = a /\ visit.held = {}
      /\ visit.images = {} /\ visit.wants = <<c, a, Plastic>>
  BY <1>0, <1>2 DEF NoVisit
<1>5. VisitOK(visit)
  BY <1>4, FS_EmptySet DEF VisitOK
<1>6. \A i, j \in DOMAIN visit.wants : i < j => Sooner(visit.wants[i], visit.wants[j])
  <2>1. Sooner(c, a) /\ Sooner(c, Plastic) /\ Sooner(a, Plastic)
    BY RowsAssumption DEF Sooner
  <2>2. /\ \A i \in DOMAIN visit.wants : i \in {1, 2, 3}
        /\ visit.wants[1] = c /\ visit.wants[2] = a /\ visit.wants[3] = Plastic
    BY <1>4
  <2>3. ASSUME NEW i \in {1, 2, 3}, NEW j \in {1, 2, 3}, i < j
        PROVE  Sooner(visit.wants[i], visit.wants[j])
    <3>1. (i = 1 /\ j = 2) \/ (i = 1 /\ j = 3) \/ (i = 2 /\ j = 3)
      BY <2>3
    <3> QED BY <2>1, <2>2, <3>1
  <2> QED BY <2>2, <2>3
<1> QED BY <1>1, <1>3, <1>4, <1>5, <1>6, Begins

LEMMA DeleteBegins ==
    ASSUME CardsInv, NEW s \in Tellers, NEW x \in Charges, DeleteCharge(s, x)
    PROVE  CardsInv'
<1> DEFINE image == <<x, charge[x].cost>>
           a == AccountOf(x)
           wants == <<a, x>>
           images == {image}
<1>0. PICK visit : visit = [NoVisit EXCEPT !.op = "delete", !.images = images, !.wants = wants]
  OBVIOUS
<1>1. charge[x].state = "active" /\ Arrive(s, visit) /\ charge[x] \in Charge
  BY <1>0 DEF DeleteCharge, CardsInv, CardsTypeOK
<1>2. a \in Purses \cup {Plastic}
  BY <1>1 DEF CardsInv, ChargesOK, ChargeOK, AccountOf
<1>3. image \in Charges \X Nat /\ ImageOK(image)
  BY <1>1 DEF Charge, ImageOK
<1> HIDE DEF image, a
<1>4. /\ wants \in Seq(Locks) /\ wants = <<a, x>>
      /\ images \in SUBSET (Charges \X Nat) /\ images = {image}
  BY <1>2, <1>3 DEF Locks
<1> HIDE DEF wants, images
<1>5. visit \in Visit
  <2>1. /\ visit.op = "delete" /\ visit.charge = Absent /\ visit.cycle = 0 /\ visit.cost = 0
        /\ visit.payer = Absent /\ visit.images = images /\ visit.wants = wants
        /\ visit.parcels = <<>> /\ visit.held = {} /\ visit = Fields(visit)
    BY <1>0 DEF NoVisit, Fields
  <2>2. /\ visit.charge \in Charges \cup {Absent} /\ visit.cycle \in Cycles \cup {0}
        /\ visit.payer \in Purses \cup {Absent} /\ visit.cost \in Nat
    BY <2>1
  <2>3. visit.images \in SUBSET (Charges \X Nat) /\ visit.wants \in Seq(Locks)
    BY <1>4, <2>1
  <2> QED BY <2>1, <2>2, <2>3, VisitIs
<1>6. /\ visit.op = "delete" /\ visit.held = {}
      /\ visit.images = {image} /\ visit.wants = <<a, x>>
  BY <1>0, <1>4 DEF NoVisit
<1>7. VisitOK(visit)
  BY <1>3, <1>6, FS_Singleton DEF VisitOK
<1>8. \A i, j \in DOMAIN visit.wants : i < j => Sooner(visit.wants[i], visit.wants[j])
  <2>1. Sooner(a, x)
    BY <1>2, RowsAssumption DEF Sooner
  <2> QED BY <1>6, <2>1
<1> QED BY <1>1, <1>5, <1>6, <1>7, <1>8, Begins

LEMMA SweepBegins ==
    ASSUME CardsInv, NEW s \in Tellers, SweepCategory(s)
    PROVE  CardsInv'
<1> DEFINE doomed == {x \in Charges : charge[x].state = "active" /\ charge[x].kind = "purchase"}
           images == {<<x, charge[x].cost>> : x \in doomed}
           wants == <<Plastic>>
<1>0. PICK visit : visit = [NoVisit EXCEPT !.op = "sweep", !.wants = wants, !.images = images]
  OBVIOUS
<1>1. Arrive(s, visit) /\ charge \in [Charges -> Charge]
  BY <1>0 DEF SweepCategory, CardsInv, CardsTypeOK
<1>2. IsFiniteSet(images)
  <2>1. IsFiniteSet(doomed)
    BY FS_Subset, RowsAssumption
  <2> DEFINE f == [x \in doomed |-> <<x, charge[x].cost>>]
  <2>2. f \in Surjection(doomed, images)
    BY DEF Surjection
  <2> QED BY <2>1, <2>2, FS_Surjection
<1>3. \A image \in images : /\ image \in Charges \X Nat /\ ImageOK(image)
                            /\ charge[image[1]].kind = "purchase"
  BY <1>1 DEF Charge, ImageOK
<1> HIDE DEF images
<1>4. /\ wants \in Seq(Locks) /\ wants = <<Plastic>>
      /\ images \in SUBSET (Charges \X Nat)
  BY <1>3 DEF Locks
<1> HIDE DEF wants
<1>5. visit \in Visit
  <2>1. /\ visit.op = "sweep" /\ visit.charge = Absent /\ visit.cycle = 0 /\ visit.cost = 0
        /\ visit.payer = Absent /\ visit.images = images /\ visit.wants = wants
        /\ visit.parcels = <<>> /\ visit.held = {} /\ visit = Fields(visit)
    BY <1>0 DEF NoVisit, Fields
  <2>2. /\ visit.charge \in Charges \cup {Absent} /\ visit.cycle \in Cycles \cup {0}
        /\ visit.payer \in Purses \cup {Absent} /\ visit.cost \in Nat
    BY <2>1
  <2>3. visit.images \in SUBSET (Charges \X Nat) /\ visit.wants \in Seq(Locks)
    BY <1>4, <2>1
  <2> QED BY <2>1, <2>2, <2>3, VisitIs
<1>6. /\ visit.op = "sweep" /\ visit.held = {} /\ visit.images = images /\ visit.wants = <<Plastic>>
  BY <1>0, <1>4 DEF NoVisit
<1>7. VisitOK(visit)
  BY <1>2, <1>3, <1>6 DEF VisitOK
<1> QED BY <1>1, <1>5, <1>6, <1>7, Begins

-----------------------------------------------------------------------------
(* What the rows of a statement add up to *)

LEMMA RecalculatedIs ==
    ASSUME NEW st \in Statement, NEW total \in Nat
    PROVE  LET new == Recalculated(st, total)
           IN /\ new \in Statement /\ new.total = total /\ new.paid = st.paid
              /\ new.status \notin {"none"} /\ (new.status = "open" => new.paid = 0)
<1> DEFINE mid == [st EXCEPT !.total = total]
<1>1. mid \in Statement /\ mid.paid = st.paid /\ mid.total = total
  BY DEF Statement
<1> HIDE DEF mid
<1>2. PICK status : status = ComputeStatus(mid, date)
  OBVIOUS
<1>3. status \in {"open", "partial", "closed", "overdue", "paid"} /\ (status = "open" => st.paid = 0)
  BY <1>1, <1>2, StatusIs
<1>4. Recalculated(st, total) = [st EXCEPT !.total = total, !.status = status]
  BY <1>2 DEF Recalculated, mid
<1>5. PICK new : new = Recalculated(st, total)
  OBVIOUS
<1>6. new.total = total /\ new.paid = st.paid /\ new.status = status
  BY <1>4, <1>5 DEF Statement
<1>7. new \in Statement
  BY <1>3, <1>4, <1>5 DEF Statement
<1> QED BY <1>3, <1>5, <1>6, <1>7

LEMMA PaidInIs ==
    ASSUME NEW st \in Statement, NEW cost \in Nat
    PROVE  LET new == PaidIn(st, cost)
           IN /\ new \in Statement /\ new.total = st.total /\ new.paid = st.paid + cost
              /\ new.status \notin {"none"} /\ (new.status = "open" => new.paid = 0)
<1> DEFINE mid == [st EXCEPT !.paid = st.paid + cost]
<1>1. mid \in Statement /\ mid.paid = st.paid + cost
  BY DEF Statement
<1> HIDE DEF mid
<1>2. PICK status : status = ComputeStatus(mid, date)
  OBVIOUS
<1>3. /\ status \in {"open", "partial", "closed", "overdue", "paid"}
      /\ (status = "open" => st.paid + cost = 0)
  BY <1>1, <1>2, StatusIs
<1>4. PaidIn(st, cost) = [st EXCEPT !.paid = st.paid + cost, !.status = status]
  BY <1>2 DEF PaidIn, mid
<1>5. PICK new : new = PaidIn(st, cost)
  OBVIOUS
<1>6. new.total = st.total /\ new.paid = st.paid + cost /\ new.status = status
  BY <1>4, <1>5 DEF Statement
<1>7. st.paid + cost \in Nat
  BY DEF Statement
<1>8. new \in Statement
  BY <1>3, <1>4, <1>5, <1>7 DEF Statement
<1> QED BY <1>3, <1>5, <1>6, <1>8

(* The total of a statement is accounted for. *)
BillOK(c) ==
    \E S \in SUBSET Orphans(c) :
        statement[c].total = Total(charge, Purchases(charge, c) \cup S)

(* What was paid on a statement, and taken from a payer, is accounted for. *)
CountedOK(c) == statement[c].paid = Total(charge, Payments(c))
TakenOK(a) == purse[a] = -Total(charge, Spendings(a))

LEMMA CardsRowsOK ==
    ASSUME CardsInv
    PROVE  /\ \A c \in Cycles : BillOK(c) /\ CountedOK(c)
           /\ \A a \in Purses : TakenOK(a)
BY DEF CardsInv, TotalsLoseNothing, PaymentsBookedOnce, BillOK, CountedOK, TakenOK

LEMMA CardsRowsInv ==
    ASSUME CardsInv, CardsTypeOK', LocksOK', VisitsOK', ChargesOK', OpenOK',
           \A c \in Cycles : BillOK(c)' /\ CountedOK(c)',
           \A c \in Cycles : (statement[c].paid <= statement[c].total \/ Orphans(c) # {})',
           \A a \in Purses : TakenOK(a)'
    PROVE  CardsInv'
<1>1. TotalsLoseNothing'
  BY DEF TotalsLoseNothing, ChargesOK, ChargeOK, BillOK
<1>2. NeverOverpaid'
  BY DEF NeverOverpaid
<1>3. PaymentsBookedOnce'
  BY DEF PaymentsBookedOnce, CountedOK, TakenOK
<1> QED BY <1>1, <1>2, <1>3 DEF CardsInv

LEMMA BillKept ==
    ASSUME CardsInv, NEW c \in Cycles, charge' \in [Charges -> Charge],
           statement'[c].total = statement[c].total,
           \A x \in Purchases(charge, c) \cup Orphans(c) : charge'[x] = charge[x],
           Purchases(charge', c) = Purchases(charge, c)
    PROVE  BillOK(c)' /\ Orphans(c) \subseteq Orphans(c)'
<1>1. PICK S \in SUBSET Orphans(c) :
         statement[c].total = Total(charge, Purchases(charge, c) \cup S)
  BY CardsRowsOK DEF BillOK
<1>2. Orphans(c) \subseteq Orphans(c)'
  BY DEF Orphans
<1>3. S \in SUBSET Charges /\ Purchases(charge, c) \in SUBSET Charges /\ charge \in [Charges -> Charge]
  BY <1>1 DEF Orphans, Purchases, CardsInv, CardsTypeOK
<1>4. Total(charge', Purchases(charge, c) \cup S) = Total(charge, Purchases(charge, c) \cup S)
  BY <1>1, <1>3, TotalSame
<1> QED BY <1>1, <1>2, <1>4 DEF BillOK

LEMMA CountKept ==
    ASSUME CardsInv, NEW c \in Cycles, charge' \in [Charges -> Charge],
           statement'[c].paid = statement[c].paid,
           Payments(c)' = Payments(c), \A x \in Payments(c) : charge'[x].cost = charge[x].cost
    PROVE  CountedOK(c)'
<1>1. Payments(c) \in SUBSET Charges /\ charge \in [Charges -> Charge]
  BY DEF Payments, CardsInv, CardsTypeOK
<1>2. Total(charge', Payments(c)) = Total(charge, Payments(c))
  BY <1>1, TotalSame
<1> QED BY <1>2, CardsRowsOK DEF CountedOK

LEMMA TakenKept ==
    ASSUME CardsInv, NEW a \in Purses, charge' \in [Charges -> Charge], purse'[a] = purse[a],
           Spendings(a)' = Spendings(a), \A x \in Spendings(a) : charge'[x].cost = charge[x].cost
    PROVE  TakenOK(a)'
<1>1. Spendings(a) \in SUBSET Charges /\ charge \in [Charges -> Charge]
  BY DEF Spendings, CardsInv, CardsTypeOK
<1>2. Total(charge', Spendings(a)) = Total(charge, Spendings(a))
  BY <1>1, TotalSame
<1> QED BY <1>2, CardsRowsOK DEF TakenOK

-----------------------------------------------------------------------------
(* A purchase *)

LEMMA CommitBuyKeeps ==
    ASSUME CardsInv, NEW s \in Tellers, CommitBuy(s)
    PROVE  CardsInv'
<1> DEFINE parcels == till[s].parcels
           billed == {parcels[i].cycle : i \in DOMAIN parcels}
           ids == NextUnused(Len(parcels))
           nth(x) == Cardinality({y \in ids : y <= x})
<1>1. /\ Cardinality(ids) = Len(parcels)
      /\ charge' = [x \in Charges |-> IF x \in ids THEN Bought(parcels[nth(x)]) ELSE charge[x]]
      /\ statement' = [c \in Cycles |->
            IF c \in billed
            THEN Recalculated(FindOrCreate(s, c), Total(charge', Purchases(charge', c)))
            ELSE statement[c]]
      /\ Leave(s) /\ UNCHANGED <<card, purse, date, visits>>
  BY Zenon DEF CommitBuy
<1>2. /\ till[s] \in Visit /\ charge \in [Charges -> Charge] /\ statement \in [Cycles -> Statement]
      /\ parcels \in Seq(Parcels)
  <2>1. till[s] \in Visit /\ charge \in [Charges -> Charge] /\ statement \in [Cycles -> Statement]
    BY DEF CardsInv, CardsTypeOK
  <2> QED BY <2>1 DEF Visit
<1>3. /\ ids \subseteq Charges /\ \A x \in ids : charge[x] = NoCharge /\ charge[x].state = "free"
      /\ IsFiniteSet(ids)
  <2>1. ids \subseteq Charges /\ \A x \in ids : charge[x] = NoCharge /\ charge[x].state = "free"
    BY DEF NextUnused, Unused, CardsInv, ChargesOK, ChargeOK
  <2> QED BY <2>1, FS_Subset, RowsAssumption
<1>4. \A x \in ids : parcels[nth(x)] \in Parcels /\ parcels[nth(x)].cycle \in billed
  <2>1. SUFFICES ASSUME NEW x \in ids
                 PROVE  parcels[nth(x)] \in Parcels /\ parcels[nth(x)].cycle \in billed
    OBVIOUS
  <2> DEFINE before == {y \in ids : y <= x}
  <2>2. before \subseteq ids /\ x \in before
    <3>1. x \in Nat
      BY <1>3, RowsAssumption
    <3>2. x <= x
      BY <3>1
    <3> QED BY <3>2
  <2>3. IsFiniteSet(before) /\ Cardinality(before) <= Cardinality(ids)
    BY <1>3, <2>2, FS_Subset
  <2>4. Cardinality(before) \in Nat /\ Cardinality(before) # 0
    BY <2>2, <2>3, FS_CardinalityType, FS_EmptySet
  <2>5. Cardinality(before) \in 1 .. Len(parcels)
    BY <1>1, <1>2, <2>3, <2>4
  <2>6. nth(x) \in DOMAIN parcels
    BY <1>2, <2>5
  <2>7. PICK k : k = nth(x)
    OBVIOUS
  <2>8. k \in DOMAIN parcels
    BY <2>6, <2>7
  <2> HIDE DEF nth
  <2>9. parcels[k] \in Parcels
    BY <1>2, <2>8
  <2> QED BY <2>7, <2>8, <2>9
<1>5. /\ \A x \in Charges \ ids : charge'[x] = charge[x]
      /\ \A x \in ids : \E p \in Parcels : charge'[x] = Bought(p) /\ p.cycle \in billed
  BY <1>1, <1>3, <1>4
<1>6. \A p \in Parcels : Bought(p) \in Charge
  BY DEF Bought, Parcels, Charge
<1>7. charge' \in [Charges -> Charge]
  BY <1>1, <1>2, <1>4, <1>6
<1>8. \A x \in ids : /\ charge'[x].state = "active" /\ charge'[x].kind = "purchase"
                     /\ charge'[x].payer = Absent /\ charge'[x].mirror = charge'[x].cost
                     /\ charge'[x].cycle \in billed /\ charge'[x].cycle \in Cycles
  <2>1. SUFFICES ASSUME NEW x \in ids
                 PROVE  /\ charge'[x].state = "active" /\ charge'[x].kind = "purchase"
                        /\ charge'[x].payer = Absent /\ charge'[x].mirror = charge'[x].cost
                        /\ charge'[x].cycle \in billed /\ charge'[x].cycle \in Cycles
    OBVIOUS
  <2>2. PICK p \in Parcels : charge'[x] = Bought(p) /\ p.cycle \in billed
    BY <1>5
  <2>3. p.cycle \in Cycles
    BY DEF Parcels
  <2> HIDE DEF billed
  <2> QED BY <2>2, <2>3 DEF Bought
<1>9. billed \subseteq Cycles
  <2>1. \A i \in DOMAIN parcels : parcels[i] \in Parcels
    BY <1>2
  <2>2. \A p \in Parcels : p.cycle \in Cycles
    BY DEF Parcels
  <2> QED BY <2>1, <2>2
<1>10. ASSUME NEW c \in billed
       PROVE  /\ FindOrCreate(s, c) \in Statement
              /\ FindOrCreate(s, c).paid = statement[c].paid
  <2>1. PICK first : first = CHOOSE i \in DOMAIN parcels : parcels[i].cycle = c
    OBVIOUS
  <2>2. first \in DOMAIN parcels /\ parcels[first] \in Parcels
    BY <1>2, <2>1, <1>10
  <2>3. CASE statement[c].status # "none"
    BY <1>2, <1>9, <2>3 DEF FindOrCreate
  <2>4. CASE statement[c].status = "none"
    <3>1. FindOrCreate(s, c) = [NoStatement EXCEPT !.status = "open",
                  !.closing = parcels[first].closing, !.due = parcels[first].due]
      BY <2>1, <2>4 DEF FindOrCreate
    <3>2. parcels[first].closing \in Nat /\ parcels[first].due \in Nat
      BY <2>2 DEF Parcels
    <3>3. statement[c].paid = 0
      BY <1>9, <2>4 DEF CardsInv, OpenOK
    <3>4. PICK row : row = FindOrCreate(s, c)
      OBVIOUS
    <3>5. row \in Statement
      <4>1. NoStatement \in Statement
        BY DEF NoStatement, Statement
      <4>2. \A st \in Statement, m \in Nat, n \in Nat :
                [st EXCEPT !.status = "open", !.closing = m, !.due = n] \in Statement
        BY DEF Statement
      <4>3. PICK m \in Nat, n \in Nat :
                row = [NoStatement EXCEPT !.status = "open", !.closing = m, !.due = n]
        BY <3>1, <3>2, <3>4, Zenon
      <4> QED BY <4>1, <4>2, <4>3
    <3>6. row.paid = 0
      BY <3>1, <3>4 DEF NoStatement
    <3> QED BY <3>3, <3>4, <3>5, <3>6
  <2> QED BY <2>3, <2>4
<1> HIDE DEF parcels, ids, nth
<1>11. ASSUME NEW c \in Cycles
       PROVE  /\ Purchases(charge', c) \in SUBSET Charges
              /\ Total(charge', Purchases(charge', c)) \in Nat
  <2>1. Purchases(charge', c) \in SUBSET Charges
    BY DEF Purchases
  <2> QED BY <1>7, <2>1, TotalIs
<1>12. ASSUME NEW c \in billed
       PROVE  /\ statement'[c] \in Statement /\ statement'[c].paid = statement[c].paid
              /\ statement'[c].total = Total(charge', Purchases(charge', c))
              /\ statement'[c].status # "none"
              /\ statement'[c].status = "open" => statement'[c].paid = 0
  <2>1. statement'[c] =
          Recalculated(FindOrCreate(s, c), Total(charge', Purchases(charge', c)))
    BY <1>1, <1>9
  <2>2. c \in Cycles
    BY <1>9
  <2> QED BY <1>10, <1>11, <2>1, <2>2, RecalculatedIs
<1>13. \A c \in Cycles \ billed : statement'[c] = statement[c]
  BY <1>1
<1> HIDE DEF billed
<1>20. till' \in [Tellers -> Visit] /\ LocksOK' /\ VisitsOK'
  BY <1>1, <1>3, <1>5, Frees DEF Endures
<1>14. CardsTypeOK'
  <2>1. statement' \in [Cycles -> Statement]
    BY <1>1, <1>2, <1>12, <1>13
  <2> QED BY <1>1, <1>7, <1>20, <2>1 DEF CardsInv, CardsTypeOK
<1>15. ChargesOK'
  BY <1>5, <1>8 DEF CardsInv, ChargesOK, ChargeOK
<1>16. OpenOK'
  BY <1>12, <1>13 DEF CardsInv, OpenOK
<1>17. ASSUME NEW c \in Cycles
       PROVE  Payments(c)' = Payments(c) /\ Orphans(c)' = Orphans(c)
  BY <1>3, <1>5, <1>8 DEF Payments, Orphans
<1>18. \A c \in Cycles : CountedOK(c)' /\ statement'[c].paid = statement[c].paid
  <2>1. ASSUME NEW c \in Cycles PROVE CountedOK(c)' /\ statement'[c].paid = statement[c].paid
    <3>1. statement'[c].paid = statement[c].paid
      BY <1>12, <1>13
    <3>2. \A x \in Payments(c) : charge'[x].cost = charge[x].cost
      BY <1>3, <1>5 DEF Payments
    <3> QED BY <1>7, <1>17, <3>1, <3>2, CountKept
  <2> QED BY <2>1
<1>19. ASSUME NEW c \in Cycles
       PROVE  BillOK(c)' /\ (statement[c].paid <= statement[c].total \/ Orphans(c) # {})'
  <2>1. CASE c \in billed
    <3>1. BillOK(c)'
      <4>1. Total(charge', Purchases(charge', c)) = Total(charge', Purchases(charge', c) \cup {})
        OBVIOUS
      <4> QED BY <1>12, <2>1, <4>1 DEF BillOK
    <3>2. ASSUME Orphans(c) = {} PROVE statement'[c].paid <= statement'[c].total
      <4> DEFINE old == Purchases(charge, c)
                 more == Purchases(charge', c) \ old
      <4>1. statement[c].total = Total(charge, old) /\ statement[c].paid <= statement[c].total
        <5>1. PICK S \in SUBSET Orphans(c) : statement[c].total = Total(charge, old \cup S)
          BY CardsRowsOK DEF BillOK
        <5>2. old \cup S = old
          BY <3>2, <5>1
        <5> QED BY <3>2, <5>1, <5>2 DEF CardsInv, NeverOverpaid
      <4>2. old \subseteq Charges /\ more \subseteq Charges /\ old \cap more = {}
        BY DEF Purchases
      <4>3. Purchases(charge', c) = old \cup more /\ \A x \in old : charge'[x].cost = charge[x].cost
        BY <1>3, <1>5 DEF Purchases
      <4> HIDE DEF old, more
      <4>4. Total(charge', old) = Total(charge, old)
        BY <1>2, <1>7, <4>2, <4>3, TotalSame
      <4>5. Total(charge', old \cup more) = Total(charge', old) + Total(charge', more)
        BY <1>7, <4>2, TotalJoined
      <4>6. Total(charge', more) \in Nat /\ Total(charge', old) \in Nat
        BY <1>7, <4>2, TotalIs
      <4>7. statement'[c].total = Total(charge', old \cup more) /\ statement'[c].paid = statement[c].paid
        BY <1>12, <2>1, <4>3
      <4>8. statement[c].paid \in Nat
        BY <1>2 DEF Statement
      <4> QED BY <4>1, <4>4, <4>5, <4>6, <4>7, <4>8
    <3> QED BY <1>17, <3>1, <3>2
  <2>2. CASE c \notin billed
    <3>1. statement'[c] = statement[c]
      BY <1>13, <2>2
    <3>2. Purchases(charge', c) = Purchases(charge, c)
      BY <1>3, <1>5, <1>8, <2>2 DEF Purchases
    <3>3. \A x \in Purchases(charge, c) \cup Orphans(c) : charge'[x] = charge[x]
      BY <1>3, <1>5 DEF Purchases, Orphans
    <3>4. BillOK(c)'
      BY <1>7, <3>1, <3>2, <3>3, BillKept
    <3> QED BY <1>17, <3>1, <3>4 DEF CardsInv, NeverOverpaid
  <2> QED BY <2>1, <2>2
<1>21. \A a \in Purses : TakenOK(a)'
  <2>1. ASSUME NEW a \in Purses PROVE TakenOK(a)'
    <3>1. a # Absent
      BY RowsAssumption
    <3>2. Spendings(a)' = Spendings(a) /\ \A x \in Spendings(a) : charge'[x].cost = charge[x].cost
      BY <1>3, <1>5, <1>8, <3>1 DEF Spendings
    <3> QED BY <1>1, <1>7, <3>2, TakenKept
  <2> QED BY <2>1
<1> QED BY <1>14, <1>15, <1>16, <1>18, <1>19, <1>20, <1>21, CardsRowsInv

-----------------------------------------------------------------------------
(* A purchase cancelled or edited *)

LEMMA RewriteKeeps ==
    ASSUME CardsInv, NEW s \in Tellers, till[s].op \in {"cancel", "edit"},
           NEW row \in Charge, Rewrite(s, row),
           row.state # "free", row.kind = "purchase",
           row.cycle = till[s].cycle, row.payer = Absent,
           row.state = "active" => row.mirror = row.cost
    PROVE  CardsInv'
<1>1. PICK x, c : x = till[s].charge /\ c = till[s].cycle
  OBVIOUS
<1>2. /\ Open(c) /\ charge[x].state = "active"
      /\ charge' = [charge EXCEPT ![x] = row]
      /\ statement' = [statement EXCEPT ![c] =
            Recalculated(statement[c], Total(charge', Purchases(charge', c)))]
      /\ Leave(s) /\ UNCHANGED <<card, purse, date, visits>>
  BY <1>1, Zenon DEF Rewrite
<1>3. /\ x \in Charges /\ c \in Cycles /\ charge[x].cycle = c /\ charge[x].kind = "purchase"
  BY <1>1 DEF CardsInv, VisitsOK, VisitOK, Peeked
<1>4. charge \in [Charges -> Charge] /\ statement \in [Cycles -> Statement]
  BY DEF CardsInv, CardsTypeOK
<1>5. charge[x].payer = Absent
  BY <1>3 DEF CardsInv, ChargesOK, ChargeOK
<1>6. /\ charge' \in [Charges -> Charge] /\ charge'[x] = row
      /\ \A y \in Charges : y # x => charge'[y] = charge[y]
  BY <1>2, <1>3, <1>4
<1>7. Total(charge', Purchases(charge', c)) \in Nat
  <2>1. Purchases(charge', c) \in SUBSET Charges
    BY DEF Purchases
  <2> QED BY <1>6, <2>1, TotalIs
<1>8. statement[c].paid = 0
  BY <1>2, <1>3 DEF Open, CardsInv, OpenOK
<1>9. /\ statement'[c] \in Statement /\ statement'[c].paid = statement[c].paid
      /\ statement'[c].total = Total(charge', Purchases(charge', c))
      /\ statement'[c].status # "none"
  <2>1. statement'[c] = Recalculated(statement[c], Total(charge', Purchases(charge', c)))
    BY <1>2, <1>3, <1>4
  <2>2. statement[c] \in Statement
    BY <1>3, <1>4
  <2> QED BY <1>7, <2>1, <2>2, RecalculatedIs
<1>10. \A d \in Cycles : d # c => statement'[d] = statement[d]
  BY <1>2, <1>4
<1>11. till' \in [Tellers -> Visit] /\ LocksOK' /\ VisitsOK'
  <2>1. \A y \in Charges : Endures(y)
    BY <1>1, <1>3, <1>6 DEF Endures
  <2> QED BY <1>2, <2>1, Frees
<1>12. CardsTypeOK'
  <2>1. statement' \in [Cycles -> Statement]
    BY <1>2, <1>4, <1>9, <1>10
  <2> QED BY <1>2, <1>6, <1>11, <2>1 DEF CardsInv, CardsTypeOK
<1>13. ChargesOK'
  <2>1. \A y \in Charges : y # x => ChargeOK(y)'
    BY <1>6 DEF CardsInv, ChargesOK, ChargeOK
  <2>2. ChargeOK(x)'
    BY <1>1, <1>3, <1>6 DEF ChargeOK
  <2> QED BY <2>1, <2>2 DEF ChargesOK
<1>14. OpenOK'
  BY <1>8, <1>9, <1>10 DEF CardsInv, OpenOK
<1>15. \A d \in Cycles : CountedOK(d)'
  <2>1. ASSUME NEW d \in Cycles PROVE CountedOK(d)'
    <3>1. Payments(d)' = Payments(d) /\ \A y \in Payments(d) : charge'[y].cost = charge[y].cost
      BY <1>3, <1>6 DEF Payments
    <3>2. statement'[d].paid = statement[d].paid
      BY <1>9, <1>10
    <3> QED BY <1>6, <3>1, <3>2, CountKept
  <2> QED BY <2>1
<1>16. ASSUME NEW d \in Cycles
       PROVE  BillOK(d)' /\ (statement[d].paid <= statement[d].total \/ Orphans(d) # {})'
  <2>1. CASE d = c
    <3>1. Total(charge', Purchases(charge', c)) = Total(charge', Purchases(charge', c) \cup {})
      OBVIOUS
    <3>2. BillOK(d)'
      BY <1>9, <2>1, <3>1 DEF BillOK
    <3>3. statement'[c].paid <= statement'[c].total
      BY <1>7, <1>8, <1>9
    <3> QED BY <2>1, <3>2, <3>3
  <2>2. CASE d # c
    <3>1. statement'[d] = statement[d]
      BY <1>10, <2>2
    <3>2. Purchases(charge', d) = Purchases(charge, d)
      BY <1>1, <1>3, <1>6, <2>2 DEF Purchases
    <3>3. \A y \in Purchases(charge, d) \cup Orphans(d) : charge'[y] = charge[y]
      BY <1>2, <1>3, <1>6, <2>2 DEF Purchases, Orphans
    <3>4. BillOK(d)' /\ Orphans(d) \subseteq Orphans(d)'
      BY <1>6, <3>1, <3>2, <3>3, BillKept
    <3> QED BY <3>1, <3>4 DEF CardsInv, NeverOverpaid
  <2> QED BY <2>1, <2>2
<1>17. \A a \in Purses : TakenOK(a)'
  <2>1. ASSUME NEW a \in Purses PROVE TakenOK(a)'
    <3>1. a # Absent
      BY RowsAssumption
    <3>2. Spendings(a)' = Spendings(a) /\ \A y \in Spendings(a) : charge'[y].cost = charge[y].cost
      BY <1>5, <1>6, <3>1 DEF Spendings
    <3> QED BY <1>2, <1>6, <3>2, TakenKept
  <2> QED BY <2>1
<1> QED BY <1>11, <1>12, <1>13, <1>14, <1>15, <1>16, <1>17, CardsRowsInv

LEMMA CommitRewriteKeeps ==
    ASSUME CardsInv, NEW s \in Tellers, CommitCancel(s) \/ CommitEdit(s)
    PROVE  CardsInv'
<1>1. till[s].op \in {"cancel", "edit"} => till[s].charge \in Charges
  BY DEF CardsInv, VisitsOK, VisitOK, Peeked
<1>2. till[s].op \in {"cancel", "edit"} =>
         LET r == charge[till[s].charge]
         IN r \in Charge /\ r.kind = "purchase" /\ r.payer = Absent /\ r.cycle = till[s].cycle
  BY <1>1 DEF CardsInv, CardsTypeOK, VisitsOK, VisitOK, Peeked, ChargesOK, ChargeOK
<1>3. till[s].cost \in Nat
  BY DEF CardsInv, CardsTypeOK, Visit
<1>4. CASE CommitCancel(s)
  <2>1. till[s].op = "cancel" /\ Rewrite(s, CancelledCharge(s))
    BY <1>4 DEF CommitCancel, Granted
  <2>2. PICK row : row = CancelledCharge(s)
    OBVIOUS
  <2>3. /\ row \in Charge /\ row.state = "deleted" /\ row.kind = "purchase"
        /\ row.cycle = till[s].cycle /\ row.payer = Absent
    BY <1>2, <2>1, <2>2 DEF CancelledCharge, Charge
  <2> QED BY <2>1, <2>2, <2>3, RewriteKeeps
<1>5. CASE CommitEdit(s)
  <2>1. till[s].op = "edit" /\ Rewrite(s, EditedCharge(s))
    BY <1>5 DEF CommitEdit, Granted
  <2>2. PICK row : row = EditedCharge(s)
    OBVIOUS
  <2>3. charge[till[s].charge].state = "active"
    BY <2>1, Zenon DEF Rewrite
  <2>4. /\ row \in Charge /\ row.state = "active" /\ row.kind = "purchase"
        /\ row.cycle = till[s].cycle /\ row.payer = Absent /\ row.mirror = row.cost
    BY <1>2, <1>3, <2>1, <2>2, <2>3 DEF EditedCharge, Charge
  <2> QED BY <2>1, <2>2, <2>4, RewriteKeeps
<1> QED BY <1>4, <1>5

-----------------------------------------------------------------------------
(* A payment *)

LEMMA CommitPayKeeps ==
    ASSUME CardsInv, NEW s \in Tellers, CommitPay(s)
    PROVE  CardsInv'
<1>1. PICK c, a, cost : c = till[s].cycle /\ a = till[s].payer /\ cost = till[s].cost
  OBVIOUS
<1>2. /\ till[s].op = "pay" /\ Remaining(c) > 0 /\ cost <= Remaining(c)
      /\ statement' = [statement EXCEPT ![c] = PaidIn(statement[c], cost)]
      /\ purse' = [purse EXCEPT ![a] = purse[a] - cost]
      /\ card' = [card EXCEPT !.balance = card.balance + cost]
      /\ Leave(s) /\ UNCHANGED <<date, visits>>
  BY <1>1, Zenon DEF CommitPay, Granted
<1>3. PICK x \in NextUnused(1) : charge' = [charge EXCEPT ![x] = Paid(c, a, cost)]
  BY <1>1, Zenon DEF CommitPay
<1>4. x \in Charges /\ charge[x].state = "free" /\ charge[x] = NoCharge
  BY DEF NextUnused, Unused, CardsInv, ChargesOK, ChargeOK
<1>5. c \in Cycles /\ a \in Purses /\ cost \in Nat
  <2>1. till[s] \in Visit
    BY DEF CardsInv, CardsTypeOK
  <2>2. cost \in Nat
    BY <1>1, <2>1 DEF Visit
  <2> QED BY <1>1, <1>2, <2>2 DEF CardsInv, VisitsOK, VisitOK
<1>6. /\ charge \in [Charges -> Charge] /\ statement \in [Cycles -> Statement]
      /\ purse \in [Purses -> Int] /\ card \in [closing : ClosingDays, due : DueDays, balance : Int]
  BY DEF CardsInv, CardsTypeOK
<1>7. PICK row : row = Paid(c, a, cost)
  OBVIOUS
<1>8. /\ row \in Charge /\ row.state = "active" /\ row.kind = "payment" /\ row.cost = cost
      /\ row.cycle = c /\ row.payer = a /\ row.mirror = 0
  <2>1. /\ row.state = "active" /\ row.kind = "payment" /\ row.cost = cost
        /\ row.cycle = c /\ row.payer = a /\ row.mirror = 0
    BY <1>7 DEF Paid
  <2>2. row \in Charge
    BY <1>5, <1>7 DEF Paid, Charge
  <2> QED BY <2>1, <2>2
<1>9. /\ charge' \in [Charges -> Charge] /\ charge'[x] = row
      /\ \A y \in Charges : y # x => charge'[y] = charge[y]
  BY <1>3, <1>4, <1>6, <1>7, <1>8
<1>10. statement[c] \in Statement /\ statement'[c] = PaidIn(statement[c], cost)
  BY <1>2, <1>5, <1>6
<1>11. /\ statement'[c] \in Statement /\ statement'[c].total = statement[c].total
       /\ statement'[c].paid = statement[c].paid + cost
       /\ statement'[c].status # "none"
       /\ statement'[c].status = "open" => statement'[c].paid = 0
  BY <1>5, <1>10, PaidInIs
<1>12. \A d \in Cycles : d # c => statement'[d] = statement[d]
  BY <1>2, <1>6
<1>13. purse'[a] = purse[a] - cost /\ \A b \in Purses : b # a => purse'[b] = purse[b]
  BY <1>2, <1>5, <1>6
<1>14. till' \in [Tellers -> Visit] /\ LocksOK' /\ VisitsOK'
  <2>1. \A y \in Charges : Endures(y)
    BY <1>4, <1>9 DEF Endures
  <2> QED BY <1>2, <2>1, Frees
<1>15. CardsTypeOK'
  <2>1. statement' \in [Cycles -> Statement]
    BY <1>2, <1>6, <1>11, <1>12
  <2>2. purse' \in [Purses -> Int]
    BY <1>2, <1>5, <1>6
  <2>3. card' \in [closing : ClosingDays, due : DueDays, balance : Int]
    BY <1>2, <1>5, <1>6
  <2> QED BY <1>2, <1>9, <1>14, <2>1, <2>2, <2>3 DEF CardsInv, CardsTypeOK
<1>16. ChargesOK'
  <2>1. \A y \in Charges : y # x => ChargeOK(y)'
    BY <1>9 DEF CardsInv, ChargesOK, ChargeOK
  <2>2. ChargeOK(x)'
    BY <1>5, <1>8, <1>9 DEF ChargeOK
  <2> QED BY <2>1, <2>2 DEF ChargesOK
<1>17. OpenOK'
  BY <1>11, <1>12 DEF CardsInv, OpenOK
<1>18. NoCharge.cycle = 0 /\ NoCharge.payer = Absent /\ NoCharge.state = "free"
  BY DEF NoCharge
<1>19. ASSUME NEW d \in Cycles
       PROVE  BillOK(d)' /\ (statement[d].paid <= statement[d].total \/ Orphans(d) # {})'
  <2>1. statement'[d].total = statement[d].total
    BY <1>11, <1>12
  <2>2. Purchases(charge', d) = Purchases(charge, d)
    BY <1>4, <1>8, <1>9 DEF Purchases
  <2>3. \A y \in Purchases(charge, d) \cup Orphans(d) : charge'[y] = charge[y]
    BY <1>4, <1>9 DEF Purchases, Orphans
  <2>4. BillOK(d)' /\ Orphans(d) \subseteq Orphans(d)'
    BY <1>9, <2>1, <2>2, <2>3, BillKept
  <2>5. CASE d = c
    <3>1. cost <= statement[c].total - statement[c].paid
      BY <1>2 DEF Remaining
    <3>2. statement[c].total \in Nat /\ statement[c].paid \in Nat
      BY <1>10 DEF Statement
    <3>3. statement'[c].paid <= statement'[c].total
      BY <1>5, <1>11, <3>1, <3>2
    <3> QED BY <2>4, <2>5, <3>3
  <2>6. CASE d # c
    BY <1>12, <2>4, <2>6 DEF CardsInv, NeverOverpaid
  <2> QED BY <2>5, <2>6
<1>20. ASSUME NEW S \in SUBSET Charges, x \notin S
       PROVE  /\ Total(charge', S) = Total(charge, S)
              /\ Total(charge', S \cup {x}) = Total(charge, S) + cost
  <2>1. Total(charge', S) = Total(charge, S)
    BY <1>6, <1>9, <1>20, TotalSame
  <2>2. Total(charge', S \cup {x}) = Total(charge', S) + Total(charge', {x})
    <3>1. {x} \in SUBSET Charges /\ S \cap {x} = {}
      BY <1>4, <1>20
    <3> QED BY <1>9, <3>1, TotalJoined
  <2>3. Total(charge', {x}) = cost
    BY <1>4, <1>8, <1>9, TotalOne
  <2> QED BY <2>1, <2>2, <2>3
<1>21. \A d \in Cycles : CountedOK(d)'
  <2>1. ASSUME NEW d \in Cycles, d # c PROVE CountedOK(d)'
    <3>1. Payments(d)' = Payments(d) /\ \A y \in Payments(d) : charge'[y].cost = charge[y].cost
      BY <1>4, <1>8, <1>9, <2>1 DEF Payments
    <3>2. statement'[d].paid = statement[d].paid
      BY <1>12, <2>1
    <3> QED BY <1>9, <3>1, <3>2, CountKept
  <2>2. CountedOK(c)'
    <3>1. Payments(c)' = Payments(c) \cup {x} /\ Payments(c) \in SUBSET Charges /\ x \notin Payments(c)
      BY <1>4, <1>8, <1>9 DEF Payments
    <3>2. statement[c].paid = Total(charge, Payments(c))
      BY <1>5, CardsRowsOK DEF CountedOK
    <3> QED BY <1>11, <1>20, <3>1, <3>2 DEF CountedOK
  <2> QED BY <2>1, <2>2
<1>22. \A b \in Purses : TakenOK(b)'
  <2>1. ASSUME NEW b \in Purses, b # a PROVE TakenOK(b)'
    <3>1. Spendings(b)' = Spendings(b) /\ \A y \in Spendings(b) : charge'[y].cost = charge[y].cost
      BY <1>4, <1>8, <1>9, <2>1 DEF Spendings
    <3>2. purse'[b] = purse[b]
      BY <1>13, <2>1
    <3> QED BY <1>9, <3>1, <3>2, TakenKept
  <2>2. TakenOK(a)'
    <3>1. Spendings(a)' = Spendings(a) \cup {x} /\ Spendings(a) \in SUBSET Charges /\ x \notin Spendings(a)
      BY <1>4, <1>8, <1>9 DEF Spendings
    <3>2. purse[a] = -Total(charge, Spendings(a))
      BY <1>5, CardsRowsOK DEF TakenOK
    <3>3. Total(charge, Spendings(a)) \in Nat
      BY <1>6, <3>1, TotalIs
    <3>4. Total(charge', Spendings(a)') = Total(charge, Spendings(a)) + cost
      BY <1>20, <3>1
    <3>5. purse'[a] = -Total(charge', Spendings(a)')
      BY <1>5, <1>13, <3>2, <3>3, <3>4
    <3> QED BY <3>5 DEF TakenOK
  <2> QED BY <2>1, <2>2
<1> QED BY <1>14, <1>15, <1>16, <1>17, <1>19, <1>21, <1>22, CardsRowsInv

-----------------------------------------------------------------------------
(* A transaction deleted, and a category swept *)

LEMMA TombstoneKeeps ==
    ASSUME CardsInv, NEW s \in Tellers, NEW D \in SUBSET Charges,
           \A x \in D : charge[x].state = "active",
           Tombstone(D), Leave(s), UNCHANGED <<statement, date, visits>>,
           card' \in [closing : ClosingDays, due : DueDays, balance : Int],
           purse' \in [Purses -> Int],
           \A a \in Purses : purse'[a] = -Total(charge, Spendings(a) \ D)
    PROVE  CardsInv'
<1>1. charge \in [Charges -> Charge] /\ statement \in [Cycles -> Statement]
  BY DEF CardsInv, CardsTypeOK
<1>2. /\ \A x \in D : charge'[x] = [charge[x] EXCEPT !.state = "deleted"]
      /\ \A x \in Charges \ D : charge'[x] = charge[x]
  BY DEF Tombstone
<1>3. \A x \in D : /\ charge'[x] \in Charge /\ charge'[x].state = "deleted"
                   /\ charge'[x].kind = charge[x].kind /\ charge'[x].cost = charge[x].cost
                   /\ charge'[x].cycle = charge[x].cycle /\ charge'[x].payer = charge[x].payer
                   /\ charge'[x].mirror = charge[x].mirror
  <2>1. ASSUME NEW x \in D
        PROVE  /\ charge'[x] \in Charge /\ charge'[x].state = "deleted"
               /\ charge'[x].kind = charge[x].kind /\ charge'[x].cost = charge[x].cost
               /\ charge'[x].cycle = charge[x].cycle /\ charge'[x].payer = charge[x].payer
               /\ charge'[x].mirror = charge[x].mirror
    <3>1. charge[x] \in Charge /\ charge'[x] = [charge[x] EXCEPT !.state = "deleted"]
      BY <1>1, <1>2
    <3> QED BY <3>1 DEF Charge
  <2> QED BY <2>1
<1>4. charge' \in [Charges -> Charge] /\ \A x \in Charges : charge'[x].cost = charge[x].cost
  BY <1>1, <1>2, <1>3 DEF Tombstone
<1>5. till' \in [Tellers -> Visit] /\ LocksOK' /\ VisitsOK'
  <2>1. \A x \in Charges : Endures(x)
    BY <1>2, <1>3 DEF Endures
  <2> QED BY <2>1, Frees
<1>6. CardsTypeOK'
  BY <1>1, <1>4, <1>5 DEF CardsInv, CardsTypeOK
<1>7. ChargesOK'
  <2>1. \A x \in Charges \ D : ChargeOK(x)'
    BY <1>2 DEF CardsInv, ChargesOK, ChargeOK
  <2>2. \A x \in D : ChargeOK(x)'
    BY <1>3 DEF CardsInv, ChargesOK, ChargeOK
  <2> QED BY <2>1, <2>2 DEF ChargesOK
<1>8. OpenOK'
  BY DEF CardsInv, OpenOK
<1>9. \A c \in Cycles : CountedOK(c)'
  <2>1. ASSUME NEW c \in Cycles PROVE CountedOK(c)'
    <3>1. Payments(c)' = Payments(c) /\ \A x \in Payments(c) : charge'[x].cost = charge[x].cost
      BY <1>2, <1>3, <1>4 DEF Payments
    <3> QED BY <1>4, <3>1, CountKept
  <2> QED BY <2>1
<1>10. ASSUME NEW c \in Cycles
       PROVE  BillOK(c)' /\ (statement[c].paid <= statement[c].total \/ Orphans(c) # {})'
  <2>1. Orphans(c) \subseteq Orphans(c)'
    BY <1>2, <1>3 DEF Orphans
  <2>2. PICK S \in SUBSET Orphans(c) :
           statement[c].total = Total(charge, Purchases(charge, c) \cup S)
    BY CardsRowsOK DEF BillOK
  <2> DEFINE gone == D \cap Purchases(charge, c)
             orphaned == {x \in gone : charge[x].mirror # 0}
             left == Purchases(charge', c) \cup S \cup orphaned
             nothing == {x \in gone : charge[x].mirror = 0}
  <2>3. Purchases(charge', c) = Purchases(charge, c) \ D
    BY <1>2, <1>3 DEF Purchases
  <2>4. Purchases(charge, c) \subseteq Charges /\ S \subseteq Charges /\ S \cap Purchases(charge, c) = {}
    BY DEF Purchases, Orphans
  <2>5. Purchases(charge, c) \cup S = left \cup nothing
    BY <2>3
  <2>6. left \subseteq Charges /\ nothing \subseteq Charges /\ left \cap nothing = {}
    BY <2>3, <2>4
  <2>7. \A x \in nothing : charge[x].cost = 0
    BY DEF Purchases, CardsInv, ChargesOK, ChargeOK
  <2>8. orphaned \subseteq Orphans(c)'
    BY <1>3 DEF Purchases, Orphans
  <2>9. left = Purchases(charge', c) \cup (S \cup orphaned)
    OBVIOUS
  <2> HIDE DEF left, nothing, orphaned, gone
  <2>10. Total(charge, left) \in Nat /\ Total(charge', left) = Total(charge, left)
    BY <1>1, <1>4, <2>6, TotalIs, TotalSame
  <2>11. Total(charge, left \cup nothing) = Total(charge, left)
    <3>1. left \in SUBSET Charges /\ nothing \in SUBSET Charges
      BY <2>6
    <3>2. Total(charge, left \cup nothing) = Total(charge, left) + Total(charge, nothing)
      BY <1>1, <2>6, <3>1, TotalJoined
    <3>3. Total(charge, nothing) = 0
      BY <1>1, <2>7, <3>1, TotalZero
    <3> QED BY <2>10, <3>2, <3>3
  <2>12. statement'[c].total = Total(charge', Purchases(charge', c) \cup (S \cup orphaned))
    BY <2>2, <2>5, <2>9, <2>10, <2>11
  <2>13. S \cup orphaned \in SUBSET (Orphans(c)')
    BY <2>1, <2>8
  <2>14. BillOK(c)'
    BY <2>12, <2>13 DEF BillOK
  <2> QED BY <2>1, <2>14 DEF CardsInv, NeverOverpaid
<1>11. \A a \in Purses : TakenOK(a)'
  <2>1. ASSUME NEW a \in Purses PROVE TakenOK(a)'
    <3>1. Spendings(a)' = Spendings(a) \ D /\ Spendings(a) \ D \subseteq Charges
      BY <1>2, <1>3 DEF Spendings
    <3>2. Total(charge', Spendings(a) \ D) = Total(charge, Spendings(a) \ D)
      BY <1>1, <1>4, <3>1, TotalSame
    <3> QED BY <3>1, <3>2 DEF TakenOK
  <2> QED BY <2>1
<1> QED BY <1>5, <1>6, <1>7, <1>8, <1>9, <1>10, <1>11, CardsRowsInv

(* What a reversal gives back to an account *)
Back(s, a) ==
    SumFunctionOnSet([image \in till[s].images |-> image[2]],
                     {image \in till[s].images : AccountOf(image[1]) = a})

LEMMA RestoreIs ==
    ASSUME CardsInv, NEW s \in Tellers, Restore(s)
    PROVE  /\ card' \in [closing : ClosingDays, due : DueDays, balance : Int]
           /\ purse' \in [Purses -> Int]
           /\ \A a \in Purses : purse'[a] = purse[a] + Back(s, a) /\ purse[a] \in Int
           /\ \A a : /\ Back(s, a) \in Int
                     /\ (\A image \in till[s].images : AccountOf(image[1]) # a) => Back(s, a) = 0
<1>1. till[s] \in Visit /\ IsFiniteSet(till[s].images)
  BY DEF CardsInv, CardsTypeOK, VisitsOK, VisitOK
<1>2. till[s].images \subseteq Charges \X Nat
  BY <1>1 DEF Visit
<1>3. ASSUME NEW a
      PROVE  /\ Back(s, a) \in Int
             /\ (\A image \in till[s].images : AccountOf(image[1]) # a) => Back(s, a) = 0
  <2> DEFINE f == [image \in till[s].images |-> image[2]]
             S == {image \in till[s].images : AccountOf(image[1]) = a}
  <2>1. IsFiniteSet(S)
    BY <1>1, FS_Subset
  <2>2. \A x \in S : f[x] \in Nat
    BY <1>2
  <2>3. (\A image \in till[s].images : AccountOf(image[1]) # a) => S = {}
    OBVIOUS
  <2> HIDE DEF f, S
  <2>4. SumFunctionOnSet(f, S) \in Nat
    BY <2>1, <2>2, SumNatural
  <2>5. SumFunctionOnSet(f, {}) = 0
    BY SumEmpty
  <2>6. Back(s, a) = SumFunctionOnSet(f, S)
    BY DEF Back, f, S
  <2> QED BY <2>3, <2>4, <2>5, <2>6
<1>4. /\ card' = [card EXCEPT !.balance = card.balance + Back(s, Plastic)]
      /\ purse' = [a \in Purses |-> purse[a] + Back(s, a)]
  BY Zenon DEF Restore, Back
<1>5. card \in [closing : ClosingDays, due : DueDays, balance : Int] /\ purse \in [Purses -> Int]
  BY DEF CardsInv, CardsTypeOK
<1>6. card' \in [closing : ClosingDays, due : DueDays, balance : Int]
  BY <1>3, <1>4, <1>5
<1>7. purse' \in [Purses -> Int] /\ \A a \in Purses : purse'[a] = purse[a] + Back(s, a) /\ purse[a] \in Int
  BY <1>3, <1>4, <1>5
<1> QED BY <1>3, <1>6, <1>7

LEMMA CommitSweepKeeps ==
    ASSUME CardsInv, NEW s \in Tellers, CommitSweep(s)
    PROVE  CardsInv'
<1> DEFINE doomed == {x \in Charges : charge[x].state = "active" /\ charge[x].kind = "purchase"}
<1>1. /\ till[s].op = "sweep" /\ Tombstone(doomed) /\ Restore(s) /\ Leave(s)
      /\ UNCHANGED <<statement, date, visits>>
  BY Zenon DEF CommitSweep, Granted
<1>2. ASSUME NEW a \in Purses
      PROVE  /\ \A image \in till[s].images : AccountOf(image[1]) # a
             /\ Spendings(a) \ doomed = Spendings(a)
  <2>1. a # Absent /\ a # Plastic
    BY RowsAssumption
  <2>2. \A image \in till[s].images : charge[image[1]].kind = "purchase"
    BY <1>1 DEF CardsInv, VisitsOK, VisitOK
  <2>3. \A x \in doomed : charge[x].payer = Absent
    BY DEF CardsInv, ChargesOK, ChargeOK
  <2>4. \A image \in till[s].images : AccountOf(image[1]) # a
    BY <2>1, <2>2 DEF AccountOf
  <2> QED BY <2>1, <2>3, <2>4 DEF Spendings
<1>3. \A a \in Purses : purse'[a] = -Total(charge, Spendings(a) \ doomed)
  <2>1. ASSUME NEW a \in Purses PROVE purse'[a] = -Total(charge, Spendings(a) \ doomed)
    <3>1. purse'[a] = purse[a] + 0 /\ purse[a] \in Int
      BY <1>1, <1>2, RestoreIs
    <3>2. purse[a] = -Total(charge, Spendings(a))
      BY CardsRowsOK DEF TakenOK
    <3>3. purse'[a] = purse[a]
      BY <3>1
    <3> QED BY <1>2, <3>2, <3>3
  <2> QED BY <2>1
<1>4. doomed \in SUBSET Charges /\ \A x \in doomed : charge[x].state = "active"
  OBVIOUS
<1>5. /\ card' \in [closing : ClosingDays, due : DueDays, balance : Int]
      /\ purse' \in [Purses -> Int]
  BY <1>1, RestoreIs
<1> HIDE DEF doomed
<1> QED BY <1>1, <1>3, <1>4, <1>5, TombstoneKeeps

LEMMA CommitDeleteKeeps ==
    ASSUME CardsInv, NEW s \in Tellers, CommitDeleteCharge(s)
    PROVE  CardsInv'
<1>1. /\ till[s].op = "delete" /\ \A image \in till[s].images : StillThere(image[1])
      /\ Tombstone({image[1] : image \in till[s].images}) /\ Restore(s) /\ Leave(s)
      /\ UNCHANGED <<statement, date, visits>>
  BY DEF CommitDeleteCharge, Granted
<1>2. PICK image \in till[s].images : till[s].images = {image}
  BY <1>1 DEF CardsInv, VisitsOK, VisitOK
<1>3. till[s] \in Visit /\ charge \in [Charges -> Charge] /\ purse \in [Purses -> Int]
  BY DEF CardsInv, CardsTypeOK
<1>4. image \in Charges \X Nat
  BY <1>2, <1>3 DEF Visit
<1>5. PICK x \in Charges, cost \in Nat : image = <<x, cost>> /\ x = image[1] /\ cost = image[2]
  BY <1>4
<1>6. {i[1] : i \in till[s].images} = {x}
  BY <1>2, <1>5
<1>7. charge[x].state = "active" /\ (charge[x].kind = "payment" => cost = charge[x].cost)
  <2>1. ImageOK(image)
    BY <1>2 DEF CardsInv, VisitsOK, VisitOK
  <2> QED BY <1>1, <1>2, <1>5, <2>1 DEF StillThere, ImageOK
<1>8. \A a \in Purses : purse'[a] = -Total(charge, Spendings(a) \ {x})
  <2>1. ASSUME NEW a \in Purses PROVE purse'[a] = -Total(charge, Spendings(a) \ {x})
    <3>1. purse'[a] = purse[a] + Back(s, a) /\ purse[a] \in Int /\ Back(s, a) \in Int
      BY <1>1, RestoreIs
    <3>2. purse[a] = -Total(charge, Spendings(a)) /\ Spendings(a) \subseteq Charges
      BY CardsRowsOK DEF TakenOK, Spendings
    <3>3. a # Absent /\ a # Plastic
      BY RowsAssumption
    <3>4. CASE AccountOf(x) # a
      <4>1. Back(s, a) = 0
        <5>1. \A i \in till[s].images : AccountOf(i[1]) # a
          BY <1>2, <1>5, <3>4
        <5> QED BY <1>1, <5>1, RestoreIs
      <4>2. x \notin Spendings(a)
        BY <3>3, <3>4 DEF Spendings, AccountOf, CardsInv, ChargesOK, ChargeOK, CardsTypeOK, Charge
      <4>3. Spendings(a) \ {x} = Spendings(a)
        BY <4>2
      <4>4. purse'[a] = purse[a]
        BY <3>1, <4>1
      <4> QED BY <3>2, <4>3, <4>4
    <3>5. CASE AccountOf(x) = a
      <4>1. charge[x].kind = "payment" /\ charge[x].payer = a
        BY <3>3, <3>5 DEF AccountOf
      <4>2. Back(s, a) = cost
        <5> DEFINE f == [i \in till[s].images |-> i[2]]
        <5>1. {i \in till[s].images : AccountOf(i[1]) = a} = {image}
          BY <1>2, <1>5, <3>5
        <5>2. f[image] = cost /\ f[image] \in Int
          BY <1>2, <1>5
        <5>3. Back(s, a) = SumFunctionOnSet(f, {image})
          BY <5>1 DEF Back
        <5> HIDE DEF f
        <5> QED BY <5>2, <5>3, SumOne
      <4>3. Spendings(a) = (Spendings(a) \ {x}) \cup {x} /\ (Spendings(a) \ {x}) \cap {x} = {}
        BY <1>7, <4>1 DEF Spendings
      <4>4. Total(charge, Spendings(a)) = Total(charge, Spendings(a) \ {x}) + Total(charge, {x})
        <5>1. Spendings(a) \ {x} \in SUBSET Charges /\ {x} \in SUBSET Charges
          BY <3>2
        <5> QED BY <1>3, <4>3, <5>1, TotalJoined
      <4>5. Total(charge, {x}) = cost
        BY <1>3, <1>7, <4>1, TotalOne
      <4>6. Total(charge, Spendings(a) \ {x}) \in Nat
        BY <1>3, <3>2, TotalIs
      <4> QED BY <3>1, <3>2, <4>2, <4>4, <4>5, <4>6
    <3> QED BY <3>4, <3>5
  <2> QED BY <2>1
<1>9. /\ card' \in [closing : ClosingDays, due : DueDays, balance : Int]
      /\ purse' \in [Purses -> Int]
  BY <1>1, RestoreIs
<1>10. {x} \in SUBSET Charges /\ \A y \in {x} : charge[y].state = "active"
  BY <1>7
<1> QED BY <1>1, <1>6, <1>8, <1>9, <1>10, TombstoneKeeps

-----------------------------------------------------------------------------
(* The card, the date, and requests that fail *)

LEMMA OthersKeep ==
    ASSUME CardsInv,
           \/ \E closing \in ClosingDays, due \in DueDays : UpdateCard(closing, due)
           \/ NextDate
           \/ \E s \in Tellers : Abort(s)
    PROVE  CardsInv'
<1>1. CardsTypeOK
  BY DEF CardsInv
<1>2. UNCHANGED <<statement, charge, purse>> /\ CardsTypeOK' /\ LocksOK' /\ VisitsOK'
  <2>1. ASSUME NEW closing \in ClosingDays, NEW due \in DueDays, UpdateCard(closing, due)
        PROVE  UNCHANGED <<statement, charge, purse>> /\ CardsTypeOK' /\ LocksOK' /\ VisitsOK'
    <3>1. /\ visits' = visits + 1 /\ visits < MaxVisits
          /\ card' = [card EXCEPT !.closing = closing, !.due = due]
          /\ UNCHANGED <<statement, charge, purse, date, till>>
      BY <2>1 DEF UpdateCard
    <3>2. card' \in [closing : ClosingDays, due : DueDays, balance : Int]
      BY <1>1, <3>1 DEF CardsTypeOK
    <3>3. visits' \in 0 .. MaxVisits
      BY <1>1, <3>1, TermsAssumption DEF CardsTypeOK
    <3>4. CardsTypeOK'
      BY <1>1, <3>1, <3>2, <3>3 DEF CardsTypeOK
    <3>5. LocksOK'
      BY <3>1 DEF CardsInv, LocksOK, QueueOK
    <3>6. VisitsOK'
      BY <3>1 DEF CardsInv, VisitsOK, VisitOK, Peeked, ImageOK
    <3> QED BY <3>1, <3>4, <3>5, <3>6
  <2>2. ASSUME NextDate
        PROVE  UNCHANGED <<statement, charge, purse>> /\ CardsTypeOK' /\ LocksOK' /\ VisitsOK'
    <3>1. date' \in Dates /\ UNCHANGED <<statement, charge, card, purse, till, visits>>
      BY <2>2 DEF NextDate
    <3>2. CardsTypeOK'
      BY <1>1, <3>1 DEF CardsTypeOK
    <3>3. LocksOK'
      BY <3>1 DEF CardsInv, LocksOK, QueueOK
    <3>4. VisitsOK'
      BY <3>1 DEF CardsInv, VisitsOK, VisitOK, Peeked, ImageOK
    <3> QED BY <3>1, <3>2, <3>3, <3>4
  <2>3. ASSUME NEW s \in Tellers, Abort(s)
        PROVE  UNCHANGED <<statement, charge, purse>> /\ CardsTypeOK' /\ LocksOK' /\ VisitsOK'
    <3>1. Leave(s) /\ UNCHANGED <<statement, charge, card, purse, date, visits>>
      BY <2>3 DEF Abort
    <3>2. \A x \in Charges : Endures(x)
      BY <3>1 DEF Endures
    <3>3. till' \in [Tellers -> Visit] /\ LocksOK' /\ VisitsOK'
      BY <3>1, <3>2, Frees
    <3>4. CardsTypeOK'
      BY <1>1, <3>1, <3>3 DEF CardsTypeOK
    <3> QED BY <3>1, <3>3, <3>4
  <2> QED BY <2>1, <2>2, <2>3
<1>3. ChargesOK' /\ OpenOK'
  BY <1>2 DEF CardsInv, ChargesOK, ChargeOK, OpenOK
<1>4. /\ \A c : Purchases(charge, c)' = Purchases(charge, c) /\ Orphans(c)' = Orphans(c)
      /\ \A S : Total(charge, S)' = Total(charge, S)
      /\ \A a : Payments(a)' = Payments(a) /\ Spendings(a)' = Spendings(a)
  BY <1>2 DEF Purchases, Orphans, Total, Payments, Spendings
<1>5. \A c \in Cycles : BillOK(c)' /\ CountedOK(c)'
  BY <1>2, <1>4, CardsRowsOK DEF BillOK, CountedOK
<1>6. \A c \in Cycles : (statement[c].paid <= statement[c].total \/ Orphans(c) # {})'
  BY <1>2, <1>4 DEF CardsInv, NeverOverpaid
<1>7. \A a \in Purses : TakenOK(a)'
  BY <1>2, <1>4, CardsRowsOK DEF TakenOK
<1> QED BY <1>2, <1>3, <1>5, <1>6, <1>7, CardsRowsInv

-----------------------------------------------------------------------------
(* The first state *)

LEMMA CardsStart == CardsInit => CardsInv
<1> SUFFICES ASSUME CardsInit PROVE CardsInv
  OBVIOUS
<1>1. PICK closing \in ClosingDays, due \in DueDays, cost \in Costs, a \in Purses :
      \E paid \in {0} \cup {k \in Costs : k <= cost},
         bought \in Earliest(Charges) : \E receipt \in Earliest(Charges \ {bought}) :
          LET closes == ClosingDate(date, closing)
              p == [cycle |-> Month(closes), cost |-> cost]
              s == [NoStatement EXCEPT !.closing = closes, !.due = DueDate(closes, due),
                                       !.total = cost, !.paid = paid]
          IN
          /\ p.cycle \in Cycles
          /\ card = [closing |-> closing, due |-> due, balance |-> paid]
          /\ charge = [x \in Charges |->
                IF x = bought THEN Bought(p)
                ELSE IF x = receipt /\ paid > 0 THEN Paid(p.cycle, a, paid)
                ELSE NoCharge]
          /\ statement = [c \in Cycles |->
                IF c = p.cycle THEN [s EXCEPT !.status = ComputeStatus(s, date)]
                ELSE NoStatement]
          /\ purse = [b \in Purses |-> IF b = a THEN -paid ELSE 0]
  BY Zenon DEF CardsInit
<1>2. PICK paid \in {0} \cup {k \in Costs : k <= cost},
           bought \in Earliest(Charges) : \E receipt \in Earliest(Charges \ {bought}) :
          LET closes == ClosingDate(date, closing)
              p == [cycle |-> Month(closes), cost |-> cost]
              s == [NoStatement EXCEPT !.closing = closes, !.due = DueDate(closes, due),
                                       !.total = cost, !.paid = paid]
          IN
          /\ p.cycle \in Cycles
          /\ card = [closing |-> closing, due |-> due, balance |-> paid]
          /\ charge = [x \in Charges |->
                IF x = bought THEN Bought(p)
                ELSE IF x = receipt /\ paid > 0 THEN Paid(p.cycle, a, paid)
                ELSE NoCharge]
          /\ statement = [c \in Cycles |->
                IF c = p.cycle THEN [s EXCEPT !.status = ComputeStatus(s, date)]
                ELSE NoStatement]
          /\ purse = [b \in Purses |-> IF b = a THEN -paid ELSE 0]
  BY <1>1, Zenon
<1> DEFINE closes == ClosingDate(date, closing)
           p == [cycle |-> Month(closes), cost |-> cost]
           s == [NoStatement EXCEPT !.closing = closes, !.due = DueDate(closes, due),
                                    !.total = cost, !.paid = paid]
<1>3. PICK receipt \in Earliest(Charges \ {bought}) :
          /\ p.cycle \in Cycles
          /\ card = [closing |-> closing, due |-> due, balance |-> paid]
          /\ charge = [x \in Charges |->
                IF x = bought THEN Bought(p)
                ELSE IF x = receipt /\ paid > 0 THEN Paid(p.cycle, a, paid)
                ELSE NoCharge]
          /\ statement = [c \in Cycles |->
                IF c = p.cycle THEN [s EXCEPT !.status = ComputeStatus(s, date)]
                ELSE NoStatement]
          /\ purse = [b \in Purses |-> IF b = a THEN -paid ELSE 0]
  BY <1>2, Zenon
<1>4. /\ date \in Dates /\ date \in Nat /\ bought \in Charges /\ receipt \in Charges /\ receipt # bought
      /\ closing \in 1 .. 31 /\ due \in 1 .. 31 /\ cost \in Nat /\ paid \in Nat /\ paid <= cost
      /\ cost # 0
  BY TermsAssumption DEF CardsInit, Earliest
<1>5. closes \in Nat /\ DueDate(closes, due) \in Nat
  BY <1>4, ClosingDateIs, DueDateIs
<1>6. till = [r \in Tellers |-> NoVisit] /\ visits = 0
  BY DEF CardsInit
<1>7. PICK cycle : cycle = p.cycle /\ cycle \in Cycles
  BY <1>3
<1>8. p.cost = cost
  OBVIOUS
<1>9. PICK buying, paying : buying = Bought(p) /\ paying = Paid(cycle, a, paid)
  OBVIOUS
<1>10. PICK row : row = [s EXCEPT !.status = ComputeStatus(s, date)]
  OBVIOUS
<1>11. s \in Statement /\ s.total = cost /\ s.paid = paid
  <2>1. PICK m, n : m = closes /\ n = DueDate(closes, due) /\ m \in Nat /\ n \in Nat
    BY <1>5
  <2>2. s = [NoStatement EXCEPT !.closing = m, !.due = n, !.total = cost, !.paid = paid]
    BY <2>1
  <2>3. NoStatement \in Statement
    BY DEF NoStatement, Statement
  <2> HIDE DEF s
  <2>4. s \in Statement
    BY <1>4, <2>1, <2>2, <2>3 DEF Statement
  <2>5. s.total = cost /\ s.paid = paid
    BY <2>2, <2>3 DEF Statement
  <2> QED BY <2>4, <2>5
<1> HIDE DEF s
<1>12. row \in Statement /\ row.total = cost /\ row.paid = paid /\ (row.status \in {"none", "open"} => paid = 0)
  <2>1. PICK status : status = ComputeStatus(s, date)
    OBVIOUS
  <2>2. /\ status \in {"open", "partial", "closed", "overdue", "paid"}
        /\ status = "open" => paid = 0
    BY <1>11, <2>1, StatusIs
  <2>3. row = [s EXCEPT !.status = status]
    BY <1>10, <2>1
  <2>4. row.total = cost /\ row.paid = paid /\ row.status = status
    BY <1>11, <2>3 DEF Statement
  <2>5. row \in Statement
    BY <1>11, <2>2, <2>3 DEF Statement
  <2> QED BY <2>2, <2>4, <2>5
<1>13. /\ buying.state = "active" /\ buying.kind = "purchase" /\ buying.cost = cost
       /\ buying.cycle = cycle /\ buying.payer = Absent /\ buying.mirror = cost
       /\ paying.state = "active" /\ paying.kind = "payment" /\ paying.cost = paid
       /\ paying.cycle = cycle /\ paying.payer = a /\ paying.mirror = 0
       /\ NoCharge.state = "free" /\ NoCharge.kind = "purchase" /\ NoCharge.cost = 0
       /\ NoCharge.cycle = 0 /\ NoCharge.payer = Absent /\ NoCharge.mirror = 0
  BY <1>7, <1>8, <1>9 DEF Bought, Paid, NoCharge
<1>14. buying \in Charge /\ paying \in Charge /\ NoCharge \in Charge
  <2>1. buying \in Charge
    BY <1>4, <1>7, <1>8, <1>9 DEF Bought, Charge
  <2>2. paying \in Charge
    BY <1>4, <1>7, <1>9 DEF Paid, Charge
  <2>3. NoCharge \in Charge
    BY DEF NoCharge, Charge
  <2> QED BY <2>1, <2>2, <2>3
<1>15. /\ charge = [x \in Charges |-> IF x = bought THEN buying
                                      ELSE IF x = receipt /\ paid > 0 THEN paying ELSE NoCharge]
       /\ statement = [c \in Cycles |-> IF c = cycle THEN row ELSE NoStatement]
  BY <1>3, <1>7, <1>9, <1>10
<1> HIDE DEF p, closes
<1>16. /\ charge[bought] = buying /\ charge[receipt] = IF paid > 0 THEN paying ELSE NoCharge
       /\ \A x \in Charges \ {bought, receipt} : charge[x] = NoCharge
       /\ charge \in [Charges -> Charge]
  BY <1>4, <1>14, <1>15
<1>17. /\ NoStatement \in Statement /\ NoStatement.status = "none" /\ NoStatement.total = 0
       /\ NoStatement.paid = 0
  BY DEF NoStatement, Statement
<1>18. /\ statement[cycle] = row /\ \A c \in Cycles \ {cycle} : statement[c] = NoStatement
       /\ statement \in [Cycles -> Statement]
  BY <1>7, <1>12, <1>15, <1>17
<1>19. CardsTypeOK
  <2>1. till \in [Tellers -> Visit] /\ visits \in 0 .. MaxVisits
    BY <1>6, NoVisitIs, TermsAssumption
  <2>2. card \in [closing : ClosingDays, due : DueDays, balance : Int] /\ purse \in [Purses -> Int]
    BY <1>3, <1>4
  <2> QED BY <1>4, <1>16, <1>18, <2>1, <2>2 DEF CardsTypeOK
<1>20. LocksOK /\ VisitsOK
  BY <1>6, NoVisitIs DEF LocksOK, VisitsOK
<1>21. ChargesOK
  <2>1. ChargeOK(bought)
    BY <1>7, <1>13, <1>16 DEF ChargeOK
  <2>2. ChargeOK(receipt)
    BY <1>7, <1>13, <1>16 DEF ChargeOK
  <2>3. \A x \in Charges \ {bought, receipt} : ChargeOK(x)
    BY <1>13, <1>16 DEF ChargeOK
  <2> QED BY <2>1, <2>2, <2>3 DEF ChargesOK
<1>22. OpenOK
  BY <1>12, <1>17, <1>18 DEF OpenOK
<1>23. 0 \notin Cycles /\ Absent \notin Purses
  BY RowsAssumption
<1>24. Total(charge, {}) = 0
  BY SumEmpty DEF Total
<1>25. ASSUME NEW c \in Cycles
       PROVE  /\ Purchases(charge, c) = IF c = cycle THEN {bought} ELSE {}
              /\ Payments(c) = IF c = cycle /\ paid > 0 THEN {receipt} ELSE {}
  BY <1>4, <1>13, <1>16, <1>23 DEF Purchases, Payments
<1>26. Total(charge, {bought}) = cost /\ (paid > 0 => Total(charge, {receipt}) = paid)
  BY <1>4, <1>13, <1>16, TotalOne
<1>27. TotalsLoseNothing
  <2>1. ASSUME NEW c \in Cycles
        PROVE  \E S \in SUBSET Orphans(c) :
                  statement[c].total = Total(charge, Purchases(charge, c) \cup S)
    <3>1. Purchases(charge, c) \cup {} = Purchases(charge, c)
      OBVIOUS
    <3>2. statement[c].total = Total(charge, Purchases(charge, c))
      BY <1>12, <1>17, <1>18, <1>24, <1>25, <1>26
    <3> QED BY <3>1, <3>2
  <2>2. \A x \in Charges : charge[x].state = "active" /\ charge[x].kind = "purchase" =>
            charge[x].mirror = charge[x].cost
    BY <1>21 DEF ChargesOK, ChargeOK
  <2> QED BY <2>1, <2>2 DEF TotalsLoseNothing
<1>28. NeverOverpaid
  BY <1>4, <1>12, <1>17, <1>18 DEF NeverOverpaid
<1>29. PaymentsBookedOnce
  <2>1. ASSUME NEW c \in Cycles PROVE statement[c].paid = Total(charge, Payments(c))
    BY SMTT(30), <1>4, <1>12, <1>17, <1>18, <1>24, <1>25, <1>26
  <2>2. ASSUME NEW b \in Purses PROVE purse[b] = -Total(charge, Spendings(b))
    <3>1. Spendings(b) = IF b = a /\ paid > 0 THEN {receipt} ELSE {}
      BY <1>4, <1>13, <1>16, <1>23 DEF Spendings
    <3>2. purse[b] = IF b = a THEN -paid ELSE 0
      BY <1>3
    <3>3. paid = 0 \/ paid > 0
      BY <1>4
    <3> QED BY <1>24, <1>26, <3>1, <3>2, <3>3
  <2> QED BY <2>1, <2>2 DEF PaymentsBookedOnce
<1> QED BY <1>19, <1>20, <1>21, <1>22, <1>27, <1>28, <1>29 DEF CardsInv

-----------------------------------------------------------------------------
(* The specification *)

LEMMA CardsStep == CardsInv /\ [CardsNext]_cardsVars => CardsInv'
<1> SUFFICES ASSUME CardsInv, [CardsNext]_cardsVars PROVE CardsInv'
  OBVIOUS
<1>1. CASE \/ \E closing \in ClosingDays, due \in DueDays : UpdateCard(closing, due)
           \/ NextDate
           \/ \E s \in Tellers : Abort(s)
  BY <1>1, OthersKeep
<1>2. ASSUME NEW s \in Tellers, AtCounter(s) PROVE CardsInv'
  <2>1. ASSUME NEW d \in Dates, NEW cost \in Costs, CreateCardPurchase(s, d, cost) PROVE CardsInv'
    BY <2>1, Buys DEF CreateCardPurchase
  <2>2. ASSUME NEW d \in Dates, NEW cost \in Costs, NEW n \in Splits,
               CreateCardInstallments(s, d, n, cost)
        PROVE  CardsInv'
    <3>1. n \in Nat \ {0}
      BY TermsAssumption
    <3> QED BY <2>2, <3>1, Buys DEF CreateCardInstallments
  <2>3. ASSUME NEW x \in Charges, CancelPurchase(s, x) PROVE CardsInv'
    BY <2>3, Peeks DEF CancelPurchase
  <2>4. ASSUME NEW x \in Charges, NEW cost \in Costs, UpdatePurchase(s, x, cost) PROVE CardsInv'
    <3>1. cost \in Nat
      BY TermsAssumption
    <3> QED BY <2>4, <3>1, Peeks DEF UpdatePurchase
  <2> QED BY <1>2, <2>1, <2>2, <2>3, <2>4, PayBegins, DeleteBegins, SweepBegins DEF AtCounter
<1>3. ASSUME NEW s \in Tellers,
             \/ TakeLock(s) \/ CommitBuy(s) \/ CommitCancel(s) \/ CommitEdit(s)
             \/ CommitPay(s) \/ CommitDeleteCharge(s) \/ CommitSweep(s)
      PROVE  CardsInv'
  BY <1>3, LockTaken, CommitBuyKeeps, CommitRewriteKeeps, CommitPayKeeps, CommitDeleteKeeps,
     CommitSweepKeeps
<1>4. CASE UNCHANGED cardsVars
  <2>1. UNCHANGED <<statement, charge, card, purse, date, till, visits>>
    BY <1>4 DEF cardsVars
  <2>2. /\ \A c : Purchases(charge, c)' = Purchases(charge, c) /\ Orphans(c)' = Orphans(c)
        /\ \A S : Total(charge, S)' = Total(charge, S)
        /\ \A a : Payments(a)' = Payments(a) /\ Spendings(a)' = Spendings(a)
    BY <2>1 DEF Purchases, Orphans, Total, Payments, Spendings
  <2>3. \A c \in Cycles : BillOK(c)' /\ CountedOK(c)'
    BY <2>1, <2>2, CardsRowsOK DEF BillOK, CountedOK
  <2>4. \A c \in Cycles : (statement[c].paid <= statement[c].total \/ Orphans(c) # {})'
    BY <2>1, <2>2 DEF CardsInv, NeverOverpaid
  <2>5. \A a \in Purses : TakenOK(a)'
    BY <2>1, <2>2, CardsRowsOK DEF TakenOK
  <2>6. CardsTypeOK' /\ LocksOK' /\ VisitsOK' /\ ChargesOK' /\ OpenOK'
    BY <2>1 DEF CardsInv, CardsTypeOK, LocksOK, QueueOK, VisitsOK, VisitOK, Peeked, ImageOK,
                ChargesOK, ChargeOK, OpenOK
  <2> QED BY <2>3, <2>4, <2>5, <2>6, CardsRowsInv
<1> QED BY <1>1, <1>2, <1>3, <1>4 DEF CardsNext

(* CardsInv is an invariant, whatever overlaps and whatever is rolled back. *)
THEOREM CardsInvariance == CardsSpec => []CardsInv
<1> QED BY CardsStart, CardsStep, PTL DEF CardsSpec

(* Every variable stays in its type. *)
THEOREM CardsTypes == CardsSpec => []CardsTypeOK
<1>1. CardsInv => CardsTypeOK
  BY DEF CardsInv
<1> QED BY <1>1, CardsInvariance, PTL

(* Overlapping purchases, edits and cancellations lose none of each other  *)
(* in the total of a statement.                                             *)
THEOREM TotalsHold == CardsSpec => []TotalsLoseNothing
<1>1. CardsInv => TotalsLoseNothing
  BY DEF CardsInv
<1> QED BY <1>1, CardsInvariance, PTL

(* A statement is never paid more than it asks for, unless the ledger has   *)
(* removed one of its purchases.                                            *)
THEOREM PaidWithinTotal == CardsSpec => []NeverOverpaid
<1>1. CardsInv => NeverOverpaid
  BY DEF CardsInv
<1> QED BY <1>1, CardsInvariance, PTL

(* Every payment is counted once on its statement and taken once from its   *)
(* payer.                                                                   *)
THEOREM PaymentsHold == CardsSpec => []PaymentsBookedOnce
<1>1. CardsInv => PaymentsBookedOnce
  BY DEF CardsInv
<1> QED BY <1>1, CardsInvariance, PTL

(* CardsNeverDeadlock (F5): in the order in which the requests of a card    *)
(* take their locks, however many there are, none of them wait for each     *)
(* other in a circle.                                                       *)
THEOREM LocksAreOrdered == CardsSpec => []CardsNeverDeadlock
<1>1. CardsInv => CardsNeverDeadlock
  <2>1. SUFFICES ASSUME CardsInv, NEW S \in SUBSET Tellers, S # {},
                        \A r \in S : \E s \in S : s # r /\ Blocks(s, r)
                 PROVE  FALSE
    BY DEF CardsNeverDeadlock
  <2> DEFINE sought == [r \in S |-> Head(till[r].wants)]
  <2>2. ASSUME NEW r \in S
        PROVE  /\ sought[r] \in Locks /\ till[r].wants # <<>>
               /\ \E s \in S : s # r /\ sought[r] \in till[s].held
               /\ \A h \in till[r].held : Sooner(h, sought[r])
    <3>1. PICK s \in S : s # r /\ Blocks(s, r)
      BY <2>1
    <3>2. till[r].wants # <<>> /\ sought[r] \in till[s].held
      BY <3>1 DEF Blocks
    <3>3. till[r].wants \in Seq(Locks)
      BY <2>1 DEF CardsInv, CardsTypeOK, Visit
    <3>4. sought[r] \in Locks /\ sought[r] = till[r].wants[1] /\ 1 \in DOMAIN till[r].wants
      BY <3>2, <3>3
    <3>5. QueueOK(till[r])
      BY <2>1 DEF CardsInv, LocksOK
    <3> HIDE DEF sought
    <3>6. \A h \in till[r].held : Sooner(h, sought[r])
      BY <3>4, <3>5 DEF QueueOK
    <3> QED BY <3>1, <3>2, <3>4, <3>6
  <2> HIDE DEF sought
  <2>3. \A r \in S : \E s \in S : Sooner(sought[r], sought[s]) /\ sought[r] # sought[s]
    <3>1. SUFFICES ASSUME NEW r \in S
                   PROVE  \E s \in S : Sooner(sought[r], sought[s]) /\ sought[r] # sought[s]
      OBVIOUS
    <3>2. PICK s \in S : s # r /\ sought[r] \in till[s].held
      BY <2>2
    <3>3. PICK q \in S : q # s /\ sought[s] \in till[q].held
      BY <2>2
    <3>4. till[s].held \cap till[q].held = {}
      BY <2>1, <3>3 DEF CardsInv, LocksOK
    <3>5. sought[r] # sought[s]
      BY <3>2, <3>3, <3>4
    <3>6. Sooner(sought[r], sought[s])
      BY <2>2, <3>2
    <3> QED BY <3>5, <3>6
  <2>4. \A r \in S : sought[r] \in Cycles
    <3>1. \A r \in S : sought[r] \in Locks
      BY <2>2
    <3>2. \A r \in S : sought[r] \notin Charges
      BY <2>3, RowsAssumption DEF Sooner
    <3>3. \A r \in S : sought[r] # Plastic
      BY <2>3, <3>2, RowsAssumption DEF Sooner
    <3>4. \A r \in S : sought[r] \notin Purses
      BY <2>3, <3>2, <3>3, RowsAssumption DEF Sooner
    <3> QED BY <3>1, <3>2, <3>3, <3>4 DEF Locks
  <2>5. \A r \in S : \E s \in S : sought[r] < sought[s]
    <3>1. SUFFICES ASSUME NEW r \in S PROVE \E s \in S : sought[r] < sought[s]
      OBVIOUS
    <3>2. PICK s \in S : Sooner(sought[r], sought[s]) /\ sought[r] # sought[s]
      BY <2>3
    <3> QED BY <2>4, <3>2, RowsAssumption DEF Sooner
  <2>6. \A r \in S : sought[r] \in Int
    <3>1. \A c \in Cycles : c \in Int
      BY RowsAssumption
    <3> QED BY <2>4, <3>1
  <2>7. IsFiniteSet(S)
    BY <2>1, FS_Subset, TermsAssumption
  <2>8. PICK r \in S : \A s \in S : sought[s] <= sought[r]
    BY <2>1, <2>6, <2>7, LargestOfSome
  <2> QED BY <2>5, <2>6, <2>8
<1> QED BY <1>1, CardsInvariance, PTL

-----------------------------------------------------------------------------
(* The bills of a household *)

(* A row is what it was made of until it is used, and stays used. *)
BillRowOK(row) ==
    /\ row.status \in {"free", "pending", "overdue"} => row.payment = Nobody
    /\ row.status = "paid" => row.payment # Nobody

(* Two bills have no payment in common; a payment says what its bill says,  *)
(* and is there until a cascade removes it.                                 *)
BillsOK ==
    /\ \A b \in Bills : BillRowOK(bill[b])
    /\ \A b \in Bills : bill[b].payment # Nobody =>
          /\ bill[b].paid = PaymentOf(b).price
          /\ PaymentOf(b).state = "active" \/ bill[b].payment \in wiped
    /\ \A b, d \in Bills : bill[b].payment = bill[d].payment =>
          b = d \/ bill[b].payment = Nobody

WipedOK == \A e \in wiped : posting[e].state # "free"

Locking(job) == job.op \in {"pay", "unpay"}

(* The bill of a payment, or of its undoing, is as it was read. *)
LockedOK(job) ==
    Locking(job) =>
        /\ job.bill \in Bills /\ job.row = bill[job.bill]
        /\ job.op = "pay" => job.row.status \in {"pending", "overdue"}
        /\ job.op = "unpay" => /\ job.row.status = "paid"
                               /\ job.named \in {job.row.payment, Nobody}
                               /\ ~job.seen => posting[job.row.payment].state = "deleted"

(* A transaction to be deleted is the payment of no bill. *)
ImagesOK(job) ==
    /\ \A e \in job.images : posting[e].state # "free"
    /\ job.op = "delete" => \E e \in job.images : job.images = {e} /\ ~Linked(e)

(* A bill that is updated is one, and an automatic one is its template's. *)
FreshOK(job) ==
    /\ job.op = "update" => job.bill \in Bills /\ bill[job.bill].status # "free"
    /\ job.todo \subseteq templates
    /\ \A row \in job.fresh : \E t \in templates : row = BillOf(t, NextDue(t.day, job.day))

JobsOK ==
    /\ \A c \in Clerks : LockedOK(desk[c]) /\ ImagesOK(desk[c]) /\ FreshOK(desk[c])
    /\ \A c, d \in Clerks : c # d /\ Locking(desk[c]) /\ Locking(desk[d]) =>
          desk[c].bill # desk[d].bill

PayablesInv ==
    /\ PayablesTypeOK /\ BillsOK /\ WipedOK /\ JobsOK /\ FundsMatchUnlessRaced

-----------------------------------------------------------------------------
(* Due dates *)

LEMMA NextDueIs ==
    ASSUME NEW d \in Nat, NEW day \in 1 .. 31
    PROVE  /\ NextDue(day, d) \in Nat
           /\ NextDue(day, d) \in Earliest({x \in d .. d + 200 :
                  Day(x) \in 1 .. DaysIn(Month(x))
                    /\ (Day(x) = day \/ (Day(x) < day /\ Day(x) = DaysIn(Month(x))))})
<1> DEFINE S == {x \in d .. d + 200 :
                  Day(x) \in 1 .. DaysIn(Month(x))
                    /\ (Day(x) = day \/ (Day(x) < day /\ Day(x) = DaysIn(Month(x))))}
           m == Month(d)
<1>1. m \in Nat /\ Day(d) \in 0 .. 99 /\ d = 100 * m + Day(d)
  BY DateIs
<1>2. day \in 0 .. 99
  OBVIOUS
<1>3. ASSUME NEW k \in {m, m + 1}
      PROVE  LET x == OnDay(k, day)
             IN /\ x \in Nat /\ Month(x) = k /\ x = 100 * k + Day(x) /\ Day(x) \in 1 .. DaysIn(k)
                /\ Day(x) = IF day <= DaysIn(k) THEN day ELSE DaysIn(k)
  <2>1. k \in Nat /\ DaysIn(k) \in 28 .. 31
    BY <1>1, <1>3, DaysInIs
  <2>2. PICK x : x = OnDay(k, day)
    OBVIOUS
  <2>3. /\ x \in Nat /\ Month(x) = k /\ x = 100 * k + Day(x)
        /\ Day(x) = IF day <= DaysIn(k) THEN day ELSE DaysIn(k)
    BY <1>2, <2>1, <2>2, OnDayIs
  <2>4. Day(x) \in 1 .. DaysIn(k)
    BY <2>1, <2>3
  <2> QED BY <2>2, <2>3, <2>4
<1>4. \A x \in S : /\ x \in Nat /\ x >= d /\ x <= d + 200 /\ Month(x) \in Nat /\ Day(x) \in 0 .. 99
                   /\ x = 100 * Month(x) + Day(x) /\ Day(x) <= DaysIn(Month(x))
                   /\ Day(x) = day \/ (Day(x) < day /\ Day(x) = DaysIn(Month(x)))
  BY DateIs, DaysInIs
<1>5. DaysIn(m) \in 28 .. 31 /\ DaysIn(m + 1) \in 28 .. 31
  BY DaysInIs
<1>6. ASSUME NEW k \in {m, m + 1}, NEW x, x = OnDay(k, day), x \in d .. d + 200
      PROVE  x \in S
  BY <1>3, <1>5, <1>6
<1> HIDE DEF S
<1>7. CASE OnDay(m, day) >= d
  <2>1. PICK x : x = OnDay(m, day)
    OBVIOUS
  <2>2. /\ x \in Nat /\ Month(x) = m /\ x = 100 * m + Day(x) /\ Day(x) \in 1 .. DaysIn(m)
        /\ Day(x) = IF day <= DaysIn(m) THEN day ELSE DaysIn(m)
    BY <1>3, <2>1
  <2>3. NextDue(day, d) = x
    BY <1>7, <2>1, <2>2 DEF NextDue
  <2>4. x \in d .. d + 200
    BY <1>1, <1>5, <1>7, <2>1, <2>2
  <2>5. x \in S
    BY <1>6, <2>1, <2>4
  <2>6. ASSUME NEW y \in S PROVE x <= y
    <3>1. SUFFICES ASSUME y < x PROVE FALSE
      BY <1>4, <2>2
    <3>2. PICK n, e : n = Month(y) /\ e = Day(y)
      OBVIOUS
    <3>3. /\ y \in Nat /\ y >= d /\ n \in Nat /\ e \in 0 .. 99 /\ y = 100 * n + e /\ e <= DaysIn(n)
          /\ e = day \/ (e < day /\ e = DaysIn(n))
      BY <1>4, <3>2
    <3>4. n = m
      BY <1>1, <1>5, <2>2, <3>1, <3>3
    <3>5. e < Day(x)
      BY <2>2, <3>1, <3>3, <3>4
    <3> QED BY <1>5, <2>2, <3>3, <3>4, <3>5
  <2> QED BY <2>2, <2>3, <2>5, <2>6 DEF Earliest, S
<1>8. CASE OnDay(m, day) < d
  <2>1. PICK z, x : z = OnDay(m, day) /\ x = OnDay(m + 1, day)
    OBVIOUS
  <2>2. /\ z \in Nat /\ Month(z) = m /\ z = 100 * m + Day(z) /\ Day(z) \in 1 .. DaysIn(m)
        /\ Day(z) = IF day <= DaysIn(m) THEN day ELSE DaysIn(m)
    BY <1>3, <2>1
  <2>3. /\ x \in Nat /\ Month(x) = m + 1 /\ x = 100 * (m + 1) + Day(x)
        /\ Day(x) \in 1 .. DaysIn(m + 1)
        /\ Day(x) = IF day <= DaysIn(m + 1) THEN day ELSE DaysIn(m + 1)
    BY <1>3, <2>1
  <2>4. NextDue(day, d) = x
    BY <1>8, <2>1 DEF NextDue
  <2>5. x \in d .. d + 200
    BY <1>1, <1>5, <2>3
  <2>6. x \in S
    BY <1>6, <2>1, <2>5
  <2>7. ASSUME NEW y \in S PROVE x <= y
    <3>1. SUFFICES ASSUME y < x PROVE FALSE
      BY <1>4, <2>3
    <3>2. PICK n, e : n = Month(y) /\ e = Day(y)
      OBVIOUS
    <3>3. /\ y \in Nat /\ y >= d /\ n \in Nat /\ e \in 0 .. 99 /\ y = 100 * n + e /\ e <= DaysIn(n)
          /\ e = day \/ (e < day /\ e = DaysIn(n))
      BY <1>4, <3>2
    <3>4. n = m \/ n = m + 1
      <4>1. PICK i, j : i = Day(d) /\ j = Day(x)
        OBVIOUS
      <4>2. i \in Nat /\ d = 100 * m + i /\ j \in 1 .. 31 /\ x = 100 * (m + 1) + j
        BY <1>1, <1>5, <2>3, <4>1
      <4>3. m <= n
        BY <1>1, <3>3, <4>2
      <4>4. n <= m + 1
        BY <1>1, <3>1, <3>3, <4>2
      <4> QED BY <1>1, <3>3, <4>3, <4>4
    <3>5. CASE n = m
      <4>1. Day(z) < e
        BY <1>8, <2>1, <2>2, <3>3, <3>5
      <4> QED BY <1>5, <2>2, <3>3, <3>5, <4>1
    <3>6. CASE n = m + 1
      <4>1. e < Day(x)
        BY <1>1, <2>3, <3>1, <3>3, <3>6
      <4> QED BY <1>5, <2>3, <3>3, <3>6, <4>1
    <3> QED BY <3>4, <3>5, <3>6
  <2> QED BY <2>3, <2>4, <2>6, <2>7 DEF Earliest, S
<1>9. OnDay(m, day) \in Nat
  BY <1>3
<1> QED BY <1>1, <1>7, <1>8, <1>9 DEF S

-----------------------------------------------------------------------------
(* Amounts *)

PriceOf(rows) == [e \in Postings |-> rows[e].price]
AmountOf(rows, S) == SumFunctionOnSet(PriceOf(rows), S)

LEMMA AmountIs == \A S : Amount(S) = AmountOf(posting, S)
BY Zenon DEF Amount, AmountOf, PriceOf

LEMMA PricesAre ==
    ASSUME NEW rows \in [Postings -> Posting]
    PROVE  \A e \in Postings : /\ PriceOf(rows)[e] = rows[e].price
                               /\ PriceOf(rows)[e] \in Nat /\ PriceOf(rows)[e] \in Int
<1>1. \A e \in Postings : PriceOf(rows)[e] = rows[e].price /\ rows[e] \in Posting
  BY DEF PriceOf
<1>2. \A row \in Posting : row.price \in Prices
  BY DEF Posting
<1>3. \A price \in Prices : price \in Nat /\ price \in Int
  BY HouseholdAssumption
<1> QED BY <1>1, <1>2, <1>3

LEMMA AmountNatural ==
    ASSUME NEW rows \in [Postings -> Posting], NEW S \in SUBSET Postings
    PROVE  AmountOf(rows, S) \in Nat
<1>1. IsFiniteSet(S)
  BY FS_Subset, HouseholdAssumption
<1>2. \A e \in S : PriceOf(rows)[e] \in Nat
  BY PricesAre
<1> QED BY <1>1, <1>2, SumNatural DEF AmountOf

LEMMA AmountSame ==
    ASSUME NEW rows \in [Postings -> Posting], NEW then \in [Postings -> Posting],
           NEW S \in SUBSET Postings, \A e \in S : then[e].price = rows[e].price
    PROVE  AmountOf(then, S) = AmountOf(rows, S)
<1>1. IsFiniteSet(S)
  BY FS_Subset, HouseholdAssumption
<1>2. \A e \in S : PriceOf(then)[e] = PriceOf(rows)[e]
  BY PricesAre
<1> QED BY <1>1, <1>2, SumSame DEF AmountOf

LEMMA AmountJoined ==
    ASSUME NEW rows \in [Postings -> Posting], NEW S \in SUBSET Postings,
           NEW T \in SUBSET Postings, S \cap T = {}
    PROVE  AmountOf(rows, S \cup T) = AmountOf(rows, S) + AmountOf(rows, T)
<1>1. IsFiniteSet(S) /\ IsFiniteSet(T)
  BY FS_Subset, HouseholdAssumption
<1>2. \A e \in S \cup T : PriceOf(rows)[e] \in Int
  BY PricesAre
<1> QED BY <1>1, <1>2, SumJoined DEF AmountOf

LEMMA AmountOne ==
    ASSUME NEW rows \in [Postings -> Posting], NEW e \in Postings
    PROVE  AmountOf(rows, {e}) = rows[e].price
<1>1. PriceOf(rows)[e] = rows[e].price /\ PriceOf(rows)[e] \in Int
  BY PricesAre
<1> QED BY <1>1, SumOne DEF AmountOf

LEMMA AmountNone == \A rows : AmountOf(rows, {}) = 0
BY SumEmpty DEF AmountOf

-----------------------------------------------------------------------------
(* Rows and requests *)

LEMMA NoneAre ==
    /\ NoBill \in Bill /\ NoBill.status = "free" /\ NoBill.payment = Nobody
    /\ NoPosting \in Posting /\ NoPosting.state = "free"
<1>1. /\ AnyOne(Prices) \in Prices /\ AnyOne(Payers) \in Payers /\ AnyOne(Names) \in Names
  BY HouseholdAssumption DEF AnyOne
<1>2. NoBill \in Bill
  BY <1>1 DEF NoBill, Bill
<1>3. NoPosting \in Posting
  BY <1>1 DEF NoPosting, Posting
<1>4. NoBill.status = "free" /\ NoBill.payment = Nobody /\ NoPosting.state = "free"
  BY DEF NoBill, NoPosting
<1> QED BY <1>2, <1>3, <1>4

LEMMA NoJobIs ==
    /\ NoJob \in Job /\ NoJob.op = "none" /\ ~Locking(NoJob)
    /\ LockedOK(NoJob) /\ ImagesOK(NoJob) /\ FreshOK(NoJob)
<1>1. /\ NoJob.op = "none" /\ NoJob.images = {} /\ NoJob.todo = {} /\ NoJob.fresh = {}
  BY DEF NoJob
<1>2. NoJob \in Job
  <2>1. NoPatching \in Patching
    BY DEF NoPatching, Patching
  <2> QED BY <2>1, NoneAre DEF NoJob, Job
<1>3. LockedOK(NoJob) /\ ImagesOK(NoJob) /\ FreshOK(NoJob) /\ ~Locking(NoJob)
  BY <1>1 DEF LockedOK, ImagesOK, FreshOK, Locking
<1> QED BY <1>1, <1>2, <1>3

(* What no step undoes *)
RowsEndure ==
    /\ \A b \in Bills : bill[b].status # "free" => bill'[b].status # "free"
    /\ \A e \in Postings :
          /\ posting[e].state # "free" =>
                posting'[e].state # "free" /\ (~Linked(e) => ~Linked(e)')
          /\ posting[e].state = "deleted" => posting'[e].state = "deleted"
    /\ templates \subseteq templates'

LEMMA JobKept ==
    ASSUME PayablesInv, RowsEndure, NEW job \in Job,
           LockedOK(job), ImagesOK(job), FreshOK(job),
           Locking(job) => bill'[job.bill] = bill[job.bill]
    PROVE  LockedOK(job)' /\ ImagesOK(job)' /\ FreshOK(job)'
<1>1. LockedOK(job)'
  <2>1. ASSUME job.op = "unpay" PROVE job.row.payment \in Postings
    <3>1. job.bill \in Bills /\ job.row = bill[job.bill] /\ job.row.status = "paid"
      BY <2>1 DEF LockedOK, Locking
    <3>2. job.row.payment # Nobody /\ job.row \in Bill
      BY <3>1 DEF PayablesInv, BillsOK, BillRowOK, PayablesTypeOK
    <3> QED BY <3>2 DEF Bill
  <2> QED BY <2>1 DEF LockedOK, Locking, RowsEndure
<1>2. ImagesOK(job)'
  <2>1. job.images \subseteq Postings
    BY DEF Job
  <2> QED BY <2>1 DEF ImagesOK, RowsEndure
<1>3. FreshOK(job)'
  BY DEF FreshOK, RowsEndure
<1> QED BY <1>1, <1>2, <1>3

(* A step that leaves every request where it is *)
LEMMA JobsUnmoved ==
    ASSUME PayablesInv, RowsEndure, UNCHANGED desk,
           \A c \in Clerks : Locking(desk[c]) => bill'[desk[c].bill] = bill[desk[c].bill]
    PROVE  JobsOK'
<1>1. ASSUME NEW c \in Clerks
      PROVE  LockedOK(desk[c])' /\ ImagesOK(desk[c])' /\ FreshOK(desk[c])'
  <2>1. PICK job \in Job : job = desk[c]
    BY DEF PayablesInv, PayablesTypeOK
  <2>2. LockedOK(job) /\ ImagesOK(job) /\ FreshOK(job)
    BY <2>1 DEF PayablesInv, JobsOK
  <2>3. LockedOK(job)' /\ ImagesOK(job)' /\ FreshOK(job)'
    BY <2>1, <2>2, JobKept
  <2> QED BY <2>1, <2>3
<1>2. \A c, d \in Clerks : c # d /\ Locking(desk'[c]) /\ Locking(desk'[d]) =>
          desk'[c].bill # desk'[d].bill
  BY DEF PayablesInv, JobsOK
<1> QED BY <1>1, <1>2 DEF JobsOK, Locking

(* and one that moves one of them. *)
LEMMA JobMoves ==
    ASSUME PayablesInv, RowsEndure, NEW c \in Clerks, NEW job \in Job,
           desk' = [desk EXCEPT ![c] = job],
           LockedOK(job)' /\ ImagesOK(job)' /\ FreshOK(job)',
           \A d \in Clerks : d # c /\ Locking(desk[d]) =>
               /\ bill'[desk[d].bill] = bill[desk[d].bill]
               /\ Locking(job) => desk[d].bill # job.bill
    PROVE  JobsOK' /\ desk' \in [Clerks -> Job]
<1>1. desk \in [Clerks -> Job]
  BY DEF PayablesInv, PayablesTypeOK
<1>2. /\ desk' \in [Clerks -> Job] /\ desk'[c] = job
      /\ \A d \in Clerks : d # c => desk'[d] = desk[d]
  BY <1>1
<1>3. ASSUME NEW d \in Clerks
      PROVE  LockedOK(desk[d])' /\ ImagesOK(desk[d])' /\ FreshOK(desk[d])'
  <2>1. CASE d = c
    BY <1>2, <2>1
  <2>2. CASE d # c
    <3>1. PICK other \in Job : other = desk[d]
      BY <1>1
    <3>2. LockedOK(other) /\ ImagesOK(other) /\ FreshOK(other)
      BY <3>1 DEF PayablesInv, JobsOK
    <3>3. LockedOK(other)' /\ ImagesOK(other)' /\ FreshOK(other)'
      BY <2>2, <3>1, <3>2, JobKept
    <3>4. desk'[d] = other
      BY <1>2, <2>2, <3>1
    <3> QED BY <3>3, <3>4
  <2> QED BY <2>1, <2>2
<1>4. \A d, r \in Clerks : d # r /\ Locking(desk'[d]) /\ Locking(desk'[r]) =>
          desk'[d].bill # desk'[r].bill
  <2>1. ASSUME NEW d \in Clerks, NEW r \in Clerks, d # r, Locking(desk'[d]), Locking(desk'[r])
        PROVE  desk'[d].bill # desk'[r].bill
    <3>1. CASE d = c
      BY <1>2, <2>1, <3>1
    <3>2. CASE r = c
      BY <1>2, <2>1, <3>2
    <3>3. CASE d # c /\ r # c
      BY <1>2, <2>1, <3>3 DEF PayablesInv, JobsOK
    <3> QED BY <3>1, <3>2, <3>3
  <2> QED BY <2>1
<1>5. JobsOK'
  BY <1>3, <1>4 DEF JobsOK, Locking
<1> QED BY <1>2, <1>5

LEMMA JobLeaves ==
    ASSUME PayablesInv, RowsEndure, NEW c \in Clerks, Done(c),
           \A d \in Clerks : d # c /\ Locking(desk[d]) =>
               bill'[desk[d].bill] = bill[desk[d].bill]
    PROVE  JobsOK' /\ desk' \in [Clerks -> Job]
<1>1. LockedOK(NoJob)' /\ ImagesOK(NoJob)' /\ FreshOK(NoJob)'
  <2>1. /\ NoJob.op = "none" /\ NoJob.images = {} /\ NoJob.todo = {} /\ NoJob.fresh = {}
    BY DEF NoJob
  <2> QED BY <2>1 DEF LockedOK, ImagesOK, FreshOK, Locking
<1>2. desk' = [desk EXCEPT ![c] = NoJob]
  BY DEF Done
<1>3. NoJob \in Job /\ ~Locking(NoJob)
  BY NoJobIs
<1> QED BY <1>1, <1>2, <1>3, JobMoves

-----------------------------------------------------------------------------
(* Steps that leave the transactions alone *)

LEMMA FundsKept ==
    ASSUME PayablesInv, UNCHANGED <<posting, funds, raced>>
    PROVE  FundsMatchUnlessRaced'
<1>1. \A S : Amount(S)' = Amount(S)
  BY DEF Amount
<1>2. \A a : Spent(a)' = Spent(a)
  BY <1>1 DEF Spent
<1> QED BY <1>2 DEF PayablesInv, FundsMatchUnlessRaced

LEMMA BillsChange ==
    ASSUME PayablesInv, UNCHANGED <<posting, funds, filing, wiped, raced>>,
           bill' \in [Bills -> Bill],
           \A b \in Bills : /\ bill'[b].payment = bill[b].payment
                            /\ bill[b].payment # Nobody => bill'[b].paid = bill[b].paid
                            /\ BillRowOK(bill'[b]),
           templates' \subseteq Template, today' \in Nat, calls' \in Nat,
           JobsOK', desk' \in [Clerks -> Job]
    PROVE  PayablesInv'
<1>1. PayablesTypeOK'
  BY DEF PayablesInv, PayablesTypeOK
<1>2. BillsOK'
  BY DEF PayablesInv, BillsOK, PaymentOf, BillRowOK
<1>3. WipedOK'
  BY DEF PayablesInv, WipedOK
<1> QED BY <1>1, <1>2, <1>3, FundsKept DEF PayablesInv

(* A request that begins, or goes on, without changing a row *)
LEMMA JobServed ==
    ASSUME PayablesInv, NEW c \in Clerks, NEW job \in Job,
           desk' = [desk EXCEPT ![c] = job], calls' \in Nat,
           UNCHANGED <<bill, posting, funds, templates, filing, today, wiped, raced>>,
           LockedOK(job), ImagesOK(job), FreshOK(job),
           \A d \in Clerks : d # c /\ Locking(desk[d]) /\ Locking(job) => desk[d].bill # job.bill
    PROVE  PayablesInv'
<1>1. RowsEndure
  BY DEF RowsEndure, Linked
<1>2. LockedOK(job)' /\ ImagesOK(job)' /\ FreshOK(job)'
  BY <1>1, JobKept
<1>3. JobsOK' /\ desk' \in [Clerks -> Job]
  BY <1>1, <1>2, JobMoves
<1>4. PayablesTypeOK /\ BillsOK
  BY DEF PayablesInv
<1>5. bill' \in [Bills -> Bill] /\ templates' \subseteq Template /\ today' \in Nat
  BY <1>4 DEF PayablesTypeOK
<1> QED BY <1>3, <1>4, <1>5, BillsChange DEF BillsOK

-----------------------------------------------------------------------------
(* The requests that begin *)

(* A job by its fields *)
JobFields(job) ==
    [op |-> job.op, bill |-> job.bill, row |-> job.row, named |-> job.named, seen |-> job.seen,
     prepay |-> job.prepay, patch |-> job.patch, images |-> job.images, todo |-> job.todo,
     fresh |-> job.fresh, day |-> job.day]

LEMMA JobIs ==
    ASSUME NEW job, job = JobFields(job),
           job.op \in {"pay", "unpay", "update", "delete", "cascade", "auto"},
           job.bill \in Bills \cup {Nobody}, job.row \in Bill,
           job.named \in Postings \cup {Nobody}, job.seen \in BOOLEAN, job.prepay \in BOOLEAN,
           job.patch \in Patching, job.images \in SUBSET Postings, job.todo \in SUBSET Template,
           job.fresh = {}, job.day \in Nat
    PROVE  job \in Job
<1>1. job.fresh \in SUBSET Bill
  OBVIOUS
<1> QED BY <1>1 DEF Job, JobFields

LEMMA Starts ==
    ASSUME PayablesInv, NEW c \in Clerks, NEW job \in Job, Takes(c, job),
           LockedOK(job), ImagesOK(job), FreshOK(job), Locking(job) => RowFree(job.bill)
    PROVE  PayablesInv'
<1>1. calls' \in Nat
  BY DEF Takes, PayablesInv, PayablesTypeOK
<1>2. \A d \in Clerks : d # c /\ Locking(desk[d]) /\ Locking(job) => desk[d].bill # job.bill
  BY DEF RowFree, Serving, Locking
<1> QED BY <1>1, <1>2, JobServed DEF Takes

LEMMA NoJobFields ==
    /\ NoJob.op = "none" /\ NoJob.bill = Nobody /\ NoJob.row = NoBill /\ NoJob.named = Nobody
    /\ NoJob.seen = FALSE /\ NoJob.prepay = FALSE /\ NoJob.patch = NoPatching
    /\ NoJob.images = {} /\ NoJob.todo = {} /\ NoJob.fresh = {} /\ NoJob.day = 0
    /\ NoPatching \in Patching
BY DEF NoJob, NoPatching, Patching

LEMMA PayStarts ==
    ASSUME PayablesInv, NEW c \in Clerks, NEW b \in Bills, NEW prepay \in BOOLEAN,
           Pay(c, b, prepay)
    PROVE  PayablesInv'
<1>1. PICK job, row : row = bill[b] /\ job = [NoJob EXCEPT !.op = "pay", !.bill = b, !.row = row,
                                                          !.prepay = prepay]
  OBVIOUS
<1>2. /\ RowFree(b) /\ row.status \in {"pending", "overdue"} /\ Takes(c, job)
  BY <1>1 DEF Pay
<1>3. row \in Bill
  BY <1>1 DEF PayablesInv, PayablesTypeOK
<1>4. /\ job.op = "pay" /\ job.bill = b /\ job.row = row /\ job.prepay = prepay
      /\ job.named = Nobody /\ job.seen = FALSE /\ job.patch = NoPatching
      /\ job.images = {} /\ job.todo = {} /\ job.fresh = {} /\ job.day = 0
      /\ job = JobFields(job)
  BY <1>1 DEF NoJob, JobFields
<1>5. job \in Job
  <2>1. /\ job.op \in {"pay", "unpay", "update", "delete", "cascade", "auto"}
        /\ job.bill \in Bills \cup {Nobody} /\ job.row \in Bill
        /\ job.named \in Postings \cup {Nobody}
    BY <1>3, <1>4, NoJobFields, NoneAre
  <2>2. job.seen \in BOOLEAN /\ job.prepay \in BOOLEAN
    BY <1>3, <1>4, NoJobFields, NoneAre
  <2>3. /\ job.patch \in Patching /\ job.images \in SUBSET Postings
        /\ job.todo \in SUBSET Template /\ job.fresh = {} /\ job.day \in Nat
    BY <1>3, <1>4, NoJobFields, NoneAre
  <2>4. job = JobFields(job)
    BY <1>3, <1>4, NoJobFields
  <2> QED BY <2>1, <2>2, <2>3, <2>4, JobIs
<1>6. LockedOK(job) /\ ImagesOK(job) /\ FreshOK(job)
  BY <1>1, <1>2, <1>4 DEF LockedOK, ImagesOK, FreshOK
<1> QED BY <1>2, <1>4, <1>5, <1>6, Starts

LEMMA UnpayStarts ==
    ASSUME PayablesInv, NEW c \in Clerks, NEW b \in Bills, NEW t \in Postings \cup {Nobody},
           Unpay(c, b, t)
    PROVE  PayablesInv'
<1>1. PICK row, seen : row = bill[b] /\ seen = (posting[bill[b].payment].state = "active")
  OBVIOUS
<1>2. PICK job : job = [NoJob EXCEPT !.op = "unpay", !.bill = b, !.row = row,
                                     !.named = t, !.seen = seen]
  OBVIOUS
<1>3. RowFree(b) /\ row.status = "paid" /\ Named(b, t) /\ Takes(c, job)
  BY <1>1, <1>2 DEF Unpay
<1>4. row \in Bill /\ seen \in BOOLEAN
  BY <1>1 DEF PayablesInv, PayablesTypeOK
<1>5. /\ job.op = "unpay" /\ job.bill = b /\ job.row = row /\ job.prepay = FALSE
      /\ job.named = t /\ job.seen = seen /\ job.patch = NoPatching
      /\ job.images = {} /\ job.todo = {} /\ job.fresh = {} /\ job.day = 0
      /\ job = JobFields(job)
  BY <1>2 DEF NoJob, JobFields
<1>6. job \in Job
  <2>1. /\ job.op \in {"pay", "unpay", "update", "delete", "cascade", "auto"}
        /\ job.bill \in Bills \cup {Nobody} /\ job.row \in Bill
        /\ job.named \in Postings \cup {Nobody}
    BY <1>4, <1>5, NoJobFields, NoneAre
  <2>2. job.seen \in BOOLEAN /\ job.prepay \in BOOLEAN
    BY <1>4, <1>5, NoJobFields, NoneAre
  <2>3. /\ job.patch \in Patching /\ job.images \in SUBSET Postings
        /\ job.todo \in SUBSET Template /\ job.fresh = {} /\ job.day \in Nat
    BY <1>4, <1>5, NoJobFields, NoneAre
  <2>4. job = JobFields(job)
    BY <1>4, <1>5, NoJobFields
  <2> QED BY <2>1, <2>2, <2>3, <2>4, JobIs
<1>7. /\ row.payment \in Postings
      /\ posting[row.payment].state = "active" \/ row.payment \in wiped
  <2>1. row.payment # Nobody
    BY <1>1, <1>3 DEF PayablesInv, BillsOK, BillRowOK
  <2>2. row.payment \in Postings
    BY <1>4, <2>1 DEF Bill
  <2> QED BY <1>1, <2>1, <2>2 DEF PayablesInv, BillsOK, PaymentOf
<1>8. ~seen => posting[row.payment].state = "deleted"
  <2>1. posting[row.payment] \in Posting
    BY <1>7 DEF PayablesInv, PayablesTypeOK
  <2>2. posting[row.payment].state \in {"free", "active", "deleted"}
    BY <2>1 DEF Posting
  <2> QED BY <1>1, <1>7, <2>2 DEF PayablesInv, WipedOK
<1>9. t \in {row.payment, Nobody}
  BY <1>1, <1>3 DEF Named
<1>10. ~job.seen => ~seen
  BY <1>5
<1>11. LockedOK(job)
  BY <1>1, <1>3, <1>5, <1>8, <1>9, <1>10 DEF LockedOK
<1>12. ImagesOK(job) /\ FreshOK(job)
  BY <1>5 DEF ImagesOK, FreshOK
<1> QED BY <1>3, <1>5, <1>6, <1>11, <1>12, Starts

LEMMA UpdateStarts ==
    ASSUME PayablesInv, NEW c \in Clerks, NEW b \in Bills, NEW patch \in BillPatches,
           UpdateBill(c, b, patch)
    PROVE  PayablesInv'
<1>1. PICK job : job = [NoJob EXCEPT !.op = "update", !.bill = b, !.patch = patch]
  OBVIOUS
<1>2. bill[b].status # "free" /\ Takes(c, job) /\ patch \in Patching
  BY <1>1, RequestsAssumption DEF UpdateBill
<1>3. /\ job.op = "update" /\ job.bill = b /\ job.row = NoBill /\ job.prepay = FALSE
      /\ job.named = Nobody /\ job.seen = FALSE /\ job.patch = patch
      /\ job.images = {} /\ job.todo = {} /\ job.fresh = {} /\ job.day = 0
      /\ job = JobFields(job)
  BY <1>1 DEF NoJob, JobFields
<1>4. job \in Job
  <2>1. /\ job.op \in {"pay", "unpay", "update", "delete", "cascade", "auto"}
        /\ job.bill \in Bills \cup {Nobody} /\ job.row \in Bill
        /\ job.named \in Postings \cup {Nobody}
    BY <1>2, <1>3, NoneAre, NoJobFields
  <2>2. job.seen \in BOOLEAN /\ job.prepay \in BOOLEAN
    BY <1>2, <1>3, NoneAre, NoJobFields
  <2>3. /\ job.patch \in Patching /\ job.images \in SUBSET Postings
        /\ job.todo \in SUBSET Template /\ job.fresh = {} /\ job.day \in Nat
    BY <1>2, <1>3, NoneAre, NoJobFields
  <2>4. job = JobFields(job)
    BY <1>2, <1>3, NoneAre
  <2> QED BY <2>1, <2>2, <2>3, <2>4, JobIs
<1>5. LockedOK(job) /\ ImagesOK(job) /\ FreshOK(job) /\ ~Locking(job)
  BY <1>2, <1>3 DEF LockedOK, ImagesOK, FreshOK, Locking
<1> QED BY <1>2, <1>4, <1>5, Starts

LEMMA DeleteStarts ==
    ASSUME PayablesInv, NEW c \in Clerks, NEW e \in Postings, DeletePosting(c, e)
    PROVE  PayablesInv'
<1>1. PICK job, images : images = {e} /\ job = [NoJob EXCEPT !.op = "delete", !.images = images]
  OBVIOUS
<1>2. posting[e].state = "active" /\ ~Linked(e) /\ Takes(c, job)
  BY <1>1 DEF DeletePosting
<1>3. /\ job.op = "delete" /\ job.bill = Nobody /\ job.row = NoBill /\ job.prepay = FALSE
      /\ job.named = Nobody /\ job.seen = FALSE /\ job.patch = NoPatching
      /\ job.images = images /\ job.todo = {} /\ job.fresh = {} /\ job.day = 0
      /\ job = JobFields(job)
  BY <1>1 DEF NoJob, JobFields
<1>4. images \in SUBSET Postings
  BY <1>1
<1>5. job \in Job
  <2>1. /\ job.op \in {"pay", "unpay", "update", "delete", "cascade", "auto"}
        /\ job.bill \in Bills \cup {Nobody} /\ job.row \in Bill
        /\ job.named \in Postings \cup {Nobody}
    BY <1>3, <1>4, NoneAre, NoJobFields
  <2>2. job.seen \in BOOLEAN /\ job.prepay \in BOOLEAN
    BY <1>3, <1>4, NoneAre, NoJobFields
  <2>3. /\ job.patch \in Patching /\ job.images \in SUBSET Postings
        /\ job.todo \in SUBSET Template /\ job.fresh = {} /\ job.day \in Nat
    BY <1>3, <1>4, NoneAre, NoJobFields
  <2>4. job = JobFields(job)
    BY <1>3, <1>4, NoneAre, NoJobFields
  <2> QED BY <2>1, <2>2, <2>3, <2>4, JobIs
<1>6. LockedOK(job) /\ FreshOK(job) /\ ~Locking(job)
  BY <1>3 DEF LockedOK, FreshOK, Locking
<1>7. ImagesOK(job)
  BY <1>1, <1>2, <1>3 DEF ImagesOK
<1> QED BY <1>2, <1>5, <1>6, <1>7, Starts

LEMMA CascadeStarts ==
    ASSUME PayablesInv, NEW c \in Clerks, DropCategory(c)
    PROVE  PayablesInv'
<1>1. PICK images : images = {e \in Postings : posting[e].state = "active" /\ posting[e].filed}
  OBVIOUS
<1>2. PICK job : job = [NoJob EXCEPT !.op = "cascade", !.images = images]
  OBVIOUS
<1>3. Takes(c, job)
  BY <1>1, <1>2 DEF DropCategory
<1>4. /\ job.op = "cascade" /\ job.bill = Nobody /\ job.row = NoBill /\ job.prepay = FALSE
      /\ job.named = Nobody /\ job.seen = FALSE /\ job.patch = NoPatching
      /\ job.images = images /\ job.todo = {} /\ job.fresh = {} /\ job.day = 0
      /\ job = JobFields(job)
  BY <1>2 DEF NoJob, JobFields
<1>5. images \in SUBSET Postings
  BY <1>1
<1>6. job \in Job
  <2>1. /\ job.op \in {"pay", "unpay", "update", "delete", "cascade", "auto"}
        /\ job.bill \in Bills \cup {Nobody} /\ job.row \in Bill
        /\ job.named \in Postings \cup {Nobody}
    BY <1>4, <1>5, NoneAre, NoJobFields
  <2>2. job.seen \in BOOLEAN /\ job.prepay \in BOOLEAN
    BY <1>4, <1>5, NoneAre, NoJobFields
  <2>3. /\ job.patch \in Patching /\ job.images \in SUBSET Postings
        /\ job.todo \in SUBSET Template /\ job.fresh = {} /\ job.day \in Nat
    BY <1>4, <1>5, NoneAre, NoJobFields
  <2>4. job = JobFields(job)
    BY <1>4, <1>5, NoneAre, NoJobFields
  <2> QED BY <2>1, <2>2, <2>3, <2>4, JobIs
<1>7. LockedOK(job) /\ ImagesOK(job) /\ FreshOK(job) /\ ~Locking(job)
  BY <1>1, <1>4 DEF LockedOK, ImagesOK, FreshOK, Locking
<1> QED BY <1>3, <1>6, <1>7, Starts

LEMMA AutoStarts ==
    ASSUME PayablesInv, NEW c \in Clerks, AutoCreate(c)
    PROVE  PayablesInv'
<1>1. PICK todo, day : todo = templates /\ day = today
  OBVIOUS
<1>2. PICK job : job = [NoJob EXCEPT !.op = "auto", !.todo = todo, !.day = day]
  OBVIOUS
<1>3. Takes(c, job)
  BY <1>1, <1>2 DEF AutoCreate
<1>4. /\ job.op = "auto" /\ job.bill = Nobody /\ job.row = NoBill /\ job.prepay = FALSE
      /\ job.named = Nobody /\ job.seen = FALSE /\ job.patch = NoPatching
      /\ job.images = {} /\ job.todo = todo /\ job.fresh = {} /\ job.day = day
      /\ job = JobFields(job)
  BY <1>2 DEF NoJob, JobFields
<1>5. todo \in SUBSET Template /\ day \in Nat
  BY <1>1 DEF PayablesInv, PayablesTypeOK
<1>6. job \in Job
  <2>1. /\ job.op \in {"pay", "unpay", "update", "delete", "cascade", "auto"}
        /\ job.bill \in Bills \cup {Nobody} /\ job.row \in Bill
        /\ job.named \in Postings \cup {Nobody}
    BY <1>4, <1>5, NoneAre, NoJobFields
  <2>2. job.seen \in BOOLEAN /\ job.prepay \in BOOLEAN
    BY <1>4, <1>5, NoneAre, NoJobFields
  <2>3. /\ job.patch \in Patching /\ job.images \in SUBSET Postings
        /\ job.todo \in SUBSET Template /\ job.fresh = {} /\ job.day \in Nat
    BY <1>4, <1>5, NoneAre, NoJobFields
  <2>4. job = JobFields(job)
    BY <1>4, <1>5, NoneAre, NoJobFields
  <2> QED BY <2>1, <2>2, <2>3, <2>4, JobIs
<1>7. LockedOK(job) /\ ImagesOK(job) /\ FreshOK(job) /\ ~Locking(job)
  BY <1>1, <1>4 DEF LockedOK, ImagesOK, FreshOK, Locking
<1> QED BY <1>3, <1>6, <1>7, Starts

(* autoCreateFromTemplates looks at a template. *)
LEMMA AutoChecks ==
    ASSUME PayablesInv, NEW c \in Clerks, AutoCheck(c)
    PROVE  PayablesInv'
<1>1. PICK t \in desk[c].todo :
          LET due == NextDue(t.day, desk[c].day)
              wanted == /\ DayNumber(due) <= DayNumber(desk[c].day) + DaysAhead
                        /\ Missing(c, t, due)
          IN desk' = [desk EXCEPT ![c].todo = @ \ {t},
                 ![c].fresh = IF wanted THEN @ \cup {BillOf(t, due)} ELSE @]
  BY Zenon DEF AutoCheck
<1>2. PICK old \in Job : old = desk[c] /\ FreshOK(old)
  BY DEF PayablesInv, PayablesTypeOK, JobsOK
<1>3. PICK row : row = BillOf(t, NextDue(t.day, old.day))
  OBVIOUS
<1>4. PICK fresh : fresh \in {old.fresh, old.fresh \cup {row}}
                 /\ desk' = [desk EXCEPT ![c].todo = @ \ {t}, ![c].fresh = fresh]
  <2>1. desk \in [Clerks -> Job]
    BY DEF PayablesInv, PayablesTypeOK
  <2>2. PICK wanted : desk' = [desk EXCEPT ![c].todo = @ \ {t},
                 ![c].fresh = IF wanted THEN @ \cup {row} ELSE @]
    BY <1>1, <1>2, <1>3, Zenon
  <2> DEFINE fresh == IF wanted THEN old.fresh \cup {row} ELSE old.fresh
  <2>3. desk' = [desk EXCEPT ![c].todo = @ \ {t}, ![c].fresh = fresh]
    BY <1>2, <2>1, <2>2
  <2> QED BY <2>3
<1>5. PICK todo : todo = old.todo \ {t}
  OBVIOUS
<1>6. PICK job : job = [old EXCEPT !.todo = todo, !.fresh = fresh]
  OBVIOUS
<1>7. desk \in [Clerks -> Job]
  BY DEF PayablesInv, PayablesTypeOK
<1>8. desk' = [desk EXCEPT ![c] = job]
  BY <1>2, <1>4, <1>5, <1>6, <1>7
<1>9. t \in templates /\ t \in Template /\ old.todo \subseteq Template /\ old.day \in Nat
  <2>1. t \in templates
    BY <1>2 DEF FreshOK
  <2>2. old.todo \subseteq Template /\ old.day \in Nat /\ templates \subseteq Template
    BY DEF Job, PayablesInv, PayablesTypeOK
  <2> QED BY <2>1, <2>2
<1>10. row \in Bill
  <2>1. /\ t.name \in Names /\ t.price \in Prices /\ t.payer \in Payers
        /\ t.every \in {1, 3, 12} /\ t.day \in 1 .. 31
    BY <1>9 DEF Template
  <2>2. PICK due \in Nat : due = NextDue(t.day, old.day)
    BY <1>9, <2>1, NextDueIs
  <2> QED BY <1>3, <2>1, <2>2 DEF BillOf, NewBill, Bill
<1>11. fresh \in SUBSET Bill /\ todo \in SUBSET Template
  BY <1>4, <1>5, <1>9, <1>10 DEF Job
<1>12. job \in Job
  BY <1>6, <1>11 DEF Job
<1>13. /\ job.op = old.op /\ job.bill = old.bill /\ job.row = old.row /\ job.named = old.named
       /\ job.seen = old.seen /\ job.images = old.images /\ job.day = old.day
       /\ job.todo = todo /\ job.fresh = fresh
  BY <1>6 DEF Job
<1>14. FreshOK(job)
  <2>1. \A r \in fresh : \E u \in templates : r = BillOf(u, NextDue(u.day, old.day))
    BY <1>2, <1>3, <1>4, <1>9 DEF FreshOK
  <2> QED BY <1>2, <1>5, <1>13, <2>1 DEF FreshOK
<1>15. old.op = "auto" /\ ImagesOK(old)
  BY <1>2 DEF AutoCheck, Serving, PayablesInv, JobsOK
<1>16. LockedOK(job) /\ ImagesOK(job) /\ ~Locking(job)
  BY <1>13, <1>15 DEF LockedOK, ImagesOK, Locking
<1>17. calls' \in Nat
  BY DEF AutoCheck, PayablesInv, PayablesTypeOK
<1> QED BY <1>8, <1>12, <1>14, <1>16, <1>17, JobServed DEF AutoCheck

-----------------------------------------------------------------------------
(* Bills created *)

LEMMA NewBillIs ==
    ASSUME NEW name \in Names, NEW price \in Prices, NEW due \in Nat, NEW payer \in Payers,
           NEW every \in {0, 1, 3, 12}, NEW until \in Nat, NEW filed \in BOOLEAN
    PROVE  LET row == NewBill(name, price, due, payer, every, until, filed)
           IN row \in Bill /\ row.status = "pending" /\ row.payment = Nobody /\ row.paid = 0
<1>1. PICK row : row = NewBill(name, price, due, payer, every, until, filed)
  OBVIOUS
<1>2. row.status = "pending" /\ row.payment = Nobody /\ row.paid = 0
  BY <1>1 DEF NewBill
<1>3. row \in Bill
  BY <1>1 DEF NewBill, Bill
<1> QED BY <1>1, <1>2, <1>3

LEMMA BillOfIs ==
    ASSUME NEW t \in Template, NEW due \in Nat
    PROVE  LET row == BillOf(t, due)
           IN row \in Bill /\ row.status = "pending" /\ row.payment = Nobody /\ row.paid = 0
<1>1. /\ t.name \in Names /\ t.price \in Prices /\ t.payer \in Payers
      /\ t.every \in {0, 1, 3, 12} /\ t.day \in 1 .. 31
  BY DEF Template
<1>2. PICK row : row = BillOf(t, due)
  OBVIOUS
<1>3. row.status = "pending" /\ row.payment = Nobody /\ row.paid = 0
  BY <1>2 DEF BillOf, NewBill
<1>4. row \in Bill
  BY <1>1, <1>2 DEF BillOf, NewBill, Bill
<1> QED BY <1>2, <1>3, <1>4

(* Rows are put where there were none. *)
LEMMA BillsAdded ==
    ASSUME PayablesInv, bill' \in [Bills -> Bill],
           \A b \in Bills : \/ bill'[b] = bill[b]
                            \/ /\ bill[b].status = "free"
                               /\ bill'[b].status \in {"pending", "overdue"}
                               /\ bill'[b].payment = Nobody
    PROVE  /\ \A b \in Bills : /\ bill'[b].payment = bill[b].payment
                               /\ bill[b].payment # Nobody => bill'[b].paid = bill[b].paid
                               /\ BillRowOK(bill'[b])
           /\ \A c \in Clerks : Locking(desk[c]) => bill'[desk[c].bill] = bill[desk[c].bill]
           /\ posting' = posting /\ templates \subseteq templates' => RowsEndure
<1>1. \A b \in Bills : /\ BillRowOK(bill[b])
                       /\ bill[b].status = "free" => bill[b].payment = Nobody
  BY DEF PayablesInv, BillsOK, BillRowOK
<1>2. \A b \in Bills : /\ bill'[b].payment = bill[b].payment
                       /\ bill[b].payment # Nobody => bill'[b].paid = bill[b].paid
                       /\ BillRowOK(bill'[b])
  BY <1>1 DEF BillRowOK
<1>3. \A c \in Clerks : Locking(desk[c]) => bill'[desk[c].bill] = bill[desk[c].bill]
  <2>1. \A c \in Clerks : Locking(desk[c]) =>
           desk[c].bill \in Bills /\ bill[desk[c].bill].status # "free"
    BY DEF PayablesInv, JobsOK, LockedOK, Locking
  <2> QED BY <2>1
<1>4. posting' = posting /\ templates \subseteq templates' => RowsEndure
  BY <1>2 DEF RowsEndure, Linked
<1> QED BY <1>2, <1>3, <1>4

LEMMA BillCreated ==
    ASSUME PayablesInv, AtOnce, NEW b \in FreeBills, NEW row \in Bill,
           row.status \in {"pending", "overdue"}, row.payment = Nobody,
           bill' = [bill EXCEPT ![b] = row],
           templates \subseteq templates', templates' \subseteq Template
    PROVE  PayablesInv'
<1>1. bill \in [Bills -> Bill] /\ b \in Bills /\ bill[b].status = "free"
  BY DEF PayablesInv, PayablesTypeOK, FreeBills
<1>2. bill' \in [Bills -> Bill] /\ bill'[b] = row /\ \A d \in Bills : d # b => bill'[d] = bill[d]
  BY <1>1
<1>3. UNCHANGED <<posting, funds, filing, today, desk, wiped, raced>> /\ calls' = calls + 1
  BY DEF AtOnce
<1>4. /\ \A d \in Bills : /\ bill'[d].payment = bill[d].payment
                          /\ bill[d].payment # Nobody => bill'[d].paid = bill[d].paid
                          /\ BillRowOK(bill'[d])
      /\ \A c \in Clerks : Locking(desk[c]) => bill'[desk[c].bill] = bill[desk[c].bill]
      /\ RowsEndure
  BY <1>1, <1>2, <1>3, BillsAdded
<1>5. JobsOK'
  BY <1>3, <1>4, JobsUnmoved
<1>6. calls' \in Nat /\ today' \in Nat /\ desk' \in [Clerks -> Job]
  BY <1>3 DEF PayablesInv, PayablesTypeOK
<1> QED BY <1>2, <1>3, <1>4, <1>5, <1>6, BillsChange

LEMMA CreationsKeep ==
    ASSUME PayablesInv,
           \/ \E row \in StartingBills : CreateBill(row)
           \/ \E t \in Templates : CreateWithTemplate(t) \/ CreateTemplate(t)
           \/ CreateFromTemplate
    PROVE  PayablesInv'
<1>1. templates \subseteq Template /\ Templates \subseteq Template
  BY RequestsAssumption DEF PayablesInv, PayablesTypeOK
<1>2. ASSUME NEW row \in StartingBills, CreateBill(row) PROVE PayablesInv'
  <2>1. row \in Bill /\ row.status = "pending" /\ row.payment = Nobody
    BY RequestsAssumption
  <2>2. PICK b \in FreeBills : bill' = [bill EXCEPT ![b] = row]
    BY <1>2 DEF CreateBill, IsNew, Earliest
  <2>3. AtOnce /\ templates' = templates
    BY <1>2 DEF CreateBill
  <2> QED BY <1>1, <2>1, <2>2, <2>3, BillCreated
<1>3. ASSUME NEW t \in Templates, CreateWithTemplate(t) PROVE PayablesInv'
  <2>1. PICK b \in Bills, due \in Calendar :
           /\ IsNew(b, FreeBills)
           /\ bill' = [bill EXCEPT ![b] =
                  [BillOf(t, due) EXCEPT !.status = Lateness(due, today)]]
    BY <1>3 DEF CreateWithTemplate
  <2>2. b \in FreeBills
    BY <2>1 DEF IsNew, Earliest
  <2>3. due \in Nat /\ t \in Template
    BY <1>1, HouseholdAssumption
  <2>4. PICK old : old = BillOf(t, due) /\ old \in Bill /\ old.payment = Nobody
    BY <2>3, BillOfIs
  <2>5. PICK status \in {"pending", "overdue"} : status = Lateness(due, today)
    BY DEF Lateness
  <2>6. PICK row : row = [old EXCEPT !.status = status]
    OBVIOUS
  <2>7. row \in Bill /\ row.status \in {"pending", "overdue"} /\ row.payment = Nobody
    BY <2>4, <2>6 DEF Bill
  <2>8. bill' = [bill EXCEPT ![b] = row]
    BY <2>1, <2>4, <2>5, <2>6
  <2>9. AtOnce /\ templates \subseteq templates' /\ templates' \subseteq Template
    BY <1>1, <1>3 DEF CreateWithTemplate
  <2> QED BY <2>2, <2>7, <2>8, <2>9, BillCreated
<1>4. ASSUME NEW t \in Templates, CreateTemplate(t) PROVE PayablesInv'
  <2>1. /\ UNCHANGED <<bill, posting, funds, filing, today, desk, wiped, raced>>
        /\ calls' = calls + 1 /\ templates \subseteq templates' /\ templates' \subseteq Template
    BY <1>1, <1>4 DEF CreateTemplate, AtOnce
  <2>2. bill \in [Bills -> Bill] /\ calls' \in Nat /\ today' \in Nat /\ desk' \in [Clerks -> Job]
    BY <2>1 DEF PayablesInv, PayablesTypeOK
  <2>3. RowsEndure
    BY <2>1 DEF RowsEndure, Linked
  <2>4. JobsOK'
    BY <2>1, <2>3, JobsUnmoved
  <2>5. \A b \in Bills : BillRowOK(bill'[b])
    BY <2>1 DEF PayablesInv, BillsOK
  <2> QED BY <2>1, <2>2, <2>4, <2>5, BillsChange
<1>5. ASSUME CreateFromTemplate PROVE PayablesInv'
  <2>1. PICK t \in templates, due \in Calendar, b \in Bills :
           IsNew(b, FreeBills) /\ bill' = [bill EXCEPT ![b] = BillOf(t, due)]
    BY <1>5 DEF CreateFromTemplate
  <2>2. b \in FreeBills
    BY <2>1 DEF IsNew, Earliest
  <2>3. due \in Nat /\ t \in Template
    BY <1>1, HouseholdAssumption
  <2>4. PICK row : row = BillOf(t, due) /\ row \in Bill /\ row.payment = Nobody /\ row.status = "pending"
    BY <2>3, BillOfIs
  <2>5. AtOnce /\ templates \subseteq templates' /\ templates' \subseteq Template
    BY <1>1, <1>5 DEF CreateFromTemplate
  <2>6. bill' = [bill EXCEPT ![b] = row]
    BY <2>1, <2>4
  <2> QED BY <2>2, <2>4, <2>5, <2>6, BillCreated
<1> QED BY <1>2, <1>3, <1>4, <1>5

LEMMA AutoCommits ==
    ASSUME PayablesInv, NEW c \in Clerks, AutoCommit(c)
    PROVE  PayablesInv'
<1>1. PICK place \in [desk[c].fresh -> FreeBills] :
          bill' = [b \in Bills |->
                IF \E x \in desk[c].fresh : place[x] = b
                THEN CHOOSE x \in desk[c].fresh : place[x] = b ELSE bill[b]]
  BY Zenon DEF AutoCommit
<1>2. Done(c) /\ UNCHANGED <<posting, funds, templates, filing, today, calls, wiped, raced>>
  BY DEF AutoCommit
<1>3. PICK fresh : fresh = desk[c].fresh
  OBVIOUS
<1>4. \A x \in fresh : x \in Bill /\ x.status = "pending" /\ x.payment = Nobody
  <2>1. ASSUME NEW x \in fresh PROVE x \in Bill /\ x.status = "pending" /\ x.payment = Nobody
    <3>1. PICK job \in Job : job = desk[c] /\ FreshOK(job)
      BY DEF PayablesInv, PayablesTypeOK, JobsOK
    <3>2. PICK t \in templates : x = BillOf(t, NextDue(t.day, job.day))
      BY <1>3, <3>1 DEF FreshOK
    <3>3. t \in Template /\ job.day \in Nat
      BY DEF PayablesInv, PayablesTypeOK, Job
    <3>4. t.day \in 1 .. 31
      BY <3>3 DEF Template
    <3>5. NextDue(t.day, job.day) \in Nat
      BY <3>3, <3>4, NextDueIs
    <3> QED BY <3>2, <3>3, <3>5, BillOfIs
  <2> QED BY <2>1
<1>5. bill \in [Bills -> Bill]
  BY DEF PayablesInv, PayablesTypeOK
<1>6. ASSUME NEW b \in Bills
      PROVE  \/ bill'[b] = bill[b]
             \/ /\ bill[b].status = "free" /\ bill'[b] \in fresh
  <2>1. bill'[b] = IF \E x \in fresh : place[x] = b
                   THEN CHOOSE x \in fresh : place[x] = b ELSE bill[b]
    BY <1>1, <1>3
  <2>2. CASE \E x \in fresh : place[x] = b
    <3>1. PICK x \in fresh : place[x] = b
      BY <2>2
    <3>2. b \in FreeBills
      BY <1>3, <3>1
    <3>3. bill'[b] \in fresh
      BY <2>1, <2>2
    <3> QED BY <3>2, <3>3 DEF FreeBills
  <2>3. CASE ~(\E x \in fresh : place[x] = b)
    BY <2>1, <2>3
  <2> QED BY <2>2, <2>3
<1>7. bill' \in [Bills -> Bill]
  <2>1. \A b \in Bills : bill'[b] \in Bill
    BY <1>4, <1>5, <1>6
  <2>2. bill' = [b \in Bills |-> bill'[b]]
    BY <1>1
  <2> QED BY <2>1, <2>2
<1>8. /\ \A b \in Bills : /\ bill'[b].payment = bill[b].payment
                          /\ bill[b].payment # Nobody => bill'[b].paid = bill[b].paid
                          /\ BillRowOK(bill'[b])
      /\ \A d \in Clerks : Locking(desk[d]) => bill'[desk[d].bill] = bill[desk[d].bill]
      /\ RowsEndure
  BY <1>2, <1>4, <1>6, <1>7, BillsAdded
<1>9. JobsOK' /\ desk' \in [Clerks -> Job]
  BY <1>2, <1>8, JobLeaves
<1>10. calls' \in Nat /\ today' \in Nat /\ templates' \subseteq Template
  BY <1>2 DEF PayablesInv, PayablesTypeOK
<1> QED BY <1>2, <1>7, <1>8, <1>9, <1>10, BillsChange

-----------------------------------------------------------------------------
(* Bills cancelled, updated and found late *)

(* Rows that no payment is being made of change, and keep their payments. *)
LEMMA BillsRevised ==
    ASSUME PayablesInv, bill' \in [Bills -> Bill], posting' = posting, templates' = templates,
           \A b \in Bills : \/ bill'[b] = bill[b]
                            \/ /\ RowFree(b)
                               /\ bill'[b].payment = bill[b].payment
                               /\ bill'[b].paid = bill[b].paid
                               /\ bill'[b].status # "free" /\ BillRowOK(bill'[b])
    PROVE  /\ \A b \in Bills : /\ bill'[b].payment = bill[b].payment
                               /\ bill[b].payment # Nobody => bill'[b].paid = bill[b].paid
                               /\ BillRowOK(bill'[b])
           /\ \A c \in Clerks : Locking(desk[c]) => bill'[desk[c].bill] = bill[desk[c].bill]
           /\ RowsEndure
<1>1. \A b \in Bills : BillRowOK(bill[b])
  BY DEF PayablesInv, BillsOK
<1>2. \A b \in Bills : /\ bill'[b].payment = bill[b].payment
                       /\ bill[b].payment # Nobody => bill'[b].paid = bill[b].paid
                       /\ BillRowOK(bill'[b])
  BY <1>1
<1>3. \A c \in Clerks : Locking(desk[c]) => bill'[desk[c].bill] = bill[desk[c].bill]
  <2>1. \A c \in Clerks : Locking(desk[c]) =>
           desk[c].bill \in Bills /\ ~RowFree(desk[c].bill)
    BY DEF PayablesInv, JobsOK, LockedOK, Locking, RowFree, Serving
  <2> QED BY <2>1
<1>4. RowsEndure
  BY <1>2 DEF RowsEndure, Linked
<1> QED BY <1>2, <1>3, <1>4

LEMMA CancelKeeps ==
    ASSUME PayablesInv, NEW b \in Bills, Cancel(b)
    PROVE  PayablesInv'
<1>1. /\ UNCHANGED <<posting, funds, filing, today, desk, wiped, raced, templates>>
      /\ calls' = calls + 1 /\ RowFree(b) /\ bill' = [bill EXCEPT ![b].status = "cancelled"]
  BY DEF Cancel, AtOnce
<1>2. bill \in [Bills -> Bill]
  BY DEF PayablesInv, PayablesTypeOK
<1>3. PICK row : row = [bill[b] EXCEPT !.status = "cancelled"]
  OBVIOUS
<1>4. /\ row \in Bill /\ row.status = "cancelled" /\ row.payment = bill[b].payment
      /\ row.paid = bill[b].paid
  <2>1. bill[b] \in Bill
    BY <1>2
  <2> QED BY <1>3, <2>1 DEF Bill
<1>5. bill' \in [Bills -> Bill] /\ bill'[b] = row /\ \A d \in Bills : d # b => bill'[d] = bill[d]
  BY <1>1, <1>2, <1>3, <1>4
<1>6. BillRowOK(row)
  BY <1>4 DEF BillRowOK
<1>7. /\ \A d \in Bills : /\ bill'[d].payment = bill[d].payment
                          /\ bill[d].payment # Nobody => bill'[d].paid = bill[d].paid
                          /\ BillRowOK(bill'[d])
      /\ \A c \in Clerks : Locking(desk[c]) => bill'[desk[c].bill] = bill[desk[c].bill]
      /\ RowsEndure
  BY <1>1, <1>4, <1>5, <1>6, BillsRevised
<1>8. JobsOK'
  BY <1>1, <1>7, JobsUnmoved
<1>9. calls' \in Nat /\ today' \in Nat /\ templates' \subseteq Template /\ desk' \in [Clerks -> Job]
  BY <1>1 DEF PayablesInv, PayablesTypeOK
<1> QED BY <1>1, <1>5, <1>7, <1>8, <1>9, BillsChange

LEMMA RefreshKeeps ==
    ASSUME PayablesInv, Refresh
    PROVE  PayablesInv'
<1>1. PICK late : /\ late = {b \in Bills : bill[b].status = "pending" /\ bill[b].due < today}
                  /\ \A b \in late : RowFree(b)
                  /\ bill' = [b \in Bills |-> IF b \in late
                        THEN [bill[b] EXCEPT !.status = "overdue"] ELSE bill[b]]
  BY DEF Refresh
<1>2. /\ UNCHANGED <<posting, funds, filing, today, desk, wiped, raced, templates>>
      /\ calls' = calls + 1
  BY DEF Refresh, AtOnce
<1>3. bill \in [Bills -> Bill] /\ \A b \in Bills : BillRowOK(bill[b])
  BY DEF PayablesInv, PayablesTypeOK, BillsOK
<1>4. ASSUME NEW b \in late
      PROVE  /\ bill'[b] \in Bill /\ bill'[b].status = "overdue"
             /\ bill'[b].payment = bill[b].payment /\ bill'[b].paid = bill[b].paid
             /\ bill[b].payment = Nobody
  <2>1. bill[b] \in Bill /\ bill[b].status = "pending" /\ bill'[b] = [bill[b] EXCEPT !.status = "overdue"]
    BY <1>1, <1>3
  <2>2. bill[b].payment = Nobody
    BY <1>1, <1>3, <2>1 DEF BillRowOK
  <2> QED BY <2>1, <2>2 DEF Bill
<1>5. \A b \in Bills \ late : bill'[b] = bill[b]
  BY <1>1
<1>6. bill' \in [Bills -> Bill]
  <2>1. \A b \in Bills : bill'[b] \in Bill
    BY <1>3, <1>4, <1>5
  <2>2. bill' = [b \in Bills |-> bill'[b]]
    BY <1>1
  <2> QED BY <2>1, <2>2
<1>7. \A b \in late : BillRowOK(bill'[b])
  BY <1>4 DEF BillRowOK
<1>8. /\ \A d \in Bills : /\ bill'[d].payment = bill[d].payment
                          /\ bill[d].payment # Nobody => bill'[d].paid = bill[d].paid
                          /\ BillRowOK(bill'[d])
      /\ \A c \in Clerks : Locking(desk[c]) => bill'[desk[c].bill] = bill[desk[c].bill]
      /\ RowsEndure
  BY <1>1, <1>2, <1>4, <1>5, <1>6, <1>7, BillsRevised
<1>9. JobsOK'
  BY <1>2, <1>8, JobsUnmoved
<1>10. calls' \in Nat /\ today' \in Nat /\ templates' \subseteq Template /\ desk' \in [Clerks -> Job]
  BY <1>2 DEF PayablesInv, PayablesTypeOK
<1> QED BY <1>2, <1>6, <1>8, <1>9, <1>10, BillsChange

LEMMA UpdateCommits ==
    ASSUME PayablesInv, NEW c \in Clerks, UpdateBillCommit(c)
    PROVE  PayablesInv'
<1>1. PICK b, patch : /\ b = desk[c].bill /\ patch = desk[c].patch
                      /\ RowFree(b)
                      /\ bill' = [bill EXCEPT
                            ![b].price = Patched(@, patch.price, 0),
                            ![b].due = Patched(@, patch.due, 0),
                            ![b].payer = Patched(@, patch.payer, Nobody)]
  BY DEF UpdateBillCommit
<1>2. /\ UNCHANGED <<posting, funds, templates, filing, today, calls, wiped, raced>> /\ Done(c)
      /\ desk[c].op = "update"
  BY DEF UpdateBillCommit, Serving
<1>3. bill \in [Bills -> Bill] /\ desk[c] \in Job
  BY SMTT(30) DEF PayablesInv, PayablesTypeOK
<1>4. b \in Bills /\ bill[b].status # "free" /\ bill[b] \in Bill /\ BillRowOK(bill[b])
  BY <1>1, <1>2, <1>3 DEF PayablesInv, JobsOK, FreshOK, BillsOK
<1>5. patch \in Patching
  BY <1>1, <1>3 DEF Job
<1>6. PICK price \in Prices, due \in Nat, payer \in Payers :
         /\ price = Patched(bill[b].price, patch.price, 0)
         /\ due = Patched(bill[b].due, patch.due, 0)
         /\ payer = Patched(bill[b].payer, patch.payer, Nobody)
  BY <1>4, <1>5 DEF Patched, Patching, Bill
<1>7. PICK row : row = [bill[b] EXCEPT !.price = price, !.due = due, !.payer = payer]
  OBVIOUS
<1>8. /\ row \in Bill /\ row.status = bill[b].status /\ row.payment = bill[b].payment
      /\ row.paid = bill[b].paid
  BY <1>4, <1>7 DEF Bill
<1>9. bill' = [bill EXCEPT ![b] = row]
  BY ZenonT(60), <1>1, <1>3, <1>4, <1>6, <1>7
<1>10. bill' \in [Bills -> Bill] /\ bill'[b] = row /\ \A d \in Bills : d # b => bill'[d] = bill[d]
  BY <1>3, <1>4, <1>8, <1>9
<1>11. BillRowOK(row)
  BY <1>4, <1>8 DEF BillRowOK
<1>12. /\ \A d \in Bills : /\ bill'[d].payment = bill[d].payment
                           /\ bill[d].payment # Nobody => bill'[d].paid = bill[d].paid
                           /\ BillRowOK(bill'[d])
       /\ \A d \in Clerks : Locking(desk[d]) => bill'[desk[d].bill] = bill[desk[d].bill]
       /\ RowsEndure
  BY ZenonT(60), <1>1, <1>2, <1>4, <1>8, <1>10, <1>11, BillsRevised
<1>13. JobsOK' /\ desk' \in [Clerks -> Job]
  BY <1>2, <1>12, JobLeaves
<1>14. calls' \in Nat /\ today' \in Nat /\ templates' \subseteq Template
  BY <1>2 DEF PayablesInv, PayablesTypeOK
<1> QED BY SMTT(30), <1>2, <1>10, <1>12, <1>13, <1>14, BillsChange

-----------------------------------------------------------------------------
(* Days, and requests that fail *)

LEMMA RestsKeep ==
    ASSUME PayablesInv, DayPasses \/ \E c \in Clerks : GiveUp(c)
    PROVE  PayablesInv'
<1>1. UNCHANGED <<bill, posting, funds, templates, filing, calls, wiped, raced>>
  BY DEF DayPasses, GiveUp
<1>2. RowsEndure
  BY <1>1 DEF RowsEndure, Linked
<1>3. JobsOK' /\ desk' \in [Clerks -> Job] /\ today' \in Nat
  <2>1. CASE DayPasses
    <3>1. UNCHANGED desk /\ today' \in Nat
      BY <2>1, HouseholdAssumption DEF DayPasses
    <3>2. desk' \in [Clerks -> Job]
      BY <3>1 DEF PayablesInv, PayablesTypeOK
    <3> QED BY <1>1, <1>2, <3>1, <3>2, JobsUnmoved
  <2>2. ASSUME NEW c \in Clerks, GiveUp(c)
        PROVE  JobsOK' /\ desk' \in [Clerks -> Job] /\ today' \in Nat
    <3>1. Done(c) /\ today' = today
      BY <2>2 DEF GiveUp
    <3>2. today' \in Nat
      BY <3>1 DEF PayablesInv, PayablesTypeOK
    <3> QED BY <1>1, <1>2, <3>1, <3>2, JobLeaves
  <2> QED BY <2>1, <2>2
<1>4. bill' \in [Bills -> Bill] /\ calls' \in Nat /\ templates' \subseteq Template
  BY <1>1 DEF PayablesInv, PayablesTypeOK
<1>5. \A b \in Bills : BillRowOK(bill'[b])
  BY <1>1 DEF PayablesInv, BillsOK
<1> QED BY <1>1, <1>3, <1>4, <1>5, BillsChange

-----------------------------------------------------------------------------
(* What was spent *)

Spendable(rows, a) == {e \in Postings : rows[e].state = "active" /\ rows[e].payer = a}

LEMMA SpentIs ==
    ASSUME NEW a
    PROVE  /\ Spent(a) = AmountOf(posting, Spendable(posting, a))
           /\ Spent(a)' = AmountOf(posting', Spendable(posting', a))
BY Zenon DEF Spent, Amount, AmountOf, PriceOf, Spendable

LEMMA FundsAre ==
    ASSUME PayablesInv, ~raced, NEW a \in Payers
    PROVE  /\ funds[a] = -AmountOf(posting, Spendable(posting, a)) /\ funds[a] \in Int
           /\ AmountOf(posting, Spendable(posting, a)) \in Nat
           /\ Spendable(posting, a) \in SUBSET Postings
<1>1. Spendable(posting, a) \in SUBSET Postings /\ posting \in [Postings -> Posting] /\ funds[a] \in Int
  BY DEF Spendable, PayablesInv, PayablesTypeOK
<1>2. AmountOf(posting, Spendable(posting, a)) \in Nat
  BY <1>1, AmountNatural
<1>3. funds[a] = -AmountOf(posting, Spendable(posting, a))
  BY SpentIs DEF PayablesInv, FundsMatchUnlessRaced
<1> QED BY <1>1, <1>2, <1>3

(* Transactions D tombstoned, those of an account being lost *)
Tombstones(rows, then, D, a, lost) ==
    /\ \A e \in D : rows[e].state = "active" /\ then[e].state = "deleted"
                                            /\ then[e].price = rows[e].price
    /\ \A e \in Postings \ D : then[e] = rows[e]
    /\ lost = {e \in D : rows[e].payer = a}

(* What was spent goes down by their amount. *)
LEMMA SpentLess ==
    ASSUME NEW rows \in [Postings -> Posting], NEW then \in [Postings -> Posting],
           NEW D \in SUBSET Postings, NEW a \in Payers, NEW lost,
           Tombstones(rows, then, D, a, lost)
    PROVE  /\ AmountOf(then, Spendable(then, a)) =
                 AmountOf(rows, Spendable(rows, a)) - AmountOf(rows, lost)
           /\ AmountOf(rows, lost) \in Nat
<1> DEFINE left == Spendable(then, a)
<1>1. left \in SUBSET Postings /\ lost \in SUBSET Postings /\ left \cap lost = {}
  BY DEF Spendable, Tombstones
<1>2. Spendable(rows, a) = left \cup lost /\ \A e \in left : then[e].price = rows[e].price
  BY DEF Spendable, Tombstones
<1> HIDE DEF left
<1>3. AmountOf(then, left) = AmountOf(rows, left)
  BY <1>1, <1>2, AmountSame
<1>4. AmountOf(rows, left \cup lost) = AmountOf(rows, left) + AmountOf(rows, lost)
  BY <1>1, AmountJoined
<1>5. AmountOf(rows, left) \in Nat /\ AmountOf(rows, lost) \in Nat
  BY <1>1, AmountNatural
<1>6. AmountOf(then, left) = AmountOf(rows, left \cup lost) - AmountOf(rows, lost)
  BY <1>3, <1>4, <1>5
<1> QED BY <1>2, <1>5, <1>6 DEF left

-----------------------------------------------------------------------------
(* A payment *)

LEMMA PayCommits ==
    ASSUME PayablesInv, NEW c \in Clerks, PayCommit(c)
    PROVE  PayablesInv'
<1> DEFINE job == desk[c]
           row == job.row
           b == job.bill
<1>1. job = desk[c] /\ row = job.row /\ b = job.bill
  OBVIOUS
<1>2. PICK e \in Postings :
       LET settled == [bill EXCEPT ![b].status = "paid",
                                   ![b].paid = bill[b].price,
                                   ![b].payment = e]
       IN /\ IsNew(e, FreePostings)
          /\ posting' = [posting EXCEPT ![e] =
                   [state |-> "active", price |-> row.price, payer |-> row.payer,
                    filed |-> row.filed]]
          /\ funds' = [funds EXCEPT ![row.payer] = @ - row.price]
          /\ \/ /\ Recurs(job)
                /\ \E n \in Bills : /\ IsNew(n, FreeBills)
                                    /\ bill' = [settled EXCEPT ![n] = Successor(row)]
             \/ /\ ~Recurs(job)
                /\ bill' = settled
  BY Zenon DEF PayCommit
<1> HIDE DEF job, row, b
<1>3. Done(c) /\ UNCHANGED <<templates, filing, today, calls, wiped, raced>> /\ job.op = "pay"
  BY <1>1 DEF PayCommit, Serving
<1>4. job \in Job /\ LockedOK(job)
  BY <1>1 DEF PayablesInv, PayablesTypeOK, JobsOK
<1>5. /\ b \in Bills /\ row = bill[b] /\ row.status \in {"pending", "overdue"} /\ row \in Bill
      /\ row.payment = Nobody
  <2>1. b \in Bills /\ row = bill[b] /\ row.status \in {"pending", "overdue"}
    BY <1>1, <1>3, <1>4 DEF LockedOK, Locking
  <2> QED BY <2>1 DEF PayablesInv, PayablesTypeOK, BillsOK, BillRowOK
<1>6. bill \in [Bills -> Bill] /\ posting \in [Postings -> Posting] /\ funds \in [Payers -> Int]
  BY DEF PayablesInv, PayablesTypeOK
<1>7. /\ row.price \in Prices /\ row.payer \in Payers /\ row.filed \in BOOLEAN /\ row.name \in Names
      /\ row.due \in Nat /\ row.every \in {0, 1, 3, 12} /\ row.until \in Nat
  BY <1>5 DEF Bill
<1>8. posting[e].state = "free"
  BY <1>2 DEF IsNew, Earliest, FreePostings
<1>9. PICK new : new = [state |-> "active", price |-> row.price, payer |-> row.payer,
                        filed |-> row.filed]
  OBVIOUS
<1>10. new \in Posting /\ new.state = "active" /\ new.price = row.price /\ new.payer = row.payer
  BY <1>7, <1>9 DEF Posting
<1>11. /\ posting' \in [Postings -> Posting] /\ posting'[e] = new
       /\ \A f \in Postings : f # e => posting'[f] = posting[f]
  BY <1>2, <1>6, <1>9, <1>10
<1>12. PICK paid : paid = [bill[b] EXCEPT !.status = "paid", !.paid = row.price, !.payment = e]
  OBVIOUS
<1>13. paid \in Bill /\ paid.status = "paid" /\ paid.paid = row.price /\ paid.payment = e
  <2>1. bill[b] \in Bill
    BY <1>5, <1>6
  <2> QED BY <1>7, <1>12, <2>1 DEF Bill
<1>14. PICK settled : settled = [bill EXCEPT ![b] = paid]
  OBVIOUS
<1>15. /\ settled \in [Bills -> Bill] /\ settled[b] = paid
       /\ \A d \in Bills : d # b => settled[d] = bill[d]
  BY <1>5, <1>6, <1>13, <1>14
<1>16. settled = [bill EXCEPT ![b].status = "paid", ![b].paid = bill[b].price,
                              ![b].payment = e]
  BY <1>5, <1>6, <1>12, <1>14
<1>17. PICK next : next = Successor(row)
  OBVIOUS
<1>18. next \in Bill /\ next.status = "pending" /\ next.payment = Nobody
  <2>1. PICK due \in Nat : due = AddMonths(row.due, row.every)
    <3>1. row.every \in Nat
      BY <1>7
    <3> QED BY <1>7, <3>1, AddMonthsIs
  <2>2. next = NewBill(row.name, row.price, due, row.payer, row.every, row.until, row.filed)
    BY <1>17, <2>1 DEF Successor
  <2>3. next.status = "pending" /\ next.payment = Nobody
    BY <2>2 DEF NewBill
  <2>4. next \in Bill
    BY <1>7, <2>1, <2>2 DEF NewBill, Bill
  <2> QED BY <2>3, <2>4
<1>19. /\ bill' \in [Bills -> Bill] /\ bill'[b] = paid
       /\ \A d \in Bills : d # b =>
             \/ bill'[d] = bill[d]
             \/ bill[d].status = "free" /\ bill'[d] = next
  <2>1. \/ \E n \in Bills : IsNew(n, FreeBills) /\ bill' = [settled EXCEPT ![n] = next]
        \/ bill' = settled
    BY <1>2, <1>16, <1>17, Zenon
  <2>2. ASSUME NEW n \in Bills, IsNew(n, FreeBills), bill' = [settled EXCEPT ![n] = next]
        PROVE  /\ bill' \in [Bills -> Bill] /\ bill'[b] = paid
               /\ \A d \in Bills : d # b =>
                     \/ bill'[d] = bill[d]
                     \/ bill[d].status = "free" /\ bill'[d] = next
    <3>1. bill[n].status = "free" /\ n # b
      BY <1>5, <2>2 DEF IsNew, Earliest, FreeBills
    <3> QED BY <1>15, <1>18, <2>2, <3>1
  <2> QED BY <1>15, <2>1, <2>2
<1>20. \A d \in Bills : d # b => bill'[d].payment = bill[d].payment /\ BillRowOK(bill'[d])
                                 /\ (bill[d].payment # Nobody => bill'[d] = bill[d])
  <2>1. \A d \in Bills : BillRowOK(bill[d])
    BY DEF PayablesInv, BillsOK
  <2>2. BillRowOK(next)
    BY <1>18 DEF BillRowOK
  <2>3. \A d \in Bills : bill[d].status = "free" => bill[d].payment = Nobody
    BY <2>1 DEF BillRowOK
  <2> QED BY <1>18, <1>19, <2>1, <2>2, <2>3
<1>21. e # Nobody /\ \A d \in Bills : bill[d].payment # e
  <2>1. e # Nobody
    BY HouseholdAssumption
  <2>2. \A d \in Bills : bill[d].payment = e => posting[e].state # "free"
    BY <2>1 DEF PayablesInv, BillsOK, WipedOK, PaymentOf
  <2> QED BY <1>8, <2>1, <2>2
<1>22. BillsOK'
  <2>1. \A d \in Bills : BillRowOK(bill'[d])
    <3>1. BillRowOK(paid)
      BY <1>13, <1>21 DEF BillRowOK
    <3> QED BY <1>19, <1>20, <3>1
  <2>2. ASSUME NEW d \in Bills, bill'[d].payment # Nobody
        PROVE  /\ bill'[d].paid = posting'[bill'[d].payment].price
               /\ \/ posting'[bill'[d].payment].state = "active"
                  \/ bill'[d].payment \in wiped'
    <3>1. CASE d = b
      BY <1>10, <1>11, <1>13, <1>19, <3>1
    <3>2. CASE d # b
      <4>1. bill'[d] = bill[d] /\ bill[d].payment # e
        BY <1>20, <1>21, <2>2, <3>2
      <4>2. bill[d].payment \in Postings
        <5>1. bill[d] \in Bill
          BY <1>6
        <5> QED BY <2>2, <4>1, <5>1 DEF Bill
      <4>3. posting'[bill[d].payment] = posting[bill[d].payment]
        BY <1>11, <4>1, <4>2
      <4> QED BY <1>3, <2>2, <4>1, <4>3 DEF PayablesInv, BillsOK, PaymentOf
    <3> QED BY <3>1, <3>2
  <2>3. \A d, r \in Bills : bill'[d].payment = bill'[r].payment => d = r \/ bill'[d].payment = Nobody
    <3>1. \A d, r \in Bills : bill[d].payment = bill[r].payment => d = r \/ bill[d].payment = Nobody
      BY DEF PayablesInv, BillsOK
    <3> QED BY <1>13, <1>19, <1>20, <1>21, <3>1
  <2> QED BY <2>1, <2>2, <2>3 DEF BillsOK, PaymentOf, BillRowOK
<1>23. RowsEndure
  <2>1. \A d \in Bills : bill[d].status # "free" => bill'[d].status # "free"
    BY <1>13, <1>18, <1>19
  <2>2. \A f \in Postings : f # e /\ ~Linked(f) => ~Linked(f)'
    BY <1>13, <1>19, <1>20 DEF Linked
  <2> QED BY <1>3, <1>8, <1>11, <2>1, <2>2 DEF RowsEndure
<1>24. JobsOK' /\ desk' \in [Clerks -> Job]
  <2>1. ASSUME NEW d \in Clerks, d # c, Locking(desk[d])
        PROVE  bill'[desk[d].bill] = bill[desk[d].bill]
    <3>1. Locking(desk[c])
      BY <1>1, <1>3 DEF Locking
    <3>2. desk[d].bill # b /\ desk[d].bill \in Bills /\ bill[desk[d].bill].status # "free"
      BY <1>1, <2>1, <3>1 DEF PayablesInv, JobsOK, LockedOK, Locking
    <3> QED BY <1>19, <3>2
  <2> QED BY <1>3, <1>23, <2>1, JobLeaves
<1>25. PayablesTypeOK'
  <2>1. row.price \in Int
    <3>1. \A price \in Prices : price \in Nat
      BY HouseholdAssumption
    <3> QED BY <1>7, <3>1
  <2>2. funds' \in [Payers -> Int]
    BY <1>2, <1>6, <1>7, <2>1
  <2> QED BY <1>3, <1>11, <1>19, <1>24, <2>2 DEF PayablesInv, PayablesTypeOK
<1>26. WipedOK'
  BY <1>3, <1>11, <1>10 DEF PayablesInv, WipedOK, PayablesTypeOK
<1>27. FundsMatchUnlessRaced'
  <2>1. ASSUME ~raced, NEW a \in Payers
        PROVE  funds'[a] = -AmountOf(posting', Spendable(posting', a))
    <3> DEFINE S == Spendable(posting, a)
    <3>1. funds[a] = -AmountOf(posting, S) /\ funds[a] \in Int /\ AmountOf(posting, S) \in Nat
          /\ S \in SUBSET Postings
      BY <2>1, FundsAre
    <3>2. e \notin S /\ \A f \in S : posting'[f].price = posting[f].price
      BY <1>8, <1>11 DEF Spendable
    <3>3. Spendable(posting', a) = IF row.payer = a THEN S \cup {e} ELSE S
      BY <1>8, <1>10, <1>11 DEF Spendable
    <3> HIDE DEF S
    <3>4. AmountOf(posting', S) = AmountOf(posting, S)
      BY <1>6, <1>11, <3>1, <3>2, AmountSame
    <3>5. row.price \in Nat
      BY <1>7, HouseholdAssumption
    <3>6. CASE row.payer = a
      <4>1. AmountOf(posting', S \cup {e}) = AmountOf(posting', S) + AmountOf(posting', {e})
        <5>1. {e} \in SUBSET Postings /\ S \cap {e} = {}
          BY <3>2
        <5> QED BY <1>11, <3>1, <5>1, AmountJoined
      <4>2. AmountOf(posting', {e}) = row.price
        BY <1>10, <1>11, AmountOne
      <4>3. funds'[a] = funds[a] - row.price
        BY <1>2, <1>6, <3>6
      <4>4. AmountOf(posting', Spendable(posting', a)) = AmountOf(posting, S) + row.price
        BY <3>3, <3>4, <3>6, <4>1, <4>2
      <4> QED BY <3>1, <3>5, <4>3, <4>4
    <3>7. CASE row.payer # a
      <4>1. funds'[a] = funds[a]
        BY SMTT(30), <1>2, <1>6, <3>7
      <4> QED BY <3>1, <3>3, <3>4, <3>7, <4>1
    <3> QED BY <3>6, <3>7
  <2> QED BY <1>3, <2>1, SpentIs DEF FundsMatchUnlessRaced
<1> QED BY <1>22, <1>24, <1>25, <1>26, <1>27 DEF PayablesInv

-----------------------------------------------------------------------------
(* A payment undone *)

LEMMA UnpayIs ==
    ASSUME PayablesInv, NEW c \in Clerks, UnpayCommit(c)
    PROVE  LET job == desk[c]
               b == job.bill
               e == job.row.payment
           IN /\ job.op = "unpay" /\ job \in Job /\ b \in Bills /\ job.row = bill[b]
              /\ bill[b].status = "paid" /\ e = bill[b].payment /\ e \in Postings
              /\ job.named \in {e, Nobody}
              /\ ~job.seen => posting[e].state = "deleted"
              /\ posting[e].state \in {"active", "deleted"}
              /\ \A d \in Bills : d # b => bill[d].payment # e
              /\ posting' = [posting EXCEPT ![e].state = "deleted"]
<1>1. PICK job, b, e : job = desk[c] /\ b = job.bill /\ e = job.row.payment
  OBVIOUS
<1>2. job.op = "unpay" /\ posting' = [posting EXCEPT ![e].state = "deleted"]
  BY <1>1, Zenon DEF UnpayCommit, Serving
<1>3. job \in Job /\ LockedOK(job)
  BY <1>1 DEF PayablesInv, PayablesTypeOK, JobsOK
<1>4. /\ b \in Bills /\ job.row = bill[b] /\ bill[b].status = "paid" /\ e = bill[b].payment
      /\ job.named \in {e, Nobody} /\ (~job.seen => posting[e].state = "deleted")
  BY <1>1, <1>2, <1>3 DEF LockedOK, Locking
<1>5. bill[b] \in Bill /\ e # Nobody
  BY <1>4 DEF PayablesInv, PayablesTypeOK, BillsOK, BillRowOK
<1>6. e \in Postings
  BY <1>4, <1>5 DEF Bill
<1>7. posting[e].state \in {"active", "deleted"}
  <2>1. posting[e] \in Posting
    BY <1>6 DEF PayablesInv, PayablesTypeOK
  <2>2. posting[e].state \in {"free", "active", "deleted"}
    BY <2>1 DEF Posting
  <2>3. posting[e].state # "free"
    BY <1>4, <1>5 DEF PayablesInv, BillsOK, WipedOK, PaymentOf
  <2> QED BY <2>2, <2>3
<1>8. \A d \in Bills : d # b => bill[d].payment # e
  BY <1>4, <1>5 DEF PayablesInv, BillsOK
<1> QED BY <1>1, <1>2, <1>3, <1>4, <1>6, <1>7, <1>8

LEMMA UnpayCommits ==
    ASSUME PayablesInv, NEW c \in Clerks, UnpayCommit(c)
    PROVE  PayablesInv'
<1> DEFINE job == desk[c]
           b == job.bill
           e == job.row.payment
<1>1. /\ job.op = "unpay" /\ job \in Job /\ b \in Bills /\ job.row = bill[b]
      /\ bill[b].status = "paid" /\ e = bill[b].payment /\ e \in Postings
      /\ ~job.seen => posting[e].state = "deleted"
      /\ posting[e].state \in {"active", "deleted"}
      /\ \A d \in Bills : d # b => bill[d].payment # e
      /\ posting' = [posting EXCEPT ![e].state = "deleted"]
  BY UnpayIs
<1>2. /\ bill' = [bill EXCEPT ![b].status = Lateness(job.row.due, today), ![b].paid = 0,
                              ![b].payment = Nobody]
      /\ funds' = [funds EXCEPT ![Refund(job).payer] = @ + Refund(job).price]
      /\ raced' = (raced \/ (job.seen /\ posting[e].state # "active"))
  BY ZenonT(60) DEF UnpayCommit
<1>3. Done(c) /\ UNCHANGED <<templates, filing, today, calls, wiped>>
  BY DEF UnpayCommit
<1>4. Refund(job).payer = posting[e].payer
      /\ Refund(job).price = IF job.seen THEN posting[e].price ELSE 0
  BY DEF Refund
<1>5. job = desk[c]
  OBVIOUS
<1> HIDE DEF job, b, e
<1>6. bill \in [Bills -> Bill] /\ posting \in [Postings -> Posting] /\ funds \in [Payers -> Int]
      /\ raced \in BOOLEAN
  BY DEF PayablesInv, PayablesTypeOK
<1>7. PICK status \in {"pending", "overdue"} : status = Lateness(job.row.due, today)
  BY DEF Lateness
<1>8. PICK row : row = [bill[b] EXCEPT !.status = status, !.paid = 0, !.payment = Nobody]
  OBVIOUS
<1>9. row \in Bill /\ row.status \in {"pending", "overdue"} /\ row.payment = Nobody
  <2>1. bill[b] \in Bill
    BY <1>1, <1>6
  <2> QED BY <1>8, <2>1 DEF Bill
<1>10. bill' = [bill EXCEPT ![b] = row]
  BY <1>1, <1>2, <1>6, <1>7, <1>8
<1>11. bill' \in [Bills -> Bill] /\ bill'[b] = row /\ \A d \in Bills : d # b => bill'[d] = bill[d]
  BY <1>1, <1>6, <1>9, <1>10
<1>12. PICK gone : gone = [posting[e] EXCEPT !.state = "deleted"]
  OBVIOUS
<1>13. /\ gone \in Posting /\ gone.state = "deleted" /\ gone.price = posting[e].price
       /\ gone.payer = posting[e].payer /\ posting[e].price \in Prices /\ posting[e].payer \in Payers
  <2>1. posting[e] \in Posting
    BY <1>1, <1>6
  <2> QED BY <1>12, <2>1 DEF Posting
<1>14. /\ posting' \in [Postings -> Posting] /\ posting'[e] = gone
       /\ \A f \in Postings : f # e => posting'[f] = posting[f]
  BY <1>1, <1>6, <1>12, <1>13
<1>15. posting[e].price \in Nat
  BY <1>13, HouseholdAssumption
<1>16. BillsOK'
  <2>1. \A d \in Bills : BillRowOK(bill'[d])
    <3>1. BillRowOK(row)
      BY <1>9 DEF BillRowOK
    <3> QED BY <1>11, <3>1 DEF PayablesInv, BillsOK
  <2>2. ASSUME NEW d \in Bills, bill'[d].payment # Nobody
        PROVE  /\ bill'[d].paid = posting'[bill'[d].payment].price
               /\ \/ posting'[bill'[d].payment].state = "active"
                  \/ bill'[d].payment \in wiped'
    <3>1. d # b /\ bill'[d] = bill[d] /\ bill[d].payment # e
      BY <1>1, <1>9, <1>11, <2>2
    <3>2. bill[d].payment \in Postings
      <4>1. bill[d] \in Bill
        BY <1>6
      <4> QED BY <2>2, <3>1, <4>1 DEF Bill
    <3>3. posting'[bill[d].payment] = posting[bill[d].payment]
      BY <1>14, <3>1, <3>2
    <3> QED BY <1>3, <2>2, <3>1, <3>3 DEF PayablesInv, BillsOK, PaymentOf
  <2>3. \A d, r \in Bills : bill'[d].payment = bill'[r].payment => d = r \/ bill'[d].payment = Nobody
    <3>1. \A d, r \in Bills : bill[d].payment = bill[r].payment => d = r \/ bill[d].payment = Nobody
      BY DEF PayablesInv, BillsOK
    <3> QED BY <1>9, <1>11, <3>1
  <2> QED BY <2>1, <2>2, <2>3 DEF BillsOK, PaymentOf, BillRowOK
<1>17. RowsEndure
  <2>1. \A d \in Bills : bill[d].status # "free" => bill'[d].status # "free"
    BY <1>9, <1>11
  <2>2. \A f \in Postings : ~Linked(f) => ~Linked(f)'
    <3>1. \A f \in Postings : f # Nobody
      BY HouseholdAssumption
    <3> QED BY <1>9, <1>11, <3>1 DEF Linked
  <2> QED BY <1>3, <1>13, <1>14, <2>1, <2>2 DEF RowsEndure
<1>18. JobsOK' /\ desk' \in [Clerks -> Job]
  <2>1. ASSUME NEW d \in Clerks, d # c, Locking(desk[d])
        PROVE  bill'[desk[d].bill] = bill[desk[d].bill]
    <3>1. Locking(desk[c])
      BY <1>1, <1>5 DEF Locking
    <3>2. desk[d].bill # b /\ desk[d].bill \in Bills
      BY <1>5, <2>1, <3>1 DEF PayablesInv, JobsOK, LockedOK, Locking, b
    <3> QED BY <1>11, <3>2
  <2> QED BY <1>3, <1>17, <2>1, JobLeaves
<1>19. job.seen \in BOOLEAN
  BY <1>1 DEF Job
<1>20. /\ raced' \in BOOLEAN
       /\ ~raced' => ~raced /\ (posting[e].state = "deleted" \/ job.seen)
                            /\ (job.seen => posting[e].state = "active")
  <2>1. posting[e].state # "active" => posting[e].state = "deleted"
    BY <1>1
  <2>2. raced' \in BOOLEAN
    BY <1>2, Zenon
  <2> QED BY <1>1, <1>2, <2>1, <2>2, Zenon
<1>21. PICK price \in Nat, payer \in Payers :
          /\ price = Refund(job).price /\ payer = Refund(job).payer
          /\ payer = posting[e].payer /\ (job.seen => price = posting[e].price)
          /\ (~job.seen => price = 0)
  BY <1>4, <1>13, <1>15
<1>22. funds' \in [Payers -> Int] /\ funds'[payer] = funds[payer] + price
       /\ \A a \in Payers : a # payer => funds'[a] = funds[a]
  BY <1>2, <1>6, <1>21
<1>23. PayablesTypeOK'
  BY <1>3, <1>11, <1>14, <1>18, <1>20, <1>22 DEF PayablesInv, PayablesTypeOK
<1>24. WipedOK'
  BY <1>3, <1>13, <1>14 DEF PayablesInv, WipedOK, PayablesTypeOK
<1>25. FundsMatchUnlessRaced'
  <2>1. ASSUME ~raced', NEW a \in Payers
        PROVE  funds'[a] = -AmountOf(posting', Spendable(posting', a))
    <3> DEFINE S == Spendable(posting, a)
    <3>1. ~raced
      BY <1>20, <2>1
    <3>2. /\ funds[a] = -AmountOf(posting, S) /\ funds[a] \in Int
          /\ AmountOf(posting, S) \in Nat /\ S \in SUBSET Postings
      BY <3>1, FundsAre
    <3>3. CASE posting[e].state = "deleted"
      <4>1. ~job.seen
        <5>1. posting[e].state # "active"
          BY <3>3
        <5> QED BY <1>20, <2>1, <5>1
      <4>2. funds'[a] = funds[a]
        <5>1. price = 0
          BY <1>21, <4>1
        <5> QED BY <1>22, <3>2, <5>1
      <4>3. Spendable(posting', a) = S /\ \A f \in S : posting'[f].price = posting[f].price
        BY <1>13, <1>14, <3>3 DEF Spendable
      <4>4. AmountOf(posting', S) = AmountOf(posting, S)
        BY <1>6, <1>14, <3>2, <4>3, AmountSame
      <4> QED BY <3>2, <4>2, <4>3, <4>4
    <3>4. CASE posting[e].state = "active"
      <4>1. job.seen /\ price = posting[e].price
        <5>1. posting[e].state # "deleted"
          BY <3>4
        <5> QED BY <1>20, <1>21, <2>1, <5>1
      <4> DEFINE lost == {f \in {e} : posting[f].payer = a}
      <4>2. /\ AmountOf(posting', Spendable(posting', a)) = AmountOf(posting, S) - AmountOf(posting, lost)
            /\ AmountOf(posting, lost) \in Nat
        <5>1. {e} \in SUBSET Postings
          BY <1>1
        <5>2. Tombstones(posting, posting', {e}, a, lost)
          BY <1>1, <1>13, <1>14, <3>4 DEF Tombstones
        <5> HIDE DEF S, lost
        <5> QED BY <1>6, <1>14, <5>1, <5>2, SpentLess DEF S
      <4>3. CASE payer = a
        <5>1. lost = {e}
          BY <1>21, <4>3
        <5>2. AmountOf(posting, {e}) = price
          BY <1>1, <1>6, <4>1, AmountOne
        <5>3. AmountOf(posting, lost) = price
          BY <5>1, <5>2
        <5> HIDE DEF S, lost
        <5> QED BY <1>22, <3>2, <4>2, <4>3, <5>3
      <4>4. CASE payer # a
        <5>1. lost = {}
          BY <1>21, <4>4
        <5>2. AmountOf(posting, lost) = 0
          BY <5>1, AmountNone
        <5> HIDE DEF S, lost
        <5> QED BY <1>22, <3>2, <4>2, <4>4, <5>2
      <4> QED BY <4>3, <4>4
    <3> QED BY <1>1, <3>3, <3>4
  <2> QED BY <2>1, SpentIs DEF FundsMatchUnlessRaced
<1> QED BY <1>16, <1>18, <1>23, <1>24, <1>25 DEF PayablesInv

-----------------------------------------------------------------------------
(* Transactions deleted *)

LEMMA PostingsDeleted ==
    ASSUME PayablesInv, NEW c \in Clerks, NEW D \in SUBSET Postings,
           \A e \in D : posting[e].state = "active",
           posting' = [e \in Postings |-> IF e \in D
                         THEN [posting[e] EXCEPT !.state = "deleted"] ELSE posting[e]],
           wiped \subseteq wiped', wiped' \subseteq wiped \cup D,
           \A e \in D : e \in wiped' \/ ~Linked(e),
           Done(c), UNCHANGED <<bill, templates, today, calls>>,
           filing' \in BOOLEAN, raced' \in BOOLEAN, raced => raced',
           GiveBack(c), ~raced' => D = desk[c].images
    PROVE  PayablesInv'
<1>1. /\ bill \in [Bills -> Bill] /\ posting \in [Postings -> Posting]
      /\ funds \in [Payers -> Int] /\ desk[c] \in Job
  BY DEF PayablesInv, PayablesTypeOK
<1>2. \A e \in D : /\ posting'[e] \in Posting /\ posting'[e].state = "deleted"
                   /\ posting'[e].price = posting[e].price /\ posting'[e].payer = posting[e].payer
  <2>1. ASSUME NEW e \in D
        PROVE  /\ posting'[e] \in Posting /\ posting'[e].state = "deleted"
               /\ posting'[e].price = posting[e].price /\ posting'[e].payer = posting[e].payer
    <3>1. posting[e] \in Posting /\ posting'[e] = [posting[e] EXCEPT !.state = "deleted"]
      BY <1>1
    <3> QED BY <3>1 DEF Posting
  <2> QED BY <2>1
<1>3. \A e \in Postings \ D : posting'[e] = posting[e]
  OBVIOUS
<1>4. posting' \in [Postings -> Posting] /\ \A e \in Postings : posting'[e].price = posting[e].price
  BY <1>1, <1>2, <1>3
<1>5. BillsOK'
  <2>1. ASSUME NEW b \in Bills, bill[b].payment # Nobody
        PROVE  /\ bill[b].paid = posting'[bill[b].payment].price
               /\ \/ posting'[bill[b].payment].state = "active"
                  \/ bill[b].payment \in wiped'
    <3>1. PICK e \in Postings : e = bill[b].payment
      <4>1. bill[b] \in Bill
        BY <1>1
      <4> QED BY <2>1, <4>1 DEF Bill
    <3>2. bill[b].paid = posting[e].price /\ (posting[e].state = "active" \/ e \in wiped)
      BY <2>1, <3>1 DEF PayablesInv, BillsOK, PaymentOf
    <3>3. Linked(e)
      BY <3>1 DEF Linked
    <3> QED BY <1>3, <1>4, <3>1, <3>2, <3>3
  <2> QED BY <2>1 DEF PayablesInv, BillsOK, PaymentOf, BillRowOK
<1>6. RowsEndure
  BY <1>2, <1>3 DEF RowsEndure, Linked
<1>7. JobsOK' /\ desk' \in [Clerks -> Job]
  BY <1>6, JobLeaves
<1>8. WipedOK'
  BY <1>2, <1>3 DEF PayablesInv, WipedOK, PayablesTypeOK
<1> DEFINE Given(a) == {e \in desk[c].images : posting[e].payer = a}
<1>9. /\ desk[c].images \in SUBSET Postings
      /\ \A a \in Payers : Given(a) \in SUBSET Postings /\ AmountOf(posting, Given(a)) \in Nat
  <2>1. desk[c].images \in SUBSET Postings
    BY <1>1 DEF Job
  <2>2. ASSUME NEW a \in Payers
        PROVE  Given(a) \in SUBSET Postings /\ AmountOf(posting, Given(a)) \in Nat
    <3>1. Given(a) \in SUBSET Postings
      BY <2>1
    <3> HIDE DEF Given
    <3> QED BY <1>1, <3>1, AmountNatural
  <2> HIDE DEF Given
  <2> QED BY <2>1, <2>2
<1>10. funds' = [a \in Payers |-> funds[a] + AmountOf(posting, Given(a))]
  BY AmountIs DEF GiveBack
<1>11. PayablesTypeOK'
  <2> HIDE DEF Given
  <2>1. funds' \in [Payers -> Int]
    BY <1>1, <1>9, <1>10
  <2>2. wiped' \subseteq Postings
    BY DEF PayablesInv, PayablesTypeOK
  <2> QED BY <1>4, <1>7, <2>1, <2>2 DEF PayablesInv, PayablesTypeOK
<1>12. FundsMatchUnlessRaced'
  <2>1. ASSUME ~raced', NEW a \in Payers
        PROVE  funds'[a] = -AmountOf(posting', Spendable(posting', a))
    <3>1. ~raced /\ D = desk[c].images
      BY <2>1
    <3>2. /\ funds[a] = -AmountOf(posting, Spendable(posting, a)) /\ funds[a] \in Int
          /\ AmountOf(posting, Spendable(posting, a)) \in Nat
      BY <3>1, FundsAre
    <3> DEFINE lost == {e \in D : posting[e].payer = a}
    <3>3. /\ AmountOf(posting', Spendable(posting', a)) =
                AmountOf(posting, Spendable(posting, a)) - AmountOf(posting, lost)
          /\ AmountOf(posting, lost) \in Nat
      <4>1. Tombstones(posting, posting', D, a, lost)
        BY <1>2, <1>3 DEF Tombstones
      <4> HIDE DEF lost
      <4> QED BY <1>1, <1>4, <4>1, SpentLess
    <3>4. lost = Given(a)
      BY <3>1
    <3>5. funds'[a] = funds[a] + AmountOf(posting, Given(a))
      BY <1>10
    <3> HIDE DEF lost, Given
    <3> QED BY <3>2, <3>3, <3>4, <3>5
  <2> QED BY <2>1, SpentIs DEF FundsMatchUnlessRaced
<1> QED BY <1>5, <1>7, <1>8, <1>11, <1>12 DEF PayablesInv

LEMMA DeletionsCommit ==
    ASSUME PayablesInv, NEW c \in Clerks, DeleteCommit(c) \/ DropCategoryCommit(c)
    PROVE  PayablesInv'
<1>1. desk[c] \in Job /\ filing \in BOOLEAN /\ raced \in BOOLEAN
  BY DEF PayablesInv, PayablesTypeOK
<1>2. CASE DeleteCommit(c)
  <2>1. PICK D : D = desk[c].images
    OBVIOUS
  <2>2. /\ desk[c].op = "delete" /\ \A e \in D : posting[e].state = "active"
        /\ posting' = [e \in Postings |-> IF e \in D
                         THEN [posting[e] EXCEPT !.state = "deleted"] ELSE posting[e]]
        /\ GiveBack(c) /\ Done(c)
        /\ UNCHANGED <<bill, templates, filing, today, calls, wiped, raced>>
    BY <1>2, <2>1 DEF DeleteCommit, Serving
  <2>3. D \in SUBSET Postings
    BY <1>1, <2>1 DEF Job
  <2>4. \A e \in D : ~Linked(e)
    BY <2>1, <2>2 DEF PayablesInv, JobsOK, ImagesOK
  <2> QED BY <1>1, <2>1, <2>2, <2>3, <2>4, PostingsDeleted
<1>3. CASE DropCategoryCommit(c)
  <2>1. PICK D : D = {e \in Postings : posting[e].state = "active" /\ posting[e].filed}
    OBVIOUS
  <2>2. /\ posting' = [e \in Postings |-> IF e \in D
                         THEN [posting[e] EXCEPT !.state = "deleted"] ELSE posting[e]]
        /\ wiped' = wiped \cup D
        /\ raced' = (raced \/ D # desk[c].images)
        /\ GiveBack(c) /\ Done(c) /\ filing' = FALSE
        /\ UNCHANGED <<bill, templates, today, calls>>
    BY <1>3, <2>1 DEF DropCategoryCommit
  <2>3. D \in SUBSET Postings /\ \A e \in D : posting[e].state = "active"
    BY <2>1
  <2>4. raced' \in BOOLEAN /\ (raced => raced') /\ (~raced' => D = desk[c].images)
    BY <2>2, Zenon
  <2>5. filing' \in BOOLEAN
    BY <2>2
  <2>6. /\ wiped \subseteq wiped' /\ wiped' \subseteq wiped \cup D
        /\ \A e \in D : e \in wiped' \/ ~Linked(e)
    BY <2>2
  <2> QED BY <2>2, <2>3, <2>4, <2>5, <2>6, PostingsDeleted
<1> QED BY <1>2, <1>3

-----------------------------------------------------------------------------
(* The invariant *)

LEMMA PayablesStart == PayablesInit => PayablesInv
<1> SUFFICES ASSUME PayablesInit PROVE PayablesInv
  OBVIOUS
<1>1. PICK row \in StartingBills : bill = [b \in Bills |-> IF IsNew(b, Bills) THEN row ELSE NoBill]
  BY DEF PayablesInit
<1>2. PICK filed \in BOOLEAN, first \in Earliest(Postings) :
          posting = [e \in Postings |->
              IF e = first
              THEN [NoPosting EXCEPT !.state = "active", !.filed = filed]
              ELSE NoPosting]
  BY DEF PayablesInit
<1>3. /\ funds = [a \in Payers |-> IF a = NoPosting.payer THEN -NoPosting.price ELSE 0]
      /\ templates \in {{}} \cup {{t} : t \in Templates}
      /\ filing = TRUE /\ today \in Earliest(Calendar) /\ desk = [c \in Clerks |-> NoJob]
      /\ calls = 0 /\ wiped = {} /\ raced = FALSE
  BY DEF PayablesInit
<1>4. /\ bill \in [Bills -> Bill]
      /\ \A b \in Bills : bill[b].status \in {"free", "pending"} /\ bill[b].payment = Nobody
  BY <1>1, NoneAre, RequestsAssumption
<1>5. PICK paid : paid = [NoPosting EXCEPT !.state = "active", !.filed = filed]
  OBVIOUS
<1>6. /\ paid \in Posting /\ paid.state = "active" /\ paid.price = NoPosting.price
      /\ paid.payer = NoPosting.payer
  BY <1>5, NoneAre DEF Posting
<1>7. first \in Postings
  BY <1>2 DEF Earliest
<1>8. posting \in [Postings -> Posting] /\ posting[first] = paid
      /\ \A e \in Postings : e # first => posting[e] = NoPosting
  BY <1>2, <1>5, <1>6, <1>7, NoneAre
<1>9. NoPosting.price \in Nat /\ NoPosting.price \in Int
  <2>1. NoPosting.price \in Prices
    BY NoneAre DEF Posting
  <2>2. \A price \in Prices : price \in Nat /\ price \in Int
    BY HouseholdAssumption
  <2> QED BY <2>1, <2>2
<1>10. PayablesTypeOK
  <2>1. funds \in [Payers -> Int]
    BY <1>3, <1>9
  <2>2. templates \subseteq Template
    BY <1>3, RequestsAssumption
  <2>3. desk \in [Clerks -> Job]
    BY <1>3, NoJobIs
  <2>4. today \in Nat
    BY <1>3, HouseholdAssumption DEF Earliest
  <2> QED BY <1>3, <1>4, <1>8, <2>1, <2>2, <2>3, <2>4 DEF PayablesTypeOK
<1>11. BillsOK
  BY <1>4 DEF BillsOK, BillRowOK
<1>12. WipedOK
  BY <1>3 DEF WipedOK
<1>13. JobsOK
  <2>1. \A c \in Clerks : desk[c] = NoJob
    BY <1>3
  <2> QED BY <2>1, NoJobIs DEF JobsOK
<1>14. ASSUME NEW a \in Payers PROVE funds[a] = -AmountOf(posting, Spendable(posting, a))
  <2>1. CASE a = NoPosting.payer
    <3>1. Spendable(posting, a) = {first}
      BY <1>6, <1>7, <1>8, <2>1, NoneAre DEF Spendable
    <3>2. AmountOf(posting, {first}) = NoPosting.price
      BY <1>6, <1>7, <1>8, AmountOne
    <3>3. funds[a] = -NoPosting.price
      BY <1>3, <2>1
    <3> QED BY <3>1, <3>2, <3>3
  <2>2. CASE a # NoPosting.payer
    <3>1. Spendable(posting, a) = {}
      BY <1>6, <1>7, <1>8, <2>2, NoneAre DEF Spendable
    <3>2. funds[a] = 0
      BY <1>3, <2>2
    <3> QED BY <3>1, <3>2, AmountNone
  <2> QED BY <2>1, <2>2
<1>15. FundsMatchUnlessRaced
  BY <1>14, SpentIs DEF FundsMatchUnlessRaced
<1> QED BY <1>10, <1>11, <1>12, <1>13, <1>15 DEF PayablesInv

LEMMA CallsKeep ==
    ASSUME PayablesInv, NEW c \in Clerks, Call(c)
    PROVE  PayablesInv'
<1>1. ASSUME NEW b \in Bills, NEW prepay \in BOOLEAN, Pay(c, b, prepay) PROVE PayablesInv'
  BY <1>1, PayStarts
<1>2. ASSUME NEW b \in Bills, NEW t \in Postings \cup {Nobody}, Unpay(c, b, t)
      PROVE  PayablesInv'
  BY <1>2, UnpayStarts
<1>3. ASSUME NEW b \in Bills, NEW patch \in BillPatches, UpdateBill(c, b, patch)
      PROVE  PayablesInv'
  BY <1>3, UpdateStarts
<1>4. ASSUME NEW e \in Postings, DeletePosting(c, e) PROVE PayablesInv'
  BY <1>4, DeleteStarts
<1>5. CASE DropCategory(c)
  BY <1>5, CascadeStarts
<1>6. CASE AutoCreate(c)
  BY <1>6, AutoStarts
<1> QED BY <1>1, <1>2, <1>3, <1>4, <1>5, <1>6 DEF Call

LEMMA PayablesStutter ==
    ASSUME PayablesInv, UNCHANGED payablesVars
    PROVE  PayablesInv'
<1>1. /\ UNCHANGED <<bill, posting, funds, templates, filing, today, desk, calls, wiped, raced>>
  BY DEF payablesVars
<1>2. RowsEndure
  BY <1>1 DEF RowsEndure, Linked
<1>3. JobsOK'
  BY <1>1, <1>2, JobsUnmoved
<1>4. PayablesTypeOK /\ BillsOK
  BY DEF PayablesInv
<1>5. /\ bill' \in [Bills -> Bill] /\ templates' \subseteq Template /\ today' \in Nat
      /\ calls' \in Nat /\ desk' \in [Clerks -> Job]
  BY <1>1, <1>4 DEF PayablesTypeOK
<1>6. \A b \in Bills : BillRowOK(bill'[b])
  BY <1>1, <1>4 DEF BillsOK
<1> QED BY <1>1, <1>3, <1>5, <1>6, BillsChange

LEMMA PayablesStep ==
    ASSUME PayablesInv, [PayablesNext]_payablesVars
    PROVE  PayablesInv'
<1>1. CASE \/ \E row \in StartingBills : CreateBill(row)
           \/ \E t \in Templates : CreateWithTemplate(t) \/ CreateTemplate(t)
           \/ CreateFromTemplate
  BY <1>1, CreationsKeep
<1>2. CASE \E b \in Bills : Cancel(b)
  BY <1>2, CancelKeeps
<1>3. CASE Refresh
  BY <1>3, RefreshKeeps
<1>4. CASE DayPasses
  BY <1>4, RestsKeep
<1>5. ASSUME NEW c \in Clerks,
             \/ Call(c) \/ AutoCheck(c) \/ AutoCommit(c) \/ PayCommit(c) \/ UnpayCommit(c)
             \/ UpdateBillCommit(c) \/ DeleteCommit(c) \/ DropCategoryCommit(c) \/ GiveUp(c)
      PROVE  PayablesInv'
  <2>1. CASE Call(c)
    BY <2>1, CallsKeep
  <2>2. CASE AutoCheck(c)
    BY <2>2, AutoChecks
  <2>3. CASE AutoCommit(c)
    BY <2>3, AutoCommits
  <2>4. CASE PayCommit(c)
    BY <2>4, PayCommits
  <2>5. CASE UnpayCommit(c)
    BY <2>5, UnpayCommits
  <2>6. CASE UpdateBillCommit(c)
    BY <2>6, UpdateCommits
  <2>7. CASE DeleteCommit(c) \/ DropCategoryCommit(c)
    BY <2>7, DeletionsCommit
  <2>8. CASE GiveUp(c)
    BY <2>8, RestsKeep
  <2> QED BY <1>5, <2>1, <2>2, <2>3, <2>4, <2>5, <2>6, <2>7, <2>8
<1>6. CASE UNCHANGED payablesVars
  BY <1>6, PayablesStutter
<1> QED BY <1>1, <1>2, <1>3, <1>4, <1>5, <1>6 DEF PayablesNext

(* PayablesInv is an invariant of the bills: a bill being paid or unpaid is *)
(* as the request that locked it read it, and what was read is still so     *)
(* far as the commit relies on it.                                          *)
THEOREM PayablesInvariance == PayablesSpec => []PayablesInv
<1>1. PayablesInit => PayablesInv
  BY PayablesStart
<1>2. PayablesInv /\ [PayablesNext]_payablesVars => PayablesInv'
  BY PayablesStep
<1> QED BY <1>1, <1>2, PTL DEF PayablesSpec

(* Every variable of the bills stays in its type. *)
THEOREM PayablesTypes == PayablesSpec => []PayablesTypeOK
<1>1. PayablesInv => PayablesTypeOK
  BY DEF PayablesInv
<1> QED BY <1>1, PayablesInvariance, PTL

LEMMA BookedOnce == PayablesInv => PaymentIsBookedOnce
<1> SUFFICES ASSUME PayablesInv PROVE PaymentIsBookedOnce
  OBVIOUS
<1>1. ASSUME NEW b \in Bills
      PROVE  /\ bill[b].status = "paid" => bill[b].payment # Nobody
             /\ bill[b].payment # Nobody =>
                   /\ bill[b].status \in {"paid", "cancelled"}
                   /\ bill[b].paid = PaymentOf(b).price
                   /\ PaymentOf(b).state = "active" \/ bill[b].payment \in wiped
  <2>1. bill[b] \in Bill /\ BillRowOK(bill[b])
    BY DEF PayablesInv, PayablesTypeOK, BillsOK
  <2>2. bill[b].status \in {"free", "pending", "overdue", "paid", "cancelled"}
    BY <2>1 DEF Bill
  <2> QED BY <2>1, <2>2 DEF PayablesInv, BillsOK, BillRowOK
<1> QED BY <1>1 DEF PayablesInv, BillsOK, PaymentIsBookedOnce

(* PaymentIsBookedOnce (payPayable, undoPayablePayment): a paid bill has a  *)
(* transaction of its own for what it says was paid, and an unpaid one has  *)
(* none, however payments, undos, cancellations and deletions overlap.      *)
THEOREM PaymentIsBooked == PayablesSpec => []PaymentIsBookedOnce
BY BookedOnce, PayablesInvariance, PTL

(* FundsMatchUnlessRaced: every payment is taken from one account and given *)
(* back to it once, unless a cascade overlapped another reversal.           *)
THEOREM FundsHold == PayablesSpec => []FundsMatchUnlessRaced
<1>1. PayablesInv => FundsMatchUnlessRaced
  BY DEF PayablesInv
<1> QED BY <1>1, PayablesInvariance, PTL

LEMMA FreshAreNext == PayablesInv => TemplateBillsAreNext
<1> SUFFICES ASSUME PayablesInv, NEW c \in Clerks, NEW row \in desk[c].fresh
             PROVE  \E t \in templates :
                       /\ row.name = t.name
                       /\ row.due \in Earliest({d \in desk[c].day .. desk[c].day + 200 :
                            Day(d) \in 1 .. DaysIn(Month(d))
                              /\ (Day(d) = t.day \/ (Day(d) < t.day /\ Day(d) = DaysIn(Month(d))))})
  BY DEF TemplateBillsAreNext
<1>1. PICK day : day = desk[c].day
  OBVIOUS
<1>2. PICK t \in templates : row = BillOf(t, NextDue(t.day, day))
  BY <1>1 DEF PayablesInv, JobsOK, FreshOK
<1>3. day \in Nat /\ t.day \in 1 .. 31
  BY <1>1, <1>2 DEF PayablesInv, PayablesTypeOK, Job, Template
<1>4. NextDue(t.day, day) \in Earliest({d \in day .. day + 200 :
          Day(d) \in 1 .. DaysIn(Month(d))
            /\ (Day(d) = t.day \/ (Day(d) < t.day /\ Day(d) = DaysIn(Month(d))))})
  BY <1>3, NextDueIs
<1>5. row.name = t.name /\ row.due = NextDue(t.day, day)
  BY <1>2 DEF BillOf, NewBill
<1> QED BY <1>1, <1>2, <1>4, <1>5

(* TemplateBillsAreNext (autoCreateFromTemplates, nextTemplateDue): a bill  *)
(* made from a template falls on the template's first day that is not past, *)
(* in a short month on its last, whatever the months and the year.          *)
THEOREM TemplateBillsDue == PayablesSpec => []TemplateBillsAreNext
BY FreshAreNext, PayablesInvariance, PTL

-----------------------------------------------------------------------------
(* Undone payments *)

(* What this step may do to a payment *)
UndoneByName ==
    \A e \in Postings :
        Linked(e) /\ posting[e].state = "active" /\ posting'[e].state = "deleted" =>
            \/ e \in wiped'
            \/ \E c \in Clerks : Serving(c, "unpay") /\ desk[c].named \in {e, Nobody}

LEMMA PostingsUnmoved == UNCHANGED posting => UndoneByName
BY DEF UndoneByName

LEMMA CallsLeave ==
    ASSUME NEW c \in Clerks, Call(c)
    PROVE  UNCHANGED posting
BY Zenon DEF Call, Pay, Unpay, UpdateBill, DeletePosting, DropCategory, AutoCreate, Takes

LEMMA PaymentsLeave ==
    ASSUME PayablesInv, NEW c \in Clerks, PayCommit(c)
    PROVE  UndoneByName
<1>1. PICK rest : \E e \in Postings :
          posting' = [posting EXCEPT ![e] = [state |-> "active", price |-> rest.price,
                                             payer |-> rest.payer, filed |-> rest.filed]]
  BY Zenon DEF PayCommit
<1>2. posting \in [Postings -> Posting]
  BY DEF PayablesInv, PayablesTypeOK
<1>3. \A f \in Postings : posting'[f] = posting[f] \/ posting'[f].state = "active"
  BY <1>1, <1>2
<1> QED BY <1>3 DEF UndoneByName

LEMMA UndosName ==
    ASSUME PayablesInv, NEW c \in Clerks, UnpayCommit(c)
    PROVE  UndoneByName
<1>1. PICK e \in Postings : /\ desk[c].op = "unpay" /\ desk[c].named \in {e, Nobody}
                            /\ posting' = [posting EXCEPT ![e].state = "deleted"]
  BY UnpayIs
<1>2. posting \in [Postings -> Posting]
  BY DEF PayablesInv, PayablesTypeOK
<1>3. \A f \in Postings : f # e => posting'[f] = posting[f]
  BY <1>1, <1>2
<1> QED BY <1>1, <1>3 DEF UndoneByName, Serving

LEMMA DeletionsLeave ==
    ASSUME PayablesInv, NEW c \in Clerks, DeleteCommit(c) \/ DropCategoryCommit(c)
    PROVE  UndoneByName
<1>1. CASE DeleteCommit(c)
  <2>1. \A e \in Postings : e \notin desk[c].images => posting'[e] = posting[e]
    BY <1>1 DEF DeleteCommit
  <2>2. \A e \in desk[c].images : ~Linked(e)
    BY <1>1 DEF DeleteCommit, Serving, PayablesInv, JobsOK, ImagesOK
  <2> QED BY <2>1, <2>2 DEF UndoneByName
<1>2. CASE DropCategoryCommit(c)
  <2>1. PICK doomed : /\ posting' = [e \in Postings |-> IF e \in doomed
                              THEN [posting[e] EXCEPT !.state = "deleted"] ELSE posting[e]]
                      /\ wiped' = wiped \cup doomed
    BY <1>2 DEF DropCategoryCommit
  <2>2. \A e \in Postings : e \notin doomed => posting'[e] = posting[e]
    BY <2>1
  <2> QED BY <2>1, <2>2 DEF UndoneByName
<1> QED BY <1>1, <1>2

LEMMA PaymentsUndone ==
    ASSUME PayablesInv, [PayablesNext]_payablesVars
    PROVE  UndoneByName
<1>1. CASE \/ \E row \in StartingBills : CreateBill(row)
           \/ \E t \in Templates : CreateWithTemplate(t) \/ CreateTemplate(t)
           \/ CreateFromTemplate
           \/ \E b \in Bills : Cancel(b)
           \/ Refresh
           \/ DayPasses
  <2>1. UNCHANGED posting
    BY <1>1 DEF CreateBill, CreateWithTemplate, CreateTemplate, CreateFromTemplate, Cancel,
                Refresh, DayPasses, AtOnce
  <2> QED BY <2>1, PostingsUnmoved
<1>2. ASSUME NEW c \in Clerks,
             \/ Call(c) \/ AutoCheck(c) \/ AutoCommit(c) \/ UpdateBillCommit(c) \/ GiveUp(c)
      PROVE  UndoneByName
  <2>1. UNCHANGED posting
    BY <1>2, CallsLeave DEF AutoCheck, AutoCommit, UpdateBillCommit, GiveUp
  <2> QED BY SMTT(30), <2>1, PostingsUnmoved
<1>3. ASSUME NEW c \in Clerks,
             PayCommit(c) \/ UnpayCommit(c) \/ DeleteCommit(c) \/ DropCategoryCommit(c)
      PROVE  UndoneByName
  BY <1>3, PaymentsLeave, UndosName, DeletionsLeave
<1>4. CASE UNCHANGED payablesVars
  BY <1>4, PostingsUnmoved DEF payablesVars
<1> QED BY <1>1, <1>2, <1>3, <1>4 DEF PayablesNext

(* OnlyNamedPaymentsUndone (undoPayablePayment, softDeleteTransactionInTx): *)
(* the payment of a bill is tombstoned by a cascade, or by an undo whose    *)
(* caller named it or no transaction; a late undo spares a later payment.   *)
THEOREM NamedUndone == PayablesSpec => OnlyNamedPaymentsUndone
<1>1. PayablesInv /\ [PayablesNext]_payablesVars =>
          [\A e \in Postings :
              Linked(e) /\ posting[e].state = "active" /\ posting'[e].state = "deleted" =>
                  \/ e \in wiped'
                  \/ \E c \in Clerks : /\ Serving(c, "unpay")
                                       /\ desk[c].named \in {e, Nobody}]_payablesVars
  BY PaymentsUndone DEF UndoneByName
<1> QED BY <1>1, PayablesInvariance, PTL DEF PayablesSpec, OnlyNamedPaymentsUndone

-----------------------------------------------------------------------------
(* Side by side (BooksSpec): bills and statements share no row in this      *)
(* model, so every behaviour of the two is one of each, and what was proved *)
(* of each above holds while both are there.                                *)
THEOREM BooksAreBoth == BooksSpec => PayablesSpec /\ CardsSpec
<1>1. BooksInit => PayablesInit /\ CardsInit
  BY DEF BooksInit
<1>2. [BooksNext]_booksVars => [PayablesNext]_payablesVars
  BY DEF BooksNext, booksVars
<1>3. [BooksNext]_booksVars => [CardsNext]_cardsVars
  BY DEF BooksNext, booksVars
<1> QED BY <1>1, <1>2, <1>3, PTL DEF BooksSpec, PayablesSpec, CardsSpec

(* BooksTypeOK: the rows of payables, cards, charges, statements, payments  *)
(* and postings stay within their types and bounds (PayablesTypeOK,         *)
(* CardsTypeOK), the requests in progress included.                         *)
THEOREM BooksTypes == BooksSpec => []BooksTypeOK
<1>1. PayablesTypeOK /\ CardsTypeOK => BooksTypeOK
  BY DEF BooksTypeOK
<1> QED BY <1>1, BooksAreBoth, PayablesTypes, CardsTypes, PTL
=============================================================================
