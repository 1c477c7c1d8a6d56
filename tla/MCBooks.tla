------------------------------- MODULE MCBooks -------------------------------
(* Payables and Cards side by side, each on its own: one of the two moves,  *)
(* the other rests in one of its initial states.                            *)
EXTENDS Payables, Cards, FiniteSetsExt, TLC

VARIABLE part

booksVars == <<payablesVars, cardsVars, part>>

(* A monthly bill on the last day of January, and one that does not recur *)
MCStartingBills == {NewBill("rent", 1, 131, 1, 1, 0, TRUE),
                    NewBill("tax", 2, 131, 2, 0, 0, FALSE)}

MCTemplates == {[name |-> "rent", price |-> 2, payer |-> 1, every |-> 1, day |-> 31]}

MCBillPatches == {[price |-> 2, due |-> 0, payer |-> Nobody],
                  [price |-> 0, due |-> 301, payer |-> 2]}

PayablesRest == templates = {} /\ bill[1].name = "rent" /\ posting[1].filed
CardsRest == card.closing = Min(ClosingDays) /\ charge[Min(Charges)].cost = 1 /\ card.balance = 0

BooksInit ==
    /\ PayablesInit
    /\ CardsInit
    /\ part \in {"payables", "cards"}
    /\ part = "payables" \/ PayablesRest
    /\ part = "cards" \/ CardsRest

BooksNext ==
    \/ part = "payables" /\ PayablesNext /\ UNCHANGED <<cardsVars, part>>
    \/ part = "cards" /\ CardsNext /\ UNCHANGED <<payablesVars, part>>

BooksSpec == BooksInit /\ [][BooksNext]_booksVars

Symmetry == Permutations(Clerks)

(* Every variable of the two stays in its type. *)
BooksTypeOK == PayablesTypeOK /\ CardsTypeOK
=============================================================================
