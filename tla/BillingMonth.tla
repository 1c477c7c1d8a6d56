---------------------------- MODULE BillingMonth ----------------------------
(***************************************************************************)
(* The date arithmetic of bills and statements: shared/billing-month.ts of *)
(* apps/api, and the rule by which cards/installments.ts splits a total.   *)
(* A date is a number, 100 * month + day, the months counted on through    *)
(* the years from a January.                                               *)
(***************************************************************************)
EXTENDS Integers

CONSTANT FirstYear      \* the year of months 1 to 12

(* Date.UTC takes a year below 100 for one of the twentieth century. *)
ASSUME FirstYearAssumption == FirstYear \in Nat /\ FirstYear >= 100

(* daysInMonth, by the rules of the Gregorian calendar *)
Leap(year) == year % 4 = 0 /\ (year % 100 # 0 \/ year % 400 = 0)

DaysIn(m) ==
    LET month == 1 + ((m - 1) % 12)
    IN IF month = 2 THEN IF Leap(FirstYear + ((m - 1) \div 12)) THEN 29 ELSE 28
       ELSE IF month \in {4, 6, 9, 11} THEN 30 ELSE 31

Month(d) == d \div 100
Day(d) == d % 100

(* clampDayToMonth *)
OnDay(month, day) ==
    100 * month + (IF day <= DaysIn(month) THEN day ELSE DaysIn(month))

(* addMonthsSafe; the parcels of installmentDates are due AddMonths(d, i). *)
AddMonths(d, k) == OnDay(Month(d) + k, Day(d))

DayNumber(d) ==
    LET before[m \in 0 .. (Month(d) - 1)] == IF m = 0 THEN 0 ELSE before[m - 1] + DaysIn(m)
    IN before[Month(d) - 1] + Day(d)

(* The first of some dates, or of some ids *)
Earliest(S) == {x \in S : \A y \in S : x <= y}

(* splitInstallmentAmounts: the last of the n parcels takes the remainder. *)
Parcel(total, n, i) ==
    (total \div n) + (IF i = n THEN total % n ELSE 0)

=============================================================================
