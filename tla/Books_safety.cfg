\* Two overlapping requests on bills, and on the statements of a card.
CONSTANTS
    FirstYear = 2026
    Bills = {1, 2, 3}
    Postings = {1, 2, 3}
    Payers = {1, 2}
    Prices = {1, 2}
    Names = {"rent", "tax"}
    Nobody = Nobody
    Calendar = {131, 228}
    DaysAhead = 30
    StartingBills <- MCStartingBills
    Templates <- MCTemplates
    BillPatches <- MCBillPatches
    Clerks = {c1, c2}
    MaxCalls = 4
    Cycles = {1, 2, 3}
    Charges = {11, 12, 13, 14}
    Costs = {1, 2}
    Purses = {p1}
    Plastic = Plastic
    Absent = Absent
    Dates = {131, 310}
    ClosingDays = {5, 30}
    DueDays = {7}
    Splits = {2}
    Tellers = {c1, c2}
    MaxVisits = 2
SPECIFICATION BooksSpec
SYMMETRY Symmetry
INVARIANTS
    BooksTypeOK
    PaymentIsBookedOnce
    FundsMatchUnlessRaced
    TemplateBillsAreNext
    
    
    
    
PROPERTIES
    OnlyNamedPaymentsUndone
CHECK_DEADLOCK FALSE
