\* Everything that may go wrong, two payments.
SPECIFICATION Spec
CONSTANTS
    t1 = t1
    t2 = t2
    Payments = {t1, t2}
    MaxTrust = 2
    Failures = {"crash", "refusal", "keys"}
SYMMETRY Symmetry
CHECK_DEADLOCK FALSE
INVARIANTS TypeOK CoveredReservationsFit
PROPERTIES PaymentsStayCovered PaymentsStayWithinTrust
