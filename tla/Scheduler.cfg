\* A payment and two max flow calculations.
SPECIFICATION Spec
CONSTANTS
    pay = pay
    flow1 = flow1
    flow2 = flow2
    Transactions = {pay, flow1, flow2}
    StepTwo = {flow1, flow2}
    Payers = {pay}
    MaxDelay = 2
    MaxPieces = 2
    MaxLag = 5
INVARIANTS TypeOK TimerCoversDeadlines
PROPERTY DueIsRun
