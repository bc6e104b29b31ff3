SPECIFICATION Spec
CONSTANTS
    Amounts <- MCAmounts
    Forms = {"plain", "grouped", "lakhs", "scaled", "words", "and"}
INVARIANT
    AmountAsMeant
CHECK_DEADLOCK FALSE
