CONSTANTS
    MaxInt = 3
    Currencies = {"USD", "EUR"}
SPECIFICATION RulesSpec
INVARIANTS
    AcceptedEntryMovesWhatTheRuleSays
    AcceptsExactlyTheLegalRequests
    ReversalUndoesTheEntry
\* A request is built once, and that is the end of it.
CHECK_DEADLOCK FALSE
