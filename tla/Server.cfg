SPECIFICATION Spec
INVARIANTS ReplayIsOrdered RecoveredPrefix  TestsEnd RepliesMatch RequestsAnswered
INVARIANTS ParsedIsSent RowsAreWhole StringsKeepValue JsonIsAValue
CONSTRAINT UntilSlip
\* Programs end, and a recovery may abort.
CHECK_DEADLOCK FALSE
