SPECIFICATION FairSpec
CONSTANTS
    MaxResults = 2
    MaxPageSize = 1
    MaxOver = 1
    MaxFaults = 2
    MaxMessages = 3
    Messages <- AllMessages
    Canonical <- Aliases
    Amount <- Amounts_
    DaysIn <- Days
INVARIANTS TypeOK SuccessIsComplete RowsArePostings RowsTellTruth
PROPERTIES MailboxIsMirrored
