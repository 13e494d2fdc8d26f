SPECIFICATION FairSpec
CONSTANTS
    Proc = {"collector", "runner", "notifier"}
    Versions <- Files
    Repeatable = {1}
    MaxFaults = 2
    Command <- Commands
    ProfileFiles = {"invalid", "valid"}
    SourceFiles <- SourceFiles_
    Environments <- Environments_
    ExampleSources <- Examples
    MaxEdits = 2
INVARIANTS AppliedOnceInOrder RecordedIsApplied NoConnectorIsMute
PROPERTIES EveryCommandOpens
