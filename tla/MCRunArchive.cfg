SPECIFICATION FairArchive
CONSTANTS
    Process = {p1, p2, p3}
    Session = p1
    Settled = {"failed"}
    MaxRecords = 1
    MaxFaults = 2
    NoSeal = NoSeal
INVARIANTS
    ArchiveIsTrue
PROPERTIES
    ImplementsLog
    ArchivesSettle
CHECK_DEADLOCK FALSE
