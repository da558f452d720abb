SPECIFICATION Spec
CONSTANTS
    Order <- MCOrder
    Study <- MCStudy
    Transport <- MCTransport
    Variant <- MCVariant
    Threshold = 2
    Replies <- MCReplies
    Locks = {l1, l2}
    None = None
SYMMETRY Contents
INVARIANTS
    SummaryTrue
    SourceStays
PROPERTY DriftStops
