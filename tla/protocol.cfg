SPECIFICATION Spec
CONSTANTS
    Base = 6
    Width = 2
    NotText = {5}
    ChunkSize = 4
    FromClient <- ClientSample
    FromServer <- ServerSample
    MaxEdits = 2
INVARIANTS
    RoundTrip
    Canonical
    NoPrefixDecodes
CHECK_DEADLOCK FALSE
