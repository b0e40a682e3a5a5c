\* Two edits, by the same placement or by both, one edit and one fault, or two
\* faults; the replicas and the window with three new entries and four changes.
\* Behaviours end when the session ids run out, hence no deadlock check.
SPECIFICATION RoomSpec
CONSTANTS
    MaxSid = 2
    MaxEvents = 2
    Budgets <- TwoTrials
    Timely = FALSE
    Replica = {a, b}
    Worker = {b}
    Owner = owner
    Pitch <- Pitches
    Home <- FirstDegrees
    MaxEntries = 6
    RoomName = {h1}
    NoName = nowhere
    Piece = {piece}
    Spot = {c, d}
    Peer = {q}
    Self = self
    MaxSession = 2
    MaxFrame = 1
    MaxChanges = 4
INVARIANTS
    RoomTypeOK
    SessionNamesOneEpoch
    AnswerFollowsFloor
    FloorCoherent
    NoAbandonedObligation
    CausalHistory
    NothingIsRefused
    WindowShowsRoom
PROPERTIES ImplementsEpochRegister OwnEditShows ReplicatesCausalLog
CHECK_DEADLOCK FALSE
