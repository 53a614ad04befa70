\* A priority announcement for the area of a prompt player and an emergency for
\* both areas; the first player interrupts, loses a request, is reloaded or is away
\* for a month, or an area loses its channel.  Two items begun: the queue of the
\* first overflows by one event.
CONSTANTS
    p1 = p1
    p2 = p2
    Player <- Players
    Prompt <- SecondPlayer
    Override <- BothTypes
    Normal = normal
    Channel = {c1}
    None = none
    Capacity = 3
    BatchSize = 2
    MaxPlays = 2
    MaxFaults = 1
SPECIFICATION Spec
INVARIANTS
    OverridesSound
    EvidenceInTime
    NothingLost
    TrueProofKept
PROPERTIES
    EndedIsFinal
    AnswersAdvance
CHECK_DEADLOCK FALSE
