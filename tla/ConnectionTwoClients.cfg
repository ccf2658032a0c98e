\* Two clients of one relay; nothing is lost and answers come in time.
SPECIFICATION Spec
CONSTANTS
    Clients = {c1, c2}
    MaxRetry = 0
    MaxCookie = 3
    MaxRestarts = 0
    Lossy = FALSE
    Duplicating = FALSE
    Prompt = TRUE
SYMMETRY Symmetry
INVARIANTS
    ChallengeIsPrivate
CHECK_DEADLOCK FALSE
