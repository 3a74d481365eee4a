\* A curve of 13 points, one to three bits, two answers of SHA-256.  A behaviour
\* is one job and ends with its verdict: CHECK_DEADLOCK FALSE.
CONSTANTS
    P = 7
    B = 3
    N = 13
    G <- Generator
    Numeral <- MCNumeral
    Digests <- MCDigests
    Widths = {1, 2}
    Contexts <- MCContexts
    Own <- MCOwn
    Messages <- MCMessages
    Blindings = {1, 5}
    Nonces <- MCNonces
    Challenges = {0, 5}
    Unchecked <- MCUnchecked
    Nothing = Nothing
CHECK_DEADLOCK FALSE
SPECIFICATION Spec
INVARIANTS
    TypeOK
    Complete
    BoundToStatement
    ResponsesFixed
    OneChallenge
    AcceptedIsTrue
    BitsHidden
    GroupLaw
