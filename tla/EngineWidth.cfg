\* The curve of 13 points, and proofs of three bits by provers of their own:
\* 2^4 is above N.  A behaviour is one job and ends with its verdict:
\* CHECK_DEADLOCK FALSE.
CONSTANTS
    P = 7
    B = 3
    N = 13
    G <- Generator
    Numeral <- MCNumeral
    Digests <- MCDigests
    Widths = {1}
    Contexts <- MCContexts
    Own <- MCOwn
    Messages <- MCMessages
    Blindings = {5}
    Nonces <- MCNonces
    Challenges = {0, 5}
    Unchecked <- MCWide
    Nothing = Nothing
CHECK_DEADLOCK FALSE
SPECIFICATION Spec
INVARIANTS
    AcceptedWithinCap
