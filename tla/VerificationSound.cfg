\* Two proofs of the service or one and one made elsewhere, two contexts, two builds.
SPECIFICATION Spec
CONSTANTS
    WordBits = 2
    BitSizes = {2}
    GroupOrder = 8
    Blindings = {b1, b2}
    Contexts = {c1, c2}
    Measurements = {good, old}
    BrokenProof = BrokenProof
    NoAttestation = NoAttestation
    NoMeasurement = NoMeasurement
    Params <- MCParams
    SourceValues <- MCSourceValues
    MaxElsewhere = 1
    Unregistered = Unregistered
    NoVerdict = NoVerdict
SYMMETRY MCSymmetry
INVARIANTS
    TypeOK
    AcceptedWithinCap
    AcceptedFromBuild
    HonestPasses
