\* Two clients that can take each other's demux, and each kind of misuse on its own.
CONSTANTS
    c1 = c1
    c2 = c2
    Clients = {c1, c2}
    NumDemuxes = 2
    NumFrontends = 1
    None = None
    MaxMisuses = 1
SPECIFICATION Spec
SYMMETRY ClientSymmetry
INVARIANTS
    Leased
    ReturnsToPool
    FedByItsSource
