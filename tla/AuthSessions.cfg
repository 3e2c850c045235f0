SPECIFICATION Spec
CONSTANTS
    Devices = {d1, d2}
    Requests = {r1, r2}
    Client = Client
    NoInfo = NoInfo
    NoDevice = NoDevice
    Life = 2
    MaxFails = 1
SYMMETRY Symmetry
INVARIANTS
    TypeOK
    OpenIsWhole
    ClosedIsGone
