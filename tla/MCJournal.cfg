SPECIFICATION Spec
CONSTANTS
    p1 = p1
    p2 = p2
    p3 = p3
    owner = owner
    worker = worker
    guest = guest
    stranger = stranger
    here = here
    elsewhere = elsewhere
    b1 = b1
    b2 = b2
    det = det
    other = other
    Process = {p1, p2, p3}
    Actor = {owner, worker, guest, stranger}
    SignerOf <- MCSignerOf
    Policy = {here, elsewhere}
    PolicyOf <- MCPolicyOf
    NoPolicy = NoPolicy
    Body = {b1, b2}
    Signature = {det, other}
    Deterministic = det
    Foreign <- MCForeign
    SignSizes = {1, 2}
    ForeignSizes = {1}
    Capacity = 3
    BatchLimit = 2
INVARIANT
    NoSelfEquivocation
PROPERTY
    BatchAtomic
