CONSTANTS
    Devices = {1, 2, 3}
    Excluded = {2}
    PortNumbers = {1, 2}
    Addresses = {"a"}
    MaxChanges = 2
SPECIFICATION Spec
INVARIANTS InOrder StableIsFound
