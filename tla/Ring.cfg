SPECIFICATION Spec
CONSTANTS
    n1 = n1
    n2 = n2
    n3 = n3
    Nodes = {n1, n2, n3}
    Tokens = {1, 2, 3, 4}
    Forget = 3
    Timeouts = {1, 2, 4}
    MaxFaults <- Faults
    NoToken = 0
INVARIANTS TypeOK SettledRing GhostsForgotten
SYMMETRY NodeSymmetry
