CONSTANTS
    Threads = {t1, t2, t3}
    MaxCalls = 4
SPECIFICATION Spec
SYMMETRY CallerSymmetry
INVARIANTS TypeOK Framing OneSender
