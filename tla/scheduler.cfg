CONSTANTS
    s1 = s1
    s2 = s2
    Thread = {t1, t2, t3}
    Script = {s1, s2}
    Conn = {c1}
    None = None
    Places <- EveryPlace
    MaxSleep = 1
    DeferredGuard = 3
SPECIFICATION Spec
INVARIANTS OnePlace ArgsKept NoDangling StoppedIsGone
SYMMETRY ThreadSymmetry
