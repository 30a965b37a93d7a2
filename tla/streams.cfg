SPECIFICATION Spec
CONSTANTS
    None = None
    t0 = t0  t1 = t1  t2 = t2
    k0 = k0  k1 = k1
    Kind = "htmlfile"
    Threads = {t0, t1, t2}
    Creator = t0
    Chans = {k0, k1}
    First = k0
    MaxMsg = 3
SYMMETRY ThreadSymmetry
INVARIANTS TypeOK OnePlace NothingLeft OvertakenInHand
PROPERTIES DeliversMail
CHECK_DEADLOCK FALSE
