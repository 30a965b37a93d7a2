SPECIFICATION Spec
CONSTANTS
  Sids = {s1}
  Chans = {k1,k2}
  Clients = {c1,c2}
  Tasks = {t1,t2}
  None = None
  Blank = Blank
  Requests <- EveryRequest
CHECK_DEADLOCK FALSE
SYMMETRY Symmetry
VIEW LiveView
INVARIANTS TypeOK CtxOfSession Reapable IInv
