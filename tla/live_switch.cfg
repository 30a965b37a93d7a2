SPECIFICATION FairSpec
CONSTANTS
  Sids = {s1}
  Chans = {k1,k2}
  Clients = {c1,c2}
  Tasks = {t1,t2}
  None = None
  Blank = Blank
  Requests <- TwoSwitches
CHECK_DEADLOCK FALSE

PROPERTIES SessionReaped HandlerReturns
