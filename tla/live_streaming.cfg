SPECIFICATION FairSpec
CONSTANTS
  Sids = {s1}
  Chans = {k1}
  Clients = {c1,c2}
  Tasks = {t1,t2}
  None = None
  Blank = Blank
  Requests <- StreamRequests
CHECK_DEADLOCK FALSE

PROPERTIES SessionReaped
