SPECIFICATION Spec
CONSTANTS
  None = None  Hello = Hello  Endpoint = Endpoint  Noop = Noop  Wrapped = Wrapped
  Conns = {k0, k1, k2, k3}  First = k0  MaxMsg = 2
  Kind = "xhr-polling"  Overlap = TRUE  Breaks = TRUE  Posts <- ConnectOnly
SYMMETRY Symmetry
INVARIANT TypeOK
INVARIANT OnePlace
INVARIANT IInv
PROPERTY DeliversMail
CHECK_DEADLOCK FALSE
