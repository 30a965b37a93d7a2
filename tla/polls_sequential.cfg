SPECIFICATION Spec
CONSTANTS
  None = None  Hello = Hello  Endpoint = Endpoint  Noop = Noop  Wrapped = Wrapped
  Conns = {k0, k1, k2, k3}  First = k0  MaxMsg = 2
  Kind = "jsonp-polling"  Overlap = FALSE  Breaks = TRUE  Posts <- AllPosts
SYMMETRY Symmetry
INVARIANT OnePlace
INVARIANT InOrder
PROPERTY DeliversMail
CHECK_DEADLOCK FALSE
