SPECIFICATION Spec
CONSTANTS
    p1 = p1
    p2 = p2
    news = news
    Kinds = {"websocket", "xhr-polling", "jsonp-polling"}
    Names = {news}
    Posts = {p1, p2}
    MaxSessions = 2
    MaxPackets = 3
SYMMETRY PostSymmetry
INVARIANTS TypeOK OnePlace NothingStuck InOrder Announced
CHECK_DEADLOCK FALSE
