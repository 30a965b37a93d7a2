SPECIFICATION Spec
CONSTANTS
    a = a  b = b
    Root = Root
    Endpoints = {a, b}
    Handlers = {a, Root}
    Texts <- SeparatorsAndSpace
    Browsers <- Browser
    MaxUp = 2
    MaxDown = 1
    MaxClients = 2
INVARIANTS TypeOK SplitExact RightHandler AckRight NoStranger Paired
CHECK_DEADLOCK FALSE
