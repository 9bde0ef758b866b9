SPECIFICATION Spec
CONSTANTS
    p1 = p1
    p2 = p2
    c1 = c1
    c2 = c2
    c3 = c3
    Page <- OnePage
    Call <- TwoCalls
    PageOf <- SamePage
    Kind = {"plain", "me", "logout", "login"}
    Adversity = {"network", "session_end", "reload"}
    MaxPairs = 4
SYMMETRY Calls
INVARIANTS
    TypeOK
    RefreshIsShared
PROPERTIES
    WedgedUntilReload
