SPECIFICATION FairSpec
CONSTANTS
    p1 = p1
    p2 = p2
    c1 = c1
    c2 = c2
    c3 = c3
    Page <- TwoPages
    Call <- ThreeCalls
    PageOf <- SplitPages
    Kind = {"plain"}
    Adversity = {"session_end", "reload"}
    MaxPairs = 6
CHECK_DEADLOCK FALSE
PROPERTIES
    StrandedByLossOnly
    ReplayIsNewer
    EveryCallEnds
