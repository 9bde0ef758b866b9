SPECIFICATION FairSpec
CONSTANTS
    u1 = u1
    r1 = r1
    r2 = r2
    User <- OneUser
    Request <- TwoRequests
    NoAccount = NoAccount
    NoUser = NoUser
INVARIANTS
    TypeOK
    NothingWithoutAccount
PROPERTIES
    SuperusersStay
    AbandonedAccountsGo
