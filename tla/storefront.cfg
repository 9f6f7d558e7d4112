SPECIFICATION FairSpec
CONSTANTS
    p1 = p1
    v1 = v1
    r1 = r1
    r2 = r2
    w1 = w1
    Absent = Absent
    Requests = {r1, r2}
    Readers = {r1}
    Limit = 1
    MaxFaults = 1
    Products = {p1}
    Shops = {v1}
    ShopOf <- MCShopOf
    Writers = {w1}
    MaxVersion = 1
INVARIANTS
    StorefrontTypeOK
    BurstIsCountedExactly
    CounterExpires
PROPERTIES
    StalenessHasACause
    LimitLapses
    WithdrawnDisappears
    CacheCatchesUp
