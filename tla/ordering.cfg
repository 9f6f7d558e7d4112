\* No vendor decision here: no request of vendorAcceptOrder is under way.
SPECIFICATION OrderingSpec
CONSTANTS
    o1 = o1
    o2 = o2
    o3 = o3
    o4 = o4
    o5 = o5
    s1 = s1
    s2 = s2
    None = None
    Orders <- MCOrders
    Shops = {s1, s2}
    Shop <- MCShop
    Unmapped = {}
    Deliverers = {}
    Batches = {1, 2, 3}
    Attempts = 1
    MaxFaults = 0
    Food = {o1}
    FoodMax = 2
    GroceryMax = 3
    Detour <- MCDetour
    Reviewed = {}
    Horizon = 3
SYMMETRY GrocerySymmetry
INVARIANTS
    OrderBatchingTypeOK
    BatchSizeBounded
    OneVendorPerBatch
    FullBatchIsClosing
PROPERTIES
    NewBatchOnlyWhenNoneFits
    BatchOfReadyOrderIsFinal
CHECK_DEADLOCK FALSE
