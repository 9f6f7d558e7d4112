SPECIFICATION OrderingSpec
CONSTANTS
    o1 = o1
    o2 = o2
    o3 = o3
    o4 = o4
    o5 = o5
    s1 = s1
    s2 = s2
    None = None
    Orders <- LiveOrders
    Shops = {s1, s2}
    Shop <- LiveShop
    Unmapped = {}
    Deliverers = {}
    Batches = {1, 2}
    Attempts = 1
    MaxFaults = 0
    Food = {o1}
    FoodMax = 2
    GroceryMax = 3
    Detour <- LiveDetour
    Reviewed = {o1}
    Horizon = 3
PROPERTIES
    BatchOfReadyOrderIsFinal
CHECK_DEADLOCK FALSE
