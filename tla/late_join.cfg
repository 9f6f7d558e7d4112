SPECIFICATION Spec
CONSTANTS
    o1 = o1
    o2 = o2
    o3 = o3
    s1 = s1
    s2 = s2
    None = None
    Orders = {o1, o2}
    Shops = {s1, s2}
    Shop <- MCShop
    Unmapped = {}
    Deliverers = {d1}
    Batches = {1}
    Attempts = 1
    MaxFaults = 0
    Food = {o1}
    FoodMax = 2
    GroceryMax = 2
    Detour <- NoDetour
    Reviewed = {}
    Horizon = 1
    Worker = Worker
    Sweeps = {w1}
    Switching = {}
    Removable = {}
    RemovesBusy = FALSE
    BatchOf <- OneBatch
INVARIANTS
    NoOrderStranded
