SPECIFICATION DispatchSpec
CONSTANTS
    o1 = o1
    o2 = o2
    o3 = o3
    s1 = s1
    s2 = s2
    None = None
    Orders = {o1, o2, o3}
    Shops = {s1, s2}
    Shop <- MCShop
    Unmapped = {}
    Deliverers = {d1, d2}
    Batches = {1, 2}
    Attempts = 1
    MaxFaults = 0
    Food = {}
    FoodMax = 2
    GroceryMax = 2
    Detour <- NoDetour
    Reviewed = {}
    Horizon = 1
    Worker = Worker
    Sweeps = {w1}
    Switching = {}
    Removable = {}
    RemovesBusy = FALSE
    BatchOf <- MCBatchOf
SYMMETRY DelivererSymmetry
INVARIANTS
    Claims
    StartedJobHasOpenDropOff
    DeliveredByDropOff
    StuckBatchIsClaimable
PROPERTIES
    ClaimsAreExclusive
    StartedNeverReassigned
    DeliveredStaysDelivered
