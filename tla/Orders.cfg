CONSTANTS
    u1 = u1
    o1 = o1
    o2 = o2
    t1 = t1
    Reconciler = reconciler
    Clients = {c1, c2}
    Users <- MCUsers
    Keys <- MCOrders
    Orders <- MCOrders
    Tokens <- MCTokens
    Offers <- MCOffers
    Purchases <- MCPurchases
    Buyer <- MCBuyer
    Price <- MCPrice
    MaxCrashes = 1
SPECIFICATION Spec
INVARIANTS
    CreditedWasPaid
    CreditedOnce
PROPERTIES
    PaidIsCredited
