SPECIFICATION FairSpec
CONSTANTS
    s1 = s1
    s2 = s2
    b1 = b1
    b2 = b2
    Stalls <- MCStalls
    Buyers <- MCBuyers
    Loader = Loader
    Free = Free
    Nowhere = Nowhere
    FirstStock <- MCFirstStock
    Needs <- MCNeeds
    Delivery = 2
    MaxStock = 3
INVARIANTS
    StockConserved
    SafeClosing
PROPERTY
    MarketCloses
