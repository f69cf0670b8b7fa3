SPECIFICATION ApiSpec
CONSTANTS
    u1 = u1
    u2 = u2
    k1 = k1
    k2 = k2
    s1 = s1
    c1 = c1
    c2 = c2
    r1 = r1
    Users <- MCUsers
    Keys <- MCKeys
    Sales <- MCSales
    Creators <- MCCreators
    Readers <- MCReaders
    Nobody = Nobody
    NoStock = NoStock
    NoMarker = NoMarker
    NoSale = NoSale
    Capacity = 2
    MaxRequests = 2
    WindowSeconds = 2
SYMMETRY Symmetry
INVARIANTS
    TypeOK
    ReservationMatchesBuyer
    AtMostOneProduct
    CreationAnswersAreTrue
    CreatedIsOnSale
    SlidingBound
    RefusalsEndWithTheWindow
PROPERTIES
    UnitsConserved
    CompletedOnlyExpires
