SPECIFICATION FairSpec
CONSTANTS
    product = product
    other = other
    Product = product
    OtherId = other
    None = None
    MaxPolls = 2
    MaxActs = 4
    MaxChanges = 2
INVARIANTS
    SalesBelongToSelection
    CreatedSaleIsShown
PROPERTIES
    LoadingEnds
    TableCatchesUp
