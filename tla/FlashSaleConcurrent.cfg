SPECIFICATION Spec
CONSTANTS
    c1 = c1
    c2 = c2
    f1 = f1
    f2 = f2
    Creators <- MCCreators
    Finders <- MCFinders
    MaxTime = 4
    Retention = 1
    MaxConcurrent = 2
    NoSale = NoSale
    NoTtl = NoTtl
SYMMETRY Symmetry
INVARIANTS
    SalesDoNotOverlap
