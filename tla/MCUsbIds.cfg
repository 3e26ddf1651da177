\* The parser returns: the last state has no successor.
CHECK_DEADLOCK FALSE
SPECIFICATION MCSpec
CONSTANTS
    Ids = {x1, x2}
    Names = {n1, n2}
    None = None
    MaxLines = 5
INVARIANTS
    TypeOK
    VendorsAsListed
    ProductsUnderTheirVendor
    ProductImpliesVendor
