SPECIFICATION Spec
CONSTANTS
    Versions <- MCVersions
    Lengths <- MCLengths
    Contents <- MCContents
    Expected <- MCExpected
    Oversized <- MCOversized
    Publishers = {p1, p2}
    Requests = {r1}
    None = None
SYMMETRY Symmetry
INVARIANTS CatalogWhole LoadsSucceed
