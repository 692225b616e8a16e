SPECIFICATION Spec
CONSTANTS
    Source <- MCSource
    Expected <- MCExpected
    Proc = {p1, p2}
    Fallback = 3
    Placeholder = Placeholder
    Fake = Fake
    Folded <- MCFolded
    CanteenID <- MCCanteenID
    SeedCuisine <- MCSeedCuisine
    CuisineAlias <- MCCuisineAlias
    OldCuisines <- MCOldCuisines
    SeedFlavor <- MCSeedFlavor
    FlavorAlias <- MCFlavorAlias
    OldFlavors <- MCOldFlavors
    NewName = "fusion"
    MaxImages = 1
    MaxRuns = 2
    MaxApp = 2
    None = None
SYMMETRY Interchangeable
CHECK_DEADLOCK FALSE
INVARIANTS
    TypeOK
    ThreadsKept
    ApplicationIntact
