CONSTANTS
    Packages = {"a", "b", "c"}
    Begins <- MCBegins
    Tags <- MCTags
    PreReleases = {3}
    Offers <- MCOffers
    RootLists <- MCRootLists
    MaxDeclared = 1
    MaxFaults = 1
SPECIFICATION Spec
INVARIANTS Consistent RangesMet OwnTag
PROPERTIES Ends
CHECK_DEADLOCK FALSE
