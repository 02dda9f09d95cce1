SPECIFICATION Spec
CONSTANTS
    r1 = r1
    r2 = r2
    r3 = r3
    Requests <- MCRequests
    Old = Old
    None = None
    Names = {"new"}
    Inputs <- MCInputs
    NewDraft <- MCNewDraft
    Models = {"m1", "m2"}
    EnvModel = "m1"
    Trees <- MCTrees
    OldDraft <- MCOldDraft
    OldModel = "m1"
    OldTree <- MCOldTree
    MaxCrashes = 1
SYMMETRY Symmetry
CHECK_DEADLOCK FALSE
INVARIANTS CatalogTypeOK VersionsInOrder PublishedIsGradable DefaultsBounded DefaultKept LoadedIsStored DuplicatesOverlap Grounded GradedAsPromised KeyFits
