SPECIFICATION Spec
CONSTANTS
    MaxFileSize = 18
    MaxTotal = 40
    MaxFiles = 4
    MaxClone = 50
    PathOrder <- MCPathOrder
    FilesBudget = 22
    PerFileCap = 17
    MaxShown = 2
    MinRoom = 4
    MaxSignals = 3
    ShortTerms = {"x"}
    MaxQuote = 4
    Verdicts <- MCVerdicts
    Models <- MCModels
    Orders <- MCOrders
    Repos <- MCRepos
    Crafted <- MCCrafted
    Wrapper = "repo-main"
    Criteria <- MCCriteria
CHECK_DEADLOCK FALSE
INVARIANTS SourceIrrelevant NamedFilesLead HonestVerified ManglingUndone SalvageOnlyCuts
