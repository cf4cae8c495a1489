SPECIFICATION FairPanelSpec
CONSTANTS
    c1 = c1
    Catalog = Catalog
    None = None
    QueryId = {1, 2}
    Reader = {1, 2, c1}
    Pages <- TwoPagesThenOne
    MaxJobs = 2
    MaxInputs = 4
    MaxSlips = 1
    MaxBreaks = 1
CHECK_DEADLOCK FALSE
INVARIANTS
    PanelTypeOK
    PagesAreWhole
    WatchesCurrent
    TableFits

    
