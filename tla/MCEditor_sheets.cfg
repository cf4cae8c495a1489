SPECIFICATION FairEditorSpec
CONSTANTS
    s1 = s1
    s2 = s2
    s3 = s3
    NoSheet = NoSheet
    Sheet = {s1, s2, s3}
    Saved = {s1, s2}
    MaxJobs = 2
    MaxInputs = 4
    MaxSlips = 1
CHECK_DEADLOCK FALSE
INVARIANTS
    EditorTypeOK
    TextsApart
PROPERTIES
    OnlyReloadFrees
    OlderReplacesDoubtful
    
