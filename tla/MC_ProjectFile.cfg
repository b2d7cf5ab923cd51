CONSTANTS
    s1 = s1  s2 = s2  s3 = s3
    Absent = Absent
    Sessions <- MC_Sessions
    Updating <- MC_Updating
SPECIFICATION FileSpec
INVARIANTS FilesOK ResetRestores ReadyWithOwnId
PROPERTY OriginalSurvives
