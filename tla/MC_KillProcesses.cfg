CONSTANTS
    xcodebuild = xcodebuild
    runner = runner
    obsolete = obsolete
    pattern = pattern
    Procs = {xcodebuild, runner, obsolete}
    Patterns = {pattern}
    Matching <- MCMatching
    OtherUsers = {}
    Listening = {runner, obsolete}
    Obsolete = {obsolete}
    Own = xcodebuild
SPECIFICATION Spec
INVARIANTS NothingLeft GentleFirst OnlyMeant QuitEndsIt
PROPERTY ResetEnds
CHECK_DEADLOCK FALSE
