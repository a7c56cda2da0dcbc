\* Three runs on two branches, of both packages: one runs, one waits, one takes
\* its place, while a branch moves on.
CONSTANTS
    NULL = NULL
    Runs <- ThreeRuns
    Refs <- TwoRefs
    Commits <- TwoCommits
    Bumps = {"patch", "minor"}
    Targets = {"go", "npm"}
SPECIFICATION FairSpec
CONSTRAINTS
    InOrder
    OneMinor
INVARIANTS
    TagsNameContent
    UntaggedOnlyIfBrokenOff
    FailsOnlyToRival
PROPERTIES
    TagsNeverMove
    TagsGrowPerRef
    RunsEnd
CHECK_DEADLOCK FALSE
