SPECIFICATION FairSpec
CONSTANTS
    f1 = f1
    f2 = f2
    d1 = d1
    Files <- MCFiles
    Dirs <- MCDirs
    DirOf <- MCDirOf
    Broken = {3}
    Races = {"hasty", "nested", "early", "late"}
    MaxEdits = 2
    MaxMarks = 2
    MaxMessages = 1
INVARIANTS LatestRuns IneligibleStops OneInstance Owned
PROPERTY Settles
CHECK_DEADLOCK FALSE
