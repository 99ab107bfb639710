SPECIFICATION FairSpec
CONSTANTS
    old = old
    new = new
    Commits <- MCCommits
    Absent = Absent
    MaxMoves = 2
INVARIANTS UpIInv ReadyMeansPinned
PROPERTY PicksUp
