CONSTANTS
    ana = ana
    bia = bia
    music = music
    media = media
    t1 = t1
    t2 = t2
    i1 = i1
    i2 = i2
    Ministries <- MCMinistries
    Servants <- MCServants
    RowIds = {1, 2, 3, 4}
    Shown = music
    MaxVersions = 3
    MaxLoad = 2
    Requests = {1, 2}
    MaxCalls = 2
    MaxFailures = 1
    Nobody = Nobody
    NoRow = NoRow
    GoneRow = GoneRow
    NoBoard = NoBoard
    Tasks <- MCTasks
    Items <- MCItems
    Required <- MCRequired
    MaxMade = 1
    NoTask = NoTask
SPECIFICATION Spec
SYMMETRY MCSymmetry
INVARIANTS TypeOK OnePublished  BoardIsCurrent OneTaskPerService PrimaryAgrees LeaverKeepsNothing
PROPERTY FinishedStays
CHECK_DEADLOCK FALSE
