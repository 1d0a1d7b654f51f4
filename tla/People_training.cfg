CONSTANTS
    u1 = u1
    u2 = u2
    u3 = u3
    ana = ana
    bia = bia
    music = music
    media = media
    choir = choir
    crew = crew
    noShow = noShow
    decline = decline
    inactivity = inactivity
    Users <- MCUsers
    Servants <- MCServants
    Ministries <- MCMinistries
    Teams <- MCTeams
    MinistryOf <- MCMinistryOf
    LooksLike <- MCLooksLike
    Given <- MCGiven
    FirstServo = u1
    FirstLeader = u2
    FirstServant = ana
    FirstTeam = choir
    Tokens = {1, 2, 3}
    Keys <- MCKeys
    Recurring <- MCRecurring
    Following <- MCFollowing
    Alerts = {1, 2, 3, 4}
    Visits = {1, 2, 3}
    Requests = {1, 2}
    MaxCalls = 2
    MaxFailures = 1
    Nobody = Nobody
    NoUser = NoUser
    NoServant = NoServant
    NoTeam = NoTeam
    NoToken = NoToken
    NoAlert = NoAlert
    NoVisit = NoVisit
    News <- MCNews
    Entries = {1, 2, 3}
    Window = 1
    LastHour = 2
    NoEntry = NoEntry
    Talents = {1, 2}
    Misfits = {bia}
    NoTalent = NoTalent
SPECIFICATION Spec
INVARIANT TrainedForSlot
CHECK_DEADLOCK FALSE
