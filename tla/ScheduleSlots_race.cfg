CONSTANTS
    s1 = s1
    s2 = s2
    s3 = s3
    m1 = m1
    m2 = m2
    ana = ana
    bia = bia
    e1 = e1
    e2 = e2
    e3 = e3
    e4 = e4
    r1 = r1
    r2 = r2
    Slots = {s1, s3}
    Ministries = {m1, m2}
    Servants = {ana, bia}
    ScheduleIds = {e1, e2, e3}
    Requests = {r1, r2}
    MinistryOf <- MCMinistryOf
    Members <- MCMembers
    AttendanceStatuses = {"NO_SHOW"}
    MaxCalls = 2
    MaxFillCalls = 0
    NoServant = NoServant
    NoSchedule = NoSchedule
    NoSlot = NoSlot
    NoMinistry = NoMinistry
    NoRequest = NoRequest
SPECIFICATION FillSpec
SYMMETRY MCSymmetry
INVARIANTS
    NoDoubleBooking
CHECK_DEADLOCK FALSE
