CONSTANTS
    sunday = sunday
    wednesday = wednesday
    substitution = substitution
    task = task
    r1 = r1
    r2 = r2
    firstPresence = firstPresence
    retakeConstancy = retakeConstancy
    Services = {sunday}
    Deeds = {}
    TaskDeeds = {}
    HeldOn <- MCHeldOn
    Requests = {r1, r2}
    Milestones = {}
    Needed <- MCNeeded
    StepTypes = {}
    Below <- MCBelow
    MaxCalls = 2
    MaxFailures = 1
    MaxEvents = 3
    NoJourney = NoJourney
    NoService = NoService
    NoMilestone = NoMilestone
SPECIFICATION FairSpec
PROPERTIES
    TotalsSettle
