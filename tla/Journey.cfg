CONSTANTS
    sunday = sunday
    wednesday = wednesday
    substitution = substitution
    task = task
    r1 = r1
    r2 = r2
    firstPresence = firstPresence
    retakeConstancy = retakeConstancy
    Services = {sunday, wednesday}
    Deeds = {substitution, task}
    TaskDeeds = {task}
    HeldOn <- MCHeldOn
    Requests = {r1, r2}
    Milestones = {firstPresence}
    Needed <- MCNeeded
    StepTypes = {retakeConstancy}
    Below <- MCBelow
    MaxCalls = 2
    MaxFailures = 1
    MaxEvents = 2
    NoJourney = NoJourney
    NoService = NoService
    NoMilestone = NoMilestone
SPECIFICATION Spec
SYMMETRY MCSymmetry
INVARIANTS
    TypeOK
    ProjectedOnce
    LoneRequestsSucceed
    DerivedAgree
