CONSTANTS
    p1 = p1
    p2 = p2
    timer1 = timer1
    timer2 = timer2
    admin1 = admin1
    daily = daily
    absences = absences
    ana = ana
    bia = bia
    global = global
    church = church
    Processes = {p1, p2}
    Cycles = {timer1, timer2, admin1}
    ProcessOf <- MCProcessOf
    ScopeOf <- MCScopeOf
    RuleOrder <- MCRuleOrder
    TriggerOf <- MCTriggerOf
    StrategyOf <- MCStrategyOf
    EveryOf <- MCEveryOf
    CooldownOf <- MCCooldownOf
    Conditional = {absences}
    Servants = {ana}
    Runs = {1, 2}
    MaxNow = 2
    MaxTroubles = 1
    NoServant = NoServant
    NoCycle = NoCycle
    NoRule = NoRule
    NoProcess = NoProcess
SPECIFICATION FairSpec
INVARIANTS
    TypeOK
    ScheduledRunsDoNotOverlap
    ActedOnce
    DueRuleIsNoRepeat
PROPERTIES
    Spacing
    CyclesEnd
CHECK_DEADLOCK FALSE
