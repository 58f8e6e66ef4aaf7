\* Two handler threads over two lanes; a deadline of one tick and a re-probe
\* of one tick let every order of expiry occur.
CONSTANTS
    h1 = h1
    h2 = h2
    Reaper = Reaper
    Nobody = Nobody
    NLanes = 2
    Handlers <- MCHandlers
    Keeps = {"default", "zero"}
    TTL = 1
    Reprobe = 1
    Rates <- MCSteadyRates
    SeedRate <- MCSeedRate
    KeepNum = 2
    KeepDen = 1
    Evidence = 0
    Budgets = {1}
SPECIFICATION FairSpec
INVARIANTS TypeOK EngineHeld InflightCounts ResidentHasDeadline
PROPERTIES ParkedGetsNoRequest RequestsSettle IdleUnloaded
