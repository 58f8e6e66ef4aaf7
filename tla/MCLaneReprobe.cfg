\* An extra lane that measures fast enough once and too slow the next time: it
\* is parked, and due for its re-probe a tick later.
CONSTANTS
    h1 = h1
    h2 = h2
    Reaper = Reaper
    Nobody = Nobody
    NLanes = 2
    Handlers <- MCHandlers
    Keeps = {"default"}
    TTL = 1
    Reprobe = 1
    Rates <- MCRates
    SeedRate <- MCSeedRate
    KeepNum = 2
    KeepDen = 1
    Evidence = 1
    Budgets = {1}
SPECIFICATION Spec
PROPERTIES ReprobeServes
