SPECIFICATION FairSpec
CONSTANTS
    r1 = r1
    r2 = r2
    a1 = a1
    a2 = a2
    NoApp = NoApp
    Runs <- MCRuns
    Apps <- MCApps
    Worlds <- MCWorlds
INVARIANTS TypeOK PartialIsFinished
PROPERTIES CompletedIsStrict OnlyAdds RerunsComplete
