CONSTANTS
    benchmarks <- MCbenchmarks
    modes <- MCmodes
    script <- MCscript
    returns <- MCreturns
    weight <- MCweight
    Browsers <- MCBrowsers
    Verifying = {"urv"}
    Getters = {"sample"}
    minRuns = 2
    keepRuns = 2
    maxRuns = 3
    Times = {0, 1}
    MaxReloads = 1
SPECIFICATION JsSpec
INVARIANTS CountedOnce FailuresKept AsRecorded
PROPERTIES ResultsBelong Finishes HarnessSpec
CHECK_DEADLOCK FALSE
