CONSTANTS
    SlotsCount = 2
    MaxInt = 1000
    Kinds = {"cpu", "load", "rate", "counter", "time", "idle.pdp11", "idle.bsd", "idle.rt11"}
    CpuReadings <- MCCpuReadings
    Advances <- MCAdvances
    Loads <- MCLoads
    Cpus = 2
    Clocks <- MCClocks
    Second = 20
    MeterSet <- MCMeterSet
    MaxAdds = 2
    MaxSum = 3
    MaxOthers = 1
SPECIFICATION Spec
INVARIANTS PatternFits HistoryRecovers CountedInThreeSums NoErrorLeds LedsTell
