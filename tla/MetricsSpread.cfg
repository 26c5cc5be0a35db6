CONSTANTS
    SlotsCount = 3
    MaxInt = 1000
    Kinds = {"rate"}
    CpuReadings <- MCCpuReadings
    Advances <- MCAdvances
    Loads <- MCLoads
    Cpus = 2
    Clocks <- MCClocks
    Second = 20
    MeterSet <- MCMeterSet
    MaxAdds = 2
    MaxSum = 3
    MaxOthers = 1
SPECIFICATION Spec
INVARIANT SpreadOfValues
