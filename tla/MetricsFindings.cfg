\* Each of these fails: put the one to look at in the place of the last line.
\*   INVARIANT MaxHolds
\*   INVARIANT SpreadOfValues
CONSTANTS
    SlotsCount = 2
    MaxInt = 1000
    Kinds = {"cpu", "rate"}
    CpuReadings <- MCCpuReadings
    Advances <- MCAdvances
    Loads <- MCLoads
    Cpus = 2
    Clocks <- MCClocks
    Second = 20
    MeterSet <- MCMeterSet
    MaxAdds = 2
    MaxSum = 3
    MaxOthers = 1
SPECIFICATION Spec
INVARIANT MaxHolds
