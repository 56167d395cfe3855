\* Every pair of a flag and a variable, with numbers around the ceilings.
CONSTANTS
    Absent = Absent
    Malformed = Malformed
    Numbers = {0, 200, 5000, 3000000}
    FlagSets <- AtMostOne
    VarSets <- AtMostOne
SPECIFICATION ConfigSpec
INVARIANTS ConfigTypeOK LegalLimits RunsAsConfigured EphemeralOnlyWhenTold
CHECK_DEADLOCK FALSE
