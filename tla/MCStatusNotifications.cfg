SPECIFICATION StatusSpec
CONSTANTS
    Possible = {"Emergency", "OverVoltage", "MeterFailure"}
    Pilots = {"A", "B1", "B2", "C", "D", "E1"}
    MaxChanges = 5
INVARIANTS ReportInv NoFlood
