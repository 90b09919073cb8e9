SPECIFICATION LiveSpec
CONSTANTS
    Options <- MCOptions
INVARIANTS PilotTypeOK PwmOnlyInSession
PROPERTIES NoCloseWithoutSession NoCloseUnderFault RelayOpens DemandIsServed
