SPECIFICATION FairSpec
CONSTANTS
  MaxInFlight = 3
  MaxFaults = 3
INVARIANTS FlagsAgree LoggedInIsReal
PROPERTIES ImplementsSession ReturnsToChat
