SPECIFICATION MCSpec
CONSTANTS
  dimcustomer = dimcustomer
  addresslines = addresslines
  x1 = x1
  x2 = x2
  v1 = v1
  v2 = v2
  Run <- MCRun
  Reloaded <- MCReloaded
  Joined <- MCJoined
  AddressLines = addresslines
  DimCurrency = dimcurrency
  FactApplication = factapplication
  Value <- MCValue
  MaxChanges = 2
  MaxCalls = 1
  MaxCopies = 5
  MaxFaults = 3
INVARIANTS TypeOK CurrencyOnce ApplicationOnce
PROPERTIES LoadedOnce AllOrNothing LoadIsCurrent ExecutionsEnd
CHECK_DEADLOCK FALSE
