SPECIFICATION SessionSpec
CONSTANTS
  app = app
  console = console
  Clients <- MCClients
  Consoles <- MCConsoles
  Nobody = Nobody
  MaxImages = 3
INVARIANTS SessionTypeOK SlotsAreMine ShownIsOwn ChipInLiveSlots AllReleased
PROPERTIES EveryRequestReturns
