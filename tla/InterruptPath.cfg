CONSTANTS
  Pins = {d0, d4}
  LedPin = d0
  ActionPins = {d4}
  MaxPresses = 1
  MaxToggles = 2
SPECIFICATION FairSpec
INVARIANTS NoEchoedTick LedsHaveOneOwner
PROPERTIES EventsKept ShadowSettles
