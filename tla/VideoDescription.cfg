\* One viewer, slow when the screen is turned.
SPECIFICATION DeliverySpec
CONSTANTS
  Viewer = {v1}
  Buffer = 2
  MaxSample = 4
  MaxConfig = 2
INVARIANT Described
