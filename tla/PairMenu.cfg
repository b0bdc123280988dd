SPECIFICATION FairSpec
CONSTANT Restart = 2
INVARIANTS
  TypeOK
  PairingOwned
  PairingShown
  NotifyArmed
  QuietAfterCancel
PROPERTIES
  CancelKept
  KeepsPromise
  GamepadPairingEnds
  WpadSyncRestarts
