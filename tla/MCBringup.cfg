SPECIFICATION Spec
CONSTANTS
  Resources <- MCResources
  Programs <- MCPrograms
  Local <- MCLocal
  Fragile <- MCFragile
  Inside <- MCInside
  Owns <- MCOwns
  MaxFaults = 1
  Certified <- MCCertified
  Bound <- MCBound
  Straight <- MCStraight
  Guarded <- MCGuarded
  Sure <- MCSure
INVARIANTS NothingLeft GetsOnce FreesOnlyHeld NothingDangles
CHECK_DEADLOCK FALSE
