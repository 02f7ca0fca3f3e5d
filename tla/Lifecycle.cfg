SPECIFICATION Spec
INVARIANTS
  OnlyHeld
  LeftAsFound
  NothingRefused
