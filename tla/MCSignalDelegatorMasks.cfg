SPECIFICATION Spec
CONSTANTS
  usr = usr
  segv = segv
  pause = pause
  Signals = {usr, segv, pause}
  Required = {segv, pause}
  SIGNAL_FOR_PAUSE = pause
  DEFAULT_IGNORE = {}
  Masks = {{usr, segv, pause}}
  SuspendMasks = {{}, {usr}, {segv, pause}}
  Settable = {usr, segv}
  Actions <- SomeActions
  MaxFrames = 2
  HandlersSetMask = FALSE
CHECK_DEADLOCK TRUE
INVARIANTS RequiredHandled MaskAgrees CountsFrames AltStackOnce
