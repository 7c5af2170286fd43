SPECIFICATION Spec
CONSTANTS
  Hooks <- MCHooks
  FrameSize = 13
  Unset = Unset
INVARIANTS
  TypeOK
  HooksDecide
  PrefetchInFrame
VIEW FilterView
