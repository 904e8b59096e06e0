SPECIFICATION Spec
CONSTANTS
  Archive = 5
  Padding = 2
  Capacity = 2
INVARIANTS KeepsApart BootsUnlessFailed
PROPERTIES MountedUntouched EndsUnlessFailed
\* do_install returns, reboots, or spins and waits for ever after a failure.
CHECK_DEADLOCK FALSE
