\* One transaction with a single shell next to its watchdog, the timer and the boot
\* reconciler, and one fault: what README.md says of the deployment lock.
SPECIFICATION Spec
CONSTANTS
  r0 = r0
  r1 = r1
  Txns = {t1}
  Releases = {r0, r1}
  First = r0
  Target <- Upgrade
  Shells = {a}
  Watchdogs = {w}
  Boot = Boot
  Tick = Tick
  None = None
  MaxFaults = 1
PROPERTIES
  DocActionsSerialize
CHECK_DEADLOCK FALSE
