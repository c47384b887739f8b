\* Runs of one session, an exec, a mount daemon and a prune.
CONSTANTS
  a = a
  b = b
  c = c
  Cmd = {a, b, c}
  Scenarios <- MCScenarios
  Session = session
  Plain = plain
  Fails = {"open", "slow", "thread", "fork", "unshare", "map", "register", "bind", "seal", "exec", "umount"}
  Apart = TRUE
  MaxKills = 1
SPECIFICATION Spec
INVARIANTS   LeftByFailure 
PROPERTIES PrunedIsUnused Settles
CHECK_DEADLOCK FALSE
