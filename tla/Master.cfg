SPECIFICATION FairSpec
CONSTANTS
  Pids = {p1, p2, p3, p4}
  Launcher = p1
  Outside = Outside
  NoFile = NoFile
  Settings <- MCSettings
  Others = {"SIGCHLD", "SIGTERM"}
  MaxSent = 1
INVARIANTS TypeOK ZombieWatched OneMaster KnowsItsRole AsConfigured
PROPERTIES CollectedUnlessStuck
CHECK_DEADLOCK FALSE
