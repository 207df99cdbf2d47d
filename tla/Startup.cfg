SPECIFICATION StartupFairSpec
CONSTANTS
  Server = {s1}
  Script = {g1}
  Command = {m1}
  Email <- MCEmail
  alice = alice
  None = None
  OnStartUp <- MCOnStartUp
  MaxAttempts = 3
  MaxFaults = 2
INVARIANTS StartupTypeOK MigratedOnce ServesOnSchema ExitZeroMeansAdmin
PROPERTIES StartupImplementsDirectory ServiceComesUp EveryRunEnds
