\* A chat with its tokens, and the wizard with one file operation that fails.
SPECIFICATION MainFairSpec
CONSTANTS
  main = main
  aux = aux
  turn = turn
  reader = reader
  Keys = {main, aux}
  Callers = {turn, reader}
  Loop = Loop
  MaxQueued = 2
  MaxFailures = 1
  Commands = {"chat", "setup"}
  Providers = {"nous", "openai", "gemini", "ollama"}
  Backends = {"local", "ssh", "modal"}
  Homes <- MCHomes
  Environs <- MCEnvirons
  NoBackup = NoBackup
  MaxRuns = 1
  MaxHitches = 1
INVARIANTS
  Conservation
  ConfirmedIsLoaded
  OldConfigIsKept
PROPERTIES
  CloseDrains
  EndOfInputEndsRun
\* The process may end for good.
CHECK_DEADLOCK FALSE
