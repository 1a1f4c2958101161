CONSTANTS
  Thread <- MCThread
  FileSink <- MCFileSink
  Cascade <- MCCascade
  Global = "global"
  ThreadSafe <- MCThreadSafe
  Null = "none"
  Careful = {}
  MaxEvents = 4
  MaxSwitches = 6

SPECIFICATION ExampleSpec
INVARIANTS ExamplesKeepObligations FilesAsTested
