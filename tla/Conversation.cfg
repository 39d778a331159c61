SPECIFICATION FairSpec
CONSTANTS
  Warm = Warm
  Nobody = Nobody
  Requests = {r1}
  Sessions = {s1}
  Turns <- MCTurns
  MaxTurns = 2
  MaxCalls = 2
  MaxHistory = 2
  MaxAudio = 1
INVARIANTS SpeechTypeOK ModelsLoadOnce OrphansTakeNothing TurnsEndOnce HistoryWasHeard
PROPERTIES AllAreAnswered
CHECK_DEADLOCK FALSE
