CONSTANTS
  p1 = p1
  p2 = p2
  note = note
  trail = trail
  m1 = m1
  m2 = m2
  v1 = v1
  v2 = v2
  d1 = d1
  d2 = d2
  NoEntry = noentry
  Never = never
  Procs <- MCProcs
  Solo = p1
  Keys <- MCKeys
  Notes <- MCNotes
  Topics <- MCTopics
  Messages <- MCMessages
  Values <- MCValues
  Encodable <- MCEncodable
  Amount = 4
  Floor = 2
  Life = 1
  MaxTime = 2
  MaxCalls = 3
  MaxCrashes = 1
  Callers = {c1, c2}
  MaxIds = 4
  MaxNoise = 1
  Trees <- MCTrees
  Prompts = {d1, d2}
  Answers = {a1, a2, a3}
  Width = 2
  CacheSize = 1
  Threshold = 33
  MaxClears = 1
  Emitters = {e1, e2}
  Browsers = {b1, b2}
  Capacity = 1
  MaxEvents = 2
  Members = {n1, n2}
  Addressees = {n1}
  PerTurn = 1
  MaxLetters = 4
  CallBound = 2
  ThinkBound = 3
  Topmost = 1
  BookKeys = {k1, k2}
  Threads = {w1, w2}
  Closeness = {0, 1, 2}
  MaxWrites = 2
  Jobs = {j1, j2}
  MaxAttempts = 2
  MaxThoughts = 2
  Under <- MCUnder
  Files <- MCFiles
  MaxPlants = 2
  g1 = g1
  Genes = {g1, g2}
  Grades = {1, 2}
  Population = 3
  Survivors = 2
  Generations = 3
  Charters <- MCCharters
  Rules <- MCRules
  Openings <- MCOpenings
  Judges = {q1, q2}
  Texts <- MCTexts
  TokenCosts = {1}
  DepthCap = 1
  ScarceRole = "lead"
  BarredRole = "hand"
  ReservedName = "root"
  TokenCap = 1
  ReplyCap = 1
  Allowance = 6
  MaxTries = 2
  MaxLoops = 2
  MaxSites = 3
  MaxRules = 1
  MaxTurns = 3
  MaxDeeds = 4
  MaxBeats = 2
SPECIFICATION ServicesSpec
INVARIANTS AckedSurvives NeverInvented MailSound AnswersMatch HistoryLinked MemoryTells ColonySound ForestSound ObservedWhole
CHECK_DEADLOCK FALSE
