SPECIFICATION Spec
CONSTANTS
  hcai_0 = hcai_0
  hcai_1 = hcai_1
  groq = groq
  jev = jev
  byok = byok
  HcaiFamily = HcaiFamily
  GroqFamily = GroqFamily
  ByokFamily = ByokFamily
  k1 = k1
  k2 = k2
  k3 = k3
  NoModel = NoModel
  Unset = Unset
  Models = {hcai_0, hcai_1, groq}
  Priority <- MCPriority
  Tagged = {hcai_1}
  TagOnly = {}
  OwnerOnly = {}
  Byok = byok
  Jev = jev
  Families = {HcaiFamily, GroqFamily, ByokFamily}
  Family <- MCFamily
  FamilyKeys <- MCFamilyKeys
  Hcai = HcaiFamily
  Turns = {t1}
  Kinds = {"plain", "tagged", "byok"}
  Endpoints = {e1}
  MaxRetries = 2
  MaxRuns = 1
  MaxOthers = 1
  People = {pa, pb}
  Asks = {m1}
  Starters = {m1}
  Clicks = {b1, b2}
  NoOne = NoOne
  DictResponses = TRUE
  MaxMoves = 2
  MaxOptOuts = 1
  MaxDeaths = 1
  SkillCalls = {c1, c2}
  Slugs = {sa, sb}
  Origin = Origin
  Requesters = {boss, kevinton}
  Maintainer = boss
  AutoAccept = FALSE
  MaxPending = 1
  MaxSkillDeaths = 1
  Tokens = {tk1, tk2}
  Boxes = {bx1, bx2}
  CodeRuns = {cr1, cr2}
  Requests = {rq1}
  AdminThreads = {ad1}
  MaxProxyStarts = 1
  Posts = {ma}
  OldThread = OldThread
  Dm = Dm
  MaxNews = 1
  MaxLate = 1
  MaxReboots = 1
  Absent = Absent
  Tasks = {task}
  Users = {ann, admin}
  Admins = {admin}
  TaskCallers = {tc1, tc2}
  MaxTasks = 1
  MaxReads = 1
  MaxRestarts = 1
  Reminders = {r1, r2}
  MaxLostAnswers = 1
  MaxSaveFaults = 2
  MaxBoots = 1
  WaitIds = {w1, w2}
  FiringThreads = {f1, f2}
  Enders = {en1}
  MaxEnds = 2
  MaxOutages = 1
  MaxWaitFaults = 1
  Rotators = {p1, p2}
  MaxPairs = 3
  MaxBadCalls = 1
  MaxStops = 1
  WebMessages = {wm1}
  WebWorkers = {ww1, ww2}
  Streams = {tab}
  WebWaker = WebWaker
  Repairer = Repairer
  MaxWebEvents = 3
  JoinAsks = {ja1, ja2}
  JoinClicks = {jc1}
  Nobody = Nobody
  MaxHuddles = 2
  MaxHuddleEvents = 2
  VoiceLines = {v1, v2}
  ChatLines = {cl1}
  TaskLines = {tl1}
  NoLine = NoLine
  HeardLines = 1
  MaxReplies = 2
  MaxThreadPosts = 3
  MaxTotal = 2
  MaxContext = 1
  Windows <- MCWindows
  MaxCalls = 1
  MaxMemoryFaults = 1
  ToolCalls = {c1, c2}
  Thoughts = {th1}
  PlanTaskLimit = 2
  SlackTasks = 6
  ThinkingTask = ThinkingTask
  ModelTask = ModelTask
  RespondTask = RespondTask
  ErrorTask = ErrorTask
  MaxAttempts = 2
  MaxPlanEvents = 1
  TurnRun = TurnRun
  SubRuns = {s1, s2}
  KevintonRun = KevintonRun
  SlackCallBudget = 1
  SubagentCallLimit = 1
  ChainLength = 2
  MaxToolUses = 3
  MaxRunEvents = 2
  Apps = {ba, bb}
  BotUsers = {ann}
  BotMaintainer = boss
  BotCalls = {bc1, bc2}
  NoApp = NoApp
  MaxBotFaults = 1
INVARIANTS ServicesTypeOK WorkingIsNotDead EveryModelTried ConsentHasGround StagedIsPending CodeRunsAsItself AnsweredOnce FileRules DeliveredOnce WokenOnce PairIsAccepted OpenHasTurn StreamsCatchUp SessionIsReachable KickReachesJoin LinesAreKept SentIsSound NothingForgotten EndsAreShown BudgetIsShared ProgressIsKept InstallIsKept
CHECK_DEADLOCK FALSE
