CONSTANTS
  MaxOps = 2
  MaxStops = 1
  MaxClock = 4
  MaxId = 2
  MaxPieces = 4
  MaxMail = 2
  Agent = {1, 2, 3}
  Root = 0
  Capability = {spawn, write}
  AgentSpawn = spawn
  Conflicting <- OneConflict
  Holder = {h1, h2, h3}
  Key = {k}
  Ttl = {1, 2}
  Caller = {1, 2}
  Account = {openai}
  Day = {1, 2}
  Price = {0, 2}
  Estimate = 1
  DailyCap = 2
  MonthlyCap = 4
  ToolCapability = {write}
  TextLine = {a, b}
  MaxLines = 3
  Job = {1}
  Worker = {w1}
  Invalid = orchestrator
  Interval <- EveryTick
  Graph <- FlowGraph
  Start = "s"
  Edges <- FlowEdges
  Flow = {f1, f2}
  Tasks = 3
  Team = 2
  Rounds = 2
  Author = {1, 2}
  Content = {c1}
  Weights = {20, 80}
  Familiar = 1
  Proven = 2
  Message = {m1, m2, m3, m4}
  Stamp = {1, 2, 3}
  Batch = 2
  Rpc = {1, 2}
  MaxTries = 2
  User = {u1, u2}
  Server = {s1}
  Plugin = plugin
  Native = native
  ToolName = {t1, t2}
  NativeName = {t1}
  ToolsOf <- Offers
  MaxCalls = 1
  File = {d1}
  Ingestor = {i1, i2}
  Version = {1, 2}
  Floor = 2
  Ceiling = 3
  Line <- DocLine
  Prompts <- Asked
  LineOf <- Spoken
  MaxReply = 3
  MaxRetries = 1
  Opener = {o1, o2}
  Migrations = 2
  PoolSize = 2
  Size = {1, 3}
  MaxTokens = 6
  Threshold = 4
  Preserve = 1
  MaxSteps = 4
  Visitor = {1, 2}
  Asker = {e1}
  Call = {write, save, browse}
  Reviewed = {write, save}
  Small = {save}
  Id = {1, 2}
  Command = {1, 2}
  BusCap = 1
  NoId = NoId
  NoCall = NoCall
SPECIFICATION MCSpec
INVARIANTS
  TypeOK
  BoundedInheritance MergedStaysMerged
  LeaseIsExclusive
  CeilingHolds LedgerBalances
  PolicyIsStrict HunkIsTheChange
  TriggerIsServed
  CompletedIsWhole ReviewComesFirst
  VerdictIsFounded
  KnowledgeKept
  MarkerPassesOnlyRead
  AnswerIsForCall
  MountedToolsStay
  ActiveBackendServes ChunksCoverFile
  ReplyIsWhole
  RanOnce
  NothingForgotten
  DeedsAreKept
  ActsWithConsent RowFollowsLog
PROPERTIES
  OncePerInterval
  AnswerIsHeard
CHECK_DEADLOCK FALSE
