\* Each of sixteen components on its own, in one run.
SPECIFICATION MCSpec
VIEW MCView
CONSTANTS
  SessionIds = {s1}
  Principals = {p1, p2}
  Containers = {c1}
  Home <- MCHome
  Reapers = {r1, r2}
  Nobody = Nobody
  Retention = 1
  MaxRemovals = 1
  Protected = {}
  MaxClock = 1
  MaxClaims = 2
  Tabs = {b1, b2}
  ThreadIds = {t1, t2}
  QuickFirst = FALSE
  MaxTime = 2
  MaxIncidents = 1
  Turns = {q1, q2}
  NoTurn = NoTurn
  QueueLimit = 2
  MaxLog = 5
  MaxCalls = 1
  x1 = x1
  x2 = x2
  Exts = {x1, x2}
  Compiled = {x1, x2}
  Mcp = {x2}
  Brokered = {x2}
  Admins = {a1, a2}
  Conversations = {v1}
  Configs <- MCConfigs
  Absent = Absent
  MaxChanges = 2
  MaxPublished = 1
  Policies <- MCPolicies
  BashModes = {"risky", "never"}
  Models <- MCModels
  DefaultModel = "m1"
  ModelMax = 1
  Attempts = 2
  MaxParts = 2
  MaxRunTurns = 2
  MaxSteps = 2
  MaxRunTime = 1
  PubIds = {u1, u2}
  Artifacts = {u2}
  Paths = {"index", "app"}
  Entrypoint = "index"
  Unsafe = {}
  Browsers = {n1}
  Nothing = Nothing
  MaxEdits = 1
  MaxKeys = 2
  MaxMints = 2
  MaxPubTime = 1
  Capabilities = {"read", "write"}
  AllowedHost = {"read"}
  McpTools = {"search"}
  ApprovalTools = {"search"}
  McpGranted = TRUE
  CallIds = {k1}
  MaxSkew = 1
  MaxBridgeTime = 2
  MaxCatalogs = 1
  MaxSends = 2
  Agents = {g1}
  Questions = {ask1}
  NoId = NoId
  MaxTurnIds = 2
  MaxText = 2
  MaxEvents = 6
  StreamIds = {e1, e2}
  EventKinds = {"turn.started", "session.waiting", "session.completed"}
  NoStream = NoStream
  ReconnectLimit = 1
  PageSize = 2
  MaxStream = 3
  MaxOpened = 2
  MaxEdited = 2
  Documents <- MCDocuments
  BuiltIn <- MCBuiltIn
  Modes = {"standard", "cautious"}
  NoDocument = NoDocument
  MaxReleases = 1
  MaxTasks = 3
  Texts = {1}
  NoKey = NoKey
  StorageKeys = {w1, w2}
  Profiles = {f1}
  AllowedOrigins = {"host"}
  Unset = Unset
  MaxConfigures = 2
  MaxMade = 2
  MaxEmbedTime = 1
  m1 = m1
  m2 = m2
  RuntimeConfigs <- MCRuntimeConfigs
  BodyLimit = 8
  EnqueueEnvelope = 1
  DeliverEnvelope = 2
  TextLimit = 4
  MaxWidth = 2
  MaxDepth = 2
  MaxRuns = 3
  NoItem = NoItem
  Tools = {o1, o2}
  Delegated = {ask2}
  NoTool = NoTool
  MaxProcess = 3
  MaxClicks = 2
  LineTexts = {"--", "++"}
  Dashed = {"--"}
  Plussed = {"++"}
  MaxSize = 4
INVARIANTS
  MCTypeOK
  RemovalIsAuthorized
  SettledIsStored
  
  AuditTellsTheState
  GrantsWereEnabled
  ToolBoundaryIsNotReplayed
  LimitsHold
  EffectsAreApproved
  FoundIsComplete
  AccessIsEarned
  OneEffectPerCall
  EffectsWereDecided
  CompactionIsInvisible
  QuestionsAreReachable
  FollowsTheStream
  
  SelectionIsHonoured
  DraftsStayApart
  CollectionsStayApart
  AdmittedIsSound
  
CHECK_DEADLOCK FALSE
