SPECIFICATION MessagingSpec
CONSTANTS
  Calls = {c1}
  Producers = {p1, p2}
  QueueCap = 1
  MaxAttempts = 3
  LinksBreak = FALSE
  Spawns = FALSE
  MockCallers = {m1, m2}
  MockEndpoints = {e1, e2}
  ChannelSize = 1
  Sharers = {t1, t2}
  LinkIds = {"l1"}
  Profiles = {"Standard", "Reliable"}
  BufferSize = 1
  LinkSize = 1
  MaxWork = 3
  Words = {"a", "topic"}
  Tags = {"t-1", "-"}
  Actions <- mcActions
  Clients <- mcClients
  MaxGuards = 3
  GuardsOutlive = FALSE
  MaxTasks = 3
  MaxTakers = 2
  MaxArrivals = 2
  Organizations = {"local", "org", "a/b"}
  BadIds = {"a/b"}
  Upstreams = {"cloud"}
  TcpBased = TRUE
  MaxSpawns = 2
INVARIANTS TypeOK HandledOnce AnswerIsMine RetriedIfUnreached RoutedAsAddressed AdaptersAsTold SharedSafely SessionsAsTold
SYMMETRY Interchangeable
\* A call that has returned leaves nothing to do: the system may stop.
CHECK_DEADLOCK FALSE
