\* Pipe: two clients with two calls each, and one restart of the server.
\* TCP: three connections and room for two held ones; one status change.
CONSTANTS
  p1 = p1
  p2 = p2
  PipeClients = {p1, p2}
  Nobody = Nobody
  MaxStarts = 2
  MaxPipeCalls = 2
  t1 = t1
  t2 = t2
  t3 = t3
  TcpCalls = {t1, t2, t3}
  MixedCalls = {t3}
  NoCall = NoCall
  Acl <- MCAcl
  MaxEvents = 4
  MaxStatus = 1
  MaxTcpStarts = 1
SPECIFICATION LinkSpec
INVARIANTS
  PipeReachable
  ExecutedIsAnswered
  NoMissedNotify
  WaitAligned
PROPERTIES
  ImplementsRemoteCall
  PipeCallReturns
  TcpCallReturns
\* The calls and the starts are bounded.
CHECK_DEADLOCK FALSE
