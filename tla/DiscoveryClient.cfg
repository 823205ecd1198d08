SPECIFICATION SystemSpec
CONSTANTS
  s1 = s1
  s2 = s2
  s3 = s3
  s4 = s4
  s5 = s5
  A = A
  B = B
  P1 = P1
  P2 = P2
  a1 = a1
  a2 = a2
  b1 = b1
  Sessions <- MCSessions
  Scopes <- MCScopes
  Peers <- MCPeers
  Ads <- MCAds
  ScopeOf <- MCScopeOf
  PeerOf <- MCPeerOf
  NoSession = NoSession
  NoAd = NoAd
  Options <- MCOptions
  c1 = c1
  c2 = c2
  c3 = c3
  Clients <- MCClients
  ClientsOf <- MCClientsOf
  SocketsOf <- MCSocketsOf
  Reserve <- MCReserve
  Published <- MCPublished
  Window = 0
  MaxNow = 2
INVARIANTS
  RegistryConsistent
  ListsCurrent
PROPERTIES
  TimestampNeverDecreases
  ExpiredAreClosed
  LatestIsListed
CHECK_DEADLOCK FALSE
