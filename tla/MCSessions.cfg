\* A server and a client that connects twice, with or without a SteamID, under fairness.
SPECIFICATION FairSpec
CONSTANTS
  Server = server
  Clients = {c1}
  MaxConns = 2
INVARIANTS PeersAreConnected
PROPERTIES WelcomedUntilTheEnd Joined
