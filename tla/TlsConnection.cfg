SPECIFICATION ConnectionSpec
CONSTANTS
  client = client
  server = server
  Peers = {client, server}
  Script <- Flights
  Capacity = 2
  None = None
INVARIANTS ContextOnlyDuringPoll NoLostWakeup ContextBelongsToPoller ParkedIsRegistered
PROPERTIES HandshakesEnd WaitingHalfIsPolled StreamNeverHangs
CHECK_DEADLOCK FALSE
