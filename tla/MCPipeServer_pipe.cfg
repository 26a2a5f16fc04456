SPECIFICATION FairSpec
CONSTANTS
  s1 = s1  s2 = s2
  Senders = {s1}
  Requests = {"pairing_request"}
  Snapshots = {"metrics"}
  MaxQueuedMessages = 3
  ReservedImportantMessages = 1
  AuthRequired = TRUE
  MaxMessages = 3
  MaxBreaks = 1
  None = none
INVARIANTS
  QueueBounded
  ImportantInOrder
PROPERTIES
  ImportantDelivered
