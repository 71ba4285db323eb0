SPECIFICATION FairSpec
CONSTANTS
  a = a
  b = b
  r = r
  ld = ld
  rd = rd
  Senders <- TwoSenders
  FirstSender = a
  Receiver = r
  LastDrop = ld
  ReceiverDrop = rd
  Waiters <- OneWaiter
  Notifiers <- AllNotifiers
  Kinds <- AllKinds
  Timed <- AllKinds
  MayCancel = TRUE
  MayStray = TRUE
  MaxEntries = 1
  MaxMessages = 1
INVARIANTS TypeOK MessageTold
PROPERTIES ImplementsChannel MessageReceived DisconnectWakes
\* Once all handles are dropped nothing is left to do.
CHECK_DEADLOCK FALSE
