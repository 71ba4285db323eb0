SPECIFICATION FairSpec
CONSTANTS
  a = a
  b = b
  r = r
  ld = ld
  rd = rd
  Senders <- TwoSenders
  FirstSender = a
  Receiver = r
  LastDrop = ld
  ReceiverDrop = rd
  Waiters <- OneWaiter
  Notifiers <- AllNotifiers
  Kinds <- BlockOnly
  Timed <- NoneTimed
  MayCancel = FALSE
  MayStray = FALSE
  MaxEntries = 1
  MaxMessages = 1
PROPERTIES DisconnectSeen
\* Once all handles are dropped nothing is left to do.
CHECK_DEADLOCK FALSE
