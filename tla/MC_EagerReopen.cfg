SPECIFICATION HandleSpec
CONSTANTS
  t1 = t1
  t2 = t2
  t3 = t3
  Thread = {t1, t2}
  Version = {1, 2, 3}
  Metadata <- MCMetadata
  MaxReplaced = 2
  MaxRequests = 2
INVARIANT ChangedMetadataIsRefused
CHECK_DEADLOCK FALSE
