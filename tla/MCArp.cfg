SPECIFICATION ArpSpec
CONSTANTS
  h1 = h1
  h2 = h2
  h3 = h3
  Hosts = {h1, h2, h3}
  NONE = NONE
  ARP_TABLE_SIZE = 2
  ARP_MAXAGE = 2
  ARP_AGE_REREQUEST_USED = 1
  ARP_MAXPENDING = 2
INVARIANTS
  ArpTypeOK
  OneEntryPerHost
  QueueIsOwn
  MappingIsTrue
PROPERTY
  PendingEnds
