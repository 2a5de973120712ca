SPECIFICATION FairSpec
CONSTANTS
  Publishers = {periodic, manual}
  Streams = {s1, s2}
  Capacity = 1
  Tabs = {t1}
  Periodic = periodic
  MaxLoads = 1
  MaxVersion = 1
  MaxMishaps = 1
INVARIANTS TypeOK NoChangeUnnoticed
PROPERTIES PublishProgresses PublisherNotBlocked TabsFollow
