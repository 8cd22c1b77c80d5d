SPECIFICATION FairSpec
CONSTANTS
  Clients = {c1, c2}
  Fast = {c1}
  Orgs = {o1}
  NoOrg = NoOrg
  Channels = {a}
  All = All
  Types = {a, b}
  Requests = {{a}, {All, a}}
  MaxEvents = 2
  QueueSize = 1
CHECK_DEADLOCK FALSE
INVARIANTS TypeOK IndexExact LossCounted DeliveredOnReturn
PROPERTY NoHeadOfLine
