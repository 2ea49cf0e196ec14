\* A file with three video lines, of which the list's first block holds two;
\* descriptors for two of the three users.
CONSTANTS
  Numbers = {3, 4}
  Free = Free
  None = None
  Lines <- ScenarioLines
  Room = 2
  File = File
  Server = Server
  Client = Client
SPECIFICATION Spec
INVARIANTS TypeOK PullInOrder DescriptorsOwned MonitorReachable
PROPERTY ShutdownEnds
