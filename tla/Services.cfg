SPECIFICATION ServicesSpec
CONSTANTS
  Services = {"sleep", "uart", "mgmt", "heap", "flash", "ptm"}
  Sleepers = {s1, s2}
  Durations = {1, 3}
  TickLength = 2
  Horizon = 8
  TxSize = 3
  RxSize = 3
  MaxSemRx = 2
  MaxCommands = 3
  HeapSize = 32
  Requests = {2, 3, 5}
  Table <- TwoAvbOneVpd
  CopyUnits = 6
  SectorUnits = 3
  Images = {"small", "large", "huge"}
  ImageUnits <- SmallLargeHuge
  NumPtCopies = 3
  Lists <- TwoTables
  AppParts = {"p1", "p2", "skipped"}
  SkippedParts = {"skipped"}
  ImgSize <- ImageTableSizes
  BufSize = 2
  Listing = {"cfg", "plain", "huge", "gone"}
  Coded = {"cfg", "huge"}
  PtContents <- PtCopyContents
  PartContents <- PartitionContents
INVARIANTS
  NeverEarly
  SleepersCovered
  ReaderServed
  NoByteStranded
  CommandOnce
  HeapTiled
  ImageKept
  LoadedWhole
  FoundIfIntact
CONSTRAINT UntilMisread
CHECK_DEADLOCK FALSE
