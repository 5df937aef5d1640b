SPECIFICATION Spec
CHECK_DEADLOCK FALSE
CONSTANTS
  t1 = t1
  t2 = t2
  Users = {t1, t2}
  NoUser = nobody
  Keys = {"a", "rctrl", "enter", "print"}
  QueueSize = 2
  KbdMaxWaiters = 2
  LineCap = 2
  ReadLens = {2}
  MaxPresses = 2
  MaxOpens = 1
  Readers = {h1}
  RingLen = 16
  Bodies <- MCBodies
  ReadSizes = {1, 3}
  MaxRecords = 3
  MaxReads = 3
  Ports = {com1}
  Clients = {t1, t2}
  NoClient = nobody
  FifoSize = 2
  SerialRing = 3
  SerialMaxWaiters = 1
  Chunks = {1, 3}
  Rates = {115200, 7, 0}
  MaxArrivals = 3
  MaxSent = 3
  Modes <- MCModes
  Starts0 <- MCStarts
  SetTimes <- MCSetTimes
  MaxSeconds = 1
  MaxPit = 1
  TextLen = 2
  TextReads = {1}
  DiskUsers = {t1, t2}
  NoUserYet = nobody
  SectorSize = 2
  Machines <- MCMachines
  ATA_MAX_LBA28 = 3
  AllOnes = 15
  RamSectors = 1
  MaxChunk = 1
  Windows <- MCSharedWindows
  Faults = {"disk"}
  MaxFaults = 1
  MaxJobs = 3
INVARIANT BytesAreKept
