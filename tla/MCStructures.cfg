CONSTANTS
  Kinds = {"hash", "lru", "region", "mempool", "static_mempool", "heap", "dynb",
           "trie", "tree", "list", "graph", "pointer", "crc", "startup", "queue_events",
           "fd", "tags", "ring"}
  Links = {"n1", "n2", "n3"}
  Anchor = "head"
  MaxItems = 3
  Resets = FALSE
  Vertices = {"u", "v", "w"}
  MaxIn = 3
  Blocks = {"n1", "n2", "n3", "n4", "n5", "n6"}
  GroupSize = 2
  Dynamic = TRUE
  Handles = {"h1", "h2", "h3"}
  MaxEvents = 2
  Threads = {"t1", "t2"}
  Objects = {"o1", "o2", "o3"}
  Capacity = 1
  MaxHandles = 2
  Guarded = TRUE
  Modules = {"msg", "gp", "threadex"}
  Elements = {"e1", "e2"}
  FirstLimit = 1
  MaxLimit = 4
  Texts <- MCTexts
  FormatSize = 3
  ReadSize = 1
  MaxReadSize = 4
  PipeSize = 3
  MaxGiven = 5
  Callers = {"c1", "c2"}
  Names = {"k1", "k2"}
  Tags = {"t1", "t2", "t3"}
  Yos = {"y1", "y2"}
  CacheKeys = {"k1", "k2", "k3"}
  CacheNodes = {"n1", "n2", "n3", "n4"}
  DataSizes = {0, 1, 2, 4}
  MaxSize = 3
  HeapNodes = {"n1", "n2", "n3", "n4"}
  Ranks = {1, 2, 3}
  MaxHeap = 4
  HashKeys = {"k1", "k2", "k3", "k4"}
  HashValues = {"v1", "v2"}
  HashBits = 2
  MinBits = 0
  DefaultBits = 2
  HashOf <- MCHashOf
  Width = 3
  Height = 3
  Beyond = 4
  Readers = {"r1"}
  Words = {"w1", "w2"}
  SlotNr = 3
  Versions = 4
  MaxWrites = 8
SPECIFICATION Spec
CHECK_DEADLOCK FALSE
INVARIANTS
  HashIsDictionary
  RegionExact
  BlocksPartitioned
  KeepsElements
  ReadsWhatWasWritten
  TagsExact
  TreesExact
  ListExact
  GraphExact
  ReferencesExact
  CrcIsRemainder
  AllOrNothing
  EventsReachListeners
  ReadsAreSound
  RetryMeansLapped
PROPERTIES
  IsPriorityQueue
  IsLruCache
