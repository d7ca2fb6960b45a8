SPECIFICATION ToolsSpec
CONSTANTS
  PTHREADCOUNT = 3
  NUMBER = 2
  CONNECTION_POOL_SIZE = 3
  Client = {c1, c2, c3, c4}
INVARIANTS
  TypeOK
  PoolSafe
  UploadsSafe
  BooksIntact
  LocksCount
  DnsSound
PROPERTIES
  ImplementsAddressBook
  LoadRestores
  AllFinish
