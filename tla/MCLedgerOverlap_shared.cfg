SPECIFICATION OverlapSpec
CONSTANTS
    loop = loop
    api = api
    broker = broker
    sync = sync
    Thread = {loop, api}
    Store = {broker}
    StoreOf <- SharedStore
    Inode = {f1, f2, f3}
    Book = {b0, b1}
    NoBook = b0
    ResetBook = b0
    Trade = {k1, k2}
    Symbol = {krw}
    NoInode = NoInode
    NoThread = NoThread
    NoRequest = NoRequest
SYMMETRY Interchangeable
INVARIANTS
    PathHoldsWholeLedger
    ReadersSeeWholeLedgers
    SavesNeverRaise
    LogsLostToOverlapOnly
