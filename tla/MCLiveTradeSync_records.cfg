SPECIFICATION SyncSpec
CONSTANTS
    loop = loop
    api = api
    broker = broker
    sync = sync
    krw = krw
    Thread = {loop, api}
    Syncer = {api}
    Store = {broker, sync}
    StoreOf <- SeparateStores
    Inode = {f1, f2, f3}
    Book = {b0}
    NoBook = b0
    ResetBook = b0
    Trade = {u1}
    BuyOrder = {u1}
    SellOrder = {u2}
    NoOrder = NoOrder
    MaxSyncs = 2
    SymbolOf <- OneSymbol
    Symbol = {krw}
    NoInode = NoInode
    NoThread = NoThread
    NoRequest = NoRequest
INVARIANTS
    SyncTypeOK
    SyncedOnce
PROPERTIES
    LockReleased
    SyncsEnd
