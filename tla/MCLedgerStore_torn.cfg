SPECIFICATION RunningSpec
CONSTANTS
    loop = loop
    api = api
    broker = broker
    sync = sync
    Thread = {loop, api}
    Store = {broker, sync}
    StoreOf <- SeparateStores
    Inode = {f1, f2, f3}
    Book = {b0, b1}
    NoBook = b0
    ResetBook = b0
    Trade = {k1}
    Symbol = {krw}
    NoInode = NoInode
    NoThread = NoThread
    NoRequest = NoRequest
INVARIANT SettledFileIsWhole
