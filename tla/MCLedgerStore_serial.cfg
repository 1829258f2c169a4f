SPECIFICATION Spec
CONSTANTS
    loop = loop
    api = api
    broker = broker
    sync = sync
    Thread = {loop}
    Store = {broker}
    StoreOf <- SharedStore
    Inode = {f1, f2}
    Book = {b0, b1}
    NoBook = b0
    ResetBook = b0
    Trade = {k1, k2, k3}
    Symbol = {btc, eth}
    NoInode = NoInode
    NoThread = NoThread
    NoRequest = NoRequest
PROPERTY ImplementsAtomicLedger
