---------------------------- MODULE LedgerStore -----------------------------
(***************************************************************************)
(* services/ledger_store.py: how the ledger file is read and rewritten by  *)
(* the threads of one process.                                             *)
(*                                                                         *)
(* Every operation that changes the file loads it, edits the payload in    *)
(* memory and saves it.  save() takes the lock of its own LedgerStore,     *)
(* writes ledger.json.tmp and renames it over ledger.json; load() takes no *)
(* lock.  services/container.py builds one LedgerStore for the broker and  *)
(* another for the live trade sync, so two locks may guard the same two    *)
(* file names: StoreOf says which object a thread goes through.            *)
(*                                                                         *)
(* Files are inodes: a rename moves a name and leaves the bytes alone, and *)
(* a thread that has opened a file goes on using the inode it opened.      *)
(***************************************************************************)
EXTENDS LedgerData

CONSTANTS
    Thread,    \* threads of the process: the auto-trade loop, API workers
    Store,     \* LedgerStore objects built on the same path
    StoreOf,   \* the object each thread goes through
    Inode,     \* files the file system can hold
    NoInode,   \* a name that is bound to no file, a descriptor that is closed
    NoThread,  \* the owner of a free lock
    NoRequest  \* the request of an idle thread

ASSUME StoreAssumption ==
    /\ StoreOf \in [Thread -> Store]
    /\ NoInode \notin Inode
    /\ NoThread \notin Thread

VARIABLES
    disk,      \* contents of each inode
    path,      \* inode of ledger.json
    tmp,       \* inode of ledger.json.tmp
    lock,      \* LedgerStore._lock: the thread that holds it
    pc,        \* where each thread is
    fd,        \* the inode a thread has open
    req,       \* the operation a thread performs
    payload,   \* the edited payload it will save
    issued,    \* trades some append was called with
    acked      \* trades whose append has returned

vars == <<disk, path, tmp, lock, pc, fd, req, payload, issued, acked>>

\* An empty file has just been truncated; a torn one mixes two writes.
Content == [state : {"empty", "torn", "whole"}, ledger : Ledger]

EmptyFile == [state |-> "empty", ledger |-> EmptyLedger]
TornFile == [state |-> "torn", ledger |-> EmptyLedger]
WholeFile(l) == [state |-> "whole", ledger |-> l]

Request ==
    [kind : {"load"}]
        \cup [kind : {"persist"}, book : Book]
        \cup [kind : {"append"}, trade : Trade, symbol : Symbol]
        \cup [kind : {"close"}, symbol : Symbol]

\* Inside `with self._lock`.
InSave == {"open", "write", "replace"}

PC == {"idle", "load", "read", "acquire"} \cup InSave

TypeOK ==
    /\ disk \in [Inode -> Content]
    /\ path \in Inode \cup {NoInode}
    /\ tmp \in Inode \cup {NoInode}
    /\ lock \in [Store -> Thread \cup {NoThread}]
    /\ pc \in [Thread -> PC]
    /\ fd \in [Thread -> Inode \cup {NoInode}]
    /\ req \in [Thread -> Request \cup {NoRequest}]
    /\ payload \in [Thread -> Ledger]
    /\ issued \subseteq Trade
    /\ acked \subseteq Trade

Init ==
    /\ disk = [i \in Inode |-> EmptyFile]
    /\ path = NoInode
    /\ tmp = NoInode
    /\ lock = [s \in Store |-> NoThread]
    /\ pc = [t \in Thread |-> "idle"]
    /\ fd = [t \in Thread |-> NoInode]
    /\ req = [t \in Thread |-> NoRequest]
    /\ payload = [t \in Thread |-> EmptyLedger]
    /\ issued = {}
    /\ acked = {}
-----------------------------------------------------------------------------
(***************************************************************************)
(* Calls and returns.                                                      *)
(***************************************************************************)

\* A caller enters load, save-by-_persist_state, append_trade_log_entry or
\* update_latest_open_trade_log.
Enter(t, r) ==
    /\ pc[t] = "idle"
    /\ req' = [req EXCEPT ![t] = r]
    /\ issued' = IF r.kind = "append" THEN issued \cup {r.trade} ELSE issued
    /\ pc' = [pc EXCEPT ![t] = "load"]
    /\ UNCHANGED <<disk, path, tmp, lock, fd, payload, acked>>

\* The trade identifiers of the broker are fresh uuids.
Call(t, r) ==
    /\ r.kind = "append" => r.trade \notin issued
    /\ Enter(t, r)

Return(t) ==
    /\ pc' = [pc EXCEPT ![t] = "idle"]
    /\ req' = [req EXCEPT ![t] = NoRequest]
    /\ payload' = [payload EXCEPT ![t] = EmptyLedger]

\* With the loaded ledger l in hand the operation either has nothing to save
\* and returns, or edits l and goes on to save it.
Edit(t, l) ==
    \/ /\ req[t].kind = "load"
       /\ Return(t)
    \/ /\ req[t].kind = "close"
       /\ ~ \E k \in DOMAIN l.logs : IsLatestOpen(l.logs, req[t].symbol, k)
       /\ Return(t)
    \/ /\ req[t].kind = "close"
       /\ \E k \in DOMAIN l.logs :
             /\ IsLatestOpen(l.logs, req[t].symbol, k)
             /\ payload' = [payload EXCEPT ![t] = WithClosed(l, k)]
       /\ pc' = [pc EXCEPT ![t] = "acquire"]
       /\ UNCHANGED req
    \/ /\ req[t].kind = "append"
       /\ payload' = [payload EXCEPT ![t] = WithAppended(l, req[t].trade, req[t].symbol)]
       /\ pc' = [pc EXCEPT ![t] = "acquire"]
       /\ UNCHANGED req
    \/ /\ req[t].kind = "persist"
       /\ payload' = [payload EXCEPT ![t] = WithBook(l, req[t].book)]
       /\ pc' = [pc EXCEPT ![t] = "acquire"]
       /\ UNCHANGED req
-----------------------------------------------------------------------------
(***************************************************************************)
(* load(): no lock is taken.  Between exists() and the opening of the file *)
(* nothing can remove the name: only renames touch it.                     *)
(***************************************************************************)

LoadMissing(t) ==
    /\ pc[t] = "load"
    /\ path = NoInode
    /\ Edit(t, EmptyLedger)
    /\ UNCHANGED <<disk, path, tmp, lock, fd, issued, acked>>

LoadOpen(t) ==
    /\ pc[t] = "load"
    /\ path # NoInode
    /\ fd' = [fd EXCEPT ![t] = path]
    /\ pc' = [pc EXCEPT ![t] = "read"]
    /\ UNCHANGED <<disk, path, tmp, lock, req, payload, issued, acked>>

\* JSONDecodeError, for a file being rewritten, yields the stand-in ledger.
LoadRead(t) ==
    /\ pc[t] = "read"
    /\ Edit(t, IF disk[fd[t]].state = "whole" THEN disk[fd[t]].ledger ELSE CorruptedLedger)
    /\ fd' = [fd EXCEPT ![t] = NoInode]
    /\ UNCHANGED <<disk, path, tmp, lock, issued, acked>>
-----------------------------------------------------------------------------
(***************************************************************************)
(* save(): lock, write the temporary file, rename it.                      *)
(***************************************************************************)

\* Mutated form of Acquire: the `with self._lock` is forgotten.
AcquireUnlocked(t) ==
    /\ pc[t] = "acquire"
    /\ pc' = [pc EXCEPT ![t] = "open"]
    /\ UNCHANGED <<disk, path, tmp, lock, fd, req, payload, issued, acked>>

Acquire(t) ==
    /\ pc[t] = "acquire"
    /\ lock[StoreOf[t]] = NoThread
    /\ lock' = [lock EXCEPT ![StoreOf[t]] = t]
    /\ pc' = [pc EXCEPT ![t] = "open"]
    /\ UNCHANGED <<disk, path, tmp, fd, req, payload, issued, acked>>

\* Files no name and no descriptor refers to.
FreeInode == Inode \ ({path, tmp} \cup {fd[u] : u \in Thread})

\* Free inodes are interchangeable: the file system may as well take this one.
NewInode == CHOOSE i \in FreeInode : TRUE

\* Mutated form of OpenTmp: the ledger is rewritten in place.
OpenInPlace(t) ==
    /\ pc[t] = "open"
    /\ \E i \in Inode :
          /\ IF path # NoInode THEN i = path ELSE i \in FreeInode
          /\ tmp' = i
          /\ disk' = [disk EXCEPT ![i] = EmptyFile]
          /\ fd' = [fd EXCEPT ![t] = i]
    /\ pc' = [pc EXCEPT ![t] = "write"]
    /\ UNCHANGED <<path, lock, req, payload, issued, acked>>

\* write_text opens in mode "w": it truncates the file or creates it.
OpenTmp(t) ==
    /\ pc[t] = "open"
    /\ \E i \in Inode :
          /\ IF tmp # NoInode THEN i = tmp ELSE i \in FreeInode /\ i = NewInode
          /\ tmp' = i
          /\ disk' = [disk EXCEPT ![i] = EmptyFile]
          /\ fd' = [fd EXCEPT ![t] = i]
    /\ pc' = [pc EXCEPT ![t] = "write"]
    /\ UNCHANGED <<path, lock, req, payload, issued, acked>>

\* Text written over another writer's text is whole only when it is at least
\* as long.
WriteTmp(t) ==
    /\ pc[t] = "write"
    /\ \/ disk' = [disk EXCEPT ![fd[t]] = WholeFile(payload[t])]
       \/ /\ disk[fd[t]].state # "empty"
          /\ disk' = [disk EXCEPT ![fd[t]] = TornFile]
    /\ fd' = [fd EXCEPT ![t] = NoInode]
    /\ pc' = [pc EXCEPT ![t] = "replace"]
    /\ UNCHANGED <<path, tmp, lock, req, payload, issued, acked>>

\* Mutated form of ReplaceTmp: the failing save keeps its lock.
ReplaceTmpHeld(t) ==
    /\ pc[t] = "replace"
    /\ path' = IF tmp = NoInode THEN path ELSE tmp
    /\ tmp' = NoInode
    /\ lock' = IF tmp = NoInode THEN lock ELSE [lock EXCEPT ![StoreOf[t]] = NoThread]
    /\ acked' = IF tmp # NoInode /\ req[t].kind = "append" THEN acked \cup {req[t].trade} ELSE acked
    /\ Return(t)
    /\ UNCHANGED <<disk, fd, issued>>

\* os.replace, then the end of the `with` block, which frees the lock in any
\* case, and the return.  When the temporary name is gone nothing is renamed
\* and the FileNotFoundError reaches the caller, which does not retry.
ReplaceTmp(t) ==
    /\ pc[t] = "replace"
    /\ path' = IF tmp = NoInode THEN path ELSE tmp
    /\ tmp' = NoInode
    /\ lock' = [lock EXCEPT ![StoreOf[t]] = NoThread]
    /\ acked' = IF tmp # NoInode /\ req[t].kind = "append" THEN acked \cup {req[t].trade} ELSE acked
    /\ Return(t)
    /\ UNCHANGED <<disk, fd, issued>>

\* The process dies at any point and is started again; the files stay.
Crash ==
    /\ \E t \in Thread : pc[t] # "idle"
    /\ lock' = [s \in Store |-> NoThread]
    /\ pc' = [t \in Thread |-> "idle"]
    /\ fd' = [t \in Thread |-> NoInode]
    /\ req' = [t \in Thread |-> NoRequest]
    /\ payload' = [t \in Thread |-> EmptyLedger]
    /\ UNCHANGED <<disk, path, tmp, issued, acked>>

LoadStep(t) == LoadMissing(t) \/ LoadOpen(t) \/ LoadRead(t)

SaveStep(t) == OpenTmp(t) \/ WriteTmp(t) \/ ReplaceTmp(t)

ThreadStep(t) ==
    \/ \E r \in Request : Call(t, r)
    \/ LoadStep(t)
    \/ Acquire(t)
    \/ SaveStep(t)

Next == (\E t \in Thread : ThreadStep(t)) \/ Crash

Spec == Init /\ [][Next]_vars

\* A thread that is inside the `with` block keeps running: nothing in it waits.
FairSpec == Spec /\ \A t \in Thread : WF_vars(SaveStep(t))

\* The process as long as it does not die.
RunningSpec == Init /\ [][\E t \in Thread : ThreadStep(t)]_vars
-----------------------------------------------------------------------------
(***************************************************************************)
(* Properties.                                                             *)
(***************************************************************************)

\* ledger.json, once it exists, always holds one complete payload, whenever a
\* reader opens it or the process dies.  It is what the temporary file, the
\* rename and the lock of save() are there for.
PathHoldsWholeLedger == path # NoInode => disk[path].state = "whole"

\* A thread that has opened ledger.json reads a complete payload, however the
\* file is rewritten meanwhile: load() never falls back to the stand-in ledger
\* whose trade_logs are empty.
ReadersSeeWholeLedgers == \A t \in Thread : pc[t] = "read" => disk[fd[t]].state = "whole"

\* No save() loses its temporary file to another one: os.replace always has
\* it, and the FileNotFoundError that would drop a broker update never comes.
SavesNeverRaise == \A t \in Thread : pc[t] = "replace" => tmp # NoInode

\* When no operation is under way the file is complete.  It is weaker than
\* PathHoldsWholeLedger: it allows a reader to catch a rewrite in the middle.
SettledFileIsWhole ==
    (\A t \in Thread : pc[t] = "idle") => PathHoldsWholeLedger

\* The ledger a load() that starts now would find.
FileLedger == IF path = NoInode THEN EmptyLedger ELSE disk[path].ledger

\* Every save lets go of its lock, the one that fails in os.replace included:
\* a failed save never blocks the next ones.
LockReleased ==
    \A s \in Store : lock[s] # NoThread ~> lock[s] = NoThread

\* One thread at a time drives the store as the atomic ledger its callers
\* rely on: each operation takes effect at its rename, or not at all.
Atomic == INSTANCE AtomicLedger WITH ledger <- FileLedger

ImplementsAtomicLedger == Atomic!Spec
-----------------------------------------------------------------------------
(***************************************************************************)
(* Inductive strengthenings, for LedgerStoreProofs.                        *)
(***************************************************************************)

\* A busy thread has a request, one that reads or writes an open file.
ThreadsReady ==
    \A t \in Thread :
        /\ pc[t] # "idle" => req[t] \in Request
        /\ pc[t] \in {"read", "write"} => fd[t] \in Inode

\* Only the owner of the lock is inside save().
LockGuardsSave ==
    \A t \in Thread : pc[t] \in InSave => lock[StoreOf[t]] = t

\* The two names never denote one file.
NamesApart == tmp # NoInode => tmp # path

\* The file a reader has open is not the one a writer works on.
ReadersApart == \A t \in Thread : pc[t] = "read" => fd[t] # tmp

\* The temporary file belongs to the thread inside save().
TmpProgress ==
    \A t \in Thread :
        /\ pc[t] = "write" => tmp = fd[t] /\ disk[tmp].state = "empty"
        /\ pc[t] = "replace" => tmp # NoInode /\ disk[tmp].state = "whole"

FileInv ==
    /\ TypeOK
    /\ ThreadsReady
    /\ LockGuardsSave
    /\ NamesApart
    /\ PathHoldsWholeLedger
    /\ ReadersApart
    /\ ReadersSeeWholeLedgers
    /\ SavesNeverRaise
    /\ TmpProgress

\* payload[t] is what the request of t makes of the ledger now on file.
EditsFileLedger(t) ==
    \/ /\ req[t].kind = "persist"
       /\ payload[t] = WithBook(FileLedger, req[t].book)
    \/ /\ req[t].kind = "append"
       /\ payload[t] = WithAppended(FileLedger, req[t].trade, req[t].symbol)
    \/ /\ req[t].kind = "close"
       /\ \E k \in DOMAIN FileLedger.logs :
             /\ IsLatestOpen(FileLedger.logs, req[t].symbol, k)
             /\ payload[t] = WithClosed(FileLedger, k)

\* Every log whose append has returned is on file: so with one thread, and with
\* several only while none overruns another (LedgerOverlap).
AckedTradesOnFile == acked \subseteq TradesIn(FileLedger.logs)

\* With one thread the file does not move between the load and the save.
SerialInv ==
    /\ TradesIn(FileLedger.logs) \subseteq issued
    /\ AckedTradesOnFile
    /\ \A t \in Thread :
        /\ pc[t] = "read" => fd[t] = path
        /\ pc[t] \in {"acquire"} \cup InSave => EditsFileLedger(t)
        /\ pc[t] = "replace" => disk[tmp] = WholeFile(payload[t])
        /\ pc[t] # "idle" /\ req[t].kind = "append"
              => req[t].trade \in issued \ TradesIn(FileLedger.logs)
=============================================================================
