------------------------- MODULE LedgerStoreProofs --------------------------
(***************************************************************************)
(* Theorems about LedgerStore for every set of threads, stores and trades, *)
(* and about LiveTradeSync, whose every step is made of LedgerStore's.     *)
(*                                                                         *)
(* Type correctness holds whatever the stores are.  The safety of the file *)
(* is proved under OneStore: all threads save through the same object, as  *)
(* the lock inside save() presumes.  That an order is logged once is       *)
(* proved for the two locks the code has, one thread behind each.          *)
(***************************************************************************)
EXTENDS LiveTradeSync, LedgerOverlap, FiniteSetTheorems, TLAPS

\* Every thread goes through one LedgerStore object, hence one lock.
OneStore == \A t, u \in Thread : StoreOf[t] = StoreOf[u]
-----------------------------------------------------------------------------
(***************************************************************************)
(* What the payload operators return.                                      *)
(***************************************************************************)

\* The two ledgers that no caller built are ledgers.
LEMMA StandInLedgers == EmptyLedger \in Ledger /\ CorruptedLedger \in Ledger
  BY BookAssumption DEF EmptyLedger, CorruptedLedger, Ledger

\* Replacing the book of a ledger gives a ledger (PaperBroker._persist_state).
LEMMA WithBookType ==
    ASSUME NEW l \in Ledger, NEW b \in Book
    PROVE  WithBook(l, b) \in Ledger
  BY DEF WithBook, Ledger

\* Appending a trade log to a ledger gives a ledger (append_trade_log_entry).
LEMMA WithAppendedType ==
    ASSUME NEW l \in Ledger, NEW tr \in Trade, NEW s \in Symbol
    PROVE  WithAppended(l, tr, s) \in Ledger
  <1>1. [trade |-> tr, symbol |-> s, open |-> TRUE] \in Entry
    BY DEF Entry
  <1>2. l.logs \in Seq(Entry)
    BY DEF Ledger
  <1>3. Append(l.logs, [trade |-> tr, symbol |-> s, open |-> TRUE]) \in Seq(Entry)
    BY <1>1, <1>2
  <1>4. QED
    BY <1>3 DEF WithAppended, Ledger

\* Closing an entry of a ledger gives a ledger (update_latest_open_trade_log).
LEMMA WithClosedType ==
    ASSUME NEW l \in Ledger, NEW k \in DOMAIN l.logs
    PROVE  WithClosed(l, k) \in Ledger
  <1>1. l.logs \in Seq(Entry)
    BY DEF Ledger
  <1>2. l.logs[k] \in Entry
    BY <1>1
  <1>3. [l.logs[k] EXCEPT !.open = FALSE] \in Entry
    BY <1>2 DEF Entry
  <1>4. [l.logs EXCEPT ![k] = [l.logs[k] EXCEPT !.open = FALSE]] \in Seq(Entry)
    BY <1>1, <1>3
  <1>5. WithClosed(l, k) = [l EXCEPT !.logs = [l.logs EXCEPT ![k] = [l.logs[k] EXCEPT !.open = FALSE]]]
    BY DEF WithClosed, Ledger
  <1>6. QED
    BY <1>4, <1>5 DEF Ledger
-----------------------------------------------------------------------------
(***************************************************************************)
(* Type correctness.                                                       *)
(***************************************************************************)

\* Whatever ledger it is given, Edit leaves the thread's variables typed.
LEMMA EditType ==
    ASSUME TypeOK, NEW t \in Thread, NEW l \in Ledger, req[t] \in Request, Edit(t, l)
    PROVE  /\ pc' \in [Thread -> PC]
           /\ req' \in [Thread -> Request \cup {NoRequest}]
           /\ payload' \in [Thread -> Ledger]
  <1> USE DEF TypeOK, PC
  <1>1. CASE Return(t)
    BY <1>1, StandInLedgers DEF Return
  <1>2. CASE /\ req[t].kind = "close"
             /\ \E k \in DOMAIN l.logs : payload' = [payload EXCEPT ![t] = WithClosed(l, k)]
             /\ pc' = [pc EXCEPT ![t] = "acquire"]
             /\ UNCHANGED req
    BY <1>2, WithClosedType
  <1>3. CASE /\ req[t].kind = "append"
             /\ payload' = [payload EXCEPT ![t] = WithAppended(l, req[t].trade, req[t].symbol)]
             /\ pc' = [pc EXCEPT ![t] = "acquire"]
             /\ UNCHANGED req
    <2>1. req[t].trade \in Trade /\ req[t].symbol \in Symbol
      BY <1>3 DEF Request
    <2>2. QED
      BY <1>3, <2>1, WithAppendedType
  <1>4. CASE /\ req[t].kind = "persist"
             /\ payload' = [payload EXCEPT ![t] = WithBook(l, req[t].book)]
             /\ pc' = [pc EXCEPT ![t] = "acquire"]
             /\ UNCHANGED req
    <2>1. req[t].book \in Book
      BY <1>4 DEF Request
    <2>2. QED
      BY <1>4, <2>1, WithBookType
  <1>5. QED
    BY <1>1, <1>2, <1>3, <1>4 DEF Edit

\* Edit keeps a thread that goes on working supplied with its request.
LEMMA EditReady ==
    ASSUME TypeOK, NEW t \in Thread, NEW l \in Ledger, req[t] \in Request, Edit(t, l)
    PROVE  /\ pc'[t] \in {"idle", "acquire"}
           /\ pc'[t] # "idle" => req'[t] = req[t]
           /\ \A u \in Thread \ {t} : pc'[u] = pc[u] /\ req'[u] = req[u]
  BY DEF Edit, Return, TypeOK

TypeInv == TypeOK /\ ThreadsReady

\* Every step of the store keeps its variables typed.
LEMMA TypeInvStep == TypeInv /\ [Next]_vars => TypeInv'
  <1> SUFFICES ASSUME TypeOK, ThreadsReady, [Next]_vars
               PROVE  TypeOK' /\ ThreadsReady'
    BY DEF TypeInv
  <1> USE DEF ThreadsReady
  <1>1. ASSUME NEW t \in Thread, NEW r \in Request, Call(t, r)
        PROVE  TypeOK' /\ ThreadsReady'
    BY <1>1 DEF Call, Enter, TypeOK, PC, Request
  <1>2. ASSUME NEW t \in Thread, LoadMissing(t)
        PROVE  TypeOK' /\ ThreadsReady'
    <2>1. req[t] \in Request /\ Edit(t, EmptyLedger)
      BY <1>2 DEF LoadMissing
    <2>2. QED
      BY <1>2, <2>1, StandInLedgers, EditType, EditReady DEF LoadMissing, TypeOK
  <1>3. ASSUME NEW t \in Thread, LoadOpen(t)
        PROVE  TypeOK' /\ ThreadsReady'
    BY <1>3 DEF LoadOpen, TypeOK, PC
  <1>4. ASSUME NEW t \in Thread, LoadRead(t)
        PROVE  TypeOK' /\ ThreadsReady'
    <2> DEFINE l == IF disk[fd[t]].state = "whole" THEN disk[fd[t]].ledger ELSE CorruptedLedger
    <2>1. req[t] \in Request /\ fd[t] \in Inode /\ Edit(t, l)
      BY <1>4 DEF LoadRead
    <2>2. l \in Ledger
      BY <2>1, StandInLedgers DEF TypeOK, Content
    <2>3. /\ pc' \in [Thread -> PC]
          /\ req' \in [Thread -> Request \cup {NoRequest}]
          /\ payload' \in [Thread -> Ledger]
      BY <2>1, <2>2, EditType
    <2>4. /\ pc'[t] \in {"idle", "acquire"}
          /\ pc'[t] # "idle" => req'[t] = req[t]
          /\ \A u \in Thread \ {t} : pc'[u] = pc[u] /\ req'[u] = req[u]
      BY <2>1, <2>2, EditReady
    <2>5. QED
      BY <1>4, <2>1, <2>3, <2>4 DEF LoadRead, TypeOK
  <1>5. ASSUME NEW t \in Thread, Acquire(t)
        PROVE  TypeOK' /\ ThreadsReady'
    BY <1>5, StoreAssumption DEF Acquire, TypeOK, PC, InSave
  <1>6. ASSUME NEW t \in Thread, OpenTmp(t)
        PROVE  TypeOK' /\ ThreadsReady'
    <2>1. EmptyFile \in Content
      BY StandInLedgers DEF EmptyFile, Content
    <2>2. QED
      BY <1>6, <2>1 DEF OpenTmp, TypeOK, PC, InSave
  <1>7. ASSUME NEW t \in Thread, WriteTmp(t)
        PROVE  TypeOK' /\ ThreadsReady'
    <2>1. TornFile \in Content /\ WholeFile(payload[t]) \in Content
      BY StandInLedgers DEF TornFile, WholeFile, Content, TypeOK
    <2>2. QED
      BY <1>7, <2>1 DEF WriteTmp, TypeOK, PC, InSave
  <1>8. ASSUME NEW t \in Thread, ReplaceTmp(t)
        PROVE  TypeOK' /\ ThreadsReady'
    <2>1. req[t].kind = "append" => req[t].trade \in Trade
      BY <1>8 DEF ReplaceTmp, Request
    <2>2. QED
      BY <1>8, <2>1, StandInLedgers, StoreAssumption DEF ReplaceTmp, Return, TypeOK, PC
  <1>9. CASE Crash
    BY <1>9, StandInLedgers DEF Crash, TypeOK, PC
  <1>10. CASE UNCHANGED vars
    BY <1>10 DEF vars, TypeOK
  <1>11. QED
    BY <1>1, <1>2, <1>3, <1>4, <1>5, <1>6, <1>7, <1>8, <1>9, <1>10
       DEF Next, ThreadStep, LoadStep, SaveStep

\* The variables of the store are well typed in every state, for any
\* assignment of threads to stores.
THEOREM LedgerStoreTyped == Spec => []TypeOK
  <1>1. Init => TypeInv
    BY StandInLedgers DEF Init, TypeInv, TypeOK, ThreadsReady, PC, EmptyFile, Content
  <1>2. QED
    BY <1>1, TypeInvStep, PTL DEF Spec, TypeInv
-----------------------------------------------------------------------------
(***************************************************************************)
(* The file is never torn when all threads share one store.                *)
(***************************************************************************)

\* With one lock, two threads are never inside save() together.
LEMMA SavesExclude ==
    ASSUME OneStore, TypeOK, LockGuardsSave,
           NEW t \in Thread, NEW u \in Thread, pc[t] \in InSave, pc[u] \in InSave
    PROVE  t = u
  BY DEF OneStore, LockGuardsSave

\* Steps that only move one thread, and touch no file, keep the invariant.
LEMMA FileInvLoadStep ==
    ASSUME FileInv, TypeInv', NEW t \in Thread, LoadStep(t)
    PROVE  FileInv'
  <1> USE DEF FileInv, LockGuardsSave, NamesApart, PathHoldsWholeLedger,
              ReadersApart, ReadersSeeWholeLedgers, SavesNeverRaise, TmpProgress
  <1>1. TypeOK' /\ ThreadsReady'
    BY DEF TypeInv
  <1>2. CASE LoadOpen(t)
    BY <1>1, <1>2 DEF LoadOpen, TypeOK, InSave
  <1>3. CASE LoadMissing(t)
    <2>1. /\ pc'[t] \in {"idle", "acquire"}
          /\ \A u \in Thread \ {t} : pc'[u] = pc[u]
      BY <1>3, StandInLedgers, EditReady DEF LoadMissing, ThreadsReady
    <2>2. QED
      BY <1>1, <1>3, <2>1 DEF LoadMissing, TypeOK, InSave
  <1>4. CASE LoadRead(t)
    <2>1. disk[fd[t]].ledger \in Ledger
      BY <1>4 DEF LoadRead, ThreadsReady, TypeOK, Content
    <2>2. /\ pc'[t] \in {"idle", "acquire"}
          /\ \A u \in Thread \ {t} : pc'[u] = pc[u]
      BY <1>4, <2>1, EditReady DEF LoadRead, ThreadsReady
    <2>3. QED
      BY <1>1, <1>4, <2>2 DEF LoadRead, TypeOK, InSave
  <1>5. QED
    BY <1>2, <1>3, <1>4 DEF LoadStep

\* Each step of save() keeps the invariant, given that saves exclude.
LEMMA FileInvSaveStep ==
    ASSUME OneStore, FileInv, TypeInv', NEW t \in Thread, SaveStep(t)
    PROVE  FileInv'
  <1> USE DEF FileInv, LockGuardsSave, NamesApart, PathHoldsWholeLedger,
              ReadersApart, ReadersSeeWholeLedgers, SavesNeverRaise, TmpProgress
  <1>1. TypeOK' /\ ThreadsReady'
    BY DEF TypeInv
  <1>2. pc[t] \in InSave
    BY DEF SaveStep, OpenTmp, WriteTmp, ReplaceTmp, InSave
  <1>3. \A u \in Thread \ {t} : pc[u] \notin InSave
    BY <1>2, SavesExclude
  <1>4. CASE OpenTmp(t)
    <2>1. PICK i \in Inode :
             /\ IF tmp # NoInode THEN i = tmp ELSE i \in FreeInode
             /\ tmp' = i
             /\ disk' = [disk EXCEPT ![i] = EmptyFile]
             /\ fd' = [fd EXCEPT ![t] = i]
      BY <1>4 DEF OpenTmp
    <2>2. i # path
      BY <2>1 DEF FreeInode
    <2>3. \A u \in Thread : pc[u] = "read" => fd[u] # i
      BY <2>1 DEF FreeInode
    <2>4. i # NoInode
      BY StoreAssumption
    <2>5. pc' = [pc EXCEPT ![t] = "write"] /\ UNCHANGED <<path, lock>>
      BY <1>4 DEF OpenTmp
    <2>6. QED
      BY <1>1, <1>2, <1>3, <2>1, <2>2, <2>3, <2>4, <2>5 DEF TypeOK, InSave, EmptyFile
  <1>5. CASE WriteTmp(t)
    <2>1. disk' = [disk EXCEPT ![tmp] = WholeFile(payload[t])]
      BY <1>5 DEF WriteTmp
    <2>2. pc' = [pc EXCEPT ![t] = "replace"] /\ fd' = [fd EXCEPT ![t] = NoInode]
          /\ UNCHANGED <<path, tmp, lock>> /\ pc[t] = "write"
      BY <1>5 DEF WriteTmp
    <2>3. tmp \in Inode /\ tmp # NoInode
      BY <2>2, StoreAssumption DEF ThreadsReady
    <2>4. QED
      BY <1>1, <1>2, <1>3, <2>1, <2>2, <2>3 DEF TypeOK, InSave, WholeFile
  <1>6. CASE ReplaceTmp(t)
    <2>1. \A u \in Thread : pc'[u] \in InSave \cup {"read"} => pc'[u] = pc[u] /\ u # t
      BY <1>6 DEF ReplaceTmp, Return, TypeOK, InSave
    <2>2. \A u \in Thread : pc'[u] \notin InSave
      BY <1>3, <2>1
    <2>3. \A u \in Thread : pc'[u] = "read" => pc[u] = "read" /\ fd[u] \in Inode
      BY <2>1 DEF ThreadsReady
    <2>4. path' = tmp /\ tmp' = NoInode /\ disk[tmp].state = "whole" /\ UNCHANGED <<disk, fd>>
      BY <1>6 DEF ReplaceTmp
    <2>5. QED
      BY <1>1, <2>2, <2>3, <2>4, StoreAssumption DEF InSave
  <1>7. QED
    BY <1>4, <1>5, <1>6 DEF SaveStep

\* Every step of the system keeps the invariant.
LEMMA FileInvStep ==
    ASSUME OneStore
    PROVE  FileInv /\ [Next]_vars => FileInv'
  <1> SUFFICES ASSUME FileInv, [Next]_vars
               PROVE  FileInv'
    OBVIOUS
  <1>1. TypeInv'
    BY TypeInvStep DEF FileInv, TypeInv
  <1>2. TypeOK' /\ ThreadsReady'
    BY <1>1 DEF TypeInv
  <1> USE DEF FileInv, LockGuardsSave, NamesApart, PathHoldsWholeLedger,
              ReadersApart, ReadersSeeWholeLedgers, SavesNeverRaise, TmpProgress
  <1>3. ASSUME NEW t \in Thread, NEW r \in Request, Call(t, r)
        PROVE  FileInv'
    BY <1>2, <1>3 DEF Call, Enter, TypeOK, InSave
  <1>4. ASSUME NEW t \in Thread, Acquire(t)
        PROVE  FileInv'
    <2>1. \A u \in Thread : pc[u] \notin InSave
      BY <1>4, StoreAssumption DEF OneStore, Acquire
    <2>2. QED
      BY <1>2, <1>4, <2>1, StoreAssumption DEF Acquire, TypeOK, InSave
  <1>5. CASE Crash
    BY <1>2, <1>5 DEF Crash, InSave
  <1>6. CASE UNCHANGED vars
    BY <1>2, <1>6 DEF vars
  <1>7. QED
    BY <1>1, <1>3, <1>4, <1>5, <1>6, FileInvLoadStep, FileInvSaveStep
       DEF Next, ThreadStep

\* The invariant holds before the first call: there is no file yet.
LEMMA FileInvInit == Init => FileInv
  BY StandInLedgers DEF Init, FileInv, TypeOK, ThreadsReady, LockGuardsSave,
     NamesApart, PathHoldsWholeLedger, ReadersApart, ReadersSeeWholeLedgers, SavesNeverRaise,
     TmpProgress, PC, InSave, EmptyFile, Content

\* With one store, ledger.json is a complete payload in every state, crashes
\* included: the temporary file, the rename and the lock do their work.
THEOREM LedgerNeverTorn == ASSUME OneStore PROVE Spec => []PathHoldsWholeLedger
  <1>1. FileInv /\ [Next]_vars => FileInv'
    BY FileInvStep
  <1>2. QED
    BY <1>1, FileInvInit, PTL DEF Spec, FileInv

\* With one store, every load() reads a complete payload, although it takes no
\* lock: it never mistakes a rewrite in progress for a corrupt ledger.
THEOREM LoadsSeeWholeLedgers == ASSUME OneStore PROVE Spec => []ReadersSeeWholeLedgers
  <1>1. FileInv /\ [Next]_vars => FileInv'
    BY FileInvStep
  <1>2. QED
    BY <1>1, FileInvInit, PTL DEF Spec, FileInv

\* With one store, no save() finds its temporary file renamed away by another.
THEOREM RenamesFindTheirFile == ASSUME OneStore PROVE Spec => []SavesNeverRaise
  <1>1. FileInv /\ [Next]_vars => FileInv'
    BY FileInvStep
  <1>2. QED
    BY <1>1, FileInvInit, PTL DEF Spec, FileInv
-----------------------------------------------------------------------------
(***************************************************************************)
(* What the operations do to the recorded trades.                          *)
(***************************************************************************)

\* Appending a trade log adds its trade to the recorded ones.
LEMMA TradesInAppended ==
    ASSUME NEW l \in Ledger, NEW tr \in Trade, NEW s \in Symbol
    PROVE  TradesIn(WithAppended(l, tr, s).logs) = TradesIn(l.logs) \cup {tr}
  <1> DEFINE e == [trade |-> tr, symbol |-> s, open |-> TRUE]
             new == Append(l.logs, e)
  <1>1. WithAppended(l, tr, s).logs = new
    BY DEF WithAppended, Ledger
  <1>2. l.logs \in Seq(Entry) /\ Len(l.logs) \in Nat
    BY DEF Ledger
  <1>3. /\ DOMAIN new = 1..(Len(l.logs) + 1)
        /\ new[Len(l.logs) + 1] = e
        /\ \A i \in 1..Len(l.logs) : new[i] = l.logs[i]
    BY <1>2
  <1>4. DOMAIN l.logs = 1..Len(l.logs)
    BY <1>2
  <1>5. ASSUME NEW x \in TradesIn(new)
        PROVE  x \in TradesIn(l.logs) \cup {tr}
    <2>1. PICK i \in DOMAIN new : x = new[i].trade
      BY DEF TradesIn
    <2>2. CASE i = Len(l.logs) + 1
      BY <1>3, <2>1, <2>2
    <2>3. CASE i \in 1..Len(l.logs)
      BY <1>3, <1>4, <2>1, <2>3 DEF TradesIn
    <2>4. QED
      BY <1>2, <1>3, <2>2, <2>3
  <1>6. ASSUME NEW x \in TradesIn(l.logs) \cup {tr}
        PROVE  x \in TradesIn(new)
    <2>1. CASE x = tr
      <3>1. Len(l.logs) + 1 \in DOMAIN new /\ new[Len(l.logs) + 1].trade = x
        BY <1>2, <1>3, <2>1
      <3>2. QED
        BY <3>1 DEF TradesIn
    <2>2. CASE x \in TradesIn(l.logs)
      <3>1. PICK i \in DOMAIN l.logs : x = l.logs[i].trade
        BY <2>2 DEF TradesIn
      <3>2. i \in DOMAIN new /\ new[i].trade = x
        BY <1>2, <1>3, <1>4, <3>1
      <3>3. QED
        BY <3>2 DEF TradesIn
    <2>3. QED
      BY <2>1, <2>2
  <1>7. QED
    BY <1>1, <1>5, <1>6

\* Closing a trade log leaves the recorded trades as they are.
LEMMA TradesInClosed ==
    ASSUME NEW l \in Ledger, NEW k \in DOMAIN l.logs
    PROVE  TradesIn(WithClosed(l, k).logs) = TradesIn(l.logs)
  <1> DEFINE new == [l.logs EXCEPT ![k] = [l.logs[k] EXCEPT !.open = FALSE]]
  <1>1. WithClosed(l, k).logs = new
    BY DEF WithClosed, Ledger
  <1>2. l.logs \in Seq(Entry)
    BY DEF Ledger
  <1>3. \A i \in DOMAIN l.logs : l.logs[i] \in Entry
    BY <1>2
  <1>4. DOMAIN new = DOMAIN l.logs
    OBVIOUS
  <1>5. \A i \in DOMAIN l.logs : new[i].trade = l.logs[i].trade
    BY <1>3 DEF Entry
  <1>6. QED
    BY <1>1, <1>4, <1>5 DEF TradesIn

\* Replacing the book leaves the recorded trades as they are (_persist_state).
LEMMA TradesInWithBook ==
    ASSUME NEW l \in Ledger, NEW b \in Book
    PROVE  WithBook(l, b).logs = l.logs
  BY DEF WithBook, Ledger
-----------------------------------------------------------------------------
(***************************************************************************)
(* Only a rename changes the ledger on file.                               *)
(***************************************************************************)

\* What a load() would find is a ledger.
LEMMA FileLedgerType == TypeOK => FileLedger \in Ledger
  BY StandInLedgers DEF TypeOK, FileLedger, Content

\* Steps that leave the name and the contents of the other files alone leave
\* the ledger on file alone.
LEMMA FileLedgerUnchanged ==
    ASSUME FileInv, NEW t \in Thread,
           \/ \E r \in Request : Call(t, r)
           \/ LoadStep(t)
           \/ Acquire(t)
           \/ OpenTmp(t)
           \/ WriteTmp(t)
           \/ Crash
           \/ UNCHANGED vars
    PROVE  UNCHANGED FileLedger
  <1>1. CASE OpenTmp(t)
    <2>1. PICK i \in Inode :
             /\ IF tmp # NoInode THEN i = tmp ELSE i \in FreeInode
             /\ disk' = [disk EXCEPT ![i] = EmptyFile]
      BY <1>1 DEF OpenTmp
    <2>2. i # path
      BY <2>1 DEF FreeInode, FileInv, NamesApart
    <2>3. QED
      BY <1>1, <2>1, <2>2 DEF OpenTmp, FileLedger, FileInv, TypeOK
  <1>2. CASE WriteTmp(t)
    <2>1. tmp = fd[t] /\ fd[t] \in Inode
      BY <1>2 DEF WriteTmp, FileInv, TmpProgress, ThreadsReady
    <2>2. fd[t] # path
      BY <2>1, StoreAssumption DEF FileInv, NamesApart
    <2>3. path # NoInode => disk'[path] = disk[path]
      BY <1>2, <2>2 DEF WriteTmp, FileInv, TypeOK
    <2>4. QED
      BY <1>2, <2>3 DEF WriteTmp, FileLedger
  <1>3. CASE ~ OpenTmp(t) /\ ~ WriteTmp(t)
    BY <1>3 DEF Call, Enter, LoadStep, LoadMissing, LoadOpen, LoadRead, Acquire,
         Crash, vars, FileLedger
  <1>4. QED
    BY <1>1, <1>2, <1>3

-----------------------------------------------------------------------------
(***************************************************************************)
(* What the threads of one store can lose: only a log that lands while     *)
(* another operation is between its load and its rename.                   *)
(***************************************************************************)

\* Whatever an operation does to the ledger it has loaded, the trades stay in
\* it, and the trade of an append is added.
LEMMA EditKeepsTrades ==
    ASSUME TypeOK, NEW t \in Thread, NEW l \in Ledger, req[t] \in Request, Edit(t, l),
           pc'[t] # "idle"
    PROVE  /\ req[t].kind # "load" /\ req'[t] = req[t]
           /\ TradesIn(l.logs) \subseteq TradesIn(payload'[t].logs)
           /\ req[t].kind = "append" => req[t].trade \in TradesIn(payload'[t].logs)
  <1>1. CASE Return(t)
    BY <1>1 DEF Return, TypeOK
  <1>2. CASE /\ req[t].kind = "close"
             /\ \E k \in DOMAIN l.logs : payload' = [payload EXCEPT ![t] = WithClosed(l, k)]
             /\ UNCHANGED req
    <2>1. PICK k \in DOMAIN l.logs : payload'[t] = WithClosed(l, k)
      BY <1>2 DEF TypeOK
    <2>2. QED
      BY <1>2, <2>1, TradesInClosed
  <1>3. CASE /\ req[t].kind = "append"
             /\ payload' = [payload EXCEPT ![t] = WithAppended(l, req[t].trade, req[t].symbol)]
             /\ UNCHANGED req
    <2>1. req[t].trade \in Trade /\ req[t].symbol \in Symbol
      BY <1>3 DEF Request
    <2>2. payload'[t] = WithAppended(l, req[t].trade, req[t].symbol)
      BY <1>3 DEF TypeOK
    <2>3. TradesIn(payload'[t].logs) = TradesIn(l.logs) \cup {req[t].trade}
      <3>1. TradesIn(WithAppended(l, req[t].trade, req[t].symbol).logs)
              = TradesIn(l.logs) \cup {req[t].trade}
        BY <2>1, TradesInAppended
      <3>2. QED
        BY <2>2, <3>1
    <2>4. QED
      BY <1>3, <2>3
  <1>4. CASE /\ req[t].kind = "persist"
             /\ payload' = [payload EXCEPT ![t] = WithBook(l, req[t].book)]
             /\ UNCHANGED req
    <2>1. req[t].book \in Book
      BY <1>4 DEF Request
    <2>2. payload'[t] = WithBook(l, req[t].book)
      BY <1>4 DEF TypeOK
    <2>3. QED
      BY <1>4, <2>1, <2>2, TradesInWithBook
  <1>5. QED
    BY <1>1, <1>2, <1>3, <1>4 DEF Edit

\* The ledger that a load has opened or found missing.
LEMMA LoadKeepsTrades ==
    ASSUME FileInv, NEW t \in Thread, LoadMissing(t) \/ LoadRead(t)
    PROVE  /\ pc'[t] \in {"idle", "acquire"}
           /\ \A u \in Thread \ {t} : pc'[u] = pc[u] /\ req'[u] = req[u]
           /\ UNCHANGED <<disk, path, tmp, acked>>
           /\ pc'[t] # "idle" =>
                 /\ req[t].kind # "load" /\ req'[t] = req[t]
                 /\ req[t].kind = "append" => req[t].trade \in TradesIn(payload'[t].logs)
                 /\ IF pc[t] = "read"
                    THEN TradesIn(disk[fd[t]].ledger.logs) \subseteq TradesIn(payload'[t].logs)
                    ELSE TradesIn(FileLedger.logs) \subseteq TradesIn(payload'[t].logs)
  <1> USE DEF FileInv
  <1>1. CASE LoadMissing(t)
    <2>1. Edit(t, FileLedger) /\ req[t] \in Request /\ pc[t] = "load"
      BY <1>1 DEF LoadMissing, FileLedger, ThreadsReady
    <2>2. QED
      BY <1>1, <2>1, FileLedgerType, EditReady, EditKeepsTrades DEF LoadMissing
  <1>2. CASE LoadRead(t)
    <2>1. fd[t] \in Inode /\ disk[fd[t]].state = "whole" /\ req[t] \in Request /\ pc[t] = "read"
      BY <1>2 DEF LoadRead, ThreadsReady, ReadersSeeWholeLedgers
    <2>2. Edit(t, disk[fd[t]].ledger) /\ disk[fd[t]].ledger \in Ledger
      BY <1>2, <2>1 DEF LoadRead, TypeOK, Content
    <2>3. QED
      BY <1>2, <2>1, <2>2, EditReady, EditKeepsTrades DEF LoadRead
  <1>3. QED
    BY <1>1, <1>2

\* The invariant speaks of what each thread holds; a step of t changes what t
\* holds only.
LEMMA OverlapInvFollows ==
    ASSUME OverlapInv, acked' = acked, overrun \subseteq overrun', UNCHANGED FileLedger,
           NEW t \in Thread,
           \A u \in Thread \ {t} :
              /\ pc'[u] = pc[u] /\ req'[u] = req[u] /\ payload'[u] = payload[u]
              /\ pc[u] = "read" => disk'[fd'[u]] = disk[fd[u]]
              /\ pc[u] = "replace" => disk'[tmp'] = disk[tmp],
           pc'[t] \in {"acquire"} \cup InSave =>
              /\ req'[t].kind # "load"
              /\ req'[t].kind = "append" => req'[t].trade \in TradesIn(payload'[t].logs),
           pc'[t] = "replace" => disk'[tmp'] = WholeFile(payload'[t]),
           \A k \in acked \ overrun : HoldsCopy(t)' => k \in TradesIn(CopyOf(t)'.logs)
    PROVE  OverlapInv'
  <1>1. \A u \in Thread \ {t} : HoldsCopy(u)' => HoldsCopy(u) /\ CopyOf(u)' = CopyOf(u)
    BY DEF HoldsCopy, CopyOf
  <1>2. \A k \in acked' \ overrun' : k \in acked \ overrun
    OBVIOUS
  <1>3. \A k \in acked' \ overrun' :
           /\ k \in TradesIn(FileLedger'.logs)
           /\ \A u \in Thread : HoldsCopy(u)' => k \in TradesIn(CopyOf(u)'.logs)
    BY <1>1, <1>2 DEF OverlapInv
  <1>4. \A u \in Thread : pc'[u] \in {"acquire"} \cup InSave =>
          /\ req'[u].kind # "load"
          /\ req'[u].kind = "append" => req'[u].trade \in TradesIn(payload'[u].logs)
    BY DEF OverlapInv
  <1>5. \A u \in Thread : pc'[u] = "replace" => disk'[tmp'] = WholeFile(payload'[u])
    BY DEF OverlapInv
  <1>6. QED
    BY <1>3, <1>4, <1>5 DEF OverlapInv

\* A rename takes a trade from the file only if its thread did not hold it.
LEMMA OverlapInvReplace ==
    ASSUME OneStore, FileInv, OverlapInv, OverlapNext, NEW t \in Thread, ReplaceTmp(t)
    PROVE  OverlapInv'
  <1> USE DEF FileInv
  <1>1. /\ pc[t] = "replace" /\ path' = tmp /\ tmp # NoInode /\ tmp # path /\ disk' = disk
        /\ fd' = fd /\ pc'[t] = "idle" /\ pc[t] \in InSave
        /\ acked' = IF req[t].kind = "append" THEN acked \cup {req[t].trade} ELSE acked
    BY DEF ReplaceTmp, Return, TypeOK, SavesNeverRaise, NamesApart, InSave
  <1>2. \A u \in Thread \ {t} : pc'[u] = pc[u] /\ req'[u] = req[u] /\ payload'[u] = payload[u]
    BY DEF ReplaceTmp, Return, TypeOK
  <1>3. FileLedger' = payload[t]
    <2>1. disk[tmp] = WholeFile(payload[t])
      BY <1>1 DEF OverlapInv
    <2>2. QED
      BY <1>1, <2>1 DEF FileLedger, WholeFile
  <1>4. \A u \in Thread \ {t} : pc[u] \notin InSave
    BY <1>1, SavesExclude
  <1>5. \A u \in Thread : HoldsCopy(u)' => u # t /\ HoldsCopy(u) /\ CopyOf(u)' = CopyOf(u)
    BY <1>1, <1>2 DEF HoldsCopy, CopyOf, InSave
  <1>6. ASSUME NEW k \in acked' \ overrun'
        PROVE  /\ k \in TradesIn(FileLedger'.logs)
               /\ \A u \in Thread : HoldsCopy(u)' => k \in TradesIn(CopyOf(u)'.logs)
    <2>1. CASE k \in acked \ overrun
      <3>1. HoldsCopy(t) /\ CopyOf(t) = payload[t]
        BY <1>1 DEF HoldsCopy, CopyOf, OverlapInv
      <3>2. k \in TradesIn(payload[t].logs)
        BY <2>1, <3>1 DEF OverlapInv
      <3>3. QED
        BY <1>3, <1>5, <2>1, <3>2 DEF OverlapInv
    <2>2. CASE k \notin acked
      <3>1. req[t].kind = "append" /\ k = req[t].trade
        BY <1>1, <2>2
      <3>2. k \in TradesIn(payload[t].logs)
        BY <1>1, <3>1 DEF OverlapInv
      <3>3. \A v \in Thread \ {t} : ~ HoldsCopy(v)
        <4>1. Lands(t)
          BY <1>1, <3>1 DEF Lands
        <4>2. QED
          BY <3>1, <4>1 DEF OverlapNext
      <3>4. QED
        BY <1>3, <1>5, <3>2, <3>3
    <2>3. CASE k \in overrun
      BY <2>3 DEF OverlapNext
    <2>4. QED
      BY <2>1, <2>2, <2>3
  <1>7. \A u \in Thread : pc'[u] \in {"acquire"} \cup InSave =>
          /\ req'[u].kind # "load"
          /\ req'[u].kind = "append" => req'[u].trade \in TradesIn(payload'[u].logs)
    <2>1. pc'[t] \notin {"acquire"} \cup InSave
      BY <1>1 DEF InSave
    <2>2. QED
      BY <1>2, <2>1 DEF OverlapInv
  <1>8. \A u \in Thread : pc'[u] # "replace"
    BY <1>1, <1>2, <1>4 DEF InSave
  <1>9. QED
    BY <1>6, <1>7, <1>8 DEF OverlapInv

\* Every step keeps the invariant.
LEMMA OverlapInvStep ==
    ASSUME OneStore
    PROVE  FileInv /\ OverlapInv /\ [OverlapNext]_overlapVars => OverlapInv'
  <1> SUFFICES ASSUME FileInv, OverlapInv, [OverlapNext]_overlapVars
               PROVE  OverlapInv'
    OBVIOUS
  <1> USE DEF FileInv
  <1>1. overrun \subseteq overrun'
    BY DEF OverlapNext, overlapVars
  <1>2. ASSUME NEW t \in Thread, NEW r \in Request, Call(t, r)
        PROVE  OverlapInv'
    <2>1. UNCHANGED FileLedger
      BY <1>2, FileLedgerUnchanged
    <2>2. pc'[t] = "load" /\ ~ HoldsCopy(t)'
      BY <1>2 DEF Call, Enter, TypeOK, HoldsCopy, InSave
    <2>3. \A u \in Thread \ {t} : pc'[u] = pc[u] /\ req'[u] = req[u]
      BY <1>2 DEF Call, Enter, TypeOK
    <2>4. UNCHANGED <<disk, tmp, fd, payload, acked>>
      BY <1>2 DEF Call, Enter
    <2>5. QED
      BY <1>1, <2>1, <2>2, <2>3, <2>4, OverlapInvFollows DEF InSave
  <1>3. ASSUME NEW t \in Thread, LoadOpen(t)
        PROVE  OverlapInv'
    <2>1. UNCHANGED FileLedger
      BY <1>3, FileLedgerUnchanged DEF LoadStep
    <2>2. pc'[t] = "read" /\ CopyOf(t)' = FileLedger
      BY <1>3 DEF LoadOpen, TypeOK, CopyOf, FileLedger
    <2>3. \A u \in Thread \ {t} : pc'[u] = pc[u] /\ fd'[u] = fd[u]
      BY <1>3 DEF LoadOpen, TypeOK
    <2>4. UNCHANGED <<disk, tmp, req, payload, acked>>
      BY <1>3 DEF LoadOpen
    <2>5. \A k \in acked \ overrun : HoldsCopy(t)' => k \in TradesIn(CopyOf(t)'.logs)
      BY <2>2 DEF OverlapInv
    <2>6. QED
      BY <1>1, <2>1, <2>2, <2>3, <2>4, <2>5, OverlapInvFollows DEF InSave
  <1>4. ASSUME NEW t \in Thread, LoadMissing(t) \/ LoadRead(t)
        PROVE  OverlapInv'
    <2>1. UNCHANGED FileLedger
      BY <1>4, FileLedgerUnchanged DEF LoadStep
    <2>2. /\ pc'[t] \in {"idle", "acquire"}
          /\ \A u \in Thread \ {t} : pc'[u] = pc[u] /\ req'[u] = req[u]
          /\ UNCHANGED <<disk, path, tmp, acked>>
          /\ pc'[t] # "idle" =>
                /\ req[t].kind # "load" /\ req'[t] = req[t]
                /\ req[t].kind = "append" => req[t].trade \in TradesIn(payload'[t].logs)
                /\ IF pc[t] = "read"
                   THEN TradesIn(disk[fd[t]].ledger.logs) \subseteq TradesIn(payload'[t].logs)
                   ELSE TradesIn(FileLedger.logs) \subseteq TradesIn(payload'[t].logs)
      BY <1>4, LoadKeepsTrades
    <2>3. \A u \in Thread \ {t} : payload'[u] = payload[u] /\ fd'[u] = fd[u]
      BY <1>4 DEF LoadMissing, LoadRead, Edit, Return, TypeOK
    <2>4. \A k \in acked \ overrun : HoldsCopy(t)' => k \in TradesIn(CopyOf(t)'.logs)
      <3> SUFFICES ASSUME NEW k \in acked \ overrun, HoldsCopy(t)'
                   PROVE  k \in TradesIn(CopyOf(t)'.logs)
        OBVIOUS
      <3>1. pc'[t] = "acquire" /\ req'[t] = req[t] /\ req[t].kind # "load"
            /\ CopyOf(t)' = payload'[t]
        BY <2>2 DEF HoldsCopy, CopyOf, InSave
      <3>2. CASE pc[t] = "read"
        <4>1. HoldsCopy(t) /\ CopyOf(t) = disk[fd[t]].ledger
          BY <3>1, <3>2 DEF HoldsCopy, CopyOf
        <4>2. QED
          BY <2>2, <3>1, <3>2, <4>1 DEF OverlapInv
      <3>3. CASE pc[t] # "read"
        BY <2>2, <3>1, <3>3 DEF OverlapInv
      <3>4. QED
        BY <3>2, <3>3
    <2>5. pc'[t] \in {"acquire"} \cup InSave =>
              /\ req'[t].kind # "load"
              /\ req'[t].kind = "append" => req'[t].trade \in TradesIn(payload'[t].logs)
      BY <2>2 DEF InSave
    <2>6. QED
      BY <1>1, <2>1, <2>2, <2>3, <2>4, <2>5, OverlapInvFollows
  <1>5. ASSUME NEW t \in Thread, Acquire(t)
        PROVE  OverlapInv'
    <2>1. UNCHANGED FileLedger
      BY <1>5, FileLedgerUnchanged
    <2>2. pc[t] = "acquire" /\ pc'[t] = "open" /\ \A u \in Thread \ {t} : pc'[u] = pc[u]
      BY <1>5 DEF Acquire, TypeOK
    <2>3. UNCHANGED <<disk, tmp, fd, req, payload, acked>>
      BY <1>5 DEF Acquire
    <2>4. HoldsCopy(t) /\ CopyOf(t)' = CopyOf(t) /\ req[t].kind # "load"
          /\ (req[t].kind = "append" => req[t].trade \in TradesIn(payload[t].logs))
      BY <2>2, <2>3 DEF HoldsCopy, CopyOf, OverlapInv
    <2>5. QED
      BY <1>1, <2>1, <2>2, <2>3, <2>4, OverlapInvFollows DEF OverlapInv
  <1>6. ASSUME NEW t \in Thread, OpenTmp(t) \/ WriteTmp(t)
        PROVE  OverlapInv'
    <2>1. UNCHANGED FileLedger
      BY <1>6, FileLedgerUnchanged
    <2>2. /\ pc[t] \in InSave /\ pc'[t] \in {"write", "replace"}
          /\ \A u \in Thread \ {t} : pc'[u] = pc[u] /\ fd'[u] = fd[u]
          /\ UNCHANGED <<req, payload, acked>>
      BY <1>6 DEF OpenTmp, WriteTmp, TypeOK, InSave
    <2>3. \A u \in Thread \ {t} : pc[u] # "replace"
      <3>1. \A u \in Thread \ {t} : pc[u] \notin InSave
        BY <2>2, SavesExclude
      <3>2. QED
        BY <3>1 DEF InSave
    <2>4. \A u \in Thread \ {t} : pc[u] = "read" => disk'[fd[u]] = disk[fd[u]]
      <3>1. CASE OpenTmp(t)
        <4>1. PICK i \in Inode :
                 /\ IF tmp # NoInode THEN i = tmp ELSE i \in FreeInode
                 /\ disk' = [disk EXCEPT ![i] = EmptyFile]
          BY <3>1 DEF OpenTmp
        <4>2. \A u \in Thread : pc[u] = "read" => fd[u] # i /\ fd[u] \in Inode
          BY <4>1 DEF FreeInode, ReadersApart, ThreadsReady
        <4>3. QED
          BY <4>1, <4>2 DEF TypeOK
      <3>2. CASE WriteTmp(t)
        <4>1. pc[t] = "write" /\ fd[t] = tmp
          BY <3>2 DEF WriteTmp, TmpProgress
        <4>2. \A u \in Thread : pc[u] = "read" => fd[u] # fd[t] /\ fd[u] \in Inode
          BY <4>1 DEF ReadersApart, ThreadsReady
        <4>3. QED
          BY <3>2, <4>2 DEF WriteTmp, TypeOK
      <3>3. QED
        BY <1>6, <3>1, <3>2
    <2>5. pc'[t] = "replace" => disk'[tmp'] = WholeFile(payload'[t])
      <3>1. SUFFICES ASSUME WriteTmp(t)
                     PROVE  disk'[tmp'] = WholeFile(payload'[t])
        BY <1>6 DEF OpenTmp, TypeOK
      <3>2. tmp = fd[t] /\ fd[t] \in Inode /\ disk[tmp].state = "empty"
        BY <3>1 DEF WriteTmp, TmpProgress, ThreadsReady
      <3>3. QED
        BY <3>1, <3>2 DEF WriteTmp, TypeOK
    <2>6. HoldsCopy(t) /\ CopyOf(t)' = CopyOf(t) /\ req[t].kind # "load"
          /\ (req[t].kind = "append" => req[t].trade \in TradesIn(payload[t].logs))
      BY <2>2 DEF HoldsCopy, CopyOf, OverlapInv, InSave
    <2>7. \A k \in acked \ overrun : HoldsCopy(t)' => k \in TradesIn(CopyOf(t)'.logs)
      BY <2>6 DEF OverlapInv
    <2>8. QED
      BY <1>1, <2>1, <2>2, <2>3, <2>4, <2>5, <2>6, <2>7, OverlapInvFollows
  <1>7. ASSUME NEW t \in Thread, ReplaceTmp(t)
        PROVE  OverlapInv'
    <2>1. OverlapNext
      <3>1. pc'[t] # pc[t]
        BY <1>7 DEF ReplaceTmp, Return, TypeOK
      <3>2. QED
        BY <3>1 DEF overlapVars, vars
    <2>2. QED
      BY <1>7, <2>1, OverlapInvReplace
  <1>8. CASE Crash
    <2>1. FileLedger' = FileLedger /\ acked' = acked
      BY <1>8 DEF Crash, FileLedger
    <2>2. \A u \in Thread : pc'[u] = "idle"
      BY <1>8 DEF Crash
    <2>3. \A u \in Thread : ~ HoldsCopy(u)'
      BY <2>2 DEF HoldsCopy, InSave
    <2>4. QED
      BY <1>1, <2>1, <2>2, <2>3 DEF OverlapInv, InSave
  <1>9. CASE UNCHANGED overlapVars
    BY <1>9 DEF overlapVars, vars, OverlapInv, HoldsCopy, CopyOf, FileLedger
  <1>10. QED
    BY <1>2, <1>3, <1>4, <1>5, <1>6, <1>7, <1>8, <1>9
       DEF OverlapNext, Next, ThreadStep, LoadStep, SaveStep

\* Whatever the number of threads on one store, and wherever the process dies,
\* a trade log whose append has returned is lost only when another operation
\* was between its load and its rename as it landed.
THEOREM LogsLostOnlyToOverlap ==
    ASSUME OneStore
    PROVE  OverlapSpec => []LogsLostToOverlapOnly
  <1>1. OverlapInit => FileInv /\ OverlapInv
    BY FileInvInit DEF OverlapInit, Init, OverlapInv, InSave
  <1>2. FileInv /\ OverlapInv /\ [OverlapNext]_overlapVars => (FileInv /\ OverlapInv)'
    <2>1. [OverlapNext]_overlapVars => [Next]_vars
      BY DEF OverlapNext, overlapVars
    <2>2. QED
      BY <2>1, FileInvStep, OverlapInvStep
  <1>3. OverlapInv => LogsLostToOverlapOnly
    BY DEF OverlapInv, LogsLostToOverlapOnly
  <1>4. QED
    BY <1>1, <1>2, <1>3, PTL DEF OverlapSpec
-----------------------------------------------------------------------------
(***************************************************************************)
(* Driven by one thread, LedgerStore implements AtomicLedger: an operation *)
(* takes effect at its rename, and a crash before the rename loses it as a *)
(* whole.                                                                  *)
(***************************************************************************)

\* The process has one thread that uses the ledger.
OneThread == \A t, u \in Thread : t = u

\* A single thread goes through a single store.
LEMMA OneThreadOneStore == OneThread => OneStore
  BY DEF OneThread, OneStore

\* A rename puts the payload of its thread on file.
LEMMA FileLedgerReplaced ==
    ASSUME FileInv, SerialInv, NEW t \in Thread, ReplaceTmp(t)
    PROVE  FileLedger' = payload[t] /\ EditsFileLedger(t)
  <1>1. pc[t] = "replace" /\ path' = tmp /\ tmp # NoInode /\ disk' = disk
    BY DEF ReplaceTmp, FileInv, TmpProgress
  <1>2. disk[tmp] = WholeFile(payload[t]) /\ EditsFileLedger(t)
    BY <1>1 DEF SerialInv, InSave
  <1>3. QED
    BY <1>1, <1>2 DEF FileLedger, WholeFile
\* The invariant holds before the first call: nothing is issued, nothing on file.
LEMMA SerialInvInit == Init => SerialInv
  BY DEF Init, SerialInv, TradesIn, FileLedger, EmptyLedger, AckedTradesOnFile, InSave

\* The edit of a load that read the ledger on file is an edit of that ledger.
LEMMA EditGivesEditsFileLedger ==
    ASSUME TypeOK, NEW t \in Thread, req[t] \in Request,
           Edit(t, FileLedger), UNCHANGED FileLedger
    PROVE  pc'[t] # "idle" => pc'[t] = "acquire" /\ req'[t] = req[t] /\ EditsFileLedger(t)'
  <1>1. CASE Return(t)
    BY <1>1 DEF Return, TypeOK
  <1>2. CASE /\ req[t].kind = "close"
             /\ \E k \in DOMAIN FileLedger.logs :
                   /\ IsLatestOpen(FileLedger.logs, req[t].symbol, k)
                   /\ payload' = [payload EXCEPT ![t] = WithClosed(FileLedger, k)]
             /\ pc' = [pc EXCEPT ![t] = "acquire"]
             /\ UNCHANGED req
    <2>1. PICK k \in DOMAIN FileLedger.logs :
             /\ IsLatestOpen(FileLedger.logs, req[t].symbol, k)
             /\ payload'[t] = WithClosed(FileLedger, k)
      BY <1>2 DEF TypeOK
    <2>2. FileLedger' = FileLedger /\ req'[t] = req[t]
      BY <1>2
    <2>3. EditsFileLedger(t)'
      BY <1>2, <2>1, <2>2 DEF EditsFileLedger
    <2>4. QED
      BY <1>2, <2>3 DEF TypeOK
  <1>3. CASE /\ req[t].kind = "append"
             /\ payload' = [payload EXCEPT ![t] = WithAppended(FileLedger, req[t].trade, req[t].symbol)]
             /\ pc' = [pc EXCEPT ![t] = "acquire"]
             /\ UNCHANGED req
    BY <1>3 DEF TypeOK, EditsFileLedger
  <1>4. CASE /\ req[t].kind = "persist"
             /\ payload' = [payload EXCEPT ![t] = WithBook(FileLedger, req[t].book)]
             /\ pc' = [pc EXCEPT ![t] = "acquire"]
             /\ UNCHANGED req
    BY <1>4 DEF TypeOK, EditsFileLedger
  <1>5. QED
    BY <1>1, <1>2, <1>3, <1>4 DEF Edit

\* A rename keeps the invariant.
LEMMA SerialInvReplace ==
    ASSUME OneThread, FileInv, SerialInv, NEW t \in Thread, ReplaceTmp(t)
    PROVE  SerialInv'
  <1>1. FileLedger' = payload[t] /\ EditsFileLedger(t)
    BY FileLedgerReplaced
  <1>2. FileLedger \in Ledger
    BY FileLedgerType DEF FileInv
  <1>3. req[t] \in Request
    BY DEF ReplaceTmp, FileInv, ThreadsReady
  <1>4. TradesIn(FileLedger'.logs) =
          IF req[t].kind = "append" THEN TradesIn(FileLedger.logs) \cup {req[t].trade}
                                    ELSE TradesIn(FileLedger.logs)
    <2>1. CASE req[t].kind = "persist"
      BY <1>1, <1>2, <1>3, <2>1, TradesInWithBook DEF EditsFileLedger, Request
    <2>2. CASE req[t].kind = "append"
      BY <1>1, <1>2, <1>3, <2>2, TradesInAppended DEF EditsFileLedger, Request
    <2>3. CASE req[t].kind = "close"
      BY <1>1, <1>2, <2>3, TradesInClosed DEF EditsFileLedger
    <2>4. QED
      BY <1>1, <2>1, <2>2, <2>3 DEF EditsFileLedger
  <1>5. \A u \in Thread : pc'[u] = "idle"
    BY DEF OneThread, ReplaceTmp, Return, FileInv, TypeOK
  <1>6. req[t].kind = "append" => req[t].trade \in issued
    BY DEF SerialInv, ReplaceTmp
  <1>7. /\ acked' = (IF req[t].kind = "append" THEN acked \cup {req[t].trade} ELSE acked)
        /\ issued' = issued
    BY DEF ReplaceTmp, FileInv, TmpProgress
  <1>8. TradesIn(FileLedger.logs) \subseteq issued /\ acked \subseteq TradesIn(FileLedger.logs)
    BY DEF SerialInv, AckedTradesOnFile
  <1>9. TradesIn(FileLedger'.logs) \subseteq issued' /\ acked' \subseteq TradesIn(FileLedger'.logs)
    BY <1>4, <1>6, <1>7, <1>8
  <1>10. QED
    BY <1>5, <1>9 DEF SerialInv, AckedTradesOnFile, InSave

\* A step that leaves the ledger on file alone keeps the invariant.
LEMMA SerialInvKept ==
    ASSUME OneThread, FileInv, SerialInv, TypeInv', FileInv', UNCHANGED FileLedger,
           NEW t \in Thread,
           \/ \E r \in Request : Call(t, r)
           \/ LoadStep(t)
           \/ Acquire(t)
           \/ OpenTmp(t)
           \/ WriteTmp(t)
    PROVE  SerialInv'
  <1>1. /\ TradesIn(FileLedger'.logs) = TradesIn(FileLedger.logs)
        /\ TradesIn(FileLedger.logs) \subseteq issued
        /\ acked \subseteq TradesIn(FileLedger.logs)
    BY DEF SerialInv, AckedTradesOnFile
  <1>2. issued \subseteq issued' /\ acked' = acked
    BY DEF Call, Enter, LoadStep, LoadMissing, LoadOpen, LoadRead, Acquire, OpenTmp, WriteTmp
  <1>3. TradesIn(FileLedger'.logs) \subseteq issued' /\ AckedTradesOnFile'
    BY <1>1, <1>2 DEF AckedTradesOnFile
  <1>4. SUFFICES /\ pc'[t] = "read" => fd'[t] = path'
                 /\ pc'[t] \in {"acquire"} \cup InSave => EditsFileLedger(t)'
                 /\ pc'[t] = "replace" => disk'[tmp'] = WholeFile(payload'[t])
                 /\ pc'[t] # "idle" /\ req'[t].kind = "append"
                       => req'[t].trade \in issued' \ TradesIn(FileLedger'.logs)
    BY <1>3 DEF OneThread, SerialInv
  <1> USE DEF FileInv, TypeOK, InSave
  <1>5. CASE \E r \in Request : Call(t, r)
    <2>1. PICK r \in Request : Call(t, r)
      BY <1>5
    <2>2. pc'[t] = "load" /\ req'[t] = r
      BY <2>1 DEF Call, Enter
    <2>3. r.kind = "append" => r.trade \notin issued /\ r.trade \in issued'
      BY <2>1 DEF Call, Enter
    <2>4. QED
      BY <1>1, <2>2, <2>3
  <1>6. CASE LoadMissing(t)
    <2>1. Edit(t, FileLedger) /\ req[t] \in Request
      BY <1>6 DEF LoadMissing, FileLedger, ThreadsReady
    <2>2. pc'[t] # "idle" => pc'[t] = "acquire" /\ req'[t] = req[t] /\ EditsFileLedger(t)'
      BY <2>1, EditGivesEditsFileLedger
    <2>3. pc'[t] \in {"idle", "acquire"}
      BY <2>1, FileLedgerType, EditReady
    <2>4. QED
      BY <1>1, <1>6, <2>2, <2>3 DEF LoadMissing, SerialInv
  <1>7. CASE LoadOpen(t)
    BY <1>1, <1>7 DEF LoadOpen, SerialInv
  <1>8. CASE LoadRead(t)
    <2>1. fd[t] = path /\ fd[t] \in Inode /\ disk[fd[t]].state = "whole"
      BY <1>8 DEF LoadRead, SerialInv, ThreadsReady, ReadersSeeWholeLedgers
    <2>2. Edit(t, FileLedger) /\ req[t] \in Request
      BY <1>8, <2>1, StoreAssumption DEF LoadRead, FileLedger, ThreadsReady
    <2>3. pc'[t] # "idle" => pc'[t] = "acquire" /\ req'[t] = req[t] /\ EditsFileLedger(t)'
      BY <2>2, EditGivesEditsFileLedger
    <2>4. pc'[t] \in {"idle", "acquire"}
      BY <2>2, FileLedgerType, EditReady
    <2>5. QED
      BY <1>1, <1>8, <2>3, <2>4 DEF LoadRead, SerialInv
  <1>9. CASE Acquire(t)
    <2>1. EditsFileLedger(t) /\ UNCHANGED <<req, payload, issued>> /\ pc'[t] = "open"
      BY <1>9 DEF Acquire, SerialInv
    <2>2. EditsFileLedger(t)'
      BY <2>1 DEF EditsFileLedger
    <2>3. QED
      BY <1>1, <1>9, <2>1, <2>2 DEF Acquire, SerialInv
  <1>10. CASE OpenTmp(t)
    <2>1. EditsFileLedger(t) /\ UNCHANGED <<req, payload, issued>> /\ pc'[t] = "write"
      BY <1>10 DEF OpenTmp, SerialInv
    <2>2. EditsFileLedger(t)'
      BY <2>1 DEF EditsFileLedger
    <2>3. QED
      BY <1>1, <1>10, <2>1, <2>2 DEF OpenTmp, SerialInv
  <1>11. CASE WriteTmp(t)
    <2>1. EditsFileLedger(t) /\ UNCHANGED <<req, payload, issued, tmp>> /\ pc'[t] = "replace"
      BY <1>11 DEF WriteTmp, SerialInv
    <2>2. EditsFileLedger(t)'
      BY <2>1 DEF EditsFileLedger
    <2>3. tmp = fd[t] /\ fd[t] \in Inode /\ disk[tmp].state = "empty"
      BY <1>11 DEF WriteTmp, TmpProgress, ThreadsReady
    <2>4. disk'[tmp'] = WholeFile(payload'[t])
      BY <1>11, <2>1, <2>3 DEF WriteTmp
    <2>5. QED
      BY <1>1, <1>11, <2>1, <2>2, <2>4 DEF WriteTmp, SerialInv
  <1>12. QED
    BY <1>5, <1>6, <1>7, <1>8, <1>9, <1>10, <1>11 DEF LoadStep

\* Every step keeps the invariant.
LEMMA SerialInvStep ==
    ASSUME OneThread
    PROVE  FileInv /\ SerialInv /\ [Next]_vars => SerialInv'
  <1> SUFFICES ASSUME FileInv, SerialInv, [Next]_vars
               PROVE  SerialInv'
    OBVIOUS
  <1>1. FileInv'
    BY OneThreadOneStore, FileInvStep
  <1>2. TypeInv'
    BY <1>1 DEF FileInv, TypeInv
  <1>3. ASSUME NEW t \in Thread,
               \/ \E r \in Request : Call(t, r)
               \/ LoadStep(t)
               \/ Acquire(t)
               \/ OpenTmp(t)
               \/ WriteTmp(t)
        PROVE  SerialInv'
    BY <1>1, <1>2, <1>3, FileLedgerUnchanged, SerialInvKept
  <1>4. ASSUME NEW t \in Thread, ReplaceTmp(t)
        PROVE  SerialInv'
    BY <1>4, SerialInvReplace
  <1>5. CASE Crash
    <2>1. UNCHANGED <<FileLedger, issued, acked>>
      BY <1>5 DEF Crash, FileLedger
    <2>2. \A u \in Thread : pc'[u] = "idle"
      BY <1>5 DEF Crash
    <2>3. QED
      BY <2>1, <2>2 DEF SerialInv, AckedTradesOnFile, InSave
  <1>6. CASE UNCHANGED vars
    BY <1>6 DEF vars, SerialInv, AckedTradesOnFile, FileLedger, EditsFileLedger
  <1>7. QED
    BY <1>3, <1>4, <1>5, <1>6 DEF Next, ThreadStep, SaveStep
-----------------------------------------------------------------------------

\* A rename is a step of the atomic ledger.
LEMMA ReplaceIsAtomic ==
    ASSUME FileInv, SerialInv, NEW t \in Thread, ReplaceTmp(t)
    PROVE  Atomic!Next
  <1>1. FileLedger' = payload[t] /\ EditsFileLedger(t)
    BY FileLedgerReplaced
  <1>2. req[t] \in Request
    BY DEF ReplaceTmp, FileInv, ThreadsReady
  <1>3. CASE req[t].kind = "persist"
    <2>1. req[t].book \in Book /\ FileLedger' = WithBook(FileLedger, req[t].book)
      BY <1>1, <1>2, <1>3 DEF EditsFileLedger, Request
    <2>2. Atomic!Persist
      BY <2>1 DEF Atomic!Persist, Atomic!WithBook, WithBook
    <2>3. QED
      BY <2>2 DEF Atomic!Next
  <1>4. CASE req[t].kind = "append"
    <2>1. /\ req[t].trade \in Trade \ TradesIn(FileLedger.logs)
          /\ req[t].symbol \in Symbol
          /\ FileLedger' = WithAppended(FileLedger, req[t].trade, req[t].symbol)
      BY <1>1, <1>2, <1>4 DEF EditsFileLedger, Request, SerialInv, ReplaceTmp
    <2>2. Atomic!AppendLog
      BY <2>1 DEF Atomic!AppendLog, Atomic!WithAppended, Atomic!TradesIn, WithAppended, TradesIn
    <2>3. QED
      BY <2>2 DEF Atomic!Next
  <1>5. CASE req[t].kind = "close"
    <2>1. /\ req[t].symbol \in Symbol
          /\ \E k \in DOMAIN FileLedger.logs :
                /\ IsLatestOpen(FileLedger.logs, req[t].symbol, k)
                /\ FileLedger' = WithClosed(FileLedger, k)
      BY <1>1, <1>2, <1>5 DEF EditsFileLedger, Request
    <2>2. Atomic!CloseLog
      BY <2>1 DEF Atomic!CloseLog, Atomic!IsLatestOpen, Atomic!WithClosed, IsLatestOpen, WithClosed
    <2>3. QED
      BY <2>2 DEF Atomic!Next
  <1>6. QED
    BY <1>1, <1>3, <1>4, <1>5 DEF EditsFileLedger

\* Every step of the store is a step of the atomic ledger or leaves it alone.
LEMMA StepIsAtomic ==
    ASSUME OneThread
    PROVE  FileInv /\ SerialInv /\ [Next]_vars => [Atomic!Next]_FileLedger
  <1> SUFFICES ASSUME FileInv, SerialInv, [Next]_vars
               PROVE  Atomic!Next \/ UNCHANGED FileLedger
    OBVIOUS
  <1>1. ASSUME NEW t \in Thread, ThreadStep(t)
        PROVE  Atomic!Next \/ UNCHANGED FileLedger
    <2>1. CASE ReplaceTmp(t)
      BY <2>1, ReplaceIsAtomic
    <2>2. CASE ~ ReplaceTmp(t)
      BY <1>1, <2>2, FileLedgerUnchanged DEF ThreadStep, SaveStep
    <2>3. QED
      BY <2>1, <2>2
  <1>2. CASE Crash
    BY <1>2 DEF Crash, FileLedger
  <1>3. CASE UNCHANGED vars
    BY <1>3 DEF vars, FileLedger
  <1>4. QED
    BY <1>1, <1>2, <1>3 DEF Next

\* Used by one thread, LedgerStore implements the atomic ledger.
THEOREM SerialStoreIsAtomic == ASSUME OneThread PROVE Spec => ImplementsAtomicLedger
  <1>1. Init => Atomic!Init
    BY DEF Init, Atomic!Init, FileLedger, Atomic!EmptyLedger, EmptyLedger
  <1>2. FileInv /\ [Next]_vars => FileInv'
    BY OneThreadOneStore, FileInvStep
  <1>3. FileInv /\ SerialInv /\ [Next]_vars => SerialInv'
    BY SerialInvStep
  <1>4. FileInv /\ SerialInv /\ [Next]_vars => [Atomic!Next]_FileLedger
    BY StepIsAtomic
  <1>5. QED
    BY <1>1, <1>2, <1>3, <1>4, FileInvInit, SerialInvInit, PTL
       DEF Spec, ImplementsAtomicLedger, Atomic!Spec
-----------------------------------------------------------------------------
(***************************************************************************)
(* LiveTradeSync: its steps are steps of the store, and they are typed.    *)
(***************************************************************************)

\* A step of one thread inside an operation of the store.
WorkStep(t) == LoadStep(t) \/ Acquire(t) \/ SaveStep(t)

\* A call leaves the variables of the store typed, whatever trade it appends.
LEMMA EnterTyped ==
    ASSUME TypeInv, NEW t \in Thread, NEW r \in Request, Enter(t, r)
    PROVE  TypeInv'
  BY DEF TypeInv, ThreadsReady, Enter, TypeOK, PC, Request

\* So does every step inside an operation.
LEMMA WorkStepTyped ==
    ASSUME TypeInv, NEW t \in Thread, WorkStep(t)
    PROVE  TypeInv'
  BY TypeInvStep DEF WorkStep, Next, ThreadStep

\* The payload a thread reads from its file is a ledger.
LEMMA ReadType ==
    ASSUME TypeInv, NEW t \in Thread, LoadRead(t)
    PROVE  /\ fd[t] \in Inode
           /\ disk[fd[t]] \in Content /\ disk[fd[t]].ledger \in Ledger
           /\ (IF disk[fd[t]].state = "whole" THEN disk[fd[t]].ledger ELSE CorruptedLedger) \in Ledger
  <1>1. fd[t] \in Inode
    BY DEF TypeInv, ThreadsReady, LoadRead
  <1>2. disk[fd[t]] \in Content
    BY <1>1 DEF TypeInv, TypeOK
  <1>3. disk[fd[t]].ledger \in Ledger
    BY <1>2 DEF Content
  <1>4. QED
    BY <1>1, <1>2, <1>3, StandInLedgers

\* An operation keeps its request to its end, and moves no other thread.
LEMMA WorkStepFrame ==
    ASSUME TypeInv, NEW t \in Thread, WorkStep(t)
    PROVE  /\ pc[t] # "idle" /\ req[t] \in Request
           /\ pc'[t] # "idle" => req'[t] = req[t]
           /\ \A u \in Thread \ {t} :
                 pc'[u] = pc[u] /\ req'[u] = req[u] /\ fd'[u] = fd[u] /\ payload'[u] = payload[u]
  <1> USE DEF TypeInv, ThreadsReady, TypeOK
  <1>1. CASE LoadMissing(t)
    <2>1. pc[t] = "load" /\ req[t] \in Request /\ Edit(t, EmptyLedger) /\ fd' = fd
      BY <1>1 DEF LoadMissing
    <2>2. /\ pc'[t] # "idle" => req'[t] = req[t]
          /\ \A u \in Thread \ {t} : pc'[u] = pc[u] /\ req'[u] = req[u]
      BY <2>1, StandInLedgers, EditReady
    <2>3. \A u \in Thread \ {t} : payload'[u] = payload[u]
      BY <2>1 DEF Edit, Return
    <2>4. QED
      BY <2>1, <2>2, <2>3
  <1>2. CASE LoadRead(t)
    <2> DEFINE l == IF disk[fd[t]].state = "whole" THEN disk[fd[t]].ledger ELSE CorruptedLedger
    <2>1. pc[t] = "read" /\ req[t] \in Request /\ Edit(t, l) /\ fd' = [fd EXCEPT ![t] = NoInode]
      BY <1>2 DEF LoadRead
    <2>2. l \in Ledger
      BY <1>2, ReadType
    <2>3. /\ pc'[t] # "idle" => req'[t] = req[t]
          /\ \A u \in Thread \ {t} : pc'[u] = pc[u] /\ req'[u] = req[u]
      BY <2>1, <2>2, EditReady
    <2>4. \A u \in Thread \ {t} : payload'[u] = payload[u]
      BY <2>1 DEF Edit, Return
    <2>5. QED
      BY <2>1, <2>3, <2>4
  <1>3. CASE LoadOpen(t) \/ Acquire(t) \/ OpenTmp(t) \/ WriteTmp(t)
    BY <1>3 DEF LoadOpen, Acquire, OpenTmp, WriteTmp
  <1>4. CASE ReplaceTmp(t)
    BY <1>4 DEF ReplaceTmp, Return
  <1>5. QED
    BY <1>1, <1>2, <1>3, <1>4 DEF WorkStep, LoadStep, SaveStep

\* A load of the whole payload, as sync_order makes it first, ends at once.
LEMMA LoadReturns ==
    ASSUME TypeInv, NEW t \in Thread, req[t].kind = "load", LoadMissing(t) \/ LoadRead(t)
    PROVE  pc' = [pc EXCEPT ![t] = "idle"]
  BY DEF LoadMissing, LoadRead, Edit, Return

SyncTypeInv == SyncTypeOK /\ ThreadsReady /\ StagesFollowed

\* The parts of the invariant that a step of the store can disturb.
LEMMA SyncTypeInvParts ==
    ASSUME SyncTypeInv
    PROVE  TypeInv /\ TypeOK
  BY DEF SyncTypeInv, SyncTypeOK, TypeInv

\* A sync that starts keeps the invariant.
LEMMA StartSyncTyped ==
    ASSUME SyncTypeInv, NEW t \in Syncer, StartSync(t)
    PROVE  SyncTypeInv'
  <1>1. PICK o \in filled :
          /\ order' = [order EXCEPT ![t] = o]
          /\ \/ /\ o \in BuyOrder
                /\ Enter(t, [kind |-> "load"])
                /\ stage' = [stage EXCEPT ![t] = "look"]
             \/ /\ o \in SellOrder
                /\ Enter(t, [kind |-> "close", symbol |-> SymbolOf[o]])
                /\ stage' = [stage EXCEPT ![t] = "save"]
    BY DEF StartSync
  <1>2. o \in Order /\ t \in Thread
    BY SyncAssumption DEF SyncTypeInv, SyncTypeOK
  <1>3. UNCHANGED <<filled, misread>> /\ syncs' = syncs + 1 /\ syncs < MaxSyncs
    BY DEF StartSync
  <1>4. syncs' \in 0 .. MaxSyncs
    BY <1>3, SyncAssumption DEF SyncTypeInv, SyncTypeOK
  <1>5. CASE o \in BuyOrder /\ Enter(t, [kind |-> "load"]) /\ stage' = [stage EXCEPT ![t] = "look"]
    <2>1. [kind |-> "load"] \in Request
      BY DEF Request
    <2>2. TypeInv'
      BY <1>2, <1>5, <2>1, EnterTyped, SyncTypeInvParts
    <2>3. pc' = [pc EXCEPT ![t] = "load"] /\ req' = [req EXCEPT ![t] = [kind |-> "load"]]
      BY <1>5 DEF Enter
    <2>4. StagesFollowed'
      BY <1>1, <1>2, <1>5, <2>3, SyncAssumption DEF StagesFollowed, SyncTypeInv, SyncTypeOK, TypeOK
    <2>5. QED
      BY <1>1, <1>2, <1>3, <1>4, <1>5, <2>2, <2>4 DEF SyncTypeInv, SyncTypeOK, TypeInv
  <1>6. CASE /\ o \in SellOrder
             /\ Enter(t, [kind |-> "close", symbol |-> SymbolOf[o]])
             /\ stage' = [stage EXCEPT ![t] = "save"]
    <2>1. [kind |-> "close", symbol |-> SymbolOf[o]] \in Request
      <3>1. SymbolOf[o] \in Symbol
        BY <1>6, SyncAssumption
      <3>2. QED
        BY <3>1 DEF Request
    <2>2. TypeInv'
      BY <1>2, <1>6, <2>1, EnterTyped, SyncTypeInvParts
    <2>3. /\ pc' = [pc EXCEPT ![t] = "load"]
          /\ req' = [req EXCEPT ![t] = [kind |-> "close", symbol |-> SymbolOf[o]]]
      BY <1>6 DEF Enter
    <2>4. StagesFollowed'
      BY <1>1, <1>2, <1>6, <2>3, SyncAssumption DEF StagesFollowed, SyncTypeInv, SyncTypeOK, TypeOK
    <2>5. QED
      BY <1>1, <1>2, <1>3, <1>4, <1>6, <2>2, <2>4 DEF SyncTypeInv, SyncTypeOK, TypeInv
  <1>7. QED
    BY <1>1, <1>5, <1>6

\* So does the end of the search for the log of an order.
LEMMA LookTyped ==
    ASSUME SyncTypeInv, NEW t \in Syncer, Look(t)
    PROVE  SyncTypeInv'
  <1>1. t \in Thread /\ TypeInv
    BY SyncAssumption, SyncTypeInvParts
  <1>2. WorkStep(t) /\ stage[t] = "look" /\ (LoadMissing(t) \/ LoadRead(t))
    BY DEF Look, WorkStep, LoadStep
  <1>3. TypeInv'
    BY <1>1, <1>2, WorkStepTyped
  <1>4. order[t] \in BuyOrder /\ req[t].kind = "load"
    BY <1>2 DEF SyncTypeInv, StagesFollowed
  <1>5. pc' = [pc EXCEPT ![t] = "idle"]
    BY <1>1, <1>2, <1>4, LoadReturns
  <1>6. \A u \in Thread \ {t} : pc'[u] = pc[u] /\ req'[u] = req[u]
    BY <1>1, <1>2, WorkStepFrame
  <1>7. /\ \E g \in {"done", "missing"} : stage' = [stage EXCEPT ![t] = g]
        /\ UNCHANGED <<filled, order, syncs>> /\ misread' \in BOOLEAN
    BY DEF Look, NoteMisread, SyncTypeInv, SyncTypeOK
  <1>8. StagesFollowed'
    <2>1. pc'[t] = "idle"
      BY <1>1, <1>5 DEF TypeInv, TypeOK
    <2>2. stage'[t] \in {"done", "missing"} /\ \A u \in Syncer \ {t} : stage'[u] = stage[u]
      BY <1>7 DEF SyncTypeInv, SyncTypeOK
    <2>3. QED
      BY <1>4, <1>6, <1>7, <2>1, <2>2, SyncAssumption DEF StagesFollowed, SyncTypeInv, Order
  <1>9. QED
    BY <1>3, <1>7, <1>8 DEF SyncTypeInv, SyncTypeOK, TypeInv

\* And the call that appends the missing log.
LEMMA AppendMissingTyped ==
    ASSUME SyncTypeInv, NEW t \in Syncer, AppendMissing(t)
    PROVE  SyncTypeInv'
  <1> DEFINE r == [kind |-> "append", trade |-> order[t], symbol |-> SymbolOf[order[t]]]
  <1>1. t \in Thread /\ TypeInv
    BY SyncAssumption, SyncTypeInvParts
  <1>2. order[t] \in BuyOrder
    BY DEF AppendMissing, SyncTypeInv, StagesFollowed
  <1>3. r \in Request
    <2>1. order[t] \in Trade /\ SymbolOf[order[t]] \in Symbol
      BY <1>2, SyncAssumption
    <2>2. QED
      BY <2>1 DEF Request
  <1>4. Enter(t, r)
    BY DEF AppendMissing
  <1>5. TypeInv'
    BY <1>1, <1>3, <1>4, EnterTyped
  <1>6. pc' = [pc EXCEPT ![t] = "load"] /\ req' = [req EXCEPT ![t] = r]
    BY <1>4 DEF Enter
  <1>7. stage' = [stage EXCEPT ![t] = "save"] /\ UNCHANGED <<filled, order, syncs, misread>>
    BY DEF AppendMissing
  <1>8. StagesFollowed'
    BY <1>1, <1>2, <1>6, <1>7, SyncAssumption
       DEF StagesFollowed, SyncTypeInv, SyncTypeOK, TypeInv, TypeOK, Order
  <1>9. QED
    BY <1>5, <1>7, <1>8 DEF SyncTypeInv, SyncTypeOK, TypeInv

\* And the other steps of the service inside the store.
LEMMA StoreStepTyped ==
    ASSUME SyncTypeInv, NEW t \in Syncer, StoreStep(t)
    PROVE  SyncTypeInv'
  <1>1. t \in Thread /\ TypeInv
    BY SyncAssumption, SyncTypeInvParts
  <1>2. WorkStep(t) /\ stage[t] \in {"look", "save"}
    BY DEF StoreStep, WorkStep, LoadStep
  <1>3. TypeInv'
    BY <1>1, <1>2, WorkStepTyped
  <1>4. /\ pc'[t] # "idle" => req'[t] = req[t]
        /\ pc[t] # "idle"
        /\ \A u \in Thread \ {t} : pc'[u] = pc[u] /\ req'[u] = req[u]
    BY <1>1, <1>2, WorkStepFrame
  <1>5. UNCHANGED <<filled, order, stage, syncs>> /\ misread' \in BOOLEAN
    BY DEF StoreStep, NoteMisread, SyncTypeInv, SyncTypeOK
  <1>6. stage[t] = "look" => pc'[t] = "read" /\ req'[t] = req[t]
    <2>1. stage[t] = "look" => pc[t] \in {"load", "read"}
      BY DEF SyncTypeInv, StagesFollowed
    <2>2. stage[t] = "look" => LoadOpen(t)
      BY <2>1 DEF StoreStep, Acquire, SaveStep, OpenTmp, WriteTmp, ReplaceTmp
    <2>3. QED
      BY <1>1, <2>2 DEF LoadOpen, TypeInv, TypeOK
  <1>7. StagesFollowed'
    BY <1>2, <1>4, <1>5, <1>6, SyncAssumption DEF StagesFollowed, SyncTypeInv
  <1>8. QED
    BY <1>3, <1>5, <1>7 DEF SyncTypeInv, SyncTypeOK, TypeInv

\* And the steps of the broker's threads.
LEMMA BrokerStepTyped ==
    ASSUME SyncTypeInv, NEW t \in Thread \ Syncer, BrokerStep(t)
    PROVE  SyncTypeInv'
  <1>1. TypeInv
    BY SyncTypeInvParts
  <1>2. UNCHANGED <<filled, order, stage, syncs>> /\ misread' \in BOOLEAN
    BY DEF BrokerStep, NoteMisread, SyncTypeInv, SyncTypeOK
  <1>3. TypeInv' /\ \A u \in Thread \ {t} : pc'[u] = pc[u] /\ req'[u] = req[u]
    <2>1. CASE \E r \in Request : Call(t, r)
      <3>1. PICK r \in Request : Enter(t, r)
        BY <2>1 DEF Call
      <3>2. TypeInv'
        BY <1>1, <3>1, EnterTyped
      <3>3. QED
        BY <1>1, <3>1, <3>2 DEF Enter, TypeInv, TypeOK
    <2>2. CASE WorkStep(t)
      BY <1>1, <2>2, WorkStepTyped, WorkStepFrame
    <2>3. QED
      BY <2>1, <2>2 DEF BrokerStep, WorkStep
  <1>4. StagesFollowed'
    BY <1>2, <1>3, SyncAssumption DEF StagesFollowed, SyncTypeInv
  <1>5. QED
    BY <1>2, <1>3, <1>4 DEF SyncTypeInv, SyncTypeOK, TypeInv

\* Every step of the sync service and of the broker beside it is typed.
LEMMA SyncTypeInvStep == SyncTypeInv /\ [SyncNext]_<<vars, syncVars>> => SyncTypeInv'
  <1> SUFFICES ASSUME SyncTypeInv, [SyncNext]_<<vars, syncVars>>
               PROVE  SyncTypeInv'
    OBVIOUS
  <1>1. TypeInv
    BY SyncTypeInvParts
  <1>2. CASE Fill
    <2>1. UNCHANGED <<order, stage, syncs, misread, vars>> /\ filled' \subseteq Order
      BY <1>2 DEF Fill, SyncTypeInv, SyncTypeOK
    <2>2. QED
      BY <2>1 DEF SyncTypeInv, SyncTypeOK, TypeOK, ThreadsReady, StagesFollowed, vars
  <1>3. ASSUME NEW t \in Syncer, EndSync(t)
        PROVE  SyncTypeInv'
    <2>1. /\ order' = [order EXCEPT ![t] = NoOrder] /\ stage' = [stage EXCEPT ![t] = "rest"]
          /\ UNCHANGED <<filled, syncs, misread, vars>> /\ pc[t] = "idle"
      BY <1>3 DEF EndSync
    <2>2. QED
      BY <2>1 DEF SyncTypeInv, SyncTypeOK, TypeOK, ThreadsReady, StagesFollowed, vars
  <1>4. CASE CrashSync
    <2>1. TypeInv'
      BY <1>1, <1>4, TypeInvStep DEF CrashSync, Next
    <2>2. /\ order' = [t \in Syncer |-> NoOrder] /\ stage' = [t \in Syncer |-> "rest"]
          /\ UNCHANGED <<filled, syncs, misread>> /\ pc' = [t \in Thread |-> "idle"]
      BY <1>4 DEF CrashSync, Crash
    <2>3. QED
      BY <2>1, <2>2, SyncAssumption DEF SyncTypeInv, SyncTypeOK, StagesFollowed, TypeInv
  <1>5. CASE UNCHANGED <<vars, syncVars>>
    BY <1>5 DEF SyncTypeInv, SyncTypeOK, TypeOK, ThreadsReady, StagesFollowed, vars, syncVars
  <1>6. QED
    BY <1>2, <1>3, <1>4, <1>5, StartSyncTyped, LookTyped, AppendMissingTyped, StoreStepTyped,
       BrokerStepTyped DEF SyncNext, SyncStep

\* The invariant holds before the first synchronisation.
LEMMA SyncTypeInvInit == SyncInit => SyncTypeInv
  <1> SUFFICES ASSUME SyncInit
               PROVE  SyncTypeInv
    OBVIOUS
  <1>1. TypeInv
    BY StandInLedgers DEF SyncInit, Init, TypeInv, TypeOK, ThreadsReady, PC, EmptyFile, Content
  <1>2. /\ filled \subseteq Order
        /\ order \in [Syncer -> Order \cup {NoOrder}]
        /\ stage \in [Syncer -> {"rest", "look", "missing", "save", "done"}]
        /\ misread \in BOOLEAN
    BY DEF SyncInit
  <1>3. syncs \in 0 .. MaxSyncs
    BY SyncAssumption DEF SyncInit
  <1>4. StagesFollowed
    BY SyncAssumption DEF SyncInit, Init, StagesFollowed
  <1>5. QED
    BY <1>1, <1>2, <1>3, <1>4 DEF SyncTypeInv, SyncTypeOK, TypeInv

\* The variables of the sync service and of the store it goes through are well
\* typed in every state, for any threads, orders and stores.
THEOREM SyncTyped == SyncSpec => []SyncTypeOK
  <1>1. SyncInit => SyncTypeInv
    BY SyncTypeInvInit
  <1>2. SyncTypeInv => SyncTypeOK
    BY DEF SyncTypeInv
  <1>3. QED
    BY <1>1, <1>2, SyncTypeInvStep, PTL DEF SyncSpec
-----------------------------------------------------------------------------
(***************************************************************************)
(* LiveTradeSync: what the two locks leave standing of the files when one  *)
(* thread synchronises beside one thread of the broker.                    *)
(***************************************************************************)

\* One thread at a time serves POST /operator/live-trades/sync.
OneSyncer == \A t, u \in Syncer : t = u

\* One thread uses the broker.
OneBroker == \A t, u \in Thread \ Syncer : t = u

\* Of any three threads two are one.
LEMMA TwoThreads ==
    ASSUME OneSyncer, OneBroker, NEW t \in Thread, NEW u \in Thread, NEW v \in Thread
    PROVE  t = u \/ u = v \/ t = v
  BY DEF OneSyncer, OneBroker

\* A call touches no file.
LEMMA StoreInvCall ==
    ASSUME StoreInv, TypeInv', NEW t \in Thread, NEW r \in Request, Enter(t, r)
    PROVE  StoreInv'
  <1>1. /\ pc[t] = "idle" /\ pc' = [pc EXCEPT ![t] = "load"]
        /\ UNCHANGED <<disk, path, tmp, fd, payload>>
    BY DEF Enter
  <1>2. pc \in [Thread -> PC]
    BY DEF StoreInv, TypeOK
  <1>3. NamesApart' /\ BrokenFilesAreBlank'
    BY <1>1 DEF StoreInv, NamesApart, BrokenFilesAreBlank
  <1>4. ReadersApart' /\ SharedInodeIsPath'
    BY <1>1, <1>2 DEF StoreInv, ReadersApart, SharedInodeIsPath
  <1>5. TmpWrittenToRename'
    BY <1>1, <1>2 DEF StoreInv, TmpWrittenToRename, WholeFile
  <1>6. QED
    BY <1>3, <1>4, <1>5 DEF StoreInv, TypeInv

\* Nor do a load and the lock.
LEMMA StoreInvLoadStep ==
    ASSUME StoreInv, TypeInv', NEW t \in Thread, LoadStep(t) \/ Acquire(t)
    PROVE  StoreInv'
  <1>1. TypeInv /\ pc \in [Thread -> PC]
    BY DEF StoreInv, TypeInv, TypeOK
  <1>2. WorkStep(t)
    BY DEF WorkStep
  <1>3. UNCHANGED <<disk, path, tmp>>
    BY DEF LoadStep, LoadMissing, LoadOpen, LoadRead, Acquire
  <1>4. \A u \in Thread \ {t} : pc'[u] = pc[u] /\ fd'[u] = fd[u] /\ payload'[u] = payload[u]
    BY <1>1, <1>2, WorkStepFrame
  <1>5. /\ pc[t] \notin {"write", "replace"}
        /\ pc'[t] \notin {"write", "replace"}
        /\ pc'[t] = "read" => fd'[t] = path /\ path # NoInode
    <2>1. CASE LoadMissing(t) \/ LoadRead(t)
      BY <2>1 DEF LoadMissing, LoadRead, Edit, Return, StoreInv, TypeOK
    <2>2. CASE LoadOpen(t) \/ Acquire(t)
      BY <2>2 DEF LoadOpen, Acquire, StoreInv, TypeOK
    <2>3. QED
      BY <2>1, <2>2 DEF LoadStep
  <1>6. NamesApart' /\ BrokenFilesAreBlank'
    BY <1>3 DEF StoreInv, NamesApart, BrokenFilesAreBlank
  <1>7. ReadersApart'
    <2> SUFFICES ASSUME NEW u \in Thread, pc'[u] = "read"
                 PROVE  fd'[u] # tmp
      BY <1>3 DEF ReadersApart
    <2>1. CASE u = t
      BY <1>5, <2>1 DEF StoreInv, NamesApart
    <2>2. CASE u # t
      BY <1>4, <2>2 DEF StoreInv, ReadersApart
    <2>3. QED
      BY <2>1, <2>2
  <1>8. SharedInodeIsPath'
    BY <1>3, <1>4, <1>5 DEF StoreInv, SharedInodeIsPath
  <1>9. TmpWrittenToRename'
    BY <1>3, <1>4, <1>5 DEF StoreInv, TmpWrittenToRename, WholeFile
  <1>10. QED
    BY <1>6, <1>7, <1>8, <1>9 DEF StoreInv, TypeInv

\* The temporary file is opened where nobody reads.
LEMMA StoreInvOpen ==
    ASSUME StoreInv, TypeInv', NEW t \in Thread, OpenTmp(t)
    PROVE  /\ StoreInv'
           /\ \E i \in Inode :
                 /\ i # path /\ disk' = [disk EXCEPT ![i] = EmptyFile]
                 /\ \A u \in Thread : pc[u] = "read" => fd[u] # i
  <1>1. PICK i \in Inode :
           /\ IF tmp # NoInode THEN i = tmp ELSE i \in FreeInode
           /\ tmp' = i
           /\ disk' = [disk EXCEPT ![i] = EmptyFile]
           /\ fd' = [fd EXCEPT ![t] = i]
    BY DEF OpenTmp
  <1>2. /\ pc' = [pc EXCEPT ![t] = "write"] /\ UNCHANGED <<path, payload>>
        /\ pc \in [Thread -> PC] /\ disk \in [Inode -> Content] /\ fd \in [Thread -> Inode \cup {NoInode}]
    BY DEF OpenTmp, StoreInv, TypeOK
  <1>3. i # path /\ \A u \in Thread : pc[u] = "read" => fd[u] # i
    BY <1>1 DEF FreeInode, StoreInv, NamesApart, ReadersApart
  <1>4. disk'[i] = EmptyFile
    BY <1>1, <1>2
  <1>5. NamesApart'
    BY <1>1, <1>2, <1>3 DEF NamesApart
  <1>6. ReadersApart'
    BY <1>1, <1>2, <1>3 DEF ReadersApart
  <1>7. TmpWrittenToRename'
    BY <1>1, <1>4 DEF TmpWrittenToRename, EmptyFile
  <1>8. SharedInodeIsPath'
    BY <1>1, <1>2, <1>3 DEF StoreInv, SharedInodeIsPath
  <1>9. BrokenFilesAreBlank'
    BY <1>1, <1>2, <1>4 DEF StoreInv, BrokenFilesAreBlank, EmptyFile
  <1>10. QED
    BY <1>1, <1>3, <1>5, <1>6, <1>7, <1>8, <1>9 DEF StoreInv, TypeInv

\* The text goes to the inode that was opened, wherever its name has moved.
LEMMA StoreInvWrite ==
    ASSUME StoreInv, TypeInv', NEW t \in Thread, WriteTmp(t)
    PROVE  StoreInv'
  <1>1. fd[t] \in Inode
    BY DEF StoreInv, ThreadsReady, WriteTmp
  <1>2. /\ pc[t] = "write" /\ pc' = [pc EXCEPT ![t] = "replace"]
        /\ fd' = [fd EXCEPT ![t] = NoInode] /\ UNCHANGED <<path, tmp, payload>>
        /\ pc \in [Thread -> PC] /\ disk \in [Inode -> Content] /\ fd \in [Thread -> Inode \cup {NoInode}]
    BY DEF WriteTmp, StoreInv, TypeOK
  <1>3. PICK c \in {WholeFile(payload[t]), TornFile} : disk' = [disk EXCEPT ![fd[t]] = c]
    BY DEF WriteTmp
  <1>4. \A u \in Thread \ {t} : pc'[u] = pc[u] /\ fd'[u] = fd[u]
    BY <1>2
  <1>5. pc'[t] = "replace" /\ \A i \in Inode : disk'[i] = (IF i = fd[t] THEN c ELSE disk[i])
    BY <1>1, <1>2, <1>3
  <1>6. NamesApart' /\ ReadersApart'
    BY <1>2, <1>4, <1>5 DEF StoreInv, NamesApart, ReadersApart
  <1>7. SharedInodeIsPath'
    BY <1>2, <1>4, <1>5 DEF StoreInv, SharedInodeIsPath
  <1>8. BrokenFilesAreBlank'
    BY <1>5 DEF StoreInv, BrokenFilesAreBlank, WholeFile, TornFile
  <1>9. TmpWrittenToRename'
    <2> SUFFICES ASSUME tmp # NoInode, disk'[tmp].state = "whole"
                 PROVE  \E u \in Thread : pc'[u] = "replace" /\ disk'[tmp] = WholeFile(payload'[u])
      BY <1>2 DEF TmpWrittenToRename
    <2>1. tmp \in Inode
      BY DEF StoreInv, TypeOK
    <2>2. CASE tmp = fd[t]
      BY <1>2, <1>5, <2>1, <2>2 DEF TornFile
    <2>3. CASE tmp # fd[t]
      <3>1. disk'[tmp] = disk[tmp]
        BY <1>5, <2>1, <2>3
      <3>2. PICK u \in Thread : pc[u] = "replace" /\ disk[tmp] = WholeFile(payload[u])
        BY <1>2, <3>1 DEF StoreInv, TmpWrittenToRename
      <3>3. pc'[u] = "replace" /\ payload'[u] = payload[u]
        BY <1>2, <1>4, <3>2
      <3>4. QED
        BY <3>1, <3>2, <3>3
    <2>4. QED
      BY <2>2, <2>3
  <1>10. QED
    BY <1>6, <1>7, <1>8, <1>9 DEF StoreInv, TypeInv

\* A rename leaves the temporary name free, and the third thread it would take
\* to break the rule about shared inodes is not there.
LEMMA StoreInvReplace ==
    ASSUME OneSyncer, OneBroker, StoreInv, TypeInv', NEW t \in Thread, ReplaceTmp(t)
    PROVE  StoreInv'
  <1>1. /\ tmp' = NoInode /\ pc' = [pc EXCEPT ![t] = "idle"] /\ UNCHANGED <<disk, fd>>
        /\ pc \in [Thread -> PC]
    BY DEF ReplaceTmp, Return, StoreInv, TypeOK
  <1>2. NamesApart' /\ TmpWrittenToRename' /\ BrokenFilesAreBlank'
    BY <1>1 DEF NamesApart, TmpWrittenToRename, StoreInv, BrokenFilesAreBlank
  <1>3. ReadersApart'
    <2>1. \A u \in Thread : pc'[u] = "read" => fd'[u] \in Inode
      BY DEF TypeInv, ThreadsReady
    <2>2. QED
      BY <1>1, <2>1, StoreAssumption DEF ReadersApart
  <1>4. SharedInodeIsPath'
    <2> SUFFICES ASSUME NEW v \in Thread, NEW u \in Thread, pc'[v] = "write", pc'[u] = "read"
                 PROVE  FALSE
      BY DEF SharedInodeIsPath
    <2>1. v # t /\ u # t /\ u # v
      BY <1>1
    <2>2. QED
      BY <2>1, TwoThreads
  <1>5. QED
    BY <1>2, <1>3, <1>4 DEF StoreInv, TypeInv

\* A crash leaves no reader and no writer.
LEMMA StoreInvCrash ==
    ASSUME StoreInv, TypeInv', Crash
    PROVE  StoreInv'
  BY DEF StoreInv, TypeInv, Crash, NamesApart, ReadersApart, TmpWrittenToRename,
     SharedInodeIsPath, BrokenFilesAreBlank
-----------------------------------------------------------------------------
(***************************************************************************)
(* LiveTradeSync: the edits add a log of a buy once.                       *)
(***************************************************************************)

\* A ledger without logs has none of them twice.
LEMMA LoggedOnceBlank == LoggedOnce(EmptyLedger) /\ LoggedOnce(CorruptedLedger)
  BY DEF LoggedOnce, EmptyLedger, CorruptedLedger

\* A log of a trade that is no buy, or of a buy without one, keeps logs single.
LEMMA LoggedOnceAppended ==
    ASSUME NEW l \in Ledger, NEW tr \in Trade, NEW s \in Symbol,
           LoggedOnce(l), tr \notin Buys(l)
    PROVE  LoggedOnce(WithAppended(l, tr, s))
  <1> DEFINE e == [trade |-> tr, symbol |-> s, open |-> TRUE]
             new == Append(l.logs, e)
  <1>1. WithAppended(l, tr, s).logs = new
    BY DEF WithAppended, Ledger
  <1>2. l.logs \in Seq(Entry) /\ Len(l.logs) \in Nat
    BY DEF Ledger
  <1>3. /\ DOMAIN new = 1..(Len(l.logs) + 1)
        /\ new[Len(l.logs) + 1].trade = tr
        /\ \A i \in 1..Len(l.logs) : new[i] = l.logs[i]
        /\ DOMAIN l.logs = 1..Len(l.logs)
    BY <1>2
  <1>4. \A i \in DOMAIN l.logs : ~ (l.logs[i].trade \in BuyOrder /\ l.logs[i].trade = tr)
    BY DEF Buys, TradesIn
  <1> HIDE DEF new
  <1>5. ASSUME NEW i \in DOMAIN new, NEW j \in DOMAIN new,
               new[i].trade \in BuyOrder, new[i].trade = new[j].trade
        PROVE  i = j
    <2>1. CASE i \in DOMAIN l.logs /\ j \in DOMAIN l.logs
      BY <1>3, <1>5, <2>1 DEF LoggedOnce
    <2>2. CASE i \in DOMAIN l.logs /\ j = Len(l.logs) + 1
      BY <1>3, <1>4, <1>5, <2>2
    <2>3. CASE i = Len(l.logs) + 1 /\ j \in DOMAIN l.logs
      BY <1>3, <1>4, <1>5, <2>3
    <2>4. CASE i = Len(l.logs) + 1 /\ j = Len(l.logs) + 1
      BY <2>4
    <2>5. i \in DOMAIN l.logs \cup {Len(l.logs) + 1} /\ j \in DOMAIN l.logs \cup {Len(l.logs) + 1}
      BY <1>2, <1>3
    <2>6. QED
      BY <2>1, <2>2, <2>3, <2>4, <2>5
  <1>6. QED
    BY <1>1, <1>5 DEF LoggedOnce

\* Closing a log keeps logs single.
LEMMA LoggedOnceClosed ==
    ASSUME NEW l \in Ledger, NEW k \in DOMAIN l.logs, LoggedOnce(l)
    PROVE  LoggedOnce(WithClosed(l, k))
  <1> DEFINE new == [l.logs EXCEPT ![k] = [l.logs[k] EXCEPT !.open = FALSE]]
  <1>1. WithClosed(l, k).logs = new
    BY DEF WithClosed, Ledger
  <1>2. \A i \in DOMAIN l.logs : l.logs[i] \in Entry
    BY DEF Ledger
  <1>3. DOMAIN new = DOMAIN l.logs /\ \A i \in DOMAIN l.logs : new[i].trade = l.logs[i].trade
    BY <1>2 DEF Entry
  <1>4. QED
    BY <1>1, <1>3 DEF LoggedOnce

\* What an edit saves: the buys of the ledger it was given, and the one it logs.
LEMMA EditBuys ==
    ASSUME TypeOK, NEW t \in Thread, NEW l \in Ledger, req[t] \in Request, Edit(t, l),
           LoggedOnce(l), req[t].kind = "append" => req[t].trade \notin Buys(l)
    PROVE  /\ LoggedOnce(payload'[t])
           /\ pc'[t] \in {"idle", "acquire"}
           /\ pc'[t] # "idle" => Buys(l) \subseteq Buys(payload'[t])
           /\ pc'[t] # "idle" /\ (req[t].kind = "append" => req[t].trade \notin BuyOrder) =>
                 Buys(payload'[t]) = Buys(l)
  <1> USE DEF TypeOK
  <1>1. CASE Return(t)
    BY <1>1, LoggedOnceBlank DEF Return
  <1>2. CASE /\ req[t].kind = "close"
             /\ \E k \in DOMAIN l.logs : payload' = [payload EXCEPT ![t] = WithClosed(l, k)]
             /\ pc' = [pc EXCEPT ![t] = "acquire"]
    <2>1. PICK k \in DOMAIN l.logs : payload'[t] = WithClosed(l, k)
      BY <1>2
    <2>2. LoggedOnce(payload'[t])
      BY <2>1, LoggedOnceClosed
    <2>3. Buys(payload'[t]) = Buys(l)
      BY <2>1, TradesInClosed DEF Buys
    <2>4. QED
      BY <1>2, <2>2, <2>3
  <1>3. CASE /\ req[t].kind = "append"
             /\ payload' = [payload EXCEPT ![t] = WithAppended(l, req[t].trade, req[t].symbol)]
             /\ pc' = [pc EXCEPT ![t] = "acquire"]
    <2>1. req[t].trade \in Trade /\ req[t].symbol \in Symbol
      BY <1>3 DEF Request
    <2>2. payload'[t] = WithAppended(l, req[t].trade, req[t].symbol)
      BY <1>3
    <2>3. LoggedOnce(payload'[t])
      BY <1>3, <2>1, <2>2, LoggedOnceAppended
    <2>4. Buys(payload'[t]) = (TradesIn(l.logs) \cup {req[t].trade}) \cap BuyOrder
      BY <2>1, <2>2, TradesInAppended DEF Buys
    <2>5. QED
      BY <1>3, <2>3, <2>4 DEF Buys
  <1>4. CASE /\ req[t].kind = "persist"
             /\ payload' = [payload EXCEPT ![t] = WithBook(l, req[t].book)]
             /\ pc' = [pc EXCEPT ![t] = "acquire"]
    <2>1. payload'[t].logs = l.logs
      <3>1. req[t].book \in Book
        BY <1>4 DEF Request
      <3>2. QED
        BY <1>4, <3>1, TradesInWithBook
    <2>2. QED
      BY <1>4, <2>1 DEF Buys, LoggedOnce
  <1>5. QED
    BY <1>1, <1>2, <1>3, <1>4 DEF Edit
-----------------------------------------------------------------------------
(***************************************************************************)
(* LiveTradeSync: where the buys of a ledger come from.                    *)
(***************************************************************************)

\* Where a step takes the ledger on file from: nowhere, a thread, a broken file.
FileSource ==
    \/ Buys(FileLedger') = Buys(FileLedger) /\ (PathHoldsWholeLedger' => PathHoldsWholeLedger)
    \/ \E u \in Thread : HasView(u) /\ Buys(FileLedger') = Buys(View(u))
    \/ Buys(FileLedger') = {} /\ ~ PathHoldsWholeLedger'

\* A view after a step has the buys it had, or those of the file.
ViewSource(v) ==
    HasView(v)' =>
        \/ HasView(v) /\ Buys(View(v)') = Buys(View(v))
        \/ PathHoldsWholeLedger' /\ Buys(View(v)') = Buys(FileLedger')

\* The same, and buys added to them.
ViewGrows(v) ==
    HasView(v)' =>
        \/ HasView(v) /\ Buys(View(v)) \subseteq Buys(View(v)')
        \/ PathHoldsWholeLedger' /\ Buys(FileLedger') \subseteq Buys(View(v)')

\* Taken from there, the buys of the broker and of the file stay among those of
\* the thread that synchronises.
LEMMA BuysSpreadKept ==
    ASSUME OneSyncer, OneBroker, BuysSpread, FileSource,
           \A b \in Thread \ Syncer : ViewSource(b),
           \A s \in Syncer : ViewGrows(s)
    PROVE  BuysSpread'
  <1>1. ASSUME NEW b \in Thread \ Syncer, HasView(b)', PathHoldsWholeLedger'
        PROVE  Buys(View(b)') \subseteq Buys(FileLedger')
    <2>1. CASE HasView(b) /\ Buys(View(b)') = Buys(View(b))
      <3>1. CASE Buys(FileLedger') = Buys(FileLedger) /\ PathHoldsWholeLedger
        BY <2>1, <3>1 DEF BuysSpread
      <3>2. CASE \E u \in Thread : HasView(u) /\ Buys(FileLedger') = Buys(View(u))
        <4>1. PICK u \in Thread : HasView(u) /\ Buys(FileLedger') = Buys(View(u))
          BY <3>2
        <4>2. CASE u \in Syncer
          BY <2>1, <4>1, <4>2 DEF BuysSpread
        <4>3. CASE u \notin Syncer
          BY <2>1, <4>1, <4>3 DEF OneBroker
        <4>4. QED
          BY <4>2, <4>3
      <3>3. QED
        BY <1>1, <3>1, <3>2 DEF FileSource
    <2>2. CASE Buys(View(b)') = Buys(FileLedger')
      BY <2>2
    <2>3. QED
      BY <1>1, <2>1, <2>2 DEF ViewSource
  <1>2. ASSUME NEW s \in Syncer, HasView(s)'
        PROVE  Buys(FileLedger') \subseteq Buys(View(s)')
    <2>1. CASE HasView(s) /\ Buys(View(s)) \subseteq Buys(View(s)')
      <3>1. CASE Buys(FileLedger') = Buys(FileLedger)
        BY <2>1, <3>1 DEF BuysSpread
      <3>2. CASE \E u \in Thread : HasView(u) /\ Buys(FileLedger') = Buys(View(u))
        <4>1. PICK u \in Thread : HasView(u) /\ Buys(FileLedger') = Buys(View(u))
          BY <3>2
        <4>2. CASE u \in Syncer
          BY <2>1, <4>1, <4>2 DEF OneSyncer
        <4>3. CASE u \notin Syncer
          BY <2>1, <4>1, <4>3 DEF BuysSpread
        <4>4. QED
          BY <4>2, <4>3
      <3>3. CASE Buys(FileLedger') = {}
        BY <3>3
      <3>4. QED
        BY <3>1, <3>2, <3>3 DEF FileSource
    <2>2. QED
      BY <1>2, <2>1 DEF ViewGrows
  <1>3. ASSUME NEW s \in Syncer, HasView(s)', NEW b \in Thread \ Syncer, HasView(b)'
        PROVE  Buys(View(b)') \subseteq Buys(View(s)')
    <2>1. CASE PathHoldsWholeLedger' /\ Buys(View(b)') = Buys(FileLedger')
      BY <1>2, <1>3, <2>1
    <2>2. CASE PathHoldsWholeLedger' /\ Buys(FileLedger') \subseteq Buys(View(s)')
      BY <1>1, <1>3, <2>2
    <2>3. CASE /\ HasView(b) /\ Buys(View(b)') = Buys(View(b))
               /\ HasView(s) /\ Buys(View(s)) \subseteq Buys(View(s)')
      BY <2>3 DEF BuysSpread
    <2>4. QED
      BY <1>3, <2>1, <2>2, <2>3 DEF ViewSource, ViewGrows
  <1>4. QED
    BY <1>1, <1>2, <1>3 DEF BuysSpread

\* And what nobody has is found nowhere after the step.
LEMMA MissingKept ==
    ASSUME FileSource, \A v \in Thread : ViewSource(v), NEW o, Missing(o)
    PROVE  Missing(o)'
  <1>1. o \notin Buys(FileLedger')
    BY DEF FileSource, Missing
  <1>2. ASSUME NEW v \in Thread, HasView(v)'
        PROVE  o \notin Buys(View(v)')
    BY <1>1, <1>2 DEF ViewSource, Missing
  <1>3. QED
    BY <1>1, <1>2 DEF Missing

\* A step that leaves the files alone and starts no view.
LEMMA ViewsKept ==
    ASSUME UNCHANGED <<disk, path>>,
           \A v \in Thread : HasView(v)' => HasView(v) /\ View(v)' = View(v)
    PROVE  FileSource /\ \A v \in Thread : ViewSource(v)
  <1>1. FileLedger' = FileLedger /\ (PathHoldsWholeLedger' <=> PathHoldsWholeLedger)
    BY DEF FileLedger, PathHoldsWholeLedger
  <1>2. Buys(FileLedger') = Buys(FileLedger)
    BY <1>1
  <1>3. \A v \in Thread : ViewSource(v)
    BY DEF ViewSource
  <1>4. QED
    BY <1>1, <1>2, <1>3 DEF FileSource

\* What a step of the store does to the buys, when no file is read half written.
BuysFollow ==
    /\ LedgersLogOnce'
    /\ FileSource
    /\ \A v \in Thread : ViewSource(v)

\* A call.
LEMMA CallBuys ==
    ASSUME TypeOK, LedgersLogOnce, NEW t \in Thread, NEW r \in Request, Enter(t, r)
    PROVE  BuysFollow
  <1>1. /\ pc[t] = "idle" /\ pc' = [pc EXCEPT ![t] = "load"]
        /\ UNCHANGED <<disk, path, fd, payload>> /\ pc \in [Thread -> PC]
    BY DEF Enter, TypeOK
  <1>2. ASSUME NEW v \in Thread, HasView(v)'
        PROVE  HasView(v) /\ View(v)' = View(v)
    <2>1. v # t
      BY <1>1, <1>2 DEF HasView, InSave
    <2>2. pc'[v] = pc[v]
      BY <1>1, <2>1
    <2>3. QED
      BY <1>1, <1>2, <2>2 DEF HasView, View
  <1>3. LedgersLogOnce'
    BY <1>1 DEF LedgersLogOnce, LoggedOnce
  <1>4. QED
    BY <1>1, <1>2, <1>3, ViewsKept DEF BuysFollow

\* A step that opens no file and leaves the files alone.
LEMMA OtherViews ==
    ASSUME TypeInv, NEW t \in Thread, WorkStep(t), UNCHANGED disk, NEW v \in Thread, v # t
    PROVE  (HasView(v)' <=> HasView(v)) /\ View(v)' = View(v)
  <1>1. pc'[v] = pc[v] /\ fd'[v] = fd[v] /\ payload'[v] = payload[v]
    BY WorkStepFrame
  <1>2. QED
    BY <1>1 DEF HasView, View

\* The opening of the file for a load.
LEMMA LoadOpenBuys ==
    ASSUME TypeInv, LedgersLogOnce, NEW t \in Thread, LoadOpen(t)
    PROVE  BuysFollow
  <1>1. /\ path # NoInode /\ pc' = [pc EXCEPT ![t] = "read"] /\ fd' = [fd EXCEPT ![t] = path]
        /\ UNCHANGED <<disk, path, payload>> /\ WorkStep(t)
    BY DEF LoadOpen, WorkStep, LoadStep
  <1>2. pc'[t] = "read" /\ fd'[t] = path
    BY <1>1 DEF TypeInv, TypeOK
  <1>3. FileLedger' = FileLedger /\ (PathHoldsWholeLedger' <=> PathHoldsWholeLedger)
    BY <1>1 DEF FileLedger, PathHoldsWholeLedger
  <1>4. HasView(t)' => PathHoldsWholeLedger'
    BY <1>1, <1>2 DEF HasView, InSave, PathHoldsWholeLedger
  <1>5. View(t)' = FileLedger'
    BY <1>1, <1>2 DEF View, FileLedger
  <1>6. ViewSource(t)
    BY <1>4, <1>5 DEF ViewSource
  <1>7. \A v \in Thread \ {t} : ViewSource(v)
    BY <1>1, OtherViews DEF ViewSource
  <1>8. LedgersLogOnce'
    BY <1>1 DEF LedgersLogOnce, LoggedOnce
  <1>9. Buys(FileLedger') = Buys(FileLedger)
    BY <1>3
  <1>10. QED
    BY <1>3, <1>6, <1>7, <1>8, <1>9 DEF BuysFollow, FileSource

\* The lock.
LEMMA AcquireBuys ==
    ASSUME TypeInv, LedgersLogOnce, NEW t \in Thread, Acquire(t)
    PROVE  BuysFollow
  <1>1. /\ pc[t] = "acquire" /\ pc' = [pc EXCEPT ![t] = "open"]
        /\ UNCHANGED <<disk, path, fd, payload>> /\ WorkStep(t)
    BY DEF Acquire, WorkStep
  <1>2. pc'[t] = "open"
    BY <1>1 DEF TypeInv, TypeOK
  <1>3. HasView(t) /\ View(t)' = View(t)
    BY <1>1, <1>2 DEF HasView, View
  <1>4. \A v \in Thread : HasView(v)' => HasView(v) /\ View(v)' = View(v)
    BY <1>1, <1>3, OtherViews
  <1>5. LedgersLogOnce'
    BY <1>1 DEF LedgersLogOnce, LoggedOnce
  <1>6. QED
    BY <1>1, <1>4, <1>5, ViewsKept DEF BuysFollow

\* The truncation of the temporary file.
LEMMA OpenBuys ==
    ASSUME StoreInv, TypeInv', LedgersLogOnce, NEW t \in Thread, OpenTmp(t)
    PROVE  BuysFollow
  <1>1. PICK i \in Inode :
           /\ i # path /\ disk' = [disk EXCEPT ![i] = EmptyFile]
           /\ \A u \in Thread : pc[u] = "read" => fd[u] # i
    BY StoreInvOpen
  <1>2. /\ pc[t] = "open" /\ pc' = [pc EXCEPT ![t] = "write"] /\ UNCHANGED <<path, payload>>
        /\ WorkStep(t) /\ TypeInv
    BY DEF OpenTmp, WorkStep, SaveStep, StoreInv, TypeInv
  <1>3. pc'[t] = "write" /\ \A j \in Inode : disk'[j] = (IF j = i THEN EmptyFile ELSE disk[j])
    BY <1>1, <1>2 DEF TypeInv, TypeOK
  <1>4. FileLedger' = FileLedger /\ (PathHoldsWholeLedger' <=> PathHoldsWholeLedger)
    <2>1. path \in Inode \cup {NoInode}
      BY <1>2 DEF TypeInv, TypeOK
    <2>2. QED
      BY <1>1, <1>2, <1>3, <2>1 DEF FileLedger, PathHoldsWholeLedger
  <1>5. ASSUME NEW v \in Thread, HasView(v)'
        PROVE  HasView(v) /\ View(v)' = View(v)
    <2>1. CASE v = t
      BY <1>2, <1>3, <2>1 DEF HasView, View, InSave
    <2>2. CASE v # t
      <3>1. pc'[v] = pc[v] /\ fd'[v] = fd[v] /\ payload'[v] = payload[v]
        BY <1>2, <2>2, WorkStepFrame
      <3>2. pc[v] = "read" => disk'[fd[v]] = disk[fd[v]]
        BY <1>1, <1>2, <1>3 DEF TypeInv, ThreadsReady
      <3>3. QED
        BY <1>5, <3>1, <3>2 DEF HasView, View
    <2>3. QED
      BY <2>1, <2>2
  <1>6. \A v \in Thread : ViewSource(v)
    BY <1>5 DEF ViewSource
  <1>7. LedgersLogOnce'
    <2>1. LoggedOnce(EmptyFile.ledger)
      BY LoggedOnceBlank DEF EmptyFile
    <2>2. QED
      BY <1>2, <1>3, <2>1 DEF LedgersLogOnce, LoggedOnce
  <1>8. Buys(FileLedger') = Buys(FileLedger)
    BY <1>4
  <1>9. QED
    BY <1>4, <1>6, <1>7, <1>8 DEF BuysFollow, FileSource

\* The text of a save: a file that others may have open or renamed meanwhile.
LEMMA WriteBuys ==
    ASSUME StoreInv, LedgersLogOnce, NEW t \in Thread, WriteTmp(t)
    PROVE  BuysFollow
  <1>1. fd[t] \in Inode /\ fd[t] # NoInode /\ TypeInv
    BY StoreAssumption DEF StoreInv, ThreadsReady, WriteTmp, TypeInv
  <1>2. /\ pc[t] = "write" /\ pc' = [pc EXCEPT ![t] = "replace"]
        /\ UNCHANGED <<path, payload>> /\ WorkStep(t)
    BY DEF WriteTmp, WorkStep, SaveStep
  <1>3. PICK c \in {WholeFile(payload[t]), TornFile} : disk' = [disk EXCEPT ![fd[t]] = c]
    BY DEF WriteTmp
  <1>4. pc'[t] = "replace" /\ \A i \in Inode : disk'[i] = (IF i = fd[t] THEN c ELSE disk[i])
    BY <1>1, <1>2, <1>3 DEF TypeInv, TypeOK
  <1>5. HasView(t) /\ View(t) = payload[t] /\ View(t)' = payload[t]
    BY <1>2, <1>4 DEF HasView, View, InSave
  <1>6. FileSource
    <2>1. CASE path # fd[t]
      <3>1. path \in Inode \cup {NoInode}
        BY <1>1 DEF TypeInv, TypeOK
      <3>2. FileLedger' = FileLedger /\ (PathHoldsWholeLedger' <=> PathHoldsWholeLedger)
        BY <1>2, <1>4, <2>1, <3>1 DEF FileLedger, PathHoldsWholeLedger
      <3>3. Buys(FileLedger') = Buys(FileLedger)
        BY <3>2
      <3>4. QED
        BY <3>2, <3>3 DEF FileSource
    <2>2. CASE path = fd[t] /\ c = WholeFile(payload[t])
      <3>1. FileLedger' = View(t)
        BY <1>1, <1>2, <1>4, <1>5, <2>2 DEF FileLedger, WholeFile
      <3>2. Buys(FileLedger') = Buys(View(t))
        BY <3>1
      <3>3. QED
        BY <1>5, <3>2 DEF FileSource
    <2>3. CASE path = fd[t] /\ c = TornFile
      <3>1. FileLedger' = EmptyLedger /\ ~ PathHoldsWholeLedger'
        BY <1>1, <1>2, <1>4, <2>3 DEF FileLedger, TornFile, PathHoldsWholeLedger
      <3>2. Buys(FileLedger') = {}
        BY <3>1 DEF Buys, TradesIn, EmptyLedger
      <3>3. QED
        BY <3>1, <3>2 DEF FileSource
    <2>4. QED
      BY <1>3, <2>1, <2>2, <2>3
  <1>7. ASSUME NEW v \in Thread
        PROVE  ViewSource(v)
    <2>1. CASE v = t
      BY <1>5, <2>1 DEF ViewSource
    <2>2. CASE v # t
      <3>1. pc'[v] = pc[v] /\ fd'[v] = fd[v] /\ payload'[v] = payload[v]
        BY <1>1, <1>2, <2>2, WorkStepFrame
      <3>2. CASE pc[v] = "read" /\ fd[v] = fd[t]
        <4>1. path = fd[v]
          BY <1>2, <3>2 DEF StoreInv, SharedInodeIsPath
        <4>2. HasView(v)' => PathHoldsWholeLedger'
          BY <1>2, <3>1, <3>2, <4>1 DEF HasView, InSave, PathHoldsWholeLedger
        <4>3. View(v)' = FileLedger'
          BY <1>1, <1>2, <3>1, <3>2, <4>1 DEF View, FileLedger
        <4>4. QED
          BY <4>2, <4>3 DEF ViewSource
      <3>3. CASE pc[v] = "read" /\ fd[v] # fd[t]
        <4>1. disk'[fd[v]] = disk[fd[v]]
          BY <1>1, <1>4, <3>3 DEF TypeInv, ThreadsReady
        <4>2. QED
          BY <3>1, <4>1 DEF HasView, View, ViewSource
      <3>4. CASE pc[v] # "read"
        BY <3>1, <3>4 DEF HasView, View, ViewSource
      <3>5. QED
        BY <3>2, <3>3, <3>4
    <2>3. QED
      BY <2>1, <2>2
  <1>8. LedgersLogOnce'
    <2>1. LoggedOnce(c.ledger)
      BY <1>3, LoggedOnceBlank DEF LedgersLogOnce, WholeFile, TornFile
    <2>2. QED
      BY <1>2, <1>4, <2>1 DEF LedgersLogOnce, LoggedOnce
  <1>9. QED
    BY <1>6, <1>7, <1>8 DEF BuysFollow

\* The rename of a save: of its own text, of another thread's, or of a broken
\* file.
LEMMA ReplaceBuys ==
    ASSUME StoreInv, LedgersLogOnce, NEW t \in Thread, ReplaceTmp(t)
    PROVE  BuysFollow
  <1>1. /\ pc[t] = "replace" /\ path' = (IF tmp = NoInode THEN path ELSE tmp)
        /\ pc' = [pc EXCEPT ![t] = "idle"] /\ payload' = [payload EXCEPT ![t] = EmptyLedger]
        /\ disk' = disk /\ WorkStep(t) /\ TypeInv
    BY DEF ReplaceTmp, Return, WorkStep, SaveStep, StoreInv, TypeInv
  <1>2. pc'[t] = "idle"
    BY <1>1 DEF TypeInv, TypeOK
  <1>3. FileSource
    <2>1. CASE tmp = NoInode
      <3>1. FileLedger' = FileLedger /\ (PathHoldsWholeLedger' <=> PathHoldsWholeLedger)
        BY <1>1, <2>1 DEF FileLedger, PathHoldsWholeLedger
      <3>2. Buys(FileLedger') = Buys(FileLedger)
        BY <3>1
      <3>3. QED
        BY <3>1, <3>2 DEF FileSource
    <2>2. CASE tmp # NoInode /\ disk[tmp].state = "whole"
      <3>1. PICK u \in Thread : pc[u] = "replace" /\ disk[tmp] = WholeFile(payload[u])
        BY <1>1, <2>2 DEF StoreInv, TmpWrittenToRename
      <3>2. FileLedger' = payload[u]
        BY <1>1, <2>2, <3>1 DEF FileLedger, WholeFile
      <3>3. HasView(u) /\ View(u) = payload[u]
        BY <3>1 DEF HasView, View, InSave
      <3>4. Buys(FileLedger') = Buys(View(u))
        BY <3>2, <3>3
      <3>5. QED
        BY <3>3, <3>4 DEF FileSource
    <2>3. CASE tmp # NoInode /\ disk[tmp].state # "whole"
      <3>1. tmp \in Inode
        BY <1>1, <2>3 DEF TypeInv, TypeOK
      <3>2. disk[tmp].ledger = EmptyLedger
        BY <2>3, <3>1 DEF StoreInv, BrokenFilesAreBlank
      <3>3. FileLedger' = EmptyLedger /\ ~ PathHoldsWholeLedger'
        BY <1>1, <2>3, <3>2 DEF FileLedger, PathHoldsWholeLedger
      <3>4. Buys(FileLedger') = {}
        BY <3>3 DEF Buys, TradesIn, EmptyLedger
      <3>5. QED
        BY <3>3, <3>4 DEF FileSource
    <2>4. QED
      BY <2>1, <2>2, <2>3
  <1>4. ~ HasView(t)'
    BY <1>2 DEF HasView, InSave
  <1>5. \A v \in Thread \ {t} : (HasView(v)' <=> HasView(v)) /\ View(v)' = View(v)
    BY <1>1, OtherViews
  <1>6. \A v \in Thread : ViewSource(v)
    BY <1>4, <1>5 DEF ViewSource
  <1>7. LedgersLogOnce'
    <2>1. \A u \in Thread : LoggedOnce(payload'[u])
      BY <1>1, LoggedOnceBlank DEF LedgersLogOnce, TypeInv, TypeOK
    <2>2. \A i \in Inode : LoggedOnce(disk'[i].ledger)
      BY <1>1 DEF LedgersLogOnce
    <2>3. QED
      BY <2>1, <2>2 DEF LedgersLogOnce, LoggedOnce
  <1>8. QED
    BY <1>3, <1>6, <1>7 DEF BuysFollow

\* A crash.
LEMMA CrashBuys ==
    ASSUME LedgersLogOnce, Crash
    PROVE  BuysFollow
  <1>1. \A v \in Thread : ~ HasView(v)'
    BY DEF Crash, HasView, InSave
  <1>2. UNCHANGED <<disk, path>> /\ payload' = [v \in Thread |-> EmptyLedger]
    BY DEF Crash
  <1>3. LedgersLogOnce'
    <2>1. \A u \in Thread : LoggedOnce(payload'[u])
      BY <1>2, LoggedOnceBlank
    <2>2. \A i \in Inode : LoggedOnce(disk'[i].ledger)
      BY <1>2 DEF LedgersLogOnce
    <2>3. QED
      BY <2>1, <2>2 DEF LedgersLogOnce, LoggedOnce
  <1>4. QED
    BY <1>1, <1>2, <1>3, ViewsKept DEF BuysFollow

\* What a load that ends hands to its caller: the view of the thread, or a
\* ledger without logs when there is no file.
LEMMA LoadedView ==
    ASSUME TypeInv, NEW t \in Thread, LoadMissing(t) \/ LoadRead(t),
           pc[t] = "read" => disk[fd[t]].state = "whole"
    PROVE  /\ LoadedLedger(t) \in Ledger
           /\ Edit(t, LoadedLedger(t)) /\ UNCHANGED <<disk, path>>
           /\ \/ HasView(t) /\ View(t) = LoadedLedger(t) /\ pc[t] = "read" /\ LoadRead(t)
              \/ path = NoInode /\ Buys(LoadedLedger(t)) = {} /\ pc[t] = "load"
  <1>1. CASE LoadMissing(t)
    <2>1. pc[t] = "load" /\ path = NoInode /\ LoadedLedger(t) = EmptyLedger
      BY <1>1 DEF LoadMissing, LoadedLedger
    <2>2. Buys(EmptyLedger) = {}
      BY DEF Buys, TradesIn, EmptyLedger
    <2>3. QED
      BY <1>1, <2>1, <2>2, StandInLedgers DEF LoadMissing
  <1>2. CASE LoadRead(t)
    <2>1. pc[t] = "read" /\ disk[fd[t]].state = "whole" /\ LoadedLedger(t) = disk[fd[t]].ledger
      BY <1>2 DEF LoadRead, LoadedLedger
    <2>2. HasView(t) /\ View(t) = LoadedLedger(t)
      BY <2>1 DEF HasView, View
    <2>3. LoadedLedger(t) \in Ledger
      BY <1>2, <2>1, ReadType
    <2>4. QED
      BY <1>2, <2>1, <2>2, <2>3 DEF LoadRead
  <1>3. QED
    BY <1>1, <1>2

\* The end of a load, and the edit of what it has read.
LEMMA LoadEndBuys ==
    ASSUME TypeInv, LedgersLogOnce, NEW t \in Thread, LoadMissing(t) \/ LoadRead(t),
           pc[t] = "read" => disk[fd[t]].state = "whole",
           req[t].kind = "append" => req[t].trade \notin Buys(LoadedLedger(t))
    PROVE  /\ LedgersLogOnce' /\ FileSource
           /\ \A v \in Thread \ {t} : ViewSource(v)
           /\ ViewGrows(t)
           /\ (req[t].kind = "append" => req[t].trade \notin BuyOrder) => ViewSource(t)
           /\ pc'[t] \in {"idle", "acquire"}
  <1> DEFINE l == LoadedLedger(t)
  <1>1. WorkStep(t)
    BY DEF WorkStep, LoadStep
  <1>2. /\ l \in Ledger /\ Edit(t, l) /\ UNCHANGED <<disk, path>>
        /\ \/ HasView(t) /\ View(t) = l
           \/ path = NoInode /\ Buys(l) = {}
    BY LoadedView
  <1>3. LoggedOnce(l)
    <2>1. CASE LoadMissing(t)
      BY <2>1, LoggedOnceBlank DEF LoadMissing, LoadedLedger
    <2>2. CASE LoadRead(t)
      BY <2>2, ReadType, LoggedOnceBlank DEF LoadRead, LoadedLedger, LedgersLogOnce
    <2>3. QED
      BY <2>1, <2>2
  <1>4. req[t] \in Request /\ TypeOK
    BY <1>1, WorkStepFrame DEF TypeInv
  <1> HIDE DEF l
  <1>5. /\ LoggedOnce(payload'[t])
        /\ pc'[t] \in {"idle", "acquire"}
        /\ pc'[t] # "idle" => Buys(l) \subseteq Buys(payload'[t])
        /\ pc'[t] # "idle" /\ (req[t].kind = "append" => req[t].trade \notin BuyOrder) =>
              Buys(payload'[t]) = Buys(l)
    BY <1>2, <1>3, <1>4, EditBuys DEF l
  <1>6. FileLedger' = FileLedger /\ (PathHoldsWholeLedger' <=> PathHoldsWholeLedger)
    BY <1>2 DEF FileLedger, PathHoldsWholeLedger
  <1>7. FileSource
    <2>1. Buys(FileLedger') = Buys(FileLedger)
      BY <1>6
    <2>2. QED
      BY <1>6, <2>1 DEF FileSource
  <1>8. \A v \in Thread \ {t} : ViewSource(v)
    BY <1>1, <1>2, OtherViews DEF ViewSource
  <1>9. LedgersLogOnce'
    <2>1. \A u \in Thread : LoggedOnce(payload'[u])
      BY <1>1, <1>5, WorkStepFrame DEF LedgersLogOnce
    <2>2. \A i \in Inode : LoggedOnce(disk'[i].ledger)
      BY <1>2 DEF LedgersLogOnce
    <2>3. QED
      BY <2>1, <2>2 DEF LedgersLogOnce, LoggedOnce
  <1>10. HasView(t)' => pc'[t] = "acquire" /\ View(t)' = payload'[t]
    BY <1>5 DEF HasView, View, InSave
  <1>11. path = NoInode => PathHoldsWholeLedger' /\ Buys(FileLedger') = {}
    BY <1>2 DEF PathHoldsWholeLedger, FileLedger, Buys, TradesIn, EmptyLedger
  <1>12. ViewGrows(t)
    <2>1. HasView(t)' => Buys(l) \subseteq Buys(View(t)')
      BY <1>5, <1>10
    <2>2. QED
      BY <1>2, <1>11, <2>1 DEF ViewGrows
  <1>13. (req[t].kind = "append" => req[t].trade \notin BuyOrder) => ViewSource(t)
    <2>1. HasView(t)' /\ (req[t].kind = "append" => req[t].trade \notin BuyOrder) =>
              Buys(View(t)') = Buys(l)
      BY <1>5, <1>10
    <2>2. QED
      BY <1>2, <1>11, <2>1 DEF ViewSource
  <1>14. QED
    BY <1>5, <1>7, <1>8, <1>9, <1>12, <1>13
-----------------------------------------------------------------------------
(***************************************************************************)
(* LiveTradeSync: an order has one log.                                    *)
(***************************************************************************)

\* The files stay as the two locks leave them, whoever takes a step.
LEMMA StoreInvStep ==
    ASSUME OneSyncer, OneBroker, SyncTypeInv, StoreInv, [SyncNext]_<<vars, syncVars>>
    PROVE  StoreInv'
  <1>1. TypeInv'
    BY SyncTypeInvStep, SyncTypeInvParts DEF SyncTypeInv, SyncTypeOK, TypeInv
  <1>2. ASSUME NEW t \in Thread, WorkStep(t)
        PROVE  StoreInv'
    BY <1>1, <1>2, StoreInvLoadStep, StoreInvOpen, StoreInvWrite, StoreInvReplace
       DEF WorkStep, SaveStep
  <1>3. ASSUME NEW t \in Thread, NEW r \in Request, Enter(t, r)
        PROVE  StoreInv'
    BY <1>1, <1>3, StoreInvCall
  <1>4. CASE CrashSync
    BY <1>1, <1>4, StoreInvCrash DEF CrashSync
  <1>5. CASE UNCHANGED vars
    BY <1>5 DEF vars, StoreInv, TypeOK, ThreadsReady, NamesApart, ReadersApart,
       TmpWrittenToRename, SharedInodeIsPath, BrokenFilesAreBlank, WholeFile
  <1>6. ASSUME NEW t \in Syncer, StartSync(t)
        PROVE  StoreInv'
    <2>1. PICK o \in filled :
             \/ Enter(t, [kind |-> "load"])
             \/ o \in SellOrder /\ Enter(t, [kind |-> "close", symbol |-> SymbolOf[o]])
      BY <1>6 DEF StartSync
    <2>2. [kind |-> "load"] \in Request
      BY DEF Request
    <2>3. ASSUME o \in SellOrder
          PROVE  [kind |-> "close", symbol |-> SymbolOf[o]] \in Request
      <3>1. SymbolOf[o] \in Symbol
        BY <2>3, SyncAssumption
      <3>2. QED
        BY <3>1 DEF Request
    <2>4. t \in Thread
      BY SyncAssumption
    <2>5. QED
      BY <1>3, <2>1, <2>2, <2>3, <2>4
  <1>7. ASSUME NEW t \in Syncer, AppendMissing(t)
        PROVE  StoreInv'
    <2> DEFINE r == [kind |-> "append", trade |-> order[t], symbol |-> SymbolOf[order[t]]]
    <2>1. order[t] \in BuyOrder
      BY <1>7 DEF AppendMissing, SyncTypeInv, StagesFollowed
    <2>2. order[t] \in Trade /\ SymbolOf[order[t]] \in Symbol /\ t \in Thread
      BY <2>1, SyncAssumption
    <2>3. r \in Request
      BY <2>2 DEF Request
    <2>4. Enter(t, r)
      BY <1>7 DEF AppendMissing
    <2>5. QED
      BY <1>3, <2>2, <2>3, <2>4
  <1>8. ASSUME NEW t \in Syncer, Look(t) \/ StoreStep(t)
        PROVE  StoreInv'
    <2>1. t \in Thread /\ WorkStep(t)
      BY <1>8, SyncAssumption DEF Look, StoreStep, WorkStep, LoadStep
    <2>2. QED
      BY <1>2, <2>1
  <1>9. ASSUME NEW t \in Thread \ Syncer, BrokerStep(t)
        PROVE  StoreInv'
    BY <1>2, <1>3, <1>9 DEF BrokerStep, WorkStep, Call
  <1>10. QED
    BY <1>4, <1>5, <1>6, <1>7, <1>8, <1>9 DEF SyncNext, SyncStep, Fill, EndSync, syncVars

\* The broker names its trades itself, from its call to the end of it.
LEMMA BrokerTradesStep ==
    ASSUME SyncTypeInv, BrokerTradesApart, [SyncNext]_<<vars, syncVars>>
    PROVE  BrokerTradesApart'
  <1>1. TypeInv
    BY SyncTypeInvParts
  <1>2. ASSUME NEW t \in Thread, WorkStep(t)
        PROVE  BrokerTradesApart'
    BY <1>1, <1>2, WorkStepFrame DEF BrokerTradesApart
  <1>3. ASSUME NEW t \in Syncer, NEW r, Enter(t, r)
        PROVE  BrokerTradesApart'
    BY <1>3 DEF BrokerTradesApart, Enter
  <1>4. ASSUME NEW t \in Thread \ Syncer, NEW r \in Request, Enter(t, r),
               r.kind = "append" => r.trade \notin BuyOrder
        PROVE  BrokerTradesApart'
    BY <1>1, <1>4 DEF BrokerTradesApart, Enter, TypeInv, TypeOK
  <1>5. CASE CrashSync
    BY <1>5 DEF CrashSync, Crash, BrokerTradesApart
  <1>6. CASE UNCHANGED vars
    BY <1>6 DEF vars, BrokerTradesApart
  <1>7. ASSUME NEW t \in Syncer, StartSync(t) \/ AppendMissing(t)
        PROVE  BrokerTradesApart'
    BY <1>3, <1>7 DEF StartSync, AppendMissing
  <1>8. ASSUME NEW t \in Syncer, Look(t) \/ StoreStep(t)
        PROVE  BrokerTradesApart'
    <2>1. t \in Thread /\ WorkStep(t)
      BY <1>8, SyncAssumption DEF Look, StoreStep, WorkStep, LoadStep
    <2>2. QED
      BY <1>2, <2>1
  <1>9. ASSUME NEW t \in Thread \ Syncer, BrokerStep(t)
        PROVE  BrokerTradesApart'
    BY <1>2, <1>4, <1>9 DEF BrokerStep, WorkStep, Call
  <1>10. QED
    BY <1>5, <1>6, <1>7, <1>8, <1>9 DEF SyncNext, SyncStep, Fill, EndSync, syncVars

\* The invariant of the logs follows from where the buys come from, once the
\* orders found missing are accounted for.
LEMMA OnceInvFollows ==
    ASSUME OneSyncer, OneBroker, OnceInv, BuysFollow
    PROVE  LedgersLogOnce' /\ BuysSpread' /\ \A o : Missing(o) => Missing(o)'
  <1>1. \A s \in Syncer : ViewGrows(s)
    BY SyncAssumption DEF BuysFollow, ViewSource, ViewGrows
  <1>2. BuysSpread'
    BY <1>1, BuysSpreadKept DEF BuysFollow, OnceInv
  <1>3. QED
    BY <1>2, MissingKept DEF BuysFollow

\* A step inside an operation that is not the end of a load.
LEMMA PlainWorkBuys ==
    ASSUME StoreInv, TypeInv', LedgersLogOnce, NEW t \in Thread,
           LoadOpen(t) \/ Acquire(t) \/ SaveStep(t)
    PROVE  BuysFollow
  <1>1. TypeInv
    BY DEF StoreInv, TypeInv
  <1>2. QED
    BY <1>1, LoadOpenBuys, AcquireBuys, OpenBuys, WriteBuys, ReplaceBuys DEF SaveStep

\* A load that ends with nothing read half written is the view of its thread.
LEMMA NotMisread ==
    ASSUME NEW t \in Thread, NoteMisread(t), ~ misread'
    PROVE  ~ misread /\ (pc[t] = "read" => disk[fd[t]].state = "whole")
  BY DEF NoteMisread

\* The search for the log of an order, after which a missing one is missing
\* everywhere.
LEMMA LookOnce ==
    ASSUME OneSyncer, OneBroker, SyncTypeInv, StoreInv, OnceInv, ~ misread',
           NEW t \in Syncer, Look(t)
    PROVE  OnceInv'
  <1>1. t \in Thread /\ TypeInv /\ LedgersLogOnce /\ BuysSpread
    BY SyncAssumption, SyncTypeInvParts DEF OnceInv
  <1>2. /\ stage[t] = "look" /\ (LoadMissing(t) \/ LoadRead(t)) /\ order' = order
        /\ stage' = [stage EXCEPT ![t] = IF order[t] \in TradesIn(LoadedLedger(t).logs)
                                           THEN "done" ELSE "missing"]
        /\ (pc[t] = "read" => disk[fd[t]].state = "whole")
    BY <1>1, NotMisread DEF Look
  <1>3. req[t].kind = "load"
    BY <1>2 DEF SyncTypeInv, StagesFollowed
  <1>4. /\ LedgersLogOnce' /\ FileSource
        /\ \A v \in Thread \ {t} : ViewSource(v)
        /\ ViewSource(t)
    BY <1>1, <1>2, <1>3, LoadEndBuys
  <1>5. BuysFollow
    BY <1>4 DEF BuysFollow
  <1>6. BuysSpread'
    BY <1>5, OnceInvFollows
  <1>7. pc'[t] = "idle"
    <2>1. pc' = [pc EXCEPT ![t] = "idle"]
      BY <1>1, <1>2, <1>3, LoadReturns
    <2>2. QED
      BY <1>1, <2>1 DEF TypeInv, TypeOK
  <1>8. MissingStays'
    <2> DEFINE o == order[t]
               l == LoadedLedger(t)
    <2> SUFFICES ASSUME stage'[t] = "missing"
                 PROVE  Missing(o)'
      BY <1>2, <1>7 DEF OneSyncer, MissingStays
    <2>1. o \notin TradesIn(l.logs)
      <3>1. t \in DOMAIN stage
        BY DEF SyncTypeInv, SyncTypeOK
      <3>2. QED
        BY <1>2, <3>1
    <2>2. /\ UNCHANGED <<disk, path>>
          /\ \/ HasView(t) /\ View(t) = l
             \/ path = NoInode /\ Buys(l) = {}
      BY <1>1, <1>2, LoadedView
    <2>3. o \notin Buys(l)
      BY <2>1 DEF Buys
    <2> HIDE DEF l
    <2>4. Buys(FileLedger) \subseteq Buys(l)
      <3>1. CASE HasView(t) /\ View(t) = l
        BY <1>1, <3>1 DEF BuysSpread
      <3>2. CASE path = NoInode
        BY <3>2 DEF FileLedger, EmptyLedger, Buys, TradesIn
      <3>3. QED
        BY <2>2, <3>1, <3>2
    <2>5. \A b \in Thread \ Syncer : HasView(b) => Buys(View(b)) \subseteq Buys(l)
      <3>1. CASE HasView(t) /\ View(t) = l
        BY <1>1, <3>1 DEF BuysSpread
      <3>2. CASE path = NoInode
        <4>1. PathHoldsWholeLedger
          BY <3>2 DEF PathHoldsWholeLedger
        <4>2. QED
          BY <1>1, <2>4, <4>1 DEF BuysSpread
      <3>3. QED
        BY <2>2, <3>1, <3>2
    <2>6. FileLedger' = FileLedger
      BY <2>2 DEF FileLedger
    <2>7. ASSUME NEW v \in Thread, HasView(v)'
          PROVE  o \notin Buys(View(v)')
      <3>1. v # t
        BY <1>7, <2>7 DEF HasView, InSave
      <3>2. v \in Thread \ Syncer
        BY <3>1 DEF OneSyncer
      <3>3. WorkStep(t)
        BY <1>2 DEF WorkStep, LoadStep
      <3>4. HasView(v) /\ View(v)' = View(v)
        BY <1>1, <2>2, <2>7, <3>1, <3>3, OtherViews
      <3>5. QED
        BY <2>3, <2>5, <3>2, <3>4
    <2>8. o \notin Buys(FileLedger')
      BY <2>3, <2>4, <2>6
    <2>9. o' = o
      BY <1>2
    <2>10. QED
      BY <2>7, <2>8, <2>9 DEF Missing
  <1>9. QED
    BY <1>4, <1>6, <1>8 DEF OnceInv

\* The operations of the thread that synchronises.
LEMMA StoreStepOnce ==
    ASSUME OneSyncer, OneBroker, SyncTypeInv, StoreInv, TypeInv', OnceInv, ~ misread',
           NEW t \in Syncer, StoreStep(t)
    PROVE  OnceInv'
  <1>1. /\ t \in Thread /\ TypeInv /\ LedgersLogOnce /\ BuysSpread /\ MissingStays
        /\ UNCHANGED <<order, stage>>
    BY SyncAssumption, SyncTypeInvParts DEF OnceInv, StoreStep
  <1>2. pc[t] = "read" => disk[fd[t]].state = "whole"
    BY <1>1, NotMisread DEF StoreStep
  <1>3. stage[t] # "missing"
    BY DEF StoreStep
  <1>4. CASE LoadOpen(t) \/ Acquire(t) \/ SaveStep(t)
    <2>1. LedgersLogOnce' /\ BuysSpread' /\ \A o : Missing(o) => Missing(o)'
      BY <1>1, <1>4, PlainWorkBuys, OnceInvFollows
    <2>2. pc'[t] \in {"load", "read"} => pc[t] = "load" /\ req'[t] = req[t]
      BY <1>1, <1>4 DEF LoadOpen, Acquire, SaveStep, OpenTmp, WriteTmp, ReplaceTmp, Return,
         TypeInv, TypeOK
    <2>3. MissingStays'
      <3> SUFFICES ASSUME pc'[t] \in {"load", "read"}, req'[t].kind = "append"
                   PROVE  Missing(order[t])'
        BY <1>1, <1>3 DEF OneSyncer, MissingStays
      <3>1. Missing(order[t])
        BY <1>1, <2>2 DEF MissingStays
      <3> DEFINE o == order[t]
      <3>2. Missing(o) /\ o' = o
        BY <1>1, <3>1
      <3> HIDE DEF o
      <3>3. Missing(o)'
        BY <2>1, <3>2
      <3>4. QED
        BY <3>3 DEF o
    <2>4. QED
      BY <2>1, <2>3 DEF OnceInv
  <1>5. CASE LoadMissing(t) \/ LoadRead(t)
    <2>1. req[t].kind = "append" => req[t].trade \notin Buys(LoadedLedger(t))
      <3> SUFFICES ASSUME req[t].kind = "append"
                   PROVE  req[t].trade \notin Buys(LoadedLedger(t))
        OBVIOUS
      <3>1. pc[t] \in {"load", "read"}
        BY <1>5 DEF LoadMissing, LoadRead
      <3>2. req[t].trade = order[t] /\ Missing(order[t])
        BY <1>1, <3>1 DEF SyncTypeInv, StagesFollowed, MissingStays
      <3>3. \/ HasView(t) /\ View(t) = LoadedLedger(t)
            \/ Buys(LoadedLedger(t)) = {}
        BY <1>1, <1>2, <1>5, LoadedView
      <3>4. QED
        BY <1>1, <3>2, <3>3 DEF Missing
    <2>2. /\ LedgersLogOnce' /\ FileSource
          /\ \A v \in Thread \ {t} : ViewSource(v)
          /\ ViewGrows(t)
          /\ pc'[t] \in {"idle", "acquire"}
      BY <1>1, <1>2, <1>5, <2>1, LoadEndBuys
    <2>3. (\A b \in Thread \ Syncer : ViewSource(b)) /\ (\A s \in Syncer : ViewGrows(s))
      BY <2>2 DEF OneSyncer
    <2>4. BuysSpread'
      BY <1>1, <2>2, <2>3, BuysSpreadKept
    <2>5. MissingStays'
      BY <1>1, <1>3, <2>2 DEF OneSyncer, MissingStays
    <2>6. QED
      BY <2>2, <2>4, <2>5 DEF OnceInv
  <1>6. QED
    BY <1>4, <1>5 DEF StoreStep

\* The steps of the broker.
LEMMA BrokerStepOnce ==
    ASSUME OneSyncer, OneBroker, SyncTypeInv, StoreInv, BrokerTradesApart, TypeInv', OnceInv,
           ~ misread', NEW t \in Thread \ Syncer, BrokerStep(t)
    PROVE  OnceInv'
  <1>1. /\ TypeInv /\ LedgersLogOnce /\ BuysSpread /\ MissingStays
        /\ UNCHANGED <<order, stage>>
    BY SyncTypeInvParts DEF OnceInv, BrokerStep
  <1>2. pc[t] = "read" => disk[fd[t]].state = "whole"
    BY NotMisread DEF BrokerStep
  <1>3. BuysFollow /\ \A u \in Thread \ {t} : pc'[u] = pc[u] /\ req'[u] = req[u]
    <2>1. CASE \E r \in Request : Call(t, r)
      <3>1. PICK r \in Request : Enter(t, r)
        BY <2>1 DEF Call
      <3>2. \A u \in Thread \ {t} : pc'[u] = pc[u] /\ req'[u] = req[u]
        BY <3>1 DEF Enter
      <3>3. QED
        BY <1>1, <3>1, <3>2, CallBuys DEF TypeInv
    <2>2. CASE LoadOpen(t) \/ Acquire(t) \/ SaveStep(t)
      <3>1. WorkStep(t)
        BY <2>2 DEF WorkStep, LoadStep
      <3>2. QED
        BY <1>1, <2>2, <3>1, PlainWorkBuys, WorkStepFrame
    <2>3. CASE LoadMissing(t) \/ LoadRead(t)
      <3>1. WorkStep(t) /\ pc[t] # "idle"
        BY <2>3 DEF WorkStep, LoadStep, LoadMissing, LoadRead
      <3>2. req[t].kind = "append" => req[t].trade \notin BuyOrder
        BY <3>1 DEF BrokerTradesApart
      <3>3. req[t].kind = "append" => req[t].trade \notin Buys(LoadedLedger(t))
        BY <3>2 DEF Buys
      <3>4. /\ LedgersLogOnce' /\ FileSource
            /\ \A v \in Thread \ {t} : ViewSource(v)
            /\ ViewSource(t)
        BY <1>1, <1>2, <2>3, <3>2, <3>3, LoadEndBuys
      <3>5. BuysFollow
        BY <3>4 DEF BuysFollow
      <3>6. QED
        BY <1>1, <3>1, <3>5, WorkStepFrame
    <2>4. QED
      BY <2>1, <2>2, <2>3 DEF BrokerStep, LoadStep
  <1>4. LedgersLogOnce' /\ BuysSpread' /\ \A o : Missing(o) => Missing(o)'
    BY <1>3, OnceInvFollows
  <1>5. MissingStays'
    <2> SUFFICES ASSUME NEW s \in Syncer,
                        \/ stage'[s] = "missing"
                        \/ pc'[s] \in {"load", "read"} /\ req'[s].kind = "append"
                 PROVE  Missing(order[s])'
      BY DEF MissingStays
    <2>1. pc'[s] = pc[s] /\ req'[s] = req[s]
      BY <1>3, SyncAssumption
    <2>2. Missing(order[s])
      BY <1>1, <2>1 DEF MissingStays
    <2> DEFINE o == order[s]
    <2>3. Missing(o) /\ o' = o
      BY <1>1, <2>2
    <2> HIDE DEF o
    <2>4. Missing(o)'
      BY <1>4, <2>3
    <2>5. QED
      BY <2>4 DEF o
  <1>6. QED
    BY <1>4, <1>5 DEF OnceInv

\* The calls of the thread that synchronises.
LEMMA SyncCallOnce ==
    ASSUME OneSyncer, OneBroker, SyncTypeInv, OnceInv,
           NEW t \in Syncer, StartSync(t) \/ AppendMissing(t)
    PROVE  OnceInv'
  <1>1. t \in Thread /\ TypeInv /\ LedgersLogOnce /\ MissingStays
    BY SyncAssumption, SyncTypeInvParts DEF OnceInv
  <1>2. CASE StartSync(t)
    <2>1. PICK o \in filled :
             \/ /\ Enter(t, [kind |-> "load"])
                /\ stage' = [stage EXCEPT ![t] = "look"]
             \/ /\ o \in SellOrder
                /\ Enter(t, [kind |-> "close", symbol |-> SymbolOf[o]])
                /\ stage' = [stage EXCEPT ![t] = "save"]
      BY <1>2 DEF StartSync
    <2>2. PICK r \in Request : Enter(t, r) /\ r.kind # "append"
      <3>1. [kind |-> "load"] \in Request
        BY DEF Request
      <3>2. ASSUME o \in SellOrder
            PROVE  [kind |-> "close", symbol |-> SymbolOf[o]] \in Request
        <4>1. SymbolOf[o] \in Symbol
          BY <3>2, SyncAssumption
        <4>2. QED
          BY <4>1 DEF Request
      <3>3. QED
        BY <2>1, <3>1, <3>2
    <2>3. BuysFollow
      BY <1>1, <2>2, CallBuys DEF TypeInv
    <2>4. LedgersLogOnce' /\ BuysSpread'
      BY <2>3, OnceInvFollows
    <2>5. stage'[t] # "missing" /\ req'[t].kind # "append"
      BY <1>1, <2>1, <2>2 DEF Enter, SyncTypeInv, SyncTypeOK, TypeInv, TypeOK
    <2>6. MissingStays'
      BY <2>5 DEF OneSyncer, MissingStays
    <2>7. QED
      BY <2>4, <2>6 DEF OnceInv
  <1>3. CASE AppendMissing(t)
    <2> DEFINE r == [kind |-> "append", trade |-> order[t], symbol |-> SymbolOf[order[t]]]
    <2>1. stage[t] = "missing" /\ Enter(t, r) /\ order' = order
      BY <1>3 DEF AppendMissing
    <2>2. r \in Request
      <3>1. order[t] \in BuyOrder
        BY <2>1 DEF SyncTypeInv, StagesFollowed
      <3>2. order[t] \in Trade /\ SymbolOf[order[t]] \in Symbol
        BY <3>1, SyncAssumption
      <3>3. QED
        BY <3>2 DEF Request
    <2>3. BuysFollow
      BY <1>1, <2>1, <2>2, CallBuys DEF TypeInv
    <2>4. LedgersLogOnce' /\ BuysSpread' /\ \A o : Missing(o) => Missing(o)'
      BY <2>3, OnceInvFollows
    <2> DEFINE o == order[t]
    <2>5. Missing(o) /\ o' = o
      BY <1>1, <2>1 DEF MissingStays
    <2> HIDE DEF o
    <2>6. Missing(o)'
      BY <2>4, <2>5
    <2>7. Missing(order[t])'
      BY <2>5, <2>6 DEF o
    <2>8. MissingStays'
      BY <2>7 DEF OneSyncer, MissingStays
    <2>9. QED
      BY <2>4, <2>8 DEF OnceInv
  <1>4. QED
    BY <1>2, <1>3

\* The steps that leave the store alone.
LEMMA IdleOnce ==
    ASSUME SyncTypeInv, OnceInv, UNCHANGED vars,
           \A s \in Syncer : stage'[s] = "missing" => stage[s] = "missing",
           \A s \in Syncer : order'[s] = order[s] \/ (stage'[s] # "missing" /\ pc[s] = "idle")
    PROVE  OnceInv'
  <1>1. UNCHANGED <<disk, path, tmp, pc, fd, req, payload>>
    BY DEF vars
  <1>2. LedgersLogOnce' /\ FileLedger' = FileLedger /\ (PathHoldsWholeLedger' <=> PathHoldsWholeLedger)
    BY <1>1 DEF OnceInv, LedgersLogOnce, LoggedOnce, FileLedger, PathHoldsWholeLedger
  <1>3. \A v \in Thread : (HasView(v)' <=> HasView(v)) /\ View(v)' = View(v)
    BY <1>1 DEF HasView, View
  <1>4. BuysSpread'
    BY <1>2, <1>3, SyncAssumption DEF OnceInv, BuysSpread, Buys
  <1>5. MissingStays'
    BY <1>1, <1>2, <1>3 DEF OnceInv, MissingStays, Missing, Buys
  <1>6. QED
    BY <1>2, <1>4, <1>5 DEF OnceInv

\* Every step keeps the invariant.
LEMMA SyncInvStep ==
    ASSUME OneSyncer, OneBroker
    PROVE  SyncTypeInv /\ SyncInv /\ [SyncNext]_<<vars, syncVars>> => SyncInv'
  <1> SUFFICES ASSUME SyncTypeInv, SyncInv, [SyncNext]_<<vars, syncVars>>
               PROVE  SyncInv'
    OBVIOUS
  <1>1. SyncTypeInv' /\ StoreInv' /\ BrokerTradesApart'
    BY SyncTypeInvStep, StoreInvStep, BrokerTradesStep DEF SyncInv
  <1>2. TypeInv'
    BY <1>1, SyncTypeInvParts DEF SyncTypeInv, SyncTypeOK, TypeInv
  <1>3. ASSUME ~ misread'
        PROVE  OnceInv'
    <2>1. ~ misread
      BY <1>3 DEF SyncNext, SyncStep, Fill, StartSync, Look, AppendMissing, StoreStep, EndSync,
         BrokerStep, CrashSync, NoteMisread, syncVars
    <2>2. OnceInv /\ StoreInv /\ BrokerTradesApart
      BY <2>1 DEF SyncInv
    <2>3. CASE Fill \/ UNCHANGED <<vars, syncVars>>
      BY <2>2, <2>3, IdleOnce DEF Fill, syncVars
    <2>4. ASSUME NEW t \in Syncer, EndSync(t)
          PROVE  OnceInv'
      BY <2>2, <2>4, IdleOnce DEF EndSync, SyncTypeInv, SyncTypeOK
    <2>5. CASE CrashSync
      <3>1. LedgersLogOnce' /\ BuysSpread'
        BY <2>2, <2>5, CrashBuys, OnceInvFollows DEF CrashSync, OnceInv
      <3>2. MissingStays'
        BY <2>5, SyncAssumption DEF CrashSync, Crash, MissingStays
      <3>3. QED
        BY <3>1, <3>2 DEF OnceInv
    <2>6. QED
      BY <1>2, <1>3, <2>2, <2>3, <2>4, <2>5, SyncCallOnce, LookOnce, StoreStepOnce, BrokerStepOnce
         DEF SyncNext, SyncStep
  <1>4. QED
    BY <1>1, <1>3 DEF SyncInv, SyncTypeInv

\* The invariant holds before the first call.
LEMMA SyncInvInit == SyncInit => SyncInv
  <1> SUFFICES ASSUME SyncInit
               PROVE  SyncInv
    OBVIOUS
  <1>1. SyncTypeInv
    BY SyncTypeInvInit
  <1>2. Init /\ stage = [t \in Syncer |-> "rest"]
    BY DEF SyncInit
  <1>3. StoreInv
    BY <1>1, <1>2 DEF Init, SyncTypeInv, SyncTypeOK, StoreInv, NamesApart, ReadersApart,
       TmpWrittenToRename, SharedInodeIsPath, BrokenFilesAreBlank, EmptyFile
  <1>4. LedgersLogOnce
    BY <1>2, LoggedOnceBlank DEF Init, LedgersLogOnce, EmptyFile
  <1>5. BuysSpread /\ MissingStays /\ BrokerTradesApart
    BY <1>2, SyncAssumption
       DEF Init, BuysSpread, HasView, InSave, MissingStays, BrokerTradesApart
  <1>6. QED
    BY <1>1, <1>3, <1>4, <1>5 DEF SyncInv, SyncTypeInv, OnceInv

\* A ledger that logs each buy once has one log of a buy at most.
LEMMA OneLogOfEach ==
    ASSUME NEW l \in Ledger, LoggedOnce(l), NEW o \in BuyOrder
    PROVE  Cardinality({k \in DOMAIN l.logs : l.logs[k].trade = o}) <= 1
  <1> DEFINE S == {k \in DOMAIN l.logs : l.logs[k].trade = o}
  <1>1. \A i, j \in S : i = j
    BY DEF LoggedOnce
  <1>2. CASE S = {}
    BY <1>2, FS_EmptySet
  <1>3. CASE S # {}
    <2>1. PICK k : S = {k}
      BY <1>1, <1>3
    <2>2. Cardinality(S) = 1
      BY <2>1, FS_Singleton
    <2>3. QED
      BY <2>2
  <1>4. QED
    BY <1>2, <1>3

\* One thread that synchronises orders beside one thread that uses the broker,
\* each behind a lock of its own, gives no order a second trade log, through
\* failed saves and crashes, while no load has found the file half written.
THEOREM OrdersLoggedOnce ==
    ASSUME OneSyncer, OneBroker
    PROVE  SyncSpec => []SyncedOnce
  <1>1. SyncInit => SyncTypeInv /\ SyncInv
    BY SyncTypeInvInit, SyncInvInit
  <1>2. SyncTypeInv /\ SyncInv /\ [SyncNext]_<<vars, syncVars>> => (SyncTypeInv /\ SyncInv)'
    BY SyncTypeInvStep, SyncInvStep
  <1>3. SyncInv => SyncedOnce
    <2> SUFFICES ASSUME SyncInv, ~ misread, NEW o \in BuyOrder
                 PROVE  Cardinality({k \in DOMAIN FileLedger.logs : FileLedger.logs[k].trade = o}) <= 1
      BY DEF SyncedOnce
    <2>1. TypeOK /\ LedgersLogOnce
      BY DEF SyncInv, SyncTypeOK, OnceInv
    <2>2. FileLedger \in Ledger
      BY <2>1, FileLedgerType
    <2>3. LoggedOnce(FileLedger)
      BY <2>1, LoggedOnceBlank DEF LedgersLogOnce, FileLedger, TypeOK
    <2>4. QED
      BY <2>2, <2>3, OneLogOfEach
  <1>4. QED
    BY <1>1, <1>2, <1>3, PTL DEF SyncSpec
=============================================================================
