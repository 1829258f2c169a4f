--------------------------- MODULE LiveTradeSync ----------------------------
(***************************************************************************)
(* services/live_trade_sync_service.py: filled orders of the exchange are  *)
(* written into the trade logs of the ledger, a buy as a new log under the *)
(* order's uuid, a sell as the end of the latest open log of its symbol.   *)
(*                                                                         *)
(* It runs on an API worker, beside the threads that use the broker, and   *)
(* goes through a LedgerStore of its own: every read and write below is    *)
(* made of LedgerStore's steps, and the file may move between any two.     *)
(***************************************************************************)
EXTENDS LedgerStore, FiniteSets

CONSTANTS
    Syncer,     \* the threads that serve POST /operator/live-trades/sync
    BuyOrder,   \* buys of the exchange; their uuids become trade identifiers
    SellOrder,  \* sells of the exchange
    SymbolOf,   \* the symbol of each order
    MaxSyncs,   \* bound of the exploration
    NoOrder     \* what a thread that is not synchronising works on

ASSUME SyncAssumption ==
    /\ Syncer \subseteq Thread
    /\ BuyOrder \subseteq Trade
    /\ SymbolOf \in [BuyOrder \cup SellOrder -> Symbol]
    /\ NoOrder \notin BuyOrder \cup SellOrder
    /\ MaxSyncs \in Nat

Order == BuyOrder \cup SellOrder

VARIABLES
    filled,   \* the orders the exchange reports as over, with a volume
    order,    \* the order a thread synchronises
    stage,    \* where it is: looking for its log, missing it, saving
    syncs,    \* how many synchronisations have begun
    misread   \* history: some load has found the file half written

syncVars == <<filled, order, stage, syncs, misread>>

SyncTypeOK ==
    /\ TypeOK
    /\ filled \subseteq Order
    /\ order \in [Syncer -> Order \cup {NoOrder}]
    /\ stage \in [Syncer -> {"rest", "look", "missing", "save", "done"}]
    /\ syncs \in 0 .. MaxSyncs
    /\ misread \in BOOLEAN

SyncInit ==
    /\ Init
    /\ filled = {}
    /\ order = [t \in Syncer |-> NoOrder]
    /\ stage = [t \in Syncer |-> "rest"]
    /\ syncs = 0
    /\ misread = FALSE
-----------------------------------------------------------------------------
\* The exchange fills an order, or some of it, and it is over.  An order that
\* is open, or over without a fill, is reported as such and changes nothing.
Fill ==
    /\ \E o \in Order \ filled : filled' = filled \cup {o}
    /\ UNCHANGED <<order, stage, syncs, misread, vars>>

\* sync_order finds a fill.  sync_latest_submitted_order picks the order from
\* the run history, and may pick any that was submitted.
StartSync(t) ==
    /\ stage[t] = "rest" /\ syncs < MaxSyncs
    /\ syncs' = syncs + 1
    /\ \E o \in filled :
          /\ order' = [order EXCEPT ![t] = o]
          /\ \/ /\ o \in BuyOrder
                /\ Enter(t, [kind |-> "load"])
                /\ stage' = [stage EXCEPT ![t] = "look"]
             \/ /\ o \in SellOrder
                /\ Enter(t, [kind |-> "close", symbol |-> SymbolOf[o]])
                /\ stage' = [stage EXCEPT ![t] = "save"]
    /\ UNCHANGED <<filled, misread>>

\* What the load() of a thread returns.
LoadedLedger(t) ==
    IF pc[t] = "load" THEN EmptyLedger
    ELSE IF disk[fd[t]].state = "whole" THEN disk[fd[t]].ledger ELSE CorruptedLedger

NoteMisread(t) ==
    misread' = (misread \/ (pc[t] = "read" /\ disk[fd[t]].state # "whole"))

\* Mutated form of Look: the logs are not searched.
LookAway(t) ==
    /\ stage[t] = "look"
    /\ LoadMissing(t) \/ LoadRead(t)
    /\ stage' = [stage EXCEPT ![t] = "missing"]
    /\ NoteMisread(t)
    /\ UNCHANGED <<filled, order, syncs>>

\* The load of the trade logs ends, and the order has a log in it or not.
Look(t) ==
    /\ stage[t] = "look"
    /\ LoadMissing(t) \/ LoadRead(t)
    /\ stage' =
          [stage EXCEPT ![t] =
              IF order[t] \in TradesIn(LoadedLedger(t).logs) THEN "done" ELSE "missing"]
    /\ NoteMisread(t)
    /\ UNCHANGED <<filled, order, syncs>>

AppendMissing(t) ==
    /\ stage[t] = "missing"
    /\ Enter(t, [kind |-> "append", trade |-> order[t], symbol |-> SymbolOf[order[t]]])
    /\ stage' = [stage EXCEPT ![t] = "save"]
    /\ UNCHANGED <<filled, order, syncs, misread>>

\* The other steps of the store's operations.
StoreStep(t) ==
    /\ stage[t] \in {"look", "save"}
    /\ \/ LoadOpen(t)
       \/ stage[t] = "save" /\ (LoadMissing(t) \/ LoadRead(t))
       \/ Acquire(t)
       \/ SaveStep(t)
    /\ NoteMisread(t)
    /\ UNCHANGED <<filled, order, stage, syncs>>

\* The answer goes to the operator: the operation has returned or raised.
EndSync(t) ==
    /\ stage[t] \in {"save", "done"} /\ pc[t] = "idle"
    /\ order' = [order EXCEPT ![t] = NoOrder]
    /\ stage' = [stage EXCEPT ![t] = "rest"]
    /\ UNCHANGED <<filled, syncs, misread, vars>>

SyncStep(t) == Look(t) \/ AppendMissing(t) \/ StoreStep(t) \/ EndSync(t)

\* The broker's threads log trades of their own.
BrokerStep(t) ==
    /\ \/ \E r \in Request : (r.kind = "append" => r.trade \notin BuyOrder) /\ Call(t, r)
       \/ LoadStep(t)
       \/ Acquire(t)
       \/ SaveStep(t)
    /\ NoteMisread(t)
    /\ UNCHANGED <<filled, order, stage, syncs>>

CrashSync ==
    /\ Crash
    /\ order' = [t \in Syncer |-> NoOrder]
    /\ stage' = [t \in Syncer |-> "rest"]
    /\ UNCHANGED <<filled, syncs, misread>>

SyncNext ==
    \/ Fill
    \/ \E t \in Syncer : StartSync(t) \/ SyncStep(t)
    \/ \E t \in Thread \ Syncer : BrokerStep(t)
    \/ CrashSync

\* A thread that synchronises goes on: it waits for nothing but the lock of its
\* store.  The broker's threads go on while they are inside save().
SyncSpec ==
    /\ SyncInit /\ [][SyncNext]_<<vars, syncVars>>
    /\ \A t \in Syncer : WF_<<vars, syncVars>>(SyncStep(t))
    /\ \A t \in Thread \ Syncer : WF_<<vars, syncVars>>(SaveStep(t) /\ UNCHANGED syncVars)
-----------------------------------------------------------------------------
(***************************************************************************)
(* Properties.                                                             *)
(***************************************************************************)

\* An order that is synchronised again and again, also after a save that
\* failed or a restart, has one trade log at most, while the broker rewrites
\* the same file.  It takes one thread that synchronises (two both miss the log,
\* live_trade_sync_service.py:47), one that uses the broker (of two, one may
\* write back a ledger it loaded before the log was there, the sync misses it
\* and the other brings it back before it is appended again), and that nobody
\* reads the file half written, which the two locks allow: an order is then
\* missing that is not.
SyncedOnce ==
    ~misread =>
        \A o \in BuyOrder :
            Cardinality({k \in DOMAIN FileLedger.logs : FileLedger.logs[k].trade = o}) <= 1

\* Every synchronisation comes back to the operator, although the broker's
\* saves take its temporary file away and make its own fail.
SyncsEnd == \A t \in Syncer : stage[t] # "rest" ~> stage[t] = "rest"
-----------------------------------------------------------------------------
(***************************************************************************)
(* Inductive strengthening of SyncedOnce, for LedgerStoreProofs.           *)
(***************************************************************************)

\* The buys that a ledger has a log of.
Buys(l) == TradesIn(l.logs) \cap BuyOrder

LoggedOnce(l) ==
    \A i, j \in DOMAIN l.logs :
        l.logs[i].trade \in BuyOrder /\ l.logs[i].trade = l.logs[j].trade => i = j

\* A thread has a view of the ledger from the opening of the file to the end of
\* its operation: what it will read, then what it will save.
HasView(t) ==
    \/ pc[t] = "read" /\ disk[fd[t]].state = "whole"
    \/ pc[t] \in {"acquire"} \cup InSave

View(t) == IF pc[t] = "read" THEN disk[fd[t]].ledger ELSE payload[t]

\* The operation a synchronising thread performs is the one its stage calls for.
StagesFollowed ==
    \A t \in Syncer :
        /\ stage[t] \in {"rest", "missing", "done"} => pc[t] = "idle"
        /\ stage[t] # "rest" => order[t] \in Order
        /\ stage[t] = "missing" => order[t] \in BuyOrder
        /\ stage[t] = "look" =>
              order[t] \in BuyOrder /\ pc[t] \in {"load", "read"} /\ req[t].kind = "load"
        /\ pc[t] # "idle" /\ req[t].kind = "append" =>
              stage[t] = "save" /\ order[t] \in BuyOrder /\ req[t].trade = order[t]

\* The broker's own logs never bear the uuid of an order.
BrokerTradesApart ==
    \A t \in Thread \ Syncer :
        pc[t] # "idle" /\ req[t].kind = "append" => req[t].trade \notin BuyOrder

\* What a rename can put in place was written by a thread about to rename.
TmpWrittenToRename ==
    \A t \in Thread :
        pc[t] \in {"write", "replace"} /\ tmp # NoInode /\ disk[tmp].state = "whole" =>
            \E u \in Thread : pc[u] = "replace" /\ disk[tmp] = WholeFile(payload[u])

\* A reader shares its inode with a writer only when that inode is ledger.json.
SharedInodeIsPath ==
    \A t, u \in Thread :
        pc[t] = "write" /\ pc[u] = "read" /\ fd[t] = fd[u] => path = fd[t]

\* A file that is not whole reads as a ledger with no log.
BrokenFilesAreBlank == \A i \in Inode : disk[i].state # "whole" => disk[i].ledger = EmptyLedger

\* No ledger, in a file or in memory, has two logs of one buy.
LedgersLogOnce ==
    /\ \A i \in Inode : LoggedOnce(disk[i].ledger)
    /\ \A t \in Thread : LoggedOnce(payload[t])

\* The broker knows no buy that the file or a synchronising thread lacks, and
\* the file has none that a synchronising thread lacks: only that thread adds.
BuysSpread ==
    /\ \A b \in Thread \ Syncer :
          HasView(b) /\ PathHoldsWholeLedger => Buys(View(b)) \subseteq Buys(FileLedger)
    /\ \A s \in Syncer :
          HasView(s) =>
              /\ Buys(FileLedger) \subseteq Buys(View(s))
              /\ \A b \in Thread \ Syncer : HasView(b) => Buys(View(b)) \subseteq Buys(View(s))

\* An order found missing is missing until its log is appended.
Missing(o) ==
    /\ o \notin Buys(FileLedger)
    /\ \A t \in Thread : HasView(t) => o \notin Buys(View(t))

MissingStays ==
    \A s \in Syncer :
        (stage[s] = "missing" \/ (pc[s] \in {"load", "read"} /\ req[s].kind = "append")) =>
            Missing(order[s])

StoreInv ==
    /\ TypeOK /\ ThreadsReady /\ NamesApart /\ ReadersApart
    /\ TmpWrittenToRename /\ SharedInodeIsPath /\ BrokenFilesAreBlank

OnceInv == LedgersLogOnce /\ BuysSpread /\ MissingStays

SyncInv ==
    /\ SyncTypeOK /\ StoreInv /\ StagesFollowed /\ BrokerTradesApart
    /\ ~misread => OnceInv
=============================================================================
