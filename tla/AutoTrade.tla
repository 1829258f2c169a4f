------------------------------ MODULE AutoTrade ------------------------------
(***************************************************************************)
(* The automatic trading loop and what reaches the exchange:               *)
(* auto_trade_service.py, shadow_service.py, the order submission of       *)
(* trading_cycle.py, and live_execution_service.py.                        *)
(*                                                                         *)
(* start() creates a thread that calls run_once() and sleeps, as long as   *)
(* active is set; stop() clears active and joins nothing.  API workers     *)
(* call run_once(), or one shadow cycle, on the same objects at any time.  *)
(* A run reads the account, checks the cooldown, evaluates one strategy    *)
(* cycle after another, then decides on one trade.  In live mode with the  *)
(* confirmation set (armed) a cycle submits its approved signal itself.    *)
(*                                                                         *)
(* Which signals come, what the account allows and how the exchange        *)
(* answers are free choices.  An order may be accepted and its answer      *)
(* lost (a timeout of the HTTP client): create_order then raises.          *)
(***************************************************************************)
EXTENDS Naturals, Sequences

CONSTANTS
    Loop,       \* the threads that start() can create
    Worker,     \* the API threads
    NoOrder,
    Cooldown,   \* auto_trade_interval_seconds * auto_trade_cooldown_cycles
    Cycles,     \* enabled strategies times evaluated symbols
    MaxBuys,    \* buy candidates a run can find
    MaxTime, MaxOrders, MaxCrashes  \* bounds of the exploration

Thread == Loop \cup Worker

ASSUME AutoTradeAssumption ==
    /\ Loop \cap Worker = {}
    /\ {Cooldown, Cycles, MaxBuys, MaxOrders, MaxCrashes} \subseteq Nat
    /\ MaxTime \in Nat \ {0}

VARIABLES
    mode,           \* live_mode and confirm_live_trading, read at start-up
    active,
    lastSubmitted,  \* _last_submitted_at: 0 before the first
    clock,          \* the time, from 1 on
    pc,
    job,            \* what an API worker was asked for, "run" for a loop
    cycles,         \* strategy cycles a run has still to evaluate
    buys,           \* executable buys a run can still fall back on
    order,          \* the order a thread is submitting
    orders,         \* the orders the exchange has accepted, oldest first
    crashes

vars == <<mode, active, lastSubmitted, clock, pc, job, cycles, buys, order, orders, crashes>>

\* A cycle submits during evaluation, run_once after its decision.
Origin == {"cycle", "decision"}
Side == {"buy", "sell"}
OrderInHand == [origin : Origin, side : Side]

\* Two fields are no part of the code: open, while the run that placed the order
\* goes on, and known, once the process has noted the time of the submission.
AcceptedOrder ==
    [origin : Origin, side : Side, by : Thread, job : {"run", "shadow"},
     at : Nat, open : BOOLEAN, known : BOOLEAN]

\* The steps of a run that call the exchange or write the run history, from
\* which an exception can leave it.
CallsOut ==
    {"account", "cooldown", "scan", "preview", "submit", "create", "record", "remember"}

InRun == CallsOut \cup {"decide", "stamp"}

\* A loop that stopped has ended; one that an exception has killed has died.
NotRunning == {"ended", "died"}

PC == {"top", "error", "sleep", "idle"} \cup NotRunning \cup InRun

TypeOK ==
    /\ mode \in [live : {"paper", "shadow", "live"}, confirm : BOOLEAN]
    /\ active \in BOOLEAN
    /\ lastSubmitted \in 0 .. MaxTime
    /\ clock \in 1 .. MaxTime
    /\ pc \in [Thread -> PC]
    /\ job \in [Thread -> {"run", "shadow"}]
    /\ cycles \in [Thread -> Nat]
    /\ buys \in [Thread -> 0 .. MaxBuys]
    /\ order \in [Thread -> OrderInHand \cup {NoOrder}]
    /\ orders \in Seq(AcceptedOrder)
    /\ crashes \in 0 .. MaxCrashes

Armed == mode.live = "live" /\ mode.confirm

FreshThreads ==
    /\ pc = [t \in Thread |-> IF t \in Loop THEN "ended" ELSE "idle"]
    /\ job = [t \in Thread |-> "run"]
    /\ cycles = [t \in Thread |-> 0]
    /\ buys = [t \in Thread |-> 0]
    /\ order = [t \in Thread |-> NoOrder]

Init ==
    /\ mode \in [live : {"paper", "shadow", "live"}, confirm : BOOLEAN]
    /\ active = FALSE
    /\ lastSubmitted = 0
    /\ clock = 1
    /\ orders = <<>>
    /\ crashes = 0
    /\ FreshThreads
-----------------------------------------------------------------------------
(***************************************************************************)
(* start, stop and the loop.                                               *)
(***************************************************************************)

Goto(t, l) == pc' = [pc EXCEPT ![t] = l]

\* Only active is looked at: a loop that has not noticed the last stop yet
\* goes on beside the new one.
Start(l) ==
    /\ ~active
    /\ pc[l] \in NotRunning
    /\ active' = TRUE
    /\ Goto(l, "top")
    /\ UNCHANGED <<mode, lastSubmitted, clock, job, cycles, buys, order, orders, crashes>>

Stop ==
    /\ active
    /\ active' = FALSE
    /\ UNCHANGED <<mode, lastSubmitted, clock, pc, job, cycles, buys, order, orders, crashes>>

\* Mutated form of LoopTop: the loop does not look at active.
LoopForever(l) ==
    /\ pc[l] = "top"
    /\ Goto(l, "account")
    /\ UNCHANGED <<mode, active, lastSubmitted, clock, job, cycles, buys, order, orders, crashes>>

\* `while self.active`.
LoopTop(l) ==
    /\ pc[l] = "top"
    /\ Goto(l, IF active THEN "account" ELSE "ended")
    /\ UNCHANGED <<mode, active, lastSubmitted, clock, job, cycles, buys, order, orders, crashes>>

\* The interval is over, or active was cleared meanwhile.
WakeUp(l) ==
    /\ pc[l] = "sleep"
    /\ Goto(l, "top")
    /\ UNCHANGED <<mode, active, lastSubmitted, clock, job, cycles, buys, order, orders, crashes>>

WorkerCall(w, j) ==
    /\ pc[w] = "idle"
    /\ Goto(w, "account")
    /\ job' = [job EXCEPT ![w] = j]
    /\ UNCHANGED <<mode, active, lastSubmitted, clock, cycles, buys, order, orders, crashes>>
-----------------------------------------------------------------------------
(***************************************************************************)
(* run_once, and a shadow cycle as the run of a single strategy cycle.     *)
(***************************************************************************)

\* Mutated form of CooldownActive: the last cycle of the cooldown is left out.
CooldownShort == lastSubmitted # 0 /\ clock + 1 < lastSubmitted + Cooldown

CooldownActive == lastSubmitted # 0 /\ clock < lastSubmitted + Cooldown

ReadAccount(t) ==
    /\ pc[t] = "account"
    /\ Goto(t, IF job[t] = "run" THEN "cooldown" ELSE "scan")
    /\ cycles' = [cycles EXCEPT ![t] = IF job[t] = "run" THEN 0 ELSE 1]
    /\ UNCHANGED <<mode, active, lastSubmitted, clock, job, buys, order, orders, crashes>>

CheckCooldown(t) ==
    /\ pc[t] = "cooldown"
    /\ Goto(t, IF CooldownActive THEN "remember" ELSE "scan")
    /\ cycles' = [cycles EXCEPT ![t] = IF CooldownActive THEN 0 ELSE Cycles]
    /\ UNCHANGED <<mode, active, lastSubmitted, clock, job, buys, order, orders, crashes>>

\* A cycle that approves nothing, or trades on the paper account.
PassCycle(t) ==
    /\ pc[t] = "scan" /\ cycles[t] > 0
    /\ cycles' = [cycles EXCEPT ![t] = @ - 1]
    /\ UNCHANGED <<mode, active, lastSubmitted, clock, pc, job, buys, order, orders, crashes>>

\* An armed cycle submits what the risk controller has approved.
ArmedCycle(t, side) ==
    /\ pc[t] = "scan" /\ cycles[t] > 0
    /\ Armed
    /\ cycles' = [cycles EXCEPT ![t] = @ - 1]
    /\ order' = [order EXCEPT ![t] = [origin |-> "cycle", side |-> side]]
    /\ Goto(t, "submit")
    /\ UNCHANGED <<mode, active, lastSubmitted, clock, job, buys, orders, crashes>>

\* All cycles are evaluated; n of the candidates are executable buys.
EndScan(t) ==
    /\ pc[t] = "scan" /\ cycles[t] = 0
    /\ \/ /\ job[t] = "shadow"
          /\ Goto(t, "remember")
          /\ UNCHANGED buys
       \/ /\ job[t] = "run"
          /\ Goto(t, "decide")
          /\ \E n \in 0 .. MaxBuys : buys' = [buys EXCEPT ![t] = n]
    /\ UNCHANGED <<mode, active, lastSubmitted, clock, job, cycles, order, orders, crashes>>

Try(t, side, fallbacks) ==
    /\ order' = [order EXCEPT ![t] = [origin |-> "decision", side |-> side]]
    /\ buys' = [buys EXCEPT ![t] = fallbacks]
    /\ Goto(t, "preview")
    /\ UNCHANGED <<mode, active, lastSubmitted, clock, job, cycles, orders, crashes>>

DecideSell(t) == pc[t] = "decide" /\ Try(t, "sell", 0)

\* The best executable buy has the others to fall back on; a buy preferred to a
\* weak sell has none.
DecideBuy(t) ==
    /\ pc[t] = "decide" /\ buys[t] > 0
    /\ \E n \in {0, buys[t] - 1} : Try(t, "buy", n)

\* No candidate, or one that _handle_buy or _handle_sell skips by its size.
DecideNothing(t) ==
    /\ pc[t] = "decide"
    /\ Goto(t, "remember")
    /\ UNCHANGED <<mode, active, lastSubmitted, clock, job, cycles, buys, order, orders, crashes>>
-----------------------------------------------------------------------------
(***************************************************************************)
(* _submit_trade and submit_order.                                         *)
(***************************************************************************)

PreviewAllowed(t) ==
    /\ pc[t] = "preview"
    /\ Goto(t, "submit")
    /\ UNCHANGED <<mode, active, lastSubmitted, clock, job, cycles, buys, order, orders, crashes>>

\* Mutated form of NextBuy: the blocked run selects its candidates anew.
NextBuySelectsAgain(t) ==
    /\ pc[t] = "preview" /\ buys[t] > 0
    /\ Goto(t, "scan")
    /\ UNCHANGED <<mode, active, lastSubmitted, clock, job, cycles, buys, order, orders, crashes>>

\* Mutated form of NextBuy: the loop runs past the last candidate.
NextBuyPastLast(t) ==
    /\ pc[t] = "preview"
    /\ buys' = [buys EXCEPT ![t] = @ - 1]
    /\ UNCHANGED <<mode, active, lastSubmitted, clock, pc, job, cycles, order, orders, crashes>>

\* A blocked preview lets the next executable buy have its turn.
NextBuy(t) ==
    /\ pc[t] = "preview" /\ buys[t] > 0
    /\ buys' = [buys EXCEPT ![t] = @ - 1]
    /\ UNCHANGED <<mode, active, lastSubmitted, clock, pc, job, cycles, order, orders, crashes>>

\* A blocked preview of the last buy, or of the sell.
PreviewBlocked(t) ==
    /\ pc[t] = "preview" /\ buys[t] = 0
    /\ Goto(t, "remember")
    /\ UNCHANGED <<mode, active, lastSubmitted, clock, job, cycles, buys, order, orders, crashes>>

\* submit_order returns to the cycle it was called from or to _submit_trade.
AfterSubmit(t) ==
    /\ Goto(t, IF order[t].origin = "cycle" THEN "scan" ELSE "stamp")
    /\ order' = [order EXCEPT ![t] = IF @.origin = "cycle" THEN NoOrder ELSE @]

\* A dry run in paper mode, blocked by its mode or the missing confirmation, or
\* blocked by the second preview.
SubmitNothing(t) ==
    /\ pc[t] = "submit"
    /\ AfterSubmit(t)
    /\ UNCHANGED <<mode, active, lastSubmitted, clock, job, cycles, buys, orders, crashes>>

\* Mutated form of SubmitLive: the confirmation is not asked for.
SubmitUnconfirmed(t) ==
    /\ pc[t] = "submit"
    /\ mode.live = "live"
    /\ Goto(t, "create")
    /\ UNCHANGED <<mode, active, lastSubmitted, clock, job, cycles, buys, order, orders, crashes>>

SubmitLive(t) ==
    /\ pc[t] = "submit"
    /\ Armed
    /\ Goto(t, "create")
    /\ UNCHANGED <<mode, active, lastSubmitted, clock, job, cycles, buys, order, orders, crashes>>

WithAccepted(t) ==
    Append(orders, [origin |-> order[t].origin, side |-> order[t].side, by |-> t,
                    job |-> job[t], at |-> clock, open |-> TRUE, known |-> FALSE])

CreateAccepted(t) ==
    /\ pc[t] = "create" /\ Len(orders) < MaxOrders
    /\ orders' = WithAccepted(t)
    /\ Goto(t, "record")
    /\ UNCHANGED <<mode, active, lastSubmitted, clock, job, cycles, buys, order, crashes>>

Record(t) ==
    /\ pc[t] = "record"
    /\ AfterSubmit(t)
    /\ UNCHANGED <<mode, active, lastSubmitted, clock, job, cycles, buys, orders, crashes>>

\* The orders os once the process knows of the submission t has just made.
Known(t, os) ==
    [i \in DOMAIN os |->
        IF os[i].by = t /\ os[i].open /\ os[i].origin = "decision"
        THEN [os[i] EXCEPT !.known = TRUE] ELSE os[i]]

\* Mutated form of Stamp: the fallback loop goes on after a submission.
StampAndNextBuy(t) ==
    /\ pc[t] = "stamp"
    /\ lastSubmitted' = IF order[t].side = "buy" THEN clock ELSE lastSubmitted
    /\ orders' = IF order[t].side = "buy" THEN Known(t, orders) ELSE orders
    /\ Goto(t, IF buys[t] > 0 THEN "preview" ELSE "remember")
    /\ buys' = [buys EXCEPT ![t] = IF @ > 0 THEN @ - 1 ELSE 0]
    /\ UNCHANGED <<mode, active, clock, job, cycles, order, crashes>>

\* The cooldown starts after a buy, also one that was blocked or a dry run; a
\* sell starts none.
Stamp(t) ==
    /\ pc[t] = "stamp"
    /\ lastSubmitted' = IF order[t].side = "buy" THEN clock ELSE lastSubmitted
    /\ orders' = IF order[t].side = "buy" THEN Known(t, orders) ELSE orders
    /\ Goto(t, "remember")
    /\ UNCHANGED <<mode, active, clock, job, cycles, buys, order, crashes>>
-----------------------------------------------------------------------------
(***************************************************************************)
(* The end of a run, by its result or by an exception.                     *)
(***************************************************************************)

Closed(t, os) ==
    [i \in DOMAIN os |-> IF os[i].by = t THEN [os[i] EXCEPT !.open = FALSE] ELSE os[i]]

LeaveRun(t, os, l) ==
    /\ Goto(t, l)
    /\ order' = [order EXCEPT ![t] = NoOrder]
    /\ cycles' = [cycles EXCEPT ![t] = 0]
    /\ buys' = [buys EXCEPT ![t] = 0]
    /\ job' = [job EXCEPT ![t] = "run"]
    /\ orders' = Closed(t, os)
    /\ UNCHANGED <<mode, active, lastSubmitted, clock, crashes>>

Remember(t) ==
    /\ pc[t] = "remember"
    /\ LeaveRun(t, orders, IF t \in Loop THEN "sleep" ELSE "idle")

\* The loop catches the exception, an API call fails with it.
Raise(t, os) == LeaveRun(t, os, IF t \in Loop THEN "error" ELSE "idle")

Fail(t) == pc[t] \in CallsOut /\ Raise(t, orders)

\* The exchange accepts the order and the client never sees the answer.
CreateLost(t) ==
    /\ pc[t] = "create" /\ Len(orders) < MaxOrders
    /\ Raise(t, WithAccepted(t))

\* The handler records the error; when that fails as well the thread ends, and
\* active stays set.
RememberError(l) ==
    /\ pc[l] = "error"
    /\ \E next \in {"sleep", "died"} : Goto(l, next)
    /\ UNCHANGED <<mode, active, lastSubmitted, clock, job, cycles, buys, order, orders, crashes>>
-----------------------------------------------------------------------------
Tick ==
    /\ clock < MaxTime
    /\ clock' = clock + 1
    /\ UNCHANGED <<mode, active, lastSubmitted, pc, job, cycles, buys, order, orders, crashes>>

\* The process ends and is started again; the cooldown is not stored.
Crash ==
    /\ crashes < MaxCrashes
    /\ crashes' = crashes + 1
    /\ active' = FALSE
    /\ lastSubmitted' = 0
    /\ orders' = [i \in DOMAIN orders |-> [orders[i] EXCEPT !.open = FALSE, !.known = FALSE]]
    /\ pc' = [t \in Thread |-> IF t \in Loop THEN "ended" ELSE "idle"]
    /\ job' = [t \in Thread |-> "run"]
    /\ cycles' = [t \in Thread |-> 0]
    /\ buys' = [t \in Thread |-> 0]
    /\ order' = [t \in Thread |-> NoOrder]
    /\ UNCHANGED <<mode, clock>>

RunStep(t) ==
    \/ ReadAccount(t) \/ CheckCooldown(t)
    \/ PassCycle(t) \/ EndScan(t)
    \/ DecideSell(t) \/ DecideBuy(t) \/ DecideNothing(t)
    \/ PreviewAllowed(t) \/ NextBuy(t) \/ PreviewBlocked(t)
    \/ SubmitNothing(t) \/ SubmitLive(t)
    \/ CreateAccepted(t) \/ CreateLost(t) \/ Record(t) \/ Stamp(t)
    \/ Remember(t) \/ Fail(t)
    \/ \E side \in Side : ArmedCycle(t, side)

LoopStep(l) == LoopTop(l) \/ WakeUp(l) \/ RememberError(l)

Next ==
    \/ \E l \in Loop : Start(l) \/ LoopStep(l)
    \/ \E t \in Thread : RunStep(t)
    \/ \E w \in Worker, j \in {"run", "shadow"} : WorkerCall(w, j)
    \/ Stop \/ Tick \/ Crash

Spec == Init /\ [][Next]_vars

\* The operating system schedules every thread, sleep(1) returns, and a call to
\* the exchange returns or raises within the client's timeout.  Nobody has to
\* call the API, and the process need not crash.
FairSpec ==
    /\ Spec
    /\ \A t \in Thread : WF_vars(RunStep(t))
    /\ \A l \in Loop : WF_vars(LoopStep(l))
-----------------------------------------------------------------------------
(***************************************************************************)
(* Properties.                                                             *)
(***************************************************************************)

\* Orders reach the exchange only in live mode with the confirmation set, by
\* whichever of the two submission paths.
UnarmedNeverTrades ==
    orders # <<>> => mode.live = "live" /\ mode.confirm

\* Between two buys that the runs of one thread decide on lies the cooldown,
\* unless an exception or a restart came before the first was noted.  (Two
\* threads can both check the cooldown before either submits.)
CooldownHonoured ==
    \A i, j \in DOMAIN orders :
        /\ i < j
        /\ orders[i].by = orders[j].by
        /\ orders[i].origin = "decision" /\ orders[j].origin = "decision"
        /\ orders[i].side = "buy" /\ orders[j].side = "buy"
        /\ orders[i].known
        => orders[j].at - orders[i].at >= Cooldown

\* The decision of a run puts at most one order on the exchange, however many
\* candidates it falls back through.
OneDecisionPerRun ==
    \A i, j \in DOMAIN orders :
        /\ i < j
        /\ orders[i].by = orders[j].by
        /\ orders[i].origin = "decision" /\ orders[j].origin = "decision"
        => ~(orders[i].open /\ orders[j].open)

\* Every run ends, through a result or an exception: neither the fallback over
\* the buys nor a call can hold the thread for ever.
RunsEnd == \A t \in Thread : (pc[t] \in InRun) ~> (pc[t] \notin InRun)

\* After a stop every loop ends, also one left over from before an earlier
\* restart of the loop, unless the loop is started again first.
StopTakesEffect ==
    \A l \in Loop : (~active /\ pc[l] \notin NotRunning) ~> (active \/ pc[l] \in NotRunning)

\* A shadow cycle places no order (README: "without submitting a live order").
ShadowNeverTrades == \A i \in DOMAIN orders : orders[i].job # "shadow"
-----------------------------------------------------------------------------
(***************************************************************************)
(* Inductive strengthenings, for AutoTradeProofs.                          *)
(***************************************************************************)

Submitting == {"preview", "submit", "create", "record", "stamp"}

\* A thread on its way through a submission has an order; only a run decides.
OrderReady ==
    \A t \in Thread :
        /\ pc[t] = "decide" => job[t] = "run"
        /\ pc[t] \in Submitting =>
              /\ order[t] \in OrderInHand
              /\ order[t].origin = "decision" => job[t] = "run"

\* Past the gates of submit_order the process is armed.
ArmedOnly ==
    /\ orders # <<>> => Armed
    /\ \A t \in Thread : pc[t] = "create" => Armed

\* The run of an open decision has only its end before it.
DecisionIsLast ==
    \A i \in DOMAIN orders :
        LET t == orders[i].by
        IN  orders[i].open /\ orders[i].origin = "decision" =>
                /\ pc[t] \in {"record", "stamp", "remember"}
                /\ pc[t] = "record" => order[t].origin = "decision"

KnownBuy(o) == o.origin = "decision" /\ o.side = "buy" /\ o.known

\* A run past the cooldown check has the cooldown behind it.
CooldownPassed ==
    \A t \in Thread, i \in DOMAIN orders :
        /\ pc[t] \in {"scan", "decide"} \cup Submitting
        /\ job[t] = "run"
        /\ orders[i].by = t /\ KnownBuy(orders[i])
        => clock >= orders[i].at + Cooldown

\* OneDecisionPerRun and CooldownHonoured of a list of orders, in which the
\* open orders are also the latest of their thread.
ListInv(os) ==
    \A i, j \in DOMAIN os :
        i < j /\ os[i].by = os[j].by =>
            /\ os[i].open => os[j].open
            /\ os[i].origin = "decision" /\ os[j].origin = "decision" =>
                  /\ ~(os[i].open /\ os[j].open)
                  /\ os[i].side = "buy" /\ os[j].side = "buy" /\ os[i].known =>
                        os[j].at - os[i].at >= Cooldown

\* No order is from the future, and the process remembers a time no earlier
\* than any submission it knows of.
TimeInv(os) ==
    \A i \in DOMAIN os :
        /\ os[i].at <= clock
        /\ KnownBuy(os[i]) => lastSubmitted # 0 /\ os[i].at <= lastSubmitted

SafeOrders ==
    ArmedOnly /\ DecisionIsLast /\ CooldownPassed /\ ListInv(orders) /\ TimeInv(orders)
=============================================================================
