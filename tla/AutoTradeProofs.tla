--------------------------- MODULE AutoTradeProofs ---------------------------
(***************************************************************************)
(* Theorems about AutoTrade: typing, and what reaches the exchange.        *)
(***************************************************************************)
EXTENDS AutoTrade, SequenceTheorems, TLAPS

-----------------------------------------------------------------------------
(***************************************************************************)
(* The three ways in which the list of accepted orders changes.            *)
(***************************************************************************)

\* A function on the indices of a list of orders is a list of orders.
LEMMA OrderList ==
    ASSUME NEW n \in Nat, NEW f \in [1 .. n -> AcceptedOrder]
    PROVE  f \in Seq(AcceptedOrder) /\ Len(f) = n /\ DOMAIN f = 1 .. n
  BY SeqDef, LenProperties

\* The end of a run (_loop, or the failure of an API call) closes the orders of
\* its thread and changes nothing else about any order.
LEMMA ClosedOrders ==
    ASSUME NEW t \in Thread, NEW os \in Seq(AcceptedOrder)
    PROVE  /\ Closed(t, os) \in Seq(AcceptedOrder)
           /\ DOMAIN Closed(t, os) = DOMAIN os
           /\ Len(Closed(t, os)) = Len(os)
           /\ \A i \in DOMAIN os :
                 /\ Closed(t, os)[i].origin = os[i].origin
                 /\ Closed(t, os)[i].side = os[i].side
                 /\ Closed(t, os)[i].by = os[i].by
                 /\ Closed(t, os)[i].at = os[i].at
                 /\ Closed(t, os)[i].known = os[i].known
                 /\ Closed(t, os)[i].open <=> os[i].open /\ os[i].by # t
  <1>1. os \in [1 .. Len(os) -> AcceptedOrder] /\ Len(os) \in Nat /\ DOMAIN os = 1 .. Len(os)
    BY LenProperties
  <1>2. \A i \in DOMAIN os : os[i] \in AcceptedOrder /\ [os[i] EXCEPT !.open = FALSE] \in AcceptedOrder
    BY <1>1 DEF AcceptedOrder
  <1>3. Closed(t, os) \in [1 .. Len(os) -> AcceptedOrder]
    BY <1>1, <1>2 DEF Closed
  <1>4. \A i \in DOMAIN os :
           Closed(t, os)[i] = IF os[i].by = t THEN [os[i] EXCEPT !.open = FALSE] ELSE os[i]
    BY DEF Closed
  <1>5. \A i \in DOMAIN os : os[i].open \in BOOLEAN
    BY <1>2 DEF AcceptedOrder
  <1>6. QED
    BY <1>1, <1>2, <1>3, <1>4, <1>5, OrderList DEF AcceptedOrder

\* Noting a submission (_submit_trade) makes known the open orders that its
\* run has decided on, and changes nothing else about any order.
LEMMA KnownOrders ==
    ASSUME NEW t \in Thread, NEW os \in Seq(AcceptedOrder)
    PROVE  /\ Known(t, os) \in Seq(AcceptedOrder)
           /\ DOMAIN Known(t, os) = DOMAIN os
           /\ Len(Known(t, os)) = Len(os)
           /\ \A i \in DOMAIN os :
                 /\ Known(t, os)[i].origin = os[i].origin
                 /\ Known(t, os)[i].side = os[i].side
                 /\ Known(t, os)[i].by = os[i].by
                 /\ Known(t, os)[i].at = os[i].at
                 /\ Known(t, os)[i].open = os[i].open
                 /\ Known(t, os)[i].known <=>
                       \/ os[i].known
                       \/ os[i].by = t /\ os[i].open /\ os[i].origin = "decision"
  <1>1. os \in [1 .. Len(os) -> AcceptedOrder] /\ Len(os) \in Nat /\ DOMAIN os = 1 .. Len(os)
    BY LenProperties
  <1>2. \A i \in DOMAIN os : os[i] \in AcceptedOrder /\ [os[i] EXCEPT !.known = TRUE] \in AcceptedOrder
    BY <1>1 DEF AcceptedOrder
  <1>3. Known(t, os) \in [1 .. Len(os) -> AcceptedOrder]
    BY <1>1, <1>2 DEF Known
  <1>4. \A i \in DOMAIN os :
           Known(t, os)[i] = IF os[i].by = t /\ os[i].open /\ os[i].origin = "decision"
                             THEN [os[i] EXCEPT !.known = TRUE] ELSE os[i]
    BY DEF Known
  <1>5. \A i \in DOMAIN os : os[i].known \in BOOLEAN
    BY <1>2 DEF AcceptedOrder
  <1>6. QED
    BY <1>1, <1>2, <1>3, <1>4, <1>5, OrderList DEF AcceptedOrder

\* An accepted order (create_order) comes after all others; it is open and not
\* known yet.
LEMMA AcceptedOrders ==
    ASSUME NEW t \in Thread, TypeOK, order[t] \in OrderInHand
    PROVE  LET os == WithAccepted(t) IN
           /\ os \in Seq(AcceptedOrder)
           /\ Len(os) = Len(orders) + 1
           /\ DOMAIN os = DOMAIN orders \cup {Len(orders) + 1}
           /\ \A i \in DOMAIN orders : os[i] = orders[i] /\ i < Len(orders) + 1
           /\ os[Len(orders) + 1] =
                 [origin |-> order[t].origin, side |-> order[t].side, by |-> t,
                  job |-> job[t], at |-> clock, open |-> TRUE, known |-> FALSE]
  <1> DEFINE o == [origin |-> order[t].origin, side |-> order[t].side, by |-> t,
                   job |-> job[t], at |-> clock, open |-> TRUE, known |-> FALSE]
  <1>1. orders \in Seq(AcceptedOrder) /\ clock \in Nat /\ job[t] \in {"run", "shadow"}
    BY AutoTradeAssumption DEF TypeOK
  <1>2. o \in AcceptedOrder
    BY <1>1 DEF AcceptedOrder, OrderInHand
  <1>3. Append(orders, o) \in Seq(AcceptedOrder) /\ Len(Append(orders, o)) = Len(orders) + 1
    BY <1>1, <1>2
  <1>4. Len(orders) \in Nat /\ DOMAIN orders = 1 .. Len(orders)
    BY <1>1, LenProperties
  <1>5. DOMAIN Append(orders, o) = 1 .. Len(orders) + 1
    BY <1>3, LenProperties
  <1>6. /\ \A i \in 1 .. Len(orders) : Append(orders, o)[i] = orders[i]
        /\ Append(orders, o)[Len(orders) + 1] = o
    BY <1>1, <1>2
  <1>7. QED
    BY <1>3, <1>4, <1>5, <1>6 DEF WithAccepted
-----------------------------------------------------------------------------
(***************************************************************************)
(* Typing, with what a thread on its way through a submission carries.     *)
(***************************************************************************)

\* The values that one thread's entries take, so that an update of one entry
\* needs no more than the value it writes.
LEMMA Typed ==
    ASSUME TypeOK
    PROVE  /\ pc \in [Thread -> PC] /\ job \in [Thread -> {"run", "shadow"}]
           /\ cycles \in [Thread -> Nat] /\ buys \in [Thread -> Nat]
           /\ orders \in Seq(AcceptedOrder)
           /\ Cooldown \in Nat /\ Cycles \in Nat /\ MaxBuys \in Nat
           /\ MaxCrashes \in Nat /\ MaxTime \in Nat
           /\ clock \in Nat /\ lastSubmitted \in Nat /\ crashes \in Nat
           /\ 0 \in 0 .. MaxBuys /\ 0 \in 0 .. MaxTime
  <1>1. /\ Cooldown \in Nat /\ Cycles \in Nat /\ MaxBuys \in Nat
        /\ MaxCrashes \in Nat /\ MaxTime \in Nat
    BY AutoTradeAssumption
  <1>2. 0 .. MaxBuys \subseteq Nat /\ 0 \in 0 .. MaxBuys /\ 0 \in 0 .. MaxTime
    BY <1>1
  <1>3. clock \in Nat /\ lastSubmitted \in Nat /\ crashes \in Nat
    BY <1>1 DEF TypeOK
  <1>4. buys \in [Thread -> Nat]
    BY <1>2 DEF TypeOK
  <1>5. QED
    BY <1>1, <1>2, <1>3, <1>4 DEF TypeOK

\* At start-up (__init__) nothing runs and nothing is in hand.
LEMMA TypeInit == Init => TypeOK /\ OrderReady
  <1> SUFFICES ASSUME Init PROVE TypeOK /\ OrderReady
    OBVIOUS
  <1>1. <<>> \in Seq(AcceptedOrder)
    OBVIOUS
  <1>2. pc \in [Thread -> PC]
    BY DEF Init, FreshThreads, PC, NotRunning
  <1>3. 0 \in 0 .. MaxTime /\ 1 \in 1 .. MaxTime /\ 0 \in 0 .. MaxBuys /\ 0 \in 0 .. MaxCrashes
    <2>1. MaxTime \in Nat \ {0} /\ MaxBuys \in Nat /\ MaxCrashes \in Nat
      BY AutoTradeAssumption
    <2>2. QED
      BY <2>1
  <1>4. TypeOK
    BY <1>1, <1>2, <1>3 DEF Init, FreshThreads, TypeOK
  <1>5. \A t \in Thread : pc[t] \in {"ended", "idle"}
    BY DEF Init, FreshThreads
  <1>6. QED
    BY <1>4, <1>5 DEF OrderReady, Submitting

\* The end of a run by its result or an exception (LeaveRun) keeps the types.
LEMMA LeaveRunTyped ==
    ASSUME TypeOK, OrderReady, NEW t \in Thread, NEW os \in Seq(AcceptedOrder),
           NEW l \in {"sleep", "idle", "error"}, LeaveRun(t, os, l)
    PROVE  TypeOK' /\ OrderReady'
  <1>1. orders' \in Seq(AcceptedOrder)
    BY ClosedOrders DEF LeaveRun
  <1>2. pc' = [pc EXCEPT ![t] = l] /\ pc' \in [Thread -> PC]
    BY DEF LeaveRun, Goto, TypeOK, PC
  <1>3. 0 \in 0 .. MaxBuys
    BY Typed
  <1>4. TypeOK'
    BY <1>1, <1>2, <1>3 DEF LeaveRun, TypeOK
  <1>5. \A u \in Thread : u # t => pc'[u] = pc[u] /\ order'[u] = order[u] /\ job'[u] = job[u]
    BY DEF LeaveRun, Goto, TypeOK
  <1>6. pc'[t] \notin Submitting \cup {"decide"}
    BY <1>2 DEF Submitting, TypeOK
  <1>7. OrderReady'
    BY <1>5, <1>6 DEF OrderReady
  <1>8. QED
    BY <1>4, <1>7

\* The return of submit_order (AfterSubmit) keeps the order of a decision.
LEMMA AfterSubmitTyped ==
    ASSUME TypeOK, OrderReady, NEW t \in Thread, pc[t] \in Submitting, AfterSubmit(t),
           UNCHANGED job
    PROVE  /\ pc' \in [Thread -> PC] /\ order' \in [Thread -> OrderInHand \cup {NoOrder}]
           /\ OrderReady'
  <1>1. order[t] \in OrderInHand /\ (order[t].origin = "decision" => job[t] = "run")
    BY DEF OrderReady
  <1>2. pc' = [pc EXCEPT ![t] = IF order[t].origin = "cycle" THEN "scan" ELSE "stamp"]
    BY DEF AfterSubmit, Goto
  <1>3. pc' \in [Thread -> PC]
    BY <1>2 DEF TypeOK, PC, InRun, CallsOut
  <1>4. order' = [order EXCEPT ![t] = IF order[t].origin = "cycle" THEN NoOrder ELSE order[t]]
    BY DEF AfterSubmit
  <1>5. order' \in [Thread -> OrderInHand \cup {NoOrder}]
    BY <1>4 DEF TypeOK
  <1>6. \A u \in Thread : u # t => pc'[u] = pc[u] /\ order'[u] = order[u]
    BY <1>2, <1>4 DEF TypeOK
  <1>7. pc'[t] \in Submitting => pc'[t] = "stamp" /\ order'[t] = order[t]
    BY <1>2, <1>4 DEF TypeOK, Submitting
  <1>8. pc'[t] # "decide"
    BY <1>2 DEF TypeOK
  <1>9. OrderReady'
    BY <1>1, <1>6, <1>7, <1>8 DEF OrderReady
  <1>10. QED
    BY <1>3, <1>5, <1>9

\* Every step of the threads, of start and stop, of time and of a restart keeps
\* the types and the order in hand.
LEMMA TypeStep ==
    ASSUME TypeOK, OrderReady, [Next]_vars
    PROVE  TypeOK' /\ OrderReady'
  <1> USE Typed
  <1>1. ASSUME NEW l \in Loop, Start(l) PROVE TypeOK' /\ OrderReady'
    BY <1>1 DEF Start, Goto, TypeOK, OrderReady, Thread, PC, InRun, CallsOut, Submitting
  <1>2. ASSUME NEW l \in Loop, LoopTop(l) PROVE TypeOK' /\ OrderReady'
    BY <1>2 DEF LoopTop, Goto, TypeOK, OrderReady, Thread, PC, InRun, CallsOut, NotRunning, Submitting
  <1>3. ASSUME NEW l \in Loop, WakeUp(l) PROVE TypeOK' /\ OrderReady'
    BY <1>3 DEF WakeUp, Goto, TypeOK, OrderReady, Thread, PC, Submitting
  <1>4. ASSUME NEW l \in Loop, RememberError(l) PROVE TypeOK' /\ OrderReady'
    BY <1>4 DEF RememberError, Goto, TypeOK, OrderReady, Thread, PC, NotRunning, Submitting
  <1>5. ASSUME NEW w \in Worker, NEW j \in {"run", "shadow"}, WorkerCall(w, j)
        PROVE  TypeOK' /\ OrderReady'
    BY <1>5 DEF WorkerCall, Goto, TypeOK, OrderReady, Thread, PC, InRun, CallsOut, Submitting
  <1>6. ASSUME NEW t \in Thread, ReadAccount(t) PROVE TypeOK' /\ OrderReady'
    BY <1>6 DEF ReadAccount, Goto, TypeOK, OrderReady, PC, InRun, CallsOut, Submitting
  <1>7. ASSUME NEW t \in Thread, CheckCooldown(t) PROVE TypeOK' /\ OrderReady'
    BY <1>7 DEF CheckCooldown, Goto, TypeOK, OrderReady, PC, InRun, CallsOut, Submitting
  <1>8. ASSUME NEW t \in Thread, PassCycle(t) PROVE TypeOK' /\ OrderReady'
    BY <1>8 DEF PassCycle, TypeOK, OrderReady
  <1>9. ASSUME NEW t \in Thread, NEW side \in Side, ArmedCycle(t, side) PROVE TypeOK' /\ OrderReady'
    BY <1>9 DEF ArmedCycle, Goto, TypeOK, OrderReady, PC, InRun, CallsOut, Submitting, OrderInHand, Origin
  <1>10. ASSUME NEW t \in Thread, EndScan(t) PROVE TypeOK' /\ OrderReady'
    <2>1. CASE job[t] = "shadow" /\ Goto(t, "remember") /\ UNCHANGED buys
      BY <1>10, <2>1 DEF EndScan, Goto, TypeOK, OrderReady, PC, InRun, CallsOut, Submitting
    <2>2. ASSUME job[t] = "run", Goto(t, "decide"),
                 NEW n \in 0 .. MaxBuys, buys' = [buys EXCEPT ![t] = n]
          PROVE  TypeOK' /\ OrderReady'
      BY <1>10, <2>2 DEF EndScan, Goto, TypeOK, OrderReady, PC, InRun, CallsOut, Submitting
    <2>3. QED
      BY <1>10, <2>1, <2>2 DEF EndScan
  <1>11. ASSUME NEW t \in Thread, DecideSell(t) PROVE TypeOK' /\ OrderReady'
    BY <1>11 DEF DecideSell, Try, Goto, TypeOK, OrderReady, PC, InRun, CallsOut, Submitting,
                 OrderInHand, Origin, Side
  <1>12. ASSUME NEW t \in Thread, DecideBuy(t) PROVE TypeOK' /\ OrderReady'
    BY <1>12 DEF DecideBuy, Try, Goto, TypeOK, OrderReady, PC, InRun, CallsOut, Submitting,
                 OrderInHand, Origin, Side
  <1>13. ASSUME NEW t \in Thread, DecideNothing(t) PROVE TypeOK' /\ OrderReady'
    BY <1>13 DEF DecideNothing, Goto, TypeOK, OrderReady, PC, InRun, CallsOut, Submitting
  <1>14. ASSUME NEW t \in Thread, PreviewAllowed(t) PROVE TypeOK' /\ OrderReady'
    BY <1>14 DEF PreviewAllowed, Goto, TypeOK, OrderReady, PC, InRun, CallsOut, Submitting
  <1>15. ASSUME NEW t \in Thread, NextBuy(t) PROVE TypeOK' /\ OrderReady'
    BY <1>15 DEF NextBuy, TypeOK, OrderReady
  <1>16. ASSUME NEW t \in Thread, PreviewBlocked(t) PROVE TypeOK' /\ OrderReady'
    BY <1>16 DEF PreviewBlocked, Goto, TypeOK, OrderReady, PC, InRun, CallsOut, Submitting
  <1>17. ASSUME NEW t \in Thread, SubmitNothing(t) PROVE TypeOK' /\ OrderReady'
    BY <1>17, AfterSubmitTyped DEF SubmitNothing, TypeOK, Submitting
  <1>18. ASSUME NEW t \in Thread, SubmitLive(t) PROVE TypeOK' /\ OrderReady'
    BY <1>18 DEF SubmitLive, Goto, TypeOK, OrderReady, PC, InRun, CallsOut, Submitting
  <1>19. ASSUME NEW t \in Thread, CreateAccepted(t) PROVE TypeOK' /\ OrderReady'
    <2>1. order[t] \in OrderInHand
      BY <1>19 DEF CreateAccepted, OrderReady, Submitting
    <2>2. orders' \in Seq(AcceptedOrder)
      BY <1>19, <2>1, AcceptedOrders DEF CreateAccepted
    <2>3. QED
      BY <1>19, <2>2 DEF CreateAccepted, Goto, TypeOK, OrderReady, PC, InRun, CallsOut, Submitting
  <1>20. ASSUME NEW t \in Thread, CreateLost(t) PROVE TypeOK' /\ OrderReady'
    <2>1. order[t] \in OrderInHand
      BY <1>20 DEF CreateLost, OrderReady, Submitting
    <2>2. WithAccepted(t) \in Seq(AcceptedOrder)
      BY <2>1, AcceptedOrders
    <2>3. QED
      BY <1>20, <2>2, LeaveRunTyped DEF CreateLost, Raise
  <1>21. ASSUME NEW t \in Thread, Record(t) PROVE TypeOK' /\ OrderReady'
    BY <1>21, AfterSubmitTyped DEF Record, TypeOK, Submitting
  <1>22. ASSUME NEW t \in Thread, Stamp(t) PROVE TypeOK' /\ OrderReady'
    <2>1. orders' \in Seq(AcceptedOrder) /\ lastSubmitted' \in 0 .. MaxTime
      BY <1>22, KnownOrders DEF Stamp, TypeOK
    <2>2. QED
      BY <1>22, <2>1 DEF Stamp, Goto, TypeOK, OrderReady, PC, InRun, CallsOut, Submitting
  <1>23. ASSUME NEW t \in Thread, Remember(t) PROVE TypeOK' /\ OrderReady'
    BY <1>23, LeaveRunTyped DEF Remember
  <1>24. ASSUME NEW t \in Thread, Fail(t) PROVE TypeOK' /\ OrderReady'
    BY <1>24, LeaveRunTyped DEF Fail, Raise
  <1>25. CASE Stop
    BY <1>25 DEF Stop, TypeOK, OrderReady
  <1>26. CASE Tick
    BY <1>26 DEF Tick, TypeOK, OrderReady
  <1>27. CASE Crash
    <2>1. orders \in [1 .. Len(orders) -> AcceptedOrder] /\ Len(orders) \in Nat
          /\ DOMAIN orders = 1 .. Len(orders)
      BY LenProperties
    <2>2. \A i \in DOMAIN orders : [orders[i] EXCEPT !.open = FALSE, !.known = FALSE] \in AcceptedOrder
      BY <2>1 DEF AcceptedOrder
    <2>3. orders' \in [1 .. Len(orders) -> AcceptedOrder]
      BY <1>27, <2>1, <2>2 DEF Crash
    <2>4. orders' \in Seq(AcceptedOrder)
      BY <2>1, <2>3, OrderList
    <2>5. pc' \in [Thread -> PC] /\ \A t \in Thread : pc'[t] \in {"ended", "idle"}
      BY <1>27 DEF Crash, PC, NotRunning
    <2>6. crashes' \in 0 .. MaxCrashes
      <3>1. crashes \in Nat /\ MaxCrashes \in Nat /\ crashes < MaxCrashes /\ crashes' = crashes + 1
        BY <1>27 DEF Crash
      <3>2. QED
        BY <3>1
    <2>7. /\ job' \in [Thread -> {"run", "shadow"}] /\ cycles' \in [Thread -> Nat]
          /\ buys' \in [Thread -> 0 .. MaxBuys] /\ order' \in [Thread -> OrderInHand \cup {NoOrder}]
      BY <1>27 DEF Crash
    <2>8. TypeOK'
      BY <1>27, <2>4, <2>5, <2>6, <2>7 DEF Crash, TypeOK
    <2>9. OrderReady'
      BY <2>5 DEF OrderReady, Submitting
    <2>10. QED
      BY <2>8, <2>9
  <1>28. CASE UNCHANGED vars
    BY <1>28 DEF vars, TypeOK, OrderReady
  <1>29. QED
    BY <1>1, <1>2, <1>3, <1>4, <1>5, <1>6, <1>7, <1>8, <1>9, <1>10, <1>11, <1>12, <1>13, <1>14,
       <1>15, <1>16, <1>17, <1>18, <1>19, <1>20, <1>21, <1>22, <1>23, <1>24, <1>25, <1>26, <1>27,
       <1>28 DEF Next, RunStep, LoopStep

\* Every variable keeps its type, and no step of a submission is without an
\* order, whatever the constants.
THEOREM AutoTradeTyped == Spec => [](TypeOK /\ OrderReady)
  <1>1. (TypeOK /\ OrderReady) /\ [Next]_vars => (TypeOK /\ OrderReady)'
    BY TypeStep
  <1>2. QED
    BY TypeInit, <1>1, PTL DEF Spec
-----------------------------------------------------------------------------
(***************************************************************************)
(* What holds of the accepted orders (SafeOrders).  A step is followed     *)
(* through the lists it goes through: an order whose answer is lost is     *)
(* first accepted, then closed with its run.                               *)
(***************************************************************************)

\* An order can only be accepted once the run has the cooldown behind it and no
\* other open decision.
LEMMA AcceptedSafe ==
    ASSUME TypeOK, OrderReady, SafeOrders, NEW t \in Thread, pc[t] = "create"
    PROVE  LET os == WithAccepted(t) IN
           /\ os \in Seq(AcceptedOrder)
           /\ ListInv(os) /\ TimeInv(os)
           /\ Armed
           /\ \A i \in DOMAIN os : os[i].by # t => i \in DOMAIN orders /\ os[i] = orders[i]
  <1> DEFINE os == WithAccepted(t)
             n == Len(orders) + 1
  <1>1. order[t] \in OrderInHand /\ (order[t].origin = "decision" => job[t] = "run")
    BY DEF OrderReady, Submitting
  <1>2. /\ os \in Seq(AcceptedOrder)
        /\ DOMAIN os = DOMAIN orders \cup {n}
        /\ \A i \in DOMAIN orders : os[i] = orders[i] /\ i < n
        /\ os[n] = [origin |-> order[t].origin, side |-> order[t].side, by |-> t,
                    job |-> job[t], at |-> clock, open |-> TRUE, known |-> FALSE]
    BY <1>1, AcceptedOrders
  <1>3. \A i \in DOMAIN orders : orders[i] \in AcceptedOrder /\ i \in Nat
    BY LenProperties DEF TypeOK
  <1>4. \A i \in DOMAIN orders : orders[i].at \in Nat /\ clock \in Nat /\ Cooldown \in Nat
    BY <1>3, Typed DEF AcceptedOrder
  <1>5. \A i \in DOMAIN orders :
           orders[i].by = t /\ orders[i].origin = "decision" => ~orders[i].open
    BY DEF SafeOrders, DecisionIsLast
  <1>6. \A i \in DOMAIN orders :
           orders[i].by = t /\ KnownBuy(orders[i]) /\ os[n].origin = "decision" =>
              clock - orders[i].at >= Cooldown
    <2>1. \A i \in DOMAIN orders :
             orders[i].by = t /\ KnownBuy(orders[i]) /\ job[t] = "run" =>
                clock >= orders[i].at + Cooldown
      BY DEF SafeOrders, CooldownPassed, Submitting
    <2>2. QED
      BY <1>1, <1>2, <1>4, <2>1
  <1>7. ListInv(os)
    <2> SUFFICES ASSUME NEW i \in DOMAIN os, NEW j \in DOMAIN os, i < j, os[i].by = os[j].by
                 PROVE  /\ os[i].open => os[j].open
                        /\ os[i].origin = "decision" /\ os[j].origin = "decision" =>
                              /\ ~(os[i].open /\ os[j].open)
                              /\ os[i].side = "buy" /\ os[j].side = "buy" /\ os[i].known =>
                                    os[j].at - os[i].at >= Cooldown
      BY DEF ListInv
    <2>1. i \in DOMAIN orders
      <3>1. CASE i = n
        <4>1. j \in DOMAIN orders => j < n
          BY <1>2
        <4>2. n \in Nat /\ i \in Nat /\ j \in Nat
          BY <1>2, <1>3, LenProperties DEF TypeOK
        <4>3. FALSE
          BY <3>1, <4>1, <4>2, <1>2
        <4>4. QED
          BY <4>3
      <3>2. QED
        BY <3>1, <1>2
    <2>2. CASE j \in DOMAIN orders
      BY <2>1, <2>2, <1>2 DEF SafeOrders, ListInv
    <2>3. CASE j = n
      BY <2>1, <2>3, <1>2, <1>5, <1>6 DEF KnownBuy
    <2>4. QED
      BY <2>2, <2>3, <1>2
  <1>8. TimeInv(os)
    <2>1. \A i \in DOMAIN orders : /\ os[i].at <= clock
                                   /\ KnownBuy(os[i]) => lastSubmitted # 0 /\ os[i].at <= lastSubmitted
      BY <1>2 DEF SafeOrders, TimeInv
    <2>2. os[n].at <= clock /\ ~KnownBuy(os[n])
      <3>1. os[n].at = clock /\ ~os[n].known /\ clock \in Nat
        BY <1>2, Typed
      <3>2. QED
        BY <3>1 DEF KnownBuy
    <2>3. QED
      BY <1>2, <2>1, <2>2 DEF TimeInv
  <1>9. QED
    BY <1>2, <1>7, <1>8 DEF SafeOrders, ArmedOnly

\* The end of a run closes its orders and leaves the rest of what holds alone.
LEMMA LeaveRunSafe ==
    ASSUME TypeOK, SafeOrders, NEW t \in Thread, NEW os \in Seq(AcceptedOrder),
           ListInv(os), TimeInv(os), os # <<>> => Armed,
           \A i \in DOMAIN os : os[i].by # t => i \in DOMAIN orders /\ os[i] = orders[i],
           NEW l \in {"sleep", "idle", "error"}, LeaveRun(t, os, l)
    PROVE  SafeOrders'
  <1>1. /\ orders' = Closed(t, os) /\ UNCHANGED <<mode, clock, lastSubmitted>>
        /\ pc'[t] = l
        /\ \A u \in Thread : u # t => pc'[u] = pc[u] /\ job'[u] = job[u] /\ order'[u] = order[u]
    BY DEF LeaveRun, Goto, TypeOK
  <1>2. /\ DOMAIN orders' = DOMAIN os /\ Len(orders') = Len(os)
        /\ \A i \in DOMAIN os :
              /\ orders'[i].origin = os[i].origin
              /\ orders'[i].side = os[i].side
              /\ orders'[i].by = os[i].by
              /\ orders'[i].at = os[i].at
              /\ orders'[i].known = os[i].known
              /\ orders'[i].open <=> os[i].open /\ os[i].by # t
    BY <1>1, ClosedOrders
  <1>3. ArmedOnly'
    <2>1. os = <<>> => orders' = <<>>
      BY <1>1 DEF Closed
    <2>2. \A u \in Thread : pc'[u] = "create" => Armed
      BY <1>1 DEF SafeOrders, ArmedOnly
    <2>3. Armed' <=> Armed
      BY <1>1 DEF Armed
    <2>4. QED
      BY <2>1, <2>2, <2>3 DEF ArmedOnly
  <1>4. \A i \in DOMAIN os : os[i].by \in Thread
    <2>1. os \in [1 .. Len(os) -> AcceptedOrder] /\ DOMAIN os = 1 .. Len(os)
      BY LenProperties
    <2>2. \A i \in DOMAIN os : os[i] \in AcceptedOrder
      BY <2>1
    <2>3. QED
      BY <2>2 DEF AcceptedOrder
  <1>5. DecisionIsLast'
    BY <1>1, <1>2, <1>4 DEF SafeOrders, DecisionIsLast
  <1>6. CooldownPassed'
    BY <1>1, <1>2 DEF SafeOrders, CooldownPassed, KnownBuy, Submitting
  <1>7. ListInv(orders)'
    BY <1>2 DEF ListInv
  <1>8. TimeInv(orders)'
    BY <1>1, <1>2 DEF TimeInv, KnownBuy
  <1>9. QED
    BY <1>3, <1>5, <1>6, <1>7, <1>8 DEF SafeOrders

Passed == {"scan", "decide"} \cup Submitting

\* A step of one thread that neither reaches the exchange nor ends its run.
LEMMA QuietSafe ==
    ASSUME TypeOK, SafeOrders, NEW t \in Thread,
           UNCHANGED <<mode, lastSubmitted, clock, orders>>,
           \A u \in Thread : u # t => pc'[u] = pc[u] /\ job'[u] = job[u] /\ order'[u] = order[u],
           pc[t] \in {"record", "stamp", "remember"} =>
              /\ pc[t] = "record"
              /\ order[t].origin = "decision" => pc'[t] = "stamp",
           pc'[t] \in Passed /\ job'[t] = "run" =>
              (pc[t] \in Passed /\ job[t] = "run") \/ ~CooldownActive,
           pc'[t] = "create" => Armed
    PROVE  SafeOrders'
  <1>1. \A i \in DOMAIN orders : orders[i] \in AcceptedOrder
    BY LenProperties DEF TypeOK
  <1>2. \A i \in DOMAIN orders : orders[i].by \in Thread /\ orders[i].at \in Nat
    BY <1>1 DEF AcceptedOrder
  <1>3. ArmedOnly'
    BY DEF SafeOrders, ArmedOnly, Armed
  <1>4. DecisionIsLast'
    BY <1>2 DEF SafeOrders, DecisionIsLast
  <1>5. \A i \in DOMAIN orders : ~CooldownActive /\ KnownBuy(orders[i]) =>
           clock >= orders[i].at + Cooldown
    BY <1>2, Typed DEF SafeOrders, TimeInv, CooldownActive
  <1>6. CooldownPassed'
    BY <1>5 DEF SafeOrders, CooldownPassed, KnownBuy, Passed
  <1>7. ListInv(orders)' /\ TimeInv(orders)'
    BY DEF SafeOrders, ListInv, TimeInv
  <1>8. QED
    BY <1>3, <1>4, <1>6, <1>7 DEF SafeOrders

\* Closing all orders and forgetting all submissions, as a restart does.
LEMMA CrashSafe ==
    ASSUME TypeOK, SafeOrders, Crash
    PROVE  SafeOrders'
  <1>1. orders \in [1 .. Len(orders) -> AcceptedOrder] /\ DOMAIN orders = 1 .. Len(orders)
    BY LenProperties DEF TypeOK
  <1>2. \A i \in DOMAIN orders : orders[i] \in AcceptedOrder
    BY <1>1
  <1>3. /\ DOMAIN orders' = DOMAIN orders
        /\ \A i \in DOMAIN orders : /\ orders'[i].at = orders[i].at
                                    /\ ~orders'[i].open /\ ~orders'[i].known
    BY <1>2 DEF Crash, AcceptedOrder
  <1>4. orders = <<>> => orders' = <<>>
    BY DEF Crash
  <1>5. \A t \in Thread : pc'[t] \in {"ended", "idle"}
    BY DEF Crash
  <1>6. ArmedOnly'
    BY <1>4, <1>5 DEF SafeOrders, ArmedOnly, Armed, Crash
  <1>7. DecisionIsLast' /\ CooldownPassed'
    BY <1>3 DEF DecisionIsLast, CooldownPassed, KnownBuy
  <1>8. ListInv(orders)' /\ TimeInv(orders)'
    <2>1. ListInv(orders)'
      BY <1>3 DEF ListInv
    <2>2. \A i \in DOMAIN orders : orders[i].at <= clock
      BY DEF SafeOrders, TimeInv
    <2>3. clock' = clock
      BY DEF Crash
    <2>4. TimeInv(orders)'
      BY <1>3, <2>2, <2>3 DEF TimeInv, KnownBuy
    <2>5. QED
      BY <2>1, <2>4
  <1>9. QED
    BY <1>6, <1>7, <1>8 DEF SafeOrders

\* Noting the submission of a buy: nothing of its thread follows an order that
\* becomes known, as it is the one open decision of the run under way.
LEMMA StampSafe ==
    ASSUME TypeOK, SafeOrders, NEW t \in Thread, Stamp(t)
    PROVE  SafeOrders'
  <1>1. /\ pc[t] = "stamp" /\ pc'[t] = "remember" /\ UNCHANGED <<mode, clock, job, order>>
        /\ \A u \in Thread : u # t => pc'[u] = pc[u]
    BY DEF Stamp, Goto, TypeOK
  <1>2. orders \in [1 .. Len(orders) -> AcceptedOrder] /\ DOMAIN orders = 1 .. Len(orders)
    BY LenProperties DEF TypeOK
  <1>3. \A i \in DOMAIN orders : orders[i].by \in Thread /\ orders[i].at \in Nat
    BY <1>2 DEF AcceptedOrder
  <1>4. CASE order[t].side = "buy"
    <2>1. /\ DOMAIN orders' = DOMAIN orders /\ Len(orders') = Len(orders)
          /\ \A i \in DOMAIN orders :
                /\ orders'[i].origin = orders[i].origin
                /\ orders'[i].side = orders[i].side
                /\ orders'[i].by = orders[i].by
                /\ orders'[i].at = orders[i].at
                /\ orders'[i].open = orders[i].open
                /\ orders'[i].known <=>
                      \/ orders[i].known
                      \/ orders[i].by = t /\ orders[i].open /\ orders[i].origin = "decision"
      BY <1>4, KnownOrders DEF Stamp, TypeOK
    <2>2. lastSubmitted' = clock /\ clock # 0 /\ clock \in Nat
      <3>1. clock \in Nat /\ clock # 0
        BY AutoTradeAssumption DEF TypeOK
      <3>2. QED
        BY <1>4, <3>1 DEF Stamp
    <2>3. ArmedOnly'
      <3>1. orders = <<>> => orders' = <<>>
        BY <1>4 DEF Stamp, Known
      <3>2. Armed' <=> Armed
        BY <1>1 DEF Armed
      <3>3. QED
        BY <1>1, <3>1, <3>2 DEF SafeOrders, ArmedOnly
    <2>4. DecisionIsLast'
      BY <1>1, <1>3, <2>1 DEF SafeOrders, DecisionIsLast
    <2>5. CooldownPassed'
      <3> SUFFICES ASSUME NEW u \in Thread, NEW i \in DOMAIN orders,
                          u # t, pc[u] \in Passed, job[u] = "run",
                          orders[i].by = u, KnownBuy(orders[i])
                   PROVE  clock >= orders[i].at + Cooldown
        BY <1>1, <2>1 DEF CooldownPassed, KnownBuy, Passed, Submitting
      <3>1. QED
        BY DEF SafeOrders, CooldownPassed, Passed
    <2>6. ListInv(orders)'
      <3> SUFFICES ASSUME NEW i \in DOMAIN orders, NEW j \in DOMAIN orders,
                          i < j, orders[i].by = orders[j].by
                   PROVE  /\ orders[i].open => orders[j].open
                          /\ orders[i].origin = "decision" /\ orders[j].origin = "decision" =>
                                /\ ~(orders[i].open /\ orders[j].open)
                                /\ /\ orders[i].side = "buy" /\ orders[j].side = "buy"
                                   /\ orders'[i].known
                                   => orders[j].at - orders[i].at >= Cooldown
        BY <2>1 DEF ListInv
      <3>1. QED
        BY <2>1 DEF SafeOrders, ListInv
    <2>7. TimeInv(orders)'
      BY <1>1, <2>1, <2>2 DEF SafeOrders, TimeInv
    <2>8. QED
      BY <2>3, <2>4, <2>5, <2>6, <2>7 DEF SafeOrders
  <1>5. CASE order[t].side # "buy"
    <2>1. UNCHANGED <<orders, lastSubmitted>>
      BY <1>5 DEF Stamp
    <2>2. ArmedOnly'
      BY <1>1, <2>1 DEF SafeOrders, ArmedOnly, Armed
    <2>3. DecisionIsLast'
      BY <1>1, <1>3, <2>1 DEF SafeOrders, DecisionIsLast
    <2>4. CooldownPassed'
      BY <1>1, <2>1 DEF SafeOrders, CooldownPassed, KnownBuy, Submitting
    <2>5. ListInv(orders)' /\ TimeInv(orders)'
      BY <1>1, <2>1 DEF SafeOrders, ListInv, TimeInv
    <2>6. QED
      BY <2>2, <2>3, <2>4, <2>5 DEF SafeOrders
  <1>6. QED
    BY <1>4, <1>5

\* An accepted order whose answer arrives: the run goes on to record it.
LEMMA CreateAcceptedSafe ==
    ASSUME TypeOK, OrderReady, SafeOrders, NEW t \in Thread, CreateAccepted(t)
    PROVE  SafeOrders'
  <1>1. /\ pc[t] = "create" /\ pc'[t] = "record" /\ orders' = WithAccepted(t)
        /\ UNCHANGED <<mode, clock, lastSubmitted, job, order>>
        /\ \A u \in Thread : u # t => pc'[u] = pc[u]
    BY DEF CreateAccepted, Goto, TypeOK
  <1>2. /\ ListInv(orders') /\ TimeInv(orders') /\ Armed
        /\ \A i \in DOMAIN orders' : orders'[i].by # t => i \in DOMAIN orders /\ orders'[i] = orders[i]
    BY <1>1, AcceptedSafe
  <1>3. order[t] \in OrderInHand
    BY <1>1 DEF OrderReady, Submitting
  <1>4. /\ DOMAIN orders' = DOMAIN orders \cup {Len(orders) + 1}
        /\ \A i \in DOMAIN orders : orders'[i] = orders[i]
        /\ orders'[Len(orders) + 1].by = t /\ orders'[Len(orders) + 1].origin = order[t].origin
        /\ ~orders'[Len(orders) + 1].known
    <2>1. /\ DOMAIN orders' = DOMAIN orders \cup {Len(orders) + 1}
          /\ \A i \in DOMAIN orders : orders'[i] = orders[i]
          /\ orders'[Len(orders) + 1] =
                [origin |-> order[t].origin, side |-> order[t].side, by |-> t,
                 job |-> job[t], at |-> clock, open |-> TRUE, known |-> FALSE]
      BY <1>1, <1>3, AcceptedOrders
    <2>2. QED
      BY <2>1
  <1>5. orders \in [1 .. Len(orders) -> AcceptedOrder] /\ DOMAIN orders = 1 .. Len(orders)
    BY LenProperties DEF TypeOK
  <1>6. \A i \in DOMAIN orders : orders[i].by \in Thread
    BY <1>5 DEF AcceptedOrder
  <1>7. ArmedOnly'
    BY <1>1, <1>2 DEF SafeOrders, ArmedOnly, Armed
  <1>8. DecisionIsLast'
    BY <1>1, <1>4, <1>6 DEF SafeOrders, DecisionIsLast
  <1>9. CooldownPassed'
    BY <1>1, <1>4 DEF SafeOrders, CooldownPassed, KnownBuy, Submitting
  <1>10. ListInv(orders)' /\ TimeInv(orders)'
    BY <1>1, <1>2 DEF ListInv, TimeInv
  <1>11. QED
    BY <1>7, <1>8, <1>9, <1>10 DEF SafeOrders

\* At start-up (__init__) the exchange has no order of this process.
LEMMA SafeInit == Init => SafeOrders
  <1>1. ASSUME Init PROVE orders = <<>> /\ \A t \in Thread : pc[t] \in {"ended", "idle"}
    BY <1>1 DEF Init, FreshThreads
  <1>2. DOMAIN <<>> = {}
    OBVIOUS
  <1>3. QED
    BY <1>1, <1>2 DEF SafeOrders, ArmedOnly, DecisionIsLast, CooldownPassed, ListInv, TimeInv

\* Every step keeps what holds of the accepted orders.
LEMMA SafeStep ==
    ASSUME TypeOK, OrderReady, SafeOrders, [Next]_vars
    PROVE  SafeOrders'
  <1> USE DEF Passed, Submitting
  <1>1. ASSUME NEW l \in Loop, Start(l) PROVE SafeOrders'
    BY <1>1, QuietSafe DEF Start, Goto, TypeOK, NotRunning, Thread
  <1>2. ASSUME NEW l \in Loop, LoopTop(l) PROVE SafeOrders'
    BY <1>2, QuietSafe DEF LoopTop, Goto, TypeOK, Thread
  <1>3. ASSUME NEW l \in Loop, WakeUp(l) PROVE SafeOrders'
    BY <1>3, QuietSafe DEF WakeUp, Goto, TypeOK, Thread
  <1>4. ASSUME NEW l \in Loop, RememberError(l) PROVE SafeOrders'
    BY <1>4, QuietSafe DEF RememberError, Goto, TypeOK, Thread
  <1>5. ASSUME NEW w \in Worker, NEW j \in {"run", "shadow"}, WorkerCall(w, j) PROVE SafeOrders'
    BY <1>5, QuietSafe DEF WorkerCall, Goto, TypeOK, Thread
  <1>6. ASSUME NEW t \in Thread, ReadAccount(t) PROVE SafeOrders'
    BY <1>6, QuietSafe DEF ReadAccount, Goto, TypeOK
  <1>7. ASSUME NEW t \in Thread, CheckCooldown(t) PROVE SafeOrders'
    BY <1>7, QuietSafe DEF CheckCooldown, Goto, TypeOK
  <1>8. ASSUME NEW t \in Thread, PassCycle(t) PROVE SafeOrders'
    BY <1>8, QuietSafe DEF PassCycle
  <1>9. ASSUME NEW t \in Thread, NEW side \in Side, ArmedCycle(t, side) PROVE SafeOrders'
    BY <1>9, QuietSafe DEF ArmedCycle, Goto, TypeOK
  <1>10. ASSUME NEW t \in Thread, EndScan(t) PROVE SafeOrders'
    BY <1>10, QuietSafe DEF EndScan, Goto, TypeOK
  <1>11. ASSUME NEW t \in Thread, DecideSell(t) PROVE SafeOrders'
    BY <1>11, QuietSafe DEF DecideSell, Try, Goto, TypeOK
  <1>12. ASSUME NEW t \in Thread, DecideBuy(t) PROVE SafeOrders'
    BY <1>12, QuietSafe DEF DecideBuy, Try, Goto, TypeOK
  <1>13. ASSUME NEW t \in Thread, DecideNothing(t) PROVE SafeOrders'
    BY <1>13, QuietSafe DEF DecideNothing, Goto, TypeOK
  <1>14. ASSUME NEW t \in Thread, PreviewAllowed(t) PROVE SafeOrders'
    BY <1>14, QuietSafe DEF PreviewAllowed, Goto, TypeOK
  <1>15. ASSUME NEW t \in Thread, NextBuy(t) PROVE SafeOrders'
    BY <1>15, QuietSafe DEF NextBuy
  <1>16. ASSUME NEW t \in Thread, PreviewBlocked(t) PROVE SafeOrders'
    BY <1>16, QuietSafe DEF PreviewBlocked, Goto, TypeOK
  <1>17. ASSUME NEW t \in Thread, SubmitNothing(t) PROVE SafeOrders'
    BY <1>17, QuietSafe DEF SubmitNothing, AfterSubmit, Goto, TypeOK
  <1>18. ASSUME NEW t \in Thread, SubmitLive(t) PROVE SafeOrders'
    BY <1>18, QuietSafe DEF SubmitLive, Goto, TypeOK
  <1>19. ASSUME NEW t \in Thread, CreateAccepted(t) PROVE SafeOrders'
    BY <1>19, CreateAcceptedSafe
  <1>20. ASSUME NEW t \in Thread, CreateLost(t) PROVE SafeOrders'
    BY <1>20, AcceptedSafe, LeaveRunSafe DEF CreateLost, Raise
  <1>21. ASSUME NEW t \in Thread, Record(t) PROVE SafeOrders'
    BY <1>21, QuietSafe DEF Record, AfterSubmit, Goto, TypeOK
  <1>22. ASSUME NEW t \in Thread, Stamp(t) PROVE SafeOrders'
    BY <1>22, StampSafe
  <1>23. ASSUME NEW t \in Thread, Remember(t) PROVE SafeOrders'
    BY <1>23, LeaveRunSafe DEF Remember, SafeOrders, ArmedOnly, TypeOK
  <1>24. ASSUME NEW t \in Thread, Fail(t) PROVE SafeOrders'
    BY <1>24, LeaveRunSafe DEF Fail, Raise, SafeOrders, ArmedOnly, TypeOK
  <1>25. ASSUME Stop \/ UNCHANGED vars PROVE SafeOrders'
    BY <1>25 DEF Stop, vars, SafeOrders, ArmedOnly, Armed, DecisionIsLast, CooldownPassed,
                 ListInv, TimeInv, KnownBuy
  <1>26. CASE Tick
    <2>1. /\ clock' > clock /\ clock \in Nat /\ clock' \in Nat
          /\ UNCHANGED <<mode, lastSubmitted, pc, job, order, orders>>
      BY <1>26, Typed DEF Tick
    <2>2. orders \in [1 .. Len(orders) -> AcceptedOrder] /\ DOMAIN orders = 1 .. Len(orders)
      BY LenProperties DEF TypeOK
    <2>3. \A i \in DOMAIN orders : orders[i].at \in Nat /\ Cooldown \in Nat
      BY <2>2, Typed DEF AcceptedOrder
    <2>4. ArmedOnly' /\ DecisionIsLast' /\ ListInv(orders)'
      BY <2>1 DEF SafeOrders, ArmedOnly, Armed, DecisionIsLast, ListInv
    <2>5. CooldownPassed'
      BY <2>1, <2>3 DEF SafeOrders, CooldownPassed, KnownBuy
    <2>6. TimeInv(orders)'
      BY <2>1, <2>3 DEF SafeOrders, TimeInv, KnownBuy
    <2>7. QED
      BY <2>4, <2>5, <2>6 DEF SafeOrders
  <1>27. CASE Crash
    BY <1>27, CrashSafe
  <1>28. QED
    BY <1>1, <1>2, <1>3, <1>4, <1>5, <1>6, <1>7, <1>8, <1>9, <1>10, <1>11, <1>12, <1>13, <1>14,
       <1>15, <1>16, <1>17, <1>18, <1>19, <1>20, <1>21, <1>22, <1>23, <1>24, <1>25, <1>26, <1>27
       DEF Next, RunStep, LoopStep

\* The inductive invariant of the accepted orders, on the typed states.
LEMMA SafeAlways == Spec => []SafeOrders
  <1>1. (TypeOK /\ OrderReady) /\ SafeOrders /\ [Next]_vars => SafeOrders'
    BY SafeStep
  <1>2. QED
    BY AutoTradeTyped, SafeInit, <1>1, PTL DEF Spec
-----------------------------------------------------------------------------
(***************************************************************************)
(* What reaches the exchange, for any number of threads, strategy cycles,  *)
(* candidates and orders, and any cooldown.                                *)
(***************************************************************************)

\* Orders reach the exchange only in live mode with the confirmation set
\* (submit_order; run_once and the cycles both submit through it).
THEOREM OnlyArmedTrades == Spec => []UnarmedNeverTrades
  <1>1. SafeOrders => UnarmedNeverTrades
    BY DEF SafeOrders, ArmedOnly, Armed, UnarmedNeverTrades
  <1>2. QED
    BY SafeAlways, <1>1, PTL

\* The decision of a run puts at most one order on the exchange (run_once,
\* _submit_trade), however its fallback goes.
THEOREM OneDecision == Spec => []OneDecisionPerRun
  <1>1. SafeOrders => OneDecisionPerRun
    BY DEF SafeOrders, ListInv, OneDecisionPerRun
  <1>2. QED
    BY SafeAlways, <1>1, PTL

\* The buys one thread decides on are the cooldown apart, once the first was
\* noted (_is_cooldown_active, _last_submitted_at).
THEOREM CooldownKept == Spec => []CooldownHonoured
  <1>1. SafeOrders => CooldownHonoured
    BY DEF SafeOrders, ListInv, CooldownHonoured
  <1>2. QED
    BY SafeAlways, <1>1, PTL
=============================================================================
