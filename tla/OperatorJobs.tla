---------------------------- MODULE OperatorJobs -----------------------------
(***************************************************************************)
(* The cycles an operator runs through the API, and what they keep: the    *)
(* batch of semi-live cycles with its fail-safe (scheduler_service.py,     *)
(* fail_safe_service.py, alert_service.py, semi_live_service.py), the      *)
(* replay backtest (backtest_service.py, market_data/replay.py), single    *)
(* cycles (api/routes.py), and the candle store that the loading of replay *)
(* candles fills (market_data_service.py, candle_store.py).                *)
(*                                                                         *)
(* Every job ends in the run history: a step here may be followed by a     *)
(* whole append().  A cycle's trading is in TradingCycle; here it yields a *)
(* portfolio or raises.                                                    *)
(***************************************************************************)
EXTENDS RunHistory, Orderings, Integers

CONSTANTS
    Portfolio,     \* what portfolio_snapshot may show: [equity, unrealized]
    StartingCash,
    PnlThreshold,  \* of the alert on unrealized losses, 0 for none
    MaxDrawdown,   \* of the alert on drawdowns, in percent, 0 for none
    MaxAlerts, MaxLossSteps,  \* of the fail-safe
    Series,        \* candles an operator loads: sequences of [at, close]
    MaxWindow, MaxIterations, \* bounds of the exploration
    NoJob

VARIABLES
    job,      \* the job of each thread
    jpc,      \* where the thread is in it
    runs,     \* the portfolios of the job's cycles so far
    seen,     \* the windows of the job's replay so far
    series,   \* replay adapter: the candles loaded, <<>> for none
    cursor,   \* replay adapter: how many of them have passed
    stored    \* the candle store

jobVars == <<job, jpc, runs, seen, series, cursor, stored>>

Job ==
    [kind : {"cycle"}]
        \cup [kind : {"batch"}, iterations : 1 .. MaxIterations]
        \cup [kind : {"replay"}, window : 1 .. MaxWindow, steps : 1 .. MaxIterations]

Candle == UNION {Range(s) : s \in Series}

\* Losses are negative, and so is the threshold of their alert.
ASSUME OperatorJobsAssumption ==
    /\ Portfolio \subseteq [equity : Int, unrealized : Int]
    /\ {StartingCash, MaxDrawdown, MaxAlerts, MaxLossSteps} \subseteq Nat
    /\ PnlThreshold \in Int
    /\ Series \subseteq Seq([at : Int, close : Int])
    /\ {MaxWindow, MaxIterations} \subseteq Nat \ {0}
    /\ NoJob \notin Job

JobsTypeOK ==
    /\ HistTypeOK
    /\ job \in [Thread -> Job \cup {NoJob}]
    /\ jpc \in [Thread -> {"rest", "run", "advance", "record", "recorded", "judge", "closed"}]
    /\ runs \in [Thread -> Seq(Portfolio)]
    /\ seen \in [Thread -> Seq(Seq(Candle))]
    /\ series \in Series \cup {<<>>}
    /\ cursor \in 0 .. Max({MaxWindow, Len(series)})
    /\ stored \in Seq(Candle)

JobsInit ==
    /\ HistInit
    /\ job = [t \in Thread |-> NoJob]
    /\ jpc = [t \in Thread |-> "rest"]
    /\ runs = [t \in Thread |-> <<>>]
    /\ seen = [t \in Thread |-> <<>>]
    /\ series = <<>>
    /\ cursor = 0
    /\ stored = <<>>
-----------------------------------------------------------------------------
(***************************************************************************)
(* AlertService and FailSafeService.                                       *)
(***************************************************************************)

\* How many of the two alerts a portfolio sets off.
Alerts(p) ==
    Cardinality(
        {a \in {"unrealized_pnl_breach"} : PnlThreshold # 0 /\ p.unrealized <= PnlThreshold}
        \cup {a \in {"drawdown_breach"} :
                /\ MaxDrawdown # 0 /\ StartingCash # 0
                /\ (StartingCash - p.equity) * 100 >= MaxDrawdown * StartingCash})

Calm == [stop |-> FALSE, alerts |-> 0, losses |-> 0]

\* One turn of the loop of evaluate_batch; nothing is counted after the break.
Judge(verdict, p) ==
    IF verdict.stop THEN verdict
    ELSE LET alerts == verdict.alerts + Alerts(p)
             losses == IF p.equity < StartingCash THEN verdict.losses + 1 ELSE 0
         IN  [stop |-> alerts >= MaxAlerts \/ losses >= MaxLossSteps,
              alerts |-> alerts,
              losses |-> losses]

FailSafe(ps) ==
    LET verdict[i \in 0 .. Len(ps)] ==
            IF i = 0 THEN Calm ELSE Judge(verdict[i - 1], ps[i])
    IN  verdict[Len(ps)]
-----------------------------------------------------------------------------
(***************************************************************************)
(* The replay adapter and the candle store.                                *)
(***************************************************************************)

\* get_recent_candles: the last `limit` candles before the cursor.
Window(limit) ==
    SubSeq(series, Max({0, cursor - limit}) + 1, Min({cursor, Len(series)}))

\* Mutated form of Advanced: the end of the series is not looked at.
AdvancedFreely(steps) == cursor + steps

Advanced(steps) == Min({Len(series), cursor + steps})

\* By their timestamps, the earlier one first.
NotLater(a, b) == a.at <= b.at

\* Mutated form of Merged: candles that are there already are kept twice.
MergedWithTwins(old, new) ==
    Listings(Range(old \o new), NotLater)

\* CandleStore.append: of candles with one timestamp the newest stays, and the
\* timestamps are sorted.
Merged(old, new) ==
    LET all == old \o new
    IN  Listings({all[i] : i \in {n \in DOMAIN all :
                     \A k \in DOMAIN all : k > n => all[k].at # all[n].at}}, NotLater)
-----------------------------------------------------------------------------
(***************************************************************************)
(* Jobs.                                                                   *)
(***************************************************************************)

JGoto(t, s) == jpc' = [jpc EXCEPT ![t] = s]

Finish(t) ==
    /\ job' = [job EXCEPT ![t] = NoJob]
    /\ JGoto(t, "rest")
    /\ runs' = [runs EXCEPT ![t] = <<>>]
    /\ seen' = [seen EXCEPT ![t] = <<>>]

\* A replay puts the cursor behind its first window.
StartJob(t, j) ==
    /\ jpc[t] = "rest"
    /\ job' = [job EXCEPT ![t] = j]
    /\ cursor' = IF j.kind = "replay" THEN j.window ELSE cursor
    /\ JGoto(t, "run")
    /\ UNCHANGED <<runs, seen, series, stored, histVars>>

\* One cycle of a batch, on live candles, or the one cycle of a single run.
RunCycle(t) ==
    /\ jpc[t] = "run" /\ job[t].kind # "replay"
    /\ \E p \in Portfolio : runs' = [runs EXCEPT ![t] = Append(@, p)]
    /\ JGoto(t, "record")
    /\ UNCHANGED <<job, seen, series, cursor, stored, histVars>>

\* One cycle of a backtest, on the window before the cursor; it is not recorded.
RunReplay(t) ==
    /\ jpc[t] = "run" /\ job[t].kind = "replay"
    /\ LET window == Window(job[t].window)
       IN  /\ Len(window) = job[t].window
           /\ seen' = [seen EXCEPT ![t] = Append(@, window)]
    /\ JGoto(t, "advance")
    /\ UNCHANGED <<job, runs, series, cursor, stored, histVars>>

\* No candles, too few of them, or an exception within the cycle: the job ends
\* and leaves no record of its own.
RunFails(t) ==
    /\ jpc[t] = "run"
    /\ Finish(t)
    /\ UNCHANGED <<series, cursor, stored, histVars>>

Advance(t) ==
    /\ jpc[t] = "advance"
    /\ cursor' = Advanced(1)
    /\ JGoto(t, IF Len(seen[t]) < job[t].steps THEN "run" ELSE "record")
    /\ UNCHANGED <<job, runs, seen, series, stored, histVars>>

\* The append() of a cycle, or of a finished backtest.
Record(t) ==
    /\ jpc[t] = "record"
    /\ BeginAppend(t)
    /\ JGoto(t, "recorded")
    /\ UNCHANGED <<job, runs, seen, series, cursor, stored>>

Recorded(t) ==
    /\ jpc[t] = "recorded" /\ step[t] = "idle"
    /\ IF job[t].kind = "batch"
       THEN JGoto(t, "judge") /\ UNCHANGED <<job, runs, seen>>
       ELSE Finish(t)
    /\ UNCHANGED <<series, cursor, stored, histVars>>

\* Mutated form of JudgeBatch: the fail-safe's verdict is only reported.
JudgeIterations(t) ==
    /\ jpc[t] = "judge"
    /\ Len(runs[t]) < job[t].iterations
    /\ JGoto(t, "run")
    /\ UNCHANGED <<job, runs, seen, series, cursor, stored, histVars>>

\* evaluate_batch looks at all cycles again; another one follows.
JudgeBatch(t) ==
    /\ jpc[t] = "judge"
    /\ ~FailSafe(runs[t]).stop /\ Len(runs[t]) < job[t].iterations
    /\ JGoto(t, "run")
    /\ UNCHANGED <<job, runs, seen, series, cursor, stored, histVars>>

\* The batch is over and records itself.
CloseBatch(t) ==
    /\ jpc[t] = "judge"
    /\ FailSafe(runs[t]).stop \/ Len(runs[t]) = job[t].iterations
    /\ BeginAppend(t)
    /\ JGoto(t, "closed")
    /\ UNCHANGED <<job, runs, seen, series, cursor, stored>>

Closed(t) ==
    /\ jpc[t] = "closed" /\ step[t] = "idle"
    /\ Finish(t)
    /\ UNCHANGED <<series, cursor, stored, histVars>>

JobStep(t) ==
    \/ \E j \in Job : StartJob(t, j)
    \/ RunCycle(t) \/ RunReplay(t) \/ RunFails(t) \/ Advance(t)
    \/ Record(t) \/ Recorded(t) \/ JudgeBatch(t) \/ CloseBatch(t) \/ Closed(t)
-----------------------------------------------------------------------------
(***************************************************************************)
(* The endpoints on market data.  The cursor is shared and unprotected: an *)
(* operator who loads or advances during a backtest changes its windows,   *)
(* and is taken to wait for its end.                                       *)
(***************************************************************************)

Replaying(t) == job[t] # NoJob /\ job[t].kind = "replay"

NoReplay == ~ \E t \in Thread : Replaying(t)

LoadReplay(s) ==
    /\ NoReplay
    /\ series' = s
    /\ cursor' = Min({Len(s), 1})
    /\ stored' \in Merged(stored, s)
    /\ UNCHANGED <<job, jpc, runs, seen, histVars>>

AdvanceReplay ==
    /\ NoReplay
    /\ series # <<>>
    /\ cursor' = Advanced(1)
    /\ UNCHANGED <<job, jpc, runs, seen, series, stored, histVars>>

\* POST /market-data/mock/seed only reaches the store.
SeedMock(s) ==
    /\ stored' \in Merged(stored, s)
    /\ UNCHANGED <<job, jpc, runs, seen, series, cursor, histVars>>

ResetCandles ==
    /\ stored' = <<>>
    /\ UNCHANGED <<job, jpc, runs, seen, series, cursor, histVars>>

\* The candles loaded for replays are lost with the process, the store is not.
CrashJobs ==
    /\ Crash
    /\ job' = [t \in Thread |-> NoJob]
    /\ jpc' = [t \in Thread |-> "rest"]
    /\ runs' = [t \in Thread |-> <<>>]
    /\ seen' = [t \in Thread |-> <<>>]
    /\ series' = <<>> /\ cursor' = 0
    /\ UNCHANGED stored

JobsNext ==
    \/ \E t \in Thread : JobStep(t) \/ (AppendStep(t) /\ UNCHANGED jobVars)
    \/ HistEnvironment /\ UNCHANGED jobVars
    \/ \E s \in Series : LoadReplay(s) \/ SeedMock(s)
    \/ AdvanceReplay \/ ResetCandles \/ CrashJobs

JobsSpec == JobsInit /\ [][JobsNext]_<<histVars, jobVars>>
-----------------------------------------------------------------------------
(***************************************************************************)
(* Properties.                                                             *)
(***************************************************************************)

\* The alerts that the first i cycles of a batch have set off.
AlertsUpTo(ps) ==
    LET total[i \in 0 .. Len(ps)] == IF i = 0 THEN 0 ELSE total[i - 1] + Alerts(ps[i])
    IN  total

\* The i-th cycle of a batch ends it: by then it has set off MaxAlerts alerts,
\* or each of its last MaxLossSteps cycles ended below the starting cash.
LimitReached(ps, i) ==
    \/ AlertsUpTo(ps)[i] >= MaxAlerts
    \/ i >= MaxLossSteps /\ \A k \in i - MaxLossSteps + 1 .. i : ps[k].equity < StartingCash

\* A batch runs no cycle after the one that reaches a limit of the fail-safe,
\* and is cut short for no other reason.
BatchStopsAtLimits ==
    \A t \in Thread :
        job[t] # NoJob /\ job[t].kind = "batch" =>
            /\ \A i \in 1 .. Len(runs[t]) - 1 : ~LimitReached(runs[t], i)
            /\ jpc[t] = "closed" =>
                  \/ Len(runs[t]) = job[t].iterations
                  \/ LimitReached(runs[t], Len(runs[t]))

\* A backtest starts at the first full window, whatever was replayed before,
\* moves by one candle a step and stays on the last window when the series is
\* over: it never runs out of candles once it had enough for one window.
ReplayWindowsAdvance ==
    \A t \in Thread :
        Replaying(t) /\ Len(series) >= job[t].window =>
            /\ \A i \in DOMAIN seen[t] :
                  LET last == Min({job[t].window + i - 1, Len(series)})
                  IN  seen[t][i] = SubSeq(series, last - job[t].window + 1, last)
            /\ Len(seen[t]) < job[t].steps => Len(Window(job[t].window)) = job[t].window

\* The candle store has one candle a timestamp, in order, whatever is loaded
\* again and in whatever order it comes.
StoredCandlesAscend ==
    \A i \in 2 .. Len(stored) : stored[i - 1].at < stored[i].at
=============================================================================
