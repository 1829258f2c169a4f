----------------------------- MODULE RunHistory ------------------------------
(***************************************************************************)
(* services/run_history_store.py: the run history, one JSONL file a day,   *)
(* and the cached identifier that spares append() the reading of it.       *)
(*                                                                         *)
(* append() compares the newest modification time of the files with the    *)
(* one it remembers; a newer one means that somebody else has written, and *)
(* the last identifier is read again.  Then it writes one line, remembers  *)
(* the identifier and the new modification time.  There is no lock.        *)
(*                                                                         *)
(* Another process may append to the same files.  The cache is meant for   *)
(* writes that come between two appends and carry a later time stamp, and  *)
(* these are the ones modelled: a write within an append, or within the    *)
(* resolution of the time stamps, is not noticed.                          *)
(***************************************************************************)
EXTENDS Naturals, Sequences, FiniteSets, SequencesExt, FiniteSetsExt

CONSTANTS
    Thread,     \* the threads that record runs
    Days,       \* the number of days
    MaxTime, MaxEntries, MaxCrashes  \* bounds of the exploration

ASSUME RunHistoryAssumption ==
    /\ {Days, MaxTime} \subseteq Nat \ {0}
    /\ {MaxEntries, MaxCrashes} \subseteq Nat

Day == 1 .. Days

\* An unreadable line, left by a process that died while it wrote.
Torn == 0

\* An identifier that is not cached, a file that does not exist.
None == 0

VARIABLES
    lines,      \* the identifiers in the file of each day, Torn if unreadable
    mtime,      \* the modification time of each file, None if there is none
    today,
    time,
    lastId,     \* _last_id; 0 is also the identifier before the first
    cached,     \* whether _last_id is set
    lastMtime,  \* _last_file_mtime
    step,       \* where each thread is in append()
    entry,      \* the entry a thread writes: its identifier and its day
    crashes

histVars == <<lines, mtime, today, time, lastId, cached, lastMtime, step, entry, crashes>>

Step == {"idle", "check", "number", "write", "cache", "stamp"}

NoEntry == [id |-> 0, day |-> 1]

HistTypeOK ==
    /\ lines \in [Day -> Seq(Nat)]
    /\ mtime \in [Day -> 0 .. MaxTime]
    /\ today \in Day /\ time \in 1 .. MaxTime
    /\ lastId \in Nat /\ cached \in BOOLEAN /\ lastMtime \in 0 .. MaxTime
    /\ step \in [Thread -> Step]
    /\ entry \in [Thread -> [id : Nat, day : Day]]
    /\ crashes \in 0 .. MaxCrashes

HistInit ==
    /\ lines = [d \in Day |-> <<>>]
    /\ mtime = [d \in Day |-> None]
    /\ today = 1 /\ time = 1
    /\ lastId = 0 /\ cached = FALSE /\ lastMtime = None
    /\ step = [t \in Thread |-> "idle"]
    /\ entry = [t \in Thread |-> NoEntry]
    /\ crashes = 0
-----------------------------------------------------------------------------
(***************************************************************************)
(* Reading.                                                                *)
(***************************************************************************)

\* load(): the entries of all files by day and line; torn lines are skipped.
Entries ==
    UNION {{[day |-> d, line |-> i, id |-> lines[d][i]] :
               i \in {n \in DOMAIN lines[d] : lines[d][n] # Torn}} : d \in Day}

Precedes(e, f) == e.day < f.day \/ (e.day = f.day /\ e.line < f.line)

\* list_recent(limit=1), or 0 for an empty history.
LatestId ==
    IF Entries = {} THEN 0
    ELSE (CHOOSE e \in Entries : \A f \in Entries \ {e} : Precedes(f, e)).id

\* The newest modification time, None without a file.
NewestMtime == Max({mtime[d] : d \in Day})

\* Bound: another line is written only while there are fewer than MaxEntries.
Roomy == Cardinality(UNION {{d} \X DOMAIN lines[d] : d \in Day}) < MaxEntries

\* A line that is written behind a torn one becomes a part of it: the two are
\* skipped as one unreadable line, and the next line is a new one again.
WithLine(d, id) ==
    LET torn == lines[d] # <<>> /\ Last(lines[d]) = Torn
    IN  [lines EXCEPT ![d] =
            IF ~torn THEN Append(@, id) ELSE IF id = Torn THEN @ ELSE Front(@)]
-----------------------------------------------------------------------------
(***************************************************************************)
(* append().                                                               *)
(***************************************************************************)

Goto(t, s) == step' = [step EXCEPT ![t] = s]

BeginAppend(t) ==
    /\ step[t] = "idle"
    /\ lastId < MaxEntries /\ Roomy
    /\ Goto(t, "check")
    /\ UNCHANGED <<lines, mtime, today, time, lastId, cached, lastMtime, entry, crashes>>

\* Mutated form of CheckCache: writes of others are not looked for.
TrustCache(t) ==
    /\ step[t] = "check"
    /\ Goto(t, "number")
    /\ UNCHANGED <<lines, mtime, today, time, lastId, cached, lastMtime, entry, crashes>>

CheckCache(t) ==
    /\ step[t] = "check"
    /\ LET stale == lastMtime = None \/ NewestMtime > lastMtime
       IN  /\ cached' = (cached /\ ~stale)
           /\ lastMtime' = IF stale THEN NewestMtime ELSE lastMtime
    /\ Goto(t, "number")
    /\ UNCHANGED <<lines, mtime, today, time, lastId, entry, crashes>>

\* The day is taken before the identifier, the identifier from the cache or
\* from the files.
NumberEntry(t) ==
    /\ step[t] = "number"
    /\ LET last == IF cached THEN lastId ELSE LatestId
       IN  /\ lastId' = last
           /\ entry' = [entry EXCEPT ![t] = [id |-> last + 1, day |-> today]]
    /\ cached' = TRUE
    /\ Goto(t, "write")
    /\ UNCHANGED <<lines, mtime, today, time, lastMtime, crashes>>

WriteLine(t) ==
    /\ step[t] = "write"
    /\ lines' = WithLine(entry[t].day, entry[t].id)
    /\ mtime' = [mtime EXCEPT ![entry[t].day] = time]
    /\ Goto(t, "cache")
    /\ UNCHANGED <<today, time, lastId, cached, lastMtime, entry, crashes>>

CacheId(t) ==
    /\ step[t] = "cache"
    /\ lastId' = entry[t].id
    /\ cached' = TRUE
    /\ Goto(t, "stamp")
    /\ UNCHANGED <<lines, mtime, today, time, lastMtime, entry, crashes>>

\* The file may be gone again: then its time is left alone.
StampMtime(t) ==
    /\ step[t] = "stamp"
    /\ LET new == mtime[entry[t].day]
       IN  lastMtime' = IF new # None /\ new > lastMtime THEN new ELSE lastMtime
    /\ entry' = [entry EXCEPT ![t] = NoEntry]
    /\ Goto(t, "idle")
    /\ UNCHANGED <<lines, mtime, today, time, lastId, cached, crashes>>

AppendStep(t) ==
    CheckCache(t) \/ NumberEntry(t) \/ WriteLine(t) \/ CacheId(t) \/ StampMtime(t)
-----------------------------------------------------------------------------
(***************************************************************************)
(* What happens around it.                                                 *)
(***************************************************************************)

\* POST /runs/reset on another API thread: the files go, the cache stays.
Reset ==
    /\ lines' = [d \in Day |-> <<>>]
    /\ mtime' = [d \in Day |-> None]
    /\ UNCHANGED <<today, time, lastId, cached, lastMtime, step, entry, crashes>>

\* Another process with a store of its own appends to the file of today.
OutsideAppend ==
    /\ \A t \in Thread : step[t] = "idle"
    /\ time > lastMtime /\ time > NewestMtime
    /\ Roomy
    /\ lines' = WithLine(today, LatestId + 1)
    /\ mtime' = [mtime EXCEPT ![today] = time]
    /\ UNCHANGED <<today, time, lastId, cached, lastMtime, step, entry, crashes>>

Tick ==
    /\ time < MaxTime
    /\ time' = time + 1
    /\ UNCHANGED <<lines, mtime, today, lastId, cached, lastMtime, step, entry, crashes>>

\* Midnight, UTC.
NextDay ==
    /\ today < Days
    /\ today' = today + 1
    /\ UNCHANGED <<lines, mtime, time, lastId, cached, lastMtime, step, entry, crashes>>

\* The process dies and is started again; a line being written may be torn.
Crash ==
    /\ crashes < MaxCrashes
    /\ crashes' = crashes + 1
    /\ \/ UNCHANGED <<lines, mtime>>
       \/ \E t \in Thread :
             /\ step[t] = "write"
             /\ lines' = WithLine(entry[t].day, Torn)
             /\ mtime' = [mtime EXCEPT ![entry[t].day] = time]
    /\ lastId' = 0 /\ cached' = FALSE /\ lastMtime' = None
    /\ step' = [t \in Thread |-> "idle"]
    /\ entry' = [t \in Thread |-> NoEntry]
    /\ UNCHANGED <<today, time>>

HistEnvironment == Reset \/ OutsideAppend \/ Tick \/ NextDay
-----------------------------------------------------------------------------
(***************************************************************************)
(* Properties.                                                             *)
(***************************************************************************)

\* The identifiers increase from one entry of the history to the next, over
\* days, restarts, resets and the writes of other processes, although append()
\* hardly ever reads them back.  It takes one thread that records at a time.
IdsIncrease ==
    \A e, f \in Entries : Precedes(e, f) => e.id < f.id
=============================================================================
