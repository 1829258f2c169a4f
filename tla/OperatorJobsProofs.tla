-------------------------- MODULE OperatorJobsProofs --------------------------
(***************************************************************************)
(* Theorems about RunHistory and OperatorJobs, for all series of candles,  *)
(* portfolios, limits and bounds of the exploration.  What a batch does    *)
(* and what the candle store keeps is proved for any threads, what depends *)
(* on the unlocked append() and on the shared cursor for a single one.     *)
(***************************************************************************)
EXTENDS OperatorJobs, OrderingsProofs, SequenceTheorems

\* One thread records runs and works on replays.
OneThread == \A t, u \in Thread : t = u
-----------------------------------------------------------------------------
(***************************************************************************)
(* The files of the run history.                                           *)
(***************************************************************************)

\* The greatest of a bounded set of numbers.
LEMMA MaxOfNats ==
    ASSUME NEW S, NEW N \in Nat, S \subseteq 0 .. N, S # {}
    PROVE  Max(S) \in S /\ \A n \in S : n <= Max(S)
  <1>1. \E m \in S : \A n \in S : m >= n
    BY GreatestNat
  <1>2. Max(S) = CHOOSE m \in S : \A n \in S : m >= n
    BY DEF Max
  <1>3. Max(S) \in S /\ \A n \in S : Max(S) >= n
    BY <1>1, <1>2
  <1>4. QED
    BY <1>3

\* The larger and the smaller of two numbers.
LEMMA MaxOfTwo ==
    ASSUME NEW a \in Int, NEW b \in Int
    PROVE  Max({a, b}) = IF a >= b THEN a ELSE b
  <1> DEFINE S == {a, b}
             c == IF a >= b THEN a ELSE b
  <1>1. Max(S) = CHOOSE m \in S : \A n \in S : m >= n
    BY DEF Max
  <1>2. c \in S /\ \A n \in S : c >= n
    OBVIOUS
  <1>3. \A m \in S : (\A n \in S : m >= n) => m = c
    OBVIOUS
  <1> HIDE DEF S, c
  <1>4. Max(S) = c
    BY <1>1, <1>2, <1>3
  <1>5. QED
    BY <1>4 DEF S, c

\* The smaller of two integers.
LEMMA MinOfTwo ==
    ASSUME NEW a \in Int, NEW b \in Int
    PROVE  Min({a, b}) = IF a <= b THEN a ELSE b
  <1> DEFINE S == {a, b}
             c == IF a <= b THEN a ELSE b
  <1>1. Min(S) = CHOOSE m \in S : \A n \in S : m <= n
    BY DEF Min
  <1>2. c \in S /\ \A n \in S : c <= n
    OBVIOUS
  <1>3. \A m \in S : (\A n \in S : m <= n) => m = c
    OBVIOUS
  <1> HIDE DEF S, c
  <1>4. Min(S) = c
    BY <1>1, <1>2, <1>3
  <1>5. QED
    BY <1>4 DEF S, c

\* What is assumed of the bounds, one by one.
LEMMA HistConstants ==
    /\ Days \in Nat \ {0} /\ MaxTime \in Nat \ {0}
    /\ MaxEntries \in Nat /\ MaxCrashes \in Nat
    /\ 1 \in Day
  BY RunHistoryAssumption DEF Day

\* The newest modification time is that of a file.
LEMMA NewestIsNewest ==
    ASSUME HistTypeOK
    PROVE  /\ NewestMtime \in 0 .. MaxTime
           /\ \A d \in Day : mtime[d] <= NewestMtime
  <1> DEFINE S == {mtime[d] : d \in Day}
  <1>1. S \subseteq 0 .. MaxTime /\ S # {} /\ MaxTime \in Nat /\ NewestMtime = Max(S)
    BY HistConstants DEF HistTypeOK, NewestMtime
  <1>2. \A d \in Day : mtime[d] \in S
    OBVIOUS
  <1> HIDE DEF S
  <1>3. Max(S) \in S /\ \A n \in S : n <= Max(S)
    BY <1>1, MaxOfNats
  <1>4. QED
    BY <1>1, <1>2, <1>3

\* An entry is a readable line.
LEMMA EntryIsLine ==
    ASSUME NEW e
    PROVE  e \in Entries <=>
             \E d \in Day : \E i \in DOMAIN lines[d] :
                /\ lines[d][i] # Torn
                /\ e = [day |-> d, line |-> i, id |-> lines[d][i]]
  BY DEF Entries

\* An entry has the day, the line and the identifier it was read from.
LEMMA EntryTyped ==
    ASSUME HistTypeOK, NEW e \in Entries
    PROVE  /\ e.day \in Day /\ e.line \in 1 .. Len(lines[e.day]) /\ Len(lines[e.day]) \in Nat
           /\ e.id = lines[e.day][e.line] /\ e.id \in Nat
           /\ e = [day |-> e.day, line |-> e.line, id |-> lines[e.day][e.line]]
  <1>1. PICK d \in Day :
           \E i \in DOMAIN lines[d] : e = [day |-> d, line |-> i, id |-> lines[d][i]]
    BY EntryIsLine
  <1>2. lines[d] \in Seq(Nat)
    BY DEF HistTypeOK
  <1>3. DOMAIN lines[d] = 1 .. Len(lines[d]) /\ Len(lines[d]) \in Nat
    BY <1>2
  <1>4. PICK i \in 1 .. Len(lines[d]) : e = [day |-> d, line |-> i, id |-> lines[d][i]]
    BY <1>1, <1>3
  <1>5. lines[d][i] \in Nat
    BY <1>2
  <1>6. QED
    BY <1>3, <1>4, <1>5

\* The entries are in a line: of two one precedes the other.
LEMMA EntriesInLine ==
    ASSUME HistTypeOK, NEW e \in Entries, NEW f \in Entries, e # f
    PROVE  Precedes(e, f) \/ Precedes(f, e)
  <1>1. e.day \in Nat /\ f.day \in Nat /\ e.line \in Nat /\ f.line \in Nat
    BY EntryTyped DEF Day
  <1>2. ~(e.day = f.day /\ e.line = f.line)
    BY EntryTyped
  <1>3. QED
    BY <1>1, <1>2 DEF Precedes

\* One entry is behind all others.
LEMMA LastEntry ==
    ASSUME HistTypeOK, Entries # {}
    PROVE  \E e \in Entries : \A f \in Entries \ {e} : Precedes(f, e)
  <1> DEFINE Written == {e.day : e \in Entries}
  <1>1. Written \subseteq 0 .. Days /\ Written # {} /\ Days \in Nat
    BY EntryTyped, RunHistoryAssumption DEF Day
  <1>2. PICK d \in Written : \A n \in Written : d >= n
    <2> HIDE DEF Written
    <2> QED BY <1>1, GreatestNat
  <1> DEFINE Filled == {e.line : e \in {f \in Entries : f.day = d}}
  <1>3. Filled \subseteq 0 .. Len(lines[d]) /\ Filled # {} /\ Len(lines[d]) \in Nat
    BY <1>2, EntryTyped
  <1>4. PICK i \in Filled : \A n \in Filled : i >= n
    <2> HIDE DEF Filled
    <2> QED BY <1>3, GreatestNat
  <1>5. PICK e \in Entries : e.day = d /\ e.line = i
    BY <1>4
  <1>6. ASSUME NEW f \in Entries \ {e} PROVE Precedes(f, e)
    <2>1. f.day \in Written /\ (f.day = d => f.line \in Filled)
      BY <1>6
    <2>2. d >= f.day /\ (f.day = d => i >= f.line)
      BY <1>2, <1>4, <2>1
    <2>3. e.day \in Nat /\ f.day \in Nat /\ e.line \in Nat /\ f.line \in Nat
      BY <1>6, EntryTyped DEF Day
    <2>4. ~Precedes(e, f)
      BY <1>5, <2>2, <2>3 DEF Precedes
    <2>5. QED
      BY <1>6, <2>4, EntriesInLine
  <1>7. QED
    BY <1>6

\* Its identifier is the latest: the largest one, if they increase.
LEMMA LatestIsGreatest ==
    ASSUME HistTypeOK
    PROVE  /\ LatestId \in Nat
           /\ IdsIncrease => \A e \in Entries : e.id <= LatestId
  <1>1. CASE Entries = {}
    BY <1>1 DEF LatestId
  <1>2. CASE Entries # {}
    <2> DEFINE last == CHOOSE e \in Entries : \A f \in Entries \ {e} : Precedes(f, e)
    <2>1. LatestId = last.id
      BY <1>2 DEF LatestId
    <2>2. last \in Entries /\ \A f \in Entries \ {last} : Precedes(f, last)
      BY <1>2, LastEntry
    <2> HIDE DEF last
    <2>3. last.id \in Nat /\ \A e \in Entries : e.id \in Nat
      BY <2>2, EntryTyped
    <2>4. ASSUME IdsIncrease, NEW e \in Entries PROVE e.id <= last.id
      BY <2>2, <2>3, <2>4 DEF IdsIncrease
    <2>5. QED
      BY <2>1, <2>3, <2>4
  <1>3. QED
    BY <1>1, <1>2
-----------------------------------------------------------------------------
(***************************************************************************)
(* Writing a line.                                                         *)
(***************************************************************************)

\* All lines but the last.
LEMMA FrontOf ==
    ASSUME NEW s \in Seq(Nat), s # <<>>
    PROVE  /\ Front(s) \in Seq(Nat) /\ Len(Front(s)) = Len(s) - 1
           /\ \A i \in 1 .. Len(s) - 1 : Front(s)[i] = s[i]
  <1> DEFINE n == Len(s) - 1
  <1>1. n \in Nat /\ Front(s) = SubSeq(s, 1, n)
    BY DEF Front
  <1>2. \A i \in 1 .. n : s[i] \in Nat
    OBVIOUS
  <1> HIDE DEF n
  <1>3. /\ SubSeq(s, 1, n) \in Seq(Nat)
        /\ Len(SubSeq(s, 1, n)) = IF 1 <= n THEN n - 1 + 1 ELSE 0
        /\ \A i \in 1 .. n - 1 + 1 : SubSeq(s, 1, n)[i] = s[1 + i - 1]
    BY <1>1, <1>2, SubSeqProperties
  <1>4. n - 1 + 1 = n /\ (\A i \in 1 .. n : 1 + i - 1 = i) /\ (~(1 <= n) => n = 0)
    BY <1>1
  <1>5. QED
    BY <1>1, <1>3, <1>4 DEF n

\* Only the file of its day changes, and what it holds stays well typed.
LEMMA WithLineTyped ==
    ASSUME HistTypeOK, NEW d \in Day, NEW id \in Nat
    PROVE  /\ WithLine(d, id) \in [Day -> Seq(Nat)]
           /\ \A c \in Day \ {d} : WithLine(d, id)[c] = lines[c]
  <1>1. lines \in [Day -> Seq(Nat)] /\ lines[d] \in Seq(Nat)
    BY DEF HistTypeOK
  <1>2. Append(lines[d], id) \in Seq(Nat)
    BY <1>1
  <1>3. lines[d] # <<>> => Front(lines[d]) \in Seq(Nat)
    BY <1>1, FrontOf
  <1>4. QED
    BY <1>1, <1>2, <1>3 DEF WithLine

\* What its file holds then: one more line behind the others, or, where the
\* last line was torn, no line in the place of that one.
LEMMA WithLineFile ==
    ASSUME HistTypeOK, NEW d \in Day, NEW id \in Nat
    PROVE  LET new == WithLine(d, id)[d]
               n == Len(lines[d])
           IN  \/ /\ Len(new) = n + 1 /\ new[n + 1] = id
                  /\ \A i \in 1 .. n : new[i] = lines[d][i]
               \/ /\ Len(new) <= n
                  /\ \A i \in 1 .. Len(new) : new[i] = lines[d][i]
  <1> DEFINE new == WithLine(d, id)[d]
             n == Len(lines[d])
             torn == lines[d] # <<>> /\ Last(lines[d]) = Torn
  <1>1. lines \in [Day -> Seq(Nat)] /\ lines[d] \in Seq(Nat) /\ n \in Nat
    BY DEF HistTypeOK
  <1>2. new = IF ~torn THEN Append(lines[d], id) ELSE IF id = Torn THEN lines[d]
              ELSE Front(lines[d])
    BY <1>1 DEF WithLine
  <1>3. CASE ~torn
    <2>1. new = Append(lines[d], id)
      BY <1>2, <1>3
    <2>2. Len(new) = n + 1 /\ new[n + 1] = id /\ \A i \in 1 .. n : new[i] = lines[d][i]
      BY <1>1, <2>1
    <2>3. QED
      BY <2>2
  <1>4. CASE torn /\ id = Torn
    BY <1>1, <1>2, <1>4
  <1>5. CASE torn /\ id # Torn
    <2>1. new = Front(lines[d])
      BY <1>2, <1>5
    <2>2. Len(new) = n - 1 /\ \A i \in 1 .. n - 1 : new[i] = lines[d][i]
      BY <1>1, <1>5, <2>1, FrontOf
    <2>3. QED
      BY <1>1, <2>2
  <1>6. QED
    BY <1>3, <1>4, <1>5

\* The entry behind the others in its file.
EntryBehind(d, id) == [day |-> d, line |-> Len(lines[d]) + 1, id |-> id]

\* The entries after it: those before, and that one.
LEMMA EntriesWithLine ==
    ASSUME HistTypeOK, HistTypeOK', NEW d \in Day, NEW id \in Nat, lines' = WithLine(d, id),
           NEW e \in Entries'
    PROVE  e \in Entries \/ (id # Torn /\ e = EntryBehind(d, id))
  <1>1. PICK c \in Day : \E i \in DOMAIN lines'[c] :
           lines'[c][i] # Torn /\ e = [day |-> c, line |-> i, id |-> lines'[c][i]]
    BY DEF Entries
  <1>2. lines'[c] \in Seq(Nat) /\ lines[c] \in Seq(Nat) /\ lines[d] \in Seq(Nat)
    BY DEF HistTypeOK
  <1>3. DOMAIN lines'[c] = 1 .. Len(lines'[c]) /\ DOMAIN lines[c] = 1 .. Len(lines[c])
        /\ Len(lines[c]) \in Nat /\ Len(lines'[c]) \in Nat
    BY <1>2
  <1>4. PICK i \in 1 .. Len(lines'[c]) :
           lines'[c][i] # Torn /\ e = [day |-> c, line |-> i, id |-> lines'[c][i]]
    BY <1>1, <1>3
  <1>5. CASE i \in DOMAIN lines[c] /\ lines'[c][i] = lines[c][i]
    BY <1>4, <1>5, EntryIsLine
  <1>6. CASE c # d
    BY <1>3, <1>4, <1>5, <1>6, WithLineTyped
  <1>7. CASE c = d /\ Len(lines'[d]) <= Len(lines[d])
                   /\ \A k \in 1 .. Len(lines'[d]) : lines'[d][k] = lines[d][k]
    BY <1>3, <1>4, <1>5, <1>7
  <1>8. CASE /\ c = d /\ Len(lines'[d]) = Len(lines[d]) + 1
             /\ lines'[d][Len(lines[d]) + 1] = id
             /\ \A k \in 1 .. Len(lines[d]) : lines'[d][k] = lines[d][k]
    <2>1. CASE i = Len(lines[d]) + 1
      BY <1>4, <1>8, <2>1 DEF EntryBehind
    <2>2. CASE i # Len(lines[d]) + 1
      BY <1>3, <1>4, <1>5, <1>8, <2>2
    <2>3. QED
      BY <2>1, <2>2
  <1>9. \/ /\ Len(lines'[d]) = Len(lines[d]) + 1
           /\ lines'[d][Len(lines[d]) + 1] = id
           /\ \A k \in 1 .. Len(lines[d]) : lines'[d][k] = lines[d][k]
        \/ Len(lines'[d]) <= Len(lines[d])
           /\ \A k \in 1 .. Len(lines'[d]) : lines'[d][k] = lines[d][k]
    BY WithLineFile
  <1>10. QED
    BY <1>6, <1>7, <1>8, <1>9
-----------------------------------------------------------------------------
(***************************************************************************)
(* append() and what happens around it.                                    *)
(***************************************************************************)

\* Where a thread is in append(), and what it knows then of the entries.
Knows(t) ==
    /\ step[t] \in {"idle", "check"} /\ cached /\ lastMtime # None /\ NewestMtime <= lastMtime
         => \A e \in Entries : e.id <= lastId
    /\ step[t] = "number" /\ cached => \A e \in Entries : e.id <= lastId
    /\ step[t] = "write" =>
          /\ entry[t].day <= today
          /\ \A e \in Entries : e.id < entry[t].id /\ e.day <= entry[t].day
    /\ step[t] = "cache" => \A e \in Entries : e.id <= entry[t].id
    /\ step[t] = "stamp" => \A e \in Entries : e.id <= lastId

\* The identifiers increase, no entry is of a day to come, and no thread is
\* wrong about the entries.
Numbered ==
    /\ IdsIncrease
    /\ \A e \in Entries : e.day <= today
    /\ \A t \in Thread : Knows(t)

\* What the history does in a step of a job, or between jobs.
HistStep ==
    \/ \E t \in Thread : BeginAppend(t) \/ AppendStep(t)
    \/ HistEnvironment \/ Crash \/ UNCHANGED histVars

\* An empty history is well formed, and every thread knows all there is to know.
LEMMA HistInitInv == HistInit => HistTypeOK /\ Numbered
  <1> SUFFICES ASSUME HistInit PROVE HistTypeOK /\ Numbered
    OBVIOUS
  <1>1. HistTypeOK
    <2>1. <<>> \in Seq(Nat) /\ NoEntry \in [id : Nat, day : Day]
      BY HistConstants DEF NoEntry
    <2>2. /\ lines \in [Day -> Seq(Nat)] /\ mtime \in [Day -> 0 .. MaxTime]
          /\ step \in [Thread -> Step] /\ entry \in [Thread -> [id : Nat, day : Day]]
      BY <2>1, HistConstants DEF HistInit, Step, None
    <2>3. /\ today \in Day /\ time \in 1 .. MaxTime
          /\ lastId \in Nat /\ lastMtime \in 0 .. MaxTime /\ crashes \in 0 .. MaxCrashes
      BY HistConstants DEF HistInit, None
    <2>4. cached \in BOOLEAN
      BY DEF HistInit
    <2>5. QED
      BY <2>2, <2>3, <2>4 DEF HistTypeOK
  <1>2. Entries = {}
    BY EntryIsLine DEF HistInit
  <1>3. QED
    BY <1>1, <1>2 DEF Numbered, Knows, IdsIncrease, HistInit, None

\* Every step of the history keeps its types.
LEMMA HistTypeStep ==
    ASSUME HistTypeOK, HistStep
    PROVE  HistTypeOK'
  <1> USE DEF HistTypeOK
  <1>1. ASSUME NEW t \in Thread, BeginAppend(t) PROVE HistTypeOK'
    BY <1>1 DEF BeginAppend, Goto, Step
  <1>2. ASSUME NEW t \in Thread, CheckCache(t) PROVE HistTypeOK'
    <2>1. lastMtime' \in 0 .. MaxTime /\ cached' \in BOOLEAN
      BY <1>2, NewestIsNewest DEF CheckCache
    <2>2. step' \in [Thread -> Step]
      BY <1>2 DEF CheckCache, Goto, Step
    <2>3. QED
      BY <1>2, <2>1, <2>2 DEF CheckCache
  <1>3. ASSUME NEW t \in Thread, NumberEntry(t) PROVE HistTypeOK'
    <2> DEFINE last == IF cached THEN lastId ELSE LatestId
    <2>1. last \in Nat /\ [id |-> last + 1, day |-> today] \in [id : Nat, day : Day]
      BY LatestIsGreatest
    <2>2. lastId' = last /\ entry' = [entry EXCEPT ![t] = [id |-> last + 1, day |-> today]]
      BY <1>3 DEF NumberEntry
    <2> HIDE DEF last
    <2>3. lastId' \in Nat /\ entry' \in [Thread -> [id : Nat, day : Day]]
      BY <2>1, <2>2
    <2>4. step' \in [Thread -> Step] /\ cached' \in BOOLEAN
      BY <1>3 DEF NumberEntry, Goto, Step
    <2>5. QED
      BY <1>3, <2>3, <2>4 DEF NumberEntry
  <1>4. ASSUME NEW t \in Thread, WriteLine(t) PROVE HistTypeOK'
    <2>1. entry[t].day \in Day /\ entry[t].id \in Nat /\ time \in 0 .. MaxTime
      OBVIOUS
    <2>2. lines' \in [Day -> Seq(Nat)]
      BY <1>4, <2>1, WithLineTyped DEF WriteLine
    <2>3. mtime' \in [Day -> 0 .. MaxTime] /\ step' \in [Thread -> Step]
      BY <1>4, <2>1 DEF WriteLine, Goto, Step
    <2>4. QED
      BY <1>4, <2>2, <2>3 DEF WriteLine
  <1>5. ASSUME NEW t \in Thread, CacheId(t) PROVE HistTypeOK'
    BY <1>5 DEF CacheId, Goto, Step
  <1>6. ASSUME NEW t \in Thread, StampMtime(t) PROVE HistTypeOK'
    <2>1. NoEntry \in [id : Nat, day : Day]
      BY HistConstants DEF NoEntry
    <2>2. mtime[entry[t].day] \in 0 .. MaxTime
      OBVIOUS
    <2>3. entry' \in [Thread -> [id : Nat, day : Day]] /\ step' \in [Thread -> Step]
      BY <1>6, <2>1 DEF StampMtime, Goto, Step
    <2>4. lastMtime' \in 0 .. MaxTime
      BY <1>6, <2>2 DEF StampMtime
    <2>5. QED
      BY <1>6, <2>3, <2>4 DEF StampMtime
  <1>7. CASE Reset
    <2>1. <<>> \in Seq(Nat) /\ None \in 0 .. MaxTime
      BY HistConstants DEF None
    <2>2. lines' \in [Day -> Seq(Nat)] /\ mtime' \in [Day -> 0 .. MaxTime]
      BY <1>7, <2>1 DEF Reset
    <2>3. QED
      BY <1>7, <2>2 DEF Reset
  <1>8. CASE OutsideAppend
    <2>1. LatestId + 1 \in Nat /\ today \in Day /\ time \in 0 .. MaxTime
      BY LatestIsGreatest
    <2>2. lines' \in [Day -> Seq(Nat)]
      BY <1>8, <2>1, WithLineTyped DEF OutsideAppend
    <2>3. mtime' \in [Day -> 0 .. MaxTime]
      BY <1>8, <2>1 DEF OutsideAppend
    <2>4. QED
      BY <1>8, <2>2, <2>3 DEF OutsideAppend
  <1>9. CASE Tick \/ NextDay
    <2>1. CASE Tick
      <3>1. time' \in 1 .. MaxTime
        BY <2>1, HistConstants DEF Tick
      <3>2. QED
        BY <2>1, <3>1 DEF Tick
    <2>2. CASE NextDay
      <3>1. today' \in Day
        BY <2>2, HistConstants DEF NextDay, Day
      <3>2. QED
        BY <2>2, <3>1 DEF NextDay
    <2>3. QED
      BY <1>9, <2>1, <2>2
  <1>10. CASE Crash
    <2>1. NoEntry \in [id : Nat, day : Day] /\ None \in 0 .. MaxTime /\ Torn \in Nat
      BY HistConstants DEF NoEntry, None, Torn
    <2>2. lines' \in [Day -> Seq(Nat)] /\ mtime' \in [Day -> 0 .. MaxTime]
      <3>1. CASE UNCHANGED <<lines, mtime>>
        BY <3>1
      <3>2. CASE \E t \in Thread :
                    /\ lines' = WithLine(entry[t].day, Torn)
                    /\ mtime' = [mtime EXCEPT ![entry[t].day] = time]
        <4>1. PICK t \in Thread :
                 /\ lines' = WithLine(entry[t].day, Torn)
                 /\ mtime' = [mtime EXCEPT ![entry[t].day] = time]
          BY <3>2
        <4>2. entry[t].day \in Day /\ time \in 0 .. MaxTime
          OBVIOUS
        <4>3. QED
          BY <2>1, <4>1, <4>2, WithLineTyped
      <3>3. QED
        BY <1>10, <3>1, <3>2 DEF Crash
    <2>3. /\ step' \in [Thread -> Step] /\ entry' \in [Thread -> [id : Nat, day : Day]]
          /\ cached' \in BOOLEAN
      BY <1>10, <2>1 DEF Crash, Step
    <2>4. lastId' \in Nat /\ lastMtime' \in 0 .. MaxTime /\ crashes' \in 0 .. MaxCrashes
      BY <1>10, <2>1, HistConstants DEF Crash
    <2>5. QED
      BY <1>10, <2>2, <2>3, <2>4 DEF Crash
  <1>11. CASE UNCHANGED histVars
    BY <1>11 DEF histVars
  <1>12. QED
    BY <1>1, <1>2, <1>3, <1>4, <1>5, <1>6, <1>7, <1>8, <1>9, <1>10, <1>11
       DEF HistStep, AppendStep, HistEnvironment

\* Where no entry is added, the identifiers stay in order.
LEMMA NumberedWithoutNew ==
    ASSUME Entries' \subseteq Entries, IdsIncrease, \A e \in Entries : e.day <= today,
           today' \in Nat, today \in Nat, HistTypeOK, today <= today'
    PROVE  IdsIncrease' /\ \A e \in Entries' : e.day <= today'
  <1>1. \A e \in Entries : e.day \in Nat
    BY EntryTyped DEF Day
  <1>2. QED
    BY <1>1 DEF IdsIncrease, Precedes

\* Where one is added behind all others, with an identifier above theirs, too.
LEMMA NumberedWithNew ==
    ASSUME HistTypeOK, HistTypeOK', NEW d \in Day, NEW id \in Nat, lines' = WithLine(d, id),
           IdsIncrease, \A e \in Entries : e.day <= d /\ e.id < id, d <= today, today' = today
    PROVE  /\ IdsIncrease' /\ \A e \in Entries' : e.day <= today'
           /\ \A e \in Entries' : e.id <= id
  <1>1. \A e \in Entries : e.day \in Nat /\ e.line \in Nat /\ e.id \in Nat
    BY EntryTyped DEF Day
  <1>2. d \in Nat /\ today \in Nat
    BY DEF Day, HistTypeOK
  <1>3. \A e \in Entries' : e \in Entries \/ e = EntryBehind(d, id)
    BY EntriesWithLine
  <1> DEFINE new == EntryBehind(d, id)
  <1>4. /\ new.day = d /\ new.id = id /\ new.line \in Nat
        /\ \A e \in Entries : e.day = d => e.line < new.line
    <2>1. \A e \in Entries : e.day = d => e.line \in 1 .. Len(lines[d])
      BY EntryTyped
    <2>2. lines[d] \in Seq(Nat) /\ new.line = Len(lines[d]) + 1
      BY DEF HistTypeOK, EntryBehind
    <2>3. Len(lines[d]) \in Nat
      BY <2>2
    <2>4. new.line \in Nat /\ \A e \in Entries : e.day = d => e.line < new.line
      BY <2>1, <2>2, <2>3
    <2>5. QED
      BY <2>4 DEF EntryBehind
  <1> HIDE DEF new
  <1>5. \A e \in Entries' : e.day <= today' /\ e.id <= id
    BY <1>1, <1>2, <1>3, <1>4 DEF new
  <1>6. ASSUME NEW e \in Entries', NEW f \in Entries', Precedes(e, f)
        PROVE  e.id < f.id
    <2>1. CASE e \in Entries /\ f \in Entries
      BY <1>6, <2>1 DEF IdsIncrease
    <2>2. CASE e \in Entries /\ f = new
      BY <1>1, <1>4, <2>2
    <2>3. CASE e = new
      <3>1. ~Precedes(new, new)
        BY <1>2, <1>4 DEF Precedes
      <3>2. \A g \in Entries : ~Precedes(new, g)
        BY <1>1, <1>2, <1>4 DEF Precedes
      <3>3. QED
        BY <1>3, <1>6, <2>3, <3>1, <3>2 DEF new
    <2>4. QED
      BY <1>3, <2>1, <2>2, <2>3 DEF new
  <1>7. QED
    BY <1>5, <1>6 DEF IdsIncrease, Precedes

\* With one thread, what it knows of the entries survives every step: its own,
\* those of other processes, the change of day and a crash.
LEMMA NumberedStep ==
    ASSUME OneThread, HistTypeOK, HistTypeOK', Numbered, HistStep
    PROVE  Numbered'
  <1>1. IdsIncrease /\ (\A e \in Entries : e.day <= today) /\ today \in Nat
        /\ \A t \in Thread : Knows(t)
    BY DEF Numbered, HistTypeOK, Day
  <1>2. ASSUME UNCHANGED lines, UNCHANGED today, NEW t \in Thread, Knows(t)'
        PROVE  Numbered'
    <2>1. Entries' = Entries
      BY <1>2 DEF Entries
    <2>2. IdsIncrease' /\ \A e \in Entries' : e.day <= today'
      BY <1>1, <1>2, <2>1, NumberedWithoutNew
    <2>3. \A u \in Thread : u = t
      BY DEF OneThread
    <2>4. QED
      BY <1>2, <2>2, <2>3 DEF Numbered
  <1>3. ASSUME UNCHANGED lines PROVE Entries' = Entries
    BY <1>3 DEF Entries
  <1>4. ASSUME UNCHANGED mtime PROVE NewestMtime' = NewestMtime
    BY <1>4 DEF NewestMtime
  <1>6. ASSUME NEW t \in Thread, BeginAppend(t) PROVE Numbered'
    <2>1. step'[t] = "check" /\ step[t] = "idle" /\ UNCHANGED <<lines, mtime, lastId, cached, lastMtime, today>>
      BY <1>6 DEF BeginAppend, Goto, HistTypeOK
    <2>2. Knows(t)'
      BY <1>1, <1>3, <1>4, <2>1 DEF Knows
    <2>3. QED
      BY <1>2, <2>1, <2>2
  <1>7. ASSUME NEW t \in Thread, CheckCache(t) PROVE Numbered'
    <2>1. /\ step[t] = "check" /\ step'[t] = "number" /\ UNCHANGED <<lines, lastId, today>>
          /\ cached' => cached /\ lastMtime # None /\ ~(NewestMtime > lastMtime)
      <3>1. step[t] = "check" /\ step'[t] = "number" /\ UNCHANGED <<lines, lastId, today>>
        BY <1>7 DEF CheckCache, Goto, HistTypeOK
      <3>2. cached' = (cached /\ ~(lastMtime = None \/ NewestMtime > lastMtime))
        BY <1>7 DEF CheckCache
      <3>3. QED
        BY ONLY <3>1, <3>2, Zenon
    <2>2. NewestMtime \in Int /\ lastMtime \in Int
      <3>1. NewestMtime \in 0 .. MaxTime
        BY NewestIsNewest
      <3>2. lastMtime \in 0 .. MaxTime
        BY DEF HistTypeOK
      <3>3. QED
        BY <3>1, <3>2
    <2>3. ASSUME cached' PROVE \A e \in Entries : e.id <= lastId
      <3>1. cached /\ lastMtime # None /\ ~(NewestMtime > lastMtime)
        BY <2>1, <2>3
      <3>2. NewestMtime <= lastMtime
        BY <2>2, <3>1
      <3>3. QED
        BY <1>1, <2>1, <3>1, <3>2, Zenon DEF Knows
    <2>4. Entries' = Entries /\ lastId' = lastId /\ step'[t] = "number"
      BY <1>3, <2>1
    <2>5. Knows(t)'
      BY <2>3, <2>4 DEF Knows
    <2>6. QED
      BY <1>2, <2>1, <2>5
  <1>8. ASSUME NEW t \in Thread, NumberEntry(t) PROVE Numbered'
    <2> DEFINE last == IF cached THEN lastId ELSE LatestId
    <2>1. /\ step[t] = "number" /\ step'[t] = "write" /\ UNCHANGED <<lines, today>>
          /\ entry'[t] = [id |-> last + 1, day |-> today]
      BY <1>8 DEF NumberEntry, Goto, HistTypeOK
    <2>2. last \in Nat /\ \A e \in Entries : e.id <= last
      BY <1>1, <2>1, LatestIsGreatest DEF Knows, HistTypeOK
    <2> HIDE DEF last
    <2>3. \A e \in Entries : e.id \in Nat
      BY EntryTyped
    <2>4. entry'[t].day = today' /\ entry'[t].id = last + 1
      BY <2>1
    <2>5. Knows(t)'
      BY <1>1, <1>3, <2>1, <2>2, <2>3, <2>4 DEF Knows
    <2>6. QED
      BY <1>2, <2>1, <2>5
  <1>9. ASSUME NEW t \in Thread, WriteLine(t) PROVE Numbered'
    <2> DEFINE d == entry[t].day
               id == entry[t].id
    <2>1. /\ step[t] = "write" /\ step'[t] = "cache" /\ UNCHANGED <<today, entry>>
          /\ lines' = WithLine(d, id) /\ d \in Day /\ id \in Nat
      BY <1>9 DEF WriteLine, Goto, HistTypeOK
    <2>2. d <= today /\ \A e \in Entries : e.day <= d /\ e.id < id
      BY <1>1, <2>1 DEF Knows
    <2> HIDE DEF d, id
    <2>3. IdsIncrease' /\ (\A e \in Entries' : e.day <= today') /\ \A e \in Entries' : e.id <= id
      BY <1>1, <2>1, <2>2, NumberedWithNew
    <2>4. Knows(t)'
      BY <2>1, <2>3 DEF Knows, id
    <2>5. \A u \in Thread : u = t
      BY DEF OneThread
    <2>6. QED
      BY <2>3, <2>4, <2>5 DEF Numbered
  <1>10. ASSUME NEW t \in Thread, CacheId(t) PROVE Numbered'
    <2>1. /\ step[t] = "cache" /\ step'[t] = "stamp" /\ UNCHANGED <<lines, today, entry>>
          /\ lastId' = entry[t].id
      BY <1>10 DEF CacheId, Goto, HistTypeOK
    <2>2. Knows(t)'
      BY <1>1, <1>3, <2>1 DEF Knows
    <2>3. QED
      BY <1>2, <2>1, <2>2
  <1>11. ASSUME NEW t \in Thread, StampMtime(t) PROVE Numbered'
    <2>1. step[t] = "stamp" /\ step'[t] = "idle" /\ UNCHANGED <<lines, today, lastId>>
      BY <1>11 DEF StampMtime, Goto, HistTypeOK
    <2>2. Knows(t)'
      BY <1>1, <1>3, <2>1 DEF Knows
    <2>3. QED
      BY <1>2, <2>1, <2>2
  <1>12. CASE Reset
    <2>1. Entries' = {} /\ UNCHANGED today
      BY <1>12 DEF Reset, Entries
    <2>2. \A t \in Thread : Knows(t)'
      <3>1. UNCHANGED <<step, entry>>
        BY <1>12 DEF Reset
      <3>2. \A t \in Thread : step[t] = "write" => entry[t].day <= today
        BY <1>1 DEF Knows
      <3>3. QED
        BY <2>1, <3>1, <3>2 DEF Knows
    <2>3. QED
      BY <2>1, <2>2 DEF Numbered, IdsIncrease
  <1>13. CASE OutsideAppend
    <2> DEFINE id == LatestId + 1
    <2>1. /\ lines' = WithLine(today, id) /\ mtime' = [mtime EXCEPT ![today] = time]
          /\ \A t \in Thread : step[t] = "idle" /\ time > lastMtime
          /\ UNCHANGED <<step, today, lastMtime>>
      BY <1>13 DEF OutsideAppend
    <2>2. today \in Day /\ today \in Nat /\ time \in Nat /\ lastMtime \in Nat
      BY DEF HistTypeOK, Day
    <2>3. id \in Nat /\ \A e \in Entries : e.id < id
      <3>1. LatestId \in Nat /\ \A e \in Entries : e.id <= LatestId /\ e.id \in Nat
        BY <1>1, LatestIsGreatest, EntryTyped
      <3>2. QED
        BY <3>1
    <2> HIDE DEF id
    <2>4. IdsIncrease' /\ (\A e \in Entries' : e.day <= today')
      <3>1. \A e \in Entries : e.day <= today /\ e.id < id
        BY <1>1, <2>3
      <3>2. today <= today /\ today' = today
        BY <2>1, <2>2
      <3>3. QED
        BY <1>1, <2>1, <2>2, <2>3, <3>1, <3>2, NumberedWithNew
    <2>5. ASSUME NEW t \in Thread PROVE Knows(t)'
      <3>1. mtime'[today] = time
        BY <2>1, <2>2 DEF HistTypeOK
      <3>2. NewestMtime' >= time /\ NewestMtime' \in Nat
        <4>1. (NewestMtime \in 0 .. MaxTime /\ \A d \in Day : mtime[d] <= NewestMtime)'
          BY NewestIsNewest, PTL
        <4>2. QED
          BY <2>2, <3>1, <4>1
      <3>3. ~(NewestMtime' <= lastMtime')
        BY <2>1, <2>2, <2>5, <3>2
      <3>4. step'[t] = "idle"
        BY <2>1, <2>5
      <3>5. QED
        BY <3>3, <3>4 DEF Knows
    <2>6. QED
      BY <2>4, <2>5 DEF Numbered
  <1>14. CASE Tick \/ NextDay
    <2>1. UNCHANGED <<lines, mtime, lastId, cached, lastMtime, step, entry>>
          /\ today' \in Nat /\ today <= today'
      BY <1>1, <1>14 DEF Tick, NextDay
    <2>2. Entries' = Entries /\ NewestMtime' = NewestMtime
      BY <1>3, <1>4, <2>1
    <2>3. IdsIncrease' /\ \A e \in Entries' : e.day <= today'
      BY <1>1, <2>1, <2>2, NumberedWithoutNew
    <2>4. ASSUME NEW t \in Thread PROVE Knows(t)'
      <3>1. step[t] = "write" => entry[t].day <= today'
        <4>1. entry[t].day \in Nat
          BY DEF HistTypeOK, Day
        <4>2. QED
          BY <1>1, <2>1, <4>1 DEF Knows
      <3>2. QED
        BY <1>1, <2>1, <2>2, <3>1 DEF Knows
    <2>5. QED
      BY <2>3, <2>4 DEF Numbered
  <1>15. CASE Crash
    <2>1. /\ UNCHANGED today /\ step' = [t \in Thread |-> "idle"] /\ cached' = FALSE
          /\ UNCHANGED lines \/ \E t \in Thread : lines' = WithLine(entry[t].day, Torn)
      BY <1>15 DEF Crash
    <2>2. Entries' \subseteq Entries
      <3>1. CASE \E t \in Thread : lines' = WithLine(entry[t].day, Torn)
        <4>1. PICK t \in Thread : lines' = WithLine(entry[t].day, Torn)
          BY <3>1
        <4>2. entry[t].day \in Day /\ Torn \in Nat
          BY DEF HistTypeOK, Torn
        <4>3. QED
          BY <4>1, <4>2, EntriesWithLine
      <3>2. QED
        BY <1>3, <2>1, <3>1
    <2>3. IdsIncrease' /\ \A e \in Entries' : e.day <= today'
      BY <1>1, <2>1, <2>2, NumberedWithoutNew
    <2>4. \A t \in Thread : Knows(t)'
      BY <2>1 DEF Knows
    <2>5. QED
      BY <2>3, <2>4 DEF Numbered
  <1>16. CASE UNCHANGED histVars
    <2>1. UNCHANGED <<lines, mtime, lastId, cached, lastMtime, step, entry, today>>
      BY <1>16 DEF histVars
    <2>2. Entries' = Entries /\ NewestMtime' = NewestMtime
      BY <1>3, <1>4, <2>1
    <2>3. IdsIncrease' /\ \A e \in Entries' : e.day <= today'
      BY <1>1, <2>1, <2>2, NumberedWithoutNew
    <2>4. \A t \in Thread : Knows(t)'
      BY <1>1, <2>1, <2>2 DEF Knows
    <2>5. QED
      BY <2>3, <2>4 DEF Numbered
  <1>17. QED
    BY <1>6, <1>7, <1>8, <1>9, <1>10, <1>11, <1>12, <1>13, <1>14, <1>15, <1>16
       DEF HistStep, AppendStep, HistEnvironment
-----------------------------------------------------------------------------
(***************************************************************************)
(* Jobs and the history.                                                   *)
(***************************************************************************)

\* What a step of the jobs does to the history is a step of it, if any.
LEMMA JobsMoveHistory ==
    ASSUME JobsNext \/ UNCHANGED <<histVars, jobVars>>
    PROVE  HistStep
  <1>1. ASSUME NEW t \in Thread, JobStep(t) PROVE BeginAppend(t) \/ UNCHANGED histVars
    <2>1. ASSUME NEW j \in Job, StartJob(t, j) PROVE UNCHANGED histVars
      BY <2>1 DEF StartJob
    <2>2. CASE Record(t) \/ CloseBatch(t)
      BY <2>2 DEF Record, CloseBatch
    <2>3. CASE RunCycle(t) \/ RunReplay(t) \/ RunFails(t) \/ Advance(t)
      BY <2>3 DEF RunCycle, RunReplay, RunFails, Advance
    <2>4. CASE Recorded(t) \/ JudgeBatch(t) \/ Closed(t)
      BY <2>4 DEF Recorded, JudgeBatch, Closed
    <2>5. QED
      BY <1>1, <2>1, <2>2, <2>3, <2>4 DEF JobStep
  <1>2. ASSUME NEW s \in Series, LoadReplay(s) \/ SeedMock(s) PROVE UNCHANGED histVars
    BY <1>2 DEF LoadReplay, SeedMock
  <1>3. CASE AdvanceReplay \/ ResetCandles
    BY <1>3 DEF AdvanceReplay, ResetCandles, HistStep
  <1>4. CASE CrashJobs
    BY <1>4 DEF CrashJobs, HistStep
  <1>5. QED
    BY <1>1, <1>2, <1>3, <1>4 DEF JobsNext, HistStep

\* The bounds of jobs.
LEMMA JobConstants ==
    /\ MaxWindow \in Nat \ {0} /\ MaxIterations \in Nat \ {0}
    /\ MaxAlerts \in Nat /\ MaxLossSteps \in Nat /\ StartingCash \in Nat /\ NoJob \notin Job
  BY OperatorJobsAssumption

\* What a job of each kind has.
LEMMA JobKinds ==
    ASSUME NEW j \in Job
    PROVE  /\ j.kind \in {"cycle", "batch", "replay"}
           /\ j.kind = "batch" => j.iterations \in 1 .. MaxIterations
           /\ j.kind = "replay" => j.window \in 1 .. MaxWindow /\ j.steps \in 1 .. MaxIterations
  BY DEF Job

\* The candles of a series are candles, with a time.
LEMMA SeriesOfCandles ==
    /\ \A s \in Series : s \in Seq(Candle)
    /\ Candle \subseteq [at : Int, close : Int]
  <1>1. ASSUME NEW s \in Series PROVE s \in Seq(Candle) /\ Range(s) \subseteq [at : Int, close : Int]
    <2> DEFINE R == [at : Int, close : Int]
    <2>1. s \in Seq(R)
      BY OperatorJobsAssumption
    <2> HIDE DEF R
    <2>2. DOMAIN s = 1 .. Len(s) /\ \A i \in 1 .. Len(s) : s[i] \in Range(s) /\ s[i] \in R
      <3>1. DOMAIN s = 1 .. Len(s) /\ \A i \in 1 .. Len(s) : s[i] \in R
        BY <2>1
      <3>2. QED
        BY <3>1 DEF Range
    <2>3. Range(s) \subseteq Candle
      BY DEF Candle
    <2>4. s \in Seq(Candle)
      BY <2>1, <2>2, <2>3
    <2>5. Range(s) \subseteq R
      BY <2>2 DEF Range
    <2>6. QED
      BY <2>4, <2>5 DEF R
  <1>2. QED
    BY <1>1 DEF Candle

\* A window is a part of the series.
LEMMA WindowTyped ==
    ASSUME series \in Seq(Candle), cursor \in Nat, NEW limit \in Nat
    PROVE  Window(limit) \in Seq(Candle)
  <1> DEFINE first == Max({0, cursor - limit}) + 1
             last == Min({cursor, Len(series)})
  <1>1. first \in Nat /\ first >= 1 /\ last \in Nat /\ last <= Len(series)
    BY MaxOfTwo, MinOfTwo
  <1> HIDE DEF first, last
  <1>2. \A i \in first .. last : series[i] \in Candle
    BY <1>1
  <1>3. SubSeq(series, first, last) \in Seq(Candle)
    BY <1>1, <1>2, SubSeqProperties
  <1>4. QED
    BY <1>3 DEF Window, first, last

\* A listing of candles is a sequence of them, each once, the earlier first.
LEMMA ListingOfCandles ==
    ASSUME NEW S, S \subseteq Candle, IsFiniteSet(S), NEW q \in Listings(S, NotLater)
    PROVE  /\ q \in Seq(Candle) /\ \A i \in 1 .. Len(q) : q[i] \in S
           /\ \A i, j \in 1 .. Len(q) : i < j => q[i] # q[j] /\ q[i].at <= q[j].at
  <1>1. Cardinality(S) \in Nat
    BY FS_CardinalityType
  <1>2. /\ q \in [1 .. Cardinality(S) -> S] /\ IsInjective(q)
        /\ \A i, j \in DOMAIN q : i < j => NotLater(q[i], q[j])
    BY DEF Listings
  <1>3. q \in Seq(Candle) /\ Len(q) = Cardinality(S)
    BY <1>1, <1>2
  <1>4. DOMAIN q = 1 .. Len(q) /\ \A i \in 1 .. Len(q) : q[i] \in S
    BY <1>1, <1>2, <1>3
  <1>5. ASSUME NEW i \in 1 .. Len(q), NEW j \in 1 .. Len(q), i < j
        PROVE  q[i] # q[j] /\ q[i].at <= q[j].at
    <2>1. NotLater(q[i], q[j]) /\ (q[i] = q[j] => i = j)
      BY <1>2, <1>4, <1>5 DEF IsInjective
    <2>2. i # j
      BY <1>1, <1>3, <1>5
    <2>3. QED
      BY <2>1, <2>2 DEF NotLater
  <1>6. QED
    BY <1>3, <1>4, <1>5

\* The candles of a sequence are finitely many.
LEMMA CandlesFinite ==
    ASSUME NEW s \in Seq(Candle)
    PROVE  IsFiniteSet(Range(s)) /\ Range(s) \subseteq Candle
  <1>1. DOMAIN s = 1 .. Len(s) /\ Len(s) \in Nat /\ \A i \in 1 .. Len(s) : s[i] \in Candle
    OBVIOUS
  <1>2. s \in [1 .. Len(s) -> Range(s)] /\ \A c \in Range(s) : \E i \in 1 .. Len(s) : s[i] = c
    <2>1. s = [i \in 1 .. Len(s) |-> s[i]]
      BY <1>1
    <2>2. QED
      BY <1>1, <2>1 DEF Range
  <1>3. s \in Surjection(1 .. Len(s), Range(s))
    BY <1>2 DEF Surjection
  <1>4. IsFiniteSet(1 .. Len(s))
    BY <1>1, FS_Interval
  <1>5. QED
    BY <1>1, <1>3, <1>4, FS_Surjection DEF Range

\* What the candle store holds after loading: candles, their times increasing.
LEMMA MergedAscends ==
    ASSUME NEW old \in Seq(Candle), NEW new \in Seq(Candle), NEW q \in Merged(old, new)
    PROVE  q \in Seq(Candle) /\ \A i \in 2 .. Len(q) : q[i - 1].at < q[i].at
  <1> DEFINE all == old \o new
             newest == {n \in DOMAIN all : \A k \in DOMAIN all : k > n => all[k].at # all[n].at}
             S == {all[i] : i \in newest}
  <1>1. all \in Seq(Candle) /\ DOMAIN all \subseteq Nat
    <2>1. all \in Seq(Candle)
      OBVIOUS
    <2> HIDE DEF all
    <2>2. QED
      BY <2>1
  <1>2. q \in Listings(S, NotLater)
    BY DEF Merged
  <1> HIDE DEF all
  <1>3. S \in SUBSET Range(all)
    BY DEF Range
  <1>4. IsFiniteSet(S) /\ S \subseteq Candle
    <2> HIDE DEF S
    <2>1. IsFiniteSet(Range(all)) /\ Range(all) \subseteq Candle
      BY <1>1, CandlesFinite
    <2>2. QED
      BY <1>3, <2>1, FS_Subset
  <1>5. ASSUME NEW a \in S, NEW b \in S, a # b PROVE a.at # b.at
    <2>1. PICK i \in newest : a = all[i]
      OBVIOUS
    <2>2. PICK k \in newest : b = all[k]
      OBVIOUS
    <2>3. i \in Nat /\ k \in Nat /\ i # k
      BY <1>1, <1>5, <2>1, <2>2
    <2>4. QED
      BY <2>1, <2>2, <2>3
  <1> HIDE DEF S
  <1>6. /\ q \in Seq(Candle) /\ \A i \in 1 .. Len(q) : q[i] \in S
        /\ \A i, j \in 1 .. Len(q) : i < j => q[i] # q[j] /\ q[i].at <= q[j].at
    BY <1>2, <1>4, ListingOfCandles
  <1>7. ASSUME NEW i \in 2 .. Len(q) PROVE q[i - 1].at < q[i].at
    <2>1. Len(q) \in Nat
      BY <1>6
    <2>2. i - 1 \in 1 .. Len(q) /\ i \in 1 .. Len(q) /\ i - 1 < i
      BY <2>1
    <2>3. /\ q[i - 1] \in S /\ q[i] \in S
          /\ q[i - 1] # q[i] /\ q[i - 1].at <= q[i].at
      BY <1>6, <2>2
    <2>4. q[i - 1].at # q[i].at /\ q[i - 1].at \in Int /\ q[i].at \in Int
      BY <1>4, <1>5, <2>3, SeriesOfCandles
    <2>5. QED
      BY <2>3, <2>4
  <1>8. QED
    BY <1>6, <1>7
-----------------------------------------------------------------------------
(***************************************************************************)
(* Types.                                                                  *)
(***************************************************************************)

\* What the history leaves alone.
JobsTyped ==
    /\ job \in [Thread -> Job \cup {NoJob}]
    /\ jpc \in [Thread -> {"rest", "run", "advance", "record", "recorded", "judge", "closed"}]
    /\ runs \in [Thread -> Seq(Portfolio)]
    /\ seen \in [Thread -> Seq(Seq(Candle))]
    /\ series \in Series \cup {<<>>}
    /\ cursor \in 0 .. Max({MaxWindow, Len(series)})
    /\ stored \in Seq(Candle)

\* A thread at rest has no job, and one with a job is not at rest.
Slots ==
    \A t \in Thread :
        IF jpc[t] = "rest" THEN job[t] = NoJob /\ runs[t] = <<>> /\ seen[t] = <<>>
        ELSE job[t] \in Job

\* The cursor has its bound in any of these places.
LEMMA CursorBound ==
    ASSUME series \in Series \cup {<<>>}
    PROVE  /\ series \in Seq(Candle) /\ Len(series) \in Nat
           /\ \A n \in Nat : n <= MaxWindow \/ n <= Len(series)
                 => n \in 0 .. Max({MaxWindow, Len(series)})
           /\ 0 .. Max({MaxWindow, Len(series)}) \subseteq Nat
  <1>1. series \in Seq(Candle)
    <2>1. <<>> \in Seq(Candle)
      OBVIOUS
    <2>2. QED
      BY <2>1, SeriesOfCandles
  <1>2. Len(series) \in Nat /\ MaxWindow \in Nat
    BY <1>1, JobConstants
  <1>3. Max({MaxWindow, Len(series)}) = IF MaxWindow >= Len(series) THEN MaxWindow ELSE Len(series)
    BY <1>2, MaxOfTwo
  <1> DEFINE m == Max({MaxWindow, Len(series)})
  <1>4. m \in Nat /\ m >= MaxWindow /\ m >= Len(series)
    BY <1>2, <1>3
  <1> HIDE DEF m
  <1>5. /\ \A n \in Nat : n <= MaxWindow \/ n <= Len(series) => n \in 0 .. m
        /\ 0 .. m \subseteq Nat
    BY <1>2, <1>4
  <1>6. QED
    BY <1>1, <1>2, <1>5 DEF m

\* At the start nothing is loaded, stored or under way.
LEMMA JobsInitTyped == JobsInit => JobsTyped /\ Slots
  <1> SUFFICES ASSUME JobsInit PROVE JobsTyped /\ Slots
    OBVIOUS
  <1>1. series \in Series \cup {<<>>} /\ cursor \in Nat /\ cursor <= MaxWindow
    BY JobConstants DEF JobsInit
  <1>2. cursor \in 0 .. Max({MaxWindow, Len(series)})
    BY <1>1, CursorBound
  <1>3. /\ runs \in [Thread -> Seq(Portfolio)] /\ seen \in [Thread -> Seq(Seq(Candle))]
        /\ stored \in Seq(Candle)
    BY DEF JobsInit
  <1>4. QED
    BY <1>1, <1>2, <1>3 DEF JobsInit, JobsTyped, Slots

\* A job's records are typed and belong to its thread, in every step.
LEMMA JobsTypeStep ==
    ASSUME JobsTyped, Slots, JobsNext \/ UNCHANGED <<histVars, jobVars>>
    PROVE  JobsTyped' /\ Slots'
  <1> DEFINE Bound == 0 .. Max({MaxWindow, Len(series)})
             Here == {"rest", "run", "advance", "record", "recorded", "judge", "closed"}
  <1>1. /\ series \in Seq(Candle) /\ Len(series) \in Nat
        /\ \A n \in Nat : n <= MaxWindow \/ n <= Len(series) => n \in Bound
        /\ Bound \subseteq Nat /\ cursor \in Bound
    BY CursorBound DEF JobsTyped
  <1>2. series' \in Series \cup {<<>>} =>
           \A n \in Nat : n <= MaxWindow \/ n <= Len(series') => n \in Bound'
    <2>1. (series \in Series \cup {<<>>} =>
             \A n \in Nat : n <= MaxWindow \/ n <= Len(series) => n \in Bound)'
      BY CursorBound, PTL
    <2>2. QED
      BY <2>1
  <1>3. UNCHANGED series => Bound' = Bound
    OBVIOUS
  <1> HIDE DEF Bound
  <1>4. /\ job \in [Thread -> Job \cup {NoJob}] /\ jpc \in [Thread -> Here]
        /\ runs \in [Thread -> Seq(Portfolio)] /\ seen \in [Thread -> Seq(Seq(Candle))]
        /\ series \in Series \cup {<<>>} /\ stored \in Seq(Candle)
    BY DEF JobsTyped
  <1>5. ASSUME /\ job' \in [Thread -> Job \cup {NoJob}] /\ jpc' \in [Thread -> Here]
               /\ runs' \in [Thread -> Seq(Portfolio)] /\ seen' \in [Thread -> Seq(Seq(Candle))]
               /\ series' \in Series \cup {<<>>} /\ cursor' \in Bound' /\ stored' \in Seq(Candle)
        PROVE  JobsTyped'
    BY <1>5 DEF JobsTyped, Bound
  <1>6. ASSUME NEW t \in Thread, JobStep(t), UNCHANGED <<series, stored>>, cursor' \in Bound',
               NEW s \in Here, jpc' = [jpc EXCEPT ![t] = s],
               NEW p \in Seq(Portfolio), runs' = [runs EXCEPT ![t] = p],
               NEW w \in Seq(Seq(Candle)), seen' = [seen EXCEPT ![t] = w],
               NEW j \in Job \cup {NoJob}, job' = [job EXCEPT ![t] = j],
               IF s = "rest" THEN j = NoJob /\ p = <<>> /\ w = <<>> ELSE j \in Job
        PROVE  JobsTyped' /\ Slots'
    <2>1. JobsTyped'
      BY <1>4, <1>5, <1>6
    <2>2. Slots'
      BY <1>4, <1>6 DEF Slots
    <2>3. QED
      BY <2>1, <2>2
  <1>7. ASSUME NEW t \in Thread
        PROVE  /\ job[t] \in Job \cup {NoJob} /\ runs[t] \in Seq(Portfolio) /\ seen[t] \in Seq(Seq(Candle))
               /\ job = [job EXCEPT ![t] = job[t]] /\ runs = [runs EXCEPT ![t] = runs[t]]
               /\ seen = [seen EXCEPT ![t] = seen[t]]
               /\ jpc[t] # "rest" => job[t] \in Job
               /\ jpc[t] = "rest" => runs[t] = <<>> /\ seen[t] = <<>>
    BY <1>4 DEF Slots
  <1>8. ASSUME NEW t \in Thread, JobStep(t) PROVE JobsTyped' /\ Slots'
    <2>1. ASSUME NEW j \in Job, StartJob(t, j) PROVE JobsTyped' /\ Slots'
      <3>1. cursor' \in Bound'
        <4>1. j.kind = "replay" => j.window \in Nat /\ j.window <= MaxWindow
          BY JobKinds, JobConstants
        <4>2. cursor' = IF j.kind = "replay" THEN j.window ELSE cursor
          BY <2>1 DEF StartJob
        <4>3. UNCHANGED series
          BY <2>1 DEF StartJob
        <4>4. QED
          BY <1>1, <1>3, <4>1, <4>2, <4>3
      <3>2. /\ UNCHANGED <<series, stored, runs, seen>> /\ jpc' = [jpc EXCEPT ![t] = "run"]
            /\ job' = [job EXCEPT ![t] = j]
        BY <2>1 DEF StartJob, JGoto
      <3>3. QED
        BY <1>6, <1>7, <1>8, <3>1, <3>2
    <2>2. CASE RunCycle(t)
      <3>1. PICK p \in Portfolio : runs' = [runs EXCEPT ![t] = Append(runs[t], p)]
        BY <2>2 DEF RunCycle
      <3>2. /\ UNCHANGED <<series, stored, job, seen, cursor>> /\ jpc[t] # "rest"
            /\ jpc' = [jpc EXCEPT ![t] = "record"]
        BY <2>2 DEF RunCycle, JGoto
      <3>3. Append(runs[t], p) \in Seq(Portfolio) /\ cursor' \in Bound'
        BY <1>1, <1>3, <1>7, <3>2
      <3>4. QED
        BY <1>6, <1>7, <1>8, <3>1, <3>2, <3>3
    <2>3. CASE RunReplay(t)
      <3> DEFINE w == Window(job[t].window)
      <3>1. /\ UNCHANGED <<series, stored, job, runs, cursor>>
            /\ jpc[t] # "rest" /\ job[t].kind = "replay"
            /\ jpc' = [jpc EXCEPT ![t] = "advance"]
            /\ seen' = [seen EXCEPT ![t] = Append(seen[t], w)]
        BY <2>3 DEF RunReplay, JGoto
      <3>2. w \in Seq(Candle)
        <4>1. job[t].window \in Nat
          BY <1>7, <3>1, JobKinds
        <4>2. cursor \in Nat
          BY <1>1
        <4>3. QED
          BY <1>1, <4>1, <4>2, WindowTyped
      <3> HIDE DEF w
      <3>3. Append(seen[t], w) \in Seq(Seq(Candle)) /\ cursor' \in Bound'
        BY <1>1, <1>3, <1>7, <3>1, <3>2
      <3>4. QED
        BY <1>6, <1>7, <1>8, <3>1, <3>3
    <2>4. CASE RunFails(t) \/ Closed(t) \/ (Recorded(t) /\ job[t].kind # "batch")
      <3>1. /\ UNCHANGED <<series, stored, cursor>> /\ jpc' = [jpc EXCEPT ![t] = "rest"]
            /\ job' = [job EXCEPT ![t] = NoJob]
            /\ runs' = [runs EXCEPT ![t] = <<>>] /\ seen' = [seen EXCEPT ![t] = <<>>]
        BY <2>4 DEF RunFails, Closed, Recorded, Finish, JGoto
      <3>2. <<>> \in Seq(Portfolio) /\ <<>> \in Seq(Seq(Candle)) /\ cursor' \in Bound'
        BY <1>1, <1>3, <3>1
      <3>3. QED
        BY <1>6, <1>8, <3>1, <3>2
    <2>5. CASE Advance(t)
      <3>1. /\ UNCHANGED <<series, stored, job, runs, seen>> /\ jpc[t] # "rest"
            /\ cursor' = Advanced(1)
            /\ jpc' = [jpc EXCEPT ![t] = IF Len(seen[t]) < job[t].steps THEN "run" ELSE "record"]
        BY <2>5 DEF Advance, JGoto
      <3>2. cursor' \in Nat /\ cursor' <= Len(series)
        BY <1>1, <3>1, MinOfTwo DEF Advanced
      <3>3. cursor' \in Bound'
        BY <1>1, <1>3, <3>1, <3>2
      <3>4. CASE Len(seen[t]) < job[t].steps
        BY <1>6, <1>7, <1>8, <3>1, <3>3, <3>4
      <3>5. CASE ~(Len(seen[t]) < job[t].steps)
        BY <1>6, <1>7, <1>8, <3>1, <3>3, <3>5
      <3>6. QED
        BY <3>4, <3>5
    <2>6. ASSUME NEW s \in Here \ {"rest"}, jpc[t] # "rest", jpc' = [jpc EXCEPT ![t] = s],
                 UNCHANGED <<job, runs, seen, series, cursor, stored>>
          PROVE  JobsTyped' /\ Slots'
      <3>1. cursor' \in Bound' /\ s \in Here /\ s # "rest" /\ job[t] \in Job
        BY <1>1, <1>3, <1>7, <2>6
      <3> HIDE DEF Here
      <3>2. jpc' \in [Thread -> Here]
        BY <1>4, <2>6, <3>1
      <3>3. JobsTyped'
        BY <1>4, <1>5, <2>6, <3>1, <3>2
      <3>4. Slots'
        BY <1>4, <2>6, <3>1 DEF Slots
      <3>5. QED
        BY <3>3, <3>4
    <2>7. CASE Record(t)
      BY <2>6, <2>7 DEF Record, JGoto
    <2>8. CASE Recorded(t) /\ job[t].kind = "batch"
      BY <2>6, <2>8 DEF Recorded, JGoto
    <2>9. CASE JudgeBatch(t)
      BY <2>6, <2>9 DEF JudgeBatch, JGoto
    <2>10. CASE CloseBatch(t)
      BY <2>6, <2>10 DEF CloseBatch, JGoto
    <2>11. QED
      BY <1>8, <2>1, <2>2, <2>3, <2>4, <2>5, <2>7, <2>8, <2>9, <2>10 DEF JobStep
  <1>9. ASSUME UNCHANGED <<job, jpc, runs, seen>>, series' \in Series \cup {<<>>},
               cursor' \in Bound', stored' \in Seq(Candle)
        PROVE  JobsTyped' /\ Slots'
    BY <1>4, <1>5, <1>9 DEF Slots
  <1>10. ASSUME NEW s \in Series, LoadReplay(s) PROVE JobsTyped' /\ Slots'
    <2>1. series' = s /\ cursor' = Min({Len(s), 1}) /\ s \in Seq(Candle) /\ stored' \in Merged(stored, s)
      BY <1>10, SeriesOfCandles DEF LoadReplay
    <2>2. cursor' \in Nat /\ cursor' <= Len(s)
      BY <2>1, MinOfTwo
    <2>3. cursor' \in Bound'
      BY <1>2, <2>1, <2>2
    <2>4. stored' \in Seq(Candle)
      BY <1>4, <2>1, MergedAscends
    <2>5. QED
      BY <1>9, <1>10, <2>1, <2>3, <2>4 DEF LoadReplay
  <1>11. ASSUME NEW s \in Series, SeedMock(s) PROVE JobsTyped' /\ Slots'
    <2>1. stored' \in Seq(Candle)
      BY <1>4, <1>11, SeriesOfCandles, MergedAscends DEF SeedMock
    <2>2. QED
      BY <1>1, <1>3, <1>4, <1>9, <1>11, <2>1 DEF SeedMock
  <1>12. CASE AdvanceReplay
    <2>1. cursor' = Advanced(1) /\ UNCHANGED <<job, jpc, runs, seen, series, stored>>
      BY <1>12 DEF AdvanceReplay
    <2>2. cursor' \in Nat /\ cursor' <= Len(series)
      BY <1>1, <2>1, MinOfTwo DEF Advanced
    <2>3. QED
      BY <1>1, <1>3, <1>4, <1>9, <2>1, <2>2
  <1>13. CASE ResetCandles
    <2>1. stored' \in Seq(Candle) /\ UNCHANGED <<job, jpc, runs, seen, series, cursor>>
      BY <1>13 DEF ResetCandles
    <2>2. QED
      BY <1>1, <1>3, <1>4, <1>9, <2>1
  <1>14. CASE CrashJobs
    <2>1. /\ job' = [t \in Thread |-> NoJob] /\ jpc' = [t \in Thread |-> "rest"]
          /\ runs' = [t \in Thread |-> <<>>] /\ seen' = [t \in Thread |-> <<>>]
          /\ series' = <<>> /\ cursor' = 0 /\ UNCHANGED stored
      BY <1>14 DEF CrashJobs
    <2>2. cursor' \in Bound'
      <3>1. 0 \in Nat /\ 0 <= MaxWindow /\ series' \in Series \cup {<<>>}
        BY <2>1, JobConstants
      <3>2. QED
        BY <1>2, <2>1, <3>1
    <2>3. runs' \in [Thread -> Seq(Portfolio)] /\ seen' \in [Thread -> Seq(Seq(Candle))]
      BY <2>1
    <2>4. QED
      BY <1>4, <1>5, <2>1, <2>2, <2>3 DEF Slots
  <1>15. CASE UNCHANGED jobVars
    BY <1>1, <1>3, <1>4, <1>9, <1>15 DEF jobVars
  <1>16. QED
    BY <1>8, <1>10, <1>11, <1>12, <1>13, <1>14, <1>15 DEF JobsNext
-----------------------------------------------------------------------------
(***************************************************************************)
(* The fail-safe.                                                          *)
(***************************************************************************)

\* What the fields of a portfolio are.
LEMMA PortfolioFields == \A p \in Portfolio : p.equity \in Int /\ p.unrealized \in Int
  BY OperatorJobsAssumption

\* A portfolio sets off a number of alerts.
LEMMA AlertsNat ==
    ASSUME NEW p
    PROVE  Alerts(p) \in Nat
  <1> DEFINE A == {a \in {"unrealized_pnl_breach"} : PnlThreshold # 0 /\ p.unrealized <= PnlThreshold}
             B == {a \in {"drawdown_breach"} :
                     /\ MaxDrawdown # 0 /\ StartingCash # 0
                     /\ (StartingCash - p.equity) * 100 >= MaxDrawdown * StartingCash}
             both == {"unrealized_pnl_breach"} \cup {"drawdown_breach"}
  <1>1. IsFiniteSet(both)
    <2>1. IsFiniteSet({"unrealized_pnl_breach"})
      BY FS_Singleton
    <2>2. QED
      BY <2>1, FS_AddElement
  <1>2. A \cup B \in SUBSET both
    OBVIOUS
  <1>3. Alerts(p) = Cardinality(A \cup B)
    BY DEF Alerts
  <1> HIDE DEF A, B, both
  <1>4. IsFiniteSet(A \cup B)
    BY <1>1, <1>2, FS_Subset
  <1>5. QED
    BY <1>3, <1>4, FS_CardinalityType

\* AlertsUpTo gives the partial sums of the alerts.
LEMMA AlertsUpToSums ==
    ASSUME NEW ps \in Seq(Portfolio)
    PROVE  /\ AlertsUpTo(ps)[0] = 0
           /\ \A n \in 1 .. Len(ps) : AlertsUpTo(ps)[n] = AlertsUpTo(ps)[n - 1] + Alerts(ps[n])
           /\ \A n \in 0 .. Len(ps) : AlertsUpTo(ps)[n] \in Nat
  <1> DEFINE N == Len(ps)
             V == [n \in 1 .. N |-> Alerts(ps[n])]
             UpTo(sum) == [n \in 0 .. N |-> IF n = 0 THEN 0 ELSE sum[n - 1] + Alerts(ps[n])]
             sums == CHOOSE sum : sum = UpTo(sum)
  <1>1. N \in Nat /\ V \in [1 .. N -> Nat]
    BY AlertsNat
  <1>2. \A sum : UpTo(sum) = [n \in 0 .. N |-> IF n = 0 THEN 0 ELSE sum[n - 1] + V[n]]
    OBVIOUS
  <1>3. AlertsUpTo(ps) = sums
    BY DEF AlertsUpTo
  <1>4. \A n \in 1 .. N : V[n] = Alerts(ps[n])
    OBVIOUS
  <1> HIDE DEF N, V, UpTo
  <1>5. sums = UpTo(sums)
    BY <1>1, <1>2, SumExists
  <1> HIDE DEF sums
  <1>6. sums[0] = 0 /\ \A n \in 1 .. N : sums[n] = sums[n - 1] + V[n]
    BY <1>1, <1>2, <1>5
  <1>7. \A n \in 0 .. N : sums[n] \in Nat
    BY <1>1, <1>6, SumNat
  <1>8. QED
    BY <1>3, <1>4, <1>6, <1>7 DEF N

\* What is counted up to a cycle does not depend on the cycles after it.
LEMMA AlertsUpToPrefix ==
    ASSUME NEW ps \in Seq(Portfolio), NEW p \in Portfolio
    PROVE  \A n \in 0 .. Len(ps) : AlertsUpTo(Append(ps, p))[n] = AlertsUpTo(ps)[n]
  <1> DEFINE more == Append(ps, p)
             Same == {n \in Nat : n <= Len(ps) => AlertsUpTo(more)[n] = AlertsUpTo(ps)[n]}
  <1>1. /\ more \in Seq(Portfolio) /\ Len(more) = Len(ps) + 1 /\ Len(ps) \in Nat
        /\ \A n \in 1 .. Len(ps) : more[n] = ps[n]
    OBVIOUS
  <1> HIDE DEF more
  <1>2. /\ AlertsUpTo(more)[0] = 0 /\ AlertsUpTo(ps)[0] = 0
        /\ \A n \in 1 .. Len(more) : AlertsUpTo(more)[n] = AlertsUpTo(more)[n - 1] + Alerts(more[n])
        /\ \A n \in 1 .. Len(ps) : AlertsUpTo(ps)[n] = AlertsUpTo(ps)[n - 1] + Alerts(ps[n])
    BY <1>1, AlertsUpToSums
  <1>3. 0 \in Same
    BY <1>2
  <1>4. ASSUME NEW n \in Nat, n \in Same PROVE n + 1 \in Same
    <2> SUFFICES ASSUME n + 1 <= Len(ps) PROVE AlertsUpTo(more)[n + 1] = AlertsUpTo(ps)[n + 1]
      OBVIOUS
    <2>1. n + 1 \in 1 .. Len(ps) /\ n + 1 \in 1 .. Len(more) /\ (n + 1) - 1 = n /\ n <= Len(ps)
      BY <1>1
    <2>2. AlertsUpTo(more)[n] = AlertsUpTo(ps)[n] /\ more[n + 1] = ps[n + 1]
      BY <1>1, <1>4, <2>1
    <2>3. QED
      BY <1>2, <2>1, <2>2
  <1>5. Nat \subseteq Same
    <2> HIDE DEF Same
    <2> QED BY <1>3, <1>4, NatInductionOnSet
  <1>6. QED
    BY <1>1, <1>5 DEF more

\* Nor does it whether a cycle reaches a limit.
LEMMA LimitPrefix ==
    ASSUME NEW ps \in Seq(Portfolio), NEW p \in Portfolio, NEW i \in 1 .. Len(ps)
    PROVE  LimitReached(Append(ps, p), i) <=> LimitReached(ps, i)
  <1> DEFINE more == Append(ps, p)
  <1>1. Len(ps) \in Nat /\ \A n \in 1 .. Len(ps) : more[n] = ps[n]
    OBVIOUS
  <1>2. AlertsUpTo(more)[i] = AlertsUpTo(ps)[i]
    <2>1. i \in 0 .. Len(ps)
      BY <1>1
    <2>2. QED
      BY <2>1, AlertsUpToPrefix
  <1> HIDE DEF more
  <1>3. ASSUME i >= MaxLossSteps, NEW k \in i - MaxLossSteps + 1 .. i PROVE more[k] = ps[k]
    BY <1>1, <1>3, JobConstants
  <1>4. QED
    BY <1>2, <1>3 DEF LimitReached, more

Verdict == [stop : BOOLEAN, alerts : Nat, losses : Nat]

\* Judging one more portfolio gives a verdict again.
LEMMA JudgeTyped ==
    ASSUME NEW v \in Verdict, NEW p \in Portfolio
    PROVE  Judge(v, p) \in Verdict
  <1> DEFINE alerts == v.alerts + Alerts(p)
             losses == IF p.equity < StartingCash THEN v.losses + 1 ELSE 0
             stop == alerts >= MaxAlerts \/ losses >= MaxLossSteps
  <1>1. alerts \in Nat /\ losses \in Nat
    BY AlertsNat DEF Verdict
  <1>2. stop \in BOOLEAN
    OBVIOUS
  <1>3. Judge(v, p) = IF v.stop THEN v ELSE [stop |-> stop, alerts |-> alerts, losses |-> losses]
    BY DEF Judge
  <1> HIDE DEF alerts, losses, stop
  <1>4. [stop |-> stop, alerts |-> alerts, losses |-> losses] \in Verdict
    BY <1>1, <1>2 DEF Verdict
  <1>5. QED
    BY <1>3, <1>4

\* The verdicts after each cycle, from none to all.
Verdicts(v, ps) ==
    /\ FailSafe(ps) = v[Len(ps)]
    /\ v[0] = Calm
    /\ \A n \in 1 .. Len(ps) : v[n] = Judge(v[n - 1], ps[n])

\* A list of portfolios has the verdicts the fail-safe service reaches one after
\* the other.
LEMMA FailSafeTurns ==
    ASSUME NEW ps \in Seq(Portfolio)
    PROVE  \E v : Verdicts(v, ps)
  <1> DEFINE N == Len(ps)
             Turn == [n \in 1 .. N |-> [v \in Verdict |-> Judge(v, ps[n])]]
             UpTo(f) == [i \in 0 .. N |-> IF i = 0 THEN Calm ELSE Judge(f[i - 1], ps[i])]
             chosen == CHOOSE f : f = UpTo(f)
  <1>1. N \in Nat /\ \A n \in 1 .. N : ps[n] \in Portfolio
    OBVIOUS
  <1>2. Turn \in [1 .. N -> [Verdict -> Verdict]]
    BY <1>1, JudgeTyped
  <1>3. \A n \in 1 .. N, v \in Verdict : Turn[n][v] = Judge(v, ps[n])
    OBVIOUS
  <1>4. Calm \in Verdict
    BY DEF Calm, Verdict
  <1>5. FailSafe(ps) = chosen[N]
    BY DEF FailSafe
  <1>6. \A f : UpTo(f)[0] = Calm /\ \A n \in 1 .. N : UpTo(f)[n] = Judge(f[n - 1], ps[n])
    BY <1>1
  <1> HIDE DEF N, Turn
  <1>7. PICK f : GoesBy(f, N, Verdict, Calm, Turn)
    BY <1>1, <1>2, <1>4, FoldExists
  <1>8. \A n \in 1 .. N : f[n] = Judge(f[n - 1], ps[n])
    <2> SUFFICES ASSUME NEW n \in 1 .. N PROVE f[n] = Judge(f[n - 1], ps[n])
      OBVIOUS
    <2>1. n - 1 \in 0 .. N
      BY <1>1
    <2>2. f[n - 1] \in Verdict /\ f[n] = Turn[n][f[n - 1]]
      BY <1>7, <2>1 DEF GoesBy
    <2>3. QED
      BY <1>3, <2>2
  <1>9. f = UpTo(f)
    <2>1. f \in [0 .. N -> Verdict] /\ f[0] = Calm
      BY <1>7 DEF GoesBy
    <2>2. QED
      BY <1>1, <1>8, <2>1
  <1> HIDE DEF UpTo
  <1>10. chosen = UpTo(chosen)
    BY <1>9
  <1> HIDE DEF chosen
  <1>11. chosen[0] = Calm /\ \A n \in 1 .. N : chosen[n] = Judge(chosen[n - 1], ps[n])
    BY <1>1, <1>6, <1>10
  <1>12. QED
    BY <1>5, <1>11 DEF Verdicts, N

\* The last m of the first n cycles, and no more, ended below the starting cash.
Trailing(ps, n, m) ==
    /\ m \in 0 .. n
    /\ \A k \in n - m + 1 .. n : ps[k].equity < StartingCash
    /\ m < n => ~(ps[n - m].equity < StartingCash)

\* What the verdict on the first n cycles says: that a limit was reached, or
\* how far they are from it.
Says(v, ps, n) ==
    IF \E i \in 1 .. n : LimitReached(ps, i) THEN v.stop
    ELSE ~v.stop /\ v.alerts = AlertsUpTo(ps)[n] /\ Trailing(ps, n, v.losses)

\* The last MaxLossSteps portfolios are all losses exactly when the counter of
\* consecutive losses has reached the limit.
LEMMA TrailingReached ==
    ASSUME NEW ps \in Seq(Portfolio), NEW n \in 1 .. Len(ps), NEW m, Trailing(ps, n, m)
    PROVE  (n >= MaxLossSteps /\ \A k \in n - MaxLossSteps + 1 .. n : ps[k].equity < StartingCash)
             <=> m >= MaxLossSteps
  <1>1. m \in Nat /\ m <= n /\ n \in Nat /\ MaxLossSteps \in Nat
    BY JobConstants DEF Trailing
  <1>2. CASE m >= MaxLossSteps
    <2>1. \A k \in n - MaxLossSteps + 1 .. n : k \in n - m + 1 .. n
      BY <1>1, <1>2
    <2>2. QED
      BY <1>1, <1>2, <2>1 DEF Trailing
  <1>3. CASE ~(m >= MaxLossSteps)
    <2>1. CASE n >= MaxLossSteps
      <3>1. n - m \in n - MaxLossSteps + 1 .. n /\ m < n
        BY <1>1, <1>3, <2>1
      <3>2. ~(ps[n - m].equity < StartingCash)
        BY <3>1 DEF Trailing
      <3>3. QED
        BY <1>3, <3>1, <3>2
    <2>2. QED
      BY <1>3, <2>1
  <1>4. QED
    BY <1>2, <1>3

\* A loss lengthens the trailing losses by one, anything else ends them.
LEMMA TrailingStep ==
    ASSUME NEW ps \in Seq(Portfolio), NEW n \in 1 .. Len(ps), NEW m, Trailing(ps, n - 1, m)
    PROVE  Trailing(ps, n, IF ps[n].equity < StartingCash THEN m + 1 ELSE 0)
  <1>1. m \in Nat /\ m <= n - 1 /\ n \in Nat
    BY DEF Trailing
  <1>2. CASE ps[n].equity < StartingCash
    <2>1. \A k \in n - (m + 1) + 1 .. n : k = n \/ k \in (n - 1) - m + 1 .. n - 1
      BY <1>1
    <2>2. n - (m + 1) = (n - 1) - m /\ (m + 1 < n => m < n - 1) /\ m + 1 \in 0 .. n
      BY <1>1
    <2>3. Trailing(ps, n, m + 1)
      BY <1>2, <2>1, <2>2 DEF Trailing
    <2>4. QED
      BY <1>2, <2>3
  <1>3. CASE ~(ps[n].equity < StartingCash)
    <2>1. n - 0 = n /\ 0 \in 0 .. n /\ n - 0 + 1 .. n = {}
      BY <1>1
    <2>2. Trailing(ps, n, 0)
      BY <1>3, <2>1 DEF Trailing
    <2>3. QED
      BY <1>3, <2>2
  <1>4. QED
    BY <1>2, <1>3

\* One more verdict says so of one more cycle.
LEMMA SaysStep ==
    ASSUME NEW ps \in Seq(Portfolio), NEW n \in 1 .. Len(ps), NEW v, Says(v, ps, n - 1)
    PROVE  Says(Judge(v, ps[n]), ps, n)
  <1> DEFINE p == ps[n]
             alerts == v.alerts + Alerts(p)
             losses == IF p.equity < StartingCash THEN v.losses + 1 ELSE 0
             next == Judge(v, p)
  <1>1. n \in Nat /\ Len(ps) \in Nat
    OBVIOUS
  <1>2. (\E i \in 1 .. n : LimitReached(ps, i)) <=>
           (\E i \in 1 .. n - 1 : LimitReached(ps, i)) \/ LimitReached(ps, n)
    BY <1>1
  <1>3. CASE \E i \in 1 .. n - 1 : LimitReached(ps, i)
    <2>1. v.stop
      BY <1>3 DEF Says
    <2>2. next = v
      BY <2>1 DEF Judge
    <2>3. next.stop
      BY <2>1, <2>2
    <2>4. QED
      BY <1>2, <1>3, <2>3 DEF Says
  <1>4. CASE ~ \E i \in 1 .. n - 1 : LimitReached(ps, i)
    <2>1. ~v.stop /\ v.alerts = AlertsUpTo(ps)[n - 1] /\ Trailing(ps, n - 1, v.losses)
      BY <1>4 DEF Says
    <2>2. /\ next = [stop |-> alerts >= MaxAlerts \/ losses >= MaxLossSteps,
                     alerts |-> alerts, losses |-> losses]
      BY <2>1 DEF Judge
    <2>3. alerts = AlertsUpTo(ps)[n]
      BY <2>1, AlertsUpToSums
    <2>4. Trailing(ps, n, losses)
      BY <2>1, TrailingStep
    <2> HIDE DEF alerts, losses, next, p
    <2>5. LimitReached(ps, n) <=> alerts >= MaxAlerts \/ losses >= MaxLossSteps
      <3>1. (n >= MaxLossSteps /\ \A k \in n - MaxLossSteps + 1 .. n : ps[k].equity < StartingCash)
              <=> losses >= MaxLossSteps
        BY <2>4, TrailingReached
      <3>2. QED
        BY <2>3, <3>1 DEF LimitReached
    <2>6. /\ next.stop <=> (alerts >= MaxAlerts \/ losses >= MaxLossSteps)
          /\ next.alerts = alerts /\ next.losses = losses
      BY <2>2
    <2>7. CASE LimitReached(ps, n)
      <3>1. next.stop /\ \E i \in 1 .. n : LimitReached(ps, i)
        BY <1>2, <2>5, <2>6, <2>7
      <3>2. QED
        BY <3>1 DEF Says, next, p
    <2>8. CASE ~LimitReached(ps, n)
      <3>1. ~next.stop /\ ~ \E i \in 1 .. n : LimitReached(ps, i)
        BY <1>2, <1>4, <2>5, <2>6, <2>8
      <3>2. next.alerts = AlertsUpTo(ps)[n] /\ Trailing(ps, n, next.losses)
        BY <2>3, <2>4, <2>6
      <3>3. QED
        BY <3>1, <3>2 DEF Says, next, p
    <2>9. QED
      BY <2>7, <2>8
  <1>5. QED
    BY <1>3, <1>4

\* The fail-safe stops a batch if one of its cycles has reached a limit, and
\* only then.
LEMMA FailSafeStops ==
    ASSUME NEW ps \in Seq(Portfolio)
    PROVE  FailSafe(ps).stop <=> \E i \in 1 .. Len(ps) : LimitReached(ps, i)
  <1>1. PICK v : Verdicts(v, ps)
    BY FailSafeTurns
  <1> DEFINE Good == {n \in Nat : n <= Len(ps) => Says(v[n], ps, n)}
  <1>2. Len(ps) \in Nat
    OBVIOUS
  <1>3. 0 \in Good
    <2>1. v[0] = Calm /\ AlertsUpTo(ps)[0] = 0
      BY <1>1, AlertsUpToSums DEF Verdicts
    <2>2. Trailing(ps, 0, 0)
      BY DEF Trailing
    <2>3. ~Calm.stop /\ Calm.alerts = 0 /\ Calm.losses = 0
      BY DEF Calm
    <2>4. Says(v[0], ps, 0)
      BY <2>1, <2>2, <2>3 DEF Says
    <2>5. QED
      BY <2>4
  <1>4. ASSUME NEW n \in Nat, n \in Good PROVE n + 1 \in Good
    <2> SUFFICES ASSUME n + 1 <= Len(ps) PROVE Says(v[n + 1], ps, n + 1)
      OBVIOUS
    <2>1. n + 1 \in 1 .. Len(ps) /\ (n + 1) - 1 = n /\ Says(v[n], ps, n)
      BY <1>2, <1>4
    <2>2. v[n + 1] = Judge(v[n], ps[n + 1])
      BY <1>1, <2>1 DEF Verdicts
    <2>3. QED
      BY <2>1, <2>2, SaysStep
  <1>5. Nat \subseteq Good
    <2> HIDE DEF Good
    <2> QED BY <1>3, <1>4, NatInductionOnSet
  <1>6. Says(FailSafe(ps), ps, Len(ps))
    BY <1>1, <1>2, <1>5 DEF Verdicts
  <1>7. QED
    BY <1>6 DEF Says
-----------------------------------------------------------------------------
(***************************************************************************)
(* Batches.                                                                *)
(***************************************************************************)

Batching(t) == job[t] # NoJob /\ job[t].kind = "batch"

\* No cycle that is followed by another has reached a limit; before the next
\* one the last has not either, and a batch is closed for a reason.
InLimits(t) ==
    /\ \A i \in 1 .. Len(runs[t]) - 1 : ~LimitReached(runs[t], i)
    /\ jpc[t] = "run" =>
          /\ Len(runs[t]) < job[t].iterations
          /\ \A i \in 1 .. Len(runs[t]) : ~LimitReached(runs[t], i)
    /\ jpc[t] \in {"record", "recorded", "judge"} => Len(runs[t]) \in 1 .. job[t].iterations
    /\ jpc[t] = "closed" =>
          Len(runs[t]) = job[t].iterations \/ LimitReached(runs[t], Len(runs[t]))
    /\ jpc[t] # "advance"

BatchKept == \A t \in Thread : Batching(t) => InLimits(t)

\* No step takes a batch beyond the limits it has judged.
LEMMA BatchStep ==
    ASSUME JobsTyped, Slots, JobsTyped', BatchKept, JobsNext \/ UNCHANGED <<histVars, jobVars>>
    PROVE  BatchKept'
  <1>1. \A t \in Thread : runs[t] \in Seq(Portfolio) /\ Len(runs[t]) \in Nat
    BY DEF JobsTyped
  <1>2. /\ DOMAIN job = Thread /\ DOMAIN jpc = Thread /\ DOMAIN runs = Thread
        /\ job = [t \in Thread |-> job[t]] /\ jpc = [t \in Thread |-> jpc[t]]
        /\ runs = [t \in Thread |-> runs[t]]
    BY DEF JobsTyped
  <1>3. ASSUME NEW t \in Thread, UNCHANGED <<job[t], jpc[t], runs[t]>>
        PROVE  Batching(t)' => InLimits(t)'
    BY <1>3 DEF BatchKept, Batching, InLimits
  <1>4. ASSUME NEW t \in Thread, JobStep(t) PROVE BatchKept'
    <2>1. SUFFICES Batching(t)' => InLimits(t)'
      <3>1. ASSUME NEW u \in Thread, u # t PROVE UNCHANGED <<job[u], jpc[u], runs[u]>>
        BY <1>2, <1>4, <3>1
           DEF JobStep, StartJob, RunCycle, RunReplay, RunFails, Advance, Record, Recorded,
               JudgeBatch, CloseBatch, Closed, Finish, JGoto
      <3>2. QED
        BY <1>3, <3>1 DEF BatchKept
    <2>2. ASSUME Batching(t), job'[t] = job[t] PROVE InLimits(t) /\ job[t].iterations \in Nat
      BY <2>2, JobKinds DEF BatchKept, Batching, JobsTyped
    <2>3. ASSUME NEW j \in Job, StartJob(t, j) PROVE Batching(t)' => InLimits(t)'
      <3>1. job'[t] = j /\ jpc'[t] = "run" /\ runs'[t] = <<>>
        BY <1>2, <2>3 DEF StartJob, JGoto, Slots
      <3>2. j.kind = "batch" => j.iterations \in 1 .. MaxIterations
        BY JobKinds
      <3>3. Len(runs'[t]) = 0
        BY <3>1
      <3>4. Batching(t)' => Len(runs'[t]) < job'[t].iterations
        BY <3>1, <3>2, <3>3, JobConstants DEF Batching
      <3>5. 1 .. Len(runs'[t]) = {} /\ 1 .. Len(runs'[t]) - 1 = {}
        BY <3>3
      <3>6. QED
        BY <3>1, <3>4, <3>5 DEF InLimits
    <2>4. CASE RunCycle(t)
      <3>1. PICK p \in Portfolio : runs' = [runs EXCEPT ![t] = Append(runs[t], p)]
        BY <2>4 DEF RunCycle
      <3>2. job'[t] = job[t] /\ jpc[t] = "run" /\ jpc'[t] = "record" /\ runs'[t] = Append(runs[t], p)
        BY <1>2, <2>4, <3>1 DEF RunCycle, JGoto
      <3>3. ASSUME Batching(t)' PROVE InLimits(t)'
        <4>1. Batching(t)
          BY <3>2, <3>3 DEF Batching
        <4>2. /\ Len(runs[t]) < job[t].iterations /\ job[t].iterations \in Nat
              /\ \A i \in 1 .. Len(runs[t]) : ~LimitReached(runs[t], i)
          BY <2>2, <3>2, <4>1 DEF InLimits
        <4>3. Len(runs'[t]) = Len(runs[t]) + 1
          BY <1>1, <3>2
        <4>4. Len(runs'[t]) \in 1 .. job'[t].iterations
          BY <1>1, <3>2, <4>2, <4>3
        <4>5. ASSUME NEW i \in 1 .. Len(runs'[t]) - 1 PROVE ~LimitReached(runs'[t], i)
          <5>1. i \in 1 .. Len(runs[t])
            BY <1>1, <4>3
          <5>2. QED
            BY <1>1, <3>2, <4>2, <5>1, LimitPrefix
        <4>6. QED
          BY <3>2, <4>4, <4>5 DEF InLimits
      <3>4. QED
        BY <3>3
    <2>5. CASE RunReplay(t) \/ Advance(t)
      <3>1. ~Batching(t)
        BY <2>5 DEF RunReplay, Advance, BatchKept, Batching, InLimits
      <3>2. job'[t] = job[t]
        BY <2>5 DEF RunReplay, Advance
      <3>3. QED
        BY <3>1, <3>2 DEF Batching
    <2>6. CASE job' = [job EXCEPT ![t] = NoJob]
      BY <1>2, <2>6 DEF Batching
    <2>7. CASE RunFails(t) \/ Closed(t)
      BY <2>6, <2>7 DEF RunFails, Closed, Finish
    <2>8. ASSUME job'[t] = job[t], runs'[t] = runs[t], jpc'[t] \in {"recorded", "judge", "run", "closed"},
                 Batching(t) /\ InLimits(t) =>
                    /\ jpc'[t] = "run" =>
                          /\ Len(runs[t]) < job[t].iterations
                          /\ \A i \in 1 .. Len(runs[t]) : ~LimitReached(runs[t], i)
                    /\ jpc'[t] \in {"recorded", "judge"} => Len(runs[t]) \in 1 .. job[t].iterations
                    /\ jpc'[t] = "closed" =>
                          \/ Len(runs[t]) = job[t].iterations
                          \/ LimitReached(runs[t], Len(runs[t]))
          PROVE  Batching(t)' => InLimits(t)'
      <3>1. SUFFICES ASSUME Batching(t), InLimits(t) PROVE InLimits(t)'
        BY <2>2, <2>8 DEF Batching
      <3>2. QED
        BY <2>8, <3>1 DEF InLimits
    <2>9. CASE Record(t)
      <3>1. jpc[t] = "record" /\ jpc'[t] = "recorded" /\ UNCHANGED <<job, runs>>
        BY <1>2, <2>9 DEF Record, JGoto
      <3>2. QED
        BY <2>8, <3>1 DEF InLimits
    <2>10. CASE Recorded(t)
      <3>1. CASE job[t].kind = "batch"
        <4>1. jpc[t] = "recorded" /\ jpc'[t] = "judge" /\ UNCHANGED <<job, runs>>
          BY <1>2, <2>10, <3>1 DEF Recorded, JGoto
        <4>2. QED
          BY <2>8, <4>1 DEF InLimits
      <3>2. CASE job[t].kind # "batch"
        BY <2>6, <2>10, <3>2 DEF Recorded, Finish
      <3>3. QED
        BY <3>1, <3>2
    <2>11. CASE JudgeBatch(t)
      <3>1. /\ jpc[t] = "judge" /\ jpc'[t] = "run" /\ UNCHANGED <<job, runs>>
            /\ ~FailSafe(runs[t]).stop /\ Len(runs[t]) < job[t].iterations
        BY <1>2, <2>11 DEF JudgeBatch, JGoto
      <3>2. \A i \in 1 .. Len(runs[t]) : ~LimitReached(runs[t], i)
        BY <1>1, <3>1, FailSafeStops
      <3>3. QED
        BY <2>8, <3>1, <3>2
    <2>12. CASE CloseBatch(t)
      <3>1. /\ jpc[t] = "judge" /\ jpc'[t] = "closed" /\ UNCHANGED <<job, runs>>
            /\ FailSafe(runs[t]).stop \/ Len(runs[t]) = job[t].iterations
        BY <1>2, <2>12 DEF CloseBatch, JGoto
      <3>2. ASSUME InLimits(t), FailSafe(runs[t]).stop
            PROVE  LimitReached(runs[t], Len(runs[t]))
        <4>1. PICK i \in 1 .. Len(runs[t]) : LimitReached(runs[t], i)
          BY <1>1, <3>2, FailSafeStops
        <4>2. i \notin 1 .. Len(runs[t]) - 1
          BY <3>2, <4>1 DEF InLimits
        <4>3. i = Len(runs[t])
          BY <1>1, <4>1, <4>2
        <4>4. QED
          BY <4>1, <4>3
      <3>3. QED
        BY <2>8, <3>1, <3>2
    <2>13. QED
      BY <1>4, <2>3, <2>4, <2>5, <2>7, <2>9, <2>10, <2>11, <2>12 DEF JobStep
  <1>5. ASSUME UNCHANGED <<job, jpc, runs>> PROVE BatchKept'
    BY <1>3, <1>5 DEF BatchKept
  <1>6. CASE CrashJobs
    BY <1>6 DEF CrashJobs, BatchKept, Batching
  <1>7. QED
    BY <1>4, <1>5, <1>6 DEF JobsNext, LoadReplay, SeedMock, AdvanceReplay, ResetCandles, jobVars
-----------------------------------------------------------------------------
(***************************************************************************)
(* Backtests.                                                              *)
(***************************************************************************)

\* Where the i-th window of a backtest ends, and that window.
EndOf(t, i) == Min({job[t].window + i - 1, Len(series)})

WindowAt(t, i) == SubSeq(series, EndOf(t, i) - job[t].window + 1, EndOf(t, i))

\* The cursor is behind the window that comes next, or that was seen last.
OnCourse(t) ==
    /\ \A i \in 1 .. Len(seen[t]) : seen[t][i] = WindowAt(t, i)
    /\ jpc[t] = "run" => cursor = EndOf(t, Len(seen[t]) + 1)
    /\ jpc[t] = "advance" => Len(seen[t]) >= 1 /\ cursor = EndOf(t, Len(seen[t]))
    /\ jpc[t] \in {"record", "recorded"} => Len(seen[t]) >= job[t].steps
    /\ jpc[t] \in {"run", "advance", "record", "recorded"}

ReplayKept ==
    \A t \in Thread : Replaying(t) /\ Len(series) >= job[t].window => OnCourse(t)

\* Numbers of a backtest.
LEMMA ReplayNumbers ==
    ASSUME JobsTyped, Slots, NEW t \in Thread, Replaying(t), Len(series) >= job[t].window
    PROVE  /\ job[t].window \in Nat \ {0} /\ job[t].steps \in Nat
           /\ Len(series) \in Nat /\ series \in Seq(Candle) /\ cursor \in Nat
           /\ seen[t] \in Seq(Seq(Candle)) /\ Len(seen[t]) \in Nat
           /\ \A i \in Nat : i >= 1 =>
                 EndOf(t, i) = IF job[t].window + i - 1 <= Len(series)
                               THEN job[t].window + i - 1 ELSE Len(series)
  <1>1. job[t] \in Job /\ job[t].kind = "replay"
    BY DEF JobsTyped, Replaying
  <1>2. job[t].window \in Nat \ {0} /\ job[t].steps \in Nat
    BY <1>1, JobKinds, JobConstants
  <1>3. Len(series) \in Nat /\ series \in Seq(Candle) /\ cursor \in Nat
    BY CursorBound DEF JobsTyped
  <1>4. seen[t] \in Seq(Seq(Candle))
    BY DEF JobsTyped
  <1>5. Len(seen[t]) \in Nat
    BY <1>4
  <1>6. ASSUME NEW i \in Nat, i >= 1
        PROVE  EndOf(t, i) = IF job[t].window + i - 1 <= Len(series)
                             THEN job[t].window + i - 1 ELSE Len(series)
    <2>1. job[t].window + i - 1 \in Int
      BY <1>2
    <2>2. QED
      BY <1>3, <2>1, MinOfTwo DEF EndOf
  <1>7. QED
    BY <1>2, <1>3, <1>4, <1>5, <1>6

\* A window that ends at the cursor is what the adapter returns.
LEMMA WindowBeforeCursor ==
    ASSUME NEW w \in Nat, cursor \in Nat, Len(series) \in Nat, w <= cursor, cursor <= Len(series)
    PROVE  Window(w) = SubSeq(series, cursor - w + 1, cursor)
  <1>1. Max({0, cursor - w}) = cursor - w
    BY MaxOfTwo
  <1>2. Min({cursor, Len(series)}) = cursor
    BY MinOfTwo
  <1>3. QED
    BY <1>1, <1>2 DEF Window

\* With one thread, no step moves the windows of a replay off their course.
LEMMA ReplayStep ==
    ASSUME OneThread, JobsTyped, Slots, JobsTyped', ReplayKept,
           JobsNext \/ UNCHANGED <<histVars, jobVars>>
    PROVE  ReplayKept'
  <1>1. /\ DOMAIN job = Thread /\ DOMAIN jpc = Thread /\ DOMAIN seen = Thread
        /\ \A t \in Thread : seen[t] \in Seq(Seq(Candle))
    BY DEF JobsTyped
  <1>2. \A t, u \in Thread : t = u
    BY DEF OneThread
  <1>3. ASSUME UNCHANGED <<job, jpc, seen, series, cursor>> PROVE ReplayKept'
    BY <1>3 DEF ReplayKept, Replaying, OnCourse, WindowAt, EndOf
  <1>4. ASSUME NEW t \in Thread, ~Replaying(t)' PROVE ReplayKept'
    BY <1>2, <1>4 DEF ReplayKept
  <1>5. ASSUME NEW t \in Thread, JobStep(t) PROVE ReplayKept'
    <2>1. ASSUME Replaying(t)', Len(series') >= job'[t].window => OnCourse(t)' PROVE ReplayKept'
      BY <1>2, <2>1 DEF ReplayKept
    <2>2. ASSUME Replaying(t), Len(series) >= job[t].window PROVE OnCourse(t)
      BY <2>2 DEF ReplayKept
    <2>3. ASSUME NEW j \in Job, StartJob(t, j) PROVE ReplayKept'
      <3>1. /\ job'[t] = j /\ jpc'[t] = "run" /\ seen'[t] = <<>> /\ UNCHANGED series
            /\ cursor' = IF j.kind = "replay" THEN j.window ELSE cursor
        BY <1>1, <2>3 DEF StartJob, JGoto, Slots
      <3>2. ASSUME Replaying(t)', Len(series') >= job'[t].window PROVE OnCourse(t)'
        <4>1. j.kind = "replay" /\ cursor' = j.window /\ Len(series) >= j.window
          BY <3>1, <3>2 DEF Replaying
        <4>2. j.window \in Nat /\ Len(series) \in Nat
          BY <4>1, JobKinds, CursorBound DEF JobsTyped
        <4>3. Len(seen'[t]) = 0 /\ j.window + (0 + 1) - 1 = j.window /\ 1 .. 0 = {}
          BY <3>1, <4>2
        <4>4. Min({j.window, Len(series)}) = j.window
          BY <4>1, <4>2, MinOfTwo
        <4>5. EndOf(t, Len(seen[t]) + 1)' = j.window
          BY <3>1, <4>3, <4>4 DEF EndOf
        <4>6. QED
          BY <3>1, <4>1, <4>3, <4>5 DEF OnCourse
      <3>3. QED
        BY <1>4, <2>1, <3>2
    <2>4. CASE RunReplay(t)
      <3> DEFINE n == Len(seen[t])
                 w == job[t].window
      <3>1. /\ jpc[t] = "run" /\ jpc'[t] = "advance" /\ seen'[t] = Append(seen[t], Window(w))
            /\ UNCHANGED <<job, series, cursor>> /\ Replaying(t)
        <4>1. /\ jpc[t] = "run" /\ jpc'[t] = "advance" /\ seen'[t] = Append(seen[t], Window(w))
              /\ UNCHANGED <<job, series, cursor>> /\ job[t].kind = "replay"
          BY <1>1, <2>4 DEF RunReplay, JGoto
        <4>2. job[t] # NoJob
          BY <4>1, JobConstants DEF Slots
        <4>3. QED
          BY <4>1, <4>2 DEF Replaying
      <3>2. ASSUME Replaying(t)', Len(series') >= job'[t].window PROVE OnCourse(t)'
        <4>1. Len(series) >= w /\ OnCourse(t)
          BY <2>2, <3>1, <3>2
        <4>2. /\ w \in Nat /\ Len(series) \in Nat /\ cursor \in Nat
              /\ seen[t] \in Seq(Seq(Candle)) /\ n \in Nat
          BY <3>1, <4>1, ReplayNumbers
        <4>3. cursor = EndOf(t, n + 1)
          BY <3>1, <4>1 DEF OnCourse
        <4>4. cursor = IF w + (n + 1) - 1 <= Len(series) THEN w + (n + 1) - 1 ELSE Len(series)
          <5>1. n + 1 \in Nat /\ n + 1 >= 1
            BY <4>2
          <5>2. QED
            BY <3>1, <4>1, <4>3, <5>1, ReplayNumbers
        <4>5. w <= cursor /\ cursor <= Len(series)
          BY <4>1, <4>2, <4>4
        <4>6. Window(w) = WindowAt(t, n + 1)
          BY <4>2, <4>3, <4>5, WindowBeforeCursor DEF WindowAt
        <4>7. /\ Len(seen'[t]) = n + 1 /\ seen'[t][n + 1] = Window(w)
              /\ \A i \in 1 .. n : seen'[t][i] = seen[t][i]
          <5> DEFINE window == Window(w)
          <5>1. window \in Seq(Candle)
            BY <3>1, <4>1, <4>2, ReplayNumbers, WindowTyped
          <5>2. seen'[t] = Append(seen[t], window)
            BY <3>1
          <5> HIDE DEF window
          <5>3. /\ Len(seen'[t]) = n + 1 /\ seen'[t][n + 1] = window
                /\ \A i \in 1 .. n : seen'[t][i] = seen[t][i]
            BY <4>2, <5>1, <5>2
          <5>4. QED
            BY <5>3 DEF window
        <4>8. \A i \in 1 .. n + 1 : seen'[t][i] = WindowAt(t, i)
          <5>1. \A i \in 1 .. n : seen[t][i] = WindowAt(t, i)
            BY <4>1 DEF OnCourse
          <5> HIDE DEF n, w
          <5>2. \A i \in 1 .. n + 1 : i \in 1 .. n \/ i = n + 1
            BY <4>2
          <5>3. QED
            BY <4>6, <4>7, <5>1, <5>2
        <4>9. \A i : WindowAt(t, i)' = WindowAt(t, i) /\ EndOf(t, i)' = EndOf(t, i)
          BY <3>1 DEF WindowAt, EndOf
        <4> HIDE DEF n, w
        <4>10. OnCourse(t)'
          BY <3>1, <4>2, <4>3, <4>7, <4>8, <4>9 DEF OnCourse
        <4>11. QED
          BY <4>10
      <3>3. QED
        BY <1>4, <2>1, <3>2
    <2>5. CASE Advance(t)
      <3> DEFINE n == Len(seen[t])
                 w == job[t].window
      <3>1. /\ jpc[t] = "advance" /\ cursor' = Advanced(1)
            /\ jpc'[t] = IF n < job[t].steps THEN "run" ELSE "record"
            /\ UNCHANGED <<job, seen, series>>
        BY <1>1, <2>5 DEF Advance, JGoto
      <3>2. ASSUME Replaying(t)', Len(series') >= job'[t].window PROVE OnCourse(t)'
        <4>1. Replaying(t) /\ Len(series) >= w
          BY <3>1, <3>2 DEF Replaying
        <4>2. /\ w \in Nat /\ Len(series) \in Nat /\ cursor \in Nat /\ n \in Nat
              /\ job[t].steps \in Nat
          BY <4>1, ReplayNumbers
        <4>3. n >= 1 /\ cursor = EndOf(t, n) /\ \A i \in 1 .. n : seen[t][i] = WindowAt(t, i)
          BY <2>2, <3>1, <4>1 DEF OnCourse
        <4>4. /\ EndOf(t, n) = IF w + n - 1 <= Len(series) THEN w + n - 1 ELSE Len(series)
              /\ EndOf(t, n + 1) =
                    IF w + (n + 1) - 1 <= Len(series) THEN w + (n + 1) - 1 ELSE Len(series)
          <5>1. n + 1 \in Nat /\ n + 1 >= 1
            BY <4>2
          <5>2. QED
            BY <4>1, <4>2, <4>3, <5>1, ReplayNumbers
        <4>5. cursor' = IF Len(series) <= cursor + 1 THEN Len(series) ELSE cursor + 1
          <5>1. cursor + 1 \in Int
            BY <4>2
          <5>2. QED
            BY <3>1, <4>2, <5>1, MinOfTwo DEF Advanced
        <4> HIDE DEF n, w
        <4>6. cursor' = EndOf(t, n + 1)
          BY <4>2, <4>3, <4>4, <4>5
        <4>7. \A i : WindowAt(t, i)' = WindowAt(t, i) /\ EndOf(t, i)' = EndOf(t, i)
          BY <3>1 DEF WindowAt, EndOf
        <4>8. n = Len(seen'[t]) /\ seen'[t] = seen[t]
          BY <3>1 DEF n
        <4>9. CASE n < job[t].steps
          BY <3>1, <4>3, <4>6, <4>7, <4>8, <4>9 DEF OnCourse
        <4>10. CASE ~(n < job[t].steps)
          <5>1. n >= job'[t].steps /\ jpc'[t] = "record"
            BY <3>1, <4>2, <4>10
          <5>2. QED
            BY <4>3, <4>7, <4>8, <5>1 DEF OnCourse
        <4>11. QED
          BY <4>9, <4>10
      <3>3. QED
        BY <1>4, <2>1, <3>2
    <2>6. CASE job' = [job EXCEPT ![t] = NoJob]
      BY <1>1, <1>4, <2>6 DEF Replaying
    <2>7. CASE RunFails(t) \/ Closed(t) \/ (Recorded(t) /\ job[t].kind # "batch")
      BY <2>6, <2>7 DEF RunFails, Closed, Recorded, Finish
    <2>8. ASSUME UNCHANGED job, job[t].kind # "replay" PROVE ReplayKept'
      BY <1>4, <2>8 DEF Replaying
    <2>9. CASE RunCycle(t) \/ (Recorded(t) /\ job[t].kind = "batch")
      BY <2>8, <2>9 DEF RunCycle, Recorded
    <2>10. CASE JudgeBatch(t) \/ CloseBatch(t)
      <3>1. jpc[t] = "judge" /\ UNCHANGED <<job, series>>
        BY <2>10 DEF JudgeBatch, CloseBatch
      <3>2. ~(Replaying(t)' /\ Len(series') >= job'[t].window)
        BY <2>2, <3>1 DEF Replaying, OnCourse
      <3>3. QED
        BY <1>2, <3>2 DEF ReplayKept
    <2>11. CASE Record(t)
      <3>1. jpc[t] = "record" /\ jpc'[t] = "recorded" /\ UNCHANGED <<job, seen, series, cursor>>
        BY <1>1, <2>11 DEF Record, JGoto
      <3>2. ASSUME Replaying(t)', Len(series') >= job'[t].window PROVE OnCourse(t)'
        <4>1. OnCourse(t)
          BY <2>2, <3>1, <3>2 DEF Replaying
        <4>2. QED
          BY <3>1, <4>1 DEF OnCourse, WindowAt, EndOf
      <3>3. QED
        BY <1>4, <2>1, <3>2
    <2>12. QED
      BY <1>5, <2>3, <2>4, <2>5, <2>7, <2>9, <2>10, <2>11 DEF JobStep
  <1>6. CASE NoReplay /\ UNCHANGED job
    BY <1>6 DEF NoReplay, ReplayKept, Replaying
  <1>7. CASE CrashJobs
    BY <1>7 DEF CrashJobs, ReplayKept, Replaying
  <1>8. QED
    BY <1>3, <1>5, <1>6, <1>7
       DEF JobsNext, LoadReplay, SeedMock, AdvanceReplay, ResetCandles, jobVars

\* What the invariant says of the windows seen and the one to come.
LEMMA OnCourseIsEnough ==
    ASSUME JobsTyped, Slots, ReplayKept
    PROVE  ReplayWindowsAdvance
  <1> SUFFICES ASSUME NEW t \in Thread, Replaying(t), Len(series) >= job[t].window
               PROVE  /\ \A i \in DOMAIN seen[t] : seen[t][i] = WindowAt(t, i)
                      /\ Len(seen[t]) < job[t].steps => Len(Window(job[t].window)) = job[t].window
    BY DEF ReplayWindowsAdvance, WindowAt, EndOf
  <1> DEFINE w == job[t].window
             n == Len(seen[t])
  <1>1. OnCourse(t)
    BY DEF ReplayKept
  <1>2. /\ w \in Nat \ {0} /\ job[t].steps \in Nat /\ Len(series) \in Nat /\ cursor \in Nat
        /\ series \in Seq(Candle) /\ n \in Nat /\ DOMAIN seen[t] = 1 .. n
    BY ReplayNumbers
  <1>3. \A i \in DOMAIN seen[t] : seen[t][i] = WindowAt(t, i)
    BY <1>1, <1>2 DEF OnCourse
  <1>4. ASSUME n < job[t].steps PROVE Len(Window(w)) = w
    <2>1. cursor = EndOf(t, n + 1) \/ (n >= 1 /\ cursor = EndOf(t, n))
      BY <1>1, <1>2, <1>4 DEF OnCourse
    <2>2. /\ n >= 1 => EndOf(t, n) = IF w + n - 1 <= Len(series) THEN w + n - 1 ELSE Len(series)
          /\ EndOf(t, n + 1) =
                IF w + (n + 1) - 1 <= Len(series) THEN w + (n + 1) - 1 ELSE Len(series)
      <3>1. n + 1 \in Nat /\ n + 1 >= 1
        BY <1>2
      <3>2. QED
        BY <1>2, <3>1, ReplayNumbers
    <2> HIDE DEF n
    <2>3. w <= cursor /\ cursor <= Len(series)
      BY <1>2, <2>1, <2>2
    <2>4. Window(w) = SubSeq(series, cursor - w + 1, cursor)
      BY <1>2, <2>3, WindowBeforeCursor
    <2> HIDE DEF w
    <2>5. cursor - w + 1 \in Int /\ \A i \in cursor - w + 1 .. cursor : series[i] \in Candle
      BY <1>2, <2>3
    <2>6. Len(SubSeq(series, cursor - w + 1, cursor)) =
             IF cursor - w + 1 <= cursor THEN cursor - (cursor - w + 1) + 1 ELSE 0
      BY <1>2, <2>5, SubSeqProperties
    <2>7. QED
      BY <1>2, <2>3, <2>4, <2>6
  <1>5. QED
    BY <1>3, <1>4
-----------------------------------------------------------------------------
(***************************************************************************)
(* Theorems.                                                               *)
(***************************************************************************)

JobsInv == HistTypeOK /\ JobsTyped /\ Slots

\* The invariant of the jobs holds at the start and is kept.
LEMMA JobsInvKept ==
    /\ JobsInit => JobsInv
    /\ JobsInv /\ [JobsNext]_<<histVars, jobVars>> => JobsInv'
  <1>1. JobsInit => JobsInv
    BY JobsInitTyped, HistInitInv DEF JobsInit, JobsInv
  <1>2. JobsInv /\ [JobsNext]_<<histVars, jobVars>> => JobsInv'
    BY JobsTypeStep, JobsMoveHistory, HistTypeStep DEF JobsInv
  <1>3. QED
    BY <1>1, <1>2

\* All records of the history, the jobs, the replay adapter and the candle
\* store keep their types, with the cursor never beyond the series or the
\* largest first window.
THEOREM JobsTypesKept == JobsSpec => []JobsTypeOK
  <1>1. JobsInv => JobsTypeOK
    BY DEF JobsInv, JobsTyped, JobsTypeOK
  <1>2. QED
    BY <1>1, JobsInvKept, PTL DEF JobsSpec

\* With one thread that records at a time, the identifiers in the run history
\* increase from entry to entry, over days, resets, crashes and torn lines and
\* the writes of other processes.
THEOREM HistoryIdsIncrease == ASSUME OneThread PROVE JobsSpec => []IdsIncrease
  <1>1. JobsInit => Numbered
    BY HistInitInv DEF JobsInit
  <1>2. JobsInv /\ Numbered /\ [JobsNext]_<<histVars, jobVars>> => Numbered'
    BY JobsInvKept, JobsMoveHistory, NumberedStep DEF JobsInv
  <1>3. Numbered => IdsIncrease
    BY DEF Numbered
  <1>4. QED
    BY <1>1, <1>2, <1>3, JobsInvKept, PTL DEF JobsSpec

\* A batch runs no cycle after the one that reaches a limit of the fail-safe,
\* and ends early for no other reason, whatever runs beside it.
THEOREM BatchesStopAtLimits == JobsSpec => []BatchStopsAtLimits
  <1>1. JobsInit => BatchKept
    BY DEF JobsInit, BatchKept, Batching
  <1>2. JobsInv /\ BatchKept /\ [JobsNext]_<<histVars, jobVars>> => BatchKept'
    BY JobsInvKept, BatchStep DEF JobsInv
  <1>3. BatchKept => BatchStopsAtLimits
    BY DEF BatchKept, Batching, InLimits, BatchStopsAtLimits
  <1>4. QED
    BY <1>1, <1>2, <1>3, JobsInvKept, PTL DEF JobsSpec

\* With one thread that replays, a backtest sees the first full window and then
\* each next one, stays on the last, and never runs out of candles.
THEOREM ReplaysAdvance == ASSUME OneThread PROVE JobsSpec => []ReplayWindowsAdvance
  <1>1. JobsInit => ReplayKept
    BY DEF JobsInit, ReplayKept, Replaying
  <1>2. JobsInv /\ ReplayKept /\ [JobsNext]_<<histVars, jobVars>> => ReplayKept'
    BY JobsInvKept, ReplayStep DEF JobsInv
  <1>3. JobsInv /\ ReplayKept => ReplayWindowsAdvance
    BY OnCourseIsEnough DEF JobsInv
  <1>4. QED
    BY <1>1, <1>2, <1>3, JobsInvKept, PTL DEF JobsSpec

\* The candle store never holds two candles of one time, and holds them in
\* their order, whatever is loaded again and however it is ordered.
THEOREM StoredCandlesSorted == JobsSpec => []StoredCandlesAscend
  <1>1. JobsInit => StoredCandlesAscend
    BY DEF JobsInit, StoredCandlesAscend
  <1>2. JobsInv /\ StoredCandlesAscend /\ [JobsNext]_<<histVars, jobVars>> => StoredCandlesAscend'
    <2> SUFFICES ASSUME JobsInv, StoredCandlesAscend, [JobsNext]_<<histVars, jobVars>>
                 PROVE  StoredCandlesAscend'
      OBVIOUS
    <2>1. CASE UNCHANGED stored
      BY <2>1 DEF StoredCandlesAscend
    <2>2. ASSUME NEW s \in Series, stored' \in Merged(stored, s) PROVE StoredCandlesAscend'
      <3>1. stored \in Seq(Candle) /\ s \in Seq(Candle)
        BY SeriesOfCandles DEF JobsInv, JobsTyped
      <3>2. \A i \in 2 .. Len(stored') : stored'[i - 1].at < stored'[i].at
        BY <2>2, <3>1, MergedAscends
      <3>3. QED
        BY <3>2 DEF StoredCandlesAscend
    <2>3. CASE ResetCandles
      <3>1. stored' = <<>> /\ Len(<<>>) = 0
        BY <2>3 DEF ResetCandles
      <3>2. QED
        BY <3>1 DEF StoredCandlesAscend
    <2>4. QED
      BY <2>1, <2>2, <2>3
         DEF JobsNext, JobStep, StartJob, RunCycle, RunReplay, RunFails, Advance, Record, Recorded,
             JudgeBatch, CloseBatch, Closed, LoadReplay, SeedMock, AdvanceReplay, CrashJobs, jobVars
  <1>3. QED
    BY <1>1, <1>2, JobsInvKept, PTL DEF JobsSpec
=============================================================================
