------------------------- MODULE RateLimiterProofs -------------------------
(***************************************************************************)
(* Theorems about FixedWindowRateLimiter, for any number of threads and     *)
(* clients, any limit and window, and any delay between the clock reading   *)
(* and the lock.                                                            *)
(*                                                                          *)
(* WindowsMoveOn speaks of what Count stores, which Acquire computed a step *)
(* earlier: LookUpInv says that what a thread has looked up is still what   *)
(* is there, because only the thread that holds the lock stores.            *)
(*                                                                          *)
(* That the first Limit requests of a window are let in, and how many that  *)
(* makes in a row, are facts about the whole history: HistoryInv says that  *)
(* every admission is one of the first Limit of its window, that no two are *)
(* the same one, and that windows are Window ticks apart.                   *)
(***************************************************************************)
EXTENDS RateLimiter, FiniteSetTheorems, TLAPS

LookUpInv ==
    \A t \in Threads : phase[t] = "locked" =>
        /\ lock = t
        /\ who[t] \in Clients
        /\ seen[t] = CurrentWindow(windows[who[t]], now[t])

\* Readings are not from the future, and at most MaxDelay old; a window starts with one.
ClockInv ==
    /\ \A t \in Threads : phase[t] # "idle" => clock \in now[t] .. now[t] + MaxDelay
    /\ \A c \in Clients : windows[c] # Nothing => windows[c].start <= clock

\* An admission of a client whose window is w: one of the first Limit of its window,
\* which is w or was over when w began.
Genuine(a, w) ==
    /\ a.count \in 1 .. Limit
    /\ a.at \in a.start .. a.start + Window - 1 + MaxDelay
    /\ a.start = w.start => a.count <= w.count
    /\ a.start # w.start => a.start + Window <= w.start

\* Two admissions are different requests of one window, or their windows do not overlap.
Apart(a, b) ==
    /\ a.start = b.start => a.count # b.count
    /\ a.start # b.start => a.start + Window <= b.start \/ b.start + Window <= a.start

\* A history s that is possible when the window is w.
Fits(s, w) ==
    /\ \A i \in DOMAIN s : Genuine(s[i], w)
    /\ \A i, j \in DOMAIN s : i # j => Apart(s[i], s[j])
    /\ \A n \in 1 .. w.count : n <= Limit =>
          \E i \in DOMAIN s : s[i].start = w.start /\ s[i].count = n

HistoryInv ==
    \A c \in Clients : IF windows[c] = Nothing THEN admitted[c] = <<>>
                       ELSE Fits(admitted[c], windows[c])

LimiterInv ==
    /\ LimiterTypeOK
    /\ LookUpInv
    /\ \A t \in Threads : phase[t] = "timed" => who[t] \in Clients

\* Looking a window up yields a window, and it starts anew only when it is over.
LEMMA CurrentWindowEntry ==
    ASSUME NEW entry \in Entry \union {Nothing}, NEW time \in 0 .. MaxTime
    PROVE  /\ CurrentWindow(entry, time) \in Entry
           /\ entry # Nothing /\ CurrentWindow(entry, time).start # entry.start
                 => CurrentWindow(entry, time).start >= entry.start + Window
  BY ParametersAssumption DEF Entry, CurrentWindow, IsOver

LEMMA CountedEntry ==
    ASSUME NEW e \in Entry
    PROVE  [e EXCEPT !.count = @ + 1] = [start |-> e.start, count |-> e.count + 1]
  BY DEF Entry

LEMMA AppendAt ==
    ASSUME NEW S, NEW a \in [Clients -> Seq(S)], NEW c \in Clients, NEW x \in S
    PROVE  [a EXCEPT ![c] = Append(@, x)] \in [Clients -> Seq(S)]
<1>1. Append(a[c], x) \in Seq(S)
  OBVIOUS
<1> QED
  BY <1>1

LEMMA InitLimiter == LimiterInit => LimiterInv
  BY ParametersAssumption DEF LimiterInit, LimiterInv, LimiterTypeOK, LookUpInv

LEMMA StepLimiter == LimiterInv /\ [LimiterNext]_limiterVars => LimiterInv'
<1> SUFFICES ASSUME LimiterInv, [LimiterNext]_limiterVars PROVE LimiterInv'
  OBVIOUS
<1>1. ASSUME NEW t \in Threads, NEW c \in Clients, ReadClock(t, c) PROVE LimiterInv'
  BY <1>1 DEF ReadClock, LimiterInv, LimiterTypeOK, LookUpInv
<1>2. ASSUME NEW t \in Threads, Acquire(t) PROVE LimiterInv'
  <2>1. who[t] \in Clients /\ seen'[t] = CurrentWindow(windows[who[t]], now[t])
    BY <1>2 DEF Acquire, LimiterInv, LimiterTypeOK
  <2>2. seen'[t] \in Entry
    BY <2>1, CurrentWindowEntry DEF LimiterInv, LimiterTypeOK
  <2>3. LimiterTypeOK'
    BY <1>2, <2>2 DEF Acquire, LimiterInv, LimiterTypeOK
  <2>4. LookUpInv'
    BY <1>2, <2>1, ParametersAssumption DEF Acquire, LimiterInv, LimiterTypeOK, LookUpInv
  <2> QED
    BY <1>2, <2>3, <2>4 DEF Acquire, LimiterInv, LimiterTypeOK
<1>3. ASSUME NEW t \in Threads, Count(t) PROVE LimiterInv'
  <2>1. who[t] \in Clients /\ lock = t /\ seen[t] = CurrentWindow(windows[who[t]], now[t])
    BY <1>3 DEF Count, LimiterInv, LookUpInv
  <2>2. seen[t] \in Entry
    <3>1. windows[who[t]] \in Entry \union {Nothing} /\ now[t] \in 0 .. MaxTime
      BY <2>1 DEF LimiterInv, LimiterTypeOK
    <3> QED
      BY <2>1, <3>1, CurrentWindowEntry
  <2> DEFINE entry == [start |-> seen[t].start, count |-> seen[t].count + 1]
  <2>3. entry \in Entry /\ [seen[t] EXCEPT !.count = @ + 1] = entry
    BY <2>2, CountedEntry DEF Entry
  <2>4. windows' = [windows EXCEPT ![who[t]] = entry]
    BY <1>3, <2>3 DEF Count
  <2>5. \/ admitted' = admitted
        \/ admitted' = [admitted EXCEPT ![who[t]] =
                           Append(@, [at |-> clock, start |-> entry.start, count |-> entry.count])]
    BY <1>3, <2>3 DEF Count
  <2>6. /\ phase' = [phase EXCEPT ![t] = "idle"] /\ who' = [who EXCEPT ![t] = Nothing]
        /\ now' = [now EXCEPT ![t] = 0] /\ seen' = [seen EXCEPT ![t] = Nothing]
        /\ lock' = Nothing /\ clock' = clock
    BY <1>3 DEF Count
  <2>7. [at |-> clock, start |-> entry.start, count |-> entry.count] \in Admission
    BY <2>3 DEF Entry, Admission, LimiterInv, LimiterTypeOK
  <2> HIDE DEF entry
  <2>8. admitted' \in [Clients -> Seq(Admission)]
    <3>1. admitted \in [Clients -> Seq(Admission)]
      BY DEF LimiterInv, LimiterTypeOK
    <3>2. [admitted EXCEPT ![who[t]] =
              Append(@, [at |-> clock, start |-> entry.start, count |-> entry.count])]
             \in [Clients -> Seq(Admission)]
      BY <2>1, <2>7, <3>1, AppendAt
    <3> QED
      BY <2>5, <3>1, <3>2
  <2>9. windows' \in [Clients -> Entry \union {Nothing}]
    BY <2>1, <2>3, <2>4 DEF LimiterInv, LimiterTypeOK
  <2>10. LimiterTypeOK'
    BY <2>6, <2>8, <2>9, ParametersAssumption DEF LimiterInv, LimiterTypeOK
  <2>11. \A s \in Threads : phase'[s] # "locked"
    BY <2>1, <2>6 DEF LimiterInv, LimiterTypeOK, LookUpInv
  <2> QED
    BY <2>6, <2>10, <2>11 DEF LimiterInv, LimiterTypeOK, LookUpInv
<1>4. CASE Tick
  BY <1>4, ParametersAssumption DEF Tick, LimiterInv, LimiterTypeOK, LookUpInv
<1>5. CASE UNCHANGED limiterVars
  BY <1>5 DEF limiterVars, LimiterInv, LimiterTypeOK, LookUpInv
<1> QED
  BY <1>1, <1>2, <1>3, <1>4, <1>5 DEF LimiterNext, Rest

\* The state keeps its shape, and a thread at the lock what it has looked up (check).
THEOREM LimiterInvariant == LimiterSpec => []LimiterInv
  BY InitLimiter, StepLimiter, PTL DEF LimiterSpec

(* The state of the limiter keeps its shape: counters are attached to starts *)
(* that are clock readings, and the lock has one holder.                     *)
THEOREM LimiterTyped == LimiterSpec => []LimiterTypeOK
<1>1. LimiterInv => LimiterTypeOK
  BY DEF LimiterInv
<1> QED
  BY <1>1, LimiterInvariant, PTL

(* A client's windows neither overlap nor go back, however late a thread     *)
(* comes with its clock reading.                                             *)
THEOREM LimiterWindowsMoveOn == LimiterSpec => WindowsMoveOn
<1> DEFINE Moves ==
      \A c \in Clients : windows[c] # Nothing /\ windows'[c].start # windows[c].start
          => windows'[c].start >= windows[c].start + Window
<1>1. LimiterInv /\ [LimiterNext]_limiterVars => [Moves]_limiterVars
  <2> SUFFICES ASSUME LimiterInv, [LimiterNext]_limiterVars,
                      NEW c \in Clients, windows[c] # Nothing,
                      windows'[c].start # windows[c].start
               PROVE  windows'[c].start >= windows[c].start + Window
    OBVIOUS
  <2>1. PICK t \in Threads : Count(t)
    BY DEF LimiterNext, ReadClock, Acquire, Tick, Rest, limiterVars
  <2>2. who[t] \in Clients /\ seen[t] = CurrentWindow(windows[who[t]], now[t])
    BY <2>1 DEF Count, LimiterInv, LookUpInv
  <2>3. windows[who[t]] \in Entry \union {Nothing} /\ now[t] \in 0 .. MaxTime
    BY <2>2 DEF LimiterInv, LimiterTypeOK
  <2>4. seen[t] \in Entry
    BY <2>2, <2>3, CurrentWindowEntry
  <2>5. windows' = [windows EXCEPT ![who[t]] = [seen[t] EXCEPT !.count = @ + 1]]
    BY <2>1 DEF Count
  <2>6. c = who[t] /\ windows'[c].start = seen[t].start
    BY <2>2, <2>4, <2>5 DEF LimiterInv, LimiterTypeOK, Entry
  <2> QED
    BY <2>2, <2>3, <2>6, CurrentWindowEntry
<1> QED
  BY <1>1, LimiterInvariant, PTL DEF LimiterSpec, WindowsMoveOn

-----------------------------------------------------------------------------
\* Time goes on while a thread waits, but not past MaxDelay.
LEMMA ClockStep == LimiterInv /\ ClockInv /\ [LimiterNext]_limiterVars => ClockInv'
<1> SUFFICES ASSUME LimiterInv, ClockInv, [LimiterNext]_limiterVars PROVE ClockInv'
  OBVIOUS
<1> USE ParametersAssumption DEF ClockInv, LimiterInv, LimiterTypeOK
<1>1. ASSUME NEW t \in Threads, NEW c \in Clients, ReadClock(t, c) PROVE ClockInv'
  BY <1>1 DEF ReadClock
<1>2. ASSUME NEW t \in Threads, Acquire(t) PROVE ClockInv'
  BY <1>2 DEF Acquire
<1>3. ASSUME NEW t \in Threads, Count(t) PROVE ClockInv'
  <2>1. who[t] \in Clients /\ seen[t] = CurrentWindow(windows[who[t]], now[t])
    BY <1>3 DEF Count, LookUpInv
  <2>2. seen[t] \in Entry /\ seen[t].start <= clock
    <3>1. seen[t] \in Entry
      <4>1. windows[who[t]] \in Entry \union {Nothing} /\ now[t] \in 0 .. MaxTime
        BY <2>1
      <4> QED
        BY <2>1, <4>1, CurrentWindowEntry
    <3>2. now[t] <= clock
      BY <1>3 DEF Count
    <3>3. windows[who[t]] # Nothing => windows[who[t]].start <= clock
      BY <2>1
    <3> QED
      BY <2>1, <3>1, <3>2, <3>3 DEF CurrentWindow, IsOver
  <2>3. windows' = [windows EXCEPT ![who[t]] = [start |-> seen[t].start, count |-> seen[t].count + 1]]
    BY <1>3, <2>2, CountedEntry DEF Count
  <2>4. \A c \in Clients : windows'[c] # Nothing => windows'[c].start <= clock
    BY <2>1, <2>2, <2>3
  <2> QED
    BY <1>3, <2>4 DEF Count
<1>4. CASE Tick
  BY <1>4 DEF Tick, Entry
<1>5. CASE UNCHANGED limiterVars
  BY <1>5 DEF limiterVars
<1> QED
  BY <1>1, <1>2, <1>3, <1>4, <1>5 DEF LimiterNext, Rest

\* What Count stores is the first request of a new window, Window ticks or more after the
\* old one, or one more of the old.
LEMMA NextEntry ==
    ASSUME NEW w \in Entry \union {Nothing}, NEW time \in 0 .. MaxTime
    PROVE  LET e == CurrentWindow(w, time) IN
           \/ e.count = 0 /\ e.start = time /\ (w # Nothing => time >= w.start + Window)
           \/ w # Nothing /\ e = w /\ time < w.start + Window
  BY ParametersAssumption DEF Entry, CurrentWindow, IsOver

\* Who read the clock within a window, and waited at most MaxDelay since, is not later than
\* the window and that delay.
LEMMA AdmittedInTime ==
    ASSUME NEW start \in Nat, NEW read \in Nat, NEW time \in read .. read + MaxDelay,
           start <= time, read < start + Window
    PROVE  time \in start .. start + Window - 1 + MaxDelay
  BY ParametersAssumption

LEMMA Appended ==
    ASSUME NEW S, NEW s \in Seq(S), NEW x \in S
    PROVE  /\ DOMAIN Append(s, x) = DOMAIN s \union {Len(s) + 1}
           /\ \A i \in DOMAIN s : Append(s, x)[i] = s[i]
           /\ Append(s, x)[Len(s) + 1] = x
           /\ Len(s) + 1 \notin DOMAIN s
           /\ \A i \in DOMAIN s : s[i] \in S
  OBVIOUS

\* A history goes on to fit when the next request is counted: one that is let in joins
\* it, and one over the limit leaves nothing to be let in.
LEMMA HistoryGrows ==
    ASSUME NEW s \in Seq(Admission), NEW w \in Entry, NEW e \in Entry, Fits(s, w),
           \/ e.start = w.start /\ e.count = w.count + 1
           \/ e.start >= w.start + Window /\ e.count = 1,
           NEW a \in Admission, a.start = e.start, a.count = e.count,
           a.at \in a.start .. a.start + Window - 1 + MaxDelay
    PROVE  IF e.count > Limit THEN Fits(s, e) ELSE Fits(Append(s, a), e)
<1> USE ParametersAssumption
<1>1. \A i \in DOMAIN s : s[i] \in Admission
  BY Appended
<1>2. ASSUME NEW i \in DOMAIN s
      PROVE  /\ Genuine(s[i], e)
             /\ s[i].start = e.start => s[i].count # e.count
             /\ s[i].start # e.start => s[i].start + Window <= e.start
  <2>1. Genuine(s[i], w) /\ s[i] \in Admission
    BY <1>1 DEF Fits
  <2>2. /\ s[i].start \in Nat /\ s[i].count \in Nat
        /\ w.start \in Nat /\ w.count \in Nat /\ e.start \in Nat /\ e.count \in Nat
    BY <2>1 DEF Admission, Entry
  <2>3. /\ s[i].start = w.start => s[i].count <= w.count
        /\ s[i].start # w.start => s[i].start + Window <= w.start
    BY <2>1 DEF Genuine
  <2>4. /\ s[i].start = e.start => s[i].count < e.count
        /\ s[i].start # e.start => s[i].start + Window <= e.start
    <3> DEFINE x == w.start
               k == w.count
               y == s[i].start
               m == s[i].count
               z == e.start
               n == e.count
    <3>1. /\ x \in Nat /\ k \in Nat /\ y \in Nat /\ m \in Nat /\ z \in Nat /\ n \in Nat
          /\ (z = x /\ n = k + 1) \/ (z >= x + Window /\ n = 1)
          /\ y = x => m <= k
          /\ y # x => y + Window <= x
      BY <2>2, <2>3
    <3> HIDE DEF x, k, y, m, z, n
    <3>2. (y = z => m < n) /\ (y # z => y + Window <= z)
      BY <3>1
    <3> QED
      BY <3>2 DEF y, m, z, n
  <2>5. Genuine(s[i], e)
    <3>1. s[i].count \in 1 .. Limit /\ s[i].at \in s[i].start .. s[i].start + Window - 1 + MaxDelay
      BY <2>1 DEF Genuine
    <3>2. s[i].start = e.start => s[i].count <= e.count
      BY <2>2, <2>4
    <3> QED
      BY <2>4, <3>1, <3>2 DEF Genuine
  <2>6. s[i].start = e.start => s[i].count # e.count
    BY <2>2, <2>4
  <2> QED
    BY <2>4, <2>5, <2>6
<1>3. \A i \in DOMAIN s : Apart(s[i], a) /\ Apart(a, s[i])
  <2> SUFFICES ASSUME NEW i \in DOMAIN s PROVE Apart(s[i], a) /\ Apart(a, s[i])
    OBVIOUS
  <2>1. /\ s[i].start = a.start => s[i].count # a.count
        /\ s[i].start # a.start => s[i].start + Window <= a.start
    BY <1>2
  <2> QED
    BY <2>1 DEF Apart
<1>4. \A i, j \in DOMAIN s : i # j => Apart(s[i], s[j])
  BY DEF Fits
<1>5. \A n \in 1 .. e.count : n <= Limit /\ n # e.count =>
         \E i \in DOMAIN s : s[i].start = e.start /\ s[i].count = n
  <2> SUFFICES ASSUME NEW n \in 1 .. e.count, n <= Limit, n # e.count
               PROVE  \E i \in DOMAIN s : s[i].start = e.start /\ s[i].count = n
    OBVIOUS
  <2>1. n \in 1 .. w.count /\ e.start = w.start
    BY DEF Entry
  <2> QED
    BY <2>1 DEF Fits
<1>6. CASE e.count > Limit
  <2>1. \A i \in DOMAIN s : Genuine(s[i], e)
    BY <1>2
  <2>2. \A n \in 1 .. e.count : n <= Limit => n # e.count
    BY <1>6 DEF Entry
  <2>3. Fits(s, e)
    BY <1>4, <1>5, <2>1, <2>2, Zenon DEF Fits
  <2> QED
    BY <1>6, <2>3
<1>7. CASE ~(e.count > Limit)
  <2> DEFINE h == Append(s, a)
  <2>1. /\ DOMAIN h = DOMAIN s \union {Len(s) + 1}
        /\ \A i \in DOMAIN s : h[i] = s[i]
        /\ h[Len(s) + 1] = a
    BY Appended
  <2> HIDE DEF h
  <2>2. e.count \in 1 .. Limit
    BY <1>7 DEF Entry
  <2>3. Genuine(a, e)
    BY <2>2 DEF Genuine, Entry, Admission
  <2>4. \A i \in DOMAIN h : Genuine(h[i], e)
    BY <1>2, <2>1, <2>3
  <2>5. \A i, j \in DOMAIN h : i # j => Apart(h[i], h[j])
    BY <1>3, <1>4, <2>1
  <2>6. \A n \in 1 .. e.count : n <= Limit =>
           \E i \in DOMAIN h : h[i].start = e.start /\ h[i].count = n
    BY <1>5, <2>1
  <2>7. Fits(h, e)
    BY <2>4, <2>5, <2>6 DEF Fits
  <2> QED
    BY <1>7, <2>7 DEF h
<1> QED
  BY <1>6, <1>7

\* The first window of a client has its first request in it, if any is let in.
LEMMA HistoryBegins ==
    ASSUME NEW e \in Entry, e.count = 1, NEW a \in Admission, a.start = e.start, a.count = e.count,
           a.at \in a.start .. a.start + Window - 1 + MaxDelay
    PROVE  IF e.count > Limit THEN Fits(<<>>, e) ELSE Fits(Append(<<>>, a), e)
<1>1. DOMAIN Append(<<>>, a) = {1} /\ Append(<<>>, a)[1] = a
  OBVIOUS
<1>2. CASE e.count > Limit
  BY <1>2, ParametersAssumption DEF Fits
<1>3. CASE ~(e.count > Limit)
  <2>1. Genuine(a, e)
    BY <1>3, ParametersAssumption DEF Genuine, Entry
  <2> QED
    BY <1>1, <1>3, <2>1 DEF Fits
<1> QED
  BY <1>2, <1>3

\* Only Count writes the history, and what it adds fits.
LEMMA HistoryStep ==
    LimiterInv /\ ClockInv /\ HistoryInv /\ [LimiterNext]_limiterVars => HistoryInv'
<1> SUFFICES ASSUME LimiterInv, ClockInv, HistoryInv, [LimiterNext]_limiterVars PROVE HistoryInv'
  OBVIOUS
<1>1. ASSUME NEW t \in Threads, Count(t) PROVE HistoryInv'
  <2> DEFINE c == who[t]
             w == windows[c]
             e == [start |-> seen[t].start, count |-> seen[t].count + 1]
             a == [at |-> clock, start |-> e.start, count |-> e.count]
  <2>1. c \in Clients /\ seen[t] = CurrentWindow(w, now[t]) /\ phase[t] = "locked"
    BY <1>1 DEF Count, LimiterInv, LookUpInv
  <2>2. /\ w \in Entry \union {Nothing} /\ now[t] \in 0 .. MaxTime /\ clock \in 0 .. MaxTime
        /\ clock \in now[t] .. now[t] + MaxDelay
        /\ w # Nothing => w.start <= clock
        /\ admitted[c] \in Seq(Admission)
        /\ admitted \in [Clients -> Seq(Admission)]
        /\ windows \in [Clients -> Entry \union {Nothing}]
    BY <2>1 DEF LimiterInv, LimiterTypeOK, ClockInv
  <2>3. seen[t] \in Entry
    BY <2>1, <2>2, CurrentWindowEntry
  <2>4. e \in Entry /\ a \in Admission /\ e # Nothing
    BY <2>2, <2>3, NothingIsNoEntry DEF Entry, Admission
  <2>5. \/ e.count = 1 /\ e.start = now[t] /\ (w # Nothing => e.start >= w.start + Window)
        \/ w # Nothing /\ e.start = w.start /\ e.count = w.count + 1 /\ now[t] < w.start + Window
    <3>1. \/ /\ seen[t].count = 0 /\ seen[t].start = now[t]
             /\ w # Nothing => now[t] >= w.start + Window
          \/ w # Nothing /\ seen[t] = w /\ now[t] < w.start + Window
      BY <2>1, <2>2, NextEntry
    <3> HIDE DEF w
    <3> QED
      BY <3>1
  <2>6. a.at \in a.start .. a.start + Window - 1 + MaxDelay
    <3> DEFINE first == e.start
    <3>1. first \in Nat /\ first <= clock /\ now[t] < first + Window
      BY <2>2, <2>4, <2>5, ParametersAssumption DEF Entry
    <3>2. now[t] \in Nat /\ clock \in now[t] .. now[t] + MaxDelay
      BY <2>2, ParametersAssumption
    <3> HIDE DEF first
    <3>3. clock \in first .. first + Window - 1 + MaxDelay
      BY <3>1, <3>2, AdmittedInTime
    <3> QED
      BY <3>3 DEF first
  <2>7. windows' = [windows EXCEPT ![c] = e]
    BY <1>1, <2>3, CountedEntry DEF Count
  <2>8. admitted' = IF e.count > Limit THEN admitted ELSE [admitted EXCEPT ![c] = Append(@, a)]
    BY <1>1, <2>3, CountedEntry DEF Count
  <2>9. a.start = e.start /\ a.count = e.count
    OBVIOUS
  <2> HIDE DEF c, w, e, a
  <2>10. Fits(admitted'[c], e)
    <3>1. CASE w = Nothing
      <4>1. e.count = 1 /\ admitted[c] = <<>>
        BY <2>1, <2>5, <3>1 DEF HistoryInv, w
      <4>2. IF e.count > Limit THEN Fits(<<>>, e) ELSE Fits(Append(<<>>, a), e)
        BY <2>4, <2>6, <2>9, <4>1, HistoryBegins
      <4> QED
        BY <2>1, <2>2, <2>8, <4>1, <4>2
    <3>2. CASE w # Nothing
      <4>1. w \in Entry /\ Fits(admitted[c], w)
        BY <2>1, <2>2, <3>2 DEF HistoryInv, w
      <4>2. IF e.count > Limit THEN Fits(admitted[c], e) ELSE Fits(Append(admitted[c], a), e)
        BY <2>2, <2>4, <2>5, <2>6, <2>9, <3>2, <4>1, HistoryGrows
      <4> QED
        BY <2>1, <2>2, <2>8, <4>2
    <3> QED
      BY <3>1, <3>2
  <2>11. \A d \in Clients \ {c} : windows'[d] = windows[d] /\ admitted'[d] = admitted[d]
    BY <2>2, <2>7, <2>8
  <2>12. windows'[c] = e
    BY <2>1, <2>2, <2>7
  <2> QED
    BY <2>4, <2>10, <2>11, <2>12 DEF HistoryInv
<1>2. CASE UNCHANGED <<windows, admitted>>
  BY <1>2 DEF HistoryInv
<1> QED
  BY <1>1, <1>2 DEF LimiterNext, ReadClock, Acquire, Tick, Rest, limiterVars

\* The inductive invariant of the limiter with its history.
FullInv == LimiterInv /\ ClockInv /\ HistoryInv

\* Every admission was one of the first Limit of its window, in any interleaving of check.
THEOREM LimiterHistory == LimiterSpec => []FullInv
<1>1. LimiterInit => ClockInv /\ HistoryInv
  BY ParametersAssumption DEF LimiterInit, ClockInv, HistoryInv
<1>2. FullInv /\ [LimiterNext]_limiterVars => FullInv'
  BY StepLimiter, ClockStep, HistoryStep DEF FullInv
<1> QED
  BY <1>1, <1>2, InitLimiter, PTL DEF LimiterSpec, FullInv

-----------------------------------------------------------------------------
\* Places in a history are natural numbers, and so finitely many.
LEMMA PlacesFinite ==
    ASSUME NEW s \in Seq(Admission), NEW T \in SUBSET (DOMAIN s)
    PROVE  IsFiniteSet(T) /\ Cardinality(T) \in Nat
<1>1. DOMAIN s = 1 .. Len(s) /\ Len(s) \in Int
  OBVIOUS
<1>2. IsFiniteSet(1 .. Len(s))
  BY <1>1, FS_Interval
<1>3. IsFiniteSet(T)
  BY <1>1, <1>2, FS_Subset
<1> QED
  BY <1>3, FS_CardinalityType

\* A window has let in its first Limit requests, each once, and nobody else.
LEMMA WindowFull ==
    ASSUME NEW s \in Seq(Admission), NEW w \in Entry, Fits(s, w)
    PROVE  Cardinality({i \in DOMAIN s : s[i].start = w.start}) =
              (IF w.count <= Limit THEN w.count ELSE Limit)
<1> DEFINE T == {i \in DOMAIN s : s[i].start = w.start}
           m == IF w.count <= Limit THEN w.count ELSE Limit
           f == [i \in T |-> s[i].count]
<1>1. m \in Nat /\ IsFiniteSet(1 .. m) /\ Cardinality(1 .. m) = m
  <2>1. m \in Nat
    BY ParametersAssumption DEF Entry
  <2> HIDE DEF m
  <2>2. Cardinality(1 .. m) = IF 1 > m THEN 0 ELSE m - 1 + 1
    BY <2>1, FS_Interval
  <2> QED
    BY <2>1, <2>2, FS_Interval
<1>2. \A i \in T : s[i].count \in 1 .. m
  <2> SUFFICES ASSUME NEW i \in T PROVE s[i].count \in 1 .. m
    OBVIOUS
  <2>1. Genuine(s[i], w)
    BY DEF Fits
  <2> QED
    BY <2>1, ParametersAssumption DEF Genuine, Entry
<1>3. \A i, j \in T : s[i].count = s[j].count => i = j
  BY DEF Fits, Apart
<1>4. \A n \in 1 .. m : \E i \in T : s[i].count = n
  BY ParametersAssumption DEF Fits, Entry
<1>5. f \in Bijection(T, 1 .. m)
  <2> HIDE DEF T, m
  <2>1. f \in [T -> 1 .. m]
    BY <1>2
  <2>2. \A i \in T : f[i] = s[i].count
    OBVIOUS
  <2> HIDE DEF f
  <2> QED
    BY <1>3, <1>4, <2>1, <2>2 DEF Bijection, Injection, Surjection, IsInjective
<1>6. IsFiniteSet(T)
  BY PlacesFinite
<1>7. Cardinality(1 .. m) = Cardinality(T)
  <2> HIDE DEF T, m, f
  <2>1. ExistsBijection(T, 1 .. m)
    BY <1>5 DEF ExistsBijection
  <2> QED
    BY <1>6, <2>1, FS_Bijection
<1> QED
  BY <1>1, <1>7

(* However many threads count at once and however old their clock readings    *)
(* are, a window lets in its first Limit requests and no other (check).       *)
THEOREM LimiterFirstLimitAdmitted == LimiterSpec => []FirstLimitAdmitted
<1>1. FullInv => FirstLimitAdmitted
  <2> SUFFICES ASSUME FullInv, NEW c \in Clients, windows[c] # Nothing
               PROVE  Cardinality(InWindow(c, windows[c].start)) =
                         (IF windows[c].count <= Limit THEN windows[c].count ELSE Limit)
    BY DEF FirstLimitAdmitted
  <2>1. /\ admitted[c] \in Seq(Admission) /\ windows[c] \in Entry
        /\ Fits(admitted[c], windows[c])
    BY DEF FullInv, LimiterInv, LimiterTypeOK, HistoryInv
  <2> QED
    BY <2>1, WindowFull DEF InWindow
<1> QED
  BY <1>1, LimiterHistory, PTL

-----------------------------------------------------------------------------
\* Starts of windows that do not overlap have different quotients by Window.
LEMMA Quotients ==
    ASSUME NEW x \in Nat, NEW y \in Nat, x + Window <= y
    PROVE  x \div Window < y \div Window
  BY ParametersAssumption

LEMMA QuotientBound ==
    ASSUME NEW x \in Nat, NEW y \in Nat, x <= y
    PROVE  x \div Window \in Nat /\ x \div Window <= y \div Window
  BY ParametersAssumption

\* A window that reaches into the Window ticks from b started at most last ticks ago.
LEMMA StartedAgo ==
    ASSUME NEW b \in Nat, NEW start \in Nat, NEW at \in b .. b + Window - 1,
           at \in start .. start + Window - 1 + MaxDelay
    PROVE  LET ago == start + (Window - 1 + MaxDelay) - b IN
           ago \in Nat /\ ago <= 2 * Window - 2 + MaxDelay
  BY ParametersAssumption

\* Window ticks from b hold at most Limit admissions of each window that reaches into
\* them; counted from the earliest start that does, those windows' starts have different
\* quotients by Window, of which there are MostWindows.
LEMMA BurstSize ==
    ASSUME NEW s \in Seq(Admission), NEW w, NEW b \in Nat, Fits(s, w)
    PROVE  Cardinality({i \in DOMAIN s : s[i].at \in b .. b + Window - 1}) <= MostWindows * Limit
<1> DEFINE T == {i \in DOMAIN s : s[i].at \in b .. b + Window - 1}
           last == 2 * Window - 2 + MaxDelay
           ago(i) == s[i].start + (Window - 1 + MaxDelay) - b
           f == [i \in T |-> <<ago(i) \div Window, s[i].count>>]
           Q == last \div Window
           Places == (0 .. Q) \X (1 .. Limit)
<1>1. \A i \in T : ago(i) \in Nat /\ ago(i) <= last /\ s[i].count \in 1 .. Limit
  <2> SUFFICES ASSUME NEW i \in T
               PROVE  ago(i) \in Nat /\ ago(i) <= last /\ s[i].count \in 1 .. Limit
    OBVIOUS
  <2>1. s[i] \in Admission /\ Genuine(s[i], w)
    BY Appended DEF Fits
  <2>2. s[i].start \in Nat /\ s[i].at \in Nat
    BY <2>1 DEF Admission
  <2>3. s[i].at \in b .. b + Window - 1 /\ s[i].count \in 1 .. Limit
        /\ s[i].at \in s[i].start .. s[i].start + Window - 1 + MaxDelay
    BY <2>1 DEF Genuine
  <2> QED
    BY <2>2, <2>3, StartedAgo
<1>2. last \in Nat
  BY ParametersAssumption
<1>3. ASSUME NEW i \in T, NEW j \in T, i # j, s[i].count = s[j].count
      PROVE  ago(i) \div Window # ago(j) \div Window
  <2>1. s[i] \in Admission /\ s[j] \in Admission /\ Apart(s[i], s[j])
    BY <1>3, Appended DEF Fits
  <2>2. s[i].start \in Nat /\ s[j].start \in Nat
    BY <2>1 DEF Admission
  <2>3. s[i].start + Window <= s[j].start \/ s[j].start + Window <= s[i].start
    BY <1>3, <2>1 DEF Apart
  <2>4. ago(i) + Window <= ago(j) \/ ago(j) + Window <= ago(i)
    BY <2>2, <2>3, ParametersAssumption
  <2>5. ago(i) \in Nat /\ ago(j) \in Nat
    BY <1>1
  <2> HIDE DEF ago
  <2>6. /\ ago(i) + Window <= ago(j) => ago(i) \div Window < ago(j) \div Window
        /\ ago(j) + Window <= ago(i) => ago(j) \div Window < ago(i) \div Window
    BY <2>5, Quotients
  <2>7. ago(i) \div Window \in Nat /\ ago(j) \div Window \in Nat
    BY <2>5, QuotientBound
  <2> QED
    BY <2>4, <2>6, <2>7
<1>4. \A i \in T : ago(i) \div Window \in 0 .. Q
  <2> SUFFICES ASSUME NEW i \in T PROVE ago(i) \div Window \in 0 .. Q
    OBVIOUS
  <2>1. ago(i) \in Nat /\ ago(i) <= last
    BY <1>1
  <2> HIDE DEF ago, last
  <2>2. ago(i) \div Window \in Nat /\ ago(i) \div Window <= last \div Window
    BY <1>2, <2>1, QuotientBound
  <2>3. last \div Window \in Nat
    BY <1>2, QuotientBound
  <2> QED
    BY <2>2, <2>3
<1>5. Q \in Nat
  <2> HIDE DEF last
  <2> QED
    BY <1>2, QuotientBound
<1>6. f \in Injection(T, Places)
  <2>1. \A i \in T : <<ago(i) \div Window, s[i].count>> \in Places
    <3> HIDE DEF ago, T, Q
    <3> QED
      BY <1>1, <1>4
  <2>2. \A i, j \in T : f[i] = f[j] => i = j
    <3> HIDE DEF ago, T
    <3> QED
      BY <1>3
  <2>3. DOMAIN f = T /\ f \in [T -> Places]
    <3> HIDE DEF ago, T, Places
    <3> QED
      BY <2>1
  <2> HIDE DEF f, T, Places
  <2> QED
    BY <2>2, <2>3 DEF Injection, IsInjective
<1>7. IsFiniteSet(Places) /\ Cardinality(Places) = (Q + 1) * Limit
  <2> HIDE DEF Q
  <2>1. IsFiniteSet(0 .. Q) /\ Cardinality(0 .. Q) = Q + 1
    BY <1>5, FS_Interval
  <2>2. IsFiniteSet(1 .. Limit) /\ Cardinality(1 .. Limit) = Limit
    BY ParametersAssumption, FS_Interval
  <2>3. /\ IsFiniteSet((0 .. Q) \X (1 .. Limit))
        /\ Cardinality((0 .. Q) \X (1 .. Limit)) = Cardinality(0 .. Q) * Cardinality(1 .. Limit)
    BY <2>1, <2>2, FS_Product
  <2> QED
    BY <2>1, <2>2, <2>3
<1>8. Cardinality(T) <= Cardinality(Places)
  <2> HIDE DEF f, T, Places
  <2> QED
    BY <1>6, <1>7, FS_Injection
<1>9. Q + 1 = MostWindows
  BY <1>5 DEF MostWindows
<1> HIDE DEF Q, Places
<1> QED
  BY <1>7, <1>8, <1>9

(* No Window ticks in a row see more admissions of a client than the windows  *)
(* that can meet them let in, whatever the limit, the window and the delay    *)
(* between a thread's clock reading and its turn (check).                     *)
THEOREM LimiterBurstBounded == LimiterSpec => []BurstBounded
<1>1. FullInv => BurstBounded
  <2> SUFFICES ASSUME FullInv, NEW c \in Clients, NEW b \in 0 .. MaxTime
               PROVE  Cardinality(Since(c, b)) <= MostWindows * Limit
    BY DEF BurstBounded
  <2>1. admitted[c] \in Seq(Admission) /\ b \in Nat
    BY ParametersAssumption DEF FullInv, LimiterInv, LimiterTypeOK
  <2>2. \E w : Fits(admitted[c], w)
    <3>1. CASE windows[c] = Nothing
      <4>1. admitted[c] = <<>>
        BY <3>1 DEF FullInv, HistoryInv
      <4>2. Fits(<<>>, [start |-> 0, count |-> 0])
        BY DEF Fits
      <4> QED
        BY <4>1, <4>2
    <3>2. CASE windows[c] # Nothing
      BY <3>2 DEF FullInv, HistoryInv
    <3> QED
      BY <3>1, <3>2
  <2> QED
    BY <2>1, <2>2, BurstSize DEF Since
<1> QED
  BY <1>1, LimiterHistory, PTL
=============================================================================
