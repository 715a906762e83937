----------------------------- MODULE RateLimiter -----------------------------
(***************************************************************************)
(* FixedWindowRateLimiter.check (SEC-040) as the worker threads of one      *)
(* process run it.  A thread reads the monotonic clock before it asks for   *)
(* the lock, so its reading may be old by the time it is used; inside the   *)
(* lock it looks its counter up, and stores it again.  Time is in whole     *)
(* ticks.  The state lives and dies with the process.                       *)
(***************************************************************************)
EXTENDS Naturals, FiniteSets, Sequences

CONSTANTS
    Threads,    \* worker threads
    Clients,    \* (bucket, key) pairs: request path and client address
    Limit,      \* auth_rate_limit_per_minute
    Window,     \* _WINDOW_SECONDS
    MaxDelay,   \* ticks that may pass between reading the clock and the end
    MaxTime,    \* bounds the clock
    MaxCount,   \* bounds the requests of a client in one window
    Nothing     \* no client, no lock holder, no counter

ASSUME ParametersAssumption ==
    /\ Limit \in Nat /\ Window \in Nat \ {0} /\ MaxDelay \in Nat /\ MaxTime \in Nat
    /\ MaxCount \in Nat
    /\ Nothing \notin Threads \union Clients

VARIABLES
    clock,      \* time.monotonic()
    lock,       \* holder of self._lock
    windows,    \* self._windows: absent, or the window's start and count
    phase, who, now,    \* each thread's step, client and clock reading
    seen,       \* the entry that a thread has looked up under the lock
    admitted    \* history: when, in which window and as its which request each client was let in

limiterVars == <<clock, lock, windows, phase, who, now, seen, admitted>>

Entry == [start : 0 .. MaxTime, count : Nat]

\* The absence of a counter is no counter.
ASSUME NothingIsNoEntry == Nothing \notin Entry

Admission == [at : 0 .. MaxTime, start : 0 .. MaxTime, count : Nat]

LimiterTypeOK ==
    /\ clock \in 0 .. MaxTime
    /\ lock \in Threads \union {Nothing}
    /\ windows \in [Clients -> Entry \union {Nothing}]
    /\ phase \in [Threads -> {"idle", "timed", "locked"}]
    /\ who \in [Threads -> Clients \union {Nothing}]
    /\ now \in [Threads -> 0 .. MaxTime]
    /\ seen \in [Threads -> Entry \union {Nothing}]
    /\ admitted \in [Clients -> Seq(Admission)]

LimiterInit ==
    /\ clock = 0
    /\ lock = Nothing
    /\ windows = [c \in Clients |-> Nothing]
    /\ phase = [t \in Threads |-> "idle"]
    /\ who = [t \in Threads |-> Nothing]
    /\ now = [t \in Threads |-> 0]
    /\ seen = [t \in Threads |-> Nothing]
    /\ admitted = [c \in Clients |-> <<>>]

-----------------------------------------------------------------------------
\* Mutant: a window is over one tick early.
IsOver_Early(entry, time) == entry = Nothing \/ time >= entry.start + Window - 1

IsOver(entry, time) == entry = Nothing \/ time >= entry.start + Window

\* now = time.monotonic()
ReadClock(t, c) ==
    /\ phase[t] = "idle"
    /\ ~IsOver(windows[c], clock) => windows[c].count < MaxCount
    /\ phase' = [phase EXCEPT ![t] = "timed"]
    /\ who' = [who EXCEPT ![t] = c]
    /\ now' = [now EXCEPT ![t] = clock]
    /\ UNCHANGED <<clock, lock, windows, seen, admitted>>

\* Mutant: the end of the window is stored instead of its start.
CurrentWindow_End(entry, time) ==
    IF IsOver(entry, time) THEN [start |-> time + Window, count |-> 0] ELSE entry

\* The window this request falls in: a new one if there is none or it is over.
CurrentWindow(entry, time) ==
    IF IsOver(entry, time) THEN [start |-> time, count |-> 0] ELSE entry

\* Mutant: no lock.
Acquire_Unlocked(t) ==
    /\ phase[t] = "timed"
    /\ seen' = [seen EXCEPT ![t] = CurrentWindow(windows[who[t]], now[t])]
    /\ phase' = [phase EXCEPT ![t] = "locked"]
    /\ UNCHANGED <<clock, lock, windows, who, now, admitted>>

\* with self._lock: the thread gets the lock and looks its window up.
Acquire(t) ==
    /\ phase[t] = "timed"
    /\ lock = Nothing
    /\ lock' = t
    /\ seen' = [seen EXCEPT ![t] = CurrentWindow(windows[who[t]], now[t])]
    /\ phase' = [phase EXCEPT ![t] = "locked"]
    /\ UNCHANGED <<clock, windows, who, now, admitted>>

\* Mutant: the limit is compared before the request is counted.
Count_After(t) ==
    /\ phase[t] = "locked"
    /\ lock' = Nothing
    /\ LET c == who[t]
           entry == [seen[t] EXCEPT !.count = @ + 1]
       IN  /\ windows' = [windows EXCEPT ![c] = entry]
           /\ admitted' =
                 IF seen[t].count > Limit THEN admitted
                 ELSE [admitted EXCEPT ![c] = Append(@, [at |-> clock, start |-> entry.start,
                                                         count |-> entry.count])]
    /\ phase' = [phase EXCEPT ![t] = "idle"]
    /\ who' = [who EXCEPT ![t] = Nothing]
    /\ now' = [now EXCEPT ![t] = 0]
    /\ seen' = [seen EXCEPT ![t] = Nothing]
    /\ UNCHANGED clock

\* Count the request, whether or not it is let in; store; unlock.
Count(t) ==
    /\ phase[t] = "locked"
    /\ lock' = Nothing
    /\ LET c == who[t]
           entry == [seen[t] EXCEPT !.count = @ + 1]
       IN  /\ windows' = [windows EXCEPT ![c] = entry]
           /\ admitted' =
                 IF entry.count > Limit THEN admitted
                 ELSE [admitted EXCEPT ![c] = Append(@, [at |-> clock, start |-> entry.start,
                                                         count |-> entry.count])]
    /\ phase' = [phase EXCEPT ![t] = "idle"]
    /\ who' = [who EXCEPT ![t] = Nothing]
    /\ now' = [now EXCEPT ![t] = 0]
    /\ seen' = [seen EXCEPT ![t] = Nothing]
    /\ UNCHANGED clock

Tick ==
    /\ clock < MaxTime
    /\ \A t \in Threads : phase[t] # "idle" => clock < now[t] + MaxDelay
    /\ clock' = clock + 1
    /\ UNCHANGED <<lock, windows, phase, who, now, seen, admitted>>

\* The bounded clock has run out.
Rest == clock = MaxTime /\ UNCHANGED limiterVars

LimiterNext ==
    \/ \E t \in Threads : (\E c \in Clients : ReadClock(t, c)) \/ Acquire(t) \/ Count(t)
    \/ Tick
    \/ Rest

LimiterSpec == LimiterInit /\ [][LimiterNext]_limiterVars

-----------------------------------------------------------------------------
(* Correctness. *)

\* The admissions of c that its window starting at s let in, by their places.
InWindow(c, s) == {i \in DOMAIN admitted[c] : admitted[c][i].start = s}

\* Admissions of c in the Window ticks that begin at time s.
Since(c, s) == {i \in DOMAIN admitted[c] : admitted[c][i].at \in s .. s + Window - 1}

(* "Raises once key has made more than limit requests within the current     *)
(* window": the first Limit requests of a window are let in and no other is, *)
(* however many threads count at once and however old their readings are.    *)
FirstLimitAdmitted ==
    \A c \in Clients : windows[c] # Nothing =>
        Cardinality(InWindow(c, windows[c].start)) =
            (IF windows[c].count <= Limit THEN windows[c].count ELSE Limit)

(* Windows of one client never overlap and never go back, although a thread  *)
(* may bring an old clock reading to a newer window.                         *)
WindowsMoveOn ==
    [][\A c \in Clients : windows[c] # Nothing /\ windows'[c].start # windows[c].start
          => windows'[c].start >= windows[c].start + Window]_limiterVars

(* What a fixed window promises over any Window consecutive ticks: bursts at *)
(* the end of one window and at the start of the next.  A thread held up     *)
(* between its reading and the lock is let into a window that is over by     *)
(* then: the admissions of a window that starts at s lie in                  *)
(* s .. s + Window - 1 + MaxDelay, so that a third window can meet the other *)
(* two, and no more than MostWindows do.                                     *)
MostWindows == 1 + (2 * Window - 2 + MaxDelay) \div Window

BurstBounded ==
    \A c \in Clients : \A s \in 0 .. MaxTime : Cardinality(Since(c, s)) <= MostWindows * Limit
=============================================================================
