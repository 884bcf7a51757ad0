------------------------------ MODULE Stopwatch ------------------------------
(***************************************************************************)
(* ppp::diagnostics::Stopwatch (src/ppp/diagnostics/Stopwatch.cpp).  Every *)
(* operation holds syncobj_, so each is one atomic step whichever thread   *)
(* calls it.  A time_point is a natural number of clock ticks; the default *)
(* constructed time_point, the code's null_, is the clock's epoch 0, and   *)
(* high_resolution_clock::now() is the variable now, which only grows.     *)
(***************************************************************************)
EXTENDS Integers

CONSTANT MaxTime    \* the last clock value explored

ASSUME MaxTime \in Nat /\ MaxTime >= 2

VARIABLES
    start,  \* start_
    stop,   \* stop_
    now,    \* high_resolution_clock::now()
    op      \* ghost: the last operation called

vars == <<start, stop, now, op>>

Null == 0   \* std::chrono::high_resolution_clock::time_point()

\* ElapsedTimed: a null stop point reads the clock, then stop - start.
ElapsedTimed(s, e) == (IF e = Null THEN now ELSE e) - s

\* ElapsedMilliseconds/ElapsedTicks/Elapsed under the lock.
Elapsed == ElapsedTimed(start, stop)

\* IsRunning: started and not stopped.
IsRunning == start # Null /\ stop = Null

-----------------------------------------------------------------------------
(* Mutated forms of the actions below. *)

\* Restart that forgets to clear stop_.
RestartKeepingStop ==
    /\ start' = now
    /\ op' = "Restart"
    /\ UNCHANGED <<stop, now>>

\* Start without the start_ == null_ check: every Start restarts the interval.
StartAlwaysNow ==
    /\ stop' = Null
    /\ start' = now
    /\ op' = "Start"
    /\ UNCHANGED now

\* Stop without the start_ == null_ branch: the clock is always recorded.
StopAlwaysRecords ==
    /\ stop' = now
    /\ op' = "Stop"
    /\ UNCHANGED <<start, now>>

-----------------------------------------------------------------------------

Init ==
    /\ start = Null
    /\ stop = Null
    /\ now = 1
    /\ op = "none"

\* Start: clear stop_, and take start_ from the clock only if it is null.
Start ==
    /\ stop' = Null
    /\ start' = IF start = Null THEN now ELSE start
    /\ op' = "Start"
    /\ UNCHANGED now

\* Stop: a stopwatch never started stays null; otherwise stop_ is the clock.
Stop ==
    /\ \/ /\ start = Null
          /\ start' = Null
          /\ stop' = Null
       \/ /\ start # Null
          /\ stop' = now
          /\ UNCHANGED start
    /\ op' = "Stop"
    /\ UNCHANGED now

\* Reset: both points null.
Reset ==
    /\ start' = Null
    /\ stop' = Null
    /\ op' = "Reset"
    /\ UNCHANGED now

\* Restart: start_ from the clock, stop_ null.
Restart ==
    /\ start' = now
    /\ stop' = Null
    /\ op' = "Restart"
    /\ UNCHANGED now

\* Environment: the clock advances.
Tick ==
    /\ now < MaxTime
    /\ now' = now + 1
    /\ op' = "Tick"
    /\ UNCHANGED <<start, stop>>

Next == Start \/ Stop \/ Reset \/ Restart \/ Tick

Spec == Init /\ [][Next]_vars

-----------------------------------------------------------------------------
(* Properties *)

TypeOK ==
    /\ now \in 1..MaxTime
    /\ start \in 0..now
    /\ stop \in 0..now
    /\ stop # Null => start # Null    \* stop_ is only ever set on a started stopwatch
    /\ op \in {"none", "Start", "Stop", "Reset", "Restart", "Tick"}

\* Once started, whatever order Start, Stop, Restart and Reset are called in,
\* the stop point never lies before the start point: Elapsed is never negative.
ElapsedNeverNegative ==
    start # Null => Elapsed >= 0

\* While the stopwatch has a start point, no call other than Reset or Restart
\* makes the elapsed time go down: Start after Stop resumes, a second Stop only
\* moves the stop point forward.
ElapsedMonotonic ==
    [][start # Null /\ op' \notin {"Reset", "Restart"} => Elapsed' >= Elapsed]_vars

=============================================================================
