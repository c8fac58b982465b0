----------------------------- MODULE RateLimiter -----------------------------
(***************************************************************************)
(* The limiter in front of the upload endpoint (rate_limits.py): a fixed   *)
(* window per caller that starts with the caller's first request after the *)
(* last one has ended.  Its entries live in one server process; a refusal  *)
(* changes nothing.                                                        *)
(***************************************************************************)
EXTENDS Integers, Sequences

CONSTANTS
  Callers,       \* client hosts
  Limit, Window, \* requests per window, length of a window
  MaxTick,       \* bound of the clock
  NoEntry

ASSUME LimitAssumption == Limit \in Nat \ {0} /\ Window \in Nat \ {0}
ASSUME MaxTickAssumption == MaxTick \in Nat
ASSUME NoEntryAssumption == NoEntry \notin [start: Nat, count: Nat]

VARIABLES
  time,
  entries,  \* _entries: the window each caller is in and the requests it made in it
  grants    \* history: the requests allowed since the process started, each
            \* with its time and the start of its window

limiterVars == <<time, entries, grants>>

LimiterInit ==
  /\ time = 0
  /\ entries = [k \in Callers |-> NoEntry]
  /\ grants = [k \in Callers |-> <<>>]

\* Mutant of Current: an expired window is emptied but keeps its old start.
CurrentSticky(k) ==
  IF entries[k] = NoEntry THEN [start |-> time, count |-> 0]
  ELSE IF time >= entries[k].start + Window THEN [start |-> entries[k].start, count |-> 0]
  ELSE entries[k]

\* The window the next request of k falls in, and how many were allowed in it.
Current(k) ==
  IF entries[k] = NoEntry \/ time >= entries[k].start + Window
    THEN [start |-> time, count |-> 0]
    ELSE entries[k]

Allowed(k) == Current(k).count < Limit

Allow(k) ==
  /\ Allowed(k)
  /\ entries' = [entries EXCEPT ![k] = [start |-> Current(k).start,
                                        count |-> Current(k).count + 1]]
  /\ grants' = [grants EXCEPT ![k] = Append(@, [at |-> time, start |-> Current(k).start])]
  /\ UNCHANGED time

\* A new process knows nobody: what was allowed before it is not counted.
Restart ==
  /\ entries' = [k \in Callers |-> NoEntry]
  /\ grants' = [k \in Callers |-> <<>>]
  /\ UNCHANGED time

TimePasses == time < MaxTick /\ time' = time + 1 /\ UNCHANGED <<entries, grants>>

LimiterNext == (\E k \in Callers : Allow(k)) \/ Restart \/ TimePasses

LimiterSpec == LimiterInit /\ [][LimiterNext]_limiterVars

-----------------------------------------------------------------------------
LimiterTypeOK ==
  /\ time \in Nat
  /\ entries \in [Callers -> [start: Nat, count: 1..Limit] \cup {NoEntry}]
  /\ grants \in [Callers -> Seq([at: Nat, start: Nat])]

\* However a caller places its requests around the end of a window, at most
\* 2 * Limit - 1 of them are allowed within one length of a window (allow).
BurstsAreBounded ==
  \A k \in Callers : \A i, j \in 1..Len(grants[k]) :
    j - i >= 2 * Limit - 1 => grants[k][j].at >= grants[k][i].at + Window

\* And who is refused has had Limit requests within that length (allow).
RefusalsAreEarned ==
  \A k \in Callers : ~Allowed(k) =>
    /\ Len(grants[k]) >= Limit
    /\ \A i \in 1..Len(grants[k]) :
         i > Len(grants[k]) - Limit => time < grants[k][i].at + Window
=============================================================================
