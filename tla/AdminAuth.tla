------------------------------- MODULE AdminAuth -------------------------------
(***************************************************************************)
(* The guard of the control API (server/auth.ts): a bearer token compared  *)
(* on every call, and a bounded tracker that sheds a source after too many *)
(* failures in its window.                                                 *)
(***************************************************************************)
EXTENDS Integers, Sequences, FiniteSets, SequencesExt

CONSTANTS
  Sources,        \* ip addresses
  Threshold,      \* FAILED_AUTH_THRESHOLD
  FailureWindow,  \* FAILED_AUTH_WINDOW_MS, in ticks
  MaxKeys,        \* FAILED_AUTH_MAX_KEYS
  MaxClock,       \* bound: ticks
  MaxCalls        \* bound: calls

AdminAuthAssumption ==
  /\ {Threshold, MaxKeys} \subseteq Nat \ {0}
  /\ {FailureWindow, MaxClock, MaxCalls} \subseteq Nat

VARIABLES
  clock,
  windows,  \* the tracked sources, oldest entry first: [ip, count, start]
  answers   \* history: the calls, in order: [ip, right, status, at, forgot], the
            \* last the sources whose entries the call removed

adminVars == <<clock, windows, answers>>

\* Where the source is in the table, or 0.
Place(ip) == SelectInSeq(windows, LAMBDA w : w.ip = ip)
Tracked(ip) == Place(ip) # 0
Entry(ip) == windows[Place(ip)]
Without(ip) == IF Tracked(ip) THEN RemoveAt(windows, Place(ip)) ELSE windows
Lapsed(w) == clock - w.start > FailureWindow

\* isBlocked
IsBlocked(ip) == Tracked(ip) /\ ~Lapsed(Entry(ip)) /\ Entry(ip).count >= Threshold

Answered(ip, right, status, forgot) ==
  answers' = Append(answers, [ip |-> ip, right |-> right, status |-> status, at |-> clock,
                              forgot |-> forgot])

Shed(ip, right) ==
  /\ IsBlocked(ip)
  /\ Answered(ip, right, 429, {})
  /\ UNCHANGED windows

Admit(ip) ==
  /\ ~IsBlocked(ip)
  /\ windows' = Without(ip)
  /\ Answered(ip, TRUE, 200, {ip})

\* Mutant: a failure opens its source's window anew.
CountedSlid(ip) == [ip |-> ip, count |-> 1, start |-> clock]

\* The entry of recordFailure: a lapsed window starts anew, an open one goes on.
Counted(ip) ==
  IF Tracked(ip) /\ ~Lapsed(Entry(ip))
    THEN [Entry(ip) EXCEPT !.count = @ + 1]
    ELSE [ip |-> ip, count |-> 1, start |-> clock]

\* recordFailure, to the end of the insertion order, and evictIfNeeded.
Refuse(ip) ==
  LET all == Append(Without(ip), Counted(ip))
      extra == IF Len(all) > MaxKeys THEN Len(all) - MaxKeys ELSE 0
  IN /\ ~IsBlocked(ip)
     /\ windows' = SubSeq(all, extra + 1, Len(all))
     /\ Answered(ip, FALSE, 401, {all[i].ip : i \in 1..extra})

\* The hook on a guarded route; public routes and preflights pass it by.
CallApi(ip) ==
  /\ Len(answers) < MaxCalls
  /\ \/ \E right \in BOOLEAN : Shed(ip, right)
     \/ Admit(ip)
     \/ Refuse(ip)
  /\ UNCHANGED clock

Elapse == clock < MaxClock /\ clock' = clock + 1 /\ UNCHANGED <<windows, answers>>

AdminInit == clock = 0 /\ windows = <<>> /\ answers = <<>>
AdminNext == (\E ip \in Sources : CallApi(ip)) \/ Elapse
AdminSpec == AdminInit /\ [][AdminNext]_adminVars

-----------------------------------------------------------------------------
\* A source is shed only for Threshold failures of its own within a window, none
\* of them forgotten, and never fails more than twice that, less one, in any
\* stretch of a window while it is tracked: a window begins with a failure and
\* does not slide (server/auth.ts:25-26, 59-97).
FailuresOf(ip, from, to) ==
  {i \in from..to : answers[i].ip = ip /\ answers[i].status = 401}
Remembered(ip, from, to) == \A i \in from..to : ip \notin answers[i].forgot
ShedsRightly ==
  \A i \in DOMAIN answers : LET ip == answers[i].ip IN
    /\ answers[i].status = 429 =>
         \E j \in 1..(i - 1) :
           /\ answers[i].at - answers[j].at <= FailureWindow
           /\ Cardinality(FailuresOf(ip, j, i - 1)) = Threshold
           /\ Remembered(ip, j, i - 1)
    /\ \A j \in 1..i :
         answers[i].at - answers[j].at <= FailureWindow /\ Remembered(ip, j, i) =>
           Cardinality(FailuresOf(ip, j, i)) < 2 * Threshold
=============================================================================
