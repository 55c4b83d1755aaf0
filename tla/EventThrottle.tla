---------------------------- MODULE EventThrottle ----------------------------
(***************************************************************************)
(* cmd/core/telemetry/events: the Throttler that collapses repeated        *)
(* violations.  Record runs in the ingest daemon's one consumer goroutine; *)
(* every window has a time.AfterFunc timer whose callback, closeWindow,    *)
(* runs in a goroutine of its own and may be waiting for mu while Record   *)
(* evicts or reopens the window.  Rows are emitted after mu is released,   *)
(* through tryEmit, which reads the clock before it takes rateMu.          *)
(*                                                                         *)
(* Durations are abstracted: an armed timer may fire at any time, and the  *)
(* clock ticks in whole seconds, as tryEmit reads it.                      *)
(***************************************************************************)
EXTENDS Naturals, Sequences, FiniteSetsExt

CONSTANTS
  Agents, Signatures,  \* what violations are about
  PerAgentCap,         \* perAgentCap
  GlobalPerSecond,     \* globalPerSecond, 0 for no ceiling
  MaxRecords,          \* bound: violations recorded
  MaxSecond            \* bound: seconds that pass

ASSUME ThrottleAssumption ==
  PerAgentCap \in Nat \ {0} /\ GlobalPerSecond \in Nat /\ MaxRecords \in Nat /\ MaxSecond \in Nat

Keys == Agents \X Signatures

VARIABLES
  win,      \* byAgent: open window of (agent, signature) -> [id, count]
  lru,      \* lruLists: agent -> signatures, most recently used first
  armed,    \* running timers: [key, id]
  fired,    \* closeWindow callbacks waiting for mu: [key, id]
  rec,      \* rows Record still has to emit, in order
  closers,  \* summaries closeWindow callbacks still have to emit
  rate,     \* rateSecond and rateCount: [second, count]
  now,      \* the wall clock's second
  droppedRows, \* the dropped counter
  opened,   \* history: windows opened per key
  recorded, \* history: violations recorded per key
  rows,     \* history: rows the sink got per key
  told,     \* history: occurrences those rows tell for the first time, per key
  lost      \* history: occurrences in rows the ceiling dropped, per key

windowVars == <<win, lru, armed, fired>>
emitVars   == <<rate, droppedRows, rows, told, lost>>
throttleVars == <<windowVars, rec, closers, now, opened, recorded, emitVars>>

Positive == Nat \ {0}
Timer == [key : Keys, id : Positive]
\* A row on its way to the sink; fresh is how many occurrences it tells first, and
\* second what its goroutine read from the clock.
NotRead == MaxSecond + 1
EventRow == [key : Keys, id : Positive, fresh : Positive, second : 0..NotRead]

ThrottleTypeOK ==
  /\ DOMAIN win \subseteq Keys /\ win \in [DOMAIN win -> [id : Positive, count : Positive]]
  /\ lru \in [Agents -> Seq(Signatures)]
  /\ armed \subseteq Timer /\ fired \subseteq Timer
  /\ rec \in Seq(EventRow) /\ Len(rec) <= 2 /\ closers \subseteq EventRow
  /\ rate \in [second : 0..MaxSecond, count : Nat]
  /\ now \in 0..MaxSecond /\ droppedRows \in Nat
  /\ {opened, recorded, rows, told, lost} \subseteq [Keys -> Nat]

ThrottleInit ==
  /\ win = [k \in {} |-> 0] /\ lru = [a \in Agents |-> <<>>]
  /\ armed = {} /\ fired = {} /\ rec = <<>> /\ closers = {}
  /\ rate = [second |-> 0, count |-> 0] /\ now = 0 /\ droppedRows = 0
  /\ opened = [k \in Keys |-> 0] /\ recorded = [k \in Keys |-> 0]
  /\ rows = [k \in Keys |-> 0] /\ told = [k \in Keys |-> 0] /\ lost = [k \in Keys |-> 0]

RowOf(k, id, fresh) == [key |-> k, id |-> id, fresh |-> fresh, second |-> NotRead]
\* Every closing window has a summary (a plausible bug, for a mutant only).
SummaryAlways(k) == <<RowOf(k, win[k].id, win[k].count - 1)>>

\* A closing window has a summary only if something beyond its first row arrived.
Summary(k) == IF win[k].count > 1 THEN <<RowOf(k, win[k].id, win[k].count - 1)>> ELSE <<>>
SeqRange(list) == {list[i] : i \in DOMAIN list}
Without(list, sig) ==
  LET at == CHOOSE i \in DOMAIN list : list[i] = sig
  IN  SubSeq(list, 1, at - 1) \o SubSeq(list, at + 1, Len(list))
Oldest(a) == <<a, lru[a][Len(lru[a])]>>
\* Violations reach Record one at a time; MaxRecords ends the run.
CanRecord == rec = <<>> /\ MapThenSumSet(LAMBDA k : recorded[k], Keys) < MaxRecords

\* A first occurrence opens a window in front of those kept.
Opens(k, kept, list) ==
  /\ CanRecord /\ k \notin DOMAIN win
  /\ opened' = [opened EXCEPT ![k] = @ + 1]
  /\ win' = [j \in kept \cup {k} |-> IF j = k THEN [id |-> opened'[k], count |-> 1] ELSE win[j]]
  /\ lru' = [lru EXCEPT ![k[1]] = <<k[2]>> \o list]
  /\ recorded' = [recorded EXCEPT ![k] = @ + 1]
  /\ UNCHANGED <<fired, closers, now, emitVars>>
-----------------------------------------------------------------------------
(* Plausible bugs, each a changed form of a definition below; no run uses them, the *)
(* manifest's mutants do.                                                          *)

\* A repeated occurrence is emitted as well as counted.
CountRepeatEmits(k) ==
  /\ CanRecord /\ k \in DOMAIN win
  /\ win' = [win EXCEPT ![k].count = @ + 1]
  /\ lru' = [lru EXCEPT ![k[1]] = <<k[2]>> \o Without(@, k[2])]
  /\ recorded' = [recorded EXCEPT ![k] = @ + 1]
  /\ rec' = <<RowOf(k, win[k].id, 1)>>
  /\ UNCHANGED <<armed, fired, closers, now, opened, emitVars>>

\* An evicted window takes its count with it.
EvictSilently(k) ==
  /\ Len(lru[k[1]]) = PerAgentCap
  /\ LET old == Oldest(k[1]) IN
     /\ Opens(k, DOMAIN win \ {old}, SubSeq(lru[k[1]], 1, PerAgentCap - 1))
     /\ armed' = (armed \ {[key |-> old, id |-> win[old].id]}) \cup {[key |-> k, id |-> opened'[k]]}
     /\ rec' = <<RowOf(k, opened'[k], 1)>>

\* The timer that is stopped is the new window's.
EvictStopsNew(k) ==
  /\ Len(lru[k[1]]) = PerAgentCap
  /\ LET old == Oldest(k[1]) IN
     /\ Opens(k, DOMAIN win \ {old}, SubSeq(lru[k[1]], 1, PerAgentCap - 1))
     /\ armed' = armed
     /\ rec' = <<RowOf(k, opened'[k], 1)>> \o Summary(old)

\* Closing stops at the map and forgets the list.
CloseKeepsListed(timer) ==
  /\ timer \in fired /\ fired' = fired \ {timer}
  /\ timer.key \in DOMAIN win
  /\ win' = [k \in DOMAIN win \ {timer.key} |-> win[k]]
  /\ closers' = closers \cup SeqRange(Summary(timer.key))
  /\ UNCHANGED <<lru, armed, rec, now, opened, recorded, emitVars>>
-----------------------------------------------------------------------------
(* Record *)

\* A repeated occurrence within the window: counted, moved to the front, not emitted.
CountRepeat(k) ==
  /\ CanRecord /\ k \in DOMAIN win
  /\ win' = [win EXCEPT ![k].count = @ + 1]
  /\ lru' = [lru EXCEPT ![k[1]] = <<k[2]>> \o Without(@, k[2])]
  /\ recorded' = [recorded EXCEPT ![k] = @ + 1]
  /\ UNCHANGED <<armed, fired, rec, closers, now, opened, emitVars>>

\* There is room: a timer is armed, and the first row goes out once mu is released.
OpenWindow(k) ==
  /\ Len(lru[k[1]]) < PerAgentCap
  /\ Opens(k, DOMAIN win, lru[k[1]])
  /\ armed' = armed \cup {[key |-> k, id |-> opened'[k]]}
  /\ rec' = <<RowOf(k, opened'[k], 1)>>

\* evictOldest makes room: the least recently used window goes, its timer is stopped
\* (without effect if it has fired), and its summary follows the new first row.
OpenWindowEvicting(k) ==
  /\ Len(lru[k[1]]) = PerAgentCap
  /\ LET old == Oldest(k[1]) IN
     /\ Opens(k, DOMAIN win \ {old}, SubSeq(lru[k[1]], 1, PerAgentCap - 1))
     /\ armed' = (armed \ {[key |-> old, id |-> win[old].id]}) \cup {[key |-> k, id |-> opened'[k]]}
     /\ rec' = <<RowOf(k, opened'[k], 1)>> \o Summary(old)
-----------------------------------------------------------------------------
(* The timers *)

\* A window's time is up: its callback starts, and waits for mu.
Fire(timer) ==
  /\ timer \in armed
  /\ armed' = armed \ {timer} /\ fired' = fired \cup {timer}
  /\ UNCHANGED <<win, lru, rec, closers, now, opened, recorded, emitVars>>

\* closeWindow knows its agent and signature only: whatever window is open under them
\* is closed, and its summary goes out once mu is released.
CloseWindow(timer) ==
  /\ timer \in fired /\ fired' = fired \ {timer}
  /\ timer.key \in DOMAIN win
  /\ win' = [k \in DOMAIN win \ {timer.key} |-> win[k]]
  /\ lru' = [lru EXCEPT ![timer.key[1]] = Without(@, timer.key[2])]
  /\ closers' = closers \cup SeqRange(Summary(timer.key))
  /\ UNCHANGED <<armed, rec, now, opened, recorded, emitVars>>

\* closeWindow finds that the window was evicted already.
CloseNothing(timer) ==
  /\ timer \in fired /\ fired' = fired \ {timer}
  /\ timer.key \notin DOMAIN win
  /\ UNCHANGED <<win, lru, armed, rec, closers, now, opened, recorded, emitVars>>
-----------------------------------------------------------------------------
(* tryEmit *)

Tick ==
  /\ now < MaxSecond /\ now' = now + 1
  /\ UNCHANGED <<windowVars, rec, closers, opened, recorded, emitVars>>

\* The goroutine reads the clock; rateMu is not held yet.
RecordReadsClock ==
  /\ rec # <<>> /\ rec[1].second = NotRead
  /\ rec' = [rec EXCEPT ![1].second = now]
  /\ UNCHANGED <<windowVars, closers, now, opened, recorded, emitVars>>

CloserReadsClock(row) ==
  /\ row \in closers /\ row.second = NotRead
  /\ closers' = (closers \ {row}) \cup {[row EXCEPT !.second = now]}
  /\ UNCHANGED <<windowVars, rec, now, opened, recorded, emitVars>>

\* Under rateMu: a new second starts from zero, and at the ceiling the row is dropped.
Emit(row) ==
  /\ row.second # NotRead
  /\ LET used == IF row.second = rate.second THEN rate.count ELSE 0
         ok   == GlobalPerSecond = 0 \/ used < GlobalPerSecond IN
     /\ rate' = IF GlobalPerSecond = 0 THEN rate
                ELSE [second |-> row.second, count |-> IF ok THEN used + 1 ELSE used]
     /\ rows'    = IF ok THEN [rows EXCEPT ![row.key] = @ + 1] ELSE rows
     /\ told'    = IF ok THEN [told EXCEPT ![row.key] = @ + row.fresh] ELSE told
     /\ lost'    = IF ok THEN lost ELSE [lost EXCEPT ![row.key] = @ + row.fresh]
     /\ droppedRows' = IF ok THEN droppedRows ELSE droppedRows + 1

RecordEmits ==
  /\ rec # <<>> /\ Emit(rec[1])
  /\ rec' = Tail(rec)
  /\ UNCHANGED <<windowVars, closers, now, opened, recorded>>

CloserEmits(row) ==
  /\ row \in closers /\ Emit(row)
  /\ closers' = closers \ {row}
  /\ UNCHANGED <<windowVars, rec, now, opened, recorded>>
-----------------------------------------------------------------------------
RecordViolation(k) == CountRepeat(k) \/ OpenWindow(k) \/ OpenWindowEvicting(k)
Finish == RecordReadsClock \/ RecordEmits
Closer(row) == CloserReadsClock(row) \/ CloserEmits(row)

\* Timers fire, their goroutines and Record's are scheduled, and the sink returns.
ThrottleWork ==
  \/ Finish
  \/ \E timer \in armed : Fire(timer)
  \/ \E timer \in fired : CloseWindow(timer) \/ CloseNothing(timer)
  \/ \E row \in closers : Closer(row)

ThrottleNext == ThrottleWork \/ Tick \/ \E k \in Keys : RecordViolation(k)

ThrottleSpec == ThrottleInit /\ [][ThrottleNext]_throttleVars
-----------------------------------------------------------------------------
(* Properties *)

\* The map and the lists agree, and no agent has more windows than its cap.
ListsMatchWindows ==
  /\ DOMAIN win = {k \in Keys : k[2] \in SeqRange(lru[k[1]])}
  /\ \A a \in Agents : Len(lru[a]) <= PerAgentCap /\ Cardinality(SeqRange(lru[a])) = Len(lru[a])

\* Every open window has a timer running or a callback waiting that will close it,
\* whichever windows were evicted, reopened or closed by a late callback before.
EveryWindowWillClose ==
  \A k \in DOMAIN win : \E timer \in armed \cup fired : timer.key = k

\* The occurrences rows on their way tell first: of Record's row i, and of the callbacks'.
FreshAt(i, k) == IF i \in DOMAIN rec /\ rec[i].key = k THEN rec[i].fresh ELSE 0
Tells(set) == UNION {{row} \X (1..row.fresh) : row \in set}
ClosersOf(k) == {row \in closers : row.key = k}
InFlight(k) == FreshAt(1, k) + FreshAt(2, k) + Cardinality(Tells(ClosersOf(k)))
Counted(k) == IF k \in DOMAIN win THEN win[k].count - 1 ELSE 0

\* No occurrence is lost or told twice: each is in a row the sink got, in a row the
\* ceiling dropped (and counted), on its way, or counted in an open window.
EveryOccurrenceAccounted ==
  \A k \in Keys : recorded[k] = told[k] + lost[k] + InFlight(k) + Counted(k)

\* A burst costs the sink two rows a window: the first and the summary.
TwoRowsPerWindow == \A k \in Keys : rows[k] <= 2 * opened[k]

ThrottleSound ==
  /\ ThrottleTypeOK /\ ListsMatchWindows /\ EveryWindowWillClose
  /\ EveryOccurrenceAccounted /\ TwoRowsPerWindow

\* In the end everything suppressed is summarised.
AllSummarised == <>[](\A k \in Keys : told[k] + lost[k] = recorded[k])

\* A window suppresses for the configured time unless it is evicted: a timer that is
\* still running belongs to the window it was armed for.
SuppressedForTheWindow ==
  \A timer \in armed : timer.key \in DOMAIN win /\ win[timer.key].id = timer.id
=============================================================================
