----------------------------- MODULE Scheduler -----------------------------
(***************************************************************************)
(* When targets are checked: scheduler processes that run                  *)
(* run_scheduler_forever over one database, each a loop of passes          *)
(* (SchedulerService.run_due_targets).  A pass reads the clock, reads all  *)
(* active targets once, and then takes them one by one, newest first; by   *)
(* the time a target has its turn, another process may have checked it and *)
(* a user may have changed it.                                             *)
(*                                                                         *)
(* monitor_target is reduced to the calls that a schedule depends on: the  *)
(* claim (with the read before it), the write of last_checked_at, the end. *)
(* Module Monitoring has all of it; its claim implements the lease that is *)
(* used here.  Whether a target is eligible (active and ACTIVE) is one     *)
(* flag, and targets are numbered in the order of created_at.              *)
(*                                                                         *)
(* A definition that no other one uses (DueTooSoon, FailureEndsPass, ...)  *)
(* is a deliberate mutation of the definition below it.                    *)
(***************************************************************************)
EXTENDS Naturals, FiniteSets

CONSTANTS
    Schedulers, \* the processes
    Targets,
    Malformed,  \* targets stored, by other means, without a positive interval
    Intervals,  \* the values of check_interval_minutes, in clock units
    StaleAfter, \* DEFAULT_RUN_STALE_AFTER, in clock units
    MaxTime,    \* bound: last clock value
    MaxEvents,  \* bound: crashes, failed calls, and changes users make to targets
    None

ASSUME SchedulerAssumption ==
    /\ Targets \subseteq Nat /\ Malformed \subseteq Targets
    /\ Intervals \subseteq Nat \ {0}
    /\ StaleAfter \in Nat /\ MaxTime \in Nat \ {0}
    /\ MaxEvents \in Nat
    /\ None \notin Schedulers /\ None \notin Targets /\ None \notin Intervals

Never == 0      \* last_checked_at is not set; the clock starts at 1

VARIABLES
    clock,
    row,        \* row[t]: what the schedule reads of a target's document
    held,       \* held[t]: who has the RUNNING record of t, and since when
    begun,      \* begun[t]: when the last check of t began (an observation)
    pass,       \* pass[s]: the loop of process s and its SchedulerTickResult
    events

vars == <<clock, row, held, begun, pass, events>>

Time   == 0..MaxTime
Row    == [eligible : BOOLEAN, interval : Intervals \cup {None}, last : Time]
Lease  == [by : Schedulers \cup {None}, since : Time]
Labels == {"wait", "stopped", "list", "turn", "claim", "touch", "work", "abort"}
Pass   == [at : Labels, now : Time, seen : [Targets -> Row] \cup {None}, todo : SUBSET Targets,
           target : Targets \cup {None}, started : Time, evaluated : SUBSET Targets,
           skipped : SUBSET Targets, succeeded : SUBSET Targets, failed : SUBSET Targets]

Free == [by |-> None, since |-> Never]

\* Between two ticks: the loop drops the result of the pass.
Waiting == [at |-> "wait", now |-> Never, seen |-> None, todo |-> {}, target |-> None,
            started |-> Never, evaluated |-> {}, skipped |-> {}, succeeded |-> {},
            failed |-> {}]

Init ==
    /\ clock = 1
    /\ row \in [Targets -> [eligible : {TRUE}, interval : Intervals \cup {None},
                            last : {Never}]]
    /\ \A t \in Targets : row[t].interval = None <=> t \in Malformed
    /\ held = [t \in Targets |-> Free]
    /\ begun = [t \in Targets |-> Never]
    /\ pass = [s \in Schedulers |-> Waiting]
    /\ events = 0

-----------------------------------------------------------------------------
(* Helpers.                                                                *)

\* _is_due: at the start of the pass, by the row as the pass read it.
DueTooSoon(r, now) == r.last = Never \/ r.last <= now
NeverAgain(r, now) == r.last = Never
IsDue(r, now) == r.last = Never \/ r.last + r.interval <= now

\* A run that is not stale refuses the claim; a stale one is failed and replaced.
NoTakeover(t, at) == held[t] = Free
MayClaim(t, at) == held[t] = Free \/ at - held[t].since > StaleAfter

\* Where the loop goes on after the pass has recorded a failure.
FailureEndsPass(p) == [p EXCEPT !.at = "turn", !.todo = {}]
AfterFailure(p) == [p EXCEPT !.at = "turn"]

\* _record_failure, and _record_monitoring_outcome for a FAILED run.
NotRecorded(p, t) == p
Failed(p, t) == [p EXCEPT !.failed = @ \cup {t}]

Fail(p, t) == [AfterFailure(Failed(p, t)) EXCEPT !.target = None, !.started = Never]

Skip(p, t) == [p EXCEPT !.skipped = @ \cup {t}]
Succeed(p, t) == [p EXCEPT !.succeeded = @ \cup {t}, !.at = "turn", !.target = None,
                           !.started = Never]

\* The list is sorted by created_at, newest first.
NextInLine(p) == {t \in p.todo : \A o \in p.todo : o <= t}

Release(s, t) == held' = IF held[t].by = s THEN [held EXCEPT ![t] = Free] ELSE held

-----------------------------------------------------------------------------
(* run_scheduler_forever and run_due_targets.                              *)

\* The next tick begins with the time it counts as.
Wake(s) ==
    /\ pass[s].at = "wait"
    /\ pass' = [pass EXCEPT ![s] = [Waiting EXCEPT !.at = "list", !.now = clock]]
    /\ UNCHANGED <<clock, row, held, begun, events>>

\* stop_event is looked at between two ticks only.
Stop(s) ==
    /\ pass[s].at = "wait"
    /\ pass' = [pass EXCEPT ![s].at = "stopped"]
    /\ UNCHANGED <<clock, row, held, begun, events>>

\* list_active_targets, the only read of the pass.
List(s) ==
    /\ pass[s].at = "list"
    /\ LET rows == {t \in Targets : row[t].eligible}
       IN  pass' = [pass EXCEPT ![s] = [@ EXCEPT !.at = "turn", !.seen = row,
                                                 !.todo = rows, !.evaluated = rows]]
    /\ UNCHANGED <<clock, row, held, begun, events>>

\* The tick fails, the loop goes on.
ListFails(s) ==
    /\ pass[s].at = "list"
    /\ events < MaxEvents
    /\ events' = events + 1
    /\ pass' = [pass EXCEPT ![s] = Waiting]
    /\ UNCHANGED <<clock, row, held, begun>>

\* The next target of the list: malformed, not due, or due.
Turn(s) ==
    LET p == pass[s]
    IN  /\ p.at = "turn"
        /\ \E t \in NextInLine(p) :
             LET q == [p EXCEPT !.todo = @ \ {t}]
             IN  pass' = [pass EXCEPT ![s] =
                     IF p.seen[t].interval = None THEN Fail(q, t)
                     ELSE IF IsDue(p.seen[t], p.now)
                     THEN [q EXCEPT !.at = "claim", !.target = t]
                     ELSE Skip(q, t)]
        /\ UNCHANGED <<clock, row, held, begun, events>>

EndPass(s) ==
    /\ pass[s].at = "turn" /\ pass[s].todo = {}
    /\ pass' = [pass EXCEPT ![s] = Waiting]
    /\ UNCHANGED <<clock, row, held, begun, events>>

-----------------------------------------------------------------------------
(* monitor_target, called for the target whose turn it is.                 *)

\* monitor_target refuses a target that is no longer eligible, and one that is being
\* checked; both are failures of the pass.
Claim(s) ==
    LET p == pass[s]
        t == p.target
    IN  /\ p.at = "claim"
        /\ IF row[t].eligible /\ MayClaim(t, clock)
           THEN /\ held' = [held EXCEPT ![t] = [by |-> s, since |-> clock]]
                /\ begun' = [begun EXCEPT ![t] = clock]
                /\ pass' = [pass EXCEPT ![s] = [p EXCEPT !.at = "touch", !.started = clock]]
           ELSE /\ pass' = [pass EXCEPT ![s] = Fail(p, t)]
                /\ UNCHANGED <<held, begun>>
        /\ UNCHANGED <<clock, row, events>>

\* last_checked_at is the time the check began, and is set before the fetch.
Touch(s) ==
    LET p == pass[s]
    IN  /\ p.at = "touch"
        /\ row' = [row EXCEPT ![p.target].last = p.started]
        /\ pass' = [pass EXCEPT ![s].at = "work"]
        /\ UNCHANGED <<clock, held, begun, events>>

TouchFails(s) ==
    /\ pass[s].at = "touch"
    /\ events < MaxEvents
    /\ events' = events + 1
    /\ pass' = [pass EXCEPT ![s].at = "abort"]
    /\ UNCHANGED <<clock, row, held, begun>>

\* finish(SUCCESS) raises when the run was taken over.
Finish(s) ==
    LET p == pass[s]
    IN  /\ p.at = "work"
        /\ pass' = [pass EXCEPT ![s] = IF held[p.target].by = s THEN Succeed(p, p.target)
                                                               ELSE Fail(p, p.target)]
        /\ Release(s, p.target)
        /\ UNCHANGED <<clock, row, begun, events>>

\* The page is not to be had, or a call fails: the run is FAILED.
Abort(s) ==
    LET p == pass[s]
    IN  /\ p.at \in {"work", "abort"}
        /\ pass' = [pass EXCEPT ![s] = Fail(p, p.target)]
        /\ Release(s, p.target)
        /\ UNCHANGED <<clock, row, begun, events>>

\* The write of FAILED raises as well: the RUNNING record stays.
AbortFails(s) ==
    /\ pass[s].at \in {"work", "abort"}
    /\ events < MaxEvents
    /\ events' = events + 1
    /\ pass' = [pass EXCEPT ![s] = Fail(@, @.target)]
    /\ UNCHANGED <<clock, row, held, begun>>

Step(s) ==
    \/ Wake(s) \/ List(s) \/ Turn(s) \/ EndPass(s) \/ Claim(s)
    \/ Touch(s) \/ Finish(s) \/ Abort(s)

-----------------------------------------------------------------------------
(* Around the processes.                                                   *)

\* A process dies, with the RUNNING record it may have, and is started again.
Crash(s) ==
    /\ pass[s].at \notin {"wait", "stopped"}
    /\ events < MaxEvents
    /\ events' = events + 1
    /\ pass' = [pass EXCEPT ![s] = Waiting]
    /\ UNCHANGED <<clock, row, held, begun>>

Tick ==
    /\ clock < MaxTime
    /\ clock' = clock + 1
    /\ UNCHANGED <<row, held, begun, pass, events>>

\* update_target: the two fields that PATCH may set; update refuses an interval
\* that is not positive.
EditUnchecked(t) ==
    /\ events < MaxEvents
    /\ events' = events + 1
    /\ \E i \in Intervals \cup {None} : row' = [row EXCEPT ![t].interval = i]
    /\ UNCHANGED <<clock, held, begun, pass>>

Edit(t) ==
    /\ events < MaxEvents
    /\ events' = events + 1
    /\ \/ \E b \in BOOLEAN : row' = [row EXCEPT ![t].eligible = b]
       \/ \E i \in Intervals : row' = [row EXCEPT ![t].interval = i]
    /\ UNCHANGED <<clock, held, begun, pass>>

Next ==
    \/ \E s \in Schedulers : \/ Step(s) \/ Stop(s) \/ ListFails(s) \/ TouchFails(s)
                             \/ AbortFails(s) \/ Crash(s)
    \/ Tick
    \/ \E t \in Targets : Edit(t)

Spec == Init /\ [][Next]_vars

\* The processes go on, except that nothing forces a stopped one or a fault.
FairSpec == Spec /\ WF_vars(Tick) /\ \A s \in Schedulers : WF_vars(Step(s))

-----------------------------------------------------------------------------
(* Properties.                                                             *)

\* Every variable stays within its type.
TypeOK ==
    /\ clock \in Time /\ events \in 0..MaxEvents
    /\ row \in [Targets -> Row]
    /\ \A t \in Targets \ Malformed : row[t].interval # None
    /\ held \in [Targets -> Lease]
    /\ begun \in [Targets -> Time]
    /\ pass \in [Schedulers -> Pass]

\* The result of a pass accounts for every target that it listed, exactly once, and
\* while one is being handled the others still have their turn: no failure, of a
\* malformed row, a refused claim, a run that was taken over or a call that raised,
\* drops a target or ends the pass (run_due_targets: "isolating failures per target").
EveryTargetIsAccounted ==
    \A s \in Schedulers :
        LET p == pass[s]
            parts == <<p.todo, {p.target} \ {None}, p.skipped, p.succeeded, p.failed>>
        IN  /\ p.evaluated = UNION {parts[i] : i \in 1..5}
            /\ \A i, j \in 1..5 : i # j => parts[i] \cap parts[j] = {}

\* Two checks of a target begin at least its interval apart, whatever processes
\* there are, unless the row changed after the later pass had read it, or the
\* earlier check did not get to set last_checked_at (_is_due judges by the row that
\* the pass read; the claim only keeps checks from overlapping).
ChecksAreSpaced ==
    [][\A s \in Schedulers, t \in Targets :
          /\ held'[t] # held[t] /\ held'[t].by = s
          /\ begun[t] # Never /\ row[t].interval # None
          /\ begun[t] = row[t].last
          /\ pass[s].seen[t] = row[t]
          => begun'[t] >= begun[t] + row[t].interval]_vars

\* Due at some time that the bounded clock reaches.
DueInTime(t) ==
    /\ row[t].interval # None
    /\ IsDue(row[t], MaxTime)

BeingChecked(t) ==
    \E s \in Schedulers : pass[s].target = t /\ pass[s].at \in {"touch", "work"}

\* No target starves: one that stays eligible and due is checked in the end, behind
\* targets that fail in every pass, after ticks that failed, and past the RUNNING
\* record of a process that died, unless every process was told to stop.
DueIsChecked ==
    \A t \in Targets :
        []( /\ DueInTime(t)
            /\ held[t] = Free \/ held[t].since + StaleAfter < MaxTime
            => <>( \/ BeingChecked(t)
                   \/ ~row[t].eligible \/ ~DueInTime(t)
                   \/ \A s \in Schedulers : pass[s].at = "stopped"))
=============================================================================
