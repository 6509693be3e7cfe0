----------------------------- MODULE Monitoring -----------------------------
(***************************************************************************)
(* MonitoringRunService.monitor_target, carried out concurrently by        *)
(* workers (scheduler processes, threads, scripts) over one database, with *)
(* everything it touches: monitoring_targets, monitoring_runs, snapshots   *)
(* and changes.  An action is one database operation together with the     *)
(* local computation next to it, so that two attempts interleave wherever  *)
(* the code lets them.  Around the workers: the clock, the monitored site, *)
(* and the API operations on a target (PATCH, DELETE, re-adding it).       *)
(*                                                                         *)
(* Every target here has discovery_status ACTIVE; the review states that   *)
(* come before it are the subject of module Targets.                       *)
(*                                                                         *)
(* Among the helpers, a definition that no other one uses (NoIndex,        *)
(* StaleTooEarly, Oldest, ...) is a deliberate mutation of the helper      *)
(* below it, put there to see that the properties depend on the code.      *)
(***************************************************************************)
EXTENDS ContentProcessing, FiniteSets

CONSTANTS
    Targets, Workers,
    StaleAfter,     \* DEFAULT_RUN_STALE_AFTER, in clock units
    Pages,          \* the states the monitored site goes through
    StartTypes,     \* page types a target starts with
    NewTypes,       \* page types a request may ask for when it re-adds a target
    Requests,       \* the API requests on targets an instance includes
    MaxTime,        \* bound: last clock value
    MaxRuns,        \* bound: runs inserted
    MaxFaults       \* bound: crashes and failed database calls

ASSUME MonitoringAssumption ==
    /\ StaleAfter \in Nat
    /\ Pages \subseteq RawPage
    /\ StartTypes \subseteq PageTypes
    /\ NewTypes \subseteq PageTypes
    /\ Requests \subseteq {"patch", "readd", "remove"}
    /\ MaxTime \in Nat /\ MaxRuns \in Nat /\ MaxFaults \in Nat
    /\ None \notin Targets \cup Pages \cup Content

MaxTries == 5       \* the retry budget of claim
Never == 0          \* a timestamp that was never set; the clock starts at 1

VARIABLES
    clock,
    site,       \* site[t]: the page now served at t's URL
    tgt,        \* tgt[t]: the monitoring_targets document
    removing,   \* removing[t]: what an unfinished DELETE request will do to t
    runs,       \* monitoring_runs, in insertion order; a run's id is its index
    snaps,      \* snapshots with their files, in insertion order; the fields
                \* run and base only record where a snapshot came from
    changes,    \* changes
    pc, job,    \* each worker's position in monitor_target and its locals
    faults

vars == <<clock, site, tgt, removing, runs, snaps, changes, pc, job, faults>>

NoJob == [target |-> None, type |-> None, started |-> Never, tries |-> 0,
          seen |-> 0, run |-> 0, page |-> None, prev |-> 0, content |-> None,
          at |-> Never, cur |-> 0, left |-> {}, detected |-> Never]

Init ==
    /\ clock = 1
    /\ site \in [Targets -> Pages]
    /\ tgt \in [Targets -> [exists : {TRUE}, active : {TRUE}, type : StartTypes,
                            lastChecked : {Never}, lastChanged : {Never}]]
    /\ removing = [t \in Targets |-> "no"]
    /\ runs = <<>> /\ snaps = <<>> /\ changes = {}
    /\ pc = [w \in Workers |-> "idle"]
    /\ job = [w \in Workers |-> NoJob]
    /\ faults = 0

-----------------------------------------------------------------------------
(* Helpers.                                                                *)

Goto(w, label) == pc' = [pc EXCEPT ![w] = label]
Leave(w) == Goto(w, "idle") /\ job' = [job EXCEPT ![w] = NoJob]

RunningRuns(t) == {r \in DOMAIN runs : runs[r].target = t /\ runs[r].status = "RUNNING"}

\* The unique index on the RUNNING records of a target.
NoIndex(t) == TRUE
MayInsert(t) == RunningRuns(t) = {}

\* The status condition in the query of finish and of mark_stale_failed.
AnyStatus(r) == TRUE
StillRunning(r) == runs[r].status = "RUNNING"

\* _is_stale_run: strictly older than the threshold at the claimant's time.
StaleTooEarly(r, at) == at - runs[r].started >= StaleAfter
StaleReversed(r, at) == runs[r].started - at > StaleAfter
IsStale(r, at) == at - runs[r].started > StaleAfter

\* The first record of list_for_target(include_simulated=False): captured_at is
\* the only sort key, so records with equal times come in any order.
RealSnaps(t) == {s \in DOMAIN snaps : snaps[s].target = t /\ snaps[s].real}
Oldest(t) == IF RealSnaps(t) = {} THEN {0}
             ELSE {s \in RealSnaps(t) : \A o \in RealSnaps(t) : snaps[o].at >= snaps[s].at}
Newest(t) == IF RealSnaps(t) = {} THEN {0}
             ELSE {s \in RealSnaps(t) : \A o \in RealSnaps(t) : snaps[o].at <= snaps[s].at}

HasHistory(t) == \/ \E s \in DOMAIN snaps : snaps[s].target = t
                 \/ \E c \in changes : c.target = t

\* captured_at is read from the clock when the page has been processed.
NoCaptureTime(w) == None
StartAsCaptureTime(w) == job[w].started
CaptureTime(w) == clock

\* Without an event there is neither a change nor a new last_changed_at.
AlwaysTouchChanged(left) == IF left = {} THEN "touchChanged" ELSE "events"
AfterWrite(left) == IF left = {} THEN "finish" ELSE "events"

\* The loop over the events ends with the last one.
FirstEventOnly(left) == "touchChanged"
AfterEvent(left) == IF left = {} THEN "touchChanged" ELSE "events"

\* create_change refuses equal hashes, an empty diff and a target that is gone.
TargetExists(j) == tgt[j.target].exists
Recordable(j) == /\ Differ(snaps[j.prev].content, snaps[j.cur].content)
                 /\ tgt[j.target].exists

Own(w) == runs[job[w].run]

-----------------------------------------------------------------------------
(* monitor_target: the claim.                                              *)

\* Reads the target, gives up on one that is missing or inactive (no effect),
\* and takes the time the attempt is recorded under.
CheckTarget(w, t) ==
    /\ pc[w] = "idle"
    /\ tgt[t].exists /\ tgt[t].active
    /\ Goto(w, "insert")
    /\ job' = [job EXCEPT ![w] = [NoJob EXCEPT !.target = t, !.type = tgt[t].type,
                                               !.started = clock]]
    /\ UNCHANGED <<clock, site, tgt, removing, runs, snaps, changes, faults>>

\* insert_one under the unique index on RUNNING: the claim itself.
InsertRun(w) ==
    /\ pc[w] = "insert"
    /\ MayInsert(job[w].target)
    /\ Len(runs) < MaxRuns
    /\ runs' = Append(runs, [target |-> job[w].target, started |-> job[w].started,
                             status |-> "RUNNING"])
    /\ job' = [job EXCEPT ![w].run = Len(runs) + 1]
    /\ Goto(w, "touch")
    /\ UNCHANGED <<clock, site, tgt, removing, snaps, changes, faults>>

\* The insert fails with a duplicate key.
InsertRefused(w) ==
    /\ pc[w] = "insert"
    /\ ~MayInsert(job[w].target)
    /\ Goto(w, "find")
    /\ UNCHANGED <<clock, site, tgt, removing, runs, snaps, changes, job, faults>>

\* The next attempt of the loop in claim, or its RunAlreadyClaimedError.
Retry(w) ==
    IF job[w].tries + 1 < MaxTries
    THEN /\ job' = [job EXCEPT ![w] = [@ EXCEPT !.tries = job[w].tries + 1, !.seen = 0]]
         /\ Goto(w, "insert")
    ELSE Leave(w)

\* find_running: no record any more, a fresh one (409), or a stale one.
FindRunning(w) ==
    /\ pc[w] = "find"
    /\ \/ RunningRuns(job[w].target) = {} /\ Retry(w)
       \/ \E r \in RunningRuns(job[w].target) :
              IF IsStale(r, job[w].started)
              THEN job' = [job EXCEPT ![w].seen = r] /\ Goto(w, "mark")
              ELSE Leave(w)
    /\ UNCHANGED <<clock, site, tgt, removing, runs, snaps, changes, faults>>

\* mark_stale_failed: conditional on the observed record being RUNNING still.
MarkStale(w) ==
    /\ pc[w] = "mark"
    /\ runs' = IF StillRunning(job[w].seen)
               THEN [runs EXCEPT ![job[w].seen].status = "FAILED"] ELSE runs
    /\ Retry(w)
    /\ UNCHANGED <<clock, site, tgt, removing, snaps, changes, faults>>

-----------------------------------------------------------------------------
(* monitor_target: the attempt.                                            *)

TouchTarget(w) ==
    /\ pc[w] = "touch"
    /\ IF tgt[job[w].target].exists
       THEN /\ tgt' = [tgt EXCEPT ![job[w].target].lastChecked = job[w].started]
            /\ Goto(w, "fetch")
       ELSE Goto(w, "fail") /\ UNCHANGED tgt
    /\ UNCHANGED <<clock, site, removing, runs, snaps, changes, job, faults>>

\* The page as served now, or an HTTP error, an empty page, a timeout.
Fetch(w) ==
    /\ pc[w] = "fetch"
    /\ \/ job' = [job EXCEPT ![w].page = site[job[w].target]] /\ Goto(w, "process")
       \/ Goto(w, "fail") /\ UNCHANGED job
    /\ UNCHANGED <<clock, site, tgt, removing, runs, snaps, changes, faults>>

\* Reads the newest real snapshot, compares, and takes captured_at.
ProcessPage(w) ==
    /\ pc[w] = "process"
    /\ \E p \in Newest(job[w].target) :
         LET previous == IF p = 0 THEN None ELSE snaps[p].content
             result == Process(job[w].type, job[w].page, previous)
         IN  IF result.ok
             THEN /\ job' = [job EXCEPT ![w] =
                                [@ EXCEPT !.page = None, !.prev = p, !.content = result.content,
                                          !.left = result.events, !.at = CaptureTime(w)]]
                  /\ Goto(w, "write")
             ELSE Goto(w, "fail") /\ UNCHANGED job
    /\ UNCHANGED <<clock, site, tgt, removing, runs, snaps, changes, faults>>

\* create_snapshot: normalizes once more, writes the file, inserts the record.
WriteSnapshot(w) ==
    /\ pc[w] = "write"
    /\ snaps' = Append(snaps, [target |-> job[w].target, content |-> Normalize(job[w].content),
                               at |-> job[w].at, real |-> TRUE,
                               run |-> job[w].run, base |-> job[w].prev])
    /\ job' = [job EXCEPT ![w] = [@ EXCEPT !.cur = Len(snaps) + 1, !.detected = clock]]
    /\ Goto(w, AfterWrite(job[w].left))
    /\ UNCHANGED <<clock, site, tgt, removing, runs, changes, faults>>

\* create_change for the next event.
RecordEvent(w) ==
    LET j == job[w]
    IN  /\ pc[w] = "events"
        /\ IF Recordable(j)
           THEN \E e \in j.left :
                  /\ \A f \in j.left \ {e} : Precedes(e, f)
                  /\ changes' = changes \cup
                       {[target |-> j.target, prev |-> j.prev, cur |-> j.cur, event |-> e,
                         detected |-> j.detected, real |-> TRUE]}
                  /\ job' = [job EXCEPT ![w].left = @ \ {e}]
                  /\ Goto(w, AfterEvent(j.left \ {e}))
           ELSE Goto(w, "fail") /\ UNCHANGED <<changes, job>>
        /\ UNCHANGED <<clock, site, tgt, removing, runs, snaps, faults>>

TouchChanged(w) ==
    /\ pc[w] = "touchChanged"
    /\ IF tgt[job[w].target].exists
       THEN /\ tgt' = [tgt EXCEPT ![job[w].target].lastChanged = job[w].detected]
            /\ Goto(w, "finish")
       ELSE Goto(w, "fail") /\ UNCHANGED tgt
    /\ UNCHANGED <<clock, site, removing, runs, snaps, changes, job, faults>>

\* finish(SUCCESS), conditional on the record being RUNNING still.
FinishSuccess(w) ==
    /\ pc[w] = "finish"
    /\ IF StillRunning(job[w].run)
       THEN runs' = [runs EXCEPT ![job[w].run].status = "SUCCESS"] /\ Leave(w)
       ELSE Goto(w, "fail") /\ UNCHANGED <<runs, job>>
    /\ UNCHANGED <<clock, site, tgt, removing, snaps, changes, faults>>

\* finish(FAILED) of the except clause; when the record was reclaimed the
\* attempt ends with an exception and the record stays as it is.
FinishFailed(w) ==
    /\ pc[w] = "fail"
    /\ runs' = IF StillRunning(job[w].run)
               THEN [runs EXCEPT ![job[w].run].status = "FAILED"] ELSE runs
    /\ Leave(w)
    /\ UNCHANGED <<clock, site, tgt, removing, snaps, changes, faults>>

Step(w) ==
    \/ InsertRun(w) \/ InsertRefused(w) \/ FindRunning(w) \/ MarkStale(w)
    \/ TouchTarget(w) \/ Fetch(w) \/ ProcessPage(w) \/ WriteSnapshot(w)
    \/ RecordEvent(w) \/ TouchChanged(w) \/ FinishSuccess(w) \/ FinishFailed(w)

-----------------------------------------------------------------------------
(* What goes wrong.                                                        *)

\* A database or file call inside the try block raises.
StoreError(w) ==
    /\ pc[w] \in {"touch", "process", "write", "events", "touchChanged", "finish"}
    /\ faults < MaxFaults
    /\ faults' = faults + 1
    /\ Goto(w, "fail")
    /\ UNCHANGED <<clock, site, tgt, removing, runs, snaps, changes, job>>

\* The process dies, or a call outside the try block raises (a claim call, or
\* the finish of the except clause): nothing more is written.
Crash(w) ==
    /\ pc[w] # "idle"
    /\ faults < MaxFaults
    /\ faults' = faults + 1
    /\ Leave(w)
    /\ UNCHANGED <<clock, site, tgt, removing, runs, snaps, changes>>

-----------------------------------------------------------------------------
(* Everything around the workers.                                          *)

Tick ==
    /\ clock < MaxTime
    /\ clock' = clock + 1
    /\ UNCHANGED <<site, tgt, removing, runs, snaps, changes, pc, job, faults>>

PublishPage(t) ==
    /\ \E p \in Pages \ {site[t]} : site' = [site EXCEPT ![t] = p]
    /\ UNCHANGED <<clock, tgt, removing, runs, snaps, changes, pc, job, faults>>

\* PATCH {"active": ...}.
PatchActive(t) ==
    /\ "patch" \in Requests
    /\ tgt[t].exists
    /\ \E b \in BOOLEAN : tgt' = [tgt EXCEPT ![t].active = b]
    /\ UNCHANGED <<clock, site, removing, runs, snaps, changes, pc, job, faults>>

\* add_manual_target for a URL whose row is inactive: the row is promoted in
\* place and takes the page type of the request.
ReAdd(t) ==
    /\ "readd" \in Requests
    /\ tgt[t].exists /\ ~tgt[t].active
    /\ \E type \in NewTypes : tgt' = [tgt EXCEPT ![t].active = TRUE, ![t].type = type]
    /\ UNCHANGED <<clock, site, removing, runs, snaps, changes, pc, job, faults>>

\* remove_candidate: reads the history first ...
RemoveInspect(t) ==
    /\ "remove" \in Requests
    /\ tgt[t].exists
    /\ removing[t] = "no"
    /\ removing' = [removing EXCEPT ![t] = IF HasHistory(t) THEN "deactivate" ELSE "delete"]
    /\ UNCHANGED <<clock, site, tgt, runs, snaps, changes, pc, job, faults>>

\* ... and acts on what it read.
RemoveApply(t) ==
    /\ removing[t] # "no"
    /\ tgt' = IF removing[t] = "delete" THEN [tgt EXCEPT ![t].exists = FALSE]
                                        ELSE [tgt EXCEPT ![t].active = FALSE]
    /\ removing' = [removing EXCEPT ![t] = "no"]
    /\ UNCHANGED <<clock, site, runs, snaps, changes, pc, job, faults>>

Next ==
    \/ \E w \in Workers, t \in Targets : CheckTarget(w, t)
    \/ \E w \in Workers : Step(w) \/ StoreError(w) \/ Crash(w)
    \/ Tick
    \/ \E t \in Targets : PublishPage(t) \/ PatchActive(t) \/ ReAdd(t)
                          \/ RemoveInspect(t) \/ RemoveApply(t)

Spec == Init /\ [][Next]_vars

-----------------------------------------------------------------------------
(* Types.                                                                  *)

Target == [exists : BOOLEAN, active : BOOLEAN, type : PageTypes,
           lastChecked : Nat, lastChanged : Nat]
Run    == [target : Targets, started : Nat, status : {"RUNNING", "SUCCESS", "FAILED"}]
Snap   == [target : Targets, content : Content, at : Nat, real : BOOLEAN,
           run : Nat, base : Nat]
Change == [target : Targets, prev : Nat, cur : Nat, event : Event,
           detected : Nat, real : BOOLEAN]
Job    == [target : Targets \cup {None}, type : PageTypes \cup {None}, started : Nat,
           tries : 0..MaxTries - 1, seen : Nat, run : Nat, page : Pages \cup {None},
           prev : Nat, content : Content \cup {None}, at : Nat, cur : Nat,
           left : SUBSET Event, detected : Nat]
Labels == {"idle", "insert", "find", "mark", "touch", "fetch", "process", "write",
           "events", "touchChanged", "finish", "fail"}

\* Every variable stays within its type.
TypeOK ==
    /\ clock \in Nat /\ faults \in Nat
    /\ site \in [Targets -> Pages]
    /\ tgt \in [Targets -> Target]
    /\ removing \in [Targets -> {"no", "deactivate", "delete"}]
    /\ runs \in Seq(Run) /\ snaps \in Seq(Snap) /\ changes \in SUBSET Change
    /\ pc \in [Workers -> Labels]
    /\ job \in [Workers -> Job]

-----------------------------------------------------------------------------
(* Safety of the run records.                                              *)

\* Worker w has claimed a run and not ended it.
InRun(w) == pc[w] \notin {"idle", "insert", "find", "mark"}

\* The guard against duplicate runs (claim and the unique index): whatever way
\* inserts, stale reclaims and finishes interleave, a target never has two
\* RUNNING records.
AtMostOneRunning == \A t \in Targets : \A r, s \in RunningRuns(t) : r = s

\* claim takes a run away from a worker that is still carrying it out only after
\* the run has lasted longer than the staleness threshold.
EvictedOnlyWhenStale ==
    \A w \in Workers :
        InRun(w) /\ Own(w).status # "RUNNING" => clock - Own(w).started > StaleAfter

\* Both finish calls are conditional: a worker that lost its run to a reclaim
\* can neither turn the FAILED record into SUCCESS nor touch it in any way.
TerminalIsFinal ==
    [][\A r \in DOMAIN runs : runs[r].status # "RUNNING" => runs'[r] = runs[r]]_vars

-----------------------------------------------------------------------------
(* Safety of the history the runs write.                                   *)

RunSnaps(r) == {s \in DOMAIN snaps : snaps[s].run = r}
EventsOf(s) == {c.event : c \in {d \in changes : d.cur = s}}

\* The events that tell listing `old` from listing `new`, key by key.
TellsApart(events, old, new) ==
    /\ \A k \in Keys :
        /\ [type |-> "NEW_PRODUCT", key |-> k] \in events <=> old[k] = None /\ new[k] # None
        /\ [type |-> "PRODUCT_REMOVED", key |-> k] \in events <=> old[k] # None /\ new[k] = None
        /\ [type |-> "PRICE_CHANGE", key |-> k] \in events
              <=> None \notin {old[k], new[k]} /\ old[k].price # new[k].price
    /\ \A e \in events : e.key \in Keys

\* A run that reports SUCCESS stored exactly one snapshot, and what changed since
\* the snapshot it was compared with is in changes: the keyed difference of two
\* product lists, one event for any other pair that differs, nothing otherwise.
SuccessIsComplete ==
    \A r \in DOMAIN runs : runs[r].status = "SUCCESS" =>
        \E s \in DOMAIN snaps :
            /\ RunSnaps(r) = {s}
            /\ LET b == snaps[s].base IN
               IF b = 0 \/ snaps[s].content = snaps[b].content THEN EventsOf(s) = {}
               ELSE IF {snaps[s].content.kind, snaps[b].content.kind} = {"listing"}
                    THEN TellsApart(EventsOf(s), snaps[b].content.products,
                                    snaps[s].content.products)
                    ELSE Cardinality(EventsOf(s)) = 1

\* A change links two real snapshots of its own target, the older first, with
\* different hashes, and the newer is the one compared with the older.
ChangesLinkSnapshots ==
    \A c \in changes : c.real =>
        /\ c.prev \in RealSnaps(c.target) /\ c.cur \in RealSnaps(c.target)
        /\ snaps[c.cur].base = c.prev
        /\ snaps[c.prev].content # snaps[c.cur].content
        /\ snaps[c.prev].at <= snaps[c.cur].at /\ snaps[c.cur].at <= c.detected

\* last_changed_at is the time of a recorded change, also for a listing where
\* only names differ: a changed hash without an event must not move it.
LastChangedIsReported ==
    \A t \in Targets : tgt[t].lastChanged # Never =>
        \E c \in changes : c.target = t /\ c.detected = tgt[t].lastChanged

\* Successful runs of a target behave as if they ran one after the other: each is
\* compared with a snapshot at least as new as those of the ones before it, even
\* when reclaimed workers keep writing in between.
SuccessfulRunsAreSerial ==
    \A s1, s2 \in DOMAIN snaps :
        /\ s1 < s2 /\ snaps[s1].target = snaps[s2].target
        /\ snaps[s1].real /\ snaps[s2].real
        /\ runs[snaps[s1].run].status = "SUCCESS"
        /\ runs[snaps[s2].run].status = "SUCCESS"
        => snaps[s2].base # 0 /\ snaps[snaps[s2].base].at >= snaps[s1].at

-----------------------------------------------------------------------------
(* The run records implement the abstract lease.                           *)

Holder == [t \in Targets |-> IF RunningRuns(t) = {} THEN 0
                             ELSE CHOOSE r \in RunningRuns(t) : TRUE]
Since  == [t \in Targets |-> IF Holder[t] = 0 THEN 0 ELSE runs[Holder[t]].started]
Busy   == [w \in Workers |-> job[w].run]

Lease == INSTANCE RunLease WITH
    now <- clock, issued <- Len(runs), holder <- Holder, since <- Since, busy <- Busy

\* Every behaviour of the workers is one of an exclusive lease that only staleness
\* takes from a live owner (module RunLease).
ImplementsLease == Lease!Spec

-----------------------------------------------------------------------------
(* Liveness.                                                               *)

\* Live processes go on, time passes, and the scheduler keeps calling
\* monitor_target for a target that is active.
Fairness ==
    /\ \A w \in Workers : WF_vars(Step(w))
    /\ \A t \in Targets : WF_vars(\E w \in Workers : CheckTarget(w, t))
    /\ WF_vars(Tick)

FairSpec == Spec /\ Fairness

\* A crashed process cannot block its target indefinitely: a record left RUNNING
\* is eventually ended if the clock gets past its staleness threshold.
RunsEnd ==
    \A r \in 1..MaxRuns, t \in Targets :
        [](/\ r \in RunningRuns(t)
           /\ runs[r].started + StaleAfter < MaxTime
           /\ [](tgt[t].exists /\ tgt[t].active)
           => <>(r \notin RunningRuns(t)))

-----------------------------------------------------------------------------
(* What a comment says and the code does not keep.                         *)

\* create_snapshot: "Normalization is idempotent for the canonical form, so the
\* service owns the invariant that the bytes stored, hashed, and compared are the
\* normalized representation." An attempt that found a difference then has two
\* stored snapshots with different hashes.
ComparedHashesAreStored ==
    \A w \in Workers : pc[w] = "events" =>
        snaps[job[w].prev].content # snaps[job[w].cur].content
=============================================================================
