# Formal model of the competitor monitoring system

TLA+ specifications of the program in `src/`, TLC configurations that check them on
small instances, and theorems that TLAPS proves for all instances. Paths below are
relative to `src/`; `PROJECT.json` maps every definition to the lines it models.

Conventions: one action per database call (or fetch, or file operation) together with
the local computation next to it, so that processes interleave exactly where the code
lets them. A document of MongoDB changes atomically in one call; nothing spans two calls.
A definition that no other definition uses (`NoIndex`, `AnyUrl`, `OverwritesAny`, ...) is
a deliberate mutation of the definition below it: `PROJECT.json` lists which property
each one breaks, so that every property is known to depend on the code.

## 1. The system

A Flask backend discovers pages of competitors' websites, lets users activate them, and
checks active pages on a schedule; a Django frontend shows the results and calls the
backend over HTTP. State lives in MongoDB and in gzip files.

| Component | State | Operations that change it | Interacts with |
|---|---|---|---|
| Candidates and targets (`discovery/service.py`, `website_monitoring/service.py` 1320-1431, `website_monitoring/repository.py` 28-350) | `monitoring_targets`: url, `active`, `discovery_status`, provenance | activate, add, add manually, edit, discard, remove, patch, rediscovery upsert, exclusion purge | history (snapshots, changes), discovery runs, scheduler |
| Monitoring runs (`website_monitoring/service.py` 498-742, `repository.py` 352-557) | `monitoring_runs`: RUNNING, SUCCESS, FAILED | claim, finish, reclaim of stale runs, the steps of `monitor_target` | targets, snapshots, changes, the monitored site |
| Content processing (`content_processing.py`) | none | normalise, extract products, diff | called by runs and by snapshots |
| Snapshot storage (`snapshot/`) | files and `snapshots` | create, delete after a failed insert, read | runs, simulation |
| Change detection and feed (`change_detection/`) | `changes` | create, narrative and enrichment updates, list | runs, simulation, backfill script |
| Discovery pipeline (`discovery/`) | source statistics in memory | crawl, normalise, liveness gate, classify, upsert, purge | targets |
| Discovery runs (`discovery/service.py` 554-634, `discovery/repository.py`, `discovery/routes.py`, Django `views.py` 96-149 and 397-490) | `discovery_runs`, `last_summary` in memory, the page | start, succeed, fail, poll | pipeline, page |
| Scheduler (`scheduler/service.py`) | `last_checked_at` through runs | pass over due targets | targets, runs |
| Simulated changes (`simulated_persistence.py`, `simulated_verification.py`) | tagged snapshots and changes | simulate | storage, changes |
| Competitors and companies | `competitors`, `companies` | create, update, delete | targets, feed |
| Database layer, HTTP API, LLM provider, templates, scripts | connections, configuration | - | everything |

What is hard here, and what correctness means for each part:

* **Runs.** Several workers claim targets; a worker can die, or live longer than the
  staleness threshold and be taken over while it goes on writing. At most one RUNNING
  record per target; only staleness evicts; a closed record stays closed; SUCCESS means
  one snapshot and exactly the changes since the previous one; successful runs of a target
  form a serial history; a dead worker does not block its target for ever.
* **Targets.** Every request reads a document, decides, validates on a second read and
  writes without a condition. No two documents with one url; active implies ACTIVE; an
  activation is never taken back; recorded history keeps its target.
* **Discovery runs.** The request runs for minutes, the page gives up earlier and polls;
  summaries go through objects shared by all requests. A record closes once and truthfully,
  no page contradicts it, and every polling page ends.
* **Snapshots.** A file and a document, no transaction, several processes. A document
  names a file of its own with its content; files are immutable; failures leave no orphan.
* **Feed, pipeline, scheduler, simulation, competitors.** Each enrichment is written once;
  a transient failure never discards a candidate; one target's failure does not stop a pass;
  a simulation never becomes the baseline of a real check; company scope is kept.

## 2. Modules and plan

| Order | Modules | State |
|---|---|---|
| 1 | `ContentProcessing`, `RunLease`, `Monitoring`, `MCMonitoring` | done |
| 2 | `MonitoringProofs` | done |
| 3 | `Targets`, `MCTargets` | done |
| 4 | `DiscoveryRuns`, `MCDiscoveryRuns` | done |
| 5 | `SnapshotStore`, `MCSnapshotStore` | done |
| 6 | `Scheduler`, `MCScheduler` | done |
| 7 | `SimulatedHistory`, `MCSimulatedHistory` | done |
| 8 | `DiscoveryPipeline`, `MCDiscoveryPipeline` | done |
| 9 | `ChangeFeed`, `MCChangeFeed` | done |
| 10 | `SchedulerProofs`, `SimulationProofs` | done |
| 11 | `TargetsProofs`, `SnapshotProofs`, `DiscoveryProofs`, `FeedProofs`, `PipelineProofs` | done |
| 12 | `SnapshotArchive`, the abstract archive that `SnapshotStore` implements | done |
| 13 | the scheduler as an implementation of `RunLease`; write-once discovery records | planned |

`Monitoring` extends `ContentProcessing` and implements `RunLease`, the abstract
specification of what claiming promises. `Targets` opens up what `Monitoring` treats as
three requests (patch, re-add, remove) and reduces a run to the snapshot it leaves.
`SnapshotStore` opens up the one step in which `Monitoring` stores a snapshot, and
implements `SnapshotArchive`, which has that one step.
`Scheduler` reduces a run to the lease that `Monitoring` implements and adds who calls it
and when. `SimulatedHistory` uses the operators of `ContentProcessing` like `Monitoring`
does and reduces the check to what a simulation can interleave with. `DiscoveryPipeline`
opens up the step `Collect` of `DiscoveryRuns`, and its verdicts are what `Targets!Upsert`
writes. `ChangeFeed` starts where a change has been recorded.
An abstract specification still worth stating is a write-once record for `DiscoveryRuns`.

### `ContentProcessing`

Operators for `normalize_content`, the two processors and the product diff. A page is a
text, a number of character references that spell markup (each normalisation decodes one
level, which is why normalising twice may differ from once), and a sequence of product
cards that may lack a key or an offer. `Lines` gives two texts the same value if
`generate_diff` finds no difference between them. `Process` is what `monitor_target` gets from
`resolve_content_processor(...).process(...)`: the content to store and the set of events,
or a rejection.

### `Monitoring`

`pc[w]`/`job[w]` are a worker's position in `monitor_target` and its locals; `runs`,
`snaps`, `changes`, `tgt` are the collections; `clock` and `site` are the environment.
`CheckTarget`, `InsertRun`, `InsertRefused`, `FindRunning`, `MarkStale`, `Retry` are
`claim` with its retry budget; `TouchTarget`, `Fetch`, `ProcessPage`, `WriteSnapshot`, the
event and finish steps follow the body; failures and crashes may happen at every call. The
API requests patch, re-add and remove run in steps of their own.

### `RunLease`

A lease per target with a holder, acquired when free, released by its holder, evicted only
when older than the threshold. `Monitoring!ImplementsLease` instantiates it with state
functions of the run records.

### `Targets`

`rows` are the documents, `sess[s]` a request with the step it is at and the `$set` it has
decided on. `Ops` selects the operations of an instance. The first action of an operation
is its read and decision; `LookUp`, `InspectHistory`, `Validate`, `Write`, `Insert`,
`Delete` are the later calls; `Purge` is the one `update_many` of a discovery run.

### `DiscoveryRuns`

`flask[q]` is a request inside `discover_website`, `records` the collection, `lastSummary`
and `lastStats` the attributes shared by all requests of the process, `page[q]` what
`run_discovery` and the polled detail page show. `Faults` selects what may go wrong.

### `SnapshotStore`

`files` and `metadata`, the lock of each storage instance, and `call[c]`, the progress of
one `create_snapshot`. The scan for a free name is one step per name.

### `SnapshotArchive`

One entry per call, made in one step, never replaced and never removed.
`SnapshotStore!ImplementsArchive` instantiates it with what can be read through a document.

### `Scheduler`

`pass[s]` is the position of a process in `run_scheduler_forever` and `run_due_targets`,
with the rows it listed (`seen`), what is left of them, and the three counts as sets of
targets; `row[t]` holds the fields a pass judges by, `held[t]` the RUNNING record, and
`begun[t]`, a history variable, when the last check began. A stopped process, a crash,
failing calls and edits by users are steps of their own. `Abort` closes the record of a
failed check, `AbortFails` is the closing call that raises and leaves it RUNNING.

### `SimulatedHistory`

`snaps` and `changes` of one target with their tags, `check` the real check and `sim[m]` a
request in `simulate_and_persist_change`; both record their events one by one. `Mutations` are all outcomes that pass the
validation of `simulated_verification`, whatever the language model answers. The fields
`version`, `alone` and `mark` only observe.

### `DiscoveryPipeline`

A website is a set of sitemap files and links, a url a sequence of words. `ReadRobots`,
`ReadSitemap`, `SitemapsFail` and `ReadLinks` are the sources, `SourceRaises` an exception
of a source that is not handled and ends the run; what an index names beyond the depth
limit is kept as a page unless its extension says otherwise (`Keep`). `MergeNext` takes the reports
one at a time in any order and merges them by normalised url, `Probe` is one attempt of the
liveness gate, `Classify` the rules with the fallback. The operators above them
(`NormalizeUrl`, `Scope`, `IsExcluded`, `SuggestedByRule`, ...) are the pure parts of
`normalization.py` and `classification.py`.

### `ChangeFeed`

`changes` with the text and link of each, `company` of each competitor, `starting`, the
assignments a process start still has to make, `reader[r]`, a feed request between its two
reads, and `filler[f]`, a run of `backfill_narrative_summaries.py` with the rows it
selected. `overtaken` and `known` only observe.

## 3. What is model-checked

Passing runs:

| Run | Instance | Shows |
|---|---|---|
| `monitoring_text` | 2 workers, 3 runs, 1 target, 2 pages, clock to 3, threshold 1 | types, exclusive claim, eviction only when stale, terminal records, changes link different real snapshots, serial successful runs, the lease is implemented |
| `monitoring_listing` | 2 workers, 2 runs, 3 pages as text or as listings over 2 keys, 1 fault, removal and re-adding as text | SUCCESS is complete event by event; `last_changed_at` is reported, also for pages that the second normalisation alters or whose difference the diff does not show |
| `monitoring_live` | 2 workers, clock to 4, 1 fault, deactivation, fair | a RUNNING record ends |
| `targets` | 2 ids, 2 urls, 2 sessions, all operations | types, unique urls; a request that nobody overtakes keeps activations, keeps active documents ACTIVE, keeps the target of history |
| `discovery` | 2 requests, 2 run ids, all faults, fair | SUCCESS is complete, no page contradicts a record, one run per id, a page polls for ever only when nobody is left to close its record |
| `snapshots` | 3 calls, 1 storage, 2 timestamps, failures and crashes | documents match files of their own, the store implements the archive, only a crash or a failed deletion leaves an orphan |
| `scheduler` | 2 processes, a sound and a malformed target, interval 2, clock to 3, threshold 1, 1 crash, failure or edit, fair | a pass accounts for each listed target once, checks keep their interval, a due target is checked in the end |
| `simulation` | 1 simulation of every kind, checks, 2 pages as text or listings over 3 keys, 4 snapshots | real and simulated history stay apart, real changes follow the site, an answered simulation is complete |
| `pipeline` | 2 websites: sitemaps in a circle, too deep or too many; a large one with pages of every scope; fair | what a run stores and suggests follows from the evidence in whatever order it arrives; the run ends |
| `feed` | 1 request, 2 backfills, 2 changes, 2 competitors with one website, 2 companies, 3 events | a feed is neither short nor another company's, a backfill fills what it counts, enrichment is kept |

Bounds. Two workers (sessions, requests) are the smallest number that races; three runs let
a third one compare with what an evicted and an evicting one left. The clock passes the
threshold with a tick to spare, so both sides of the strict comparison occur. Two urls
include one that the exclusion patterns match. Three snapshot calls over two timestamps
give an overwritten or reused name a third party. Two discovery requests can share a run id
or race with two, and one of them can outlive a crash. The scheduler's clock lets a target
become due twice, and a malformed target stands before the sound one in every pass. Four
snapshots hold a real one, a baseline, a simulated one and the check after it; a listing of
two products has room for one mutation of each kind. One simulation suffices there: that
simulations do not mix with each other's history is proved for any number. The websites of the pipeline exceed the
file limit, the depth and the sampling threshold by one file or page each. Two changes are
enough for a full feed that leaves one out, and for two backfills that overtake each other.
Where deadlock is not checked, the instance has a finite supply of requests, calls or
attempts and then stops.

Fairness. `Monitoring!Fairness`: live workers take their next step, time passes, and the
scheduler goes on calling `monitor_target` for active targets (`run_scheduler_forever`);
crashes, requests and changes of the site are not fair. `DiscoveryRuns!FairSpec`: Flask
works on its requests, and a pending page asks again (`data-auto-refresh`); users,
timeouts and faults are not fair. `Scheduler!FairSpec`: time passes and each process that
was not stopped goes on with its loop, which catches what a pass raises. That a dead
process is started again is assumed of whatever runs `run_scheduler_forever`.
`DiscoveryPipeline!FairSpec`: the request goes on; it is sequential and every wait in it
has a timeout.

Violations: what the code does and its documentation does not say.

| Run | What it shows |
|---|---|
| `escaped_markup` | an unchanged page that spells markup is found changed and every check fails |
| `discovery_shared` | a record carries the counts of a concurrent discovery |

Where the code keeps a promise only in part, the passing property names the exception, and
the exception is real in each case:

* `EvictedOnlyWhenStale` (Monitoring): a worker slower than the threshold is evicted and
  goes on beside its successor.
* `OvertakenStep` (Targets): a PATCH and a discard that interleave leave an active
  DISCARDED document; a removal that saw no history deletes the target of a run in progress.
  `overtaken` only observes; no step depends on it.
* `Abandoned` (DiscoveryRuns): a call before the discovery request may time out, a request
  may be refused before its record exists, its process may die, or the call that marks it
  FAILED may fail too (`fail` refuses an exception without a message); the page then
  refreshes for ever.
* `Storages` (SnapshotStore): one instance. With `{s1, s2}`, two instances over one root
  with equal timestamps replace each other's file, and `MetadataMatchesFile` fails.
* the `sitemap` fault (DiscoveryRuns): `SummaryIsOwn` also fails without concurrency
  (`Threads = 1`), because a sitemap source that raises keeps its previous statistics.
* `alone` (`RealChangesFollowSite`, SimulatedHistory): a simulation that found no real
  snapshot stores the page it fetched earlier as the baseline; if a check stored a newer one
  meanwhile, the next check compares with a page older than the one already known.
* `ChecksAreSpaced` (Scheduler): a row that changed after the pass read it (another process
  checked the target, a user edited it) is judged by what was read; a check that could not
  write `last_checked_at` leaves the target due.
* `overtaken` (`EnrichmentIsKept`, ChangeFeed): overlapping backfills write one row each,
  the later over the earlier.

What the code does beside its properties, seen while modelling and excluded by none of
them; the documentation says nothing else, or not clearly:

* A target with history whose page type changes to or from a product listing fails after
  every fetch, because the new processor cannot read the old snapshot.
* A page that differs from its snapshot only in a space next to a closing quote
  (`"hi." Then`, `"hi. " Then`) has a new hash and an empty diff: the processor raises, no
  snapshot is stored, and every check of the page fails until it changes further.
* What a failed run stored is the baseline of the next, so its difference is not reported.
* A rediscovery decides that no user has activated a candidate on the document it read, and
  may take back an activation that came in between (`FreshKeepsActivation` excludes it). A
  discard, on the other hand, does not survive a rediscovery at all.
* An insert of snapshot metadata whose answer is lost leaves a document without its file;
  the run `snapshots` has no such fault, and the theorems exclude it by a hypothesis.
* A start of the application assigns the competitors of two known websites to the demo
  companies even if a user gave them to another (`migrate_legacy_user_ids`; what its
  docstring says of "explicitly company-assigned rows" holds of other websites only), and
  stops at the unique index if the company has that website already.
* The backfill selects rows without a link, so a change whose narrative alone failed keeps
  its mechanical summary.
* A PATCH through one company that moves a competitor to another is applied and answers 404.
* Deleting a competitor leaves its targets active and scheduled.

## 4. What is proved

Every invariant and every action property that a passing run checks is also a theorem, for
any values of the constants that satisfy the named assumptions of the modules
(`MonitoringAssumption`, `ContentAssumption`, ...). There is one module of proofs for each
checked module. All have the same shape: an inductive invariant, a lemma that every step
keeps it, with one step of the proof for each action (or each class of actions that touch
the same state), and theorems that read the properties off it. Each invariant was checked
with TLC on the run of its module before it was proved.

The assumptions say that bounds are numbers, that the calls are finitely many, what shape
the websites and the first collections of an instance have, and that `None` is none of the
values it stands in for (e.g. `None \notin Row` where it says that there is no document).
TLC evaluates them in every run. None is about what the program does; the few theorems
that need more than the assumptions say so in their statement (`EscapedOnce`, and the two
hypotheses about the snapshot store).

`MonitoringProofs` proves of `Monitoring!Spec`:

* `TypesAreKept`: `TypeOK`. It is not inductive alone: which locals of a worker are set
  depends on where it is, so `TypeInv` adds `JobOK(w)`, e.g. that a worker in a run has a
  run number in range and one at its events has two snapshots. The lemmas about the
  operators of `ContentProcessing` come first.
* `ExclusiveClaim` (`AtMostOneRunning`) and `NoEarlyEviction` (`EvictedOnlyWhenStale`).
  The inductive invariant `LeaseInv` adds that two workers never work on one run
  (`DistinctRuns`), that no run started in the future (`StartsInPast`), and that a worker
  about to mark a run failed has seen it stale (`MarkedIsStale`), which stays true as the
  clock only advances. Each step is classified once (`StepHasShape`: it claims, sees,
  marks, ends, begins, or leaves the lease alone), so that the invariant is proved over six
  shapes rather than over every action.
* `TerminalRecords` (`TerminalIsFinal`): the two conditional updates are the only writes.
* `RunsImplementLease` (`ImplementsLease`): under `LeaseInv` the CHOOSE in `Holder` names
  the one RUNNING run, and every shape is a lease step or a stutter.
* `ChangesAreLinked`, `LastChangedReported`, `SuccessesAreSerial` and `SuccessesAreComplete`
  (`ChangesLinkSnapshots`, `LastChangedIsReported`, `SuccessfulRunsAreSerial`,
  `SuccessIsComplete`). A worker whose run was reclaimed goes on writing, so nothing can be
  said of a run by its record alone: `HistoryInv` says of each worker, by its position,
  which snapshot its run has stored (`SnapFact`), what it compared that with (`BaseFact`)
  and which events it has recorded and has left (`EventFact`). Only `SerialFact`, that no
  newer run of the target has succeeded, needs the run still to be RUNNING; that is the
  guard under which it may become a SUCCESS. Time, snapshots and changes only grow
  (`Growth`), which carries the facts of one worker through the steps of the others.
  `SuccessesAreComplete` assumes `EscapedOnce`: that no page is escaped more than once.
  Without it the statement is false: the snapshot is normalised once more than the page was
  when it was compared. A page escaped twice is stored escaped once; if the site then serves
  it escaped once, it compares equal, and its snapshot differs from the one before without
  an event. This is the other side of the finding `escaped_markup`; the run has
  `MaxRefs = 1`.

`SchedulerProofs` proves of `Scheduler!Spec`:

* `TypesAreKept`: `TypeOK`, through `TypeInv`, which adds that a pass has a target exactly
  while it is in a check, and its rows while it is in the loop (`PassOK`).
* `PassesAccount` (`EveryTargetIsAccounted`): the five parts of a pass partition what it
  listed. `Accounted` restates this without the union over an index; every step moves one
  target from one part to another or starts over.
* `ChecksKeepDistance` (`ChecksAreSpaced`): a pass at its claim found the row it read due
  at a time that is not later than the clock (`SpacedInv`, `DueAtClaim`), so that a check
  that begins now begins an interval after the one recorded in that row.

`SimulationProofs` proves of `SimulatedHistory!Spec`:

* `TypesAreKept` (`TypeOK`) and `HistoriesStayApart` (`TagsAgree`). A change takes its two
  snapshots from the process that records it, so `JobOK` says of each process, by its
  position, that the snapshot it compares with is real, or that it is a first check and has
  no events, and that what it stored carries its own tag. Snapshots are only appended
  (`Kept`), which carries this through the steps of the others (`CheckStep`, `SimStep`).
* `ChangesFollowSite` (`RealChangesFollowSite`). The model does not remember which page the
  site served at which version, and the property is about versions only. `Hist` says that
  some assignment of pages to versions explains every fetch in progress and the content of
  every real snapshot (`Around`); an unequal hash then means an unequal version, and
  `mark`, that no real snapshot from before a fetch is newer than it, gives the direction.
  Only the newer snapshot of a change has to be `alone` for that.
* `SimulationsAreComplete` (`SimulationIsComplete`): a simulation knows at each position
  which part of its difference it has recorded (`Tells`), and no other process records a
  change of the snapshot that it stored (`Apart`).

`TargetsProofs` proves of `Targets!Spec`, for any set of operations:

* `TypesAreKept` (`TypeOK`) and `OneDocumentPerUrl` (`UrlsAreUnique`).
* `ActivationSurvives`, `ActiveSurvives`, `HistorySurvives` (the three `Fresh` properties).
  What a request is about to write is right for the document as it was read, and for as
  long as nobody changes that document: `FreshOK` lists what of it the write depends on,
  for every request that is not in `overtaken`. All three follow from one lemma about a
  step that is not overtaken (`FreshIsSafe`).

`SnapshotProofs` proves of `SnapshotStore!Spec`:

* `TypesAreKept` (`TypeOK`): a call passes over a name only if another call has taken it
  for good (`SuffixInv`), so the search ends after as many suffixes as there are other calls.
* `NoFileIsOrphaned` (`NoOrphans`), for any storages and all faults.
* `DocumentsMatchFiles` (`MetadataMatchesFile`) and `SnapshotsAreArchived`
  (`ImplementsArchive`): the name a call is about to use is free (`NameInv`) because it
  holds the lock of its storage (`LockInv`), and the file of a call that wrote one is its
  own (`FileInv`). A step of the store is then one entry more in the archive or a stutter.
  Two hypotheses name what the code relies on: no answer of `insert_one` is lost (otherwise
  the deletion that follows removes the file of a document that exists), and no two
  storages read one clock value (`ClocksDiffer`, in every state of the behaviour), since
  their locks do not exclude each other. `OneStorageMatches` and `OneStorageArchives` have
  one storage instead of the second hypothesis.

`DiscoveryProofs` proves of `DiscoveryRuns!Spec`, for all faults:

* `TypesAreKept`, `SuccessCounts`, `NoContradiction`, `OneWorks`, `EndsAreRecorded`
  (`TypeOK`, `SuccessIsComplete`, `VerdictsAgree`, `OneRunPerId`, `FinishedIsRecorded`). A
  record names the request that inserted it; `RecordOK` says what the two know of each
  other, `WorkInv` that a request at work owns the record of its run id. The unique index
  and the RUNNING guard of `succeed` and `fail` keep both.

`PipelineProofs` proves of `DiscoveryPipeline!Spec`, for every website and any answers:

* `TypesAreKept` (`TypeOK`) and `EvidenceDecides` (`VerdictsFollowEvidence`). The verdicts
  are about all reports of a url, which the run merges one by one: `MergeOK` says that a
  merged url is forced exactly if all its reports so far are, which `Merge` keeps in either
  order (`MergeForced`). What the patterns of `normalization.py` say of a path is not
  looked into; whatever it is, the verdict follows the evidence.

`FeedProofs` proves of `ChangeFeed!Spec`:

* `TypesAreKept` (`TypeOK`), `FeedsAreExact` (`FeedIsExact`): the collection only grows, and
  no update touches what a feed asks by, so that an answer is exact for as long as it is
  shown (`ReaderOK`), whatever moves between companies in between.
* `BackfillsFill` (`BackfillFills`) and `EnrichmentStays` (`EnrichmentIsKept`): a backfill
  knows of a row what it selected it for until another run has written that row
  (`FillerOK`). A product's link is replaced at most by itself, since anybody would find
  the same one; that is why only the changes with a text need the exception.

Only model-checked: the liveness properties (`RunsEnd`, `PollingEnds`, `DueIsChecked`,
`RunEnds`), which need fairness and are out of the prover's reach. The two findings are
counterexamples that TLC found, and there is nothing to prove about them.

Left to prove: that the scheduler implements `RunLease` (its records have no run numbers,
so this needs a history variable), and that a discovery record is written once, as an
abstract specification of its own.

## 5. What is not modelled

The HTML and XML parsers below the level of a page or sitemap value, fetching and browser
fallback beyond "a page or a failure", LLM answers beyond "any verdict, text or accepted
mutation", routes and views that forward one call, the company operations that write one
document (creating, seeding and naming companies), formatting, templates and design assets,
development scripts, and the live verification suites. `PROJECT.json` gives the reason for
every part.
