----------------------------- MODULE ChangeFeed -----------------------------
(***************************************************************************)
(* What becomes of recorded changes: the feed that shows a company the     *)
(* changes of its competitors, and the text and link that create_change    *)
(* adds to a change and the backfill script supplies to older ones.        *)
(* Meanwhile competitors are created, given to other companies and         *)
(* deleted, and application processes start, which assigns competitors of  *)
(* known websites to the demo companies.                                   *)
(*                                                                         *)
(* When and why a change is detected is the subject of Monitoring, what    *)
(* happens to targets that of Targets: here any stored target may get a    *)
(* change, and the documents of targets stay; some changes may outlive     *)
(* theirs, as Targets shows.  A link is the target's url or a specific     *)
(* one, a narrative is one of a few texts; names, statuses and the number  *)
(* of a backfill's rows (--limit, --dry-run) are left out.                 *)
(*                                                                         *)
(* A definition that no other one uses (IgnoresCompany, SelectsAll, ...)   *)
(* is a deliberate mutation of the definition below it.                    *)
(***************************************************************************)
EXTENDS Naturals, Sequences, FiniteSets

CONSTANTS
    Companies,
    Competitors,
    Targets,
    Stored,         \* those that have a document
    CompetitorOf,   \* competitor_id of each target's document
    WebsiteOf,      \* website_url of each competitor
    Demo,           \* company_by_host: what a start assigns to a website
    Readers,        \* requests for changes
    Fillers,        \* runs of the backfill script
    Texts,          \* narratives
    Limits,         \* limit of a feed request
    Logs,           \* what was recorded before changes had links and narratives
    MaxTime,        \* bound: detected_at
    MaxChanges,     \* bound: changes that are ever recorded
    MaxEvents,      \* bound: requests, new changes, backfills, operations on competitors
    None

Ids == 1..MaxChanges

\* The types of change events: those with a narrative, and those of products.
Kinds == {"narrative", "product", "removal"}

\* A document of the collection changes; named: its summary names a product's path.
Links  == {"target", "specific"}
Change == [target : Targets, kind : Kinds, named : BOOLEAN, at : 1..MaxTime,
           narrative : Texts \cup {None}, url : Links \cup {None}]

ASSUME FeedAssumption ==
    /\ Stored \subseteq Targets
    /\ CompetitorOf \in [Targets -> Competitors]
    /\ DOMAIN WebsiteOf = Competitors
    /\ \A w \in DOMAIN Demo : Demo[w] \in Companies
    /\ Limits \subseteq Nat \ {0}
    /\ MaxTime \in Nat /\ MaxChanges \in Nat /\ MaxEvents \in Nat
    /\ \A log \in Logs : /\ log \in Seq(Change) /\ Len(log) <= MaxChanges
                        /\ \A i \in DOMAIN log : log[i].url = None
    /\ None \notin Companies /\ None \notin Competitors /\ None \notin Targets
    /\ None \notin Texts /\ None \notin Ids /\ None \notin Links

VARIABLES
    company,    \* company_id, by the competitors that have a document
    changes,    \* the change documents, as they were inserted
    starting,   \* competitors that a starting process has yet to look at
    reader,     \* the requests for changes
    filler,     \* the runs of the backfill
    events

vars == <<company, changes, starting, reader, filler, events>>

Ask == [company : Companies \cup {None}, competitor : Competitors \cup {None},
        target : Targets \cup {None}, limit : Limits]

\* owned and known are observations: what the company owned, and which changes there
\* were, when the request read its scope.
Reader == [at : {"idle", "scoped", "answered"}, ask : Ask \cup {None},
           scope : SUBSET Targets, answer : SUBSET Ids,
           owned : SUBSET Competitors, known : SUBSET Ids]

\* rows: selected rows to come; told: those that had a narrative when they were
\* selected; overtaken (an observation): rows that another run has written since.
Filler == [at : {"idle", "rows", "write"}, selected : SUBSET Ids, rows : SUBSET Ids,
           told : SUBSET Ids, row : Ids \cup {None}, narrative : Texts \cup {None},
           url : Links \cup {None}, failed : SUBSET Ids, overtaken : SUBSET Ids]

NoReader == [at |-> "idle", ask |-> None, scope |-> {}, answer |-> {},
             owned |-> {}, known |-> {}]
NoFiller == [at |-> "idle", selected |-> {}, rows |-> {}, told |-> {}, row |-> None,
             narrative |-> None, url |-> None, failed |-> {}, overtaken |-> {}]

\* The unique index on company_id and website_url; it has documents without a
\* company_id as well.
NeverTaken(co, c) == FALSE
Taken(co, c) == \E d \in DOMAIN company \ {c} :
                    company[d] = co /\ WebsiteOf[d] = WebsiteOf[c]

WebsitesDiffer == \A c, d \in DOMAIN company :
                     c # d /\ company[c] = company[d] => WebsiteOf[c] # WebsiteOf[d]

Init ==
    /\ company \in UNION {[cs -> Companies \cup {None}] : cs \in SUBSET Competitors}
    /\ WebsitesDiffer
    /\ changes \in Logs
    /\ starting = {}
    /\ reader = [r \in Readers |-> NoReader]
    /\ filler = [f \in Fillers |-> NoFiller]
    /\ events = 0

Event == events < MaxEvents /\ events' = events + 1

-----------------------------------------------------------------------------
(* Competitors (CompetitorService) and the start of a process.             *)

CreateCompetitor(c, co) ==
    /\ Event
    /\ c \notin DOMAIN company /\ ~Taken(co, c)
    /\ company' = [d \in DOMAIN company \cup {c} |-> IF d = c THEN co ELSE company[d]]
    /\ UNCHANGED <<changes, starting, reader, filler>>

\* PATCH of company_id; None takes the competitor away from every company.
UpdateCompetitor(c, co) ==
    /\ Event
    /\ c \in DOMAIN company /\ ~Taken(co, c)
    /\ company' = [company EXCEPT ![c] = co]
    /\ UNCHANGED <<changes, starting, reader, filler>>

\* Targets and changes of the competitor stay.
DeleteCompetitor(c) ==
    /\ Event
    /\ c \in DOMAIN company
    /\ company' = [d \in DOMAIN company \ {c} |-> company[d]]
    /\ UNCHANGED <<changes, starting, reader, filler>>

Start ==
    /\ Event
    /\ starting = {}
    /\ starting' = DOMAIN company
    /\ UNCHANGED <<company, changes, reader, filler>>

\* migrate_legacy_user_ids, one document: a website of company_by_host goes to its demo
\* company whatever it was assigned to before.  If the company has another competitor
\* with that website the index refuses, and the process does not start.
Migrate(c) ==
    /\ c \in starting
    /\ IF c \in DOMAIN company /\ WebsiteOf[c] \in DOMAIN Demo
       THEN IF Taken(Demo[WebsiteOf[c]], c)
            THEN starting' = {} /\ UNCHANGED company
            ELSE /\ company' = [company EXCEPT ![c] = Demo[WebsiteOf[c]]]
                 /\ starting' = starting \ {c}
       ELSE starting' = starting \ {c} /\ UNCHANGED company
    /\ UNCHANGED <<changes, reader, filler, events>>

-----------------------------------------------------------------------------
(* What create_change adds to a change.                                    *)

\* The provider's answer (generate_narrative_summary_with_url); its link counts only if
\* it is on the target's site and alive (resolve_blog_detected_url).  Without an answer
\* there is no narrative and the link is the target's url.
Narrated == [narrative : Texts, url : Links]
Unnarrated == [narrative |-> None, url |-> "target"]

\* resolve_product_detected_url: the path that is passed or that the summary names; a
\* removed product without one has no link, and its change is not recorded.
ProductUrl(kind, named) ==
    IF named THEN "specific" ELSE IF kind = "removal" THEN None ELSE "target"

RecordChange(t, kind, named, at) ==
    /\ Event
    /\ t \in Stored
    /\ Len(changes) < MaxChanges
    /\ \E add \in IF kind = "narrative" THEN Narrated \cup {Unnarrated}
                  ELSE {[narrative |-> None, url |-> ProductUrl(kind, named)]} \
                       {[narrative |-> None, url |-> None]} :
          changes' = Append(changes, [target |-> t, kind |-> kind, named |-> named, at |-> at,
                                      narrative |-> add.narrative, url |-> add.url])
    /\ UNCHANGED <<company, starting, reader, filler>>

-----------------------------------------------------------------------------
(* The feed (ChangeService.list_changes, get_change).                      *)

TargetsOf(cs) == {t \in Stored : CompetitorOf[t] \in cs}
OwnedBy(co) == {c \in DOMAIN company : company[c] = co}

\* Requests outside the company's scope get an empty feed.
Refused(q) ==
    /\ q.company # None
    /\ \/ q.competitor # None /\ q.competitor \notin OwnedBy(q.company)
       \/ q.target # None /\ q.target \notin TargetsOf(OwnedBy(q.company))

\* Without a company, the request for a target that has no document is answered with an
\* error (ChangeNotFoundError); nothing of it is kept.
NotFound(q) == q.company = None /\ q.target # None /\ q.target \notin Stored

\* The targets whose changes are asked for; all, also lost ones, without any filter.
IgnoresCompany(q) ==
    (IF q.target # None THEN {q.target} ELSE Targets)
    \cap (IF q.competitor # None THEN TargetsOf({q.competitor}) ELSE Targets)
ScopeOf(q) ==
    (IF q.target # None THEN {q.target}
     ELSE IF q.company # None /\ q.competitor = None THEN TargetsOf(OwnedBy(q.company))
     ELSE Targets)
    \cap (IF q.competitor # None THEN TargetsOf({q.competitor}) ELSE Targets)

\* Competitors and then their targets are read; documents of targets do not change.
ReadScope(r, q) ==
    /\ Event
    /\ reader[r].at = "idle"
    /\ ~NotFound(q)
    /\ reader' = [reader EXCEPT ![r] =
            [at |-> "scoped", ask |-> q, scope |-> IF Refused(q) THEN {} ELSE ScopeOf(q),
             answer |-> {}, owned |-> OwnedBy(q.company), known |-> DOMAIN changes]]
    /\ UNCHANGED <<company, changes, starting, filler>>

\* ChangeRepository.list: sorted by detected_at and cut off at the limit.
LatestInserted(ids, n) == {i \in ids : Cardinality({j \in ids : j > i}) < n}
Latest(ids, n) ==
    LET size == IF Cardinality(ids) < n THEN Cardinality(ids) ELSE n
    IN  CHOOSE s \in SUBSET ids :
            /\ Cardinality(s) = size
            /\ \A i \in s, j \in ids \ s : changes[i].at >= changes[j].at

ReadChanges(r) ==
    /\ reader[r].at = "scoped"
    /\ reader' = [reader EXCEPT ![r].at = "answered",
            ![r].answer = Latest({i \in DOMAIN changes : changes[i].target \in reader[r].scope},
                                 reader[r].ask.limit)]
    /\ UNCHANGED <<company, changes, starting, filler, events>>

Forget(r) ==
    /\ reader[r].at = "answered"
    /\ reader' = [reader EXCEPT ![r] = NoReader]
    /\ UNCHANGED <<company, changes, starting, filler, events>>

-----------------------------------------------------------------------------
(* scripts/backfill_narrative_summaries.py.                                *)

\* list_needing_detected_url.
SelectsAll == DOMAIN changes
Selected == {i \in DOMAIN changes : changes[i].url = None}

Fill(f) ==
    /\ Event
    /\ filler[f].at = "idle"
    /\ filler' = [filler EXCEPT ![f] =
            [NoFiller EXCEPT !.at = "rows", !.rows = Selected, !.selected = Selected,
                             !.told = {i \in Selected : changes[i].narrative # None}]]
    /\ UNCHANGED <<company, changes, starting, reader>>

\* The rows in the order of detected_at.
IsNextRow(f, i) == /\ filler[f].at = "rows"
                   /\ i \in filler[f].rows
                   /\ \A j \in filler[f].rows : changes[i].at <= changes[j].at

Others(f, i) == [g \in Fillers |-> IF g # f /\ i \in filler[g].selected
                                   THEN [filler[g] EXCEPT !.overtaken = @ \cup {i}]
                                   ELSE filler[g]]

\* The target or the snapshots are missing, the provider fails, or a removed product
\* has no link: the row is counted as failed.
RowFails(f, i) ==
    /\ IsNextRow(f, i)
    /\ \/ changes[i].target \notin Stored
       \/ changes[i].kind = "narrative"
       \/ changes[i].kind # "narrative" /\ ProductUrl(changes[i].kind, changes[i].named) = None
    /\ filler' = [filler EXCEPT ![f].rows = @ \ {i}, ![f].failed = @ \cup {i}]
    /\ UNCHANGED <<company, changes, starting, reader, events>>

\* A product's link is found without anybody's help and written at once.
FillProduct(f, i) ==
    /\ IsNextRow(f, i)
    /\ changes[i].target \in Stored /\ changes[i].kind # "narrative"
    /\ ProductUrl(changes[i].kind, changes[i].named) # None
    /\ changes' = [changes EXCEPT ![i].url = ProductUrl(changes[i].kind, changes[i].named)]
    /\ filler' = [Others(f, i) EXCEPT ![f].rows = @ \ {i}]
    /\ UNCHANGED <<company, starting, reader, events>>

\* The provider answers.
Narrate(f, i) ==
    /\ IsNextRow(f, i)
    /\ changes[i].target \in Stored /\ changes[i].kind = "narrative"
    /\ \E add \in Narrated :
          filler' = [filler EXCEPT ![f].at = "write", ![f].rows = @ \ {i}, ![f].row = i,
                                   ![f].narrative = add.narrative, ![f].url = add.url]
    /\ UNCHANGED <<company, changes, starting, reader, events>>

\* update_enrichment writes whatever the document has by now; the narrative is among
\* the values unless the row had one when it was selected.
AlwaysWrites(f) == filler[f].narrative
OnlyTheLink(f) == changes[filler[f].row].narrative
NarrativeToWrite(f) == IF filler[f].row \in filler[f].told
                       THEN changes[filler[f].row].narrative ELSE filler[f].narrative

WriteRow(f) ==
    /\ filler[f].at = "write"
    /\ LET i == filler[f].row
       IN  /\ changes' = [changes EXCEPT ![i].url = filler[f].url,
                                         ![i].narrative = NarrativeToWrite(f)]
           /\ filler' = [Others(f, i) EXCEPT ![f].at = "rows", ![f].row = None,
                                             ![f].narrative = None, ![f].url = None]
    /\ UNCHANGED <<company, starting, reader, events>>

\* The script ends, or is stopped before that.
EndFill(f) ==
    /\ filler[f].at # "idle"
    /\ filler' = [filler EXCEPT ![f] = NoFiller]
    /\ UNCHANGED <<company, changes, starting, reader, events>>

Next ==
    \/ \E c \in Competitors :
          \/ \E co \in Companies \cup {None} : CreateCompetitor(c, co) \/ UpdateCompetitor(c, co)
          \/ DeleteCompetitor(c) \/ Migrate(c)
    \/ Start
    \/ \E t \in Targets, kind \in Kinds, named \in BOOLEAN, at \in 1..MaxTime :
          (kind = "narrative" => ~named) /\ RecordChange(t, kind, named, at)
    \/ \E r \in Readers : \/ \E q \in Ask : ReadScope(r, q)
                          \/ ReadChanges(r) \/ Forget(r)
    \/ \E f \in Fillers : \/ Fill(f) \/ WriteRow(f) \/ EndFill(f)
                          \/ \E i \in Ids : RowFails(f, i) \/ FillProduct(f, i) \/ Narrate(f, i)

Spec == Init /\ [][Next]_vars

-----------------------------------------------------------------------------
(* Properties.                                                             *)

\* Every variable stays within its type; no company has one website twice,
\* whatever a start assigns to it.
TypeOK ==
    /\ DOMAIN company \subseteq Competitors
    /\ \A c \in DOMAIN company : company[c] \in Companies \cup {None}
    /\ WebsitesDiffer
    /\ changes \in Seq(Change) /\ Len(changes) <= MaxChanges
    /\ starting \subseteq Competitors
    /\ reader \in [Readers -> Reader]
    /\ filler \in [Fillers -> Filler]
    /\ events \in 0..MaxEvents

\* Whether a request asked for a change, as its filters and the company's competitors
\* were when it read them.
AskedFor(r, i) ==
    LET q == reader[r].ask
        t == changes[i].target
    IN  /\ q.company # None => CompetitorOf[t] \in reader[r].owned /\ t \in Stored
        /\ q.competitor # None => CompetitorOf[t] = q.competitor /\ t \in Stored
        /\ q.target # None => t = q.target /\ t \in Stored

\* A feed shows nothing of another company's competitors or of what its filters leave
\* out.  It leaves out a change that was there when it began only if it is full of
\* changes that are not older (list_changes; ChangeRepository.list).
FeedIsExact ==
    \A r \in Readers : reader[r].at = "answered" =>
        LET shown == reader[r].answer
        IN  /\ \A i \in shown : AskedFor(r, i)
            /\ \A i \in reader[r].known \ shown : AskedFor(r, i) =>
                  /\ Cardinality(shown) = reader[r].ask.limit
                  /\ \A j \in shown : changes[j].at >= changes[i].at

\* A link or narrative that a change has is not replaced ("It is safe to re-run"),
\* with one exception: a run of the backfill that selected the row before another run
\* wrote it writes it again.
EnrichmentIsKept ==
    [][\A i \in DOMAIN changes :
          (\A f \in Fillers : filler[f].row = i /\ filler'[f].row # i =>
                                 i \notin filler[f].overtaken) =>
              /\ changes[i].narrative # None => changes'[i].narrative = changes[i].narrative
              /\ changes[i].url # None => changes'[i].url = changes[i].url]_vars

\* What a backfill has gone through and not counted as failed has a link and, if its
\* type is one of those with a text, a narrative, whatever other runs write meanwhile
\* (run_backfill: processed and failed of its counts).
BackfillFills ==
    \A f \in Fillers : \A i \in filler[f].selected :
        i \notin filler[f].rows \cup filler[f].failed \cup {filler[f].row} =>
            /\ changes[i].url # None
            /\ changes[i].kind = "narrative" => changes[i].narrative # None
=============================================================================
