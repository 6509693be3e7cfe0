-------------------------- MODULE SimulatedHistory --------------------------
(***************************************************************************)
(* Simulated changes next to real checks, over the history of one active   *)
(* target: SimulationPersistenceService.simulate_and_persist_change with   *)
(* the mutations of simulated_verification.  A simulation fetches the      *)
(* page, takes the newest real snapshot as its baseline (or stores one),   *)
(* lets a language model mutate the page, and stores the outcome as a      *)
(* tagged snapshot with tagged changes.  It claims no run, so it           *)
(* interleaves with a check and with other simulations at every call.      *)
(*                                                                         *)
(* A check is reduced to its fetch, comparison, snapshot and changes; the  *)
(* claim lets one at a time run (module Monitoring, which has takeovers).  *)
(* Simulations of an inactive, missing or foreign target are refused       *)
(* before their first effect and do not appear.  captured_at is read just  *)
(* before a snapshot is stored and is identified with the order of storing.*)
(*                                                                         *)
(* A definition that no other one uses (AnySnapshot, Untagged, ...) is a   *)
(* deliberate mutation of the definition below it.                         *)
(***************************************************************************)
EXTENDS ContentProcessing, FiniteSets

CONSTANTS
    Sims,           \* the requests that simulate a change, each sent once
    Kinds,          \* the mutation types of a listing that an instance includes
    Pages,          \* the states the monitored site goes through
    StartTypes,     \* the page types the target may have
    MaxVersions,    \* bound: how often the site is published
    MaxSnaps        \* bound: snapshots stored

ASSUME SimulationAssumption ==
    /\ Pages \subseteq RawPage
    /\ StartTypes \subseteq PageTypes
    /\ Kinds \subseteq {"ALL", "NEW_PRODUCT", "PRODUCT_REMOVED", "PRICE_CHANGE"}
    /\ MaxVersions \in Nat \ {0} /\ MaxSnaps \in Nat
    /\ None \notin Pages \cup Content \cup Sims

VARIABLES
    site,       \* the page now served, and how many were served before it
    pageType,   \* the target's page_type
    snaps,      \* snapshots with their files, in insertion order; the fields version
                \* and alone only record what was fetched, and what was not stored since
    changes,    \* changes
    check,      \* the real check in progress
    sim         \* sim[m]: simulation m in progress

vars == <<site, pageType, snaps, changes, check, sim>>

\* Both processes have these locals; `prev` is the snapshot compared with, 0 if none.
Idle == [at |-> "idle", page |-> None, version |-> 0, mark |-> 0, prev |-> 0,
         content |-> None, cur |-> 0, left |-> {}]
Over == [Idle EXCEPT !.at = "over"]

Init ==
    /\ site \in [page : Pages, version : {1}]
    /\ pageType \in StartTypes
    /\ snaps = <<>> /\ changes = {}
    /\ check = Idle
    /\ sim = [m \in Sims |-> Idle]

-----------------------------------------------------------------------------
(* Snapshots and changes.                                                  *)

\* list_for_target(include_simulated=False), and its first record, 0 if there is none.
AnySnapshot == DOMAIN snaps
RealSnaps == {s \in DOMAIN snaps : snaps[s].real}

Newest == IF RealSnaps = {} THEN 0 ELSE CHOOSE s \in RealSnaps : \A o \in RealSnaps : o <= s

ContentOf(s) == IF s = 0 THEN None ELSE snaps[s].content

\* create_snapshot normalizes once more and stores the tag it is given.
Untagged(j, real) == [content |-> Normalize(j.content), real |-> TRUE, version |-> j.version,
                      alone |-> \A o \in RealSnaps : o <= j.mark]
Snapshot(j, real) == [content |-> Normalize(j.content), real |-> real, version |-> j.version,
                      alone |-> \A o \in RealSnaps : o <= j.mark]

\* create_change refuses a missing snapshot, two snapshots with one hash, and an
\* empty diff.
Recordable(j) == /\ j.prev # 0 /\ j.cur # 0
                 /\ Differ(ContentOf(j.prev), ContentOf(j.cur))

Change(j, e, real) == [prev |-> j.prev, cur |-> j.cur, event |-> e, real |-> real]

\* The page as served now.
Fetched(j) == [j EXCEPT !.at = "compare", !.page = site.page, !.version = site.version,
                        !.mark = Len(snaps)]

-----------------------------------------------------------------------------
(* A real check.                                                           *)

Check(j) == check' = j /\ UNCHANGED <<site, pageType, sim>>

CheckFetches ==
    /\ check.at = "idle"
    /\ Check(Fetched(check))
    /\ UNCHANGED <<snaps, changes>>

CheckCompares ==
    /\ check.at = "compare"
    /\ LET result == Process(pageType, check.page, ContentOf(Newest))
       IN  IF result.ok
           THEN Check([check EXCEPT !.at = "store", !.page = None, !.prev = Newest,
                                    !.content = result.content, !.left = result.events])
           ELSE Check(Idle)
    /\ UNCHANGED <<snaps, changes>>

CheckStores ==
    /\ check.at = "store"
    /\ Len(snaps) < MaxSnaps
    /\ snaps' = Append(snaps, Snapshot(check, TRUE))
    /\ Check([check EXCEPT !.at = "record", !.content = None, !.cur = Len(snaps) + 1])
    /\ UNCHANGED changes

\* The loop over the events of a check, one create_change each.
CheckRecords ==
    /\ check.at = "record"
    /\ Recordable(check)
    /\ \E e \in check.left :
          /\ \A f \in check.left \ {e} : Precedes(e, f)
          /\ changes' = changes \cup {Change(check, e, TRUE)}
          /\ Check([check EXCEPT !.left = @ \ {e}])
    /\ UNCHANGED snaps

CheckEnds ==
    /\ check.at = "record" /\ check.left = {}
    /\ Check(Idle)
    /\ UNCHANGED <<snaps, changes>>

\* The site is down, a call raises, create_change refuses, the process dies.
CheckFails == check.at # "idle" /\ Check(Idle) /\ UNCHANGED <<snaps, changes>>

-----------------------------------------------------------------------------
(* Mutations of a page.                                                    *)

Includes(kind, change) == kind \in {"ALL", change}

Plan == [new : Keys \cup {None}, offer : Offer, removed : Keys \cup {None},
         repriced : Keys \cup {None}, price : Prices]

\* What the validation lets through of the plans a language model may return: a new
\* key that no product has, existing and different keys to remove and to reprice, and
\* a price that differs.
ValidPlans(products, kind) ==
    {plan \in Plan :
        /\ plan.new # None <=> Includes(kind, "NEW_PRODUCT")
        /\ plan.removed # None <=> Includes(kind, "PRODUCT_REMOVED")
        /\ plan.repriced # None <=> Includes(kind, "PRICE_CHANGE")
        /\ plan.new # None => products[plan.new] = None
        /\ plan.removed # None => products[plan.removed] # None
        /\ plan.repriced # None => /\ products[plan.repriced] # None
                                   /\ products[plan.repriced].price # plan.price
                                   /\ plan.repriced # plan.removed}

ApplyUnpriced(products, plan) ==
    [k \in Keys |-> CASE k = plan.removed  -> None
                      [] k = plan.new      -> [plan.offer EXCEPT !.price = None]
                      [] k = plan.repriced -> [products[k] EXCEPT !.price = plan.price]
                      [] OTHER             -> products[k]]
ApplyPlan(products, plan) ==
    [k \in Keys |-> CASE k = plan.removed  -> None
                      [] k = plan.new      -> plan.offer
                      [] k = plan.repriced -> [products[k] EXCEPT !.price = plan.price]
                      [] OTHER             -> products[k]]

\* simulate_product_listing_change and simulate_product_mutation: the events are the
\* difference to the products of the fetched page, whatever the baseline says.
ListingMutations(page) ==
    LET products == ExtractProducts(page.cards)
    IN  IF Cardinality({k \in Keys : products[k] # None}) < 2 THEN {}
        ELSE UNION {{[content |-> SerializeProducts(ApplyPlan(products, plan)),
                      events  |-> DiffByKey(products, ApplyPlan(products, plan))] :
                        plan \in ValidPlans(products, kind)} : kind \in Kinds}

\* _insert_text_fragment: the page with something added to it.
WithFragment(page) == {[page EXCEPT !.text = t] : t \in Texts}

\* simulate_text_change: the processor compares the mutated page with the baseline
\* and must report exactly one event.
TextMutations(page, previous) ==
    LET results == {TextBlobProcess(pageType, p, previous) : p \in WithFragment(page)}
    IN  {[content |-> r.content, events |-> r.events] : r \in {x \in results : x.changed}}

Mutations(page, previous) ==
    IF pageType = "PRODUCT_LISTING" THEN ListingMutations(page)
                                    ELSE TextMutations(page, previous)

-----------------------------------------------------------------------------
(* A simulation.                                                           *)

Sim(m, j) == sim' = [sim EXCEPT ![m] = j] /\ UNCHANGED <<site, pageType, check>>

\* Reads the target and fetches its page.
SimFetches(m) ==
    /\ sim[m].at = "idle"
    /\ Sim(m, Fetched(sim[m]))
    /\ UNCHANGED <<snaps, changes>>

\* _latest_real_snapshot; without one the page as fetched becomes the baseline.
SimReadsBaseline(m) ==
    LET j == sim[m]
    IN  /\ j.at = "compare"
        /\ IF Newest = 0
           THEN Sim(m, [j EXCEPT !.at = "baseline",
                                 !.content = Process(pageType, j.page, None).content])
           ELSE Sim(m, [j EXCEPT !.at = "mutate", !.prev = Newest])
        /\ UNCHANGED <<snaps, changes>>

\* _create_real_baseline
SimStoresBaseline(m) ==
    LET j == sim[m]
    IN  /\ j.at = "baseline"
        /\ Len(snaps) < MaxSnaps
        /\ snaps' = Append(snaps, Snapshot(j, TRUE))
        /\ Sim(m, [j EXCEPT !.at = "mutate", !.content = None, !.prev = Len(snaps) + 1])
        /\ UNCHANGED changes

SimMutates(m) ==
    LET j == sim[m]
    IN  /\ j.at = "mutate"
        /\ \E x \in Mutations(j.page, ContentOf(j.prev)) :
              Sim(m, [j EXCEPT !.at = "store", !.content = x.content, !.left = x.events])
        /\ UNCHANGED <<snaps, changes>>

SimStores(m) ==
    LET j == sim[m]
    IN  /\ j.at = "store"
        /\ Len(snaps) < MaxSnaps
        /\ snaps' = Append(snaps, Snapshot(j, FALSE))
        /\ Sim(m, [j EXCEPT !.at = "record", !.content = None, !.cur = Len(snaps) + 1])
        /\ UNCHANGED changes

\* The loop over the events; the request is answered after the last one.
FirstEventOnly(left) == "respond"
AfterEvent(left) == IF left = {} THEN "respond" ELSE "record"

SimRecords(m) ==
    LET j == sim[m]
    IN  /\ j.at = "record"
        /\ Recordable(j)
        /\ \E e \in j.left :
              /\ \A f \in j.left \ {e} : Precedes(e, f)
              /\ changes' = changes \cup {Change(j, e, FALSE)}
              /\ Sim(m, [j EXCEPT !.at = AfterEvent(j.left \ {e}), !.left = @ \ {e}])
        /\ UNCHANGED snaps

SimResponds(m) == sim[m].at = "respond" /\ Sim(m, Over) /\ UNCHANGED <<snaps, changes>>

\* The site or the language model fails, no mutation is accepted, create_change
\* refuses, a call raises, the process dies: what was stored stays.
SimFails(m) ==
    /\ sim[m].at \notin {"idle", "over"}
    /\ Sim(m, Over)
    /\ UNCHANGED <<snaps, changes>>

-----------------------------------------------------------------------------
(* Around them.                                                            *)

Publish ==
    /\ site.version < MaxVersions
    /\ \E p \in Pages \ {site.page} : site' = [page |-> p, version |-> site.version + 1]
    /\ UNCHANGED <<pageType, snaps, changes, check, sim>>

Next ==
    \/ CheckFetches \/ CheckCompares \/ CheckStores \/ CheckRecords
    \/ CheckEnds \/ CheckFails
    \/ \E m \in Sims : \/ SimFetches(m) \/ SimReadsBaseline(m) \/ SimStoresBaseline(m)
                       \/ SimMutates(m) \/ SimStores(m) \/ SimRecords(m)
                       \/ SimResponds(m) \/ SimFails(m)
    \/ Publish

Spec == Init /\ [][Next]_vars

-----------------------------------------------------------------------------
(* Properties.                                                             *)

Labels == {"idle", "compare", "baseline", "mutate", "store", "record", "respond", "over"}
Version == 0..MaxVersions
Job == [at : Labels, page : Pages \cup {None}, version : Version, mark : 0..MaxSnaps,
        prev : 0..MaxSnaps, content : Content \cup {None},
        cur : 0..MaxSnaps, left : SUBSET Event]
Snap == [content : Content, real : BOOLEAN, version : Version, alone : BOOLEAN]

\* Every variable stays within its type.
TypeOK ==
    /\ site \in [page : Pages, version : Version]
    /\ pageType \in PageTypes
    /\ snaps \in Seq(Snap)
    /\ changes \subseteq [prev : DOMAIN snaps, cur : DOMAIN snaps, event : Event,
                          real : BOOLEAN]
    /\ check \in Job
    /\ sim \in [Sims -> Job]

\* Simulated and real history do not mix: what a change is compared with is always
\* real, and a change is marked simulated exactly when its newer snapshot is
\* (docs/api-contract.md: "The next genuine monitor_target comparison explicitly
\* excludes simulated snapshots"; the module "writes only records marked
\* is_simulated=True").
TagsAgree ==
    \A c \in changes : snaps[c.prev].real /\ c.real = snaps[c.cur].real

\* A real change tells that the site was changed between two fetches, in this order,
\* however many simulations ran in between and wherever they failed, as long as no
\* real snapshot was stored between the fetch and the snapshot of the check.  (A
\* simulation that found no baseline stores the page it had fetched before; a check
\* whose fetch is older than that page compares backwards.)
RealChangesFollowSite ==
    \A c \in changes :
        c.real /\ snaps[c.cur].alone => snaps[c.prev].version < snaps[c.cur].version

EventsOf(s) == {c.event : c \in {d \in changes : d.cur = s}}

\* A simulation that is answered has recorded its whole difference: one event for a
\* text; for a listing what tells the stored products from the baseline, provided
\* that the page had not moved on from the baseline (the events are computed from the
\* fetched products, and recorded against the baseline).
SimulationIsComplete ==
    \A m \in Sims : sim[m].at = "respond" =>
        LET base == ContentOf(sim[m].prev)
            stored == ContentOf(sim[m].cur)
        IN  /\ stored # base
            /\ pageType # "PRODUCT_LISTING" => Cardinality(EventsOf(sim[m].cur)) = 1
            /\ base = SerializeProducts(ExtractProducts(sim[m].page.cards)) =>
                  EventsOf(sim[m].cur) = DiffByKey(base.products, stored.products)
=============================================================================
