-------------------------- MODULE SimulationProofs --------------------------
(***************************************************************************)
(* Simulated and real history do not mix, for any number of simulations,   *)
(* any pages and mutations, and any bounds of SimulatedHistory.            *)
(*                                                                         *)
(* TagsAgree is not inductive: a change takes its two snapshots from the   *)
(* process that records it, so JobOK says of each process, by the step it  *)
(* is at, that what it compares with is real (or that it has nothing to    *)
(* record), and that what it has stored carries its own tag.  Snapshots    *)
(* are only appended (Kept), so that what holds of one goes on holding.    *)
(*                                                                         *)
(* The second half is about what the history says.  Hist adds to Inv that  *)
(* some assignment of pages to versions explains every fetch and every     *)
(* real snapshot (Around), and what a simulation still has to record       *)
(* (Tells): nobody else records a change of the snapshot it has stored.    *)
(***************************************************************************)
EXTENDS SimulatedHistory, FiniteSetTheorems, WellFoundedInduction, TLAPS

-----------------------------------------------------------------------------
(* What the operators of ContentProcessing return, for every page.         *)

\* One more normalizing pass over stored content gives stored content
\* (normalize_content called by create_snapshot).
LEMMA NormalizeType ==
    ASSUME NEW c \in Content
    PROVE  Normalize(c) \in Content
<1>1. CASE c \in Html
  <2>1. c.refs \in 0..MaxRefs /\ c.kind = "html" /\ c.text \in Texts
    BY <1>1 DEF Html
  <2>2. c.refs > 0 => [c EXCEPT !.refs = @ - 1] \in Html
    BY <1>1, <2>1, ContentAssumption DEF Html
  <2> QED BY <1>1, <2>2 DEF Normalize, Content
<1>2. CASE c \in Listing
  BY <1>2 DEF Listing, Normalize, Content
<1> QED BY <1>1, <1>2 DEF Content

\* A set of card positions has a first one.
LEMMA FirstPosition ==
    ASSUME NEW T, T \subseteq Nat, T # {}
    PROVE  \E m \in T : \A n \in T : m <= n
<1> DEFINE Less == {ss \in Nat \X Nat : ss[1] < ss[2]}
<1>1. IsWellFoundedOn(Less, Nat)
  BY NatLessThanWellFounded DEF OpToRel
<1>2. PICK m \in T : \A n \in T : <<n, m>> \notin Less
  BY <1>1, WFMin, Zenon
<1>3. \A n \in T : ~(n < m)
  BY <1>2
<1> QED BY <1>3

\* extract_products keeps, per key, the offer of one of the cards.
LEMMA ExtractType ==
    ASSUME NEW cards \in Seq(Card)
    PROVE  ExtractProducts(cards) \in [Keys -> Offer \cup {None}]
<1> SUFFICES ASSUME NEW k \in Keys, CompleteCards(cards, k) # {}
             PROVE  FirstOffer(cards, k) \in Offer \cup {None}
  BY DEF ExtractProducts
<1> DEFINE S == CompleteCards(cards, k)
           First == CHOOSE i \in S : \A j \in S : i <= j
<1>1. S \subseteq Nat /\ S \subseteq DOMAIN cards
  BY DEF CompleteCards
<1>2. \E i \in S : \A j \in S : i <= j
  BY <1>1, FirstPosition, Zenon
<1>3. First \in DOMAIN cards
  <2> HIDE DEF S
  <2> QED BY <1>1, <1>2
<1>4. cards[First] \in Card
  <2> HIDE DEF First
  <2> QED BY <1>3
<1> QED BY <1>4 DEF FirstOffer, Card

\* A processor returns content that can be stored and events that can be recorded
\* (ProcessResult of content_processing.py).
LEMMA ProcessType ==
    ASSUME NEW type \in PageTypes, NEW page \in RawPage,
           NEW previous \in Content \cup {None}
    PROVE  /\ Process(type, page, previous).content \in Content
           /\ Process(type, page, previous).events \in SUBSET Event
<1>1. CanonicalHtml(page) \in Content
  BY DEF CanonicalHtml, RawPage, Content, Html
<1>2. SerializeProducts(ExtractProducts(page.cards)) \in Content
  BY ExtractType DEF SerializeProducts, RawPage, Content, Listing
<1>3. CASE type = "PRODUCT_LISTING"
  <2>1. ASSUME NEW old, NEW new PROVE DiffByKey(old, new) \in SUBSET Event
    BY DEF DiffByKey, Event, ChangeTypes
  <2> QED BY <1>2, <1>3, <2>1
          DEF Process, ProductListingProcess, Unchanged, Rejected
<1>4. CASE type # "PRODUCT_LISTING"
  <2>1. [type |-> DeriveChangeType(type), key |-> None] \in Event
    BY DEF DeriveChangeType, Event, ChangeTypes
  <2> QED BY <1>1, <1>4, <2>1 DEF Process, TextBlobProcess, Unchanged, Rejected
<1> QED BY <1>3, <1>4

-----------------------------------------------------------------------------
(* The inductive invariant.                                                *)

Kept(S, T) == \A i \in DOMAIN S : i \in DOMAIN T /\ T[i] = S[i]

JobOK(j, real, S) ==
    /\ j.at \in {"compare", "baseline", "mutate"} => j.page \in Pages
    /\ j.at \in {"baseline", "store"} => j.content \in Content
    /\ j.at \in {"mutate", "store", "record"} =>
          \/ j.prev \in DOMAIN S /\ S[j.prev].real
          \/ real /\ j.left = {}
    /\ j.at = "record" => j.cur \in DOMAIN S /\ S[j.cur].real = real

ChangeOf(S) == [prev : DOMAIN S, cur : DOMAIN S, event : Event, real : BOOLEAN]

ChangesOK(C, S) ==
    \A c \in C : c \in ChangeOf(S) /\ S[c.prev].real /\ c.real = S[c.cur].real

Inv ==
    /\ site \in [page : Pages, version : Version]
    /\ pageType \in PageTypes
    /\ snaps \in Seq(Snap) /\ Len(snaps) <= MaxSnaps
    /\ ChangesOK(changes, snaps)
    /\ check \in Job /\ JobOK(check, TRUE, snaps)
    /\ sim \in [Sims -> Job] /\ \A m \in Sims : JobOK(sim[m], FALSE, snaps)

\* The invariant gives the properties that the simulation run checks.
LEMMA InvSuffices == Inv => TypeOK /\ TagsAgree
BY DEF Inv, TypeOK, TagsAgree, ChangesOK, ChangeOf

-----------------------------------------------------------------------------
(* Snapshots are appended.                                                 *)

\* create_snapshot adds a document and touches no other.
LEMMA AppendKeeps ==
    ASSUME NEW S \in Seq(Snap), NEW s \in Snap
    PROVE  /\ Append(S, s) \in Seq(Snap) /\ Len(Append(S, s)) = Len(S) + 1
           /\ Kept(S, Append(S, s))
           /\ Len(S) + 1 \in DOMAIN Append(S, s) /\ Append(S, s)[Len(S) + 1] = s
BY DEF Kept

\* What is stored next to a process does not disturb it.
LEMMA JobStays ==
    ASSUME NEW S, NEW T, Kept(S, T), NEW j, NEW real, JobOK(j, real, S)
    PROVE  JobOK(j, real, T)
BY DEF Kept, JobOK

LEMMA ChangesStay ==
    ASSUME NEW S, NEW T, Kept(S, T), NEW C, ChangesOK(C, S)
    PROVE  ChangesOK(C, T)
<1> SUFFICES ASSUME NEW c \in C
             PROVE  c \in ChangeOf(T) /\ T[c.prev].real /\ c.real = T[c.cur].real
  BY DEF ChangesOK
<1>1. c \in ChangeOf(S) /\ S[c.prev].real /\ c.real = S[c.cur].real
  BY DEF ChangesOK
<1>2. c.prev \in DOMAIN S /\ c.cur \in DOMAIN S /\ c.event \in Event /\ c.real \in BOOLEAN
      /\ c = [prev |-> c.prev, cur |-> c.cur, event |-> c.event, real |-> c.real]
  BY <1>1 DEF ChangeOf
<1>3. c.prev \in DOMAIN T /\ c.cur \in DOMAIN T /\ T[c.prev] = S[c.prev] /\ T[c.cur] = S[c.cur]
  BY <1>2 DEF Kept
<1> QED BY <1>1, <1>2, <1>3 DEF ChangeOf

LEMMA StoredType ==
    ASSUME snaps \in Seq(Snap), NEW s \in DOMAIN snaps
    PROVE  s # 0 /\ ContentOf(s) \in Content
<1>1. snaps[s] \in Snap /\ s # 0
  OBVIOUS
<1> QED BY <1>1 DEF Snap, ContentOf

\* The first record of list_for_target(include_simulated=False) is real.
LEMMA NewestIsReal ==
    ASSUME snaps \in Seq(Snap)
    PROVE  Newest = 0 \/ (Newest \in DOMAIN snaps /\ snaps[Newest].real)
<1> SUFFICES ASSUME RealSnaps # {}
             PROVE  \E s \in RealSnaps : \A o \in RealSnaps : o <= s
  BY DEF Newest, RealSnaps
<1> DEFINE T == {Len(snaps) - s : s \in RealSnaps}
<1>1. RealSnaps \subseteq 1..Len(snaps) /\ Len(snaps) \in Nat
  BY DEF RealSnaps
<1>2. T \subseteq Nat /\ T # {}
  <2>1. ASSUME NEW s \in RealSnaps PROVE Len(snaps) - s \in Nat
    <3>1. s \in 1..Len(snaps)
      BY <1>1
    <3> QED BY <1>1, <3>1
  <2> QED BY <2>1
<1>3. PICK t \in T : \A u \in T : t <= u
  <2> HIDE DEF T
  <2> QED BY <1>2, FirstPosition
<1>4. PICK s \in RealSnaps : t = Len(snaps) - s
  BY <1>3
<1>5. ASSUME NEW o \in RealSnaps PROVE o <= s
  <2>1. Len(snaps) - s <= Len(snaps) - o
    BY <1>3, <1>4
  <2>2. o \in Int /\ s \in Int /\ Len(snaps) \in Int
    BY <1>1
  <2> QED BY <2>1, <2>2
<1> QED BY <1>5

-----------------------------------------------------------------------------
(* What is stored and recorded.                                            *)

\* The first check of a target reports nothing: "No previous content" in the
\* processors returns no events.
LEMMA FirstIsSilent ==
    ASSUME NEW type, NEW page
    PROVE  Process(type, page, None).events = {}
BY DEF Process, ProductListingProcess, TextBlobProcess, Unchanged

\* The validated mutations of simulated_verification can be stored and recorded.
LEMMA MutationType ==
    ASSUME pageType \in PageTypes, NEW page \in RawPage, NEW previous \in Content,
           NEW x \in Mutations(page, previous)
    PROVE  x.content \in Content /\ x.events \in SUBSET Event
<1>1. CASE pageType = "PRODUCT_LISTING"
  <2> DEFINE products == ExtractProducts(page.cards)
  <2>1. PICK kind \in Kinds : \E plan \in ValidPlans(products, kind) :
            x = [content |-> SerializeProducts(ApplyPlan(products, plan)),
                 events  |-> DiffByKey(products, ApplyPlan(products, plan))]
    BY <1>1 DEF Mutations, ListingMutations
  <2>2. PICK plan \in ValidPlans(products, kind) :
            x = [content |-> SerializeProducts(ApplyPlan(products, plan)),
                 events  |-> DiffByKey(products, ApplyPlan(products, plan))]
    BY <2>1
  <2>3. products \in [Keys -> Offer \cup {None}]
    BY ExtractType DEF RawPage
  <2> HIDE DEF products
  <2>4. plan \in Plan
    BY DEF ValidPlans
  <2>5. ASSUME NEW k \in Keys
        PROVE  ApplyPlan(products, plan)[k] \in Offer \cup {None}
    <3>1. plan.offer \in Offer /\ plan.price \in Prices
      BY <2>4 DEF Plan
    <3>2. CASE k = plan.repriced /\ k # plan.removed /\ k # plan.new
      <4>1. products[k] # None /\ products[k] \in Offer
        <5>1. k # None
          BY ContentAssumption
        <5> QED BY <2>3, <3>2, <5>1 DEF ValidPlans
      <4> QED BY <2>3, <3>1, <3>2, <4>1 DEF ApplyPlan, Offer
    <3>3. CASE k = plan.removed \/ k = plan.new
      <4>1. plan.removed # plan.new
        BY <3>3, ContentAssumption DEF ValidPlans
      <4>2. k # plan.repriced
        BY <3>3, ContentAssumption DEF ValidPlans
      <4>3. ApplyPlan(products, plan)[k] = IF k = plan.removed THEN None ELSE plan.offer
        BY <3>3, <4>1, <4>2 DEF ApplyPlan
      <4> QED BY <3>1, <4>3
    <3>4. CASE k # plan.removed /\ k # plan.new /\ k # plan.repriced
      <4>1. ApplyPlan(products, plan)[k] = products[k]
        BY <3>4 DEF ApplyPlan
      <4> QED BY <2>3, <4>1
    <3> QED BY <3>2, <3>3, <3>4
  <2>6. ApplyPlan(products, plan) \in [Keys -> Offer \cup {None}]
    BY <2>5 DEF ApplyPlan
  <2>7. SerializeProducts(ApplyPlan(products, plan)) \in Content
    BY <2>6 DEF SerializeProducts, Content, Listing
  <2>8. DiffByKey(products, ApplyPlan(products, plan)) \in SUBSET Event
    BY DEF DiffByKey, Event, ChangeTypes
  <2> QED BY <2>2, <2>7, <2>8
<1>2. CASE pageType # "PRODUCT_LISTING"
  <2>1. PICK p \in WithFragment(page) : x.content = TextBlobProcess(pageType, p, previous).content
                                     /\ x.events = TextBlobProcess(pageType, p, previous).events
    BY <1>2 DEF Mutations, TextMutations
  <2>2. p \in RawPage
    BY DEF WithFragment, RawPage
  <2>3. /\ Process(pageType, p, previous).content \in Content
        /\ Process(pageType, p, previous).events \in SUBSET Event
    BY <2>2, ProcessType
  <2> QED BY <1>2, <2>1, <2>3 DEF Process
<1> QED BY <1>1, <1>2

\* What a process stores is a snapshot that carries the tag it was given.
LEMMA SnapshotType ==
    ASSUME NEW j \in Job, j.content \in Content, NEW real \in BOOLEAN
    PROVE  Snapshot(j, real) \in Snap /\ Snapshot(j, real).real = real
<1>1. Normalize(j.content) \in Content
  BY NormalizeType
<1>2. j.version \in Version
  BY DEF Job
<1>3. (\A o \in RealSnaps : o <= j.mark) \in BOOLEAN
  OBVIOUS
<1> QED BY <1>1, <1>2, <1>3, Zenon DEF Snapshot, Snap

-----------------------------------------------------------------------------
(* The two kinds of step.                                                  *)

Grows == snaps' \in Seq(Snap) /\ Len(snaps') <= MaxSnaps /\ Kept(snaps, snaps')

\* Storing keeps the rest of the history.
LEMMA StoringGrows ==
    ASSUME Inv, Len(snaps) < MaxSnaps, NEW s \in Snap, snaps' = Append(snaps, s)
    PROVE  /\ Grows /\ Len(snaps) + 1 \in DOMAIN snaps' /\ Len(snaps) + 1 \in 0..MaxSnaps
           /\ snaps'[Len(snaps) + 1] = s
<1>1. snaps \in Seq(Snap) /\ Len(snaps) \in Nat /\ MaxSnaps \in Nat
  BY SimulationAssumption DEF Inv
<1>2. /\ Append(snaps, s) \in Seq(Snap) /\ Len(Append(snaps, s)) = Len(snaps) + 1
      /\ Kept(snaps, Append(snaps, s))
      /\ Len(snaps) + 1 \in DOMAIN Append(snaps, s) /\ Append(snaps, s)[Len(snaps) + 1] = s
  BY <1>1, AppendKeeps
<1> QED BY <1>1, <1>2 DEF Grows

LEMMA RestGrows ==
    ASSUME Inv, UNCHANGED snaps
    PROVE  Grows
BY DEF Inv, Grows, Kept

\* A step of the real check that is sound for itself is sound for the simulations.
LEMMA CheckStep ==
    ASSUME Inv, NEW j \in Job, Check(j), Grows, JobOK(j, TRUE, snaps'),
           ChangesOK(changes', snaps')
    PROVE  Inv'
<1>1. \A m \in Sims : JobOK(sim[m], FALSE, snaps')
  BY JobStays DEF Inv, Grows
<1> QED BY <1>1 DEF Inv, Check, Grows

\* A step of one simulation that is sound for itself is sound for the check and the
\* other simulations.
LEMMA SimStep ==
    ASSUME Inv, NEW m \in Sims, NEW j \in Job, Sim(m, j), Grows, JobOK(j, FALSE, snaps'),
           ChangesOK(changes', snaps')
    PROVE  Inv'
<1>1. JobOK(check, TRUE, snaps')
  BY JobStays DEF Inv, Grows
<1>2. \A n \in Sims : JobOK(sim[n], FALSE, snaps')
  BY JobStays DEF Inv, Grows
<1>3. sim' \in [Sims -> Job] /\ \A n \in Sims : JobOK(sim'[n], FALSE, snaps')
  BY <1>2 DEF Inv, Sim
<1> QED BY <1>1, <1>3 DEF Inv, Sim, Grows

\* Changes that are not touched stay right.
LEMMA OldChanges ==
    ASSUME Inv, Grows, UNCHANGED changes
    PROVE  ChangesOK(changes', snaps')
BY ChangesStay DEF Inv, Grows

-----------------------------------------------------------------------------
(* Every step keeps the invariant.                                         *)

\* An idle process and one that is over may be at any history.
LEMMA IdleOK ==
    /\ Idle \in Job /\ Over \in Job
    /\ \A real, S : JobOK(Idle, real, S) /\ JobOK(Over, real, S)
<1>1. MaxVersions \in Nat /\ MaxSnaps \in Nat
  BY SimulationAssumption
<1>2. Idle \in Job /\ Over \in Job
  BY <1>1 DEF Idle, Over, Job, Labels, Version
<1> QED BY <1>2 DEF Idle, Over, JobOK

\* The page as fetched is a page of the site.
LEMMA FetchedOK ==
    ASSUME Inv, NEW j \in Job, NEW real, NEW S
    PROVE  Fetched(j) \in Job /\ JobOK(Fetched(j), real, S)
<1>1. site.page \in Pages /\ site.version \in Version /\ Len(snaps) \in 0..MaxSnaps
  BY SimulationAssumption DEF Inv
<1>2. Fetched(j) \in Job
  BY <1>1 DEF Fetched, Job, Labels
<1>3. Fetched(j).at = "compare" /\ Fetched(j).page \in Pages
  BY <1>1 DEF Fetched, Job
<1> QED BY <1>2, <1>3 DEF JobOK

LEMMA InitInv == Init => Inv
<1> SUFFICES ASSUME Init PROVE Inv
  OBVIOUS
<1>1. site \in [page : Pages, version : Version] /\ pageType \in PageTypes
  BY SimulationAssumption DEF Init, Version
<1>2. snaps \in Seq(Snap) /\ Len(snaps) <= MaxSnaps
  BY SimulationAssumption DEF Init
<1> QED BY <1>1, <1>2, IdleOK DEF Init, Inv, ChangesOK

LEMMA CheckKeepsInv ==
    ASSUME Inv,
           CheckFetches \/ CheckCompares \/ CheckStores \/ CheckRecords \/ CheckEnds \/ CheckFails
    PROVE  Inv'
<1> DEFINE j == check
<1>0. j \in Job /\ JobOK(j, TRUE, snaps) /\ pageType \in PageTypes /\ snaps \in Seq(Snap)
  BY DEF Inv
<1>1. CASE CheckFetches
  <2>1. Grows /\ ChangesOK(changes', snaps') /\ Check(Fetched(j))
    BY <1>1, RestGrows, OldChanges DEF CheckFetches
  <2>2. Fetched(j) \in Job /\ JobOK(Fetched(j), TRUE, snaps')
    BY <1>0, FetchedOK
  <2> QED BY <2>1, <2>2, CheckStep
<1>2. CASE CheckCompares
  <2> DEFINE result == Process(pageType, check.page, ContentOf(Newest))
             next == [check EXCEPT !.at = "store", !.page = None, !.prev = Newest,
                                   !.content = result.content, !.left = result.events]
  <2>1. Grows /\ ChangesOK(changes', snaps') /\ snaps' = snaps
    BY <1>2, RestGrows, OldChanges DEF CheckCompares
  <2>2. Newest \in 0..MaxSnaps /\ ContentOf(Newest) \in Content \cup {None}
    <3>1. CASE Newest = 0
      BY <3>1, SimulationAssumption DEF ContentOf
    <3>2. CASE Newest \in DOMAIN snaps
      BY <1>0, <3>2, StoredType, SimulationAssumption DEF Inv
    <3> QED BY <1>0, <3>1, <3>2, NewestIsReal
  <2>3. check.page \in RawPage
    BY <1>0, <1>2, SimulationAssumption DEF CheckCompares, JobOK
  <2>4. result.content \in Content /\ result.events \in SUBSET Event
    BY <1>0, <2>2, <2>3, ProcessType
  <2>5. Newest = 0 => result.events = {}
    BY FirstIsSilent DEF ContentOf
  <2>6. Check(next) \/ Check(Idle)
    BY <1>2 DEF CheckCompares
  <2> HIDE DEF result
  <2>7. next \in Job
    BY <1>0, <2>2, <2>4 DEF Job, Labels
  <2>8. next.at = "store" /\ next.content = result.content /\ next.prev = Newest
        /\ next.left = result.events
    BY <1>0 DEF Job
  <2>9. JobOK(next, TRUE, snaps')
    BY <1>0, <2>1, <2>4, <2>5, <2>8, NewestIsReal DEF JobOK
  <2> HIDE DEF next
  <2> QED BY <2>1, <2>6, <2>7, <2>9, IdleOK, CheckStep
<1>3. CASE CheckStores
  <2> DEFINE next == [check EXCEPT !.at = "record", !.content = None, !.cur = Len(snaps) + 1]
  <2>1. Snapshot(check, TRUE) \in Snap /\ Snapshot(check, TRUE).real = TRUE
    BY <1>0, <1>3, SnapshotType DEF CheckStores, JobOK
  <2>2. /\ Grows /\ Len(snaps) + 1 \in DOMAIN snaps' /\ Len(snaps) + 1 \in 0..MaxSnaps
        /\ snaps'[Len(snaps) + 1] = Snapshot(check, TRUE)
    BY <1>3, <2>1, StoringGrows DEF CheckStores
  <2>3. ChangesOK(changes', snaps')
    BY <1>3, <2>2, OldChanges DEF CheckStores
  <2>4. next \in Job
    BY <1>0, <2>2 DEF Job, Labels
  <2>5. next.at = "record" /\ next.prev = check.prev /\ next.left = check.left
        /\ next.cur = Len(snaps) + 1
    BY <1>0 DEF Job
  <2>6. JobOK(check, TRUE, snaps') /\ check.at = "store"
    BY <1>0, <1>3, <2>2, JobStays DEF Grows, CheckStores
  <2>7. JobOK(next, TRUE, snaps')
    BY <2>1, <2>2, <2>5, <2>6 DEF JobOK
  <2>8. Check(next)
    BY <1>3 DEF CheckStores
  <2> HIDE DEF next
  <2> QED BY <2>2, <2>3, <2>4, <2>7, <2>8, CheckStep
<1>4. CASE CheckRecords
  <2>1. Grows /\ snaps' = snaps
    BY <1>4, RestGrows DEF CheckRecords
  <2>2. PICK e \in j.left :
            /\ changes' = changes \cup {Change(j, e, TRUE)}
            /\ Check([j EXCEPT !.left = @ \ {e}])
    BY <1>4 DEF CheckRecords
  <2> DEFINE next == [j EXCEPT !.left = @ \ {e}]
  <2>3. j.prev \in DOMAIN snaps /\ snaps[j.prev].real
        /\ j.cur \in DOMAIN snaps /\ snaps[j.cur].real = TRUE
    BY <1>0, <1>4 DEF CheckRecords, JobOK
  <2>4. e \in Event
    BY <1>0, <2>2 DEF Job
  <2>5. Change(j, e, TRUE) \in ChangeOf(snaps) /\ Change(j, e, TRUE).prev = j.prev
        /\ Change(j, e, TRUE).cur = j.cur /\ Change(j, e, TRUE).real = TRUE
    BY <2>3, <2>4 DEF Change, ChangeOf
  <2>6. ChangesOK(changes', snaps')
    BY <2>1, <2>2, <2>3, <2>5 DEF Inv, ChangesOK
  <2>7. next \in Job /\ next.at = "record" /\ next.prev = j.prev /\ next.cur = j.cur
    BY <1>0, <1>4 DEF Job, CheckRecords
  <2>8. Check(next)
    BY <2>2
  <2> HIDE DEF next
  <2>9. JobOK(next, TRUE, snaps')
    BY <2>1, <2>3, <2>7 DEF JobOK
  <2> QED BY <2>1, <2>6, <2>7, <2>8, <2>9, CheckStep
<1>5. CASE CheckEnds \/ CheckFails
  BY <1>5, RestGrows, OldChanges, IdleOK, CheckStep DEF CheckEnds, CheckFails
<1> QED BY <1>1, <1>2, <1>3, <1>4, <1>5

LEMMA SimKeepsInv ==
    ASSUME Inv, NEW m \in Sims,
           \/ SimFetches(m) \/ SimReadsBaseline(m) \/ SimStoresBaseline(m) \/ SimMutates(m)
           \/ SimStores(m) \/ SimRecords(m) \/ SimResponds(m) \/ SimFails(m)
    PROVE  Inv'
<1> DEFINE j == sim[m]
<1>0. j \in Job /\ JobOK(j, FALSE, snaps) /\ pageType \in PageTypes /\ snaps \in Seq(Snap)
  BY DEF Inv
<1>1. CASE SimFetches(m)
  <2>1. Grows /\ ChangesOK(changes', snaps') /\ Sim(m, Fetched(j))
    BY <1>1, RestGrows, OldChanges DEF SimFetches
  <2>2. Fetched(j) \in Job /\ JobOK(Fetched(j), FALSE, snaps')
    BY <1>0, FetchedOK
  <2> QED BY <2>1, <2>2, SimStep
<1>2. CASE SimReadsBaseline(m)
  <2> DEFINE first == Process(pageType, j.page, None).content
             store == [j EXCEPT !.at = "baseline", !.content = first]
             compare == [j EXCEPT !.at = "mutate", !.prev = Newest]
  <2>1. Grows /\ ChangesOK(changes', snaps') /\ snaps' = snaps
    BY <1>2, RestGrows, OldChanges DEF SimReadsBaseline
  <2>2. j.page \in Pages /\ j.page \in RawPage
    BY <1>0, <1>2, SimulationAssumption DEF SimReadsBaseline, JobOK
  <2>3. CASE Newest = 0
    <3>1. first \in Content
      BY <1>0, <2>2, ProcessType
    <3> HIDE DEF first
    <3>2. store \in Job
      BY <1>0, <3>1 DEF Job, Labels
    <3>3. store.at = "baseline" /\ store.page = j.page /\ store.content = first
      BY <1>0 DEF Job
    <3>4. JobOK(store, FALSE, snaps')
      BY <2>2, <3>1, <3>3 DEF JobOK
    <3>5. Sim(m, store)
      BY <1>2, <2>3 DEF SimReadsBaseline, first
    <3> HIDE DEF store
    <3> QED BY <2>1, <3>2, <3>4, <3>5, SimStep
  <2>4. CASE Newest # 0
    <3>1. Newest \in DOMAIN snaps /\ snaps[Newest].real /\ Newest \in 0..MaxSnaps
      BY <1>0, <2>4, NewestIsReal, SimulationAssumption DEF Inv
    <3>2. compare \in Job
      BY <1>0, <3>1 DEF Job, Labels
    <3>3. compare.at = "mutate" /\ compare.page = j.page /\ compare.prev = Newest
      BY <1>0 DEF Job
    <3>4. JobOK(compare, FALSE, snaps')
      BY <2>1, <2>2, <3>1, <3>3 DEF JobOK
    <3>5. Sim(m, compare)
      BY <1>2, <2>4 DEF SimReadsBaseline
    <3> HIDE DEF compare
    <3> QED BY <2>1, <3>2, <3>4, <3>5, SimStep
  <2> QED BY <2>3, <2>4
<1>3. CASE SimStoresBaseline(m)
  <2> DEFINE next == [j EXCEPT !.at = "mutate", !.content = None, !.prev = Len(snaps) + 1]
  <2>1. Snapshot(j, TRUE) \in Snap /\ Snapshot(j, TRUE).real = TRUE
    BY <1>0, <1>3, SnapshotType DEF SimStoresBaseline, JobOK
  <2>2. /\ Grows /\ Len(snaps) + 1 \in DOMAIN snaps' /\ Len(snaps) + 1 \in 0..MaxSnaps
        /\ snaps'[Len(snaps) + 1] = Snapshot(j, TRUE)
    BY <1>3, <2>1, StoringGrows DEF SimStoresBaseline
  <2>3. ChangesOK(changes', snaps')
    BY <1>3, <2>2, OldChanges DEF SimStoresBaseline
  <2>4. next \in Job
    BY <1>0, <2>2 DEF Job, Labels
  <2>5. next.at = "mutate" /\ next.page = j.page /\ next.prev = Len(snaps) + 1
    BY <1>0 DEF Job
  <2>6. j.page \in Pages
    BY <1>0, <1>3 DEF SimStoresBaseline, JobOK
  <2>7. JobOK(next, FALSE, snaps')
    BY <2>1, <2>2, <2>5, <2>6 DEF JobOK
  <2>8. Sim(m, next)
    BY <1>3 DEF SimStoresBaseline
  <2> HIDE DEF next
  <2> QED BY <2>2, <2>3, <2>4, <2>7, <2>8, SimStep
<1>4. CASE SimMutates(m)
  <2>1. Grows /\ ChangesOK(changes', snaps') /\ snaps' = snaps
    BY <1>4, RestGrows, OldChanges DEF SimMutates
  <2>2. PICK x \in Mutations(j.page, ContentOf(j.prev)) :
            Sim(m, [j EXCEPT !.at = "store", !.content = x.content, !.left = x.events])
    BY <1>4 DEF SimMutates
  <2> DEFINE next == [j EXCEPT !.at = "store", !.content = x.content, !.left = x.events]
  <2>3. j.at = "mutate" /\ j.prev \in DOMAIN snaps /\ snaps[j.prev].real /\ j.page \in RawPage
    BY <1>0, <1>4, SimulationAssumption DEF SimMutates, JobOK
  <2>4. ContentOf(j.prev) \in Content
    BY <1>0, <2>3, StoredType
  <2>5. x.content \in Content /\ x.events \in SUBSET Event
    BY <1>0, <2>3, <2>4, MutationType
  <2>6. next \in Job
    BY <1>0, <2>5 DEF Job, Labels
  <2>7. next.at = "store" /\ next.content = x.content /\ next.prev = j.prev
    BY <1>0 DEF Job
  <2>8. JobOK(next, FALSE, snaps')
    BY <2>1, <2>3, <2>5, <2>7 DEF JobOK
  <2>9. Sim(m, next)
    BY <2>2
  <2> HIDE DEF next
  <2> QED BY <2>1, <2>6, <2>8, <2>9, SimStep
<1>5. CASE SimStores(m)
  <2> DEFINE next == [j EXCEPT !.at = "record", !.content = None, !.cur = Len(snaps) + 1]
  <2>1. Snapshot(j, FALSE) \in Snap /\ Snapshot(j, FALSE).real = FALSE
    BY <1>0, <1>5, SnapshotType DEF SimStores, JobOK
  <2>2. /\ Grows /\ Len(snaps) + 1 \in DOMAIN snaps' /\ Len(snaps) + 1 \in 0..MaxSnaps
        /\ snaps'[Len(snaps) + 1] = Snapshot(j, FALSE)
    BY <1>5, <2>1, StoringGrows DEF SimStores
  <2>3. ChangesOK(changes', snaps')
    BY <1>5, <2>2, OldChanges DEF SimStores
  <2>4. next \in Job
    BY <1>0, <2>2 DEF Job, Labels
  <2>5. next.at = "record" /\ next.prev = j.prev /\ next.left = j.left
        /\ next.cur = Len(snaps) + 1
    BY <1>0 DEF Job
  <2>6. JobOK(j, FALSE, snaps') /\ j.at = "store"
    BY <1>0, <1>5, <2>2, JobStays DEF Grows, SimStores
  <2>7. JobOK(next, FALSE, snaps')
    BY <2>1, <2>2, <2>5, <2>6 DEF JobOK
  <2>8. Sim(m, next)
    BY <1>5 DEF SimStores
  <2> HIDE DEF next
  <2> QED BY <2>2, <2>3, <2>4, <2>7, <2>8, SimStep
<1>6. CASE SimRecords(m)
  <2>1. Grows /\ snaps' = snaps
    BY <1>6, RestGrows DEF SimRecords
  <2>2. PICK e \in j.left :
            /\ changes' = changes \cup {Change(j, e, FALSE)}
            /\ Sim(m, [j EXCEPT !.at = AfterEvent(j.left \ {e}), !.left = @ \ {e}])
    BY <1>6 DEF SimRecords
  <2> DEFINE next == [j EXCEPT !.at = AfterEvent(j.left \ {e}), !.left = @ \ {e}]
  <2>3. j.prev \in DOMAIN snaps /\ snaps[j.prev].real
        /\ j.cur \in DOMAIN snaps /\ snaps[j.cur].real = FALSE
    BY <1>0, <1>6 DEF SimRecords, JobOK
  <2>4. e \in Event
    BY <1>0, <2>2 DEF Job
  <2>5. Change(j, e, FALSE) \in ChangeOf(snaps) /\ Change(j, e, FALSE).prev = j.prev
        /\ Change(j, e, FALSE).cur = j.cur /\ Change(j, e, FALSE).real = FALSE
    BY <2>3, <2>4 DEF Change, ChangeOf
  <2>6. ChangesOK(changes', snaps')
    BY <2>1, <2>2, <2>3, <2>5 DEF Inv, ChangesOK
  <2>7. next \in Job
    BY <1>0 DEF Job, Labels, AfterEvent
  <2>8. next.at \in {"record", "respond"} /\ next.prev = j.prev /\ next.cur = j.cur
    BY <1>0 DEF Job, AfterEvent
  <2>9. JobOK(next, FALSE, snaps')
    BY <2>1, <2>3, <2>8 DEF JobOK
  <2>10. Sim(m, next)
    BY <2>2
  <2> HIDE DEF next
  <2> QED BY <2>1, <2>6, <2>7, <2>9, <2>10, SimStep
<1>7. CASE SimResponds(m) \/ SimFails(m)
  <2>1. Grows /\ ChangesOK(changes', snaps') /\ Sim(m, Over)
    BY <1>7, RestGrows, OldChanges DEF SimResponds, SimFails
  <2> QED BY <2>1, IdleOK, SimStep
<1> QED BY <1>1, <1>2, <1>3, <1>4, <1>5, <1>6, <1>7

LEMMA StepKeepsInv == Inv /\ [Next]_vars => Inv'
<1> SUFFICES ASSUME Inv, [Next]_vars PROVE Inv'
  OBVIOUS
<1>1. CASE Publish
  <2>1. site' \in [page : Pages, version : Version]
    BY <1>1, SimulationAssumption DEF Publish, Inv, Version
  <2> QED BY <1>1, <2>1 DEF Publish, Inv
<1>2. CASE UNCHANGED vars
  BY <1>2 DEF vars, Inv
<1> QED BY <1>1, <1>2, CheckKeepsInv, SimKeepsInv DEF Next

-----------------------------------------------------------------------------

\* Every variable of the simulation model stays in its type: in particular a change
\* never refers to a snapshot that does not exist (_create_simulated_changes and the
\* loop of monitor_target record only after the snapshot is stored).
THEOREM TypesAreKept == Spec => []TypeOK
<1>1. Init => Inv
  BY InitInv
<1>2. Inv /\ [Next]_vars => Inv'
  BY StepKeepsInv
<1>3. Inv => TypeOK
  BY InvSuffices
<1> QED BY <1>1, <1>2, <1>3, PTL DEF Spec

\* Simulated and real history do not mix: nothing is ever compared with a simulated
\* snapshot, and a change is marked simulated exactly when its newer snapshot is
\* (_latest_real_snapshot, and the is_simulated flags of simulated_persistence).
THEOREM HistoriesStayApart == Spec => []TagsAgree
<1>1. Init => Inv
  BY InitInv
<1>2. Inv /\ [Next]_vars => Inv'
  BY StepKeepsInv
<1>3. Inv => TagsAgree
  BY InvSuffices
<1> QED BY <1>1, <1>2, <1>3, PTL DEF Spec

-----------------------------------------------------------------------------
(* What the history says.                                                  *)

\* The content that a processor makes of a page, whatever came before.
Rendered(page) ==
    IF pageType = "PRODUCT_LISTING" THEN SerializeProducts(ExtractProducts(page.cards))
                                    ELSE CanonicalHtml(page)
KindOf == IF pageType = "PRODUCT_LISTING" THEN "listing" ELSE "html"

\* The processes that hold a fetch which no snapshot shows yet.
Pending(j, real) == j.at \in {"compare", "baseline"} \/ (real /\ j.at = "store")

\* What a process has fetched is the page of its version, no real snapshot that was
\* there when it fetched is of a later one, and what the check compares its snapshot
\* with is not either.
Seen(j, real, served, S) ==
    /\ Pending(j, real) =>
          /\ j.version \in DOMAIN served /\ j.mark <= Len(S)
          /\ \A o \in DOMAIN S : S[o].real /\ o <= j.mark => S[o].version <= j.version
    /\ j.at = "compare" => j.page = served[j.version]
    /\ Pending(j, real) /\ j.at # "compare" => j.content = Rendered(served[j.version])
    /\ real /\ j.at = "record" /\ j.left # {} /\ S[j.cur].alone =>
          S[j.prev].version <= S[j.cur].version

SnapsSeen(S, served) ==
    \A s \in DOMAIN S : S[s].real =>
        /\ S[s].version \in DOMAIN served
        /\ S[s].content = Normalize(Rendered(served[S[s].version]))

Around(served) ==
    /\ served \in [1..site.version -> Pages]
    /\ served[site.version] = site.page
    /\ SnapsSeen(snaps, served)
    /\ Seen(check, TRUE, served, snaps)
    /\ \A m \in Sims : Seen(sim[m], FALSE, served, snaps)

Followed(C, S) ==
    \A c \in C : c.real /\ S[c.cur].alone => S[c.prev].version < S[c.cur].version

\* The events that are recorded of snapshot x.
Told(x, C) == {c.event : c \in {d \in C : d.cur = x}}

\* What the whole difference of a simulation is, told or not.
Whole(j, events, content) ==
    IF pageType = "PRODUCT_LISTING"
    THEN events = DiffByKey(ExtractProducts(j.page.cards), content.products)
    ELSE \E e \in events : events = {e}

Tells(j, C, S) ==
    /\ j.at = "store" => j.content.kind = KindOf /\ Whole(j, j.left, j.content)
    /\ j.at \in {"record", "respond"} =>
          /\ j.cur \in DOMAIN S /\ j.prev \in DOMAIN S /\ ~S[j.cur].real
          /\ Whole(j, Told(j.cur, C) \cup j.left, S[j.cur].content)
    /\ j.at = "respond" => j.left = {} /\ S[j.prev].content # S[j.cur].content

OfKind(S) == \A s \in DOMAIN S : S[s].content.kind = KindOf

Apart == \A m, n \in Sims :
    /\ m # n
    /\ sim[m].at \in {"record", "respond"} /\ sim[n].at \in {"record", "respond"}
    => sim[m].cur # sim[n].cur

Hist ==
    /\ site.version >= 1
    /\ \E served \in [1..site.version -> Pages] : Around(served)
    /\ Followed(changes, snaps)
    /\ OfKind(snaps)
    /\ \A m \in Sims : Tells(sim[m], changes, snaps)
    /\ Apart

-----------------------------------------------------------------------------
(* The contents.                                                           *)

\* What a processor returns is made of the page alone, in the kind of the page type.
LEMMA RenderedByProcess ==
    ASSUME NEW page, NEW previous
    PROVE  /\ Process(pageType, page, previous).content = Rendered(page)
           /\ Rendered(page).kind = KindOf
BY DEF Process, ProductListingProcess, TextBlobProcess, Unchanged, Rejected, Rendered,
       KindOf, SerializeProducts, CanonicalHtml

\* Normalizing once more keeps the kind, and a product list altogether.
LEMMA NormalizeKeeps ==
    ASSUME NEW c \in Content
    PROVE  /\ Normalize(c).kind = c.kind
           /\ c.kind = "listing" => Normalize(c) = c
BY DEF Normalize, Content, Html, Listing

\* The events of a mutation are its whole difference to the fetched page.
LEMMA MutationTells ==
    ASSUME NEW page, NEW previous, NEW x \in Mutations(page, previous), NEW j,
           j.page = page
    PROVE  x.content.kind = KindOf /\ Whole(j, x.events, x.content)
<1>1. CASE pageType = "PRODUCT_LISTING"
  <2> DEFINE products == ExtractProducts(page.cards)
  <2>1. PICK kind \in Kinds : \E plan \in ValidPlans(products, kind) :
            x = [content |-> SerializeProducts(ApplyPlan(products, plan)),
                 events  |-> DiffByKey(products, ApplyPlan(products, plan))]
    BY <1>1 DEF Mutations, ListingMutations
  <2>2. PICK plan \in ValidPlans(products, kind) :
            x = [content |-> SerializeProducts(ApplyPlan(products, plan)),
                 events  |-> DiffByKey(products, ApplyPlan(products, plan))]
    BY <2>1
  <2>3. x.content = SerializeProducts(ApplyPlan(products, plan))
        /\ x.events = DiffByKey(products, ApplyPlan(products, plan))
    BY <2>2
  <2>4. x.content.kind = "listing" /\ x.content.products = ApplyPlan(products, plan)
    BY <2>3 DEF SerializeProducts
  <2> QED BY <1>1, <2>3, <2>4 DEF KindOf, Whole
<1>2. CASE pageType # "PRODUCT_LISTING"
  <2>1. PICK p \in WithFragment(page) :
            /\ TextBlobProcess(pageType, p, previous).changed
            /\ x.content = TextBlobProcess(pageType, p, previous).content
            /\ x.events = TextBlobProcess(pageType, p, previous).events
    BY <1>2 DEF Mutations, TextMutations
  <2> DEFINE e == [type |-> DeriveChangeType(pageType), key |-> None]
  <2>2. x.content.kind = "html" /\ x.events = {e}
    BY <2>1 DEF TextBlobProcess, Unchanged, Rejected, CanonicalHtml
  <2> QED BY <1>2, <2>2 DEF KindOf, Whole
<1> QED BY <1>1, <1>2

-----------------------------------------------------------------------------
(* What stays.                                                             *)

\* A process has seen what it had seen when snapshots are stored next to it.
LEMMA SeenStays ==
    ASSUME NEW S \in Seq(Snap), NEW T \in Seq(Snap), Kept(S, T), NEW served, NEW j \in Job,
           NEW real, Seen(j, real, served, S), JobOK(j, real, S)
    PROVE  Seen(j, real, served, T)
<1>1. Len(S) <= Len(T) /\ Len(S) \in Nat /\ Len(T) \in Nat
  <2>1. CASE Len(S) = 0
    BY <2>1
  <2>2. CASE Len(S) # 0
    <3>1. Len(S) \in DOMAIN S
      BY <2>2
    <3> QED BY <3>1 DEF Kept
  <2> QED BY <2>1, <2>2
<1>2. ASSUME Pending(j, real), NEW o \in DOMAIN T, T[o].real, o <= j.mark
      PROVE  T[o].version <= j.version
  <2>1. j.mark \in Int /\ j.mark <= Len(S) /\ o \in 1..Len(T)
    BY <1>2, SimulationAssumption DEF Seen, Job
  <2>2. o \in DOMAIN S
    BY <1>1, <1>2, <2>1
  <2>3. T[o] = S[o]
    BY <2>2 DEF Kept
  <2> QED BY <1>2, <2>2, <2>3 DEF Seen
<1>3. Pending(j, real) => j.mark <= Len(T)
  BY <1>1, SimulationAssumption DEF Seen, Job
<1>4. real /\ j.at = "record" /\ j.left # {} /\ T[j.cur].alone =>
          T[j.prev].version <= T[j.cur].version
  <2>1. real /\ j.at = "record" /\ j.left # {} => j.cur \in DOMAIN S /\ j.prev \in DOMAIN S
    BY DEF JobOK
  <2> QED BY <2>1 DEF Kept, Seen
<1> QED BY <1>2, <1>3, <1>4 DEF Seen

\* Recorded changes keep following the site.
LEMMA FollowedStays ==
    ASSUME NEW S, NEW T, Kept(S, T), NEW C, ChangesOK(C, S), Followed(C, S)
    PROVE  Followed(C, T)
<1> SUFFICES ASSUME NEW c \in C, c.real, T[c.cur].alone
             PROVE  T[c.prev].version < T[c.cur].version
  BY DEF Followed
<1>1. c.prev \in DOMAIN S /\ c.cur \in DOMAIN S
  BY DEF ChangesOK, ChangeOf
<1>2. T[c.prev] = S[c.prev] /\ T[c.cur] = S[c.cur]
  BY <1>1 DEF Kept
<1> QED BY <1>2 DEF Followed

\* A simulation has told what it had told while others record changes of other
\* snapshots.
LEMMA TellsStays ==
    ASSUME NEW S, NEW T, Kept(S, T), NEW C, NEW D, C \subseteq D, NEW j, Tells(j, C, S),
           j.at \in {"record", "respond"} => \A c \in D \ C : c.cur # j.cur
    PROVE  Tells(j, D, T)
<1>1. CASE j.at \in {"record", "respond"}
  <2>1. Told(j.cur, D) = Told(j.cur, C)
    BY <1>1 DEF Told
  <2>2. j.cur \in DOMAIN S /\ j.prev \in DOMAIN S
    BY <1>1 DEF Tells
  <2>3. T[j.cur] = S[j.cur] /\ T[j.prev] = S[j.prev] /\ j.cur \in DOMAIN T
        /\ j.prev \in DOMAIN T
    BY <2>2 DEF Kept
  <2> QED BY <1>1, <2>1, <2>3 DEF Tells
<1>2. CASE j.at \notin {"record", "respond"}
  BY <1>2 DEF Tells
<1> QED BY <1>1, <1>2

-----------------------------------------------------------------------------
(* Every step keeps what the history says.                                 *)

\* A step of the real check that says right of itself leaves the rest right.
LEMMA CheckStepHist ==
    ASSUME Inv, Hist, NEW served, Around(served), NEW j \in Job, Check(j), Grows,
           Seen(j, TRUE, served, snaps'), SnapsSeen(snaps', served), OfKind(snaps'),
           Followed(changes', snaps'), changes \subseteq changes',
           \A c \in changes' \ changes : snaps'[c.cur].real
    PROVE  Hist'
<1>1. Around(served)'
  <2>1. ASSUME NEW m \in Sims PROVE Seen(sim[m], FALSE, served, snaps')
    BY SeenStays DEF Inv, Grows, Around
  <2> QED BY <2>1 DEF Around, Check, Seen, SnapsSeen, Rendered
<1>2. ASSUME NEW m \in Sims PROVE Tells(sim[m], changes', snaps')
  <2>1. ASSUME sim[m].at \in {"record", "respond"}, NEW c \in changes' \ changes
        PROVE  c.cur # sim[m].cur
    <3>1. sim[m].cur \in DOMAIN snaps /\ ~snaps[sim[m].cur].real
      BY <2>1 DEF Hist, Tells
    <3>2. ~snaps'[sim[m].cur].real
      BY <3>1 DEF Grows, Kept
    <3> QED BY <2>1, <3>2
  <2> QED BY <2>1, TellsStays DEF Hist, Grows
<1>3. (\A m \in Sims : Tells(sim[m], changes, snaps))'
  BY <1>2 DEF Check, Tells, Whole, KindOf
<1>4. OfKind(snaps)' /\ Followed(changes, snaps)' /\ Apart'
  BY DEF OfKind, KindOf, Followed, Apart, Hist, Check
<1>5. served \in [1..site'.version -> Pages] /\ site'.version >= 1
  BY DEF Around, Check, Hist
<1> QED BY <1>1, <1>3, <1>4, <1>5 DEF Hist

\* A step of one simulation that says right of itself leaves the rest right.
LEMMA SimStepHist ==
    ASSUME Inv, Hist, NEW served, Around(served), NEW m \in Sims, NEW j \in Job, Sim(m, j),
           Grows, Seen(j, FALSE, served, snaps'), SnapsSeen(snaps', served),
           OfKind(snaps'), Tells(j, changes', snaps'), changes \subseteq changes',
           \A c \in changes' \ changes :
               /\ ~c.real /\ c.cur = sim[m].cur
               /\ sim[m].at = "record",
           j.at \in {"record", "respond"} =>
               \/ j.cur = sim[m].cur /\ sim[m].at \in {"record", "respond"}
               \/ j.cur \notin DOMAIN snaps
    PROVE  Hist'
<1>1. Around(served)'
  <2>1. ASSUME NEW n \in Sims PROVE Seen(sim[n], FALSE, served, snaps')
    BY SeenStays DEF Inv, Grows, Around
  <2>2. Seen(check, TRUE, served, snaps')
    BY SeenStays DEF Inv, Grows, Around
  <2>3. \A n \in Sims : Seen(sim'[n], FALSE, served, snaps')
    BY <2>1 DEF Inv, Sim
  <2>4. UNCHANGED <<site, check, pageType>>
    BY DEF Sim
  <2>5. Seen(check, TRUE, served, snaps)'
    BY <2>2, <2>4 DEF Seen, Rendered
  <2>6. (\A n \in Sims : Seen(sim[n], FALSE, served, snaps))'
    BY <2>3, <2>4 DEF Seen, Rendered
  <2>7. SnapsSeen(snaps, served)'
    BY <2>4 DEF SnapsSeen, Rendered
  <2> QED BY <2>4, <2>5, <2>6, <2>7 DEF Around
<1>2. ASSUME NEW n \in Sims PROVE Tells(sim'[n], changes', snaps')
  <2>1. CASE n = m
    BY <2>1 DEF Inv, Sim
  <2>2. CASE n # m
    <3>1. ASSUME sim[n].at \in {"record", "respond"}, NEW c \in changes' \ changes
          PROVE  c.cur # sim[n].cur
      BY <2>2, <3>1 DEF Hist, Apart
    <3>2. Tells(sim[n], changes', snaps')
      BY <3>1, TellsStays DEF Hist, Grows
    <3> QED BY <2>2, <3>2 DEF Inv, Sim
  <2> QED BY <2>1, <2>2
<1>3. (\A n \in Sims : Tells(sim[n], changes, snaps))'
  BY <1>2 DEF Sim, Tells, Whole, KindOf
<1>4. Followed(changes', snaps')
  <2>1. Followed(changes, snaps')
    BY FollowedStays DEF Inv, Grows, Hist
  <2> QED BY <2>1 DEF Followed
<1>5. Apart'
  <2>1. ASSUME NEW n \in Sims, n # m, sim[n].at \in {"record", "respond"},
               j.at \in {"record", "respond"}
        PROVE  sim[n].cur # j.cur
    <3>1. sim[n].cur \in DOMAIN snaps
      BY <2>1 DEF Hist, Tells
    <3> QED BY <2>1, <3>1 DEF Hist, Apart
  <2> QED BY <2>1 DEF Inv, Sim, Hist, Apart
<1>6. OfKind(snaps)' /\ Followed(changes, snaps)'
  BY <1>4 DEF OfKind, KindOf, Followed, Sim
<1>7. served \in [1..site'.version -> Pages] /\ site'.version >= 1
  BY DEF Around, Sim, Hist
<1> QED BY <1>1, <1>3, <1>5, <1>6, <1>7 DEF Hist

\* A step that stores nothing leaves what is said of the snapshots.
LEMMA SameSnaps ==
    ASSUME Inv, Hist, NEW served, Around(served), UNCHANGED snaps
    PROVE  Grows /\ SnapsSeen(snaps', served) /\ OfKind(snaps')
BY RestGrows DEF Hist, Around

\* A stored snapshot that says right of itself leaves what is said of the others.
LEMMA OneMoreSnap ==
    ASSUME Inv, Hist, NEW served, Around(served), Len(snaps) < MaxSnaps, NEW s \in Snap,
           snaps' = Append(snaps, s), s.content.kind = KindOf,
           s.real => /\ s.version \in DOMAIN served
                     /\ s.content = Normalize(Rendered(served[s.version]))
    PROVE  /\ Grows /\ SnapsSeen(snaps', served) /\ OfKind(snaps')
           /\ Len(snaps) + 1 \in DOMAIN snaps' /\ Len(snaps) + 1 \notin DOMAIN snaps
           /\ Len(snaps) + 1 \in 0..MaxSnaps /\ snaps'[Len(snaps) + 1] = s
<1>1. /\ Grows /\ Len(snaps) + 1 \in DOMAIN snaps' /\ Len(snaps) + 1 \in 0..MaxSnaps
      /\ snaps'[Len(snaps) + 1] = s
  BY StoringGrows
<1>2. Len(snaps) + 1 \notin DOMAIN snaps /\ DOMAIN snaps' = DOMAIN snaps \cup {Len(snaps) + 1}
  BY DEF Inv
<1>3. \A i \in DOMAIN snaps : snaps'[i] = snaps[i]
  BY <1>1 DEF Grows, Kept
<1>4. SnapsSeen(snaps', served)
  BY <1>1, <1>2, <1>3 DEF Around, SnapsSeen
<1>5. OfKind(snaps')
  BY <1>1, <1>2, <1>3 DEF Hist, OfKind
<1> QED BY <1>1, <1>2, <1>4, <1>5

\* What is fetched now is of the last version.
LEMMA FetchedSeen ==
    ASSUME Inv, Hist, NEW served, Around(served), NEW j \in Job, NEW real
    PROVE  Seen(Fetched(j), real, served, snaps)
<1>1. /\ Fetched(j).at = "compare" /\ Fetched(j).page = site.page
      /\ Fetched(j).version = site.version /\ Fetched(j).mark = Len(snaps)
  BY DEF Fetched, Job
<1>2. site.version \in Nat /\ site.version >= 1 /\ Len(snaps) \in Nat
  BY SimulationAssumption DEF Inv, Hist, Version
<1>3. DOMAIN served = 1..site.version /\ served[site.version] = site.page
  BY DEF Around
<1>4. ASSUME NEW o \in DOMAIN snaps, snaps[o].real PROVE snaps[o].version <= site.version
  BY <1>2, <1>3, <1>4 DEF Around, SnapsSeen
<1> HIDE DEF Fetched
<1>5. site.version \in DOMAIN served /\ Len(snaps) <= Len(snaps)
  BY <1>2, <1>3
<1> QED BY <1>1, <1>3, <1>4, <1>5 DEF Seen

LEMMA IdleSays ==
    /\ \A real, served, S : Seen(Idle, real, served, S) /\ Seen(Over, real, served, S)
    /\ \A C, S : Tells(Idle, C, S) /\ Tells(Over, C, S)
BY DEF Idle, Over, Seen, Tells, Pending

\* What a process stores, and its tag.
LEMMA SnapshotSays ==
    ASSUME NEW j, NEW real
    PROVE  /\ Snapshot(j, real).content = Normalize(j.content)
           /\ Snapshot(j, real).real = real /\ Snapshot(j, real).version = j.version
           /\ Snapshot(j, real).alone = (\A o \in RealSnaps : o <= j.mark)
BY Zenon DEF Snapshot

LEMMA InitHist == Init => Hist
<1> SUFFICES ASSUME Init PROVE Hist
  OBVIOUS
<1>1. site.version = 1 /\ site.page \in Pages
  BY DEF Init
<1> DEFINE served == [v \in 1..1 |-> site.page]
<1>2. served \in [1..site.version -> Pages] /\ served[site.version] = site.page
  BY <1>1
<1>3. snaps = <<>> /\ changes = {} /\ check = Idle /\ \A m \in Sims : sim[m] = Idle
  BY DEF Init
<1> HIDE DEF served
<1>4. SnapsSeen(snaps, served) /\ OfKind(snaps) /\ Followed(changes, snaps)
  BY <1>3 DEF SnapsSeen, OfKind, Followed
<1>5. Around(served)
  BY <1>2, <1>3, <1>4, IdleSays DEF Around
<1>6. Apart
  BY <1>3 DEF Apart, Idle
<1> QED BY <1>1, <1>2, <1>3, <1>4, <1>5, <1>6, IdleSays DEF Hist

LEMMA CheckKeepsHist ==
    ASSUME Inv, Hist,
           CheckFetches \/ CheckCompares \/ CheckStores \/ CheckRecords \/ CheckEnds \/ CheckFails
    PROVE  Hist'
<1> DEFINE j == check
<1>0. /\ j \in Job /\ JobOK(j, TRUE, snaps) /\ snaps \in Seq(Snap) /\ Idle \in Job
      /\ Followed(changes, snaps)
  BY IdleOK DEF Inv, Hist
<1>a. PICK served \in [1..site.version -> Pages] : Around(served)
  BY DEF Hist
<1>b. Seen(j, TRUE, served, snaps) /\ SnapsSeen(snaps, served)
  BY <1>a DEF Around
<1>1. CASE CheckFetches
  <2>1. Check(Fetched(j)) /\ UNCHANGED <<snaps, changes>>
    BY <1>1 DEF CheckFetches
  <2>2. Fetched(j) \in Job /\ Seen(Fetched(j), TRUE, served, snaps')
    BY <1>0, <1>a, <2>1, FetchedOK, FetchedSeen
  <2> QED BY <1>0, <1>a, <2>1, <2>2, SameSnaps, CheckStepHist
<1>2. CASE CheckCompares
  <2> DEFINE result == Process(pageType, j.page, ContentOf(Newest))
             next == [check EXCEPT !.at = "store", !.page = None, !.prev = Newest,
                                   !.content = result.content, !.left = result.events]
  <2>1. UNCHANGED <<snaps, changes>> /\ (Check(next) \/ Check(Idle)) /\ j.at = "compare"
    BY <1>2 DEF CheckCompares
  <2>2. result.content = Rendered(served[j.version])
    BY <1>b, <2>1, RenderedByProcess DEF Seen
  <2>3. next.at = "store" /\ next.content = result.content /\ next.version = j.version
        /\ next.mark = j.mark
    BY <1>0 DEF Job
  <2>4. Seen(next, TRUE, served, snaps')
    <3> HIDE DEF next, result
    <3> QED BY <1>b, <2>1, <2>2, <2>3 DEF Seen, Pending
  <2>5. Inv'
    BY <1>2, CheckKeepsInv
  <2>6. Check(next) => next \in Job
    BY <2>5 DEF Inv, Check
  <2> HIDE DEF next
  <2> QED BY <1>0, <1>a, <2>1, <2>4, <2>6, IdleSays, SameSnaps, CheckStepHist
<1>3. CASE CheckStores
  <2> DEFINE s == Snapshot(check, TRUE)
             next == [check EXCEPT !.at = "record", !.content = None, !.cur = Len(snaps) + 1]
  <2>1. /\ j.at = "store" /\ Len(snaps) < MaxSnaps /\ snaps' = Append(snaps, s)
        /\ Check(next) /\ UNCHANGED changes
    BY <1>3 DEF CheckStores
  <2>2. s \in Snap /\ s.content = Normalize(j.content) /\ s.real = TRUE
        /\ s.version = j.version /\ s.alone = (\A o \in RealSnaps : o <= j.mark)
    BY <1>0, <2>1, SnapshotType, SnapshotSays DEF JobOK
  <2>3. /\ j.content = Rendered(served[j.version]) /\ j.version \in DOMAIN served
        /\ \A o \in DOMAIN snaps : snaps[o].real /\ o <= j.mark =>
               snaps[o].version <= j.version
    BY <1>b, <2>1 DEF Seen, Pending
  <2>4. s.content.kind = KindOf
    BY <1>0, <2>1, <2>2, <2>3, RenderedByProcess, NormalizeKeeps DEF JobOK
  <2> HIDE DEF s
  <2>5. /\ Grows /\ SnapsSeen(snaps', served) /\ OfKind(snaps')
        /\ Len(snaps) + 1 \in DOMAIN snaps' /\ Len(snaps) + 1 \notin DOMAIN snaps
        /\ Len(snaps) + 1 \in 0..MaxSnaps /\ snaps'[Len(snaps) + 1] = s
    BY <1>a, <2>1, <2>2, <2>3, <2>4, OneMoreSnap
  <2>6. next \in Job /\ next.at = "record" /\ next.prev = j.prev /\ next.left = j.left
        /\ next.cur = Len(snaps) + 1
    BY <1>0, <2>5 DEF Job, Labels
  <2> HIDE DEF next
  <2>7. ASSUME next.left # {}, snaps'[next.cur].alone
        PROVE  snaps'[next.prev].version <= snaps'[next.cur].version
    <3>1. j.prev \in DOMAIN snaps /\ snaps[j.prev].real
      BY <1>0, <2>1, <2>6, <2>7 DEF JobOK
    <3>2. j.prev <= j.mark
      BY <2>2, <2>5, <2>6, <2>7, <3>1 DEF RealSnaps
    <3>3. snaps[j.prev].version <= j.version
      BY <2>3, <3>1, <3>2
    <3>4. snaps'[j.prev] = snaps[j.prev]
      BY <2>5, <3>1 DEF Grows, Kept
    <3> QED BY <2>2, <2>5, <2>6, <3>3, <3>4
  <2>8. Seen(next, TRUE, served, snaps')
    BY <2>6, <2>7 DEF Seen, Pending
  <2>9. Followed(changes', snaps')
    BY <1>0, <2>1, <2>5, FollowedStays DEF Inv, Grows
  <2> QED BY <1>a, <2>1, <2>5, <2>6, <2>8, <2>9, CheckStepHist
<1>4. CASE CheckRecords
  <2>a. PICK e \in j.left :
            /\ changes' = changes \cup {Change(j, e, TRUE)}
            /\ Check([j EXCEPT !.left = @ \ {e}])
    BY <1>4 DEF CheckRecords
  <2>1. /\ j.at = "record" /\ snaps' = snaps /\ changes \subseteq changes'
        /\ \A c \in changes' \ changes :
              Recordable(j) /\ \E x \in j.left : c = Change(j, x, TRUE)
    BY <1>4, <2>a DEF CheckRecords
  <2>2. ASSUME NEW c \in changes' \ changes
        PROVE  /\ snaps[c.cur].real
               /\ snaps[c.cur].alone => snaps[c.prev].version < snaps[c.cur].version
    <3>1. Recordable(j) /\ j.left # {} /\ c.prev = j.prev /\ c.cur = j.cur
      BY <2>1, <2>2 DEF Change
    <3>2. /\ j.prev \in DOMAIN snaps /\ snaps[j.prev].real
          /\ j.cur \in DOMAIN snaps /\ snaps[j.cur].real
      BY <1>0, <2>1, <3>1 DEF JobOK
    <3>3. snaps[j.prev].content # snaps[j.cur].content
      BY <1>0, <3>1, <3>2, StoredType DEF Recordable, Differ, ContentOf
    <3>4. snaps[j.prev].version # snaps[j.cur].version
      BY <1>b, <3>2, <3>3 DEF SnapsSeen
    <3>5. snaps[j.prev].version \in Int /\ snaps[j.cur].version \in Int
      <4>1. snaps[j.prev] \in Snap /\ snaps[j.cur] \in Snap
        BY <1>0, <3>2
      <4> QED BY <4>1, SimulationAssumption DEF Snap, Version
    <3>6. snaps[j.cur].alone => snaps[j.prev].version <= snaps[j.cur].version
      BY <1>b, <2>1, <3>1 DEF Seen
    <3> QED BY <3>1, <3>2, <3>4, <3>5, <3>6
  <2>3. Followed(changes', snaps')
    BY <1>0, <2>1, <2>2 DEF Followed
  <2>4. \A c \in changes' \ changes : snaps'[c.cur].real
    BY <2>1, <2>2
  <2> DEFINE next == [j EXCEPT !.left = @ \ {e}]
  <2>5. /\ next \in Job /\ next.at = "record" /\ next.prev = j.prev /\ next.cur = j.cur
        /\ (next.left # {} => j.left # {})
    BY <1>0, <2>1 DEF Job
  <2>6. Check(next)
    BY <2>a
  <2> HIDE DEF next
  <2>7. Seen(next, TRUE, served, snaps')
    BY <1>b, <2>1, <2>5 DEF Seen, Pending
  <2> QED BY <1>0, <1>a, <2>1, <2>3, <2>4, <2>5, <2>6, <2>7, SameSnaps, CheckStepHist
<1>5. CASE CheckEnds \/ CheckFails
  <2>1. Check(Idle) /\ UNCHANGED <<snaps, changes>>
    BY <1>5 DEF CheckEnds, CheckFails
  <2> QED BY <1>0, <1>a, <2>1, IdleSays, SameSnaps, CheckStepHist
<1> QED BY <1>1, <1>2, <1>3, <1>4, <1>5

LEMMA SimKeepsHist ==
    ASSUME Inv, Hist, NEW m \in Sims,
           \/ SimFetches(m) \/ SimReadsBaseline(m) \/ SimStoresBaseline(m) \/ SimMutates(m)
           \/ SimStores(m) \/ SimRecords(m) \/ SimResponds(m) \/ SimFails(m)
    PROVE  Hist'
<1> DEFINE j == sim[m]
<1>0. /\ j \in Job /\ JobOK(j, FALSE, snaps) /\ snaps \in Seq(Snap) /\ Over \in Job
      /\ Tells(j, changes, snaps)
  BY IdleOK DEF Inv, Hist
<1>a. PICK served \in [1..site.version -> Pages] : Around(served)
  BY DEF Hist
<1>b. Seen(j, FALSE, served, snaps) /\ SnapsSeen(snaps, served)
  BY <1>a DEF Around
<1>c. Inv' /\ \A k : Sim(m, k) => k \in Job
  <2>1. Inv'
    BY SimKeepsInv
  <2> QED BY <2>1 DEF Inv, Sim
<1>1. CASE SimFetches(m)
  <2>1. Sim(m, Fetched(j)) /\ UNCHANGED <<snaps, changes>>
    BY <1>1 DEF SimFetches
  <2>2. Fetched(j) \in Job /\ Seen(Fetched(j), FALSE, served, snaps')
    BY <1>0, <1>a, <2>1, FetchedOK, FetchedSeen
  <2>3. Fetched(j).at = "compare"
    BY <1>0 DEF Fetched, Job
  <2>4. Tells(Fetched(j), changes', snaps')
    BY <2>3 DEF Tells
  <2> HIDE DEF Fetched
  <2> QED BY <1>a, <2>1, <2>2, <2>3, <2>4, SameSnaps, SimStepHist
<1>2. CASE SimReadsBaseline(m)
  <2> DEFINE first == Process(pageType, j.page, None).content
             store == [j EXCEPT !.at = "baseline", !.content = first]
             compare == [j EXCEPT !.at = "mutate", !.prev = Newest]
  <2>1. /\ UNCHANGED <<snaps, changes>> /\ j.at = "compare"
        /\ Sim(m, store) \/ Sim(m, compare)
    BY <1>2 DEF SimReadsBaseline
  <2>2. first = Rendered(served[j.version])
    BY <1>b, <2>1, RenderedByProcess DEF Seen
  <2>3. store.at = "baseline" /\ store.content = first /\ store.version = j.version
        /\ store.mark = j.mark /\ compare.at = "mutate"
    BY <1>0 DEF Job
  <2> HIDE DEF first, store, compare
  <2>4. Seen(store, FALSE, served, snaps') /\ Seen(compare, FALSE, served, snaps')
    BY <1>b, <2>1, <2>2, <2>3 DEF Seen, Pending
  <2>5. Tells(store, changes', snaps') /\ Tells(compare, changes', snaps')
    BY <2>3 DEF Tells
  <2> QED BY <1>a, <1>c, <2>1, <2>3, <2>4, <2>5, SameSnaps, SimStepHist
<1>3. CASE SimStoresBaseline(m)
  <2> DEFINE s == Snapshot(j, TRUE)
             next == [j EXCEPT !.at = "mutate", !.content = None, !.prev = Len(snaps) + 1]
  <2>1. /\ j.at = "baseline" /\ Len(snaps) < MaxSnaps /\ snaps' = Append(snaps, s)
        /\ Sim(m, next) /\ UNCHANGED changes
    BY <1>3 DEF SimStoresBaseline
  <2>2. s \in Snap /\ s.content = Normalize(j.content) /\ s.version = j.version
    BY <1>0, <2>1, SnapshotType, SnapshotSays DEF JobOK
  <2>3. j.content = Rendered(served[j.version]) /\ j.version \in DOMAIN served
    BY <1>b, <2>1 DEF Seen, Pending
  <2>4. s.content.kind = KindOf
    BY <1>0, <2>1, <2>2, <2>3, RenderedByProcess, NormalizeKeeps DEF JobOK
  <2> HIDE DEF s
  <2>5. Grows /\ SnapsSeen(snaps', served) /\ OfKind(snaps')
    BY <1>a, <2>1, <2>2, <2>3, <2>4, OneMoreSnap
  <2>6. next.at = "mutate"
    BY <1>0 DEF Job
  <2> HIDE DEF next
  <2>7. Seen(next, FALSE, served, snaps') /\ Tells(next, changes', snaps')
    BY <2>6 DEF Seen, Pending, Tells
  <2> QED BY <1>a, <1>c, <2>1, <2>5, <2>6, <2>7, SimStepHist
<1>4. CASE SimMutates(m)
  <2>1. j.at = "mutate" /\ UNCHANGED <<snaps, changes>>
    BY <1>4 DEF SimMutates
  <2>2. PICK x \in Mutations(j.page, ContentOf(j.prev)) :
            Sim(m, [j EXCEPT !.at = "store", !.content = x.content, !.left = x.events])
    BY <1>4 DEF SimMutates
  <2> DEFINE next == [j EXCEPT !.at = "store", !.content = x.content, !.left = x.events]
  <2>3. next.at = "store" /\ next.content = x.content /\ next.left = x.events
        /\ next.page = j.page
    BY <1>0 DEF Job
  <2>4. Sim(m, next)
    BY <2>2
  <2> HIDE DEF next
  <2>5. x.content.kind = KindOf /\ Whole(next, x.events, x.content)
    BY <2>3, MutationTells
  <2>6. Seen(next, FALSE, served, snaps') /\ Tells(next, changes', snaps')
    BY <2>3, <2>5 DEF Seen, Pending, Tells
  <2> QED BY <1>a, <1>c, <2>1, <2>3, <2>4, <2>6, SameSnaps, SimStepHist
<1>5. CASE SimStores(m)
  <2> DEFINE s == Snapshot(j, FALSE)
             next == [j EXCEPT !.at = "record", !.content = None, !.cur = Len(snaps) + 1]
  <2>1. /\ j.at = "store" /\ Len(snaps) < MaxSnaps /\ snaps' = Append(snaps, s)
        /\ Sim(m, next) /\ UNCHANGED changes
    BY <1>5 DEF SimStores
  <2>2. s \in Snap /\ s.content = Normalize(j.content) /\ s.real = FALSE
    BY <1>0, <2>1, SnapshotType, SnapshotSays DEF JobOK
  <2>3. j.content.kind = KindOf /\ Whole(j, j.left, j.content) /\ j.content \in Content
    BY <1>0, <2>1 DEF Tells, JobOK
  <2>4. s.content.kind = KindOf
    BY <2>2, <2>3, NormalizeKeeps
  <2>5. Whole(j, j.left, s.content)
    BY <2>2, <2>3, NormalizeKeeps DEF Whole, KindOf
  <2> HIDE DEF s
  <2>6. /\ Grows /\ SnapsSeen(snaps', served) /\ OfKind(snaps')
        /\ Len(snaps) + 1 \in DOMAIN snaps' /\ Len(snaps) + 1 \notin DOMAIN snaps
        /\ snaps'[Len(snaps) + 1] = s
    BY <1>a, <2>1, <2>2, <2>4, OneMoreSnap
  <2>7. next.at = "record" /\ next.prev = j.prev /\ next.left = j.left /\ next.page = j.page
        /\ next.cur = Len(snaps) + 1
    BY <1>0 DEF Job
  <2> HIDE DEF next
  <2>8. Told(next.cur, changes') = {}
    BY <2>1, <2>6, <2>7 DEF Told, Inv, ChangesOK, ChangeOf
  <2>9. j.prev \in DOMAIN snaps'
    BY <1>0, <2>1, <2>6 DEF JobOK, Grows, Kept
  <2>10. Whole(next, Told(next.cur, changes') \cup next.left, snaps'[next.cur].content)
    BY <2>5, <2>6, <2>7, <2>8 DEF Whole
  <2>11. Tells(next, changes', snaps')
    BY <2>2, <2>6, <2>7, <2>9, <2>10 DEF Tells
  <2>12. Seen(next, FALSE, served, snaps')
    BY <2>7 DEF Seen, Pending
  <2> QED BY <1>a, <1>c, <2>1, <2>6, <2>7, <2>11, <2>12, SimStepHist
<1>6. CASE SimRecords(m)
  <2>1. j.at = "record" /\ Recordable(j) /\ snaps' = snaps
    BY <1>6 DEF SimRecords
  <2>2. PICK e \in j.left :
            /\ changes' = changes \cup {Change(j, e, FALSE)}
            /\ Sim(m, [j EXCEPT !.at = AfterEvent(j.left \ {e}), !.left = @ \ {e}])
    BY <1>6 DEF SimRecords
  <2> DEFINE next == [j EXCEPT !.at = AfterEvent(j.left \ {e}), !.left = @ \ {e}]
             c == Change(j, e, FALSE)
  <2>3. c.cur = j.cur /\ c.event = e /\ c.real = FALSE /\ changes' = changes \cup {c}
    BY <2>2 DEF Change
  <2>4. next.prev = j.prev /\ next.cur = j.cur /\ next.left = j.left \ {e}
        /\ next.page = j.page
        /\ next.at = IF j.left \ {e} = {} THEN "respond" ELSE "record"
    BY <1>0 DEF Job, AfterEvent
  <2>5. Sim(m, next)
    BY <2>2
  <2> HIDE DEF next, c
  <2>6. Told(j.cur, changes') = Told(j.cur, changes) \cup {e}
    BY <2>3 DEF Told
  <2>7. Told(j.cur, changes') \cup next.left = Told(j.cur, changes) \cup j.left
    BY <2>2, <2>4, <2>6
  <2>8. /\ j.cur \in DOMAIN snaps /\ j.prev \in DOMAIN snaps /\ ~snaps[j.cur].real
        /\ Whole(j, Told(j.cur, changes) \cup j.left, snaps[j.cur].content)
    BY <1>0, <2>1 DEF Tells
  <2>9. Whole(next, Told(next.cur, changes') \cup next.left, snaps'[next.cur].content)
    BY <2>1, <2>4, <2>7, <2>8 DEF Whole
  <2>10. snaps[j.prev].content # snaps[j.cur].content
    BY <1>0, <2>1, <2>8, StoredType DEF Recordable, Differ, ContentOf
  <2>11. Tells(next, changes', snaps')
    BY <2>1, <2>4, <2>8, <2>9, <2>10 DEF Tells
  <2>12. Seen(next, FALSE, served, snaps')
    BY <2>4 DEF Seen, Pending
  <2>13. changes \subseteq changes' /\ \A d \in changes' \ changes :
             ~d.real /\ d.cur = j.cur /\ j.at = "record"
    BY <2>1, <2>3
  <2> QED BY <1>a, <1>c, <2>1, <2>4, <2>5, <2>11, <2>12, <2>13, SameSnaps, SimStepHist
<1>7. CASE SimResponds(m) \/ SimFails(m)
  <2>1. Sim(m, Over) /\ UNCHANGED <<snaps, changes>> /\ Over.at = "over"
    BY <1>7 DEF SimResponds, SimFails, Over, Idle
  <2> QED BY <1>0, <1>a, <2>1, IdleSays, SameSnaps, SimStepHist
<1> QED BY <1>1, <1>2, <1>3, <1>4, <1>5, <1>6, <1>7

\* A new version does not change what was served before.
LEMMA PublishKeepsHist ==
    ASSUME Inv, Hist, Publish
    PROVE  Hist'
<1>1. PICK served \in [1..site.version -> Pages] : Around(served)
  BY DEF Hist
<1>2. PICK p \in Pages : site' = [page |-> p, version |-> site.version + 1]
  BY DEF Publish
<1>3. UNCHANGED <<pageType, snaps, changes, check, sim>>
  BY DEF Publish
<1>4. site.version \in Nat /\ site.version >= 1
  BY SimulationAssumption DEF Inv, Hist, Version
<1>a. PICK later : later = [v \in 1..(site.version + 1) |->
                                IF v = site.version + 1 THEN p ELSE served[v]]
  OBVIOUS
<1>5. later \in [1..site'.version -> Pages] /\ later[site'.version] = site'.page
  BY <1>a, <1>1, <1>2, <1>4 DEF Around
<1>6. \A v \in DOMAIN served : v \in DOMAIN later /\ later[v] = served[v]
  BY <1>a, <1>1, <1>4 DEF Around
<1>7. SnapsSeen(snaps, later)
  BY <1>1, <1>6 DEF Around, SnapsSeen
<1>8. ASSUME NEW j, NEW real, Seen(j, real, served, snaps)
      PROVE  Seen(j, real, later, snaps)
  BY <1>6, <1>8 DEF Seen, Pending
<1>9. Seen(check, TRUE, later, snaps) /\ \A m \in Sims : Seen(sim[m], FALSE, later, snaps)
  BY <1>1, <1>8 DEF Around
<1>10. Around(later)'
  <2>1. SnapsSeen(snaps, later)'
    BY <1>3, <1>7 DEF SnapsSeen, Rendered
  <2>2. Seen(check, TRUE, later, snaps)'
    BY <1>3, <1>9 DEF Seen, Rendered
  <2>3. ASSUME NEW m \in Sims PROVE Seen(sim[m], FALSE, later, snaps)'
    <3>1. Seen(sim[m], FALSE, later, snaps)
      BY <1>9
    <3> QED BY <1>3, <3>1 DEF Seen, Rendered
  <2> QED BY <1>5, <2>1, <2>2, <2>3 DEF Around
<1>11. \E w \in [1..site'.version -> Pages] : Around(w)'
  BY <1>5, <1>10
<1>12. ASSUME NEW m \in Sims PROVE Tells(sim[m], changes, snaps)'
  <2>1. Tells(sim[m], changes, snaps)
    BY DEF Hist
  <2> QED BY <1>3, <2>1 DEF Tells, Whole, KindOf
<1>13. Followed(changes, snaps)' /\ OfKind(snaps)' /\ Apart'
  BY <1>3 DEF Hist, Followed, OfKind, KindOf, Apart
<1> QED BY <1>2, <1>4, <1>5, <1>11, <1>12, <1>13 DEF Hist

LEMMA StepKeepsHist == Inv /\ Hist /\ [Next]_vars => Hist'
<1> SUFFICES ASSUME Inv, Hist, [Next]_vars PROVE Hist'
  OBVIOUS
<1>1. CASE UNCHANGED vars
  <2>1. UNCHANGED <<site, pageType, snaps, changes, check, sim>>
    BY <1>1 DEF vars
  <2>2. PICK served \in [1..site.version -> Pages] : Around(served)
    BY DEF Hist
  <2>3. Around(served)'
    BY <2>1, <2>2 DEF Around, SnapsSeen, Seen, Rendered
  <2>4. ASSUME NEW m \in Sims PROVE Tells(sim[m], changes, snaps)'
    <3>1. Tells(sim[m], changes, snaps)
      BY DEF Hist
    <3> QED BY <2>1, <3>1 DEF Tells, Whole, KindOf
  <2>5. (site.version >= 1 /\ Followed(changes, snaps) /\ OfKind(snaps) /\ Apart)'
    BY <2>1 DEF Hist, Followed, OfKind, KindOf, Apart
  <2> QED BY <2>1, <2>2, <2>3, <2>4, <2>5 DEF Hist
<1> QED BY <1>1, PublishKeepsHist, CheckKeepsHist, SimKeepsHist DEF Next

\* What the history says gives the other properties that the simulation run checks.
LEMMA HistSuffices == Inv /\ Hist => RealChangesFollowSite /\ SimulationIsComplete
<1> SUFFICES ASSUME Inv, Hist PROVE RealChangesFollowSite /\ SimulationIsComplete
  OBVIOUS
<1>1. RealChangesFollowSite
  BY DEF Hist, Followed, RealChangesFollowSite
<1>2. ASSUME NEW m \in Sims, sim[m].at = "respond"
      PROVE  LET base == ContentOf(sim[m].prev)
                 stored == ContentOf(sim[m].cur)
             IN  /\ stored # base
                 /\ pageType # "PRODUCT_LISTING" => Cardinality(EventsOf(sim[m].cur)) = 1
                 /\ base = SerializeProducts(ExtractProducts(sim[m].page.cards)) =>
                        EventsOf(sim[m].cur) = DiffByKey(base.products, stored.products)
  <2> DEFINE j == sim[m]
             base == ContentOf(sim[m].prev)
             stored == ContentOf(sim[m].cur)
  <2>1. /\ j.cur \in DOMAIN snaps /\ j.prev \in DOMAIN snaps /\ j.left = {}
        /\ snaps[j.prev].content # snaps[j.cur].content
        /\ Whole(j, Told(j.cur, changes) \cup j.left, snaps[j.cur].content)
    BY <1>2 DEF Hist, Tells
  <2>2. base = snaps[j.prev].content /\ stored = snaps[j.cur].content
    BY <2>1, StoredType DEF Inv, ContentOf
  <2>3. EventsOf(j.cur) = Told(j.cur, changes)
    BY DEF EventsOf, Told
  <2>4. Whole(j, EventsOf(j.cur), stored)
    BY <2>1, <2>2, <2>3
  <2>5. base.kind = KindOf
    BY <2>1, <2>2 DEF Hist, OfKind
  <2> HIDE DEF base, stored
  <2>6. pageType # "PRODUCT_LISTING" => Cardinality(EventsOf(j.cur)) = 1
    <3> SUFFICES ASSUME pageType # "PRODUCT_LISTING"
                 PROVE  Cardinality(EventsOf(j.cur)) = 1
      OBVIOUS
    <3>1. PICK e \in EventsOf(j.cur) : EventsOf(j.cur) = {e}
      BY <2>4 DEF Whole
    <3> QED BY <3>1, FS_Singleton
  <2>7. ASSUME base = SerializeProducts(ExtractProducts(j.page.cards))
        PROVE  EventsOf(j.cur) = DiffByKey(base.products, stored.products)
    <3>1. base.kind = "listing" /\ base.products = ExtractProducts(j.page.cards)
      BY <2>7 DEF SerializeProducts
    <3>2. pageType = "PRODUCT_LISTING"
      BY <2>5, <3>1 DEF KindOf
    <3> QED BY <2>4, <3>1, <3>2 DEF Whole
  <2> QED BY <2>1, <2>2, <2>6, <2>7 DEF base, stored
<1> QED BY <1>1, <1>2 DEF SimulationIsComplete

-----------------------------------------------------------------------------

\* A real change tells that the site moved on between two fetches, however many
\* simulations stored and recorded in between (_latest_real_snapshot and the
\* comparison of monitor_target).
THEOREM ChangesFollowSite == Spec => []RealChangesFollowSite
<1>1. Init => Inv /\ Hist
  BY InitInv, InitHist
<1>2. Inv /\ Hist /\ [Next]_vars => (Inv /\ Hist)'
  BY StepKeepsInv, StepKeepsHist
<1>3. Inv /\ Hist => RealChangesFollowSite
  BY HistSuffices
<1> QED BY <1>1, <1>2, <1>3, PTL DEF Spec

\* A simulation that is answered has recorded its whole difference, whatever mutation
\* the model returned (the loop over the events in simulate_and_persist_change).
THEOREM SimulationsAreComplete == Spec => []SimulationIsComplete
<1>1. Init => Inv /\ Hist
  BY InitInv, InitHist
<1>2. Inv /\ Hist /\ [Next]_vars => (Inv /\ Hist)'
  BY StepKeepsInv, StepKeepsHist
<1>3. Inv /\ Hist => SimulationIsComplete
  BY HistSuffices
<1> QED BY <1>1, <1>2, <1>3, PTL DEF Spec
=============================================================================
