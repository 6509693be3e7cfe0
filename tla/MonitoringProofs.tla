-------------------------- MODULE MonitoringProofs --------------------------
(***************************************************************************)
(* Proofs about monitor_target: types, exclusion of duplicate runs, what a *)
(* reclaimed worker can still do, and what the history of snapshots and    *)
(* changes says.                                                           *)
(***************************************************************************)
EXTENDS Monitoring, FiniteSetTheorems, WellFoundedInduction, TLAPS

-----------------------------------------------------------------------------
(* What the operators of ContentProcessing return, for every page.         *)

\* One more normalizing pass over stored content gives stored content
\* (normalize_content called by create_snapshot).
LEMMA NormalizeType ==
    ASSUME NEW c \in Content
    PROVE  Normalize(c) \in Content
<1>1. CASE c \in Html
  <2>1. c.refs \in 0..MaxRefs /\ c.kind = "html" /\ c.text \in Texts
    BY <1>1 DEF Html
  <2>2. c.refs > 0 => [c EXCEPT !.refs = @ - 1] \in Html
    BY <1>1, <2>1, ContentAssumption DEF Html
  <2> QED BY <1>1, <2>2 DEF Normalize, Content
<1>2. CASE c \in Listing
  BY <1>2 DEF Listing, Normalize, Content
<1> QED BY <1>1, <1>2 DEF Content

\* A set of card positions has a first one.
LEMMA FirstPosition ==
    ASSUME NEW T, T \subseteq Nat, T # {}
    PROVE  \E m \in T : \A n \in T : m <= n
<1> DEFINE Less == {ss \in Nat \X Nat : ss[1] < ss[2]}
<1>1. IsWellFoundedOn(Less, Nat)
  BY NatLessThanWellFounded DEF OpToRel
<1>2. PICK m \in T : \A n \in T : <<n, m>> \notin Less
  BY <1>1, WFMin, Zenon
<1>3. \A n \in T : ~(n < m)
  BY <1>2
<1> QED BY <1>3

\* extract_products keeps, per key, the offer of one of the cards.
LEMMA ExtractType ==
    ASSUME NEW cards \in Seq(Card)
    PROVE  ExtractProducts(cards) \in [Keys -> Offer \cup {None}]
<1> SUFFICES ASSUME NEW k \in Keys, CompleteCards(cards, k) # {}
             PROVE  FirstOffer(cards, k) \in Offer \cup {None}
  BY DEF ExtractProducts
<1> DEFINE S == CompleteCards(cards, k)
           First == CHOOSE i \in S : \A j \in S : i <= j
<1>1. S \subseteq Nat /\ S \subseteq DOMAIN cards
  BY DEF CompleteCards
<1>2. \E i \in S : \A j \in S : i <= j
  BY <1>1, FirstPosition, Zenon
<1>3. First \in DOMAIN cards
  <2> HIDE DEF S
  <2> QED BY <1>1, <1>2
<1>4. cards[First] \in Card
  <2> HIDE DEF First
  <2> QED BY <1>3
<1> QED BY <1>4 DEF FirstOffer, Card

\* A processor returns content that can be stored and events that can be recorded
\* (ProcessResult of content_processing.py).
LEMMA ProcessType ==
    ASSUME NEW type \in PageTypes, NEW page \in RawPage,
           NEW previous \in Content \cup {None}
    PROVE  /\ Process(type, page, previous).content \in Content
           /\ Process(type, page, previous).events \in SUBSET Event
<1>1. CanonicalHtml(page) \in Content
  BY DEF CanonicalHtml, RawPage, Content, Html
<1>2. SerializeProducts(ExtractProducts(page.cards)) \in Content
  BY ExtractType DEF SerializeProducts, RawPage, Content, Listing
<1>3. CASE type = "PRODUCT_LISTING"
  <2>1. ASSUME NEW old, NEW new PROVE DiffByKey(old, new) \in SUBSET Event
    BY DEF DiffByKey, Event, ChangeTypes
  <2> QED BY <1>2, <1>3, <2>1
          DEF Process, ProductListingProcess, Unchanged, Rejected
<1>4. CASE type # "PRODUCT_LISTING"
  <2>1. [type |-> DeriveChangeType(type), key |-> None] \in Event
    BY DEF DeriveChangeType, Event, ChangeTypes
  <2> QED BY <1>1, <1>4, <2>1 DEF Process, TextBlobProcess, Unchanged, Rejected
<1> QED BY <1>3, <1>4

-----------------------------------------------------------------------------
(* The events of a comparison.                                             *)

\* The events that tell content c from the content before it, None if there is none.
Derived(c, events, previous) ==
    /\ previous \in {None, c} => events = {}
    /\ previous \notin {None, c} =>
          IF {c.kind, previous.kind} = {"listing"}
          THEN events = DiffByKey(previous.products, c.products)
          ELSE \E e \in events : events = {e}

\* A processor that succeeds derives its events from the content it returns, which is
\* a product list or the canonical form of the page.
LEMMA ProcessDerives ==
    ASSUME NEW type, NEW page, NEW previous, Process(type, page, previous).ok
    PROVE  LET result == Process(type, page, previous)
           IN  /\ Derived(result.content, result.events, previous)
               /\ result.content.kind = "html" => result.content = CanonicalHtml(page)
<1> DEFINE result == Process(type, page, previous)
<1>1. CASE type = "PRODUCT_LISTING"
  <2> DEFINE c == SerializeProducts(ExtractProducts(page.cards))
  <2>1. c.kind = "listing"
    BY DEF SerializeProducts
  <2>2. result = ProductListingProcess(page, previous)
    BY <1>1 DEF Process
  <2>3. result.content = c
    BY <2>2 DEF ProductListingProcess, Unchanged, Rejected
  <2>4. CASE previous \in {None, c}
    BY <2>1, <2>2, <2>3, <2>4 DEF ProductListingProcess, Unchanged, Rejected, Derived
  <2>5. CASE previous \notin {None, c}
    <3>1. previous.kind = "listing"
      BY <2>2, <2>5 DEF ProductListingProcess, Rejected
    <3>2. result.events = DiffByKey(previous.products, c.products)
      BY <2>2, <2>5, <3>1 DEF ProductListingProcess
    <3>3. Derived(result.content, result.events, previous)
      <4> HIDE DEF c, result
      <4> QED BY <2>1, <2>3, <2>5, <3>1, <3>2 DEF Derived
    <3> QED BY <2>1, <2>3, <3>3
  <2> QED BY <2>1, <2>3, <2>4, <2>5
<1>2. CASE type # "PRODUCT_LISTING"
  <2> DEFINE c == CanonicalHtml(page)
             e == [type |-> DeriveChangeType(type), key |-> None]
  <2>1. c.kind = "html"
    BY DEF CanonicalHtml
  <2>2. result = TextBlobProcess(type, page, previous)
    BY <1>2 DEF Process
  <2>3. result.content = c
    BY <2>2 DEF TextBlobProcess, Unchanged, Rejected
  <2>4. CASE previous \in {None, c}
    BY <2>2, <2>3, <2>4 DEF TextBlobProcess, Unchanged, Derived
  <2>5. CASE previous \notin {None, c}
    <3>1. result.events = {e}
      BY <2>2, <2>5 DEF TextBlobProcess, Rejected
    <3>2. Derived(result.content, result.events, previous)
      <4> HIDE DEF c, e, result
      <4> QED BY <2>1, <2>3, <2>5, <3>1 DEF Derived
    <3> QED BY <2>3, <3>2
  <2> QED BY <2>3, <2>4, <2>5
<1> QED BY <1>1, <1>2

-----------------------------------------------------------------------------
(* Typing.                                                                 *)

\* What the locals of a worker hold at each position of monitor_target.
JobOK(w) ==
    /\ pc[w] = "idle" => job[w] = NoJob
    /\ pc[w] # "idle" => job[w].target \in Targets /\ job[w].type \in PageTypes
    /\ pc[w] \in {"insert", "find", "mark"} => job[w].run = 0
    /\ pc[w] = "mark" => job[w].seen \in DOMAIN runs
    /\ InRun(w) => job[w].run \in DOMAIN runs
    /\ pc[w] = "process" => job[w].page \in Pages
    /\ pc[w] = "write" => job[w].content \in Content

TypeInv == TypeOK /\ \A w \in Workers : JobOK(w)

\* An idle worker has the locals of a worker.
LEMMA NoJobType == NoJob \in Job
BY DEF NoJob, Job, MaxTries, Never

\* Types hold initially.
LEMMA InitType == Init => TypeInv
<1> SUFFICES ASSUME Init PROVE TypeInv
  OBVIOUS
<1>1. TypeOK
  <2>1. ASSUME NEW t \in Targets PROVE tgt[t] \in Target
    <3> DEFINE First == [exists : {TRUE}, active : {TRUE}, type : StartTypes,
                         lastChecked : {Never}, lastChanged : {Never}]
    <3>1. tgt[t] \in First
      BY DEF Init
    <3>2. First \subseteq Target
      <4>1. StartTypes \subseteq PageTypes /\ {TRUE} \subseteq BOOLEAN /\ {Never} \subseteq Nat
        BY MonitoringAssumption DEF Never
      <4> HIDE DEF Never
      <4> QED BY <4>1, Zenon DEF Target
    <3> QED BY <3>1, <3>2
  <2>4. tgt = [t \in Targets |-> tgt[t]]
    BY DEF Init
  <2>2. runs \in Seq(Run) /\ snaps \in Seq(Snap) /\ changes \in SUBSET Change
    BY DEF Init
  <2>3. job \in [Workers -> Job]
    BY NoJobType DEF Init
  <2> QED BY <2>1, <2>2, <2>3, <2>4 DEF Init, TypeOK, Labels
<1>2. ASSUME NEW w \in Workers PROVE JobOK(w)
  BY DEF Init, JobOK, InRun
<1> QED BY <1>1, <1>2 DEF TypeInv

\* A step of one worker: the others keep their position and locals, and no run
\* record disappears.
LEMMA StepOfOne ==
    ASSUME TypeInv, NEW w \in Workers, NEW l \in Labels, NEW j \in Job,
           pc' = [pc EXCEPT ![w] = l], job' = [job EXCEPT ![w] = j],
           DOMAIN runs \subseteq DOMAIN runs', JobOK(w)'
    PROVE  /\ pc' \in [Workers -> Labels]
           /\ job' \in [Workers -> Job]
           /\ \A u \in Workers : JobOK(u)'
<1>1. pc' \in [Workers -> Labels] /\ job' \in [Workers -> Job]
  BY DEF TypeInv, TypeOK
<1>2. ASSUME NEW u \in Workers, u # w PROVE JobOK(u)'
  <2>1. pc'[u] = pc[u] /\ job'[u] = job[u]
    BY <1>2 DEF TypeInv, TypeOK
  <2> QED BY <2>1, <1>2 DEF TypeInv, JobOK, InRun
<1> QED BY <1>1, <1>2

\* A worker that moves without touching its locals.
LEMMA MoveOfOne ==
    ASSUME TypeInv, NEW w \in Workers, NEW l \in Labels, Goto(w, l), UNCHANGED job,
           DOMAIN runs \subseteq DOMAIN runs', JobOK(w)'
    PROVE  /\ pc' \in [Workers -> Labels]
           /\ job' \in [Workers -> Job]
           /\ \A u \in Workers : JobOK(u)'
<1>1. job[w] \in Job /\ job' = [job EXCEPT ![w] = job[w]]
  BY DEF TypeInv, TypeOK
<1> QED BY <1>1, StepOfOne DEF Goto

\* A worker that leaves.
LEMMA LeaveOfOne ==
    ASSUME TypeInv, NEW w \in Workers, Leave(w), DOMAIN runs \subseteq DOMAIN runs'
    PROVE  /\ pc' \in [Workers -> Labels]
           /\ job' \in [Workers -> Job]
           /\ \A u \in Workers : JobOK(u)'
<1>1. pc'[w] = "idle" /\ job'[w] = NoJob
  BY DEF Leave, Goto, TypeInv, TypeOK
<1>2. JobOK(w)'
  BY <1>1 DEF JobOK, InRun
<1>3. "idle" \in Labels
  BY DEF Labels
<1> QED BY <1>2, <1>3, NoJobType, StepOfOne DEF Leave, Goto

\* The retry loop of claim either tries again or gives up.
LEMMA RetryOfOne ==
    ASSUME TypeInv, NEW w \in Workers, pc[w] \in {"find", "mark"}, Retry(w),
           DOMAIN runs \subseteq DOMAIN runs'
    PROVE  /\ pc' \in [Workers -> Labels]
           /\ job' \in [Workers -> Job]
           /\ \A u \in Workers : JobOK(u)'
<1>1. CASE job[w].tries + 1 < MaxTries
  <2> DEFINE j == [job[w] EXCEPT !.tries = @ + 1, !.seen = 0]
  <2>1. job[w] \in Job
    BY DEF TypeInv, TypeOK
  <2>2. j \in Job
    <3>1. job[w].tries + 1 \in 0..MaxTries - 1
      BY <2>1, <1>1 DEF Job, MaxTries
    <3>2. 0 \in Nat
      OBVIOUS
    <3> QED BY <2>1, <3>1, <3>2, Zenon DEF Job
  <2>3. job' = [job EXCEPT ![w] = j] /\ pc' = [pc EXCEPT ![w] = "insert"]
    BY <1>1 DEF Retry, Goto
  <2>4. pc'[w] = "insert" /\ job'[w] = j
    BY <2>3 DEF TypeInv, TypeOK
  <2>5. JobOK(w)'
    BY <2>1, <2>4 DEF JobOK, InRun, TypeInv, Job
  <2>6. "insert" \in Labels
    BY DEF Labels
  <2> QED BY <2>2, <2>3, <2>5, <2>6, StepOfOne
<1>2. CASE ~(job[w].tries + 1 < MaxTries)
  BY <1>2, LeaveOfOne DEF Retry
<1> QED BY <1>1, <1>2

\* Updating the status of a record keeps the records and their number.
LEMMA StatusUpdate ==
    ASSUME TypeInv, NEW r \in DOMAIN runs, NEW s \in {"RUNNING", "SUCCESS", "FAILED"},
           runs' = [runs EXCEPT ![r].status = s]
    PROVE  runs' \in Seq(Run) /\ DOMAIN runs' = DOMAIN runs /\ Len(runs') = Len(runs)
<1>1. runs \in Seq(Run)
  BY DEF TypeInv, TypeOK
<1>2. runs[r] \in Run
  BY <1>1
<1>3. [runs[r] EXCEPT !.status = s] \in Run
  BY <1>2 DEF Run
<1> QED BY <1>1, <1>3

\* The claim preserves types.
LEMMA ClaimType ==
    ASSUME TypeInv, NEW w \in Workers,
           \/ \E t \in Targets : CheckTarget(w, t)
           \/ InsertRun(w) \/ InsertRefused(w) \/ FindRunning(w) \/ MarkStale(w)
    PROVE  TypeInv'
<1> USE DEF TypeInv
<1>1. job[w] \in Job /\ pc[w] \in Labels /\ JobOK(w) /\ runs \in Seq(Run)
  BY DEF TypeOK
<1>2. ASSUME NEW t \in Targets, CheckTarget(w, t) PROVE TypeInv'
  <2> DEFINE j == [NoJob EXCEPT !.target = t, !.type = tgt[t].type, !.started = clock]
  <2>1. tgt[t].type \in PageTypes /\ clock \in Nat
    BY DEF TypeOK, Target
  <2>2. j \in Job
    BY <2>1, NoJobType, Zenon DEF Job
  <2>3. pc' = [pc EXCEPT ![w] = "insert"] /\ job' = [job EXCEPT ![w] = j]
    BY <1>2 DEF CheckTarget, Goto
  <2>4. pc'[w] = "insert" /\ job'[w] = j
    BY <2>3 DEF TypeOK
  <2>5. j.target = t /\ j.type = tgt[t].type /\ j.run = 0
    BY DEF NoJob
  <2>6. JobOK(w)'
    BY <2>1, <2>4, <2>5 DEF JobOK, InRun
  <2>7. "insert" \in Labels
    BY DEF Labels
  <2>8. DOMAIN runs \subseteq DOMAIN runs'
    BY <1>2 DEF CheckTarget
  <2> QED BY <1>2, <2>2, <2>3, <2>6, <2>7, <2>8, StepOfOne DEF CheckTarget, TypeOK
<1>3. CASE InsertRun(w)
  <2> DEFINE r == [target |-> job[w].target, started |-> job[w].started,
                   status |-> "RUNNING"]
             j == [job[w] EXCEPT !.run = Len(runs) + 1]
  <2>1. job[w].target \in Targets /\ job[w].type \in PageTypes /\ job[w].started \in Nat
    BY <1>1, <1>3 DEF InsertRun, JobOK, Job
  <2>2. r \in Run
    BY <2>1 DEF Run
  <2>3. runs' \in Seq(Run) /\ DOMAIN runs' = 1..Len(runs) + 1 /\ Len(runs) \in Nat
    BY <1>1, <1>3, <2>2 DEF InsertRun
  <2>4. j \in Job
    <3>1. Len(runs) + 1 \in Nat
      BY <2>3
    <3> QED BY <1>1, <3>1, Zenon DEF Job
  <2>5. pc' = [pc EXCEPT ![w] = "touch"] /\ job' = [job EXCEPT ![w] = j]
    BY <1>3 DEF InsertRun, Goto
  <2>6. pc'[w] = "touch" /\ job'[w] = j
    BY <2>5 DEF TypeOK
  <2>7. j.target = job[w].target /\ j.type = job[w].type /\ j.run = Len(runs) + 1
    BY <1>1 DEF Job
  <2>8. JobOK(w)'
    BY <2>1, <2>3, <2>6, <2>7 DEF JobOK
  <2>9. DOMAIN runs \subseteq DOMAIN runs' /\ "touch" \in Labels
    BY <1>1, <2>3 DEF Labels
  <2> QED BY <1>3, <2>3, <2>4, <2>5, <2>8, <2>9, StepOfOne DEF InsertRun, TypeOK
<1>4. CASE InsertRefused(w)
  <2>1. pc'[w] = "find" /\ job'[w] = job[w] /\ runs' = runs /\ "find" \in Labels
    BY <1>4 DEF InsertRefused, Goto, TypeOK, Labels
  <2>2. JobOK(w)'
    BY <1>1, <1>4, <2>1 DEF JobOK, InsertRefused, InRun
  <2> QED BY <1>4, <2>1, <2>2, MoveOfOne DEF InsertRefused, TypeOK
<1>5. CASE FindRunning(w)
  <2>1. UNCHANGED <<clock, site, tgt, removing, runs, snaps, changes, faults>>
    BY <1>5 DEF FindRunning
  <2>2. DOMAIN runs \subseteq DOMAIN runs'
    BY <2>1
  <2>3. CASE Retry(w)
    BY <1>5, <2>1, <2>2, <2>3, RetryOfOne DEF FindRunning, TypeOK
  <2>4. CASE Leave(w)
    BY <2>1, <2>2, <2>4, LeaveOfOne DEF TypeOK
  <2>5. ASSUME NEW r \in RunningRuns(job[w].target),
               job' = [job EXCEPT ![w].seen = r], Goto(w, "mark")
        PROVE  TypeInv'
    <3> DEFINE j == [job[w] EXCEPT !.seen = r]
    <3>1. r \in DOMAIN runs /\ r \in Nat
      BY <1>1 DEF RunningRuns
    <3>2. j \in Job
      BY <1>1, <3>1, Zenon DEF Job
    <3>3. job' = [job EXCEPT ![w] = j] /\ pc' = [pc EXCEPT ![w] = "mark"]
      BY <2>5 DEF Goto
    <3>4. pc'[w] = "mark" /\ job'[w] = j
      BY <3>3 DEF TypeOK
    <3>5. j.target = job[w].target /\ j.type = job[w].type /\ j.run = job[w].run
          /\ j.seen = r
      BY <1>1 DEF Job
    <3>6. JobOK(w)'
      BY <1>1, <1>5, <2>1, <3>1, <3>4, <3>5 DEF JobOK, FindRunning, InRun
    <3>7. "mark" \in Labels
      BY DEF Labels
    <3> QED BY <2>1, <2>2, <3>2, <3>3, <3>6, <3>7, StepOfOne DEF TypeOK
  <2> QED BY <1>5, <2>3, <2>4, <2>5 DEF FindRunning
<1>6. CASE MarkStale(w)
  <2>1. job[w].seen \in DOMAIN runs
    BY <1>1, <1>6 DEF MarkStale, JobOK
  <2>2. runs' \in Seq(Run) /\ DOMAIN runs' = DOMAIN runs
    BY <1>1, <1>6, <2>1, StatusUpdate DEF MarkStale
  <2> QED BY <1>6, <2>2, RetryOfOne DEF MarkStale, TypeOK
<1> QED BY <1>2, <1>3, <1>4, <1>5, <1>6

\* Newest names a snapshot of the target, or 0 when there is none.
LEMMA NewestType ==
    ASSUME snaps \in Seq(Snap), NEW t, NEW p \in Newest(t)
    PROVE  p \in Nat /\ (p # 0 => p \in RealSnaps(t))
<1>1. RealSnaps(t) \subseteq Nat
  BY DEF RealSnaps
<1>2. CASE RealSnaps(t) = {}
  BY <1>2 DEF Newest
<1>3. CASE RealSnaps(t) # {}
  BY <1>1, <1>3 DEF Newest
<1> QED BY <1>2, <1>3

\* The attempt preserves types.
LEMMA AttemptType ==
    ASSUME TypeInv, NEW w \in Workers,
           \/ TouchTarget(w) \/ Fetch(w) \/ ProcessPage(w) \/ WriteSnapshot(w)
           \/ RecordEvent(w) \/ TouchChanged(w) \/ FinishSuccess(w) \/ FinishFailed(w)
    PROVE  TypeInv'
<1> USE DEF TypeInv
<1>1. job[w] \in Job /\ pc[w] \in Labels /\ JobOK(w) /\ runs \in Seq(Run)
  BY DEF TypeOK
<1>2. {"touch", "fetch", "process", "write", "events", "touchChanged", "finish", "fail"}
         \subseteq Labels
  BY DEF Labels
<1>3. pc[w] \notin {"idle", "insert", "find", "mark"}
  BY DEF TouchTarget, Fetch, ProcessPage, WriteSnapshot, RecordEvent, TouchChanged,
         FinishSuccess, FinishFailed
<1>4. /\ job[w].target \in Targets /\ job[w].type \in PageTypes
      /\ job[w].run \in DOMAIN runs
  BY <1>1, <1>3 DEF JobOK, InRun
\* A move to a position that asks nothing of the locals.
<1>5. ASSUME NEW l \in {"touch", "fetch", "events", "touchChanged", "finish", "fail"},
             Goto(w, l), UNCHANGED <<job, runs>>
      PROVE  /\ pc' \in [Workers -> Labels] /\ job' \in [Workers -> Job]
             /\ \A u \in Workers : JobOK(u)'
  <2>1. pc'[w] = l /\ job'[w] = job[w] /\ runs' = runs
    BY <1>5 DEF Goto, TypeOK
  <2>2. JobOK(w)'
    BY <1>4, <2>1 DEF JobOK
  <2> QED BY <1>2, <1>5, <2>1, <2>2, MoveOfOne
<1>6. CASE TouchTarget(w)
  <2>1. CASE tgt[job[w].target].exists
    <3> DEFINE t == job[w].target
    <3>1. job[w].started \in Nat /\ tgt[t] \in Target
      BY <1>1, <1>4 DEF Job, TypeOK
    <3>2. [tgt[t] EXCEPT !.lastChecked = job[w].started] \in Target
      BY <3>1, Zenon DEF Target
    <3>3. tgt' \in [Targets -> Target]
      BY <1>4, <1>6, <2>1, <3>2 DEF TouchTarget, TypeOK
    <3> QED BY <1>5, <1>6, <2>1, <3>3 DEF TouchTarget, TypeOK
  <2>2. CASE ~tgt[job[w].target].exists
    BY <1>5, <1>6, <2>2 DEF TouchTarget, TypeOK
  <2> QED BY <2>1, <2>2
<1>7. CASE Fetch(w)
  <2>1. CASE Goto(w, "fail") /\ UNCHANGED job
    BY <1>5, <1>7, <2>1 DEF Fetch, TypeOK
  <2>2. CASE job' = [job EXCEPT ![w].page = site[job[w].target]] /\ Goto(w, "process")
    <3> DEFINE j == [job[w] EXCEPT !.page = site[job[w].target]]
    <3>1. site[job[w].target] \in Pages
      BY <1>4 DEF TypeOK
    <3>2. j \in Job
      BY <1>1, <3>1, Zenon DEF Job
    <3>3. job' = [job EXCEPT ![w] = j] /\ pc' = [pc EXCEPT ![w] = "process"]
      BY <2>2 DEF Goto
    <3>4. pc'[w] = "process" /\ job'[w] = j /\ runs' = runs
      BY <1>7, <3>3 DEF Fetch, TypeOK
    <3>5. /\ j.target = job[w].target /\ j.type = job[w].type /\ j.run = job[w].run
          /\ j.page = site[job[w].target]
      BY <1>1 DEF Job
    <3>6. JobOK(w)'
      BY <1>4, <3>1, <3>4, <3>5 DEF JobOK
    <3> QED BY <1>2, <1>7, <3>2, <3>3, <3>4, <3>6, StepOfOne DEF Fetch, TypeOK
  <2> QED BY <1>7, <2>1, <2>2 DEF Fetch
<1>8. CASE ProcessPage(w)
  <2> DEFINE Previous(p) == IF p = 0 THEN None ELSE snaps[p].content
             Result(p) == Process(job[w].type, job[w].page, Previous(p))
             j(p) == [job[w] EXCEPT !.page = None, !.prev = p,
                                    !.content = Result(p).content,
                                    !.left = Result(p).events, !.at = CaptureTime(w)]
  <2>1. UNCHANGED <<clock, site, tgt, removing, runs, snaps, changes, faults>>
    BY <1>8 DEF ProcessPage
  <2>2. PICK p \in Newest(job[w].target) :
           \/ Goto(w, "write") /\ job' = [job EXCEPT ![w] = j(p)]
           \/ Goto(w, "fail") /\ UNCHANGED job
    BY <1>8, Zenon DEF ProcessPage
  <2>3. CASE Goto(w, "fail") /\ UNCHANGED job
    BY <1>5, <2>1, <2>3 DEF TypeOK
  <2>4. CASE Goto(w, "write") /\ job' = [job EXCEPT ![w] = j(p)]
    <3>1. p \in Nat /\ Previous(p) \in Content \cup {None}
      <4>1. p \in Nat /\ (p # 0 => p \in RealSnaps(job[w].target))
        BY NewestType DEF TypeOK
      <4>2. ASSUME p # 0 PROVE snaps[p].content \in Content
        <5>1. snaps[p] \in Snap
          BY <4>1, <4>2 DEF RealSnaps, TypeOK
        <5> QED BY <5>1 DEF Snap
      <4> QED BY <4>1, <4>2
    <3>2. job[w].page \in RawPage
      BY <1>1, <1>8, MonitoringAssumption DEF ProcessPage, JobOK
    <3>3. Result(p).content \in Content /\ Result(p).events \in SUBSET Event
      <4> HIDE DEF Previous
      <4> QED BY <1>4, <3>1, <3>2, ProcessType
    <3>4. CaptureTime(w) \in Nat
      BY DEF CaptureTime, TypeOK
    <3>5. j(p) \in Job
      <4> HIDE DEF Result
      <4> QED BY <1>1, <3>1, <3>3, <3>4, Zenon DEF Job
    <3>6. pc'[w] = "write" /\ job'[w] = j(p) /\ pc' = [pc EXCEPT ![w] = "write"]
      BY <2>4 DEF Goto, TypeOK
    <3>7. /\ j(p).target = job[w].target /\ j(p).type = job[w].type
          /\ j(p).run = job[w].run /\ j(p).content = Result(p).content
      <4> HIDE DEF Result
      <4> QED BY <1>1 DEF Job
    <3>8. JobOK(w)'
      <4> HIDE DEF j, Result
      <4> QED BY <1>4, <2>1, <3>3, <3>6, <3>7 DEF JobOK
    <3> HIDE DEF j
    <3> QED BY <1>2, <2>1, <2>4, <3>5, <3>6, <3>8, StepOfOne DEF TypeOK
  <2> QED BY <2>2, <2>3, <2>4
<1>9. CASE WriteSnapshot(w)
  <2> DEFINE s == [target |-> job[w].target, content |-> Normalize(job[w].content),
                   at |-> job[w].at, real |-> TRUE,
                   run |-> job[w].run, base |-> job[w].prev]
             j == [job[w] EXCEPT !.cur = Len(snaps) + 1, !.detected = clock]
             l == AfterWrite(job[w].left)
  <2>1. UNCHANGED <<clock, site, tgt, removing, runs, changes, faults>>
    BY <1>9 DEF WriteSnapshot
  <2>2. Normalize(job[w].content) \in Content
    BY <1>1, <1>9, NormalizeType DEF WriteSnapshot, JobOK
  <2>3. job[w].at \in Nat /\ job[w].run \in Nat /\ job[w].prev \in Nat
    BY <1>1 DEF Job
  <2>4. s \in Snap
    BY <1>4, <2>2, <2>3 DEF Snap
  <2>5. snaps' \in Seq(Snap) /\ Len(snaps) + 1 \in Nat /\ clock \in Nat
    BY <1>9, <2>4 DEF WriteSnapshot, TypeOK
  <2>6. j \in Job
    BY <1>1, <2>5, Zenon DEF Job
  <2>7. pc' = [pc EXCEPT ![w] = l] /\ job' = [job EXCEPT ![w] = j]
    BY <1>9 DEF WriteSnapshot, Goto
  <2>8. pc'[w] = l /\ job'[w] = j
    BY <2>7 DEF TypeOK
  <2>9. l \in {"finish", "events"}
    BY DEF AfterWrite
  <2>10. j.target = job[w].target /\ j.type = job[w].type /\ j.run = job[w].run
    BY <1>1 DEF Job
  <2>11. JobOK(w)'
    <3> HIDE DEF j, l
    <3> QED BY <1>4, <2>1, <2>8, <2>9, <2>10 DEF JobOK
  <2> HIDE DEF j, l
  <2> QED BY <1>2, <2>1, <2>5, <2>6, <2>7, <2>9, <2>11, StepOfOne DEF TypeOK
<1>10. CASE RecordEvent(w)
  <2>1. UNCHANGED <<clock, site, tgt, removing, runs, snaps, faults>>
    BY <1>10 DEF RecordEvent
  <2>2. CASE ~Recordable(job[w])
    BY <1>5, <1>10, <2>2 DEF RecordEvent, TypeOK
  <2>3. CASE Recordable(job[w])
    <3> DEFINE c(e) == [target |-> job[w].target, prev |-> job[w].prev,
                        cur |-> job[w].cur, event |-> e,
                        detected |-> job[w].detected, real |-> TRUE]
               j(e) == [job[w] EXCEPT !.left = @ \ {e}]
               l(e) == AfterEvent(job[w].left \ {e})
    <3>1. PICK e \in job[w].left :
             /\ changes' = changes \cup {c(e)}
             /\ job' = [job EXCEPT ![w] = j(e)]
             /\ Goto(w, l(e))
      BY <1>10, <2>3 DEF RecordEvent
    <3>2. /\ job[w].left \in SUBSET Event /\ job[w].prev \in Nat /\ job[w].cur \in Nat
          /\ job[w].detected \in Nat
      BY <1>1 DEF Job
    <3>3. c(e) \in Change
      BY <1>4, <3>2 DEF Change
    <3>4. changes' \in SUBSET Change
      BY <3>1, <3>3 DEF TypeOK
    <3>5. job[w].left \ {e} \in SUBSET Event
      BY <3>2
    <3>6. j(e) \in Job
      BY <1>1, <3>5, Zenon DEF Job
    <3>7. l(e) \in {"touchChanged", "events"}
      BY DEF AfterEvent
    <3>8. /\ pc' = [pc EXCEPT ![w] = l(e)] /\ pc'[w] = l(e) /\ job'[w] = j(e)
      BY <3>1 DEF Goto, TypeOK
    <3>9. j(e).target = job[w].target /\ j(e).type = job[w].type /\ j(e).run = job[w].run
      BY <1>1 DEF Job
    <3>10. JobOK(w)'
      <4> HIDE DEF j, l
      <4> QED BY <1>4, <2>1, <3>7, <3>8, <3>9 DEF JobOK
    <3> HIDE DEF j, l
    <3> QED BY <1>2, <2>1, <3>1, <3>4, <3>6, <3>7, <3>8, <3>10, StepOfOne DEF TypeOK
  <2> QED BY <2>2, <2>3
<1>11. CASE TouchChanged(w)
  <2>1. CASE tgt[job[w].target].exists
    <3> DEFINE t == job[w].target
    <3>1. job[w].detected \in Nat /\ tgt[t] \in Target
      BY <1>1, <1>4 DEF Job, TypeOK
    <3>2. [tgt[t] EXCEPT !.lastChanged = job[w].detected] \in Target
      BY <3>1, Zenon DEF Target
    <3>3. tgt' \in [Targets -> Target]
      BY <1>4, <1>11, <2>1, <3>2 DEF TouchChanged, TypeOK
    <3> QED BY <1>5, <1>11, <2>1, <3>3 DEF TouchChanged, TypeOK
  <2>2. CASE ~tgt[job[w].target].exists
    BY <1>5, <1>11, <2>2 DEF TouchChanged, TypeOK
  <2> QED BY <2>1, <2>2
<1>12. CASE FinishSuccess(w)
  <2>1. CASE StillRunning(job[w].run)
    <3>1. runs' = [runs EXCEPT ![job[w].run].status = "SUCCESS"] /\ Leave(w)
      BY <1>12, <2>1 DEF FinishSuccess
    <3>2. runs' \in Seq(Run) /\ DOMAIN runs' = DOMAIN runs
      BY <1>4, <3>1, StatusUpdate
    <3> QED BY <1>12, <3>1, <3>2, LeaveOfOne DEF FinishSuccess, TypeOK
  <2>2. CASE ~StillRunning(job[w].run)
    BY <1>5, <1>12, <2>2 DEF FinishSuccess, TypeOK
  <2> QED BY <2>1, <2>2
<1>13. CASE FinishFailed(w)
  <2>1. runs' \in Seq(Run) /\ DOMAIN runs' = DOMAIN runs
    BY <1>1, <1>4, <1>13, StatusUpdate DEF FinishFailed
  <2> QED BY <1>13, <2>1, LeaveOfOne DEF FinishFailed, TypeOK
<1> QED BY <1>6, <1>7, <1>8, <1>9, <1>10, <1>11, <1>12, <1>13

\* Failures and everything around the workers preserve types.
LEMMA EnvironmentType ==
    ASSUME TypeInv,
           \/ \E w \in Workers : StoreError(w) \/ Crash(w)
           \/ Tick
           \/ \E t \in Targets : PublishPage(t) \/ PatchActive(t) \/ ReAdd(t)
                                 \/ RemoveInspect(t) \/ RemoveApply(t)
           \/ UNCHANGED vars
    PROVE  TypeInv'
<1> USE DEF TypeInv
\* The workers stay where they are.
<1>1. ASSUME UNCHANGED <<runs, snaps, changes, pc, job>>,
             clock' \in Nat, faults' \in Nat, site' \in [Targets -> Pages],
             tgt' \in [Targets -> Target],
             removing' \in [Targets -> {"no", "deactivate", "delete"}]
      PROVE  TypeInv'
  BY <1>1 DEF TypeOK, JobOK, InRun
<1>2. ASSUME NEW w \in Workers, StoreError(w) PROVE TypeInv'
  <2>1. pc'[w] = "fail" /\ job'[w] = job[w] /\ runs' = runs /\ "fail" \in Labels
    BY <1>2 DEF StoreError, Goto, TypeOK, Labels
  <2>2. JobOK(w) /\ pc[w] \notin {"idle", "insert", "find", "mark"}
    BY <1>2 DEF StoreError
  <2>3. JobOK(w)'
    BY <2>1, <2>2 DEF JobOK, InRun
  <2> QED BY <1>2, <2>1, <2>3, MoveOfOne DEF StoreError, TypeOK
<1>3. ASSUME NEW w \in Workers, Crash(w) PROVE TypeInv'
  BY <1>3, LeaveOfOne DEF Crash, TypeOK
<1>4. CASE Tick
  BY <1>1, <1>4 DEF Tick, TypeOK
<1>5. ASSUME NEW t \in Targets,
             PublishPage(t) \/ PatchActive(t) \/ ReAdd(t)
             \/ RemoveInspect(t) \/ RemoveApply(t)
      PROVE  TypeInv'
  <2>1. tgt[t] \in Target
    BY DEF TypeOK
  <2>2. CASE PublishPage(t)
    BY <1>1, <2>2 DEF PublishPage, TypeOK
  <2>3. ASSUME NEW d \in Target, tgt' = [tgt EXCEPT ![t] = d],
               UNCHANGED <<runs, snaps, changes, pc, job, clock, faults, site>>,
               removing' \in [Targets -> {"no", "deactivate", "delete"}]
        PROVE  TypeInv'
    BY <1>1, <2>3 DEF TypeOK
  <2>4. CASE PatchActive(t)
    <3>1. PICK b \in BOOLEAN : tgt' = [tgt EXCEPT ![t] = [tgt[t] EXCEPT !.active = b]]
      BY <2>4 DEF PatchActive
    <3>2. [tgt[t] EXCEPT !.active = b] \in Target
      BY <2>1, Zenon DEF Target
    <3> QED BY <2>3, <2>4, <3>1, <3>2 DEF PatchActive, TypeOK
  <2>5. CASE ReAdd(t)
    <3>1. PICK type \in NewTypes :
             tgt' = [tgt EXCEPT ![t] = [tgt[t] EXCEPT !.active = TRUE, !.type = type]]
      BY <2>5 DEF ReAdd
    <3>2. type \in PageTypes
      BY MonitoringAssumption
    <3>3. [tgt[t] EXCEPT !.active = TRUE, !.type = type] \in Target
      BY <2>1, <3>2, Zenon DEF Target
    <3> QED BY <2>3, <2>5, <3>1, <3>3 DEF ReAdd, TypeOK
  <2>6. CASE RemoveInspect(t)
    BY <1>1, <2>6 DEF RemoveInspect, TypeOK
  <2>7. CASE RemoveApply(t)
    <3>1. /\ [tgt[t] EXCEPT !.exists = FALSE] \in Target
          /\ [tgt[t] EXCEPT !.active = FALSE] \in Target
      BY <2>1, Zenon DEF Target
    <3>2. PICK d \in Target : tgt' = [tgt EXCEPT ![t] = d]
      BY <2>7, <3>1, Zenon DEF RemoveApply
    <3> QED BY <2>3, <2>7, <3>2 DEF RemoveApply, TypeOK
  <2> QED BY <1>5, <2>2, <2>4, <2>5, <2>6, <2>7
<1>6. CASE UNCHANGED vars
  BY <1>1, <1>6 DEF vars, TypeOK
<1> QED BY <1>2, <1>3, <1>4, <1>5, <1>6

\* Every step preserves types.
LEMMA NextType == TypeInv /\ [Next]_vars => TypeInv'
BY ClaimType, AttemptType, EnvironmentType, Zenon DEF Next, Step

\* Types hold always, with what the locals hold at each position.
LEMMA TypeInvariant == Spec => []TypeInv
BY InitType, NextType, PTL DEF Spec

\* Every variable stays within its type, for any number of targets, workers, pages
\* and page types: in particular no step of monitor_target uses a run, a snapshot or
\* a page it did not obtain in an earlier step.
THEOREM TypesAreKept == Spec => []TypeOK
<1>1. TypeInv => TypeOK
  BY DEF TypeInv
<1> QED BY <1>1, TypeInvariant, PTL

-----------------------------------------------------------------------------
(* The effect of a step on the run records, whatever else it does.         *)

\* Worker u stays in its run, or out of one, as far as the run records can tell.
Follows(u) ==
    /\ InRun(u)' <=> InRun(u)
    /\ job'[u].run = job[u].run
    /\ pc'[u] # "idle" => pc[u] # "idle" /\ job'[u].started = job[u].started
    /\ pc'[u] = "mark" => pc[u] = "mark" /\ job'[u].seen = job[u].seen

Begins(w) ==
    /\ ~InRun(w) /\ pc'[w] = "insert" /\ job'[w].started = clock
    /\ job[w].run = 0 /\ job'[w].run = 0
    /\ UNCHANGED runs

Claims(w) ==
    /\ pc[w] = "insert" /\ pc'[w] = "touch"
    /\ RunningRuns(job[w].target) = {}
    /\ job'[w].started = job[w].started
    /\ job[w].run = 0 /\ job'[w].run = Len(runs) + 1
    /\ runs' = Append(runs, [target |-> job[w].target, started |-> job[w].started,
                             status |-> "RUNNING"])

Sees(w) ==
    /\ pc[w] = "find" /\ pc'[w] = "mark"
    /\ job[w].run = 0 /\ job'[w].run = 0
    /\ job'[w].started = job[w].started
    /\ IsStale(job'[w].seen, job[w].started)
    /\ UNCHANGED runs

Marks(w) ==
    /\ Follows(w)
    /\ pc[w] = "mark"
    /\ runs[job[w].seen].status = "RUNNING"
    /\ runs' = [runs EXCEPT ![job[w].seen].status = "FAILED"]

Ends(w) ==
    /\ InRun(w) /\ pc'[w] = "idle" /\ job'[w].run = 0
    /\ \/ UNCHANGED runs
       \/ /\ runs[job[w].run].status = "RUNNING"
          /\ \E s \in {"SUCCESS", "FAILED"} : runs' = [runs EXCEPT ![job[w].run].status = s]

Quiet ==
    /\ \A u \in Workers : Follows(u)
    /\ UNCHANGED runs
    /\ clock' \in {clock, clock + 1}

ByOne(w) ==
    /\ \A u \in Workers \ {w} : Follows(u)
    /\ UNCHANGED clock
    /\ Begins(w) \/ Claims(w) \/ Sees(w) \/ Marks(w) \/ Ends(w)

StepShape == Quiet \/ \E w \in Workers : ByOne(w)

\* A worker other than the one that moved follows.
LEMMA OthersFollow ==
    ASSUME TypeInv, NEW w \in Workers, NEW l, NEW j,
           pc' = [pc EXCEPT ![w] = l], job' = [job EXCEPT ![w] = j]
    PROVE  /\ \A u \in Workers \ {w} : Follows(u)
           /\ pc'[w] = l /\ job'[w] = j
BY DEF TypeInv, TypeOK, Follows, InRun

\* A worker that goes on with its run, or with its claim, follows.
LEMMA GoesOn ==
    ASSUME TypeInv, NEW w \in Workers, NEW l, NEW j,
           pc' = [pc EXCEPT ![w] = l], job' = [job EXCEPT ![w] = j],
           pc[w] # "idle", l \notin {"idle", "mark"},
           j.run = job[w].run, j.started = job[w].started,
           l \in {"insert", "find"} <=> ~InRun(w)
    PROVE  \A u \in Workers : Follows(u)
<1>1. /\ \A u \in Workers \ {w} : Follows(u)
      /\ pc'[w] = l /\ job'[w] = j
  BY OthersFollow
<1>2. Follows(w)
  BY <1>1 DEF Follows, InRun
<1> QED BY <1>1, <1>2

\* So does one that moves without touching its locals.
LEMMA GoesOnMoving ==
    ASSUME TypeInv, NEW w \in Workers, NEW l, Goto(w, l), UNCHANGED job,
           pc[w] # "idle", l \notin {"idle", "mark"},
           l \in {"insert", "find"} <=> ~InRun(w)
    PROVE  \A u \in Workers : Follows(u)
<1>1. job' = [job EXCEPT ![w] = job[w]]
  BY DEF TypeInv, TypeOK
<1> QED BY <1>1, GoesOn DEF Goto

\* A worker that leaves a claim follows.
LEMMA LeavesClaim ==
    ASSUME TypeInv, NEW w \in Workers, Leave(w), ~InRun(w)
    PROVE  \A u \in Workers : Follows(u)
<1>1. /\ \A u \in Workers \ {w} : Follows(u)
      /\ pc'[w] = "idle" /\ job'[w] = NoJob
  BY OthersFollow DEF Leave, Goto
<1>2. job[w].run = 0 /\ NoJob.run = 0
  BY DEF TypeInv, JobOK, InRun, NoJob
<1>3. Follows(w)
  BY <1>1, <1>2 DEF Follows, InRun
<1> QED BY <1>1, <1>3

\* A worker that leaves a run ends it.
LEMMA LeavesRun ==
    ASSUME TypeInv, NEW w \in Workers, Leave(w), InRun(w)
    PROVE  /\ \A u \in Workers \ {w} : Follows(u)
           /\ pc'[w] = "idle" /\ job'[w].run = 0
<1>1. /\ \A u \in Workers \ {w} : Follows(u)
      /\ pc'[w] = "idle" /\ job'[w] = NoJob
  BY OthersFollow DEF Leave, Goto
<1> QED BY <1>1 DEF NoJob

\* So does one that goes through the retry loop of claim.
LEMMA RetriesFollow ==
    ASSUME TypeInv, NEW w \in Workers, Retry(w), pc[w] \in {"find", "mark"}
    PROVE  \A u \in Workers : Follows(u)
<1>1. CASE job[w].tries + 1 < MaxTries
  <2> DEFINE j == [job[w] EXCEPT !.tries = job[w].tries + 1, !.seen = 0]
  <2>1. job' = [job EXCEPT ![w] = j] /\ pc' = [pc EXCEPT ![w] = "insert"]
    BY <1>1 DEF Retry, Goto
  <2>2. j.run = job[w].run /\ j.started = job[w].started
    BY DEF TypeInv, TypeOK, Job
  <2>3. pc[w] # "idle" /\ ("insert" \in {"insert", "find"} <=> ~InRun(w))
    BY DEF InRun
  <2>4. "insert" \notin {"idle", "mark"}
    OBVIOUS
  <2> HIDE DEF j
  <2> QED BY <2>1, <2>2, <2>3, <2>4, GoesOn
<1>2. CASE ~(job[w].tries + 1 < MaxTries)
  BY <1>2, LeavesClaim DEF Retry, InRun
<1> QED BY <1>1, <1>2

\* Every step has one of these shapes.
LEMMA StepHasShape ==
    ASSUME TypeInv, [Next]_vars
    PROVE  StepShape
<1>1. \A w \in Workers : job[w] \in Job /\ pc[w] \in Labels /\ JobOK(w)
  BY DEF TypeInv, TypeOK
<1>2. ASSUME NEW w \in Workers, NEW t \in Targets, CheckTarget(w, t)
      PROVE  ByOne(w)
  <2> DEFINE j == [NoJob EXCEPT !.target = t, !.type = tgt[t].type, !.started = clock]
  <2>1. pc' = [pc EXCEPT ![w] = "insert"] /\ job' = [job EXCEPT ![w] = j]
        /\ UNCHANGED <<clock, runs>> /\ pc[w] = "idle"
    BY <1>2 DEF CheckTarget, Goto
  <2>2. j.run = 0 /\ j.started = clock /\ job[w].run = 0 /\ ~InRun(w)
    BY <1>1, <2>1 DEF NoJob, JobOK, InRun
  <2>3. /\ \A u \in Workers \ {w} : Follows(u)
        /\ pc'[w] = "insert" /\ job'[w] = j
    <3> HIDE DEF j
    <3> QED BY <2>1, OthersFollow
  <2> HIDE DEF j
  <2> QED BY <2>1, <2>2, <2>3 DEF ByOne, Begins
<1>3. ASSUME NEW w \in Workers, InsertRun(w) PROVE ByOne(w)
  <2> DEFINE j == [job[w] EXCEPT !.run = Len(runs) + 1]
  <2>1. pc' = [pc EXCEPT ![w] = "touch"] /\ job' = [job EXCEPT ![w] = j]
    BY <1>3 DEF InsertRun, Goto
  <2>2. j.run = Len(runs) + 1 /\ j.started = job[w].started /\ job[w].run = 0
    BY <1>1, <1>3 DEF Job, InsertRun, JobOK
  <2>3. /\ \A u \in Workers \ {w} : Follows(u)
        /\ pc'[w] = "touch" /\ job'[w] = j
    <3> HIDE DEF j
    <3> QED BY <2>1, OthersFollow
  <2> HIDE DEF j
  <2> QED BY <1>3, <2>2, <2>3 DEF ByOne, Claims, InsertRun, MayInsert
<1>4. ASSUME NEW w \in Workers, InsertRefused(w) PROVE Quiet
  BY <1>4, GoesOnMoving DEF InsertRefused, Quiet, InRun
<1>5. ASSUME NEW w \in Workers, FindRunning(w) PROVE Quiet \/ ByOne(w)
  <2>1. pc[w] = "find" /\ UNCHANGED <<clock, runs>>
    BY <1>5 DEF FindRunning
  <2>2. CASE Retry(w)
    BY <2>1, <2>2, RetriesFollow DEF Quiet
  <2>3. CASE Leave(w)
    BY <2>1, <2>3, LeavesClaim DEF Quiet, InRun
  <2>4. ASSUME NEW r \in RunningRuns(job[w].target), IsStale(r, job[w].started),
               job' = [job EXCEPT ![w].seen = r], Goto(w, "mark")
        PROVE  ByOne(w)
    <3> DEFINE j == [job[w] EXCEPT !.seen = r]
    <3>1. job' = [job EXCEPT ![w] = j] /\ pc' = [pc EXCEPT ![w] = "mark"]
      BY <2>4 DEF Goto
    <3>2. /\ j.run = 0 /\ job[w].run = 0 /\ j.started = job[w].started /\ j.seen = r
      BY <1>1, <2>1 DEF Job, JobOK
    <3>3. /\ \A u \in Workers \ {w} : Follows(u)
          /\ pc'[w] = "mark" /\ job'[w] = j
      <4> HIDE DEF j
      <4> QED BY <3>1, OthersFollow
    <3> HIDE DEF j
    <3> QED BY <2>1, <2>4, <3>2, <3>3 DEF ByOne, Sees
  <2> QED BY <1>5, <2>2, <2>3, <2>4 DEF FindRunning
<1>6. ASSUME NEW w \in Workers, MarkStale(w) PROVE Quiet \/ ByOne(w)
  <2>1. pc[w] = "mark" /\ UNCHANGED clock /\ \A u \in Workers : Follows(u)
    BY <1>6, RetriesFollow DEF MarkStale
  <2> QED BY <1>6, <2>1 DEF MarkStale, Quiet, ByOne, Marks, StillRunning
\* A step of the attempt that changes neither the run records nor the claim.
<1>7. ASSUME NEW w \in Workers, InRun(w), UNCHANGED <<clock, runs, job>>,
             NEW l \in {"fetch", "finish", "touchChanged", "fail"}, Goto(w, l)
      PROVE  Quiet
  BY <1>7, GoesOnMoving DEF Quiet, InRun
<1>8. ASSUME NEW w \in Workers, TouchTarget(w) \/ TouchChanged(w) PROVE Quiet
  BY <1>7, <1>8 DEF TouchTarget, TouchChanged, InRun
<1>9. ASSUME NEW w \in Workers, InRun(w), NEW j, j.run = job[w].run,
             j.started = job[w].started, UNCHANGED <<clock, runs>>,
             NEW l \in {"process", "write", "events", "touchChanged", "finish"},
             Goto(w, l), job' = [job EXCEPT ![w] = j]
      PROVE  Quiet
  BY <1>9, GoesOn DEF Quiet, InRun, Goto
<1>10. ASSUME NEW w \in Workers, Fetch(w) PROVE Quiet
  <2> DEFINE j == [job[w] EXCEPT !.page = site[job[w].target]]
  <2>1. InRun(w) /\ UNCHANGED <<clock, runs>>
    BY <1>10 DEF Fetch, InRun
  <2>2. j.run = job[w].run /\ j.started = job[w].started
    BY <1>1 DEF Job
  <2>3. \/ job' = [job EXCEPT ![w] = j] /\ Goto(w, "process")
        \/ Goto(w, "fail") /\ UNCHANGED job
    BY <1>10 DEF Fetch
  <2> HIDE DEF j
  <2> QED BY <1>7, <1>9, <2>1, <2>2, <2>3
<1>11. ASSUME NEW w \in Workers, ProcessPage(w) PROVE Quiet
  <2> DEFINE Result(p) == Process(job[w].type, job[w].page,
                                  IF p = 0 THEN None ELSE snaps[p].content)
             j(p) == [job[w] EXCEPT !.page = None, !.prev = p,
                                    !.content = Result(p).content,
                                    !.left = Result(p).events, !.at = CaptureTime(w)]
  <2>1. InRun(w) /\ UNCHANGED <<clock, runs>>
    BY <1>11 DEF ProcessPage, InRun
  <2>2. PICK p \in Newest(job[w].target) :
           \/ Goto(w, "write") /\ job' = [job EXCEPT ![w] = j(p)]
           \/ Goto(w, "fail") /\ UNCHANGED job
    BY <1>11, Zenon DEF ProcessPage
  <2>3. j(p).run = job[w].run /\ j(p).started = job[w].started
    <3> HIDE DEF Result
    <3> QED BY <1>1 DEF Job
  <2> HIDE DEF j
  <2> QED BY <1>7, <1>9, <2>1, <2>2, <2>3
<1>12. ASSUME NEW w \in Workers, WriteSnapshot(w) PROVE Quiet
  <2> DEFINE j == [job[w] EXCEPT !.cur = Len(snaps) + 1, !.detected = clock]
  <2>1. InRun(w) /\ UNCHANGED <<clock, runs>>
    BY <1>12 DEF WriteSnapshot, InRun
  <2>2. j.run = job[w].run /\ j.started = job[w].started
    BY <1>1 DEF Job
  <2>3. job' = [job EXCEPT ![w] = j] /\ Goto(w, AfterWrite(job[w].left))
    BY <1>12 DEF WriteSnapshot
  <2>4. AfterWrite(job[w].left) \in {"finish", "events"}
    BY DEF AfterWrite
  <2> HIDE DEF j
  <2> QED BY <1>9, <2>1, <2>2, <2>3, <2>4
<1>13. ASSUME NEW w \in Workers, RecordEvent(w) PROVE Quiet
  <2> DEFINE j(e) == [job[w] EXCEPT !.left = job[w].left \ {e}]
  <2>1. InRun(w) /\ UNCHANGED <<clock, runs>>
    BY <1>13 DEF RecordEvent, InRun
  <2>2. \A e : j(e).run = job[w].run /\ j(e).started = job[w].started
    BY <1>1 DEF Job
  <2>3. \/ \E e : /\ job' = [job EXCEPT ![w] = j(e)]
                  /\ Goto(w, AfterEvent(job[w].left \ {e}))
        \/ Goto(w, "fail") /\ UNCHANGED job
    BY <1>13 DEF RecordEvent
  <2>4. \A e : AfterEvent(job[w].left \ {e}) \in {"touchChanged", "events"}
    BY DEF AfterEvent
  <2> HIDE DEF j
  <2> QED BY <1>7, <1>9, <2>1, <2>2, <2>3, <2>4
<1>14. ASSUME NEW w \in Workers, FinishSuccess(w) PROVE Quiet \/ ByOne(w)
  <2>1. InRun(w) /\ UNCHANGED clock
    BY <1>14 DEF FinishSuccess, InRun
  <2>2. CASE StillRunning(job[w].run)
    BY <1>14, <2>1, <2>2, LeavesRun DEF FinishSuccess, StillRunning, ByOne, Ends
  <2>3. CASE ~StillRunning(job[w].run)
    BY <1>7, <1>14, <2>1, <2>3 DEF FinishSuccess
  <2> QED BY <2>2, <2>3
<1>15. ASSUME NEW w \in Workers, FinishFailed(w) PROVE ByOne(w)
  <2>1. InRun(w) /\ UNCHANGED clock
    BY <1>15 DEF FinishFailed, InRun
  <2> QED BY <1>15, <2>1, LeavesRun DEF FinishFailed, StillRunning, ByOne, Ends
<1>16. ASSUME NEW w \in Workers, StoreError(w) PROVE Quiet
  BY <1>7, <1>16 DEF StoreError, InRun
<1>17. ASSUME NEW w \in Workers, Crash(w) PROVE Quiet \/ ByOne(w)
  <2>1. CASE InRun(w)
    BY <1>17, <2>1, LeavesRun DEF Crash, ByOne, Ends
  <2>2. CASE ~InRun(w)
    BY <1>17, <2>2, LeavesClaim DEF Crash, Quiet
  <2> QED BY <2>1, <2>2
<1>18. ASSUME UNCHANGED <<runs, pc, job>>, clock' \in {clock, clock + 1}
       PROVE  Quiet
  BY <1>18 DEF Quiet, Follows, InRun
<1>19. ASSUME NEW t \in Targets,
              PublishPage(t) \/ PatchActive(t) \/ ReAdd(t)
              \/ RemoveInspect(t) \/ RemoveApply(t)
       PROVE  Quiet
  BY <1>18, <1>19 DEF PublishPage, PatchActive, ReAdd, RemoveInspect, RemoveApply
<1>20. ASSUME Tick \/ UNCHANGED vars PROVE Quiet
  BY <1>18, <1>20 DEF Tick, vars
<1>21. ASSUME NEW w \in Workers, Step(w) PROVE Quiet \/ ByOne(w)
  BY <1>3, <1>4, <1>5, <1>6, <1>8, <1>10, <1>11, <1>12, <1>13, <1>14, <1>15, <1>21
     DEF Step
<1> QED BY <1>2, <1>16, <1>17, <1>19, <1>20, <1>21 DEF Next, StepShape

-----------------------------------------------------------------------------
(* The claim excludes duplicates, and only staleness takes a run away.     *)

\* No two workers carry out one run.
DistinctRuns ==
    \A u, v \in Workers : u # v /\ InRun(u) /\ InRun(v) => job[u].run # job[v].run

\* An attempt is recorded under a time that has come.
StartsInPast == \A w \in Workers : pc[w] # "idle" => job[w].started <= clock

\* A record about to be marked was stale when it was seen; nothing rejuvenates it.
MarkedIsStale ==
    \A w \in Workers : pc[w] = "mark" => job[w].started - runs[job[w].seen].started > StaleAfter

LeaseInv ==
    /\ AtMostOneRunning
    /\ DistinctRuns
    /\ StartsInPast
    /\ MarkedIsStale
    /\ EvictedOnlyWhenStale

\* What the invariant needs to know of a number.
LEMMA TypeFacts ==
    ASSUME TypeInv
    PROVE  /\ StaleAfter \in Nat /\ clock \in Nat /\ Len(runs) \in Nat
           /\ DOMAIN runs = 1..Len(runs)
           /\ \A r \in DOMAIN runs : runs[r] \in Run /\ runs[r].started \in Nat
           /\ \A w \in Workers : /\ job[w].started \in Nat
                                 /\ job[w].seen \in Nat
                                 /\ InRun(w) => job[w].run \in DOMAIN runs
                                 /\ ~InRun(w) => job[w].run = 0
                                 /\ pc[w] = "mark" => job[w].seen \in DOMAIN runs
                                 /\ pc[w] # "idle" => job[w].target \in Targets
<1>1. StaleAfter \in Nat
  BY MonitoringAssumption
<1>2. runs \in Seq(Run) /\ clock \in Nat
  BY DEF TypeInv, TypeOK
<1>3. Len(runs) \in Nat /\ DOMAIN runs = 1..Len(runs) /\ \A r \in DOMAIN runs : runs[r] \in Run
  BY <1>2
<1>4. \A r \in DOMAIN runs : runs[r].started \in Nat
  BY <1>3 DEF Run
<1>5. ASSUME NEW w \in Workers
      PROVE  /\ job[w].started \in Nat
             /\ job[w].seen \in Nat
             /\ InRun(w) => job[w].run \in DOMAIN runs
             /\ ~InRun(w) => job[w].run = 0
             /\ pc[w] = "mark" => job[w].seen \in DOMAIN runs
             /\ pc[w] # "idle" => job[w].target \in Targets
  <2>1. job[w] \in Job /\ JobOK(w)
    BY DEF TypeInv, TypeOK
  <2>2. ~InRun(w) => job[w].run = 0
    BY <2>1 DEF JobOK, InRun, NoJob
  <2> QED BY <2>1, <2>2 DEF Job, JobOK
<1> QED BY <1>1, <1>2, <1>3, <1>4, <1>5

\* The lease invariant holds initially.
LEMMA InitLease == Init => LeaseInv
BY DEF Init, LeaseInv, AtMostOneRunning, RunningRuns, DistinctRuns, StartsInPast,
       MarkedIsStale, EvictedOnlyWhenStale, InRun

\* A step that inserts no record and in which no worker enters a run or sees a
\* stale record.
LEMMA LeaseKept ==
    ASSUME TypeInv, LeaseInv, TypeInv',
           clock' \in {clock, clock + 1},
           DOMAIN runs' = DOMAIN runs,
           \A r \in DOMAIN runs : /\ runs'[r].target = runs[r].target
                                  /\ runs'[r].started = runs[r].started
                                  /\ runs'[r].status = "RUNNING" => runs[r].status = "RUNNING",
           \A u \in Workers :
              /\ InRun(u)' => /\ InRun(u) /\ job'[u].run = job[u].run
                              /\ \/ runs'[job[u].run].status = runs[job[u].run].status
                                 \/ clock - runs[job[u].run].started > StaleAfter
              /\ pc'[u] # "idle" =>
                    \/ pc[u] # "idle" /\ job'[u].started = job[u].started
                    \/ job'[u].started = clock
              /\ pc'[u] = "mark" =>
                    \/ /\ pc[u] = "mark" /\ job'[u].seen = job[u].seen
                       /\ job'[u].started = job[u].started
                    \/ job'[u].started - runs[job'[u].seen].started > StaleAfter
    PROVE  LeaseInv'
<1> USE DEF LeaseInv
<1>1. clock \in Nat /\ clock' >= clock
  BY TypeFacts
<1>2. AtMostOneRunning'
  BY DEF AtMostOneRunning, RunningRuns
<1>3. DistinctRuns'
  BY DEF DistinctRuns
<1>4. StartsInPast'
  <2>1. \A u \in Workers : job[u].started \in Nat /\ job'[u].started \in Nat
    BY TypeFacts DEF TypeInv, TypeOK, Job
  <2> QED BY <1>1, <2>1 DEF StartsInPast
<1>5. MarkedIsStale'
  <2>1. ASSUME NEW u \in Workers, pc'[u] = "mark"
        PROVE  job'[u].seen \in DOMAIN runs
    BY <2>1 DEF TypeInv, JobOK
  <2> QED BY <2>1 DEF MarkedIsStale
<1>6. EvictedOnlyWhenStale'
  <2> SUFFICES ASSUME NEW u \in Workers, InRun(u)', Own(u)'.status # "RUNNING"
               PROVE  (clock - Own(u).started > StaleAfter)'
    BY DEF EvictedOnlyWhenStale
  <2>1. job[u].run \in DOMAIN runs /\ runs[job[u].run].started \in Nat /\ StaleAfter \in Nat
    BY TypeFacts
  <2>2. clock - runs[job[u].run].started > StaleAfter
    BY DEF EvictedOnlyWhenStale, Own
  <2>3. Own(u)'.started = runs[job[u].run].started
    BY <2>1 DEF Own
  <2> QED BY <1>1, <2>1, <2>2, <2>3
<1> QED BY <1>2, <1>3, <1>4, <1>5, <1>6

\* Inserting a record keeps the others and the exclusion.
LEMMA ClaimLease ==
    ASSUME TypeInv, LeaseInv, TypeInv', NEW w \in Workers, ByOne(w), Claims(w)
    PROVE  LeaseInv'
<1> USE DEF LeaseInv
<1> DEFINE n == Len(runs) + 1
<1>1. /\ runs' = Append(runs, runs'[n]) /\ DOMAIN runs' = 1..n
      /\ runs'[n].target = job[w].target /\ runs'[n].started = job[w].started
      /\ runs'[n].status = "RUNNING"
      /\ \A r \in DOMAIN runs : runs'[r] = runs[r] /\ r # n /\ r \in DOMAIN runs'
      /\ \A r \in DOMAIN runs' : r # n => r \in DOMAIN runs
  BY DEF Claims, TypeInv, TypeOK
<1>2. \A u \in Workers \ {w} :
         /\ InRun(u)' <=> InRun(u)
         /\ job'[u].run = job[u].run
         /\ pc'[u] # "idle" => pc[u] # "idle" /\ job'[u].started = job[u].started
         /\ pc'[u] = "mark" => pc[u] = "mark" /\ job'[u].seen = job[u].seen
  BY DEF ByOne, Follows
<1>3. /\ pc[w] = "insert" /\ pc'[w] = "touch" /\ job'[w].run = n
      /\ job'[w].started = job[w].started /\ clock' = clock /\ InRun(w)'
  BY DEF Claims, ByOne, InRun
<1>4. AtMostOneRunning'
  <2>1. \A r \in DOMAIN runs : runs[r].target = job[w].target => runs[r].status # "RUNNING"
    BY DEF Claims, RunningRuns
  <2> QED BY <1>1, <2>1 DEF AtMostOneRunning, RunningRuns
<1>5. DistinctRuns'
  <2>1. \A u \in Workers \ {w} : InRun(u)' => job'[u].run # n
    BY <1>1, <1>2, TypeFacts
  <2> QED BY <1>2, <1>3, <2>1 DEF DistinctRuns
<1>6. StartsInPast'
  BY <1>2, <1>3 DEF StartsInPast
<1>7. MarkedIsStale'
  BY <1>1, <1>2, <1>3, TypeFacts DEF MarkedIsStale
<1>8. EvictedOnlyWhenStale'
  <2> SUFFICES ASSUME NEW u \in Workers, InRun(u)', Own(u)'.status # "RUNNING"
               PROVE  clock - Own(u)'.started > StaleAfter
    BY <1>3 DEF EvictedOnlyWhenStale
  <2>1. u # w
    BY <1>1, <1>3 DEF Own
  <2>2. InRun(u) /\ Own(u)' = Own(u)
    BY <1>1, <1>2, <2>1, TypeFacts DEF Own
  <2> QED BY <2>2 DEF EvictedOnlyWhenStale
<1> QED BY <1>4, <1>5, <1>6, <1>7, <1>8

\* Changing a status changes nothing else.
LEMMA StatusOnly ==
    ASSUME TypeInv, NEW r \in DOMAIN runs, NEW s, runs' = [runs EXCEPT ![r].status = s]
    PROVE  /\ DOMAIN runs' = DOMAIN runs
           /\ runs'[r].status = s
           /\ \A q \in DOMAIN runs : /\ runs'[q].target = runs[q].target
                                     /\ runs'[q].started = runs[q].started
                                     /\ q # r => runs'[q] = runs[q]
BY TypeFacts DEF TypeInv, TypeOK, Run

\* Every step preserves the lease invariant.
LEMMA NextLease == TypeInv /\ LeaseInv /\ [Next]_vars => LeaseInv'
<1> SUFFICES ASSUME TypeInv, LeaseInv, [Next]_vars PROVE LeaseInv'
  OBVIOUS
<1>1. TypeInv' /\ StepShape
  BY NextType, StepHasShape
<1>2. CASE Quiet
  BY <1>1, <1>2, LeaseKept DEF Quiet, Follows
<1>3. ASSUME NEW w \in Workers, ByOne(w) PROVE LeaseInv'
  <2>1. clock' = clock /\ \A u \in Workers \ {w} : Follows(u)
    BY <1>3 DEF ByOne
  <2>2. CASE Begins(w)
    <3>1. /\ ~InRun(w)' /\ job'[w].started = clock /\ pc'[w] # "mark" /\ runs' = runs
      BY <2>2 DEF Begins, InRun
    <3> QED BY <1>1, <2>1, <3>1, LeaseKept DEF Follows
  <2>3. CASE Claims(w)
    BY <1>1, <1>3, <2>3, ClaimLease
  <2>4. CASE Sees(w)
    <3>1. /\ ~InRun(w)' /\ pc[w] # "idle" /\ job'[w].started = job[w].started
          /\ job'[w].started - runs[job'[w].seen].started > StaleAfter /\ runs' = runs
      BY <2>4 DEF Sees, InRun, IsStale
    <3> QED BY <1>1, <2>1, <3>1, LeaseKept DEF Follows
  <2>5. CASE Marks(w)
    <3> DEFINE r == job[w].seen
    <3>1. r \in DOMAIN runs /\ pc[w] = "mark" /\ \A u \in Workers : Follows(u)
      BY <2>1, <2>5, TypeFacts DEF Marks
    <3>2. /\ DOMAIN runs' = DOMAIN runs /\ runs'[r].status = "FAILED"
          /\ \A q \in DOMAIN runs : /\ runs'[q].target = runs[q].target
                                    /\ runs'[q].started = runs[q].started
                                    /\ q # r => runs'[q] = runs[q]
      BY <2>5, <3>1, StatusOnly DEF Marks
    <3>3. clock - runs[r].started > StaleAfter
      BY <3>1, TypeFacts DEF LeaseInv, MarkedIsStale, StartsInPast
    <3>4. \A u \in Workers : InRun(u) =>
             \/ runs'[job[u].run].status = runs[job[u].run].status
             \/ clock - runs[job[u].run].started > StaleAfter
      BY <3>2, <3>3, TypeFacts
    <3>5. \A q \in DOMAIN runs : runs'[q].status = "RUNNING" => runs[q].status = "RUNNING"
      BY <3>2
    <3> QED BY <1>1, <2>1, <3>1, <3>2, <3>4, <3>5, LeaseKept DEF Follows
  <2>6. CASE Ends(w)
    <3> DEFINE r == job[w].run
    <3>1. r \in DOMAIN runs /\ InRun(w) /\ ~InRun(w)' /\ pc'[w] = "idle"
      BY <2>6, TypeFacts DEF Ends, InRun
    <3>2. CASE UNCHANGED runs
      BY <1>1, <2>1, <3>1, <3>2, LeaseKept DEF Follows
    <3>3. ASSUME NEW s \in {"SUCCESS", "FAILED"}, runs' = [runs EXCEPT ![r].status = s]
          PROVE  LeaseInv'
      <4>1. /\ DOMAIN runs' = DOMAIN runs /\ runs'[r].status = s
            /\ \A q \in DOMAIN runs : /\ runs'[q].target = runs[q].target
                                      /\ runs'[q].started = runs[q].started
                                      /\ q # r => runs'[q] = runs[q]
        BY <3>1, <3>3, StatusOnly
      <4>2. \A u \in Workers \ {w} : InRun(u) => runs'[job[u].run] = runs[job[u].run]
        BY <3>1, <4>1, TypeFacts DEF LeaseInv, DistinctRuns
      <4>3. \A q \in DOMAIN runs : runs'[q].status = "RUNNING" => runs[q].status = "RUNNING"
        BY <4>1
      <4> QED BY <1>1, <2>1, <3>1, <4>1, <4>2, <4>3, LeaseKept DEF Follows
    <3> QED BY <2>6, <3>2, <3>3 DEF Ends
  <2> QED BY <1>3, <2>2, <2>3, <2>4, <2>5, <2>6 DEF ByOne
<1> QED BY <1>1, <1>2, <1>3 DEF StepShape

\* The lease invariant holds always.
LEMMA LeaseInvariant == Spec => [](TypeInv /\ LeaseInv)
<1>1. Init => TypeInv /\ LeaseInv
  BY InitType, InitLease
<1>2. TypeInv /\ LeaseInv /\ [Next]_vars => (TypeInv /\ LeaseInv)'
  BY NextType, NextLease
<1> QED BY <1>1, <1>2, PTL DEF Spec

\* The guard against duplicate runs holds for any number of targets, workers and
\* runs and any staleness threshold.
THEOREM ExclusiveClaim == Spec => []AtMostOneRunning
<1>1. LeaseInv => AtMostOneRunning
  BY DEF LeaseInv
<1> QED BY <1>1, LeaseInvariant, PTL

\* A worker whose run was taken away has been at it for more than the threshold:
\* claim never evicts a fresh run, however the claims of others interleave.
THEOREM NoEarlyEviction == Spec => []EvictedOnlyWhenStale
<1>1. LeaseInv => EvictedOnlyWhenStale
  BY DEF LeaseInv
<1> QED BY <1>1, LeaseInvariant, PTL

\* A record that was finished, or failed by a reclaim, is never written again.
THEOREM TerminalRecords == Spec => TerminalIsFinal
<1>1. ASSUME TypeInv, [Next]_vars
      PROVE  [\A r \in DOMAIN runs : runs[r].status # "RUNNING" => runs'[r] = runs[r]]_vars
  <2> SUFFICES ASSUME NEW r \in DOMAIN runs, runs[r].status # "RUNNING"
               PROVE  runs'[r] = runs[r]
    OBVIOUS
  <2>1. CASE UNCHANGED runs
    BY <2>1
  <2>2. ASSUME NEW w \in Workers, Claims(w) PROVE runs'[r] = runs[r]
    BY <2>2, TypeFacts DEF Claims, TypeInv, TypeOK
  <2>3. ASSUME NEW q \in DOMAIN runs, runs[q].status = "RUNNING", NEW s,
               runs' = [runs EXCEPT ![q].status = s]
        PROVE  runs'[r] = runs[r]
    BY <2>3, StatusOnly
  <2>4. ASSUME NEW w \in Workers, Marks(w) PROVE runs'[r] = runs[r]
    BY <2>3, <2>4, TypeFacts DEF Marks
  <2>5. ASSUME NEW w \in Workers, Ends(w) PROVE runs'[r] = runs[r]
    BY <2>1, <2>3, <2>5, TypeFacts DEF Ends
  <2> QED BY <1>1, <2>1, <2>2, <2>4, <2>5, StepHasShape
          DEF StepShape, Quiet, ByOne, Begins, Sees
<1>2. TypeInv /\ [Next]_vars
      => [\A r \in DOMAIN runs : runs[r].status # "RUNNING" => runs'[r] = runs[r]]_vars
  BY <1>1
<1> QED BY <1>2, TypeInvariant, PTL DEF Spec, TerminalIsFinal

-----------------------------------------------------------------------------
(* The run records implement the abstract lease.                           *)

\* The holder of the lease is the run of the RUNNING record.
HolderFacts ==
    \A t \in Targets :
        /\ RunningRuns(t) = {} => Holder[t] = 0 /\ Since[t] = 0
        /\ \A r \in RunningRuns(t) : Holder[t] = r /\ Since[t] = runs[r].started /\ r # 0
        /\ Holder[t] # 0 => Holder[t] \in RunningRuns(t)

\* Those facts follow from the invariants.
LEMMA HolderIs == TypeInv /\ LeaseInv => HolderFacts
<1> SUFFICES ASSUME TypeInv, LeaseInv, NEW t \in Targets
             PROVE  /\ RunningRuns(t) = {} => Holder[t] = 0 /\ Since[t] = 0
                    /\ \A r \in RunningRuns(t) :
                          Holder[t] = r /\ Since[t] = runs[r].started /\ r # 0
                    /\ Holder[t] # 0 => Holder[t] \in RunningRuns(t)
  BY DEF HolderFacts
<1>1. RunningRuns(t) \subseteq DOMAIN runs /\ \A r \in DOMAIN runs : r \in Nat \ {0}
  BY TypeFacts DEF RunningRuns
<1>2. CASE RunningRuns(t) = {}
  BY <1>2 DEF Holder, Since
<1>3. CASE RunningRuns(t) # {}
  <2>1. Holder[t] \in RunningRuns(t)
    BY <1>3 DEF Holder
  <2>2. \A r \in RunningRuns(t) : Holder[t] = r
    BY <2>1 DEF LeaseInv, AtMostOneRunning
  <2>3. Holder[t] # 0
    BY <1>1, <2>1
  <2>4. Since[t] = runs[Holder[t]].started
    BY <2>3 DEF Since
  <2> QED BY <1>1, <1>3, <2>1, <2>2, <2>4
<1> QED BY <1>2, <1>3

\* Nothing is held initially.
LEMMA InitImplements == Init => Lease!Init
<1> SUFFICES ASSUME Init PROVE Lease!Init
  OBVIOUS
<1>1. clock \in Nat /\ Len(runs) = 0 /\ \A t : RunningRuns(t) = {}
  BY DEF Init, RunningRuns
<1>2. Holder = [t \in Targets |-> 0]
  BY <1>1 DEF Holder
<1>3. Since = [t \in Targets |-> 0]
  BY <1>2 DEF Since
<1>4. Busy = [w \in Workers |-> 0]
  BY DEF Busy, Init, NoJob
<1> QED BY <1>1, <1>2, <1>3, <1>4 DEF Lease!Init

\* Every shape of a step is a step of the lease, or none.
LEMMA StepImplements ==
    ASSUME TypeInv, LeaseInv, TypeInv', LeaseInv', StepShape
    PROVE  [Lease!Next]_(Lease!vars)
<1> DEFINE Same == UNCHANGED <<Holder, Since>>
<1>1. UNCHANGED runs => Same /\ Len(runs') = Len(runs)
  BY DEF Holder, Since, RunningRuns
<1>2. CASE Quiet
  <2>1. Busy' = Busy
    BY <1>2 DEF Quiet, Follows, Busy
  <2> QED BY <1>1, <1>2, <2>1 DEF Quiet, Lease!vars, Lease!Next, Lease!Advance
\* The lease of a target none of whose RUNNING records changed.
<1>3. ASSUME NEW x \in Targets, RunningRuns(x)' = RunningRuns(x),
             \A r \in RunningRuns(x) : runs'[r].started = runs[r].started
      PROVE  Holder'[x] = Holder[x] /\ Since'[x] = Since[x]
  <2>1. HolderFacts /\ HolderFacts'
    BY HolderIs, PTL
  <2> QED BY <1>3, <2>1 DEF HolderFacts
<1>4. HolderFacts /\ HolderFacts'
  BY HolderIs, PTL
<1>5. /\ Holder = [x \in Targets |-> Holder[x]] /\ Holder' = [x \in Targets |-> Holder'[x]]
      /\ Since = [x \in Targets |-> Since[x]] /\ Since' = [x \in Targets |-> Since'[x]]
  BY DEF Holder, Since
<1>7. ASSUME NEW w \in Workers, ByOne(w) PROVE [Lease!Next]_(Lease!vars)
  <2>1. clock' = clock /\ \A u \in Workers \ {w} : Busy'[u] = Busy[u]
    BY <1>7 DEF ByOne, Follows, Busy
  <2>2. CASE Begins(w) \/ Sees(w)
    <3>1. Busy' = Busy
      BY <2>1, <2>2 DEF Begins, Sees, Busy
    <3> QED BY <1>1, <2>1, <2>2, <3>1 DEF Begins, Sees, Lease!vars
  <2>3. CASE Claims(w)
    <3>a. PICK n : n = Len(runs) + 1
      OBVIOUS
    <3>b. PICK t : t = job[w].target
      OBVIOUS
    <3>1. /\ runs' = Append(runs, runs'[n]) /\ DOMAIN runs' = 1..n /\ Len(runs') = n
          /\ runs'[n].target = t /\ runs'[n].started = job[w].started
          /\ runs'[n].status = "RUNNING"
          /\ \A r \in DOMAIN runs : runs'[r] = runs[r] /\ r # n /\ r \in DOMAIN runs'
          /\ \A r \in DOMAIN runs' : r # n => r \in DOMAIN runs
          /\ n \in DOMAIN runs'
      BY <2>3, <3>a, <3>b, TypeFacts DEF Claims, TypeInv, TypeOK
    <3>2. t \in Targets /\ job[w].started \in 0..clock
      BY <2>3, <3>b, TypeFacts DEF Claims, LeaseInv, StartsInPast
    <3>3. Holder[t] = 0
      BY <1>4, <2>3, <3>b, <3>2 DEF HolderFacts, Claims
    <3>4. Holder'[t] = n /\ Since'[t] = job[w].started
      <4>1. n \in RunningRuns(t)'
        BY <3>1 DEF RunningRuns
      <4> QED BY <1>4, <3>1, <3>2, <4>1 DEF HolderFacts
    <3>5. ASSUME NEW x \in Targets, x # t PROVE Holder'[x] = Holder[x] /\ Since'[x] = Since[x]
      <4>1. RunningRuns(x)' = RunningRuns(x)
        BY <3>1, <3>5 DEF RunningRuns
      <4>2. \A r \in RunningRuns(x) : runs'[r].started = runs[r].started
        BY <3>1 DEF RunningRuns
      <4> QED BY <1>3, <4>1, <4>2
    <3>6. Holder' = [Holder EXCEPT ![t] = n] /\ Since' = [Since EXCEPT ![t] = job[w].started]
      BY <1>5, <3>2, <3>4, <3>5
    <3>7. Busy[w] = 0 /\ Busy' = [Busy EXCEPT ![w] = n]
      BY <2>1, <2>3, <3>a DEF Claims, Busy
    <3> QED BY <2>1, <3>a, <3>1, <3>2, <3>3, <3>6, <3>7 DEF Lease!Next, Lease!Acquire
  \* A record that stops RUNNING gives the lease of its target back.
  <2>4. ASSUME NEW r \in DOMAIN runs, runs[r].status = "RUNNING", NEW s, s # "RUNNING",
               runs' = [runs EXCEPT ![r].status = s]
        PROVE  /\ runs[r].target \in Targets /\ r # 0 /\ Len(runs') = Len(runs)
               /\ Holder[runs[r].target] = r /\ Since[runs[r].target] = runs[r].started
               /\ Holder'[runs[r].target] = 0 /\ Since'[runs[r].target] = 0
               /\ \A x \in Targets \ {runs[r].target} :
                     Holder'[x] = Holder[x] /\ Since'[x] = Since[x] /\ Holder[x] # r
    <3>b. PICK t : t = runs[r].target
      OBVIOUS
    <3>1. /\ DOMAIN runs' = DOMAIN runs
          /\ runs'[r].status = s
          /\ \A q \in DOMAIN runs : /\ runs'[q].target = runs[q].target
                                    /\ runs'[q].started = runs[q].started
                                    /\ q # r => runs'[q] = runs[q]
      BY <2>4, StatusOnly
    <3>2. t \in Targets /\ Len(runs') = Len(runs)
      BY <2>4, <3>b, <3>1, TypeFacts DEF Run, TypeInv, TypeOK
    <3>3. r \in RunningRuns(t) /\ \A q \in RunningRuns(t) : q = r
      BY <2>4, <3>b, <3>2 DEF RunningRuns, LeaseInv, AtMostOneRunning
    <3>4. RunningRuns(t)' = {}
      BY <2>4, <3>1, <3>3 DEF RunningRuns
    <3>5. ASSUME NEW x \in Targets \ {t}
          PROVE  Holder'[x] = Holder[x] /\ Since'[x] = Since[x] /\ Holder[x] # r
      <4>1. r \notin RunningRuns(x)
        BY <3>b, <3>5 DEF RunningRuns
      <4>2. RunningRuns(x)' = RunningRuns(x)
        BY <2>4, <3>1, <4>1 DEF RunningRuns
      <4>3. \A q \in RunningRuns(x) : runs'[q].started = runs[q].started
        BY <3>1 DEF RunningRuns
      <4>4. r # 0
        BY TypeFacts
      <4> QED BY <1>3, <1>4, <3>5, <4>1, <4>2, <4>3, <4>4 DEF HolderFacts
    <3> QED BY <1>4, <3>b, <3>2, <3>3, <3>4, <3>5 DEF HolderFacts
  <2>5. CASE Marks(w)
    <3> DEFINE r == job[w].seen
               t == runs[r].target
    <3>1. r \in DOMAIN runs /\ runs[r].status = "RUNNING" /\ pc[w] = "mark"
      BY <2>5, TypeFacts DEF Marks
    <3>2. /\ t \in Targets /\ r # 0 /\ Len(runs') = Len(runs)
          /\ Holder[t] = r /\ Since[t] = runs[r].started
          /\ Holder'[t] = 0 /\ Since'[t] = 0
          /\ \A x \in Targets \ {t} : Holder'[x] = Holder[x] /\ Since'[x] = Since[x]
      BY <2>4, <2>5, <3>1 DEF Marks
    <3>3. clock - Since[t] > StaleAfter
      BY <3>1, <3>2, TypeFacts DEF LeaseInv, MarkedIsStale, StartsInPast
    <3>4. Holder' = [Holder EXCEPT ![t] = 0] /\ Since' = [Since EXCEPT ![t] = 0]
      BY <1>5, <3>2
    <3>5. Busy' = Busy
      BY <2>1, <2>5 DEF Marks, Follows, Busy
    <3> QED BY <2>1, <3>2, <3>3, <3>4, <3>5 DEF Lease!Next, Lease!Evict
  <2>6. CASE Ends(w)
    <3> DEFINE r == job[w].run
               t == runs[r].target
    <3>1. r \in DOMAIN runs /\ r # 0
      BY <2>6, TypeFacts DEF Ends
    <3>2. Busy[w] = r /\ Busy' = [Busy EXCEPT ![w] = 0]
      BY <2>1, <2>6 DEF Ends, Busy
    <3>3. CASE UNCHANGED runs
      BY <1>1, <2>1, <3>1, <3>2, <3>3 DEF Lease!Next, Lease!Abandon
    <3>4. ASSUME runs[r].status = "RUNNING", NEW s \in {"SUCCESS", "FAILED"},
                 runs' = [runs EXCEPT ![r].status = s]
          PROVE  Lease!Next
      <4>1. /\ t \in Targets /\ Len(runs') = Len(runs)
            /\ Holder[t] = r /\ Holder'[t] = 0 /\ Since'[t] = 0
            /\ \A x \in Targets \ {t} :
                  Holder'[x] = Holder[x] /\ Since'[x] = Since[x] /\ Holder[x] # r
        BY <2>4, <3>1, <3>4
      <4>2. \A x \in Targets : /\ Holder'[x] = IF Holder[x] = r THEN 0 ELSE Holder[x]
                               /\ Since'[x] = IF Holder[x] = r THEN 0 ELSE Since[x]
        BY <4>1
      <4>3. /\ Holder' = [x \in Targets |-> IF Holder[x] = r THEN 0 ELSE Holder[x]]
            /\ Since' = [x \in Targets |-> IF Holder[x] = r THEN 0 ELSE Since[x]]
        BY <1>5, <4>2
      <4>4. Lease!Release(w)
        BY <2>1, <3>1, <3>2, <4>1, <4>3 DEF Lease!Release
      <4> QED BY <4>4 DEF Lease!Next
    <3> QED BY <2>6, <3>3, <3>4 DEF Ends
  <2> QED BY <1>7, <2>2, <2>3, <2>5, <2>6 DEF ByOne
<1> QED BY <1>2, <1>7 DEF StepShape

\* Every behaviour of the workers, the clock, the site and the API requests is,
\* seen through the run records, a behaviour of an exclusive lease.
THEOREM RunsImplementLease == Spec => ImplementsLease
<1>1. TypeInv /\ LeaseInv /\ [Next]_vars => [Lease!Next]_(Lease!vars)
  BY NextType, NextLease, StepHasShape, StepImplements
<1> QED BY <1>1, InitImplements, LeaseInvariant, PTL DEF Spec, ImplementsLease, Lease!Spec

-----------------------------------------------------------------------------
(* The history that the runs write.  A worker that lost its run goes on    *)
(* writing, so what is certain of a snapshot or a change must not depend   *)
(* on the run's record; only that the run succeeds does.                   *)

\* The content of a stored snapshot, None without one.
Previous(b) == IF b = 0 THEN None ELSE snaps[b].content

\* What a processor can return for a page: a canonical page or a product list.
Fetched(c) == c \in Content /\ (c.kind = "html" => \E p \in Pages : c = CanonicalHtml(p))

\* Before and after the snapshot of a run is written.
Early == {"touch", "fetch", "process", "write"}
Late  == {"events", "touchChanged", "finish"}

\* The run a worker carries out is one of its target, and it has not succeeded.
RunFact(w) ==
    InRun(w) => /\ runs[job[w].run].target = job[w].target
                /\ runs[job[w].run].status # "SUCCESS"

\* The run has no snapshot before the worker writes one, and that one afterwards.
SnapFact(w) ==
    /\ pc[w] \in Early => RunSnaps(job[w].run) = {}
    /\ pc[w] \in Late =>
          /\ RunSnaps(job[w].run) = {job[w].cur}
          /\ snaps[job[w].cur].target = job[w].target
          /\ snaps[job[w].cur].content = Normalize(job[w].content)
          /\ snaps[job[w].cur].at = job[w].at
          /\ snaps[job[w].cur].base = job[w].prev
          /\ job[w].at <= job[w].detected /\ job[w].detected <= clock

\* The snapshot it compared the page with is an older one of the target.
BaseFact(w) ==
    pc[w] \in Late \cup {"write"} =>
        /\ job[w].at <= clock
        /\ job[w].prev # 0 => /\ job[w].prev \in DOMAIN snaps
                              /\ snaps[job[w].prev].target = job[w].target
                              /\ snaps[job[w].prev].at <= job[w].at

\* The events recorded and the ones left are those that the comparison derived.
EventFact(w) ==
    /\ pc[w] = "write" =>
          Fetched(job[w].content) /\ Derived(job[w].content, job[w].left, Previous(job[w].prev))
    /\ pc[w] \in Late =>
          /\ Fetched(job[w].content)
          /\ Derived(job[w].content, EventsOf(job[w].cur) \cup job[w].left, Previous(job[w].prev))
          /\ EventsOf(job[w].cur) # {} => snaps[job[w].cur].content # Previous(job[w].prev)
          /\ job[w].left # {} <=> pc[w] = "events"

\* What it is about to report as the time of the change is that of a recorded one.
ChangedFact(w) ==
    pc[w] = "touchChanged" =>
        \E c \in changes : c.target = job[w].target /\ c.detected = job[w].detected

\* As long as nobody takes the run away, no other run of the target succeeds.
SerialFact(w) ==
    pc[w] \in Late \cup {"write"} /\ runs[job[w].run].status = "RUNNING" =>
        \A s \in DOMAIN snaps :
            snaps[s].target = job[w].target /\ runs[snaps[s].run].status = "SUCCESS" =>
                /\ job[w].prev # 0 /\ snaps[job[w].prev].at >= snaps[s].at
                /\ pc[w] # "write" => s < job[w].cur

WorkOK(w) == /\ RunFact(w) /\ SnapFact(w) /\ BaseFact(w)
             /\ EventFact(w) /\ ChangedFact(w) /\ SerialFact(w)

SnapsOK ==
    \A s \in DOMAIN snaps :
        /\ snaps[s].real /\ snaps[s].at <= clock
        /\ snaps[s].run \in DOMAIN runs /\ runs[snaps[s].run].target = snaps[s].target
        /\ \E c \in Content : Fetched(c) /\ snaps[s].content = Normalize(c)
        /\ snaps[s].base # 0 => snaps[s].base \in DOMAIN snaps

ChangesOK ==
    \A c \in changes :
        /\ c.prev \in DOMAIN snaps /\ c.cur \in DOMAIN snaps
        /\ snaps[c.prev].target = c.target /\ snaps[c.cur].target = c.target
        /\ snaps[c.cur].base = c.prev
        /\ snaps[c.prev].content # snaps[c.cur].content
        /\ snaps[c.prev].at <= snaps[c.cur].at /\ snaps[c.cur].at <= c.detected

\* What a successful run has stored, in terms of the content that it compared.
SuccessOK ==
    \A r \in DOMAIN runs : runs[r].status = "SUCCESS" =>
        \E s \in DOMAIN snaps :
            /\ RunSnaps(r) = {s}
            /\ EventsOf(s) # {} => snaps[s].content # Previous(snaps[s].base)
            /\ \E c \in Content : /\ Fetched(c) /\ snaps[s].content = Normalize(c)
                                  /\ Derived(c, EventsOf(s), Previous(snaps[s].base))

HistoryInv ==
    /\ SnapsOK /\ ChangesOK /\ SuccessOK
    /\ SuccessfulRunsAreSerial /\ LastChangedIsReported
    /\ \A w \in Workers : WorkOK(w)

-----------------------------------------------------------------------------
(* What a step leaves of a worker that it does not move.                   *)

\* Time passes, and nothing recorded is changed or dropped, except that runs end.
Growth ==
    /\ clock' \in Nat /\ clock <= clock'
    /\ \A s \in DOMAIN snaps : s \in DOMAIN snaps' /\ snaps'[s] = snaps[s]
    /\ changes \subseteq changes'
    /\ \A r \in DOMAIN runs : /\ r \in DOMAIN runs' /\ runs'[r].target = runs[r].target
                              /\ runs'[r].status = "RUNNING" => runs[r].status = "RUNNING"

\* Worker u stays where it is, and what is recorded is not of its run.
Stays(u) ==
    /\ pc'[u] = pc[u] /\ job'[u] = job[u]
    /\ InRun(u) =>
          /\ \A s \in DOMAIN snaps' \ DOMAIN snaps : snaps'[s].run # job[u].run
          /\ \A c \in changes' \ changes : c.cur # job[u].cur \/ pc[u] \notin Late
          /\ runs'[job[u].run].status # "SUCCESS"
          /\ runs'[job[u].run].status = "RUNNING" =>
                \A s \in DOMAIN snaps' :
                    snaps'[s].target = job[u].target /\ runs'[snaps'[s].run].status = "SUCCESS"
                    => s \in DOMAIN snaps /\ runs[snaps[s].run].status = "SUCCESS"

LEMMA RunSnapsKept ==
    ASSUME Growth, NEW r, \A s \in DOMAIN snaps' \ DOMAIN snaps : snaps'[s].run # r
    PROVE  {s \in DOMAIN snaps' : snaps'[s].run = r} = RunSnaps(r)
BY DEF Growth, RunSnaps

LEMMA EventsKept ==
    ASSUME Growth, NEW s, \A c \in changes' \ changes : c.cur # s
    PROVE  {c.event : c \in {d \in changes' : d.cur = s}} = EventsOf(s)
<1>1. {d \in changes' : d.cur = s} = {d \in changes : d.cur = s}
  BY DEF Growth
<1> QED BY <1>1 DEF EventsOf

\* What is known of such a worker stays true.
LEMMA WorkKept ==
    ASSUME TypeInv, Growth, NEW u \in Workers, WorkOK(u), Stays(u)
    PROVE  WorkOK(u)'
<1>1. InRun(u)' <=> InRun(u)
  BY DEF Stays, InRun
<1>2. /\ Late \cup Early \subseteq Labels
      /\ \A l \in Late \cup Early : l \notin {"idle", "insert", "find", "mark"}
  BY DEF Late, Early, Labels
<1>3. pc[u] \in Late \cup Early => InRun(u)
  BY <1>2 DEF InRun
<1>4. "write" \in Early /\ "write" \notin Late /\ "touchChanged" \in Late
      /\ "events" \in Late
  BY DEF Early, Late
<1>5. InRun(u) => job[u].run \in DOMAIN runs
  BY TypeFacts
<1>6. clock \in Nat /\ job[u].at \in Nat /\ job[u].detected \in Nat /\ clock' \in Nat
      /\ clock <= clock'
  BY DEF TypeInv, TypeOK, Job, Growth
<1>7. RunFact(u)'
  BY <1>1, <1>5 DEF WorkOK, RunFact, Stays, Growth
<1>8. InRun(u) => RunSnaps(job[u].run)' = RunSnaps(job[u].run)
  <2> SUFFICES ASSUME InRun(u) PROVE RunSnaps(job[u].run)' = RunSnaps(job[u].run)
    OBVIOUS
  <2>1. {s \in DOMAIN snaps' : snaps'[s].run = job[u].run} = RunSnaps(job[u].run)
    BY RunSnapsKept DEF Stays
  <2> QED BY <2>1 DEF Stays, RunSnaps
<1>9. pc[u] \in Late => job[u].cur \in DOMAIN snaps
  BY <1>3 DEF WorkOK, SnapFact, RunSnaps
<1>10. SnapFact(u)'
  <2>1. pc[u] \in Late => snaps'[job[u].cur] = snaps[job[u].cur]
    BY <1>9 DEF Growth
  <2> QED BY <1>3, <1>6, <1>8, <2>1 DEF WorkOK, SnapFact, Stays
<1>11. BaseFact(u)'
  BY <1>6 DEF WorkOK, BaseFact, Stays, Growth
<1>12. pc[u] \in Late \cup {"write"} => Previous(job[u].prev)' = Previous(job[u].prev)
  BY DEF WorkOK, BaseFact, Stays, Growth, Previous
<1>13. pc[u] \in Late => EventsOf(job[u].cur)' = EventsOf(job[u].cur)
  <2> SUFFICES ASSUME pc[u] \in Late PROVE EventsOf(job[u].cur)' = EventsOf(job[u].cur)
    OBVIOUS
  <2>1. {c.event : c \in {d \in changes' : d.cur = job[u].cur}} = EventsOf(job[u].cur)
    BY <1>3, EventsKept DEF Stays
  <2> QED BY <2>1 DEF Stays, EventsOf
<1>14. EventFact(u)'
  <2>1. pc[u] \in Late => snaps'[job[u].cur] = snaps[job[u].cur]
    BY <1>9 DEF Growth
  <2>2. CASE pc[u] = "write"
    BY <1>4, <1>12, <2>2 DEF WorkOK, EventFact, Stays, Fetched
  <2>3. CASE pc[u] \in Late
    BY <1>4, <1>12, <1>13, <2>1, <2>3 DEF WorkOK, EventFact, Stays, Fetched
  <2> QED BY <2>2, <2>3 DEF EventFact, Stays
<1>15. ChangedFact(u)'
  BY DEF WorkOK, ChangedFact, Stays, Growth
<1>16. SerialFact(u)'
  <2> SUFFICES ASSUME pc[u] \in Late \cup {"write"}, runs'[job[u].run].status = "RUNNING",
                      NEW s \in DOMAIN snaps', snaps'[s].target = job[u].target,
                      runs'[snaps'[s].run].status = "SUCCESS"
               PROVE  /\ job[u].prev # 0 /\ snaps'[job[u].prev].at >= snaps'[s].at
                      /\ pc[u] # "write" => s < job[u].cur
    BY DEF SerialFact, Stays
  <2>1. InRun(u)
    BY <1>3, <1>4
  <2>2. s \in DOMAIN snaps /\ runs[snaps[s].run].status = "SUCCESS"
    BY <2>1 DEF Stays
  <2>3. runs[job[u].run].status = "RUNNING"
    BY <1>5, <2>1 DEF Growth
  <2>4. snaps'[s] = snaps[s]
    BY <2>2 DEF Growth
  <2>5. /\ job[u].prev # 0 /\ snaps[job[u].prev].at >= snaps[s].at
        /\ pc[u] # "write" => s < job[u].cur
    BY <2>2, <2>3, <2>4 DEF WorkOK, SerialFact
  <2>6. snaps'[job[u].prev] = snaps[job[u].prev]
    BY <2>5 DEF WorkOK, BaseFact, Growth
  <2> QED BY <2>4, <2>5, <2>6
<1> QED BY <1>7, <1>10, <1>11, <1>14, <1>15, <1>16 DEF WorkOK

-----------------------------------------------------------------------------
(* Steps that record nothing.                                              *)

NoNewSuccess ==
    \A r \in DOMAIN runs' : runs'[r].status = "SUCCESS" =>
        r \in DOMAIN runs /\ runs[r].status = "SUCCESS"

\* A target's last_changed_at is left alone, or set to the time of a recorded change.
ReportedIsRecorded ==
    \A t \in Targets :
        \/ tgt'[t].lastChanged = tgt[t].lastChanged
        \/ \E c \in changes : c.target = t /\ c.detected = tgt'[t].lastChanged

\* Every step but those that write a snapshot or a change, or that end in SUCCESS.
LEMMA NothingRecorded ==
    ASSUME TypeInv, TypeInv', HistoryInv, Growth, NoNewSuccess, ReportedIsRecorded,
           UNCHANGED <<snaps, changes>>,
           \A u \in Workers : (pc'[u] = pc[u] /\ job'[u] = job[u]) \/ WorkOK(u)'
    PROVE  HistoryInv'
<1>1. /\ clock \in Nat /\ clock' \in Nat /\ clock <= clock'
      /\ \A s \in DOMAIN snaps : snaps[s] \in Snap /\ snaps[s].at \in Nat
      /\ \A s \in DOMAIN snaps : snaps[s].run \in DOMAIN runs
  <2>1. \A s \in DOMAIN snaps : snaps[s] \in Snap
    BY DEF TypeInv, TypeOK
  <2> QED BY <2>1 DEF TypeInv, TypeOK, Growth, HistoryInv, SnapsOK, Snap
<1>2. SnapsOK'
  BY <1>1 DEF HistoryInv, SnapsOK, Growth, Fetched
<1>3. ChangesOK'
  BY DEF HistoryInv, ChangesOK
<1>4. SuccessOK'
  <2> SUFFICES ASSUME NEW r \in DOMAIN runs, runs[r].status = "SUCCESS"
               PROVE  \E s \in DOMAIN snaps :
                         /\ RunSnaps(r)' = {s}
                         /\ EventsOf(s)' # {} =>
                               snaps[s].content # Previous(snaps[s].base)'
                         /\ \E c \in Content :
                               /\ Fetched(c) /\ snaps[s].content = Normalize(c)
                               /\ Derived(c, EventsOf(s)', Previous(snaps[s].base)')
    BY DEF NoNewSuccess, SuccessOK, Fetched
  <2>1. \A s : RunSnaps(r)' = RunSnaps(r) /\ EventsOf(s)' = EventsOf(s)
               /\ Previous(s)' = Previous(s)
    BY DEF RunSnaps, EventsOf, Previous
  <2> QED BY <2>1 DEF HistoryInv, SuccessOK
<1>5. SuccessfulRunsAreSerial'
  BY <1>1 DEF HistoryInv, SuccessfulRunsAreSerial, NoNewSuccess, Growth
<1>6. LastChangedIsReported'
  BY DEF HistoryInv, LastChangedIsReported, ReportedIsRecorded
<1>7. ASSUME NEW u \in Workers, pc'[u] = pc[u], job'[u] = job[u] PROVE WorkOK(u)'
  <2>1. InRun(u) => job[u].run \in DOMAIN runs /\ runs[job[u].run].status # "SUCCESS"
    BY TypeFacts DEF HistoryInv, WorkOK, RunFact
  <2>2. InRun(u) => runs'[job[u].run].status # "SUCCESS"
    BY <2>1 DEF NoNewSuccess, Growth
  <2>3. \A s \in DOMAIN snaps : runs'[snaps[s].run].status = "SUCCESS" =>
            runs[snaps[s].run].status = "SUCCESS"
    BY <1>1 DEF NoNewSuccess, Growth
  <2>4. Stays(u)
    BY <1>7, <2>2, <2>3 DEF Stays
  <2>5. WorkOK(u)
    BY DEF HistoryInv
  <2> QED BY <2>4, <2>5, WorkKept
<1> QED BY <1>2, <1>3, <1>4, <1>5, <1>6, <1>7 DEF HistoryInv

\* Nothing is asked of a worker outside a run, and little of one that failed.
LEMMA OutOfRun == ASSUME NEW w \in Workers, ~InRun(w)' PROVE WorkOK(w)'
<1>1. pc'[w] \in {"idle", "insert", "find", "mark"}
  BY DEF InRun
<1>2. pc'[w] \notin Early \cup Late \cup {"write", "events", "touchChanged"}
  BY <1>1 DEF Early, Late
<1> QED BY <1>2 DEF WorkOK, RunFact, SnapFact, BaseFact, EventFact, ChangedFact, SerialFact

LEMMA Failing ==
    ASSUME NEW w \in Workers, pc'[w] = "fail", RunFact(w)'
    PROVE  WorkOK(w)'
<1>1. pc'[w] \notin Early \cup Late \cup {"write", "events", "touchChanged"}
  BY DEF Early, Late
<1> QED BY <1>1 DEF WorkOK, SnapFact, BaseFact, EventFact, ChangedFact, SerialFact

\* Up to the fetched page, all that counts is that the run has no snapshot.
LEMMA Fetching ==
    ASSUME NEW w \in Workers, pc'[w] \in {"touch", "fetch", "process"}, RunFact(w)',
           RunSnaps(job[w].run)' = {}
    PROVE  WorkOK(w)'
<1>1. pc'[w] \notin Late \cup {"write", "events", "touchChanged"} /\ pc'[w] \in Early
  BY DEF Early, Late
<1> QED BY <1>1 DEF WorkOK, SnapFact, BaseFact, EventFact, ChangedFact, SerialFact

\* One worker moves, and with it at most its run's record.
LEMMA MoveRecordsNothing ==
    ASSUME TypeInv, TypeInv', HistoryInv, Growth, NoNewSuccess, ReportedIsRecorded,
           UNCHANGED <<snaps, changes>>, NEW w \in Workers, WorkOK(w)',
           \A u \in Workers \ {w} : pc'[u] = pc[u] /\ job'[u] = job[u]
    PROVE  HistoryInv'
BY NothingRecorded

\* Time that passes and unchanged records are growth.
LEMMA SameGrowth ==
    ASSUME TypeInv, clock' \in {clock, clock + 1}, UNCHANGED <<snaps, changes, runs>>
    PROVE  Growth /\ NoNewSuccess
BY DEF Growth, NoNewSuccess, TypeInv, TypeOK

LEMMA InitHistory == Init => HistoryInv
<1> SUFFICES ASSUME Init PROVE HistoryInv
  OBVIOUS
<1>1. snaps = <<>> /\ runs = <<>> /\ changes = {} /\ DOMAIN snaps = {} /\ DOMAIN runs = {}
  BY DEF Init
<1>2. \A w \in Workers : WorkOK(w)
  <2> SUFFICES ASSUME NEW w \in Workers PROVE WorkOK(w)
    OBVIOUS
  <2>1. pc[w] = "idle"
    BY DEF Init
  <2>2. ~InRun(w) /\ pc[w] \notin Early \cup Late \cup {"write", "events", "touchChanged"}
    BY <2>1 DEF Early, Late, InRun
  <2> QED BY <2>2
          DEF WorkOK, RunFact, SnapFact, BaseFact, EventFact, ChangedFact, SerialFact
<1>3. LastChangedIsReported
  BY DEF Init, LastChangedIsReported
<1> QED BY <1>1, <1>2, <1>3
        DEF HistoryInv, SnapsOK, ChangesOK, SuccessOK, SuccessfulRunsAreSerial

-----------------------------------------------------------------------------
(* Each step.                                                              *)

LEMMA OthersStay ==
    ASSUME TypeInv, NEW w \in Workers, NEW l, NEW j,
           pc' = [pc EXCEPT ![w] = l], job' = [job EXCEPT ![w] = j]
    PROVE  /\ pc'[w] = l /\ job'[w] = j
           /\ \A u \in Workers \ {w} : pc'[u] = pc[u] /\ job'[u] = job[u]
BY DEF TypeInv, TypeOK

LEMMA OthersStayMoving ==
    ASSUME TypeInv, NEW w \in Workers, NEW l, Goto(w, l), UNCHANGED job
    PROVE  /\ pc'[w] = l /\ job'[w] = job[w]
           /\ \A u \in Workers \ {w} : pc'[u] = pc[u] /\ job'[u] = job[u]
BY DEF TypeInv, TypeOK, Goto

LEMMA LeavingIsOut ==
    ASSUME TypeInv, NEW w \in Workers, Leave(w)
    PROVE  /\ ~InRun(w)'
           /\ \A u \in Workers \ {w} : pc'[u] = pc[u] /\ job'[u] = job[u]
BY DEF TypeInv, TypeOK, Goto, Leave, InRun

LEMMA RetryIsOut ==
    ASSUME TypeInv, NEW w \in Workers, Retry(w)
    PROVE  /\ ~InRun(w)'
           /\ \A u \in Workers \ {w} : pc'[u] = pc[u] /\ job'[u] = job[u]
BY LeavingIsOut DEF TypeInv, TypeOK, Goto, Retry, InRun

\* A record that ends in FAILED.
LEMMA FailingGrowth ==
    ASSUME TypeInv, NEW r \in DOMAIN runs, UNCHANGED <<clock, snaps, changes>>,
           UNCHANGED runs \/ runs' = [runs EXCEPT ![r].status = "FAILED"]
    PROVE  Growth /\ NoNewSuccess
<1>1. clock \in Nat
  BY DEF TypeInv, TypeOK
<1>2. CASE UNCHANGED runs
  BY <1>1, <1>2 DEF Growth, NoNewSuccess
<1>3. CASE runs' = [runs EXCEPT ![r].status = "FAILED"]
  BY <1>1, <1>3, StatusOnly DEF Growth, NoNewSuccess
<1> QED BY <1>2, <1>3

\* The claim writes no history.
LEMMA ClaimHistory ==
    ASSUME TypeInv, TypeInv', HistoryInv, NEW w \in Workers,
           \/ \E t \in Targets : CheckTarget(w, t)
           \/ InsertRun(w) \/ InsertRefused(w) \/ FindRunning(w) \/ MarkStale(w)
    PROVE  HistoryInv'
\* A step of the claim that inserts nothing.
<1>1. ASSUME UNCHANGED <<tgt, snaps, changes>>, Growth, NoNewSuccess, ~InRun(w)',
             \A u \in Workers \ {w} : pc'[u] = pc[u] /\ job'[u] = job[u]
      PROVE  HistoryInv'
  BY <1>1, OutOfRun, MoveRecordsNothing DEF ReportedIsRecorded
<1>2. ASSUME NEW t \in Targets, CheckTarget(w, t) PROVE HistoryInv'
  <2>1. PICK j : pc' = [pc EXCEPT ![w] = "insert"] /\ job' = [job EXCEPT ![w] = j]
    BY <1>2 DEF CheckTarget, Goto
  <2>2. pc'[w] = "insert" /\ \A u \in Workers \ {w} : pc'[u] = pc[u] /\ job'[u] = job[u]
    BY <2>1, OthersStay
  <2> QED BY <1>1, <1>2, <2>2, SameGrowth DEF CheckTarget, InRun
<1>3. CASE InsertRefused(w)
  <2>1. pc'[w] = "find" /\ \A u \in Workers \ {w} : pc'[u] = pc[u] /\ job'[u] = job[u]
    BY <1>3, OthersStayMoving DEF InsertRefused
  <2> QED BY <1>1, <1>3, <2>1, SameGrowth DEF InsertRefused, InRun
<1>4. CASE FindRunning(w)
  <2>1. ~InRun(w)' /\ \A u \in Workers \ {w} : pc'[u] = pc[u] /\ job'[u] = job[u]
    <3>1. CASE Retry(w)
      BY <3>1, RetryIsOut
    <3>2. CASE Leave(w)
      BY <3>2, LeavingIsOut
    <3>3. ASSUME NEW j, job' = [job EXCEPT ![w] = j], Goto(w, "mark")
          PROVE  ~InRun(w)' /\ \A u \in Workers \ {w} : pc'[u] = pc[u] /\ job'[u] = job[u]
      BY <3>3, OthersStay DEF Goto, InRun
    <3>4. Retry(w) \/ Leave(w)
          \/ \E j : job' = [job EXCEPT ![w] = j] /\ Goto(w, "mark")
      BY <1>4 DEF FindRunning
    <3> QED BY <3>1, <3>2, <3>3, <3>4
  <2> QED BY <1>1, <1>4, <2>1, SameGrowth DEF FindRunning
<1>5. CASE MarkStale(w)
  <2>1. ~InRun(w)' /\ \A u \in Workers \ {w} : pc'[u] = pc[u] /\ job'[u] = job[u]
    BY <1>5, RetryIsOut DEF MarkStale
  <2>2. job[w].seen \in DOMAIN runs
    BY <1>5, TypeFacts DEF MarkStale
  <2>3. Growth /\ NoNewSuccess
    BY <1>5, <2>2, FailingGrowth DEF MarkStale
  <2> QED BY <1>1, <1>5, <2>1, <2>3 DEF MarkStale
<1>6. CASE InsertRun(w)
  <2> DEFINE j == [job[w] EXCEPT !.run = Len(runs) + 1]
             n == Len(runs) + 1
  <2>1. /\ job[w] \in Job /\ job[w].target \in Targets /\ Len(runs) \in Nat /\ clock \in Nat
        /\ runs \in Seq(Run) /\ DOMAIN runs = 1..Len(runs)
    BY <1>6, TypeFacts DEF InsertRun, TypeInv, TypeOK
  <2>2. j.run = n /\ j.target = job[w].target
    BY <2>1 DEF Job
  <2>3. pc' = [pc EXCEPT ![w] = "touch"] /\ job' = [job EXCEPT ![w] = j]
        /\ UNCHANGED <<clock, tgt, snaps, changes>>
    BY <1>6 DEF InsertRun, Goto
  <2> HIDE DEF j
  <2>4. /\ pc'[w] = "touch" /\ job'[w] = j
        /\ \A u \in Workers \ {w} : pc'[u] = pc[u] /\ job'[u] = job[u]
    BY <2>3, OthersStay
  <2>5. /\ DOMAIN runs' = DOMAIN runs \cup {n} /\ n \notin DOMAIN runs
        /\ runs'[n].target = job[w].target /\ runs'[n].status = "RUNNING"
        /\ \A r \in DOMAIN runs : runs'[r] = runs[r]
    BY <1>6, <2>1 DEF InsertRun
  <2>6. Growth /\ NoNewSuccess
    BY <2>1, <2>3, <2>5 DEF Growth, NoNewSuccess
  <2>7. RunSnaps(job[w].run)' = {}
    BY <2>2, <2>3, <2>4, <2>5 DEF RunSnaps, HistoryInv, SnapsOK
  <2>8. RunFact(w)'
    BY <2>2, <2>4, <2>5 DEF RunFact
  <2>9. WorkOK(w)'
    BY <2>4, <2>7, <2>8, Fetching
  <2> QED BY <2>3, <2>4, <2>6, <2>9, MoveRecordsNothing DEF ReportedIsRecorded
<1> QED BY <1>2, <1>3, <1>4, <1>5, <1>6

\* A worker in a run that goes on in it.
LEMMA RunFactKept ==
    ASSUME TypeInv, HistoryInv, NEW w \in Workers, InRun(w), UNCHANGED runs,
           job'[w].run = job[w].run, job'[w].target = job[w].target
    PROVE  RunFact(w)'
BY DEF HistoryInv, WorkOK, RunFact

\* An attempt that fails, for whatever reason, and the end of one.
LEMMA FailHistory ==
    ASSUME TypeInv, TypeInv', HistoryInv, NEW w \in Workers, InRun(w),
           Goto(w, "fail"), UNCHANGED <<clock, tgt, runs, snaps, changes, job>>
    PROVE  HistoryInv'
<1>1. pc'[w] = "fail" /\ job'[w] = job[w]
      /\ \A u \in Workers \ {w} : pc'[u] = pc[u] /\ job'[u] = job[u]
  BY OthersStayMoving
<1>2. WorkOK(w)'
  BY <1>1, RunFactKept, Failing
<1> QED BY <1>1, <1>2, SameGrowth, MoveRecordsNothing DEF ReportedIsRecorded

LEMMA LeaveHistory ==
    ASSUME TypeInv, TypeInv', HistoryInv, NEW w \in Workers,
           FinishFailed(w) \/ Crash(w)
    PROVE  HistoryInv'
<1>1. Leave(w) /\ UNCHANGED <<clock, tgt, snaps, changes>>
  BY DEF FinishFailed, Crash
<1>2. ~InRun(w)' /\ \A u \in Workers \ {w} : pc'[u] = pc[u] /\ job'[u] = job[u]
  BY <1>1, LeavingIsOut
<1>3. Growth /\ NoNewSuccess
  <2>1. CASE Crash(w)
    BY <1>1, <2>1, SameGrowth DEF Crash
  <2>2. CASE FinishFailed(w)
    <3>1. job[w].run \in DOMAIN runs
      BY <2>2, TypeFacts DEF FinishFailed, InRun
    <3> QED BY <1>1, <2>2, <3>1, FailingGrowth DEF FinishFailed
  <2> QED BY <2>1, <2>2
<1> QED BY <1>1, <1>2, <1>3, OutOfRun, MoveRecordsNothing DEF ReportedIsRecorded

\* The clock, the site and the requests on targets.
LEMMA EnvironmentHistory ==
    ASSUME TypeInv, TypeInv', HistoryInv,
           \/ Tick \/ UNCHANGED vars
           \/ \E t \in Targets : PublishPage(t) \/ PatchActive(t) \/ ReAdd(t)
                                 \/ RemoveInspect(t) \/ RemoveApply(t)
    PROVE  HistoryInv'
<1>1. clock' \in {clock, clock + 1} /\ UNCHANGED <<snaps, changes, runs, pc, job>>
  BY DEF Tick, vars, PublishPage, PatchActive, ReAdd, RemoveInspect, RemoveApply
<1>2. ReportedIsRecorded
  <2>1. CASE UNCHANGED tgt
    BY <2>1 DEF ReportedIsRecorded
  <2>2. ASSUME NEW t \in Targets, NEW d, d.lastChanged = tgt[t].lastChanged,
               tgt' = [tgt EXCEPT ![t] = d]
        PROVE  ReportedIsRecorded
    BY <2>2 DEF ReportedIsRecorded, TypeInv, TypeOK
  <2>3. ASSUME NEW t \in Targets, PatchActive(t) \/ ReAdd(t) \/ RemoveApply(t)
        PROVE  ReportedIsRecorded
    <3>1. tgt[t] \in Target /\ tgt \in [Targets -> Target]
      BY DEF TypeInv, TypeOK
    <3>2. \A b : /\ [tgt[t] EXCEPT !.active = b].lastChanged = tgt[t].lastChanged
                 /\ [tgt[t] EXCEPT !.exists = b].lastChanged = tgt[t].lastChanged
                 /\ \A y : [tgt[t] EXCEPT !.active = b, !.type = y].lastChanged
                           = tgt[t].lastChanged
      BY <3>1 DEF Target
    <3>3. PICK d : /\ d.lastChanged = tgt[t].lastChanged /\ tgt' = [tgt EXCEPT ![t] = d]
      <4>1. CASE PatchActive(t)
        <5>1. PICK b : tgt' = [tgt EXCEPT ![t] = [tgt[t] EXCEPT !.active = b]]
          BY <4>1 DEF PatchActive
        <5> QED BY <3>2, <5>1
      <4>2. CASE ReAdd(t)
        <5>1. PICK y : tgt' = [tgt EXCEPT ![t] = [tgt[t] EXCEPT !.active = TRUE, !.type = y]]
          BY <4>2 DEF ReAdd
        <5> QED BY <3>2, <5>1
      <4>3. CASE RemoveApply(t)
        <5>1. \/ tgt' = [tgt EXCEPT ![t] = [tgt[t] EXCEPT !.exists = FALSE]]
              \/ tgt' = [tgt EXCEPT ![t] = [tgt[t] EXCEPT !.active = FALSE]]
          BY <4>3 DEF RemoveApply
        <5> QED BY <3>2, <5>1
      <4> QED BY <2>3, <4>1, <4>2, <4>3
    <3> QED BY <2>2, <3>3
  <2> QED BY <2>1, <2>3 DEF Tick, vars, PublishPage, RemoveInspect
<1> QED BY <1>1, <1>2, SameGrowth, NothingRecorded

\* The labels of the attempt.
LEMMA Positions ==
    /\ \A l \in {"touch", "fetch", "process", "write"} : l \in Early /\ l \notin Late
    /\ \A l \in {"events", "touchChanged", "finish"} : l \in Late /\ l \notin Early
    /\ \A l \in Early \cup Late : l \notin {"idle", "insert", "find", "mark", "fail"}
BY DEF Early, Late

\* The page is fetched; the run has no snapshot yet.
LEMMA FetchHistory ==
    ASSUME TypeInv, TypeInv', HistoryInv, NEW w \in Workers, TouchTarget(w) \/ Fetch(w)
    PROVE  HistoryInv'
<1>1. InRun(w) /\ UNCHANGED <<clock, runs, snaps, changes>> /\ RunSnaps(job[w].run) = {}
  BY Positions DEF TouchTarget, Fetch, InRun, HistoryInv, WorkOK, SnapFact
<1>2. ReportedIsRecorded
  <2>1. CASE UNCHANGED tgt
    BY <2>1 DEF ReportedIsRecorded
  <2>2. CASE ~UNCHANGED tgt
    <3>1. tgt' = [tgt EXCEPT ![job[w].target] =
                    [tgt[job[w].target] EXCEPT !.lastChecked = job[w].started]]
      BY <2>2 DEF TouchTarget, Fetch
    <3>2. job[w].target \in Targets /\ tgt \in [Targets -> Target]
      BY <1>1, TypeFacts DEF InRun, TypeInv, TypeOK
    <3> QED BY <3>1, <3>2 DEF ReportedIsRecorded, Target
  <2> QED BY <2>1, <2>2
<1>3. PICK l \in {"fetch", "process", "fail"}, j \in Job :
          /\ pc' = [pc EXCEPT ![w] = l] /\ job' = [job EXCEPT ![w] = j]
          /\ j.run = job[w].run /\ j.target = job[w].target
  <2>1. job[w] \in Job /\ job \in [Workers -> Job]
    BY DEF TypeInv, TypeOK
  <2>2. CASE UNCHANGED job
    <3>1. job' = [job EXCEPT ![w] = job[w]]
      BY <2>1, <2>2
    <3> QED BY <2>1, <2>2, <3>1 DEF TouchTarget, Fetch, Goto
  <2>3. CASE Fetch(w) /\ ~UNCHANGED job
    <3> DEFINE j == [job[w] EXCEPT !.page = site[job[w].target]]
    <3>1. site[job[w].target] \in Pages
      BY <1>1, TypeFacts DEF InRun, TypeInv, TypeOK
    <3>2. j \in Job /\ j.run = job[w].run /\ j.target = job[w].target
      BY <2>1, <3>1 DEF Job
    <3>3. job' = [job EXCEPT ![w] = j] /\ pc' = [pc EXCEPT ![w] = "process"]
      BY <2>3 DEF Fetch, Goto
    <3> HIDE DEF j
    <3> QED BY <3>2, <3>3
  <2> QED BY <2>2, <2>3 DEF TouchTarget
<1>4. /\ pc'[w] = l /\ job'[w] = j
      /\ \A u \in Workers \ {w} : pc'[u] = pc[u] /\ job'[u] = job[u]
  BY <1>3, OthersStay
<1>5. RunFact(w)'
  BY <1>1, <1>3, <1>4, RunFactKept
<1>6. RunSnaps(job[w].run)' = {}
  BY <1>1, <1>3, <1>4 DEF RunSnaps
<1>7. WorkOK(w)'
  BY <1>3, <1>4, <1>5, <1>6, Fetching, Failing
<1> QED BY <1>1, <1>2, <1>4, <1>7, SameGrowth, MoveRecordsNothing

\* The page is compared with the newest snapshot: no successful run has a newer one.
LEMMA ProcessHistory ==
    ASSUME TypeInv, TypeInv', HistoryInv, NEW w \in Workers, ProcessPage(w)
    PROVE  HistoryInv'
<1> DEFINE Result(p) == Process(job[w].type, job[w].page,
                                IF p = 0 THEN None ELSE snaps[p].content)
           j(p) == [job[w] EXCEPT !.page = None, !.prev = p, !.content = Result(p).content,
                                  !.left = Result(p).events, !.at = CaptureTime(w)]
<1>1. /\ pc[w] = "process" /\ InRun(w)
      /\ UNCHANGED <<clock, site, tgt, removing, runs, snaps, changes, faults>>
  BY DEF ProcessPage, InRun
<1>2. PICK p \in Newest(job[w].target) :
         \/ /\ Result(p).ok
            /\ Goto(w, "write") /\ job' = [job EXCEPT ![w] = j(p)]
         \/ Goto(w, "fail") /\ UNCHANGED job
  BY Zenon DEF ProcessPage
<1>3. CASE Goto(w, "fail") /\ UNCHANGED job
  BY <1>1, <1>3, FailHistory
<1>4. CASE Result(p).ok /\ Goto(w, "write") /\ job' = [job EXCEPT ![w] = j(p)]
  <2>1. /\ job[w] \in Job /\ job[w].type \in PageTypes /\ job[w].page \in Pages
        /\ job[w].target \in Targets /\ Pages \subseteq RawPage
    BY <1>1, MonitoringAssumption DEF TypeInv, TypeOK, JobOK, InRun
  <2>2. p \in Nat /\ (p # 0 => p \in RealSnaps(job[w].target))
    BY NewestType DEF TypeInv, TypeOK
  <2>3. p # 0 => p \in DOMAIN snaps /\ snaps[p] \in Snap /\ snaps[p].target = job[w].target
                 /\ snaps[p].at <= clock
    BY <2>2 DEF RealSnaps, TypeInv, TypeOK, HistoryInv, SnapsOK
  <2>4. Fetched(Result(p).content)
    <3> DEFINE previous == IF p = 0 THEN None ELSE snaps[p].content
    <3>1. previous \in Content \cup {None}
      BY <2>3 DEF Snap
    <3>2. Process(job[w].type, job[w].page, previous).content \in Content
      <4> HIDE DEF previous
      <4> QED BY <2>1, <3>1, ProcessType
    <3>3. Result(p).content \in Content
      BY <3>2
    <3>4. Result(p).content.kind = "html" => Result(p).content = CanonicalHtml(job[w].page)
      BY <1>4, ProcessDerives
    <3> HIDE DEF Result
    <3> QED BY <2>1, <3>3, <3>4 DEF Fetched
  <2>5. Derived(Result(p).content, Result(p).events, Previous(p))
    <3>1. Derived(Result(p).content, Result(p).events,
                  IF p = 0 THEN None ELSE snaps[p].content)
      BY <1>4, ProcessDerives
    <3> HIDE DEF Result
    <3> QED BY <3>1 DEF Previous
  <2>6. /\ pc'[w] = "write" /\ job'[w] = j(p)
        /\ \A u \in Workers \ {w} : pc'[u] = pc[u] /\ job'[u] = job[u]
    <3> HIDE DEF j
    <3> QED BY <1>4, OthersStay DEF Goto
  <2>7. /\ j(p).prev = p /\ j(p).content = Result(p).content /\ j(p).left = Result(p).events
        /\ j(p).at = clock /\ j(p).run = job[w].run /\ j(p).target = job[w].target
    <3> HIDE DEF Result
    <3> QED BY <2>1 DEF Job, CaptureTime
  <2> HIDE DEF j, Result
  <2>8. RunFact(w)'
    BY <1>1, <2>6, <2>7, RunFactKept
  <2>9. SnapFact(w)'
    BY <1>1, <2>6, <2>7, Positions DEF HistoryInv, WorkOK, SnapFact, RunSnaps
  <2>10. clock \in Nat
    BY DEF TypeInv, TypeOK
  <2>11. BaseFact(w)'
    BY <1>1, <2>3, <2>6, <2>7, <2>10 DEF BaseFact
  <2>12. EventFact(w)'
    <3>1. Previous(p)' = Previous(p)
      BY <1>1 DEF Previous
    <3> QED BY <2>4, <2>5, <2>6, <2>7, <3>1, Positions DEF EventFact, Fetched, Previous
  <2>13. ChangedFact(w)'
    BY <2>6 DEF ChangedFact
  <2>14. SerialFact(w)'
    <3> SUFFICES ASSUME NEW s \in DOMAIN snaps, snaps[s].target = job[w].target
                 PROVE  p # 0 /\ snaps[p].at >= snaps[s].at
      BY <1>1, <2>6, <2>7, Positions DEF SerialFact
    <3>1. s \in RealSnaps(job[w].target)
      BY DEF RealSnaps, HistoryInv, SnapsOK
    <3>2. p \in RealSnaps(job[w].target)
          /\ \A o \in RealSnaps(job[w].target) : snaps[o].at <= snaps[p].at
      BY <3>1 DEF Newest
    <3>3. p # 0
      BY <3>2 DEF RealSnaps, TypeInv, TypeOK
    <3>4. snaps[s].at \in Nat /\ snaps[p].at \in Nat
      <4>1. snaps[s] \in Snap
        BY DEF TypeInv, TypeOK
      <4> QED BY <2>3, <3>3, <4>1 DEF Snap
    <3> QED BY <3>1, <3>2, <3>3, <3>4
  <2>15. WorkOK(w)'
    BY <2>8, <2>9, <2>11, <2>12, <2>13, <2>14 DEF WorkOK
  <2> QED BY <1>1, <2>6, <2>15, SameGrowth, MoveRecordsNothing DEF ReportedIsRecorded
<1> QED BY <1>2, <1>3, <1>4

\* last_changed_at becomes the time of the change that was recorded before.
LEMMA TouchChangedHistory ==
    ASSUME TypeInv, TypeInv', HistoryInv, NEW w \in Workers, TouchChanged(w)
    PROVE  HistoryInv'
<1>1. /\ pc[w] = "touchChanged" /\ InRun(w) /\ WorkOK(w) /\ job[w].target \in Targets
      /\ UNCHANGED <<clock, runs, snaps, changes, job>>
  BY TypeFacts DEF TouchChanged, InRun, HistoryInv
<1>2. CASE tgt[job[w].target].exists
  <2>1. pc'[w] = "finish" /\ job'[w] = job[w]
        /\ \A u \in Workers \ {w} : pc'[u] = pc[u] /\ job'[u] = job[u]
    BY <1>1, <1>2, OthersStayMoving DEF TouchChanged
  <2>2. RunFact(w)'
    BY <1>1, <2>1, RunFactKept
  <2>3. SnapFact(w)' /\ BaseFact(w)'
    BY <1>1, <2>1, Positions DEF WorkOK, SnapFact, BaseFact, RunSnaps
  <2>4. EventFact(w)'
    BY <1>1, <2>1, Positions DEF WorkOK, EventFact, Fetched, Previous, EventsOf
  <2>5. ChangedFact(w)' /\ SerialFact(w)'
    BY <1>1, <2>1, Positions DEF WorkOK, ChangedFact, SerialFact
  <2>6. ReportedIsRecorded
    <3>1. tgt \in [Targets -> Target]
          /\ tgt' = [tgt EXCEPT ![job[w].target] =
                       [tgt[job[w].target] EXCEPT !.lastChanged = job[w].detected]]
      BY <1>2 DEF TouchChanged, TypeInv, TypeOK
    <3>2. tgt'[job[w].target].lastChanged = job[w].detected
          /\ \A t \in Targets \ {job[w].target} : tgt'[t] = tgt[t]
      BY <1>1, <3>1 DEF Target
    <3> QED BY <1>1, <3>2 DEF ReportedIsRecorded, WorkOK, ChangedFact
  <2>7. WorkOK(w)'
    BY <2>2, <2>3, <2>4, <2>5 DEF WorkOK
  <2> QED BY <1>1, <2>1, <2>6, <2>7, SameGrowth, MoveRecordsNothing
<1>3. CASE ~tgt[job[w].target].exists
  BY <1>1, <1>3, FailHistory DEF TouchChanged
<1> QED BY <1>2, <1>3

-----------------------------------------------------------------------------
(* The steps that record something.                                        *)

\* What is stored of a snapshot stays, whatever is added.
LEMMA SnapshotsStay ==
    ASSUME TypeInv, HistoryInv, Growth, NEW s \in DOMAIN snaps,
           \A c \in changes' \ changes : c.cur # s
    PROVE  /\ snaps'[s] = snaps[s] /\ EventsOf(s)' = EventsOf(s)
           /\ Previous(snaps[s].base)' = Previous(snaps[s].base)
<1>1. snaps'[s] = snaps[s]
  BY DEF Growth
<1>2. {c.event : c \in {d \in changes' : d.cur = s}} = EventsOf(s)
  BY EventsKept
<1>3. snaps[s].base # 0 => snaps[s].base \in DOMAIN snaps
  BY DEF HistoryInv, SnapsOK
<1> QED BY <1>1, <1>2, <1>3 DEF EventsOf, Previous, Growth

\* A snapshot or a change of a run that has not succeeded says nothing of those that
\* have, or of other runs.
LEMMA Recording ==
    ASSUME TypeInv, TypeInv', LeaseInv, HistoryInv, NEW w \in Workers, InRun(w),
           UNCHANGED <<clock, tgt, runs>>, Growth,
           \A s \in DOMAIN snaps' \ DOMAIN snaps : snaps'[s].run = job[w].run,
           \A c \in changes' \ changes :
               c.cur \in DOMAIN snaps /\ snaps[c.cur].run = job[w].run,
           SnapsOK', ChangesOK', WorkOK(w)',
           \A u \in Workers \ {w} : pc'[u] = pc[u] /\ job'[u] = job[u]
    PROVE  HistoryInv'
<1>1. runs[job[w].run].status # "SUCCESS"
  BY DEF HistoryInv, WorkOK, RunFact
<1>2. SuccessOK'
  <2> SUFFICES ASSUME NEW r \in DOMAIN runs, runs[r].status = "SUCCESS"
               PROVE  \E s \in DOMAIN snaps' :
                         /\ RunSnaps(r)' = {s}
                         /\ EventsOf(s)' # {} =>
                               snaps'[s].content # Previous(snaps[s].base)'
                         /\ \E c \in Content :
                               /\ Fetched(c) /\ snaps'[s].content = Normalize(c)
                               /\ Derived(c, EventsOf(s)', Previous(snaps[s].base)')
    BY DEF SuccessOK, Fetched
  <2>1. PICK s \in DOMAIN snaps :
            /\ RunSnaps(r) = {s}
            /\ EventsOf(s) # {} => snaps[s].content # Previous(snaps[s].base)
            /\ \E c \in Content : /\ Fetched(c) /\ snaps[s].content = Normalize(c)
                                  /\ Derived(c, EventsOf(s), Previous(snaps[s].base))
    BY DEF HistoryInv, SuccessOK
  <2>2. snaps[s].run = r
    BY <2>1 DEF RunSnaps
  <2>3. /\ snaps'[s] = snaps[s] /\ EventsOf(s)' = EventsOf(s)
        /\ Previous(snaps[s].base)' = Previous(snaps[s].base)
    BY <1>1, <2>2, SnapshotsStay
  <2>4. {o \in DOMAIN snaps' : snaps'[o].run = r} = RunSnaps(r)
    BY <1>1, RunSnapsKept
  <2>5. RunSnaps(r)' = {s} /\ s \in DOMAIN snaps'
    BY <2>1, <2>4 DEF RunSnaps, Growth
  <2> QED BY <2>1, <2>3, <2>5
<1>3. SuccessfulRunsAreSerial'
  <2> SUFFICES ASSUME NEW s1 \in DOMAIN snaps', NEW s2 \in DOMAIN snaps', s1 < s2,
                      snaps'[s1].target = snaps'[s2].target,
                      runs[snaps'[s1].run].status = "SUCCESS",
                      runs[snaps'[s2].run].status = "SUCCESS"
               PROVE  snaps'[s2].base # 0 /\ snaps'[snaps'[s2].base].at >= snaps'[s1].at
    BY DEF SuccessfulRunsAreSerial
  <2>1. /\ s1 \in DOMAIN snaps /\ s2 \in DOMAIN snaps
        /\ snaps'[s1] = snaps[s1] /\ snaps'[s2] = snaps[s2]
    BY <1>1 DEF Growth
  <2>2. snaps[s2].base # 0 /\ snaps[snaps[s2].base].at >= snaps[s1].at
    BY <2>1 DEF HistoryInv, SuccessfulRunsAreSerial, SnapsOK
  <2>3. snaps'[snaps[s2].base] = snaps[snaps[s2].base]
    BY <2>1, <2>2 DEF HistoryInv, SnapsOK, Growth
  <2> QED BY <2>1, <2>2, <2>3
<1>4. LastChangedIsReported'
  BY DEF HistoryInv, LastChangedIsReported, Growth
<1>5. ASSUME NEW u \in Workers \ {w} PROVE WorkOK(u)'
  <2>1. WorkOK(u)
    BY DEF HistoryInv
  <2>2. InRun(u) => job[u].run # job[w].run
    BY DEF LeaseInv, DistinctRuns
  <2>3. pc[u] \in Late => snaps[job[u].cur].run = job[u].run
    BY <2>1 DEF WorkOK, SnapFact, RunSnaps
  <2>4. InRun(u) => runs[job[u].run].status # "SUCCESS"
    BY <2>1 DEF WorkOK, RunFact
  <2>5. \A s \in DOMAIN snaps' : runs[snaps'[s].run].status = "SUCCESS" =>
            s \in DOMAIN snaps /\ snaps'[s] = snaps[s]
    BY <1>1 DEF Growth
  <2>6. Stays(u)
    BY <2>2, <2>3, <2>4, <2>5 DEF Stays
  <2> QED BY <2>1, <2>6, WorkKept
<1> QED BY <1>2, <1>3, <1>4, <1>5 DEF HistoryInv

\* create_snapshot stores what was compared, once more normalized.
LEMMA WriteHistory ==
    ASSUME TypeInv, TypeInv', LeaseInv, HistoryInv, NEW w \in Workers, WriteSnapshot(w)
    PROVE  HistoryInv'
<1>0. PICK n : n = Len(snaps) + 1
  OBVIOUS
<1> DEFINE new == [target |-> job[w].target, content |-> Normalize(job[w].content),
                   at |-> job[w].at, real |-> TRUE,
                   run |-> job[w].run, base |-> job[w].prev]
           j == [job[w] EXCEPT !.cur = n, !.detected = clock]
           l == AfterWrite(job[w].left)
<1>1. /\ pc[w] = "write" /\ InRun(w) /\ WorkOK(w) /\ job[w].target \in Targets
      /\ job[w].run \in DOMAIN runs /\ job[w] \in Job
      /\ UNCHANGED <<clock, tgt, runs, changes>>
  BY TypeFacts DEF WriteSnapshot, InRun, HistoryInv, TypeInv, TypeOK
<1>2. /\ snaps' = Append(snaps, new) /\ snaps \in Seq(Snap) /\ Len(snaps) \in Nat
      /\ pc' = [pc EXCEPT ![w] = l] /\ job' = [job EXCEPT ![w] = j]
      /\ clock \in Nat
  BY <1>0 DEF WriteSnapshot, Goto, TypeInv, TypeOK
<1>3. /\ j.target = job[w].target /\ j.run = job[w].run /\ j.prev = job[w].prev
      /\ j.content = job[w].content /\ j.left = job[w].left /\ j.at = job[w].at
      /\ j.cur = n /\ j.detected = clock
  BY <1>1 DEF Job
<1>4. l \in {"events", "finish"} /\ (l = "events" <=> job[w].left # {})
  BY DEF AfterWrite
<1>5. /\ new.target = job[w].target /\ new.content = Normalize(job[w].content)
      /\ new.at = job[w].at /\ new.real /\ new.run = job[w].run /\ new.base = job[w].prev
  OBVIOUS
<1> HIDE DEF new, j, l
<1>6. /\ DOMAIN snaps' = DOMAIN snaps \cup {n} /\ n \notin DOMAIN snaps /\ n # 0
      /\ snaps'[n] = new /\ \A s \in DOMAIN snaps : snaps'[s] = snaps[s] /\ s < n
  BY <1>0, <1>2
<1>7. /\ pc'[w] = l /\ job'[w] = j
      /\ \A u \in Workers \ {w} : pc'[u] = pc[u] /\ job'[u] = job[u]
  BY <1>2, OthersStay
<1>8. Growth
  BY <1>1, <1>2, <1>6 DEF Growth
<1>9. /\ job[w].at <= clock /\ job[w].at \in Nat /\ Fetched(job[w].content)
      /\ job[w].content \in Content
      /\ Derived(job[w].content, job[w].left, Previous(job[w].prev))
      /\ RunSnaps(job[w].run) = {} /\ runs[job[w].run].target = job[w].target
      /\ job[w].prev # 0 => /\ job[w].prev \in DOMAIN snaps
                            /\ snaps[job[w].prev].target = job[w].target
                            /\ snaps[job[w].prev].at <= job[w].at
  BY <1>1, Positions DEF WorkOK, BaseFact, EventFact, SnapFact, RunFact, Fetched, Job
<1>10. SnapsOK'
  <2>1. ASSUME NEW s \in DOMAIN snaps
        PROVE  /\ snaps[s].real /\ snaps[s].at <= clock
               /\ snaps[s].run \in DOMAIN runs /\ runs[snaps[s].run].target = snaps[s].target
               /\ \E c \in Content : Fetched(c) /\ snaps[s].content = Normalize(c)
               /\ snaps[s].base # 0 => snaps[s].base \in DOMAIN snaps
    BY DEF HistoryInv, SnapsOK
  <2> QED BY <1>1, <1>5, <1>6, <1>9, <2>1 DEF SnapsOK, Fetched
<1>11. ChangesOK'
  BY <1>1, <1>6 DEF HistoryInv, ChangesOK
<1>12. RunFact(w)'
  BY <1>1, <1>3, <1>7, RunFactKept
<1>13. RunSnaps(job[w].run)' = {n}
  BY <1>3, <1>5, <1>6, <1>7, <1>9 DEF RunSnaps
<1>14. SnapFact(w)'
  BY <1>1, <1>2, <1>3, <1>4, <1>5, <1>6, <1>7, <1>9, <1>13, Positions DEF SnapFact
<1>15. BaseFact(w)'
  BY <1>1, <1>3, <1>6, <1>7, <1>9 DEF BaseFact
<1>16. EventsOf(n)' = {}
  BY <1>1, <1>6 DEF EventsOf, HistoryInv, ChangesOK
<1>17. EventFact(w)'
  <2>1. Previous(job[w].prev)' = Previous(job[w].prev)
    BY <1>3, <1>6, <1>7, <1>9 DEF Previous
  <2> QED BY <1>3, <1>4, <1>7, <1>9, <1>16, <2>1, Positions DEF EventFact, Fetched
<1>18. ChangedFact(w)'
  BY <1>4, <1>7 DEF ChangedFact
<1>19. SerialFact(w)'
  <2> SUFFICES ASSUME runs[job[w].run].status = "RUNNING", NEW s \in DOMAIN snaps',
                      snaps'[s].target = job[w].target,
                      runs[snaps'[s].run].status = "SUCCESS"
               PROVE  /\ job[w].prev # 0 /\ snaps'[job[w].prev].at >= snaps'[s].at
                      /\ s < n
    BY <1>1, <1>3, <1>7 DEF SerialFact
  <2>1. s \in DOMAIN snaps
    BY <1>5, <1>6
  <2>2. job[w].prev # 0 /\ snaps[job[w].prev].at >= snaps[s].at
    BY <1>1, <1>6, <2>1 DEF WorkOK, SerialFact
  <2> QED BY <1>6, <1>9, <2>1, <2>2
<1>20. WorkOK(w)'
  BY <1>12, <1>14, <1>15, <1>17, <1>18, <1>19 DEF WorkOK
<1>21. \A s \in DOMAIN snaps' \ DOMAIN snaps : snaps'[s].run = job[w].run
  BY <1>5, <1>6
<1> QED BY <1>1, <1>7, <1>8, <1>10, <1>11, <1>20, <1>21, Recording

\* create_change records the next event, of the snapshot that the run has written.
LEMMA RecordEventHistory ==
    ASSUME TypeInv, TypeInv', LeaseInv, HistoryInv, NEW w \in Workers, RecordEvent(w)
    PROVE  HistoryInv'
<1>1. /\ pc[w] = "events" /\ InRun(w) /\ WorkOK(w) /\ job[w] \in Job
      /\ job[w].target \in Targets
      /\ UNCHANGED <<clock, tgt, runs, snaps>> /\ clock \in Nat
  BY TypeFacts DEF RecordEvent, InRun, HistoryInv, TypeInv, TypeOK
<1>2. CASE ~Recordable(job[w])
  BY <1>1, <1>2, FailHistory DEF RecordEvent
<1>3. CASE Recordable(job[w])
  <2>0. PICK e \in job[w].left :
           /\ changes' = changes \cup
                {[target |-> job[w].target, prev |-> job[w].prev, cur |-> job[w].cur,
                  event |-> e, detected |-> job[w].detected, real |-> TRUE]}
           /\ job' = [job EXCEPT ![w].left = @ \ {e}]
           /\ Goto(w, AfterEvent(job[w].left \ {e}))
    BY <1>3 DEF RecordEvent
  <2> DEFINE c == [target |-> job[w].target, prev |-> job[w].prev, cur |-> job[w].cur,
                   event |-> e, detected |-> job[w].detected, real |-> TRUE]
             j == [job[w] EXCEPT !.left = @ \ {e}]
             l == AfterEvent(job[w].left \ {e})
  <2>1. /\ changes' = changes \cup {c}
        /\ pc' = [pc EXCEPT ![w] = l] /\ job' = [job EXCEPT ![w] = j]
    BY <2>0 DEF Goto
  <2>2. /\ j.target = job[w].target /\ j.run = job[w].run /\ j.prev = job[w].prev
        /\ j.content = job[w].content /\ j.left = job[w].left \ {e} /\ j.at = job[w].at
        /\ j.cur = job[w].cur /\ j.detected = job[w].detected
    BY <1>1 DEF Job
  <2>3. /\ c.target = job[w].target /\ c.prev = job[w].prev /\ c.cur = job[w].cur
        /\ c.event = e /\ c.detected = job[w].detected
    OBVIOUS
  <2>4. l \in {"events", "touchChanged"} /\ (l = "events" <=> job[w].left \ {e} # {})
    BY DEF AfterEvent
  <2> HIDE DEF c, j, l
  <2>5. /\ pc'[w] = l /\ job'[w] = j
        /\ \A u \in Workers \ {w} : pc'[u] = pc[u] /\ job'[u] = job[u]
    BY <2>1, OthersStay
  <2>6. Growth
    BY <1>1, <2>1 DEF Growth
  <2>7. /\ RunSnaps(job[w].run) = {job[w].cur} /\ snaps[job[w].cur].run = job[w].run
        /\ job[w].cur \in DOMAIN snaps
        /\ snaps[job[w].cur].target = job[w].target
        /\ snaps[job[w].cur].content = Normalize(job[w].content)
        /\ snaps[job[w].cur].at = job[w].at /\ snaps[job[w].cur].base = job[w].prev
        /\ job[w].at <= job[w].detected /\ job[w].detected <= clock
    BY <1>1, Positions DEF WorkOK, SnapFact, RunSnaps
  <2>8. /\ Fetched(job[w].content)
        /\ Derived(job[w].content, EventsOf(job[w].cur) \cup job[w].left,
                   Previous(job[w].prev))
    BY <1>1, Positions DEF WorkOK, EventFact
  <2>9. job[w].prev # 0
    BY <2>0, <2>8 DEF Derived, Previous
  <2>10. /\ job[w].prev \in DOMAIN snaps /\ snaps[job[w].prev].target = job[w].target
         /\ snaps[job[w].prev].at <= job[w].at
    BY <1>1, <2>9, Positions DEF WorkOK, BaseFact
  <2>11. snaps[job[w].prev].content # snaps[job[w].cur].content
    BY <1>3 DEF Recordable, Differ
  <2>12. SnapsOK'
    BY <1>1 DEF HistoryInv, SnapsOK, Fetched
  <2>13. ChangesOK'
    <3>1. ASSUME NEW d \in changes
          PROVE  /\ d.prev \in DOMAIN snaps /\ d.cur \in DOMAIN snaps
                 /\ snaps[d.prev].target = d.target /\ snaps[d.cur].target = d.target
                 /\ snaps[d.cur].base = d.prev
                 /\ snaps[d.prev].content # snaps[d.cur].content
                 /\ snaps[d.prev].at <= snaps[d.cur].at /\ snaps[d.cur].at <= d.detected
      BY DEF HistoryInv, ChangesOK
    <3> QED BY <1>1, <2>1, <2>3, <2>7, <2>10, <2>11, <3>1 DEF ChangesOK
  <2>14. RunFact(w)'
    BY <1>1, <2>2, <2>5, RunFactKept
  <2>15. RunSnaps(job[w].run)' = RunSnaps(job[w].run)
    BY <1>1, <2>2, <2>5 DEF RunSnaps
  <2>16. SnapFact(w)'
    BY <1>1, <2>2, <2>4, <2>5, <2>7, <2>15, Positions DEF SnapFact
  <2>17. BaseFact(w)'
    BY <1>1, <2>2, <2>4, <2>5, Positions DEF WorkOK, BaseFact
  <2>18. EventsOf(job[w].cur)' = EventsOf(job[w].cur) \cup {e}
    <3>1. {d \in changes' : d.cur = job[w].cur} = {d \in changes : d.cur = job[w].cur} \cup {c}
      BY <2>1, <2>3
    <3>2. {d.event : d \in {o \in changes' : o.cur = job[w].cur}}
              = EventsOf(job[w].cur) \cup {e}
      BY <2>3, <3>1 DEF EventsOf
    <3> QED BY <2>2, <2>5, <3>2 DEF EventsOf
  <2>19. EventFact(w)'
    <3>1. Previous(job[w].prev)' = Previous(job[w].prev)
      BY <1>1, <2>2, <2>5 DEF Previous
    <3>2. EventsOf(job[w].cur)' \cup j.left = EventsOf(job[w].cur) \cup job[w].left
      BY <2>0, <2>2, <2>18
    <3>3. snaps[job[w].cur].content # Previous(job[w].prev)
      BY <2>9, <2>11 DEF Previous
    <3> QED BY <1>1, <2>2, <2>4, <2>5, <2>8, <3>1, <3>2, <3>3, Positions
            DEF EventFact, Fetched
  <2>20. ChangedFact(w)'
    BY <2>1, <2>2, <2>3, <2>5 DEF ChangedFact
  <2>21. SerialFact(w)'
    BY <1>1, <2>2, <2>4, <2>5, Positions DEF WorkOK, SerialFact
  <2>22. WorkOK(w)'
    BY <2>14, <2>16, <2>17, <2>19, <2>20, <2>21 DEF WorkOK
  <2>23. \A d \in changes' \ changes :
             d.cur \in DOMAIN snaps /\ snaps[d.cur].run = job[w].run
    BY <2>1, <2>3, <2>7
  <2> QED BY <1>1, <2>5, <2>6, <2>12, <2>13, <2>22, <2>23, Recording
<1> QED BY <1>2, <1>3

\* A run that succeeds held its target's lease all the time: no other run of the target
\* succeeded after it had read the newest snapshot.
LEMMA SuccessHistory ==
    ASSUME TypeInv, TypeInv', LeaseInv, HistoryInv, NEW w \in Workers, FinishSuccess(w)
    PROVE  HistoryInv'
<1> DEFINE run == job[w].run
           cur == job[w].cur
<1>1. /\ pc[w] = "finish" /\ InRun(w) /\ WorkOK(w) /\ run \in DOMAIN runs
      /\ UNCHANGED <<clock, tgt, snaps, changes>> /\ clock \in Nat
  BY TypeFacts DEF FinishSuccess, InRun, HistoryInv, TypeInv, TypeOK
<1>2. CASE ~StillRunning(run)
  BY <1>1, <1>2, FailHistory DEF FinishSuccess
<1>3. CASE StillRunning(run)
  <2>1. /\ runs[run].status = "RUNNING" /\ Leave(w)
        /\ runs' = [runs EXCEPT ![run].status = "SUCCESS"]
    BY <1>3 DEF FinishSuccess, StillRunning
  <2>2. ~InRun(w)' /\ \A u \in Workers \ {w} : pc'[u] = pc[u] /\ job'[u] = job[u]
    BY <2>1, LeavingIsOut
  <2>3. /\ DOMAIN runs' = DOMAIN runs /\ runs'[run].status = "SUCCESS"
        /\ \A r \in DOMAIN runs : /\ runs'[r].target = runs[r].target
                                  /\ r # run => runs'[r] = runs[r]
    BY <1>1, <2>1, StatusOnly
  <2>4. Growth
    BY <1>1, <2>1, <2>3 DEF Growth
  <2>5. /\ RunSnaps(run) = {cur} /\ cur \in DOMAIN snaps /\ snaps[cur].run = run
        /\ snaps[cur].target = job[w].target
        /\ snaps[cur].content = Normalize(job[w].content) /\ snaps[cur].base = job[w].prev
    BY <1>1, Positions DEF WorkOK, SnapFact, RunSnaps
  <2>6. /\ Fetched(job[w].content) /\ job[w].left = {}
        /\ Derived(job[w].content, EventsOf(cur) \cup job[w].left, Previous(job[w].prev))
        /\ EventsOf(cur) # {} => snaps[cur].content # Previous(job[w].prev)
    BY <1>1, Positions DEF WorkOK, EventFact
  <2>7. runs[run].target = job[w].target
    BY <1>1 DEF WorkOK, RunFact
  <2> HIDE DEF run, cur
  <2>8. Derived(job[w].content, EventsOf(cur), Previous(job[w].prev))
    <3>1. EventsOf(cur) \cup job[w].left = EventsOf(cur)
      BY <2>6
    <3> QED BY <2>6, <3>1
  <2>9. \A s \in DOMAIN snaps :
            /\ snaps[s].real /\ snaps[s].run \in DOMAIN runs
            /\ runs[snaps[s].run].target = snaps[s].target
            /\ snaps[s].run = run => s = cur
    BY <2>5 DEF HistoryInv, SnapsOK, RunSnaps
  <2>10. \A s \in DOMAIN snaps :
             snaps[s].target = job[w].target /\ runs[snaps[s].run].status = "SUCCESS" =>
                 /\ job[w].prev # 0 /\ snaps[job[w].prev].at >= snaps[s].at
                 /\ s < cur
    BY <1>1, <2>1, Positions DEF WorkOK, SerialFact, run, cur
  <2>11. SnapsOK'
    BY <1>1, <2>3 DEF HistoryInv, SnapsOK, Fetched
  <2>12. ChangesOK' /\ LastChangedIsReported'
    BY <1>1 DEF HistoryInv, ChangesOK, LastChangedIsReported
  <2>13. SuccessOK'
    <3>1. \A r, s : RunSnaps(r)' = RunSnaps(r) /\ EventsOf(s)' = EventsOf(s)
                    /\ Previous(s)' = Previous(s)
      BY <1>1 DEF RunSnaps, EventsOf, Previous
    <3>2. ASSUME NEW r \in DOMAIN runs, runs'[r].status = "SUCCESS"
          PROVE  \E s \in DOMAIN snaps :
                    /\ RunSnaps(r) = {s}
                    /\ EventsOf(s) # {} => snaps[s].content # Previous(snaps[s].base)
                    /\ \E c \in Content :
                          /\ Fetched(c) /\ snaps[s].content = Normalize(c)
                          /\ Derived(c, EventsOf(s), Previous(snaps[s].base))
      <4>1. CASE r = run
        <5>1. job[w].content \in Content
          BY <2>6 DEF Fetched
        <5> QED BY <2>5, <2>6, <2>8, <4>1, <5>1
      <4>2. CASE r # run
        BY <2>3, <3>2, <4>2 DEF HistoryInv, SuccessOK
      <4> QED BY <4>1, <4>2
    <3> QED BY <1>1, <2>3, <3>1, <3>2 DEF SuccessOK, Fetched
  <2>14. SuccessfulRunsAreSerial'
    <3> SUFFICES ASSUME NEW s1 \in DOMAIN snaps, NEW s2 \in DOMAIN snaps, s1 < s2,
                        snaps[s1].target = snaps[s2].target,
                        runs'[snaps[s1].run].status = "SUCCESS",
                        runs'[snaps[s2].run].status = "SUCCESS"
                 PROVE  snaps[s2].base # 0 /\ snaps[snaps[s2].base].at >= snaps[s1].at
      BY <1>1 DEF SuccessfulRunsAreSerial
    <3>1. s1 \in Nat /\ s2 \in Nat
      BY DEF TypeInv, TypeOK
    <3>2. CASE snaps[s2].run = run
      <4>1. s2 = cur /\ snaps[s1].run # run
        BY <2>9, <3>1, <3>2
      <4>2. runs[snaps[s1].run].status = "SUCCESS"
        BY <2>3, <2>9, <4>1
      <4> QED BY <2>5, <2>10, <4>1, <4>2
    <3>3. CASE snaps[s1].run = run /\ snaps[s2].run # run
      <4>1. s1 = cur
        BY <2>9, <3>3
      <4>2. runs[snaps[s2].run].status = "SUCCESS"
        BY <2>3, <2>9, <3>3
      <4>3. s2 < cur
        BY <2>5, <2>10, <4>1, <4>2
      <4> QED BY <3>1, <4>1, <4>3
    <3>4. CASE snaps[s1].run # run /\ snaps[s2].run # run
      BY <2>3, <2>9, <3>4 DEF HistoryInv, SuccessfulRunsAreSerial
    <3> QED BY <3>2, <3>3, <3>4
  <2>15. ASSUME NEW u \in Workers \ {w} PROVE WorkOK(u)'
    <3>1. WorkOK(u)
      BY DEF HistoryInv
    <3>2. InRun(u) => /\ job[u].run # run /\ job[u].run \in DOMAIN runs
                      /\ runs[job[u].run].status # "SUCCESS"
                      /\ runs[job[u].run].target = job[u].target
      BY <1>1, <3>1, TypeFacts DEF WorkOK, RunFact, LeaseInv, DistinctRuns, run
    <3>3. ASSUME InRun(u), runs[job[u].run].status = "RUNNING" PROVE job[u].target # job[w].target
      <4>1. job[u].target \in Targets
        BY <3>3, TypeFacts DEF InRun
      <4> QED BY <1>1, <2>1, <2>7, <3>2, <3>3, <4>1
              DEF LeaseInv, AtMostOneRunning, RunningRuns
    <3>4. Stays(u)
      BY <1>1, <2>2, <2>3, <2>5, <2>9, <3>2, <3>3 DEF Stays
    <3> QED BY <2>4, <3>1, <3>4, WorkKept
  <2>16. WorkOK(w)'
    BY <2>2, OutOfRun
  <2> QED BY <2>11, <2>12, <2>13, <2>14, <2>15, <2>16 DEF HistoryInv
<1> QED BY <1>2, <1>3

LEMMA NextHistory == TypeInv /\ LeaseInv /\ HistoryInv /\ [Next]_vars => HistoryInv'
<1> SUFFICES ASSUME TypeInv, LeaseInv, HistoryInv, [Next]_vars PROVE HistoryInv'
  OBVIOUS
<1>1. TypeInv'
  BY NextType
<1>2. ASSUME NEW w \in Workers, NEW t \in Targets, CheckTarget(w, t) PROVE HistoryInv'
  BY <1>1, <1>2, ClaimHistory
<1>3. ASSUME NEW w \in Workers, Step(w) PROVE HistoryInv'
  BY <1>1, <1>3, ClaimHistory, FetchHistory, ProcessHistory, WriteHistory,
     RecordEventHistory, TouchChangedHistory, SuccessHistory, LeaveHistory DEF Step
<1>4. ASSUME NEW w \in Workers, StoreError(w) PROVE HistoryInv'
  BY <1>1, <1>4, FailHistory DEF StoreError, InRun
<1>5. ASSUME NEW w \in Workers, Crash(w) PROVE HistoryInv'
  BY <1>1, <1>5, LeaveHistory
<1>6. CASE \/ Tick \/ UNCHANGED vars
           \/ \E t \in Targets : PublishPage(t) \/ PatchActive(t) \/ ReAdd(t)
                                 \/ RemoveInspect(t) \/ RemoveApply(t)
  BY <1>1, <1>6, EnvironmentHistory
<1> QED BY <1>2, <1>3, <1>4, <1>5, <1>6 DEF Next

LEMMA HistoryInvariant == Spec => [](TypeInv /\ LeaseInv /\ HistoryInv)
<1>1. TypeInv /\ LeaseInv /\ HistoryInv /\ [Next]_vars => HistoryInv'
  BY NextHistory
<1> QED BY <1>1, InitHistory, LeaseInvariant, PTL DEF Spec

-----------------------------------------------------------------------------
(* What holds of the history.                                              *)

\* A change, also one that a reclaimed worker records, links two stored snapshots of its
\* target that differ, in the order in which they were captured (create_change).
THEOREM ChangesAreLinked == Spec => []ChangesLinkSnapshots
<1>1. HistoryInv => ChangesLinkSnapshots
  BY DEF HistoryInv, ChangesOK, SnapsOK, ChangesLinkSnapshots, RealSnaps
<1> QED BY <1>1, HistoryInvariant, PTL

\* last_changed_at is the time of a change in the collection, whichever of the workers of
\* a target is the last to set it (touch_last_changed).
THEOREM LastChangedReported == Spec => []LastChangedIsReported
<1>1. HistoryInv => LastChangedIsReported
  BY DEF HistoryInv
<1> QED BY <1>1, HistoryInvariant, PTL

\* The claim serializes what its successful owners read and write, although it does not
\* stop the others from writing (claim; list_for_target in monitor_target).
THEOREM SuccessesAreSerial == Spec => []SuccessfulRunsAreSerial
<1>1. HistoryInv => SuccessfulRunsAreSerial
  BY DEF HistoryInv
<1> QED BY <1>1, HistoryInvariant, PTL

\* No page escapes its markup more than once.
EscapedOnce == \A p \in Pages : p.refs <= 1

\* With such pages a stored page is one that the normalizer leaves alone.
LEMMA StoredIsCanonical ==
    ASSUME EscapedOnce, NEW c \in Content, Fetched(c)
    PROVE  /\ Normalize(c).kind = c.kind
           /\ c.kind = "html" => Normalize(c).refs = 0 /\ (c.refs = 0 => Normalize(c) = c)
           /\ c.kind # "html" => Normalize(c) = c
<1>1. CASE c.kind = "html"
  <2>1. c \in Html
    BY <1>1 DEF Content, Listing
  <2>2. c.refs \in 0..1
    <3>1. PICK p \in Pages : c = CanonicalHtml(p)
      BY <1>1 DEF Fetched
    <3>2. c.refs = p.refs /\ c.refs \in Nat
      BY <2>1, <3>1 DEF CanonicalHtml, Html
    <3> QED BY <3>2 DEF EscapedOnce
  <2> QED BY <1>1, <2>1, <2>2 DEF Normalize, Html
<1>2. CASE c.kind # "html"
  BY <1>2 DEF Normalize
<1> QED BY <1>1, <1>2

\* DiffByKey has an event for each key on which two lists differ in presence or price.
LEMMA DiffTellsApart == ASSUME NEW old, NEW new PROVE TellsApart(DiffByKey(old, new), old, new)
<1>1. \A k \in Keys :
        /\ [type |-> "NEW_PRODUCT", key |-> k] \in DiffByKey(old, new)
              <=> old[k] = None /\ new[k] # None
        /\ [type |-> "PRODUCT_REMOVED", key |-> k] \in DiffByKey(old, new)
              <=> old[k] # None /\ new[k] = None
        /\ [type |-> "PRICE_CHANGE", key |-> k] \in DiffByKey(old, new)
              <=> None \notin {old[k], new[k]} /\ old[k].price # new[k].price
  BY DEF DiffByKey
<1>2. \A e \in DiffByKey(old, new) : e.key \in Keys
  BY DEF DiffByKey
<1> QED BY <1>1, <1>2 DEF TellsApart

\* A run that reports SUCCESS stored one snapshot and recorded what changed (finish, after
\* every event).  A page that spells markup with twice escaped references is excluded: its
\* snapshot is normalized once more than the page was when it was compared, so that two
\* stored snapshots may differ although the comparison found no change.
THEOREM SuccessesAreComplete ==
    ASSUME EscapedOnce
    PROVE  Spec => []SuccessIsComplete
<1>1. TypeInv /\ HistoryInv => SuccessIsComplete
  <2> SUFFICES ASSUME TypeInv, HistoryInv, NEW r \in DOMAIN runs, runs[r].status = "SUCCESS"
               PROVE  \E s \in DOMAIN snaps :
                 /\ RunSnaps(r) = {s}
                 /\ LET b == snaps[s].base IN
                    IF b = 0 \/ snaps[s].content = snaps[b].content THEN EventsOf(s) = {}
                    ELSE IF {snaps[s].content.kind, snaps[b].content.kind} = {"listing"}
                         THEN TellsApart(EventsOf(s), snaps[b].content.products,
                                         snaps[s].content.products)
                         ELSE Cardinality(EventsOf(s)) = 1
    BY DEF SuccessIsComplete
  <2>1. PICK s \in DOMAIN snaps :
            /\ RunSnaps(r) = {s}
            /\ EventsOf(s) # {} => snaps[s].content # Previous(snaps[s].base)
            /\ \E c \in Content : /\ Fetched(c) /\ snaps[s].content = Normalize(c)
                                  /\ Derived(c, EventsOf(s), Previous(snaps[s].base))
    BY DEF HistoryInv, SuccessOK
  <2>2. PICK c \in Content : /\ Fetched(c) /\ snaps[s].content = Normalize(c)
                             /\ Derived(c, EventsOf(s), Previous(snaps[s].base))
    BY <2>1
  <2> DEFINE b == snaps[s].base
             old == snaps[b].content
             new == snaps[s].content
  <2>3. CASE b = 0
    BY <2>1, <2>2, <2>3 DEF Derived, Previous
  <2>4. CASE b # 0
    <3>1. b \in DOMAIN snaps /\ Previous(b) = old
      BY <2>4 DEF HistoryInv, SnapsOK, Previous
    <3>2. PICK d \in Content : Fetched(d) /\ old = Normalize(d)
      BY <3>1 DEF HistoryInv, SnapsOK
    <3>3. old \in Content /\ old # None
      BY <3>2, NormalizeType, MonitoringAssumption
    <3> HIDE DEF old, b
    <3>4. CASE old = c
      <4>1. EventsOf(s) = {}
        BY <2>2, <3>1, <3>4 DEF Derived, b
      <4>2. new = old
        BY <2>2, <3>2, <3>4, StoredIsCanonical
      <4> QED BY <2>1, <4>1, <4>2 DEF old, b
    <3>5. CASE old # c
      <4>1. IF {c.kind, old.kind} = {"listing"}
            THEN EventsOf(s) = DiffByKey(old.products, c.products)
            ELSE \E e \in EventsOf(s) : EventsOf(s) = {e}
        BY <2>2, <3>1, <3>3, <3>5 DEF Derived, b
      <4>2. new.kind = c.kind /\ (c.kind = "listing" => new = c)
        BY <2>2, StoredIsCanonical
      <4>3. CASE {c.kind, old.kind} = {"listing"}
        <5>1. new = c /\ new # old
          BY <3>5, <4>2, <4>3
        <5>2. TellsApart(EventsOf(s), old.products, new.products)
          BY <4>1, <4>3, <5>1, DiffTellsApart
        <5> QED BY <2>1, <2>4, <4>2, <4>3, <5>1, <5>2 DEF old, b
      <4>4. CASE {c.kind, old.kind} # {"listing"}
        <5>1. PICK e : EventsOf(s) = {e}
          BY <4>1, <4>4
        <5>2. new # old
          BY <2>1, <3>1, <5>1 DEF b
        <5>3. Cardinality(EventsOf(s)) = 1
          BY <5>1, FS_Singleton
        <5> QED BY <2>1, <2>4, <4>2, <4>4, <5>2, <5>3 DEF old, b
      <4> QED BY <4>3, <4>4
    <3> QED BY <3>4, <3>5
  <2> QED BY <2>3, <2>4
<1> QED BY <1>1, HistoryInvariant, PTL
=============================================================================
