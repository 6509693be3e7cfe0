----------------------------- MODULE FeedProofs -----------------------------
(***************************************************************************)
(* Proofs about the feed and the backfill of recorded changes, for any     *)
(* number of companies, targets, changes, requests and runs of the script. *)
(*                                                                         *)
(* The collection of changes only grows, and what a feed is asked by never *)
(* changes in a document: an answer stays right, however old its scope is. *)
(* A run of the backfill knows of a row what it selected it for until      *)
(* another run has written the row, which is what `overtaken` records.     *)
(***************************************************************************)
EXTENDS ChangeFeed, FiniteSetTheorems, SequenceTheorems, WellFoundedInduction, TLAPS

-----------------------------------------------------------------------------
(* The inductive invariant.                                                *)

CompanyInv ==
    /\ company \in [DOMAIN company -> Companies \cup {None}]
    /\ DOMAIN company \subseteq Competitors
    /\ WebsitesDiffer
    /\ starting \subseteq Competitors

\* The link of a product's change is the one that anybody would find for it.
LogOK(log) ==
    /\ log \in Seq(Change) /\ Len(log) <= MaxChanges
    /\ \A i \in DOMAIN log : log[i].kind # "narrative" /\ log[i].url # None =>
           log[i].url = ProductUrl(log[i].kind, log[i].named)

\* Whether a request wants the changes of a target, given what the company owned.
Wants(q, owned, t) ==
    /\ q.company # None => CompetitorOf[t] \in owned /\ t \in Stored
    /\ q.competitor # None => CompetitorOf[t] = q.competitor /\ t \in Stored
    /\ q.target # None => t = q.target /\ t \in Stored

\* The answer that FeedIsExact describes.
Exact(m, log) ==
    /\ \A i \in m.answer : Wants(m.ask, m.owned, log[i].target)
    /\ \A i \in m.known \ m.answer : Wants(m.ask, m.owned, log[i].target) =>
          /\ Cardinality(m.answer) = m.ask.limit
          /\ \A j \in m.answer : log[j].at >= log[i].at

\* What a request knows: its scope is what it wants, and its answer is exact.
ReaderOK(m, log) ==
    /\ m.at # "idle" => m.ask \in Ask /\ m.known \subseteq DOMAIN log
    /\ m.at = "scoped" => \A t \in Targets : t \in m.scope <=> Wants(m.ask, m.owned, t)
    /\ m.at = "answered" => m.answer \subseteq DOMAIN log /\ Exact(m, log)

\* What a run of the backfill has done, and what it knows of the rows to come.
Finished(log, i) == log[i].url # None /\ (log[i].kind = "narrative" => log[i].narrative # None)
FillerOK(m, log) ==
    /\ m.selected \subseteq DOMAIN log /\ m.rows \subseteq m.selected
    /\ m.at = "write" => /\ m.row \in m.selected \ m.rows /\ log[m.row].kind = "narrative"
                         /\ m.narrative \in Texts /\ m.url \in Links
    /\ m.at # "write" => m.row = None
    /\ \A i \in m.told \cap m.selected : log[i].narrative # None
    /\ \A i \in m.selected : i \notin m.rows \cup m.failed \cup {m.row} => Finished(log, i)
    /\ \A i \in m.selected \ m.overtaken : i \in m.rows \cup {m.row} =>
           log[i].url = None /\ (log[i].narrative # None => i \in m.told)

ReaderInv == \A r \in Readers : reader[r] \in Reader /\ ReaderOK(reader[r], changes)
FillerInv == \A f \in Fillers : filler[f] \in Filler /\ FillerOK(filler[f], changes)

Inv ==
    /\ CompanyInv
    /\ LogOK(changes)
    /\ reader \in [Readers -> Reader] /\ ReaderInv
    /\ filler \in [Fillers -> Filler] /\ FillerInv
    /\ events \in 0..MaxEvents

-----------------------------------------------------------------------------
(* The latest changes.                                                     *)

\* A set of natural numbers has a least one.
LEMMA Least ==
    ASSUME NEW T, T \subseteq Nat, T # {}
    PROVE  \E m \in T : \A n \in T : m <= n
<1> DEFINE Less == {ss \in Nat \X Nat : ss[1] < ss[2]}
<1>1. IsWellFoundedOn(Less, Nat)
  BY NatLessThanWellFounded DEF OpToRel
<1>2. PICK m \in T : \A n \in T : <<n, m>> \notin Less
  BY <1>1, WFMin, Zenon
<1>3. \A n \in T : ~(n < m)
  BY <1>2
<1> QED BY <1>3

\* Of some changes, one is the latest.
LEMMA Greatest ==
    ASSUME NEW S, S # {}, NEW max \in Nat, NEW at \in [S -> 0..max]
    PROVE  \E m \in S : \A j \in S : at[m] >= at[j]
<1> DEFINE T == {max - at[i] : i \in S}
<1>1. T \subseteq Nat /\ T # {}
  OBVIOUS
<1>2. PICK least \in T : \A n \in T : least <= n
  <2> HIDE DEF T
  <2> QED BY <1>1, Least
<1>3. PICK m \in S : least = max - at[m]
  BY <1>2
<1>4. \A j \in S : max - at[m] <= max - at[j]
  BY <1>2, <1>3
<1>5. \A j \in S : at[m] \in 0..max /\ at[j] \in 0..max
  OBVIOUS
<1>6. \A j \in S : at[m] >= at[j]
  BY <1>4, <1>5
<1> QED BY <1>6

\* As many as one likes can be cut off a sorted list: the ones taken are not older than
\* the ones left.
LEMMA TopExists ==
    ASSUME NEW S, IsFiniteSet(S), NEW max \in Nat, NEW at \in [S -> 0..max],
           NEW size \in 0..Cardinality(S)
    PROVE  \E T \in SUBSET S : /\ Cardinality(T) = size
                               /\ \A i \in T, j \in S \ T : at[i] >= at[j]
<1> DEFINE IsTop(T, k) == Cardinality(T) = k /\ \A i \in T, j \in S \ T : at[i] >= at[j]
           Bad == {k \in 0..Cardinality(S) : ~\E T \in SUBSET S : IsTop(T, k)}
<1>0. Cardinality(S) \in Nat
  BY FS_CardinalityType
<1>1. Bad = {}
  <2> SUFFICES ASSUME Bad # {} PROVE FALSE
    OBVIOUS
  <2>1. Bad \subseteq Nat
    BY <1>0
  <2>2. PICK k \in Bad : \A n \in Bad : k <= n
    <3> HIDE DEF Bad
    <3> QED BY <2>1, Least
  <2>3. k # 0
    <3>1. IsTop({}, 0)
      BY FS_EmptySet
    <3> QED BY <3>1
  <2>4. k - 1 \in 0..Cardinality(S) /\ k - 1 \notin Bad
    BY <1>0, <2>2, <2>3
  <2>5. PICK T \in SUBSET S : IsTop(T, k - 1)
    BY <2>4
  <2>6. IsFiniteSet(T) /\ T # S
    BY <1>0, <2>4, <2>5, FS_Subset
  <2>7. PICK m \in S \ T : \A j \in S \ T : at[m] >= at[j]
    <3> DEFINE rest == [j \in S \ T |-> at[j]]
    <3>1. S \ T # {} /\ rest \in [S \ T -> 0..max]
      BY <2>6
    <3> HIDE DEF rest
    <3>2. \E m \in S \ T : \A j \in S \ T : rest[m] >= rest[j]
      BY <3>1, Greatest
    <3> QED BY <3>2 DEF rest
  <2>8. Cardinality(T \cup {m}) = k
    <3>1. Cardinality(T \cup {m}) = Cardinality(T) + 1
      BY <2>6, <2>7, FS_AddElement
    <3>2. k \in Nat /\ Cardinality(T) = k - 1
      BY <2>1, <2>2, <2>5
    <3> QED BY <3>1, <3>2
  <2>9. IsTop(T \cup {m}, k)
    BY <2>5, <2>7, <2>8
  <2> QED BY <2>2, <2>9
<1> QED BY <1>1

\* ChangeRepository.list returns as many changes as the limit allows, the latest.
LEMMA LatestIs ==
    ASSUME changes \in Seq(Change), NEW ids \in SUBSET DOMAIN changes, NEW n \in Nat
    PROVE  /\ Latest(ids, n) \subseteq ids
           /\ \A i \in ids \ Latest(ids, n) :
                 /\ Cardinality(Latest(ids, n)) = n
                 /\ \A j \in Latest(ids, n) : changes[j].at >= changes[i].at
<1> DEFINE size == IF Cardinality(ids) < n THEN Cardinality(ids) ELSE n
           Top(s) == /\ Cardinality(s) = size
                     /\ \A i \in s, j \in ids \ s : changes[i].at >= changes[j].at
           at == [i \in ids |-> changes[i].at]
           latest == CHOOSE s \in SUBSET ids : Top(s)
<1>1. DOMAIN changes = 1..Len(changes) /\ Len(changes) \in Nat
  OBVIOUS
<1>2. IsFiniteSet(ids) /\ Cardinality(ids) \in Nat
  <2>1. IsFiniteSet(1..Len(changes))
    BY <1>1, FS_Interval
  <2> QED BY <1>1, <2>1, FS_Subset, FS_CardinalityType
<1>3. MaxTime \in Nat /\ \A i \in ids : changes[i].at \in 0..MaxTime
  <2>1. MaxTime \in Nat
    BY FeedAssumption
  <2>2. \A i \in ids : changes[i] \in Change
    BY <1>1
  <2>3. \A c \in Change : c.at \in 0..MaxTime
    BY <2>1 DEF Change
  <2> QED BY <2>1, <2>2, <2>3
<1>4. size \in 0..Cardinality(ids)
  BY <1>2
<1>5. \E s \in SUBSET ids : Top(s)
  <2>1. CASE ids = {}
    <3>1. Top({})
      BY <1>2, <2>1, FS_EmptySet
    <3> QED BY <3>1
  <2>2. CASE ids # {}
    <3>1. at \in [ids -> 0..MaxTime]
      BY <1>3
    <3> HIDE DEF at, size
    <3>2. \E s \in SUBSET ids : /\ Cardinality(s) = size
                                /\ \A i \in s, j \in ids \ s : at[i] >= at[j]
      BY <1>2, <1>3, <1>4, <3>1, TopExists
    <3> QED BY <3>2 DEF at
  <2> QED BY <2>1, <2>2
<1>6. latest \in SUBSET ids /\ Top(latest)
  BY <1>5
<1>7. Latest(ids, n) = latest
  BY DEF Latest
<1>8. latest # ids => Cardinality(latest) = n
  BY <1>2, <1>6, FS_Subset
<1> HIDE DEF latest
<1> QED BY <1>6, <1>7, <1>8

-----------------------------------------------------------------------------
(* What a change of the collection does to a request and to a backfill.    *)

\* The collection grows, and what feeds are asked by stays in its documents.
Grows(old, new) ==
    /\ DOMAIN old \subseteq DOMAIN new
    /\ \A i \in DOMAIN old : new[i].target = old[i].target /\ new[i].at = old[i].at

\* What a request knows or has answered stays right.
LEMMA ReaderKeeps ==
    ASSUME NEW m \in Reader, NEW old, NEW new, Grows(old, new), ReaderOK(m, old)
    PROVE  ReaderOK(m, new)
<1>1. m.at = "answered" => m.answer \subseteq DOMAIN new /\ Exact(m, new)
  <2> SUFFICES ASSUME m.at = "answered" PROVE m.answer \subseteq DOMAIN new /\ Exact(m, new)
    OBVIOUS
  <2>1. m.answer \subseteq DOMAIN old /\ m.known \subseteq DOMAIN old /\ Exact(m, old)
    BY DEF ReaderOK
  <2>2. \A i \in m.answer \cup m.known : i \in DOMAIN old
    BY <2>1
  <2>3. \A i \in m.answer \cup m.known : new[i].target = old[i].target /\ new[i].at = old[i].at
    BY <2>2 DEF Grows
  <2>4. m.answer \subseteq DOMAIN new
    BY <2>1 DEF Grows
  <2> QED BY <2>1, <2>3, <2>4 DEF Exact
<1> QED BY <1>1 DEF ReaderOK, Grows

\* A backfill does not see what is recorded after it began.
LEMMA FillerKeeps ==
    ASSUME NEW m \in Filler, NEW old, NEW new, FillerOK(m, old),
           DOMAIN old \subseteq DOMAIN new, \A i \in DOMAIN old : new[i] = old[i]
    PROVE  FillerOK(m, new)
<1>1. \A i \in m.selected : new[i] = old[i] /\ i \in DOMAIN new
  BY DEF FillerOK
<1> QED BY <1>1 DEF FillerOK, Finished

\* Another one writes row i.
LEMMA FillerOvertaken ==
    ASSUME NEW m \in Filler, NEW log \in Seq(Change), FillerOK(m, log),
           NEW i \in DOMAIN log, NEW c \in Change,
           c.kind = log[i].kind, c.url # None, log[i].narrative # None => c.narrative # None
    PROVE  LET n == IF i \in m.selected THEN [m EXCEPT !.overtaken = @ \cup {i}] ELSE m
           IN  n \in Filler /\ FillerOK(n, [log EXCEPT ![i] = c])
<1> DEFINE n == IF i \in m.selected THEN [m EXCEPT !.overtaken = @ \cup {i}] ELSE m
           new == [log EXCEPT ![i] = c]
<1>1. i \in Ids \/ i \notin m.selected
  BY DEF Filler
<1>2. /\ n \in Filler /\ n.at = m.at /\ n.selected = m.selected /\ n.rows = m.rows
      /\ n.told = m.told /\ n.row = m.row /\ n.narrative = m.narrative /\ n.url = m.url
      /\ n.failed = m.failed
      /\ n.overtaken = IF i \in m.selected THEN m.overtaken \cup {i} ELSE m.overtaken
  BY <1>1 DEF Filler
<1>3. DOMAIN new = DOMAIN log /\ new[i] = c /\ \A j \in DOMAIN log \ {i} : new[j] = log[j]
  OBVIOUS
<1> HIDE DEF n, new
<1>4. \A j \in m.selected : j \in DOMAIN log
  BY DEF FillerOK
<1>5. \A j \in DOMAIN log : new[j].kind = log[j].kind
  BY <1>3
<1>6. \A j \in m.selected : Finished(log, j) => Finished(new, j)
  BY <1>3, <1>4 DEF Finished
<1>7. \A j \in m.selected \ n.overtaken : new[j] = log[j] /\ j \notin m.overtaken
  BY <1>2, <1>3, <1>4
<1>8. \A j \in m.told \cap m.selected : new[j].narrative # None
  BY <1>3, <1>4 DEF FillerOK
<1>9. FillerOK(n, new)
  BY <1>2, <1>3, <1>5, <1>6, <1>7, <1>8 DEF FillerOK
<1> QED BY <1>2, <1>9 DEF n, new

-----------------------------------------------------------------------------
(* The kinds of step.                                                      *)

LEMMA EventType == ASSUME Inv, Event PROVE events' \in 0..MaxEvents
BY FeedAssumption DEF Inv, Event

\* Competitors change, changes do not.
LEMMA CompanyStep ==
    ASSUME Inv, CompanyInv', UNCHANGED <<changes, reader, filler>>, events' \in 0..MaxEvents
    PROVE  Inv'
BY DEF Inv, ReaderInv, FillerInv

\* A request goes on.
LEMMA ReaderStep ==
    ASSUME Inv, NEW r \in Readers, NEW m \in Reader, ReaderOK(m, changes),
           reader' = [reader EXCEPT ![r] = m],
           UNCHANGED <<company, changes, starting, filler>>, events' \in 0..MaxEvents
    PROVE  Inv'
<1>1. reader' \in [Readers -> Reader] /\ ReaderInv'
  BY DEF Inv, ReaderInv
<1> QED BY <1>1 DEF Inv, CompanyInv, WebsitesDiffer, FillerInv

\* A backfill goes on and writes nothing.
LEMMA FillerStep ==
    ASSUME Inv, NEW f \in Fillers, NEW m \in Filler, FillerOK(m, changes),
           filler' = [filler EXCEPT ![f] = m],
           UNCHANGED <<company, changes, starting, reader>>, events' \in 0..MaxEvents
    PROVE  Inv'
<1>1. filler' \in [Fillers -> Filler] /\ FillerInv'
  BY DEF Inv, FillerInv
<1> QED BY <1>1 DEF Inv, CompanyInv, WebsitesDiffer, ReaderInv

\* A backfill writes one row; the others that selected it are overtaken.
LEMMA WriteStep ==
    ASSUME Inv, NEW f \in Fillers, NEW i \in DOMAIN changes, NEW c \in Change,
           c.target = changes[i].target, c.kind = changes[i].kind,
           c.named = changes[i].named, c.at = changes[i].at, c.url # None,
           changes[i].narrative # None => c.narrative # None,
           c.kind # "narrative" => c.url = ProductUrl(c.kind, c.named),
           changes' = [changes EXCEPT ![i] = c],
           NEW m \in Filler, FillerOK(m, [changes EXCEPT ![i] = c]),
           filler' = [Others(f, i) EXCEPT ![f] = m],
           UNCHANGED <<company, starting, reader, events>>
    PROVE  Inv'
<1>1. changes \in Seq(Change) /\ LogOK(changes)
  BY DEF Inv, LogOK
<1>2. /\ changes' \in Seq(Change) /\ Len(changes') = Len(changes)
      /\ DOMAIN changes' = DOMAIN changes
      /\ changes'[i] = c /\ \A j \in DOMAIN changes \ {i} : changes'[j] = changes[j]
  BY <1>1
<1>3. LogOK(changes')
  BY <1>1, <1>2 DEF LogOK
<1>4. Grows(changes, changes')
  BY <1>2 DEF Grows
<1>5. ReaderInv'
  BY <1>4, ReaderKeeps DEF Inv, ReaderInv
<1>6. \A g \in Fillers \ {f} : filler'[g] \in Filler /\ FillerOK(filler'[g], changes')
  <2> SUFFICES ASSUME NEW g \in Fillers \ {f}
               PROVE  filler'[g] \in Filler /\ FillerOK(filler'[g], changes')
    OBVIOUS
  <2>1. filler'[g] = IF i \in filler[g].selected
                     THEN [filler[g] EXCEPT !.overtaken = @ \cup {i}] ELSE filler[g]
    BY DEF Others
  <2>2. filler[g] \in Filler /\ FillerOK(filler[g], changes)
    BY DEF Inv, FillerInv
  <2> DEFINE n == IF i \in filler[g].selected
                  THEN [filler[g] EXCEPT !.overtaken = @ \cup {i}] ELSE filler[g]
  <2>3. n \in Filler /\ FillerOK(n, [changes EXCEPT ![i] = c])
    BY <1>1, <2>2, FillerOvertaken
  <2>4. filler'[g] = n
    BY <2>1
  <2> HIDE DEF n
  <2> QED BY <2>3, <2>4
<1>7. filler'[f] = m
  BY DEF Others
<1>8. FillerInv'
  BY <1>6, <1>7 DEF FillerInv
<1>9. filler' \in [Fillers -> Filler]
  BY <1>6, <1>7 DEF Others
<1> QED BY <1>3, <1>5, <1>8, <1>9 DEF Inv, CompanyInv, WebsitesDiffer

-----------------------------------------------------------------------------
(* Competitors, requests and new changes.                                  *)

\* Each operation on a competitor leaves every website to one competitor of a company.
LEMMA CompetitorKeepsInv ==
    ASSUME Inv, NEW c \in Competitors,
           \/ \E co \in Companies \cup {None} : CreateCompetitor(c, co) \/ UpdateCompetitor(c, co)
           \/ DeleteCompetitor(c) \/ Migrate(c) \/ Start
    PROVE  Inv'
<1>0. /\ company \in [DOMAIN company -> Companies \cup {None}]
      /\ DOMAIN company \subseteq Competitors /\ starting \subseteq Competitors
      /\ \A d, e \in DOMAIN company : d # e /\ company[d] = company[e] =>
             WebsiteOf[d] # WebsiteOf[e]
      /\ events \in 0..MaxEvents
  BY DEF Inv, CompanyInv, WebsitesDiffer
\* A competitor goes to a company that has none with its website.
<1>1. ASSUME NEW co \in Companies \cup {None}, ~Taken(co, c),
             NEW D, D = DOMAIN company \cup {c},
             company' = [d \in D |-> IF d = c THEN co ELSE company[d]],
             starting' \subseteq Competitors
      PROVE  CompanyInv'
  <2>1. \A d \in DOMAIN company \ {c} : company[d] = co => WebsiteOf[d] # WebsiteOf[c]
    BY <1>1 DEF Taken
  <2>2. DOMAIN company' = D /\ D \subseteq Competitors
        /\ company' \in [DOMAIN company' -> Companies \cup {None}]
    BY <1>0, <1>1
  <2>3. WebsitesDiffer'
    <3> SUFFICES ASSUME NEW d \in D, NEW e \in D, d # e, company'[d] = company'[e]
                 PROVE  WebsiteOf[d] # WebsiteOf[e]
      BY <2>2 DEF WebsitesDiffer
    <3>1. CASE d # c /\ e # c
      BY <1>0, <1>1, <3>1
    <3>2. CASE d = c
      BY <1>1, <2>1, <3>2
    <3>3. CASE e = c
      BY <1>1, <2>1, <3>3
    <3> QED BY <3>1, <3>2, <3>3
  <2> QED BY <1>1, <2>2, <2>3 DEF CompanyInv
<1>2. ASSUME NEW co \in Companies \cup {None}, CreateCompetitor(c, co) PROVE Inv'
  BY <1>0, <1>1, <1>2, CompanyStep, EventType DEF CreateCompetitor
<1>3. ASSUME NEW co \in Companies \cup {None}, UpdateCompetitor(c, co) PROVE Inv'
  <2>1. company' = [d \in DOMAIN company \cup {c} |-> IF d = c THEN co ELSE company[d]]
    BY <1>0, <1>3 DEF UpdateCompetitor
  <2> QED BY <1>0, <1>1, <1>3, <2>1, CompanyStep, EventType DEF UpdateCompetitor
<1>4. CASE DeleteCompetitor(c)
  <2>1. company' = [d \in DOMAIN company \ {c} |-> company[d]] /\ UNCHANGED starting
    BY <1>4 DEF DeleteCompetitor
  <2>2. CompanyInv'
    BY <1>0, <2>1 DEF CompanyInv, WebsitesDiffer
  <2> QED BY <1>4, <2>2, CompanyStep, EventType DEF DeleteCompetitor
<1>5. CASE Start
  <2>1. CompanyInv'
    BY <1>0, <1>5 DEF CompanyInv, WebsitesDiffer, Start
  <2> QED BY <1>5, <2>1, CompanyStep, EventType DEF Start
<1>6. CASE Migrate(c)
  <2>1. CASE UNCHANGED company /\ starting' \subseteq starting
    <3>1. CompanyInv'
      BY <1>0, <2>1 DEF CompanyInv, WebsitesDiffer
    <3> QED BY <1>0, <1>6, <3>1, CompanyStep DEF Migrate
  <2>2. CASE ~(UNCHANGED company /\ starting' \subseteq starting)
    <3> DEFINE co == Demo[WebsiteOf[c]]
    <3>1. /\ c \in DOMAIN company /\ WebsiteOf[c] \in DOMAIN Demo /\ ~Taken(co, c)
          /\ company' = [company EXCEPT ![c] = co] /\ starting' = starting \ {c}
      BY <1>6, <2>2 DEF Migrate
    <3>2. co \in Companies \cup {None}
      BY <3>1, FeedAssumption
    <3> HIDE DEF co
    <3>3. company' = [d \in DOMAIN company \cup {c} |-> IF d = c THEN co ELSE company[d]]
      BY <1>0, <3>1
    <3>4. CompanyInv'
      BY <1>0, <1>1, <3>1, <3>2, <3>3
    <3> QED BY <1>0, <1>6, <3>4, CompanyStep DEF Migrate
  <2> QED BY <2>1, <2>2
<1> QED BY <1>2, <1>3, <1>4, <1>5, <1>6

\* The scope that list_changes reads is what the request asks for.
LEMMA ScopeIsWanted ==
    ASSUME NEW q \in Ask, ~NotFound(q), NEW t \in Targets
    PROVE  t \in (IF Refused(q) THEN {} ELSE ScopeOf(q)) <=> Wants(q, OwnedBy(q.company), t)
<1>1. q.company \in Companies \cup {None} /\ q.competitor \in Competitors \cup {None}
      /\ q.target \in Targets \cup {None}
  BY DEF Ask
<1>2. CASE Refused(q)
  BY <1>1, <1>2 DEF Refused, Wants, TargetsOf
<1>3. CASE ~Refused(q)
  <2>1. CASE q.company = None
    BY <1>1, <1>3, <2>1 DEF NotFound, ScopeOf, Wants, TargetsOf
  <2>2. CASE q.company # None /\ q.competitor = None
    BY <1>1, <1>3, <2>2 DEF Refused, ScopeOf, Wants, TargetsOf
  <2>3. CASE q.company # None /\ q.competitor # None
    BY <1>1, <1>3, <2>3 DEF Refused, ScopeOf, Wants, TargetsOf
  <2> QED BY <2>1, <2>2, <2>3
<1> QED BY <1>2, <1>3

LEMMA ReadScopeKeepsInv ==
    ASSUME Inv, NEW r \in Readers, NEW q \in Ask, ReadScope(r, q)
    PROVE  Inv'
<1> DEFINE scope == IF Refused(q) THEN {} ELSE ScopeOf(q)
           m == [at |-> "scoped", ask |-> q, scope |-> scope, answer |-> {},
                 owned |-> OwnedBy(q.company), known |-> DOMAIN changes]
<1>1. DOMAIN changes \subseteq Ids /\ DOMAIN company \subseteq Competitors
  BY FeedAssumption DEF Inv, LogOK, CompanyInv, Ids
<1>2. OwnedBy(q.company) \subseteq Competitors
  BY <1>1 DEF OwnedBy
<1>3. scope \subseteq Targets
  BY FeedAssumption DEF ScopeOf, TargetsOf, Ask
<1>4. \A t \in Targets : t \in scope <=> Wants(q, OwnedBy(q.company), t)
  BY ScopeIsWanted DEF ReadScope
<1>5. reader' = [reader EXCEPT ![r] = m] /\ UNCHANGED <<company, changes, starting, filler>>
      /\ Event
  BY DEF ReadScope
<1> HIDE DEF scope
<1>6. /\ m \in Reader /\ m.at = "scoped" /\ m.ask = q /\ m.scope = scope
      /\ m.owned = OwnedBy(q.company) /\ m.known = DOMAIN changes
  BY <1>1, <1>2, <1>3 DEF Reader
<1> HIDE DEF m
<1>7. ReaderOK(m, changes)
  BY <1>4, <1>6 DEF ReaderOK
<1> QED BY <1>5, <1>6, <1>7, ReaderStep, EventType

\* The query over the scope returns what FeedIsExact says.
LEMMA ReadChangesKeepsInv ==
    ASSUME Inv, NEW r \in Readers, ReadChanges(r)
    PROVE  Inv'
<1> DEFINE ids == {i \in DOMAIN changes : changes[i].target \in reader[r].scope}
           n == reader[r].ask.limit
           answer == Latest(ids, n)
           m == [reader[r] EXCEPT !.at = "answered", !.answer = answer]
<1>1. reader[r] \in Reader /\ reader[r].at = "scoped" /\ ReaderOK(reader[r], changes)
  BY DEF Inv, ReaderInv, ReadChanges
<1>2. reader[r].ask \in Ask /\ reader[r].known \subseteq DOMAIN changes
      /\ \A t \in Targets : t \in reader[r].scope <=> Wants(reader[r].ask, reader[r].owned, t)
  BY <1>1 DEF ReaderOK
<1>3. n \in Nat
  BY <1>2, FeedAssumption DEF Ask
<1>4. changes \in Seq(Change) /\ DOMAIN changes \subseteq Ids
      /\ \A i \in DOMAIN changes : changes[i].target \in Targets
  <2>1. changes \in Seq(Change) /\ DOMAIN changes \subseteq Ids
    BY FeedAssumption DEF Inv, LogOK, Ids
  <2>2. \A i \in DOMAIN changes : changes[i] \in Change
    BY <2>1
  <2> QED BY <2>1, <2>2 DEF Change
<1>5. \A i \in DOMAIN changes :
          i \in ids <=> Wants(reader[r].ask, reader[r].owned, changes[i].target)
  BY <1>2, <1>4
<1>6. ids \subseteq DOMAIN changes
  OBVIOUS
<1> HIDE DEF ids
<1>7. /\ answer \subseteq ids
      /\ \A i \in ids \ answer : /\ Cardinality(answer) = n
                                 /\ \A j \in answer : changes[j].at >= changes[i].at
  BY <1>3, <1>4, <1>6, LatestIs
<1>8. reader' = [reader EXCEPT ![r] = m]
      /\ UNCHANGED <<company, changes, starting, filler, events>>
  BY DEF ReadChanges, ids
<1> HIDE DEF answer
<1>9. /\ m \in Reader /\ m.at = "answered" /\ m.ask = reader[r].ask /\ m.answer = answer
      /\ m.owned = reader[r].owned /\ m.known = reader[r].known
  BY <1>1, <1>4, <1>6, <1>7 DEF Reader
<1> HIDE DEF m
<1>10. Exact(m, changes)
  BY <1>2, <1>5, <1>6, <1>7, <1>9 DEF Exact
<1>11. ReaderOK(m, changes)
  BY <1>2, <1>6, <1>7, <1>9, <1>10 DEF ReaderOK
<1> QED BY <1>8, <1>9, <1>11, ReaderStep DEF Inv

LEMMA ForgetKeepsInv ==
    ASSUME Inv, NEW r \in Readers, Forget(r)
    PROVE  Inv'
<1>1. NoReader \in Reader /\ ReaderOK(NoReader, changes)
  BY DEF NoReader, Reader, ReaderOK
<1> QED BY <1>1, ReaderStep DEF Forget, Inv

\* create_change: a product's link is the one its summary names.
LEMMA RecordKeepsInv ==
    ASSUME Inv, NEW t \in Targets, NEW kind \in Kinds, NEW named \in BOOLEAN,
           NEW at \in 1..MaxTime, RecordChange(t, kind, named, at)
    PROVE  Inv'
<1>1. PICK add \in IF kind = "narrative" THEN Narrated \cup {Unnarrated}
                   ELSE {[narrative |-> None, url |-> ProductUrl(kind, named)]} \cup
                        {[narrative |-> None, url |-> None]} :
          changes' = Append(changes, [target |-> t, kind |-> kind, named |-> named, at |-> at,
                                      narrative |-> add.narrative, url |-> add.url])
  BY DEF RecordChange
<1> DEFINE c == [target |-> t, kind |-> kind, named |-> named, at |-> at,
                 narrative |-> add.narrative, url |-> add.url]
<1>2. add.narrative \in Texts \cup {None} /\ add.url \in Links \cup {None}
      /\ (kind # "narrative" /\ add.url # None => add.url = ProductUrl(kind, named))
  <2>1. CASE kind = "narrative"
    BY <1>1, <2>1 DEF Narrated, Unnarrated, Links
  <2>2. CASE kind # "narrative"
    <3>1. add = [narrative |-> None, url |-> ProductUrl(kind, named)]
          \/ add = [narrative |-> None, url |-> None]
      BY <1>1, <2>2
    <3> QED BY <2>2, <3>1 DEF ProductUrl, Links
  <2> QED BY <2>1, <2>2
<1>3. /\ c \in Change /\ c.kind = kind /\ c.named = named /\ c.url = add.url
  BY <1>2 DEF Change
<1>4. changes \in Seq(Change) /\ Len(changes) < MaxChanges /\ LogOK(changes)
      /\ MaxChanges \in Nat
  BY FeedAssumption DEF Inv, LogOK, RecordChange
<1>5. changes' = Append(changes, c) /\ Event /\ UNCHANGED <<company, starting, reader, filler>>
  BY <1>1 DEF RecordChange
<1> HIDE DEF c
<1>6. /\ changes' \in Seq(Change) /\ Len(changes') = Len(changes) + 1
      /\ DOMAIN changes' = DOMAIN changes \cup {Len(changes) + 1}
      /\ changes'[Len(changes) + 1] = c
      /\ \A i \in DOMAIN changes : changes'[i] = changes[i]
  BY <1>3, <1>4, <1>5
<1>7. LogOK(changes')
  BY <1>2, <1>3, <1>4, <1>6 DEF LogOK
<1>8. Grows(changes, changes')
  BY <1>6 DEF Grows
<1>9. ReaderInv'
  BY <1>5, <1>8, ReaderKeeps DEF Inv, ReaderInv
<1>10. FillerInv'
  <2>1. \A f \in Fillers : filler[f] \in Filler /\ FillerOK(filler[f], changes)
    BY DEF Inv, FillerInv
  <2>2. DOMAIN changes \subseteq DOMAIN changes'
    BY <1>6
  <2>3. \A f \in Fillers : FillerOK(filler[f], changes')
    BY <1>6, <2>1, <2>2, FillerKeeps
  <2> QED BY <1>5, <2>1, <2>3 DEF FillerInv
<1> QED BY <1>5, <1>7, <1>9, <1>10, EventType DEF Inv, CompanyInv, WebsitesDiffer

-----------------------------------------------------------------------------
(* The backfill.                                                           *)

\* What holds of a run at the row it is about to take.
LEMMA NextRow ==
    ASSUME Inv, NEW f \in Fillers, NEW i \in Ids, IsNextRow(f, i)
    PROVE  /\ filler[f] \in Filler /\ FillerOK(filler[f], changes)
           /\ filler[f].at = "rows" /\ filler[f].row = None
           /\ i \in filler[f].rows /\ i \in filler[f].selected /\ i \in DOMAIN changes
           /\ changes \in Seq(Change) /\ changes[i] \in Change
<1>1. filler[f] \in Filler /\ FillerOK(filler[f], changes) /\ changes \in Seq(Change)
  BY DEF Inv, FillerInv, LogOK
<1>2. i \in DOMAIN changes /\ filler[f].at = "rows" /\ filler[f].row = None
      /\ i \in filler[f].rows /\ i \in filler[f].selected
  BY <1>1 DEF IsNextRow, FillerOK
<1> QED BY <1>1, <1>2

LEMMA FillKeepsInv ==
    ASSUME Inv, NEW f \in Fillers, Fill(f)
    PROVE  Inv'
<1> DEFINE m == [NoFiller EXCEPT !.at = "rows", !.rows = Selected, !.selected = Selected,
                                 !.told = {i \in Selected : changes[i].narrative # None}]
<1>1. Selected \subseteq Ids /\ Selected \subseteq DOMAIN changes
  BY FeedAssumption DEF Selected, Inv, LogOK, Ids
<1>2. /\ m \in Filler /\ m.at = "rows" /\ m.rows = Selected /\ m.selected = Selected
      /\ m.told = {i \in Selected : changes[i].narrative # None} /\ m.row = None
      /\ m.failed = {} /\ m.overtaken = {}
  BY <1>1 DEF NoFiller, Filler
<1>3. filler' = [filler EXCEPT ![f] = m] /\ Event
      /\ UNCHANGED <<company, changes, starting, reader>>
  BY DEF Fill
<1> HIDE DEF m
<1>4. FillerOK(m, changes)
  BY <1>1, <1>2 DEF FillerOK, Selected
<1> QED BY <1>2, <1>3, <1>4, FillerStep, EventType

LEMMA RowFailsKeepsInv ==
    ASSUME Inv, NEW f \in Fillers, NEW i \in Ids, RowFails(f, i)
    PROVE  Inv'
<1> DEFINE m == [filler[f] EXCEPT !.rows = @ \ {i}, !.failed = @ \cup {i}]
<1>1. /\ filler[f] \in Filler /\ FillerOK(filler[f], changes) /\ filler[f].at = "rows"
  BY NextRow DEF RowFails
<1>2. /\ m \in Filler /\ m.at = "rows" /\ m.rows = filler[f].rows \ {i}
      /\ m.failed = filler[f].failed \cup {i}
      /\ m.selected = filler[f].selected /\ m.told = filler[f].told /\ m.row = filler[f].row
      /\ m.overtaken = filler[f].overtaken
  BY <1>1 DEF Filler
<1>3. filler' = [filler EXCEPT ![f] = m]
      /\ UNCHANGED <<company, changes, starting, reader, events>>
  BY DEF RowFails
<1> HIDE DEF m
<1>4. FillerOK(m, changes)
  BY <1>1, <1>2 DEF FillerOK
<1> QED BY <1>2, <1>3, <1>4, FillerStep DEF Inv

\* A product's link needs nobody's answer.
LEMMA FillProductKeepsInv ==
    ASSUME Inv, NEW f \in Fillers, NEW i \in Ids, FillProduct(f, i)
    PROVE  Inv'
<1> DEFINE m == [filler[f] EXCEPT !.rows = @ \ {i}]
           url == ProductUrl(changes[i].kind, changes[i].named)
           c == [changes[i] EXCEPT !.url = url]
<1>1. /\ filler[f] \in Filler /\ FillerOK(filler[f], changes) /\ filler[f].at = "rows"
      /\ filler[f].row = None /\ i \in filler[f].rows /\ i \in DOMAIN changes
      /\ changes \in Seq(Change) /\ changes[i] \in Change
  BY NextRow DEF FillProduct
<1>2. url # None /\ url \in Links /\ changes[i].kind # "narrative"
  BY DEF FillProduct, ProductUrl, Links
<1>3. /\ c \in Change /\ c.url = url /\ c.target = changes[i].target
      /\ c.kind = changes[i].kind /\ c.named = changes[i].named /\ c.at = changes[i].at
      /\ c.narrative = changes[i].narrative
  BY <1>1, <1>2 DEF Change
<1>4. /\ m \in Filler /\ m.at = "rows" /\ m.rows = filler[f].rows \ {i}
      /\ m.failed = filler[f].failed /\ m.selected = filler[f].selected
      /\ m.told = filler[f].told /\ m.row = None /\ m.overtaken = filler[f].overtaken
  BY <1>1 DEF Filler
<1>5. changes' = [changes EXCEPT ![i] = c] /\ filler' = [Others(f, i) EXCEPT ![f] = m]
      /\ UNCHANGED <<company, starting, reader, events>>
  BY <1>1 DEF FillProduct, Others
<1>6. c.kind # "narrative" => c.url = ProductUrl(c.kind, c.named)
  BY <1>3
<1> HIDE DEF c, m
<1> DEFINE new == [changes EXCEPT ![i] = c]
<1>7. DOMAIN new = DOMAIN changes /\ new[i] = c
      /\ \A j \in DOMAIN changes \ {i} : new[j] = changes[j]
  BY <1>1
<1> HIDE DEF new, url
<1>8. \A j \in m.selected : j \in DOMAIN changes
  BY <1>1, <1>4 DEF FillerOK
<1>9. \A j \in m.selected : j \notin m.rows \cup m.failed \cup {m.row} => Finished(new, j)
  <2> SUFFICES ASSUME NEW j \in m.selected, j \notin m.rows \cup m.failed \cup {m.row}
               PROVE  Finished(new, j)
    OBVIOUS
  <2>1. CASE j = i
    BY <1>2, <1>3, <1>7, <2>1 DEF Finished
  <2>2. CASE j # i
    BY <1>1, <1>4, <1>7, <1>8, <2>2 DEF FillerOK, Finished
  <2> QED BY <2>1, <2>2
<1>10. \A j \in m.told \cap m.selected : new[j].narrative # None
  BY <1>1, <1>3, <1>4, <1>7, <1>8 DEF FillerOK
<1>11. \A j \in m.selected \ m.overtaken : j \in m.rows \cup {m.row} =>
           new[j].url = None /\ (new[j].narrative # None => j \in m.told)
  <2> SUFFICES ASSUME NEW j \in m.selected \ m.overtaken, j \in m.rows \cup {m.row}
               PROVE  new[j].url = None /\ (new[j].narrative # None => j \in m.told)
    OBVIOUS
  <2>1. j # i
    BY <1>1, <1>4, FeedAssumption
  <2> QED BY <1>1, <1>4, <1>7, <1>8, <2>1 DEF FillerOK
<1>12. FillerOK(m, new)
  BY <1>1, <1>4, <1>7, <1>9, <1>10, <1>11 DEF FillerOK
<1> QED BY <1>1, <1>2, <1>3, <1>4, <1>5, <1>6, <1>12, WriteStep DEF new

LEMMA NarrateKeepsInv ==
    ASSUME Inv, NEW f \in Fillers, NEW i \in Ids, Narrate(f, i)
    PROVE  Inv'
<1>1. PICK add \in Narrated :
          filler' = [filler EXCEPT ![f].at = "write", ![f].rows = @ \ {i}, ![f].row = i,
                                   ![f].narrative = add.narrative, ![f].url = add.url]
  BY DEF Narrate
<1> DEFINE m == [filler[f] EXCEPT !.at = "write", !.rows = @ \ {i}, !.row = i,
                                  !.narrative = add.narrative, !.url = add.url]
<1>2. add.narrative \in Texts /\ add.url \in Links
  BY DEF Narrated
<1>3. /\ filler[f] \in Filler /\ FillerOK(filler[f], changes) /\ filler[f].row = None
      /\ i \in filler[f].rows /\ i \in filler[f].selected /\ changes[i].kind = "narrative"
  BY NextRow DEF Narrate
<1>4. /\ m \in Filler /\ m.at = "write" /\ m.rows = filler[f].rows \ {i} /\ m.row = i
      /\ m.narrative = add.narrative /\ m.url = add.url
      /\ m.failed = filler[f].failed /\ m.selected = filler[f].selected
      /\ m.told = filler[f].told /\ m.overtaken = filler[f].overtaken
  BY <1>2, <1>3 DEF Filler
<1>5. filler' = [filler EXCEPT ![f] = m]
      /\ UNCHANGED <<company, changes, starting, reader, events>>
  BY <1>1 DEF Narrate
<1> HIDE DEF m
<1>6. None \notin filler[f].selected
  BY <1>3, FeedAssumption DEF Filler
<1>7. FillerOK(m, changes)
  BY <1>2, <1>3, <1>4, <1>6 DEF FillerOK
<1> QED BY <1>4, <1>5, <1>7, FillerStep DEF Inv

\* What WriteRow writes: the row's narrative, if it had one when it was selected.
Written(f) == [changes[filler[f].row] EXCEPT !.url = filler[f].url,
                                             !.narrative = NarrativeToWrite(f)]

LEMMA WrittenFields ==
    ASSUME Inv, NEW f \in Fillers, filler[f].at = "write"
    PROVE  LET i == filler[f].row
               c == Written(f)
           IN  /\ filler[f] \in Filler /\ FillerOK(filler[f], changes)
               /\ i \in filler[f].selected \ filler[f].rows /\ i \in DOMAIN changes /\ i \in Ids
               /\ changes \in Seq(Change) /\ changes[i] \in Change /\ changes[i].kind = "narrative"
               /\ c \in Change /\ c.url = filler[f].url /\ c.url # None
               /\ c.narrative = NarrativeToWrite(f) /\ c.narrative # None
               /\ c.target = changes[i].target /\ c.kind = changes[i].kind
               /\ c.named = changes[i].named /\ c.at = changes[i].at
<1> DEFINE i == filler[f].row
           c == Written(f)
<1>1. filler[f] \in Filler /\ FillerOK(filler[f], changes) /\ changes \in Seq(Change)
  BY DEF Inv, FillerInv, LogOK
<1>2. /\ i \in filler[f].selected \ filler[f].rows /\ i \in DOMAIN changes
      /\ changes[i].kind = "narrative" /\ filler[f].narrative \in Texts /\ filler[f].url \in Links
  BY <1>1 DEF FillerOK
<1>3. changes[i] \in Change
  BY <1>1, <1>2
<1>4. NarrativeToWrite(f) \in Texts \cup {None}
  BY <1>2, <1>3 DEF NarrativeToWrite, Change
<1>5. NarrativeToWrite(f) # None
  BY <1>1, <1>2, FeedAssumption DEF NarrativeToWrite, FillerOK
<1>6. /\ c \in Change /\ c.url = filler[f].url /\ c.narrative = NarrativeToWrite(f)
      /\ c.target = changes[i].target /\ c.kind = changes[i].kind
      /\ c.named = changes[i].named /\ c.at = changes[i].at
  BY <1>2, <1>3, <1>4 DEF Written, Change
<1>7. c.url # None /\ i \in Ids
  BY <1>1, <1>2, <1>6, FeedAssumption DEF Filler
<1> HIDE DEF c
<1> QED BY <1>1, <1>2, <1>3, <1>5, <1>6, <1>7 DEF c

LEMMA WriteRowKeepsInv ==
    ASSUME Inv, NEW f \in Fillers, WriteRow(f)
    PROVE  Inv'
<1> DEFINE i == filler[f].row
           c == Written(f)
           m == [filler[f] EXCEPT !.at = "rows", !.row = None, !.narrative = None, !.url = None]
           new == [changes EXCEPT ![i] = c]
<1>1. filler[f].at = "write"
  BY DEF WriteRow
<1>2. /\ filler[f] \in Filler /\ FillerOK(filler[f], changes)
      /\ i \in filler[f].selected \ filler[f].rows /\ i \in DOMAIN changes /\ i \in Ids
      /\ changes \in Seq(Change) /\ changes[i] \in Change /\ changes[i].kind = "narrative"
      /\ c \in Change /\ c.url # None /\ c.narrative # None
      /\ c.target = changes[i].target /\ c.kind = changes[i].kind
      /\ c.named = changes[i].named /\ c.at = changes[i].at
  BY <1>1, WrittenFields
<1>3. changes' = new /\ UNCHANGED <<company, starting, reader, events>>
  BY <1>2 DEF WriteRow, Written
<1>4. filler' = [Others(f, i) EXCEPT ![f] = m]
  BY DEF WriteRow, Others
<1>5. /\ m \in Filler /\ m.at = "rows" /\ m.rows = filler[f].rows /\ m.row = None
      /\ m.failed = filler[f].failed /\ m.selected = filler[f].selected
      /\ m.told = filler[f].told /\ m.overtaken = filler[f].overtaken
  BY <1>2 DEF Filler
<1> HIDE DEF c, m
<1>6. DOMAIN new = DOMAIN changes /\ new[i] = c
      /\ \A j \in DOMAIN changes \ {i} : new[j] = changes[j]
  BY <1>2
<1>7. \A j \in m.selected : j \in DOMAIN changes /\ j # None
  BY <1>2, <1>5, FeedAssumption DEF FillerOK, Filler
<1> HIDE DEF new, i
<1>8. \A j \in m.selected : j \notin m.rows \cup m.failed \cup {m.row} => Finished(new, j)
  <2> SUFFICES ASSUME NEW j \in m.selected, j \notin m.rows \cup m.failed
               PROVE  Finished(new, j)
    OBVIOUS
  <2>1. CASE j = i
    BY <1>2, <1>6, <2>1 DEF Finished
  <2>2. CASE j # i
    BY <1>2, <1>5, <1>6, <1>7, <2>2 DEF FillerOK, Finished, i
  <2> QED BY <2>1, <2>2
<1>9. \A j \in m.told \cap m.selected : new[j].narrative # None
  BY <1>2, <1>5, <1>6, <1>7 DEF FillerOK
<1>10. \A j \in m.selected \ m.overtaken : j \in m.rows \cup {m.row} =>
           new[j].url = None /\ (new[j].narrative # None => j \in m.told)
  <2> SUFFICES ASSUME NEW j \in m.selected \ m.overtaken, j \in m.rows
               PROVE  new[j].url = None /\ (new[j].narrative # None => j \in m.told)
    BY <1>5, <1>7
  <2>1. j # i
    BY <1>2, <1>5
  <2> QED BY <1>2, <1>5, <1>6, <1>7, <2>1 DEF FillerOK
<1>11. FillerOK(m, new)
  BY <1>2, <1>5, <1>6, <1>8, <1>9, <1>10 DEF FillerOK
<1> QED BY <1>2, <1>3, <1>4, <1>5, <1>11, WriteStep DEF new

\* The script ends, or is stopped before that: what it wrote stays.
LEMMA NoFillerOK == NoFiller \in Filler /\ \A log : FillerOK(NoFiller, log)
BY DEF NoFiller, Filler, FillerOK

LEMMA EndFillKeepsInv ==
    ASSUME Inv, NEW f \in Fillers, EndFill(f)
    PROVE  Inv'
BY NoFillerOK, FillerStep DEF EndFill, Inv

-----------------------------------------------------------------------------
(* The invariant.                                                          *)

LEMMA InitInv == Init => Inv
<1> SUFFICES ASSUME Init PROVE Inv
  OBVIOUS
<1>1. CompanyInv
  <2>1. PICK cs \in SUBSET Competitors : company \in [cs -> Companies \cup {None}]
    BY DEF Init
  <2> QED BY <2>1 DEF Init, CompanyInv
<1>2. LogOK(changes)
  BY FeedAssumption DEF Init, LogOK
<1>3. NoReader \in Reader /\ ReaderOK(NoReader, changes)
  BY DEF NoReader, Reader, ReaderOK
<1>4. reader \in [Readers -> Reader] /\ ReaderInv
  BY <1>3 DEF Init, ReaderInv
<1>5. filler \in [Fillers -> Filler] /\ FillerInv
  BY NoFillerOK DEF Init, FillerInv
<1> QED BY <1>1, <1>2, <1>4, <1>5, FeedAssumption DEF Init, Inv

LEMMA StepKeepsInv == Inv /\ [Next]_vars => Inv'
<1> SUFFICES ASSUME Inv, [Next]_vars PROVE Inv'
  OBVIOUS
<1>1. CASE UNCHANGED vars
  BY <1>1 DEF vars, Inv, CompanyInv, WebsitesDiffer, ReaderInv, FillerInv
<1>2. ASSUME NEW c \in Competitors,
             \/ \E co \in Companies \cup {None} :
                    CreateCompetitor(c, co) \/ UpdateCompetitor(c, co)
             \/ DeleteCompetitor(c) \/ Migrate(c)
      PROVE  Inv'
  BY <1>2, CompetitorKeepsInv
<1>3. CASE Start
  <2>1. CompanyInv'
    BY <1>3 DEF Inv, CompanyInv, WebsitesDiffer, Start
  <2> QED BY <1>3, <2>1, CompanyStep, EventType DEF Start
<1>4. ASSUME NEW t \in Targets, NEW kind \in Kinds, NEW named \in BOOLEAN, NEW at \in 1..MaxTime,
             RecordChange(t, kind, named, at)
      PROVE  Inv'
  BY <1>4, RecordKeepsInv
<1>5. ASSUME NEW r \in Readers,
             (\E q \in Ask : ReadScope(r, q)) \/ ReadChanges(r) \/ Forget(r)
      PROVE  Inv'
  BY <1>5, ReadScopeKeepsInv, ReadChangesKeepsInv, ForgetKeepsInv
<1>6. ASSUME NEW f \in Fillers,
             \/ Fill(f) \/ WriteRow(f) \/ EndFill(f)
             \/ \E i \in Ids : RowFails(f, i) \/ FillProduct(f, i) \/ Narrate(f, i)
      PROVE  Inv'
  BY <1>6, FillKeepsInv, WriteRowKeepsInv, EndFillKeepsInv, RowFailsKeepsInv,
     FillProductKeepsInv, NarrateKeepsInv
<1> QED BY <1>1, <1>2, <1>3, <1>4, <1>5, <1>6 DEF Next

LEMMA SpecInv == Spec => []Inv
<1> QED BY InitInv, StepKeepsInv, PTL DEF Spec

-----------------------------------------------------------------------------
(* Theorems.                                                               *)

\* Companies, changes, requests and backfills keep to their types, and no company ever
\* has one website twice, whatever a start assigns to it.
THEOREM TypesAreKept == Spec => []TypeOK
<1>1. Inv => TypeOK
  BY DEF Inv, CompanyInv, LogOK, TypeOK
<1> QED BY <1>1, SpecInv, PTL

\* list_changes: a feed shows what was asked for and leaves out nothing that is newer,
\* although competitors move and changes come in while it is read.
THEOREM FeedsAreExact == Spec => []FeedIsExact
<1>1. Inv => FeedIsExact
  <2> SUFFICES ASSUME Inv, NEW r \in Readers, reader[r].at = "answered"
               PROVE  LET shown == reader[r].answer
                      IN  /\ \A i \in shown : AskedFor(r, i)
                          /\ \A i \in reader[r].known \ shown : AskedFor(r, i) =>
                                /\ Cardinality(shown) = reader[r].ask.limit
                                /\ \A j \in shown : changes[j].at >= changes[i].at
    BY DEF FeedIsExact
  <2>1. Exact(reader[r], changes)
    BY DEF Inv, ReaderInv, ReaderOK
  <2>2. \A i : AskedFor(r, i) <=> Wants(reader[r].ask, reader[r].owned, changes[i].target)
    BY DEF AskedFor, Wants
  <2> QED BY <2>1, <2>2 DEF Exact
<1> QED BY <1>1, SpecInv, PTL

\* run_backfill: what is processed and did not fail is complete, whatever other runs and
\* new changes do meanwhile.
THEOREM BackfillsFill == Spec => []BackfillFills
<1>1. Inv => BackfillFills
  BY DEF Inv, FillerInv, FillerOK, Finished, BackfillFills
<1> QED BY <1>1, SpecInv, PTL

\* What EnrichmentIsKept says of one step.
Kept ==
    \A i \in DOMAIN changes :
        (\A f \in Fillers : filler[f].row = i /\ filler'[f].row # i =>
                               i \notin filler[f].overtaken) =>
            /\ changes[i].narrative # None => changes'[i].narrative = changes[i].narrative
            /\ changes[i].url # None => changes'[i].url = changes[i].url

\* A product's link is replaced by itself at most.
LEMMA FillProductKeepsEnrichment ==
    ASSUME Inv, NEW f \in Fillers, NEW i \in Ids, FillProduct(f, i)
    PROVE  Kept
<1>1. i \in DOMAIN changes /\ changes \in Seq(Change) /\ changes[i] \in Change
  BY NextRow DEF FillProduct
<1>2. changes[i].url # None => changes[i].url = ProductUrl(changes[i].kind, changes[i].named)
  BY <1>1 DEF Inv, LogOK, FillProduct
<1>3. /\ changes'[i].narrative = changes[i].narrative
      /\ changes'[i].url = ProductUrl(changes[i].kind, changes[i].named)
      /\ \A j \in DOMAIN changes \ {i} : changes'[j] = changes[j]
  BY <1>1 DEF FillProduct, Change
<1> QED BY <1>2, <1>3 DEF Kept

\* A row that no other run has written has no link, and its narrative is one that the
\* run knows of.
LEMMA WriteRowKeepsEnrichment ==
    ASSUME Inv, NEW f \in Fillers, WriteRow(f)
    PROVE  Kept
<1> DEFINE i == filler[f].row
<1>1. filler[f].at = "write"
  BY DEF WriteRow
<1>2. /\ filler[f] \in Filler /\ FillerOK(filler[f], changes)
      /\ i \in filler[f].selected /\ i \in DOMAIN changes /\ i \in Ids
      /\ changes \in Seq(Change) /\ changes[i] \in Change
      /\ Written(f).narrative = NarrativeToWrite(f)
  BY <1>1, WrittenFields
<1>3. changes' = [changes EXCEPT ![i] = Written(f)]
  BY <1>2 DEF WriteRow, Written
<1>4. filler'[f].row # i
  <2>1. filler'[f].row = None
    BY <1>2 DEF WriteRow, Others, Filler
  <2> QED BY <1>2, <2>1, FeedAssumption
<1>5. ASSUME i \notin filler[f].overtaken, changes[i].narrative # None
      PROVE  NarrativeToWrite(f) = changes[i].narrative
  BY <1>2, <1>5 DEF FillerOK, NarrativeToWrite
<1>6. i \notin filler[f].overtaken => changes[i].url = None
  BY <1>2 DEF FillerOK
<1>7. \A j \in DOMAIN changes \ {i} : changes'[j] = changes[j]
  BY <1>2, <1>3
<1>8. changes'[i].narrative = NarrativeToWrite(f)
  BY <1>2, <1>3
<1> HIDE DEF i
<1> QED BY <1>4, <1>5, <1>6, <1>7, <1>8 DEF Kept, i

\* update_enrichment: a run that repeats a row that nobody else wrote meanwhile adds to
\* its document and replaces nothing; no other operation touches a recorded change.
THEOREM EnrichmentStays == Spec => EnrichmentIsKept
<1>1. Inv /\ [Next]_vars => [Kept]_vars
  <2> SUFFICES ASSUME Inv, Next PROVE Kept
    OBVIOUS
  <2>1. CASE UNCHANGED changes
    BY <2>1 DEF Kept
  <2>2. ASSUME NEW t \in Targets, NEW kind \in Kinds, NEW named \in BOOLEAN,
               NEW at \in 1..MaxTime, RecordChange(t, kind, named, at)
        PROVE  Kept
    <3>1. \E c : changes' = Append(changes, c)
      BY <2>2 DEF RecordChange
    <3>2. \A i \in DOMAIN changes : changes'[i] = changes[i]
      BY <3>1 DEF Inv, LogOK
    <3> QED BY <3>2 DEF Kept
  <2>3. ASSUME NEW f \in Fillers, WriteRow(f) \/ \E i \in Ids : FillProduct(f, i)
        PROVE  Kept
    BY <2>3, WriteRowKeepsEnrichment, FillProductKeepsEnrichment
  <2> QED BY <2>1, <2>2, <2>3
          DEF Next, CreateCompetitor, UpdateCompetitor, DeleteCompetitor, Start, Migrate,
              ReadScope, ReadChanges, Forget, Fill, EndFill, RowFails, Narrate
<1> QED BY <1>1, SpecInv, PTL DEF Spec, EnrichmentIsKept, Kept
=============================================================================
