--------------------------- MODULE PipelineProofs ---------------------------
(***************************************************************************)
(* Proofs about what one discovery run makes of a website, for every       *)
(* website, any settings of the sources and any answers.                   *)
(*                                                                         *)
(* The verdicts are about all reports of a url, but the run merges them    *)
(* one by one.  MergeOK says what it knows after each: of the reports that *)
(* are merged, whether all of one url are forced.  Merge keeps that, since *)
(* a report that is not forced is preferred to one that is, in either      *)
(* order.  The patterns of normalization.py are not looked into: whatever  *)
(* they say of a path, the verdict follows the evidence.                   *)
(***************************************************************************)
EXTENDS DiscoveryPipeline, SequenceTheorems, FiniteSetTheorems, TLAPS

-----------------------------------------------------------------------------
(* The inductive invariant.                                                *)

\* What the sources have reported, and of it what concerns one url.
All == Reports(kept) \cup {FromLinks(l) : l \in linked}
Of(u, R) == {r \in R : NormalizeUrl(r.path) = u}

Stages == {"robots", "sitemaps", "merge", "gate", "done", "failed"}
Reading == {"robots", "sitemaps"}
Merging == {"merge", "gate", "done"}
Report == [path : Seq(Words), source : {"SITEMAP", "LINKS"}, priority : 0..3,
           forced : BOOLEAN]
Merged == [forced : BOOLEAN, source : {"SITEMAP", "LINKS"}, priority : 0..3]

ReadOK ==
    /\ site \in Websites /\ pc \in Stages
    /\ queue \in Seq([file : STRING, depth : 0..MaxDepth])
    /\ IsFiniteSet(seen) /\ Cardinality(seen) <= MaxSitemaps
    /\ kept \subseteq Seq(Words) /\ linked \subseteq site.links

\* Of a url it is known after each report whether all reports so far are forced.
MergeOK ==
    /\ records \subseteq All /\ (pc # "merge" => records = {})
    /\ IsUrls(merged, Merged)
    /\ pc \in Reading => merged = NoUrls
    /\ pc \in Merging =>
          /\ DOMAIN merged = {u \in {NormalizeUrl(r.path) : r \in All \ records} :
                                 ~IsSystemPath(u)}
          /\ \A u \in DOMAIN merged :
                merged[u].forced <=> (\A r \in Of(u, All \ records) : IsForced(r))

\* A run may fail before it asks whether anything is alive.
HeardOK ==
    /\ DOMAIN heard \subseteq DOMAIN merged
    /\ pc \in Reading \cup {"merge"} => heard = NoUrls
    /\ pc \in {"gate", "done"} => DOMAIN heard = DOMAIN merged
    /\ \A u \in DOMAIN heard : heard[u] \in Seq(Answers) /\ Len(heard[u]) <= Attempts

DoneOK ==
    /\ pc # "done" => llm = NoUrls /\ verdict = NoUrls
    /\ pc = "done" =>
          /\ Unsettled = {}
          /\ llm \in [Unresolved -> {"SUGGESTED", "DISCARDED"}] \cup {NoUrls}
          /\ verdict = [u \in Classified |-> Status(u, llm)]

Inv == ReadOK /\ MergeOK /\ HeardOK /\ DoneOK

-----------------------------------------------------------------------------
(* Paths and reports.                                                      *)

LEMMA AliasType ==
    ASSUME NEW p \in Seq(Words)
    PROVE  Alias(p) \in Seq(Words)
<1>1. CASE p # <<>> /\ p[1] \in DOMAIN Aliases
  <2>1. Aliases[p[1]] \in Words
    BY <1>1, PipelineAssumption DEF Words
  <2>2. 1 \in 1..Len(p)
    BY <1>1
  <2>3. [p EXCEPT ![1] = Aliases[p[1]]] \in Seq(Words)
    BY <2>1, <2>2, ExceptSeq
  <2> QED BY <1>1, <2>3 DEF Alias
<1>2. CASE ~(p # <<>> /\ p[1] \in DOMAIN Aliases)
  BY <1>2 DEF Alias
<1> QED BY <1>1, <1>2

\* A normalized url is a path again (normalize_url).
LEMMA NormalizedPath ==
    ASSUME NEW p \in Seq(Words)
    PROVE  NormalizeUrl(p) \in Seq(Words)
<1>1. IndexPosition(p) \in {0, 1, 2}
  BY DEF IndexPosition
<1>2. CASE IndexPosition(p) \in 1 .. Len(p) - 1
  <2>1. SubSeq(p, 1, IndexPosition(p)) \in Seq(Words)
    <3>1. \A i \in 1 .. IndexPosition(p) : p[i] \in Words
      BY <1>1, <1>2
    <3> QED BY <1>1, <1>2, <3>1, SubSeqProperties
  <2> QED BY <1>2, <2>1, AliasType DEF NormalizeUrl
<1>3. CASE IndexPosition(p) \notin 1 .. Len(p) - 1
           /\ p # <<>> /\ ~IsItem(p) /\ Last(p) \in DynamicWords
  <2>1. SubSeq(p, 1, Len(p) - 1) \in Seq(Words)
    <3>1. Len(p) \in Nat /\ Len(p) # 0
      BY <1>3
    <3>2. \A i \in 1 .. Len(p) - 1 : p[i] \in Words
      BY <3>1
    <3> QED BY <3>1, <3>2, SubSeqProperties
  <2> QED BY <1>3, <2>1, AliasType DEF NormalizeUrl
<1>4. CASE IndexPosition(p) \notin 1 .. Len(p) - 1
           /\ ~(p # <<>> /\ ~IsItem(p) /\ Last(p) \in DynamicWords)
  BY <1>4, AliasType DEF NormalizeUrl
<1> QED BY <1>2, <1>3, <1>4

LEMMA WebsiteType ==
    ASSUME site \in Websites
    PROVE  /\ site.usual \in Seq(STRING) /\ site.declared \in Seq(STRING)
           /\ site.links \subseteq Seq(Words) \X (0..3)
           /\ \A f \in DOMAIN site.files :
                 /\ site.files[f].kind = "index" => site.files[f].files \in Seq(STRING)
                 /\ site.files[f].pages \subseteq Seq(Words)
BY PipelineAssumption

LEMMA ReportTypes == Inv => All \subseteq Report
<1> SUFFICES ASSUME Inv, NEW r \in All PROVE r \in Report
  OBVIOUS
<1>1. CASE r \in Reports(kept)
  <2>1. PICK p \in kept : r = FromSitemap(p)
    BY <1>1 DEF Reports
  <2>2. NormalizeUrl(p) \in Seq(Words)
    BY NormalizedPath DEF Inv, ReadOK
  <2> QED BY <2>1, <2>2 DEF FromSitemap, Report
<1>2. CASE r \notin Reports(kept)
  <2>1. PICK l \in linked : r = FromLinks(l)
    BY <1>2 DEF All
  <2>2. l \in Seq(Words) \X (0..3)
    BY WebsiteType DEF Inv, ReadOK
  <2> QED BY <2>1, <2>2 DEF FromLinks, Report
<1> QED BY <1>1, <1>2

\* The reports of the sitemaps name the urls of the locations, and one that is not
\* forced has a location that is not.
LEMMA ReportsOf ==
    ASSUME NEW pages
    PROVE  /\ \A r \in Reports(pages) :
                 /\ r.source = "SITEMAP"
                 /\ \E p \in pages : r.path = NormalizeUrl(p)
                                     /\ r.forced = (Scope(p) = "UNMATCHED")
           /\ \A p \in pages : \E r \in Reports(pages) : 
                 r.path = NormalizeUrl(p) /\ (Scope(p) # "UNMATCHED" => ~r.forced)
<1>1. ASSUME NEW p \in pages
      PROVE  /\ FromSitemap(p).path = NormalizeUrl(p) /\ FromSitemap(p).source = "SITEMAP"
             /\ FromSitemap(p).forced = (Scope(p) = "UNMATCHED")
  BY DEF FromSitemap
<1>2. ASSUME NEW r \in Reports(pages)
      PROVE  /\ r.source = "SITEMAP"
             /\ \E p \in pages : r.path = NormalizeUrl(p)
                                 /\ r.forced = (Scope(p) = "UNMATCHED")
  BY <1>1, <1>2 DEF Reports
<1>3. ASSUME NEW p \in pages
      PROVE  \E r \in Reports(pages) :
                 r.path = NormalizeUrl(p) /\ (Scope(p) # "UNMATCHED" => ~r.forced)
  <2>1. CASE \E q \in pages : NormalizeUrl(q) = NormalizeUrl(p) /\ Scope(q) # "UNMATCHED"
    <3>1. PICK q \in pages : NormalizeUrl(q) = NormalizeUrl(p) /\ Scope(q) # "UNMATCHED"
      BY <2>1
    <3>2. ~FromSitemap(q).forced /\ FromSitemap(q).path = NormalizeUrl(p)
      BY <1>1, <3>1
    <3>3. FromSitemap(q) \in Reports(pages)
      BY <3>2 DEF Reports
    <3> QED BY <3>2, <3>3
  <2>2. CASE \A q \in pages : NormalizeUrl(q) = NormalizeUrl(p) => Scope(q) = "UNMATCHED"
    <3>1. \A q \in pages : FromSitemap(q).path = NormalizeUrl(p) => FromSitemap(q).forced
      BY <1>1, <2>2
    <3>2. FromSitemap(p) \in Reports(pages)
      BY <1>1, <3>1 DEF Reports
    <3> QED BY <1>1, <2>2, <3>2
  <2> QED BY <2>1, <2>2
<1> QED BY <1>2, <1>3

\* All reports of a url are forced unless there is evidence for it (_should_force_discard).
LEMMA EvidenceIsUnforced ==
    ASSUME Inv, NEW u
    PROVE  HasEvidence(u) <=> \E r \in Of(u, All) : ~IsForced(r)
<1>1. ASSUME HasEvidence(u) PROVE \E r \in Of(u, All) : ~IsForced(r)
  <2>1. CASE \E p \in kept :
                LET n == NormalizeUrl(p)
                IN  /\ NormalizeUrl(n) = u
                    /\ "UNMATCHED" \notin {Scope(p), Scope(n)} /\ ~IsExcluded(n)
    <3>1. PICK p \in kept :
              /\ NormalizeUrl(NormalizeUrl(p)) = u /\ Scope(p) # "UNMATCHED"
              /\ Scope(NormalizeUrl(p)) # "UNMATCHED" /\ ~IsExcluded(NormalizeUrl(p))
      BY <2>1
    <3>2. PICK r \in Reports(kept) : r.path = NormalizeUrl(p) /\ ~r.forced
      BY <3>1, ReportsOf
    <3>3. r.source = "SITEMAP"
      BY ReportsOf
    <3>4. NormalizeUrl(r.path) = u /\ Scope(r.path) # "UNMATCHED" /\ ~IsExcluded(r.path)
      BY <3>1, <3>2
    <3>5. ~IsForced(r)
      BY <3>2, <3>3, <3>4 DEF IsForced
    <3>6. r \in Of(u, All)
      BY <3>4 DEF Of, All
    <3> QED BY <3>5, <3>6
  <2>2. CASE \E l \in linked :
                /\ NormalizeUrl(l[1]) = u
                /\ Scope(l[1]) # "UNMATCHED" /\ ~IsExcluded(l[1])
                /\ l[2] < 2 \/ IsStructural(l[1])
    <3>1. PICK l \in linked :
                /\ NormalizeUrl(l[1]) = u
                /\ Scope(l[1]) # "UNMATCHED" /\ ~IsExcluded(l[1])
                /\ l[2] < 2 \/ IsStructural(l[1])
      BY <2>2
    <3>2. l[2] \in 0..3
      BY WebsiteType DEF Inv, ReadOK
    <3>3. PICK r : r = FromLinks(l)
      OBVIOUS
    <3>4. r.path = l[1] /\ r.priority = l[2] /\ r.source = "LINKS" /\ ~r.forced
      BY <3>3 DEF FromLinks
    <3>5. r.priority >= 2 => IsStructural(r.path)
      BY <3>1, <3>2, <3>4
    <3>6. ~IsForced(r)
      BY <3>1, <3>4, <3>5 DEF IsForced
    <3>7. r \in Of(u, All)
      BY <3>1, <3>3, <3>4 DEF Of, All
    <3> QED BY <3>6, <3>7
  <2> QED BY <1>1, <2>1, <2>2 DEF HasEvidence
<1>2. ASSUME NEW r \in Of(u, All), ~IsForced(r) PROVE HasEvidence(u)
  <2>0. NormalizeUrl(r.path) = u /\ r \in All /\ ~r.forced /\ Scope(r.path) # "UNMATCHED"
        /\ ~IsExcluded(r.path)
        /\ (r.source = "LINKS" => ~(r.priority >= 2) \/ IsStructural(r.path))
    BY <1>2 DEF Of, IsForced
  <2>1. CASE r \in Reports(kept)
    <3>1. PICK p \in kept : r.path = NormalizeUrl(p) /\ r.forced = (Scope(p) = "UNMATCHED")
      BY <2>1, ReportsOf
    <3> QED BY <2>0, <3>1 DEF HasEvidence
  <2>2. CASE r \notin Reports(kept)
    <3>1. PICK l \in linked : r = FromLinks(l)
      BY <2>0, <2>2 DEF All
    <3>2. l[2] \in 0..3
      BY WebsiteType DEF Inv, ReadOK
    <3>3. r.path = l[1] /\ r.priority = l[2] /\ r.source = "LINKS"
      BY <3>1 DEF FromLinks
    <3>4. l[2] < 2 \/ IsStructural(l[1])
      BY <2>0, <3>2, <3>3
    <3> QED BY <2>0, <3>3, <3>4 DEF HasEvidence
  <2> QED BY <2>1, <2>2
<1> QED BY <1>1, <1>2

LEMMA FoundAreReported ==
    Found = {NormalizeUrl(r.path) : r \in All}
<1>1. ASSUME NEW p \in kept
      PROVE  NormalizeUrl(NormalizeUrl(p)) \in {NormalizeUrl(r.path) : r \in All}
  <2>1. PICK r \in Reports(kept) : r.path = NormalizeUrl(p)
    BY ReportsOf
  <2> QED BY <2>1 DEF All
<1>2. ASSUME NEW l \in linked
      PROVE  NormalizeUrl(l[1]) \in {NormalizeUrl(r.path) : r \in All}
  <2>1. FromLinks(l).path = l[1] /\ FromLinks(l) \in All
    BY DEF FromLinks, All
  <2> QED BY <2>1
<1>3. ASSUME NEW r \in All PROVE NormalizeUrl(r.path) \in Found
  <2>1. CASE r \in Reports(kept)
    BY <2>1, ReportsOf DEF Found
  <2>2. CASE r \notin Reports(kept)
    BY <1>3, <2>2 DEF All, FromLinks, Found
  <2> QED BY <2>1, <2>2
<1> QED BY <1>1, <1>2, <1>3 DEF Found

-----------------------------------------------------------------------------
(* Every step keeps the invariant.                                         *)

LEMMA InitInv == Init => Inv
<1> SUFFICES ASSUME Init PROVE Inv
  OBVIOUS
<1>1. /\ site \in Websites /\ pc = "robots" /\ queue = <<>> /\ seen = {} /\ kept = {}
      /\ linked = {} /\ records = {}
      /\ merged = NoUrls /\ heard = NoUrls /\ llm = NoUrls /\ verdict = NoUrls
  BY DEF Init
<1>2. ReadOK
  BY <1>1, FS_EmptySet, PipelineAssumption DEF ReadOK, Stages
<1>3. MergeOK /\ DoneOK
  BY <1>1 DEF MergeOK, DoneOK, Reading, Merging, IsUrls, NoUrls
<1>4. HeardOK
  BY <1>1 DEF HeardOK, NoUrls, Reading
<1> QED BY <1>2, <1>3, <1>4 DEF Inv

\* A queue that is filled from the names of a file stays a queue.
LEMMA EnqueueType ==
    ASSUME NEW names \in Seq(STRING), NEW depth \in 0..MaxDepth
    PROVE  Enqueue(names, depth) \in Seq([file : STRING, depth : 0..MaxDepth])
<1>1. DOMAIN names = 1..Len(names) /\ Len(names) \in Nat
  OBVIOUS
<1>2. \A i \in 1..Len(names) : names[i] \in STRING
  OBVIOUS
<1>3. Enqueue(names, depth) \in [1..Len(names) -> [file : STRING, depth : 0..MaxDepth]]
  BY <1>1, <1>2 DEF Enqueue
<1> DEFINE T == [file : STRING, depth : 0..MaxDepth]
<1>4. [1..Len(names) -> T] \in {[1..n -> T] : n \in Nat}
  BY <1>1
<1>5. Enqueue(names, depth) \in UNION {[1..n -> T] : n \in Nat}
  BY <1>3, <1>4, Zenon
<1>6. UNION {[1..n -> T] : n \in Nat} = Seq(T)
  BY SeqDef, Zenon
<1> QED BY <1>5, <1>6

\* What is read of a file are pages of it (the sample of SitemapSource).
LEMMA KeepType ==
    ASSUME NEW pages, NEW locations, NEW S \in Keep(pages, locations)
    PROVE  S \subseteq pages
<1>1. CASE locations <= Threshold
  BY <1>1 DEF Keep
<1>2. CASE ~(locations <= Threshold)
  <2>1. PICK s \in SUBSET Unstructured(pages) : S = (pages \ Unstructured(pages)) \cup s
    BY <1>2 DEF Keep
  <2> QED BY <2>1 DEF Unstructured
<1> QED BY <1>1, <1>2

LEMMA ReadingKeepsInv ==
    ASSUME Inv, ReadRobots \/ ReadSitemap \/ SitemapsFail \/ SourceRaises
    PROVE  Inv'
<1>1. ReadOK /\ MaxDepth \in Nat /\ MaxSitemaps \in Nat
  BY PipelineAssumption DEF Inv
<1>2. /\ pc \in Reading /\ pc' \in Reading \cup {"failed"}
      /\ UNCHANGED <<site, linked, records, Rest>>
  BY DEF ReadRobots, ReadSitemap, SitemapsFail, SourceRaises, Reading
<1>3. MergeOK' /\ HeardOK' /\ DoneOK'
  <2>1. records = {} /\ merged = NoUrls /\ heard = NoUrls
    BY <1>2 DEF Inv, MergeOK, HeardOK, Reading
  <2>2. UNCHANGED <<records, merged, heard, llm, verdict>>
    BY <1>2 DEF Rest
  <2>3. MergeOK'
    BY <1>2, <2>1, <2>2 DEF MergeOK, Reading, Merging, IsUrls, NoUrls
  <2>4. HeardOK' /\ DoneOK'
    BY <1>2, <2>1, <2>2 DEF Inv, HeardOK, DoneOK, Reading, NoUrls
  <2> QED BY <2>3, <2>4
<1>4. CASE ReadRobots
  <2>1. PICK declared \in {site.declared, <<>>} :
            queue' = Enqueue(site.usual \o declared, 0)
    BY <1>4 DEF ReadRobots
  <2>2. site.usual \o declared \in Seq(STRING)
    BY <1>1, WebsiteType, EmptySeq, ConcatProperties DEF ReadOK
  <2>3. queue' \in Seq([file : STRING, depth : 0..MaxDepth])
    <3>1. 0 \in 0..MaxDepth
      BY <1>1
    <3>2. Enqueue(site.usual \o declared, 0) \in Seq([file : STRING, depth : 0..MaxDepth])
      BY <2>2, <3>1, EnqueueType
    <3> QED BY <2>1, <3>2
  <2>4. ReadOK'
    BY <1>1, <1>4, <2>3 DEF ReadRobots, ReadOK, Stages
  <2> QED BY <1>3, <2>4 DEF Inv
<1>5. CASE ReadSitemap
  <2> DEFINE Entry == [file : STRING, depth : 0..MaxDepth]
             q == Head(queue)
             f == site.files[q.file]
  <2>1. queue \in Seq(Entry) /\ queue # <<>> /\ q \in Entry /\ Tail(queue) \in Seq(Entry)
    BY <1>1, <1>5, HeadTailProperties DEF ReadSitemap, ReadOK
  <2>2. IsFiniteSet(seen') /\ Cardinality(seen') <= MaxSitemaps
    <3>1. Cardinality(seen) < MaxSitemaps /\ seen' = seen \cup {q.file} /\ IsFiniteSet(seen)
      BY <1>1, <1>5 DEF ReadSitemap, ReadOK
    <3>2. Cardinality(seen) \in Nat
      BY <3>1, FS_CardinalityType
    <3>3. PICK file : seen' = seen \cup {file}
      BY <3>1
    <3>4. IsFiniteSet(seen \cup {file}) /\ Cardinality(seen \cup {file}) <= Cardinality(seen) + 1
      BY <3>1, <3>2, FS_AddElement
    <3>5. Cardinality(seen) + 1 <= MaxSitemaps
      BY <1>1, <3>1, <3>2
    <3>6. Cardinality(seen \cup {file}) \in Nat
      BY <3>4, FS_CardinalityType
    <3> QED BY <1>1, <3>2, <3>3, <3>4, <3>5, <3>6
  <2>3. ASSUME f.kind = "index", Descends(q), ~Skipped(q)
        PROVE  Tail(queue) \o Enqueue(f.files, q.depth + 1) \in Seq(Entry)
    <3>1. f.files \in Seq(STRING)
      BY <1>1, <2>3, WebsiteType DEF ReadOK, Skipped
    <3>2. q.depth + 1 \in 0..MaxDepth
      BY <1>1, <2>1, <2>3 DEF Descends
    <3>3. Enqueue(f.files, q.depth + 1) \in Seq(Entry)
      BY <3>1, <3>2, EnqueueType
    <3> QED BY <2>1, <3>3, ConcatProperties
  <2>4. ASSUME ~Skipped(q), NEW pages \in Keep(f.pages, Locations(f))
        PROVE  pages \subseteq Seq(Words)
    <3>1. f.pages \subseteq Seq(Words)
      BY <1>1, <2>4, WebsiteType DEF ReadOK, Skipped
    <3> QED BY <2>4, <3>1, KeepType
  <2>5. queue' \in Seq(Entry)
    BY <1>5, <2>1, <2>3 DEF ReadSitemap
  <2>6. kept' \subseteq Seq(Words)
    BY <1>1, <1>5, <2>4 DEF ReadSitemap, ReadOK
  <2>7. UNCHANGED <<site, pc, linked>>
    BY <1>5 DEF ReadSitemap
  <2>8. ReadOK'
    BY <1>1, <2>2, <2>5, <2>6, <2>7 DEF ReadOK
  <2> QED BY <1>3, <2>8 DEF Inv
<1>6. CASE SitemapsFail
  <2>1. ReadOK'
    BY <1>1, <1>6 DEF SitemapsFail, ReadOK
  <2> QED BY <1>3, <2>1 DEF Inv
<1>7. CASE SourceRaises
  <2>1. ReadOK'
    BY <1>1, <1>7 DEF SourceRaises, ReadOK, Stages
  <2> QED BY <1>3, <2>1 DEF Inv
<1> QED BY <1>4, <1>5, <1>6, <1>7

LEMMA ReadLinksKeepsInv == ASSUME Inv, ReadLinks PROVE Inv'
<1>1. /\ pc = "sitemaps" /\ pc' = "merge" /\ queue' = <<>>
      /\ linked' \in {{}, BestLinks(site.links)}
      /\ records' = Reports(kept) \cup {FromLinks(l) : l \in linked'}
      /\ UNCHANGED <<site, seen, kept, Rest>>
  BY DEF ReadLinks
<1>2. linked' \subseteq site.links
  BY <1>1 DEF BestLinks
<1>3. ReadOK'
  BY <1>1, <1>2 DEF Inv, ReadOK, Stages
<1>4. records' = All' /\ merged' = NoUrls
  BY <1>1 DEF Inv, MergeOK, Reading, Rest, All
<1>5. MergeOK'
  <2>1. records' \subseteq All' /\ All' \ records' = {}
    BY <1>4
  <2>2. DOMAIN merged' = {}
    BY <1>4 DEF NoUrls
  <2> QED BY <1>1, <2>1, <2>2 DEF MergeOK, Reading, IsUrls
<1>6. HeardOK' /\ DoneOK'
  BY <1>1 DEF Inv, HeardOK, DoneOK, Rest, Reading, NoUrls
<1> QED BY <1>3, <1>5, <1>6 DEF Inv

\* Whatever the preferred report is, what is merged is forced if both were
\* (_normalize_and_dedupe keeps the eligible candidate).
LEMMA MergeForced ==
    ASSUME NEW old \in Merged, NEW new \in Merged
    PROVE  /\ Merge(old, new) \in Merged
           /\ Merge(old, new).forced <=> (old.forced /\ new.forced)
<1> DEFINE best == IF Before(new, old) THEN new ELSE old
<1>1. best \in Merged /\ (best.forced <=> old.forced /\ new.forced)
  BY DEF Before, Merged
<1>2. Merge(old, new) = [best EXCEPT !.source =
                            IF SourceRank(new) < SourceRank(old) THEN new.source ELSE old.source]
  BY DEF Merge
<1>3. new.source \in {"SITEMAP", "LINKS"} /\ old.source \in {"SITEMAP", "LINKS"}
  BY DEF Merged
<1> HIDE DEF best
<1> QED BY <1>1, <1>2, <1>3 DEF Merged

LEMMA CandidateType ==
    ASSUME NEW r \in Report
    PROVE  Candidate(r) \in Merged /\ (Candidate(r).forced <=> IsForced(r))
<1>1. IsForced(r) \in BOOLEAN
  BY DEF IsForced, Report
<1> QED BY <1>1 DEF Candidate, Report, Merged

LEMMA MergeNextKeepsInv == ASSUME Inv, MergeNext PROVE Inv'
<1>1. /\ pc = "merge"
      /\ UNCHANGED <<site, pc, queue, seen, kept, linked, heard, llm, verdict>>
  BY DEF MergeNext
<1>2. ReadOK' /\ HeardOK' /\ DoneOK'
  <2>1. heard = NoUrls
    BY <1>1 DEF Inv, HeardOK
  <2> QED BY <1>1, <2>1 DEF Inv, ReadOK, HeardOK, DoneOK, NoUrls
<1>3. PICK r \in records :
          /\ records' = records \ {r}
          /\ merged' = IF IsSystemPath(NormalizeUrl(r.path)) THEN merged
                       ELSE [x \in DOMAIN merged \cup {NormalizeUrl(r.path)} |->
                                IF x # NormalizeUrl(r.path) THEN merged[x]
                                ELSE IF NormalizeUrl(r.path) \in DOMAIN merged
                                THEN Merge(merged[NormalizeUrl(r.path)], Candidate(r))
                                ELSE Candidate(r)]
  BY DEF MergeNext
<1>a. PICK u, c : u = NormalizeUrl(r.path) /\ c = Candidate(r)
  OBVIOUS
<1>4. All' = All
  BY <1>1 DEF All
<1>b. PICK A, done : A = All /\ done = All \ records
  OBVIOUS
<1>5. /\ records \subseteq A /\ r \in A /\ r \in Report
      /\ DOMAIN merged = {v \in {NormalizeUrl(o.path) : o \in done} : ~IsSystemPath(v)}
      /\ \A v \in DOMAIN merged :
            merged[v] \in Merged /\ (merged[v].forced <=> \A o \in Of(v, done) : IsForced(o))
  BY <1>1, <1>3, <1>b, ReportTypes DEF Inv, MergeOK, Merging, IsUrls
<1>6. All' \ records' = done \cup {r}
  BY <1>3, <1>4, <1>5, <1>b
<1>7. records' \subseteq All'
  BY <1>3, <1>4, <1>5, <1>b
<1>8. DOMAIN merged' = {v \in {NormalizeUrl(o.path) : o \in done \cup {r}} : ~IsSystemPath(v)}
  <2>1. {v \in {NormalizeUrl(o.path) : o \in done \cup {r}} : ~IsSystemPath(v)}
            = {v \in {NormalizeUrl(o.path) : o \in done} \cup {u} : ~IsSystemPath(v)}
    BY <1>a
  <2> QED BY <1>3, <1>5, <1>a, <2>1
<1>9. ASSUME NEW v \in DOMAIN merged'
      PROVE  /\ merged'[v] \in Merged
             /\ merged'[v].forced <=> (\A o \in Of(v, done \cup {r}) : IsForced(o))
  <2>1. CASE v # u
    <3>1. Of(v, done \cup {r}) = Of(v, done)
      BY <1>a, <2>1 DEF Of
    <3>2. v \in DOMAIN merged /\ merged'[v] = merged[v]
      BY <1>3, <1>9, <1>a, <2>1
    <3> QED BY <1>5, <3>1, <3>2
  <2>2. CASE v = u
    <3>1. Of(u, done \cup {r}) = Of(u, done) \cup {r} /\ c \in Merged /\ (c.forced <=> IsForced(r))
          /\ ~IsSystemPath(u)
      BY <1>5, <1>8, <1>9, <1>a, <2>2, CandidateType DEF Of
    <3>2. CASE u \in DOMAIN merged
      <4>1. merged'[u] = Merge(merged[u], c)
        BY <1>3, <1>a, <3>1, <3>2
      <4>2. merged'[u] \in Merged /\ (merged'[u].forced <=> merged[u].forced /\ c.forced)
        BY <1>5, <3>1, <3>2, <4>1, MergeForced
      <4> QED BY <1>5, <2>2, <3>1, <3>2, <4>2
    <3>3. CASE u \notin DOMAIN merged
      <4>1. merged'[u] = c
        BY <1>3, <1>a, <3>1, <3>3
      <4>2. Of(u, done) = {}
        BY <1>5, <3>1, <3>3 DEF Of
      <4> QED BY <2>2, <3>1, <4>1, <4>2
    <3> QED BY <3>2, <3>3
  <2> QED BY <2>1, <2>2
<1>10. MergeOK'
  <2>1. pc' = "merge"
    BY <1>1
  <2>2. DOMAIN merged' \subseteq Seq(Words)
    <3>1. \A o \in done \cup {r} : NormalizeUrl(o.path) \in Seq(Words)
      BY <1>5, <1>b, ReportTypes, NormalizedPath DEF Report
    <3> QED BY <1>8, <3>1
  <2>3. IsUrls(merged', Merged)
    BY <1>9, <2>2 DEF IsUrls
  <2> QED BY <1>6, <1>7, <1>8, <1>9, <2>1, <2>3 DEF MergeOK, Reading, Merging, Of
<1> QED BY <1>2, <1>10 DEF Inv

LEMMA GateKeepsInv ==
    ASSUME Inv, MergeDone \/ Probe \/ ProbeRaises
    PROVE  Inv'
<1>1. /\ pc \in {"merge", "gate"} /\ pc' \in {"gate", "failed"} /\ records = {}
      /\ UNCHANGED <<site, queue, seen, kept, linked, records, merged, llm, verdict>>
  BY DEF Inv, MergeOK, MergeDone, Probe, ProbeRaises
<1>2. ReadOK'
  BY <1>1 DEF Inv, ReadOK, Stages
<1>3. MergeOK'
  <2>1. All' = All
    BY <1>1 DEF All
  <2> QED BY <1>1, <2>1 DEF Inv, MergeOK, Reading, Merging, Of, IsUrls
<1>4. DoneOK'
  BY <1>1 DEF Inv, DoneOK
<1>5. HeardOK'
  <2>1. CASE MergeDone
    <3>1. heard' = [u \in DOMAIN merged |-> <<>>] /\ merged' = merged /\ pc' = "gate"
      BY <2>1 DEF MergeDone
    <3>2. <<>> \in Seq(Answers) /\ Len(<<>>) <= Attempts
      BY EmptySeq, PipelineAssumption
    <3> QED BY <3>1, <3>2 DEF HeardOK, Reading
  <2>2. CASE Probe
    <3>1. PICK u \in DOMAIN merged, a \in Answers :
              heard' = [heard EXCEPT ![u] = IF Len(@) < Attempts THEN Append(@, a)
                                            ELSE Append(Tail(@), a)]
      BY <2>2 DEF Probe, Unsettled
    <3>2. DOMAIN heard = DOMAIN merged /\ pc = "gate" /\ pc' = "gate"
      BY <2>2 DEF Probe, Inv, HeardOK
    <3>3. heard[u] \in Seq(Answers) /\ Len(heard[u]) <= Attempts /\ Len(heard[u]) \in Nat
          /\ Attempts \in Nat /\ Attempts # 0
      BY <3>1, <3>2, PipelineAssumption DEF Inv, HeardOK
    <3>4. heard'[u] \in Seq(Answers) /\ Len(heard'[u]) <= Attempts
      <4>1. CASE Len(heard[u]) < Attempts
        <5>1. heard'[u] = Append(heard[u], a)
          BY <3>1, <3>2, <4>1
        <5> QED BY <3>1, <3>3, <4>1, <5>1, AppendProperties
      <4>2. CASE ~(Len(heard[u]) < Attempts)
        <5>1. heard'[u] = Append(Tail(heard[u]), a)
          BY <3>1, <3>2, <4>2
        <5>2. Tail(heard[u]) \in Seq(Answers) /\ Len(Tail(heard[u])) = Len(heard[u]) - 1
          BY <3>3, <4>2, HeadTailProperties
        <5> QED BY <3>1, <3>3, <5>1, <5>2, AppendProperties
      <4> QED BY <4>1, <4>2
    <3>5. \A v \in DOMAIN heard' : v # u => heard'[v] = heard[v]
      BY <3>1
    <3>6. DOMAIN heard' = DOMAIN merged'
      BY <1>1, <3>1, <3>2
    <3> QED BY <1>1, <3>2, <3>4, <3>5, <3>6 DEF Inv, HeardOK, Reading
  <2>3. CASE ProbeRaises
    BY <2>3 DEF ProbeRaises, Inv, HeardOK, Reading
  <2> QED BY <2>1, <2>2, <2>3
<1> QED BY <1>2, <1>3, <1>4, <1>5 DEF Inv

LEMMA ClassifyKeepsInv == ASSUME Inv, Classify PROVE Inv'
<1>1. /\ pc = "gate" /\ pc' = "done" /\ Unsettled = {}
      /\ llm' \in [Unresolved -> {"SUGGESTED", "DISCARDED"}] \cup {NoUrls}
      /\ verdict' = [u \in Classified |-> Status(u, llm')]
      /\ UNCHANGED <<site, queue, seen, kept, linked, records, merged, heard>>
  BY DEF Classify
<1>2. ReadOK' /\ HeardOK'
  BY <1>1 DEF Inv, ReadOK, HeardOK, Stages, Reading
<1>3. MergeOK'
  <2>1. All' = All
    BY <1>1 DEF All
  <2> QED BY <1>1, <2>1 DEF Inv, MergeOK, Reading, Merging, Of, IsUrls
<1>4. DoneOK'
  <2>1. ASSUME NEW u PROVE Forced(u)' = Forced(u)
    BY <1>1 DEF Forced, IsDead
  <2>2. Unsettled' = Unsettled /\ Classified' = Classified
    BY <1>1 DEF Unsettled, Settled, Classified
  <2>3. Unresolved' = Unresolved
    BY <2>1, <2>2 DEF Unresolved
  <2>4. ASSUME NEW u PROVE Status(u, llm)' = Status(u, llm')
    BY <2>1 DEF Status
  <2> QED BY <1>1, <2>2, <2>3, <2>4 DEF DoneOK
<1> QED BY <1>2, <1>3, <1>4 DEF Inv

LEMMA StepKeepsInv == Inv /\ [Next]_vars => Inv'
<1> SUFFICES ASSUME Inv, [Next]_vars PROVE Inv'
  OBVIOUS
<1>1. CASE UNCHANGED vars
  <2>1. UNCHANGED <<site, pc, queue, seen, kept, linked, records, merged, heard, llm, verdict>>
    BY <1>1 DEF vars
  <2>2. ReadOK' /\ HeardOK'
    BY <2>1 DEF Inv, ReadOK, HeardOK
  <2>3. MergeOK'
    BY <2>1 DEF Inv, MergeOK, Of, All, IsUrls
  <2>4. DoneOK'
    BY <2>1 DEF Inv, DoneOK, Unsettled, Settled, Unresolved, Classified, Status, Forced,
                IsDead
  <2> QED BY <2>2, <2>3, <2>4 DEF Inv
<1> QED BY <1>1, ReadingKeepsInv, ReadLinksKeepsInv, MergeNextKeepsInv, GateKeepsInv,
           ClassifyKeepsInv DEF Next

-----------------------------------------------------------------------------
(* The properties.                                                         *)

LEMMA InvTypes == Inv => TypeOK
<1> SUFFICES ASSUME Inv PROVE TypeOK
  OBVIOUS
<1>1. MergeOK /\ ReadOK /\ HeardOK /\ DoneOK
  BY DEF Inv
<1>2. /\ site \in Websites /\ pc \in Stages /\ Cardinality(seen) <= MaxSitemaps
      /\ kept \subseteq Seq(Words) /\ linked \subseteq site.links
      /\ \A i \in DOMAIN queue : queue[i].depth \in 0..MaxDepth
  <2>1. queue \in Seq([file : STRING, depth : 0..MaxDepth])
    BY <1>1 DEF ReadOK
  <2>2. ASSUME NEW i \in DOMAIN queue PROVE queue[i].depth \in 0..MaxDepth
    <3>1. i \in 1..Len(queue)
      BY <2>1
    <3>2. queue[i] \in [file : STRING, depth : 0..MaxDepth]
      BY <2>1, <3>1, ElementOfSeq
    <3> QED BY <3>2
  <2> QED BY <1>1, <2>2 DEF ReadOK
<1>3. All \subseteq Report /\ \A r \in Report : NormalizeUrl(r.path) \in Seq(Words)
  BY ReportTypes, NormalizedPath DEF Report
<1>4. records \subseteq Report
  BY <1>1, <1>3 DEF MergeOK
<1>5. IsUrls(merged, [forced : BOOLEAN, source : {"SITEMAP", "LINKS"}, priority : 0..3])
  BY <1>1 DEF MergeOK, Merged
<1>6. IsUrls(heard, UNION {[1..n -> Answers] : n \in 0..Attempts})
  <2>1. DOMAIN heard \subseteq DOMAIN merged
    BY <1>1 DEF HeardOK
  <2>2. ASSUME NEW u \in DOMAIN heard
        PROVE  heard[u] \in UNION {[1..n -> Answers] : n \in 0..Attempts}
    <3>1. /\ heard[u] \in [1..Len(heard[u]) -> Answers] /\ Len(heard[u]) \in Nat
          /\ Len(heard[u]) <= Attempts
      BY <1>1 DEF HeardOK
    <3>2. Len(heard[u]) \in 0..Attempts
      BY <3>1, PipelineAssumption
    <3> QED BY <3>1, <3>2
  <2> QED BY <1>5, <2>1, <2>2 DEF IsUrls
<1>7. IsUrls(llm, {"SUGGESTED", "DISCARDED"}) /\ IsUrls(verdict, {"SUGGESTED", "DISCARDED"})
  <2>1. CASE pc # "done"
    BY <1>1, <2>1 DEF DoneOK, IsUrls, NoUrls
  <2>2. CASE pc = "done"
    <3>1. Unresolved \subseteq Classified /\ Classified \subseteq Seq(Words)
      BY <1>5 DEF Unresolved, Classified, IsUrls
    <3>2. IsUrls(llm, {"SUGGESTED", "DISCARDED"})
      BY <1>1, <2>2, <3>1 DEF DoneOK, IsUrls, NoUrls
    <3>3. \A u : Status(u, llm) \in {"SUGGESTED", "DISCARDED"}
      BY <3>2 DEF IsUrls, Status
    <3> QED BY <1>1, <2>2, <3>1, <3>2, <3>3 DEF DoneOK, IsUrls
  <2> QED BY <2>1, <2>2
<1> QED BY <1>2, <1>4, <1>5, <1>6, <1>7 DEF TypeOK, Report, Stages

\* Only as many answers as there are attempts, all 404 or 410, make an index dead.
LEMMA DeadIsConfirmed ==
    ASSUME Inv, NEW u \in DOMAIN heard
    PROVE  (Scope(u) = "INDEX" /\ IsDead(u)) <=> ConfirmedDead(u)
<1>1. heard[u] \in Seq(Answers)
  BY DEF Inv, HeardOK
<1>2. Attempts \in Nat
  BY PipelineAssumption
<1>3. IsDead(u) => heard[u] = [i \in 1..Attempts |-> "gone"]
  BY <1>1, <1>2 DEF IsDead
<1>4. ASSUME heard[u] = [i \in 1..Attempts |-> "gone"] PROVE IsDead(u)
  <2>1. DOMAIN heard[u] = 1..Attempts
    BY <1>4
  <2>2. Len(heard[u]) = Attempts
    BY <1>1, <1>2, <2>1
  <2>3. \A i \in DOMAIN heard[u] : heard[u][i] = "gone"
    BY <1>4
  <2> QED BY <2>2, <2>3 DEF IsDead
<1> QED BY <1>3, <1>4 DEF ConfirmedDead

LEMMA InvVerdicts == Inv => VerdictsFollowEvidence
<1> SUFFICES ASSUME Inv, pc = "done"
             PROVE  /\ DOMAIN verdict = {u \in Found : ~IsExcluded(u) /\ ~IsSystemPath(u)}
                    /\ DOMAIN llm \in {{}, Doubtful}
                    /\ {u \in DOMAIN verdict : verdict[u] = "SUGGESTED"} =
                          (Eligible \ Doubtful) \cup {u \in DOMAIN llm : llm[u] = "SUGGESTED"}
  BY DEF VerdictsFollowEvidence
<1>1. /\ records = {} /\ DOMAIN merged = {u \in Found : ~IsSystemPath(u)}
      /\ \A u \in DOMAIN merged : merged[u].forced <=> ~HasEvidence(u)
  <2>1. /\ records = {}
        /\ DOMAIN merged = {u \in {NormalizeUrl(r.path) : r \in All \ records} :
                               ~IsSystemPath(u)}
        /\ \A u \in DOMAIN merged :
              merged[u].forced <=> (\A r \in Of(u, All \ records) : IsForced(r))
    BY DEF Inv, MergeOK, Merging
  <2>2. All \ records = All
    BY <2>1
  <2>3. DOMAIN merged = {u \in Found : ~IsSystemPath(u)}
    BY <2>1, <2>2, FoundAreReported
  <2>4. ASSUME NEW u \in DOMAIN merged PROVE merged[u].forced <=> ~HasEvidence(u)
    <3>1. merged[u].forced <=> \A r \in Of(u, All) : IsForced(r)
      BY <2>1, <2>2
    <3> QED BY <3>1, EvidenceIsUnforced
  <2> QED BY <2>1, <2>3, <2>4
<1>2. Classified = {u \in Found : ~IsExcluded(u) /\ ~IsSystemPath(u)}
  BY <1>1 DEF Classified
<1>3. ASSUME NEW u \in Classified PROVE Forced(u) <=> u \notin Eligible
  <2>1. u \in DOMAIN merged /\ u \in DOMAIN heard
    BY DEF Classified, Inv, HeardOK
  <2>2. Forced(u) <=> ~HasEvidence(u) \/ ConfirmedDead(u)
    BY <1>1, <2>1, DeadIsConfirmed DEF Forced
  <2>3. u \in Eligible <=> HasEvidence(u) /\ ~ConfirmedDead(u)
    BY <1>2 DEF Eligible
  <2> QED BY <2>2, <2>3
<1>4. Eligible \subseteq Classified
  BY <1>2 DEF Eligible
<1>5. Unresolved = Doubtful
  BY <1>3, <1>4 DEF Unresolved, Doubtful
<1>6. /\ llm \in [Doubtful -> {"SUGGESTED", "DISCARDED"}] \cup {NoUrls}
      /\ verdict = [u \in Classified |-> Status(u, llm)]
  BY <1>5 DEF Inv, DoneOK
<1>7. DOMAIN llm \in {{}, Doubtful} /\ DOMAIN verdict = Classified
  BY <1>6 DEF NoUrls
<1>8. ASSUME NEW u \in Classified
      PROVE  Status(u, llm) = "SUGGESTED" <=>
                 \/ u \in Eligible \ Doubtful
                 \/ u \in DOMAIN llm /\ llm[u] = "SUGGESTED"
  <2>1. CASE Forced(u)
    <3>1. u \notin Eligible /\ u \notin DOMAIN llm
      BY <1>3, <1>7, <2>1 DEF Doubtful
    <3>2. Status(u, llm) = "DISCARDED"
      BY <2>1, <3>1 DEF Status
    <3> QED BY <3>1, <3>2
  <2>2. CASE ~Forced(u) /\ SuggestedByRule(u)
    <3>1. u \in Eligible \ Doubtful /\ u \notin DOMAIN llm
      BY <1>3, <1>7, <2>2 DEF Doubtful
    <3>2. Status(u, llm) = "SUGGESTED"
      BY <2>2, <3>1 DEF Status
    <3> QED BY <3>1, <3>2
  <2>3. CASE ~Forced(u) /\ ~SuggestedByRule(u)
    <3>1. u \in Doubtful
      BY <1>3, <2>3 DEF Doubtful
    <3>2. Status(u, llm) = IF u \in DOMAIN llm THEN llm[u] ELSE "DISCARDED"
      BY <2>3 DEF Status
    <3> QED BY <3>1, <3>2
  <2> QED BY <2>1, <2>2, <2>3
<1>9. {u \in DOMAIN verdict : verdict[u] = "SUGGESTED"} =
          (Eligible \ Doubtful) \cup {u \in DOMAIN llm : llm[u] = "SUGGESTED"}
  <2>1. DOMAIN llm \subseteq Classified
    BY <1>4, <1>7 DEF Doubtful
  <2>2. \A u \in Classified : verdict[u] = Status(u, llm)
    BY <1>6
  <2> QED BY <1>4, <1>7, <1>8, <2>1, <2>2
<1> QED BY <1>2, <1>7, <1>9

LEMMA SpecInv == Spec => []Inv
BY InitInv, StepKeepsInv, PTL DEF Spec

-----------------------------------------------------------------------------

\* Every variable of the pipeline stays in its type: what is queued, sampled and cut
\* out of a url are paths, and no index is asked more often than it has attempts
\* (_confirm_liveness).
THEOREM TypesAreKept == Spec => []TypeOK
BY SpecInv, InvTypes, PTL

\* A run suggests what has evidence and no rule is in doubt about, and asks the
\* fallback about exactly the others with evidence: for every website, in whatever
\* order the reports are merged, whatever was sampled and whatever failed
\* (_normalize_and_dedupe, _apply_liveness_gate and classify of discovery).
THEOREM EvidenceDecides == Spec => []VerdictsFollowEvidence
BY SpecInv, InvVerdicts, PTL
=============================================================================
