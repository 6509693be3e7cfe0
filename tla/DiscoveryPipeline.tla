------------------------- MODULE DiscoveryPipeline -------------------------
(***************************************************************************)
(* What one discovery run makes of a website: _discover_website_impl with  *)
(* its sources, the normalisation, the merge of what the sources report,   *)
(* the liveness gate and the classification.  Runs next to each other, and *)
(* next to users, are the subject of DiscoveryRuns and Targets.            *)
(*                                                                         *)
(* A url is its path, a sequence of words; what the patterns of            *)
(* normalization.py say about a word is given by the set it is in.  The    *)
(* website is chosen at the start and answers each request or fails.       *)
(* Titles, page types, raw urls, queries and the order within a source     *)
(* are left out; candidates are sets where the code has lists.             *)
(*                                                                         *)
(* A definition that no other one uses (FirstWins, DeadOnLast, ...) is a   *)
(* deliberate mutation of the definition below it.                         *)
(***************************************************************************)
EXTENDS Naturals, Sequences, FiniteSets

CONSTANTS
    IndexWords,     \* INDEX_TYPE_VARIANTS
    ItemWords,      \* ITEM_TYPE_PATTERNS
    RuleItems,      \* those of them that classify_by_rules knows
    LeafRoots,      \* the root in ITEM_TYPE_EXCLUSION_PATTERNS
    LocaleWords, DynamicWords, SystemWords, PlainWords,
    Aliases,        \* INDEX_PATH_ALIASES, a function
    Websites,       \* the websites an instance includes
    MaxSitemaps, MaxDepth, Threshold, SampleSize,   \* settings of SitemapSource
    Attempts,       \* liveness_attempts
    None

Words == IndexWords \cup ItemWords \cup LocaleWords \cup DynamicWords
         \cup SystemWords \cup PlainWords

\* A website: its sitemap files by name, the files that are always tried, those that
\* robots.txt declares, and the links of its homepage with their priority (0 in nav,
\* 1 in header, 2 in footer, 3 in the body).  A file is an index of files, of which the
\* urls of some could be those of pages, or a set of pages; some families of files are
\* never read.
ASSUME PipelineAssumption ==
    /\ RuleItems \subseteq ItemWords /\ LeafRoots \subseteq ItemWords
    /\ DOMAIN Aliases \subseteq IndexWords
    /\ \A w \in DOMAIN Aliases : Aliases[w] \in IndexWords
    /\ \A w \in Websites :
          /\ \A f \in DOMAIN w.files :
                /\ w.files[f].pages \subseteq Seq(Words)
                /\ \/ w.files[f].kind = "index" /\ w.files[f].files \in Seq(STRING)
                   \/ w.files[f].kind = "pages"
          /\ w.usual \in Seq(STRING) /\ w.declared \in Seq(STRING)
          /\ w.links \subseteq (Seq(Words) \ {<<>>}) \X (0..3)
    /\ MaxSitemaps \in Nat /\ MaxDepth \in Nat
    /\ Threshold \in Nat \ {0} /\ SampleSize \in Nat \ {0}
    /\ Attempts \in Nat \ {0, 1}

VARIABLES
    site,       \* the website, and whether its robots.txt could be read
    pc,         \* the next stage of the run
    queue,      \* sitemaps to read, with their depth
    seen,       \* the sitemaps taken from the queue
    kept,       \* the page locations that the sitemap source keeps
    linked,     \* the links that the link source found
    records,    \* reports of the sources that are not merged yet
    merged,     \* by url: the candidate made of the reports so far
    heard,      \* by url: the answers to the liveness checks
    llm,        \* by url: the answers of the fallback classifier
    verdict     \* by url: the discovery_status that is stored

vars == <<site, pc, queue, seen, kept, linked, records, merged, heard, llm, verdict>>

NoUrls == [u \in {} |-> None]

Init ==
    /\ site \in Websites
    /\ pc = "robots"
    /\ queue = <<>> /\ seen = {} /\ kept = {} /\ linked = {} /\ records = {}
    /\ merged = NoUrls /\ heard = NoUrls /\ llm = NoUrls /\ verdict = NoUrls

-----------------------------------------------------------------------------
(* Paths (normalization.py).                                               *)

Last(p) == p[Len(p)]

\* The position of an index word: in front, or behind a locale; 0 if there is none.
IndexPosition(p) ==
    IF p # <<>> /\ p[1] \in IndexWords THEN 1
    ELSE IF Len(p) > 1 /\ p[1] \in LocaleWords /\ p[2] \in IndexWords THEN 2 ELSE 0

IsItem(p) == p # <<>> /\ p[1] \in ItemWords

Alias(p) == IF p # <<>> /\ p[1] \in DOMAIN Aliases
            THEN [p EXCEPT ![1] = Aliases[p[1]]] ELSE p

\* normalize_url: an index path ends at its index word; elsewhere, except below an
\* item root, one dynamic word is cut off.
NormalizeUrl(p) ==
    LET i == IndexPosition(p)
    IN  Alias(IF i \in 1 .. Len(p) - 1 THEN SubSeq(p, 1, i)
              ELSE IF p # <<>> /\ ~IsItem(p) /\ Last(p) \in DynamicWords
              THEN SubSeq(p, 1, Len(p) - 1) ELSE p)

Scope(p) ==
    CASE p = <<>>            -> "SECTION"
      [] IndexPosition(p) # 0 -> "INDEX"
      [] IndexPosition(p) = 0 /\ IsItem(p) -> "ITEM"
      [] IndexPosition(p) = 0 /\ ~IsItem(p) /\ Len(p) = 1 -> "SECTION"
      [] OTHER               -> "UNMATCHED"

IsStructural(p) == p = <<>> \/ IndexPosition(p) # 0 \/ IsItem(p)
IsExcluded(p) == Len(p) = 3 /\ p[1] \in LeafRoots
IsSystemPath(p) == \E i \in DOMAIN p : p[i] \in SystemWords

-----------------------------------------------------------------------------
(* The sources (sources.py).                                               *)

Rest == <<llm, verdict, heard, merged>>

Enqueue(names, depth) == [i \in DOMAIN names |-> [file |-> names[i], depth |-> depth]]

\* _safe_sitemap_declarations: without robots.txt nothing is declared.
ReadRobots ==
    /\ pc = "robots"
    /\ \E declared \in {site.declared, <<>>} :
          queue' = Enqueue(site.usual \o declared, 0)
    /\ pc' = "sitemaps"
    /\ UNCHANGED <<site, seen, kept, linked, records, Rest>>

\* The pages of a file that are kept: structural ones, and of the others a sample if
\* the file has many locations.
Unstructured(pages) == {p \in pages : Scope(p) = "UNMATCHED" \/ ~IsStructural(p)}

Keep(pages, locations) ==
    IF locations <= Threshold THEN {pages}
    ELSE LET loose == Unstructured(pages)
             size == IF Cardinality(loose) < SampleSize THEN Cardinality(loose) ELSE SampleSize
         IN  {(pages \ loose) \cup s : s \in {x \in SUBSET loose : Cardinality(x) = size}}

\* The locations of an index that is too deep are taken for pages; is_html_candidate_url
\* drops those that end like a file, as .xml does, but not, say, a bare /sitemap.
DescendsOneMore(q) == q.depth <= MaxDepth
Descends(q) == q.depth < MaxDepth

Locations(f) == IF f.kind = "index" THEN Len(f.files) ELSE Cardinality(f.pages)

Skipped(q) == q.file \in seen \cup site.ignored \/ q.file \notin DOMAIN site.files

\* One turn of the loop in SitemapSource.discover.
ReadSitemap ==
    /\ pc = "sitemaps"
    /\ queue # <<>> /\ Cardinality(seen) < MaxSitemaps
    /\ LET q == Head(queue)
           f == site.files[q.file]
       IN  /\ seen' = seen \cup {q.file}
           /\ \/ queue' = Tail(queue) /\ UNCHANGED kept     \* skipped, or not to be had
              \/ /\ ~Skipped(q)
                 /\ f.kind = "index" /\ Descends(q)
                 /\ queue' = Tail(queue) \o Enqueue(f.files, q.depth + 1)
                 /\ UNCHANGED kept
              \/ /\ ~Skipped(q)
                 /\ f.kind = "index" => ~Descends(q)
                 /\ queue' = Tail(queue)
                 /\ \E pages \in Keep(f.pages, Locations(f)) : kept' = kept \cup pages
    /\ UNCHANGED <<site, pc, linked, records, Rest>>

\* What the sitemap source reports of a location: its url is normalised already, and
\* it is forced if the location was below anything known.
FromSitemap(p) == [path |-> NormalizeUrl(p), source |-> "SITEMAP", priority |-> 1,
                   forced |-> Scope(p) = "UNMATCHED"]
FromLinks(l) == [path |-> l[1], source |-> "LINKS", priority |-> l[2], forced |-> FALSE]

\* dedupe_discovered_urls: of several links to one page the most prominent counts.
BestLinks(links) == {l \in links : \A o \in links : o[1] = l[1] => l[2] <= o[2]}

\* dedupe_discovered_urls: a url is forced if each of its locations is.
Reports(pages) ==
    {r \in {FromSitemap(p) : p \in pages} :
        \A o \in {FromSitemap(p) : p \in pages} : o.path = r.path /\ r.forced => o.forced}

\* _safe_sitemap_discovery: a source that raises has reported nothing.
SitemapsFail ==
    /\ pc = "sitemaps"
    /\ queue' = <<>> /\ kept' = {}
    /\ UNCHANGED <<site, pc, seen, linked, records, Rest>>

\* Any other exception of a source than a DiscoveryFetchError or a ValueError ends the
\* run.
SourceRaises ==
    /\ pc \in {"robots", "sitemaps"}
    /\ pc' = "failed"
    /\ UNCHANGED <<site, queue, seen, kept, linked, records, Rest>>

\* The homepage may be down.
ReadLinks ==
    /\ pc = "sitemaps"
    /\ queue = <<>> \/ Cardinality(seen) >= MaxSitemaps
    /\ queue' = <<>>
    /\ linked' \in {{}, BestLinks(site.links)}
    /\ records' = Reports(kept) \cup {FromLinks(l) : l \in linked'}
    /\ pc' = "merge"
    /\ UNCHANGED <<site, seen, kept, Rest>>

-----------------------------------------------------------------------------
(* One candidate per url (_normalize_and_dedupe).                          *)

\* A report is forced by its source, by its path, or as a link outside the navigation
\* that no pattern knows.
IsForced(r) ==
    \/ r.forced
    \/ Scope(r.path) = "UNMATCHED"
    \/ IsExcluded(r.path)
    \/ r.source = "LINKS" /\ r.priority >= 2 /\ ~IsStructural(r.path)

Candidate(r) == [forced |-> IsForced(r), source |-> r.source, priority |-> r.priority]

\* The preferred report: one that is not forced, then a sitemap's, then by priority.
SourceRank(c) == IF c.source = "SITEMAP" THEN 0 ELSE 1
Before(a, b) ==
    \/ ~a.forced /\ b.forced
    \/ a.forced = b.forced /\ SourceRank(a) < SourceRank(b)
    \/ a.forced = b.forced /\ SourceRank(a) = SourceRank(b) /\ a.priority < b.priority

FirstWins(old, new) == old
Merge(old, new) ==
    LET best == IF Before(new, old) THEN new ELSE old
    IN  [best EXCEPT !.source = IF SourceRank(new) < SourceRank(old) THEN new.source
                                                                     ELSE old.source]

\* Sitemap reports come first; the order among them is any.
MergeNext ==
    /\ pc = "merge"
    /\ \E r \in records :
          LET u == NormalizeUrl(r.path)
              c == Candidate(r)
          IN  /\ r.source = "LINKS" => \A o \in records : o.source = "LINKS"
              /\ records' = records \ {r}
              /\ merged' = IF IsSystemPath(u) THEN merged
                           ELSE [x \in DOMAIN merged \cup {u} |->
                                   IF x # u THEN merged[x]
                                   ELSE IF u \in DOMAIN merged THEN Merge(merged[u], c)
                                   ELSE c]
    /\ UNCHANGED <<site, pc, queue, seen, kept, linked, heard, llm, verdict>>

MergeDone ==
    /\ pc = "merge" /\ records = {}
    /\ heard' = [u \in DOMAIN merged |-> <<>>]
    /\ pc' = "gate"
    /\ UNCHANGED <<site, queue, seen, kept, linked, records, merged, llm, verdict>>

-----------------------------------------------------------------------------
(* The liveness gate (_apply_liveness_gate).                               *)

Answers == {"live", "gone", "unclear"}      \* gone: 404 or 410

RetriesUnclear(u) ==
    \/ Scope(u) # "INDEX"
    \/ heard[u] # <<>> /\ Last(heard[u]) = "live"
    \/ Cardinality({i \in DOMAIN heard[u] : heard[u][i] = "gone"}) >= Attempts
Settled(u) ==
    \/ Scope(u) # "INDEX"
    \/ heard[u] # <<>> /\ Last(heard[u]) = "live"
    \/ Len(heard[u]) >= Attempts

DeadOnLast(u) == heard[u] # <<>> /\ Last(heard[u]) = "gone"
IsDead(u) == /\ Len(heard[u]) = Attempts
             /\ \A i \in DOMAIN heard[u] : heard[u][i] = "gone"

Unsettled == {u \in DOMAIN merged : ~Settled(u)}

\* _confirm_liveness: one more attempt for the url that is being looked at.  Answers
\* after the last one are not needed; a long sequence of them is cut.
Probe ==
    /\ pc = "gate"
    /\ Unsettled # {}
    /\ LET u == CHOOSE x \in Unsettled : TRUE
       IN  \E a \in Answers :
              heard' = [heard EXCEPT ![u] = IF Len(@) < Attempts THEN Append(@, a)
                                            ELSE Append(Tail(@), a)]
    /\ UNCHANGED <<site, pc, queue, seen, kept, linked, records, merged, llm, verdict>>

\* Anything but a MonitoringError or a ValueError ends the run.
ProbeRaises ==
    /\ pc = "gate"
    /\ Unsettled # {}
    /\ pc' = "failed"
    /\ UNCHANGED <<site, queue, seen, kept, linked, records, merged, heard, llm, verdict>>

-----------------------------------------------------------------------------
(* The classification (classification.py) and what is stored.              *)

\* classify_by_rules: by the last word, or by the root of an item.
SuggestedByRule(u) == u # <<>> /\ (Last(u) \in IndexWords \/ u[1] \in RuleItems)

Forced(u) == merged[u].forced \/ (Scope(u) = "INDEX" /\ IsDead(u))

\* Item pages are left out; they are neither classified nor stored.
Classified == {u \in DOMAIN merged : ~IsExcluded(u)}
Unresolved == {u \in Classified : ~Forced(u) /\ ~SuggestedByRule(u)}

\* The fallback answers for exactly the unresolved urls; a failure or anything else
\* counts as DISCARDED for each of them.
Status(u, answers) ==
    CASE Forced(u)                            -> "DISCARDED"
      [] ~Forced(u) /\ SuggestedByRule(u)     -> "SUGGESTED"
      [] u \in DOMAIN answers                 -> answers[u]
      [] OTHER                                -> "DISCARDED"

\* The upserts follow one by one (module Targets), the purge last.
Classify ==
    /\ pc = "gate"
    /\ Unsettled = {}
    /\ llm' \in [Unresolved -> {"SUGGESTED", "DISCARDED"}] \cup {NoUrls}
    /\ verdict' = [u \in Classified |-> Status(u, llm')]
    /\ pc' = "done"
    /\ UNCHANGED <<site, queue, seen, kept, linked, records, merged, heard>>

Next ==
    \/ ReadRobots \/ ReadSitemap \/ SitemapsFail \/ SourceRaises \/ ReadLinks
    \/ MergeNext \/ MergeDone \/ Probe \/ ProbeRaises \/ Classify

Spec == Init /\ [][Next]_vars

\* The request goes on until it ends (discover_website); there is nobody to wait for.
FairSpec == Spec /\ WF_vars(Next)

-----------------------------------------------------------------------------
(* Properties.                                                             *)

IsUrls(f, type) == /\ DOMAIN f \subseteq Seq(Words)
                   /\ \A u \in DOMAIN f : f[u] \in type

\* Every variable stays within its type; a candidate's sources are known, and no
\* liveness check is made more often than it has attempts.
TypeOK ==
    /\ site \in Websites
    /\ pc \in {"robots", "sitemaps", "merge", "gate", "done", "failed"}
    /\ \A i \in DOMAIN queue : queue[i].depth \in 0..MaxDepth
    /\ Cardinality(seen) <= MaxSitemaps
    /\ kept \subseteq Seq(Words) /\ linked \subseteq site.links
    /\ \A r \in records : r.path \in Seq(Words) /\ r.forced \in BOOLEAN
    /\ IsUrls(merged, [forced : BOOLEAN, source : {"SITEMAP", "LINKS"}, priority : 0..3])
    /\ IsUrls(heard, UNION {[1..n -> Answers] : n \in 0..Attempts})
    /\ IsUrls(llm, {"SUGGESTED", "DISCARDED"})
    /\ IsUrls(verdict, {"SUGGESTED", "DISCARDED"})

\* Where a url was found, and nothing spoke against it there: the location itself is
\* in scope, and a link is in the navigation or structural.
HasEvidence(u) ==
    \/ \E p \in kept :
          LET n == NormalizeUrl(p)
          IN  /\ NormalizeUrl(n) = u
              /\ "UNMATCHED" \notin {Scope(p), Scope(n)} /\ ~IsExcluded(n)
    \/ \E l \in linked :
          /\ NormalizeUrl(l[1]) = u
          /\ Scope(l[1]) # "UNMATCHED" /\ ~IsExcluded(l[1])
          /\ l[2] < 2 \/ IsStructural(l[1])

\* Only repeated 404 or 410 answers make an index dead (_apply_liveness_gate: "Only
\* repeated HTTP 404/410 results are considered confirmation").
ConfirmedDead(u) ==
    Scope(u) = "INDEX" /\ heard[u] = [i \in 1..Attempts |-> "gone"]

Found == {NormalizeUrl(NormalizeUrl(p)) : p \in kept} \cup {NormalizeUrl(l[1]) : l \in linked}

\* What a run ought to propose: the urls with evidence that are not confirmed dead.
Eligible == {u \in Found : /\ ~IsExcluded(u) /\ ~IsSystemPath(u)
                           /\ HasEvidence(u) /\ ~ConfirmedDead(u)}
Doubtful == {u \in Eligible : ~SuggestedByRule(u)}

\* A run stores every url it found, item pages and system paths aside.  It suggests of
\* the eligible ones those that a rule knows, and asks the fallback about all others
\* and about nothing else: in whatever order the sources report a url more than once,
\* however often a check failed for the moment, and if the classifier is down.
VerdictsFollowEvidence ==
    pc = "done" =>
        /\ DOMAIN verdict = {u \in Found : ~IsExcluded(u) /\ ~IsSystemPath(u)}
        /\ DOMAIN llm \in {{}, Doubtful}
        /\ {u \in DOMAIN verdict : verdict[u] = "SUGGESTED"} =
              (Eligible \ Doubtful) \cup {u \in DOMAIN llm : llm[u] = "SUGGESTED"}

\* A run ends, for sitemap indexes that refer to each other in a circle and for pages
\* that never give a clear answer.
RunEnds == <>(pc \in {"done", "failed"})
=============================================================================
