---------------------------- MODULE DiscoveryRuns ----------------------------
(***************************************************************************)
(* The life of a discovery run that a page triggers: the Flask request     *)
(* that keeps a record of it (DiscoveryService.discover_website and        *)
(* DiscoveryRunRepository), and the Django page that waits for the answer, *)
(* gives up after its timeout and polls the record (run_discovery,         *)
(* competitor_detail).                                                     *)
(*                                                                         *)
(* All requests of the Flask process share one DiscoveryService, hence its *)
(* last_summary, and one sitemap source, hence its last_stats.             *)
(*                                                                         *)
(* What a run finds is a number of urls; a summary is the run it describes *)
(* and the run whose sitemap statistics it counts.                         *)
(*                                                                         *)
(* A definition that no other one uses (AnyId, OverwritesAny, ...) is a    *)
(* deliberate mutation of the definition below it.                         *)
(***************************************************************************)
EXTENDS Naturals, FiniteSets

CONSTANTS
    Requests,   \* POST /competitors/<id>/discover, each sent once
    Ids,        \* run ids
    MaxFound,   \* the most urls one run finds
    Threads,    \* the requests that Flask serves at a time
    Faults,     \* what may go wrong, see DiscoveryRunsAssumption
    None

Summary == [by : Requests, stats : Requests \cup {None}]
Record  == [status : {"RUNNING", "SUCCESS", "FAILED"}, by : Requests,
            count : 0 .. MaxFound \cup {None}, summary : Summary \cup {None}]

ASSUME DiscoveryRunsAssumption ==
    /\ MaxFound \in Nat
    /\ Threads \in Nat \ {0}
    /\ Faults \subseteq
          {"start",     \* the competitor is gone, or the record cannot be inserted
           "raise",     \* a call inside the discovery work raises
           "sitemap",   \* the sitemap source raises: no urls, old statistics
           "record",    \* the call that closes the record raises
           "crash",     \* the Flask process dies
           "early",     \* the page times out before it has sent the request
           "poll"}      \* a poll gets no usable answer
    /\ None \notin Requests \cup Ids \cup Record

VARIABLES
    records,        \* records[i]: the document of discovery_runs, or None
    lastSummary,    \* DiscoveryService.last_summary
    lastStats,      \* SitemapSource.last_stats: the run it describes, or None
    flask,          \* flask[q]: the request inside Flask
    page            \* page[q]: what the user of request q sees, and its run id

vars == <<records, lastSummary, lastStats, flask, page>>

Absent == [at |-> "absent", found |-> 0, stored |-> 0, stats |-> None, answer |-> None]

Init ==
    /\ records = [i \in Ids |-> None]
    /\ lastSummary = None
    /\ lastStats = None
    /\ flask = [q \in Requests |-> Absent]
    /\ page = [q \in Requests |-> [shows |-> "form", id |-> None]]

Working == {"collect", "store", "publish", "record", "fail", "respond"}
Over    == {"replied", "raised", "unclosed", "dead"}

At(q, step) == flask[q].at = step
Go(q, step) == flask' = [flask EXCEPT ![q].at = step]
Show(q, what) == page' = [page EXCEPT ![q].shows = what]

-----------------------------------------------------------------------------
(* discover_website, inside Flask.                                         *)

Busy == {q \in Requests : flask[q].at \in Working}

\* The unique index on run_id.
AnyId(i) == TRUE
IdIsFree(i) == records[i] = None

\* The competitor was read; insert_one keeps the record before any work.
StartRun(q) ==
    LET i == page[q].id
    IN  /\ At(q, "lookup")
        /\ Cardinality(Busy) < Threads
        /\ IdIsFree(i)
        /\ records' = [records EXCEPT ![i] =
                          [status |-> "RUNNING", by |-> q, count |-> None, summary |-> None]]
        /\ Go(q, "collect")
        /\ UNCHANGED <<lastSummary, lastStats, page>>

\* The competitor is gone, or the run id was used before.
Refuse(q) ==
    /\ At(q, "lookup")
    /\ ~IdIsFree(page[q].id) \/ "start" \in Faults
    /\ Go(q, "raised")
    /\ UNCHANGED <<records, lastSummary, lastStats, page>>

\* The sources are crawled, the urls normalised, checked and classified.  A
\* sitemap source that raises counts as empty and keeps its statistics.
Collect(q) ==
    /\ At(q, "collect")
    /\ \E n \in 0 .. MaxFound :
          flask' = [flask EXCEPT ![q].at = "store", ![q].found = n]
    /\ \/ lastStats' = q
       \/ "sitemap" \in Faults /\ UNCHANGED lastStats
    /\ UNCHANGED <<records, lastSummary, page>>

StoresOneMore(q) == flask[q].stored <= flask[q].found
MoreToStore(q) == flask[q].stored < flask[q].found

\* One upsert_discovered_candidate.
Store(q) ==
    /\ At(q, "store")
    /\ MoreToStore(q)
    /\ flask' = [flask EXCEPT ![q].stored = @ + 1]
    /\ UNCHANGED <<records, lastSummary, lastStats, page>>

StopsEarly(q) == TRUE
AllStored(q) == flask[q].stored = flask[q].found

\* The excluded candidates are discarded; then the statistics are read.
Reconcile(q) ==
    /\ At(q, "store")
    /\ AllStored(q)
    /\ flask' = [flask EXCEPT ![q].at = "publish", ![q].stats = lastStats]
    /\ UNCHANGED <<records, lastSummary, lastStats, page>>

Publish(q) ==
    /\ At(q, "publish")
    /\ lastSummary' = [by |-> q, stats |-> flask[q].stats]
    /\ Go(q, "record")
    /\ UNCHANGED <<records, lastStats, page>>

\* succeed and fail change a record that is still RUNNING.
OverwritesAny(i, status, count, summary) ==
    [records EXCEPT ![i].status = status, ![i].count = count, ![i].summary = summary]
Close(i, status, count, summary) ==
    IF records[i].status = "RUNNING"
    THEN [records EXCEPT ![i].status = status, ![i].count = count, ![i].summary = summary]
    ELSE records

Succeed(q) ==
    /\ At(q, "record")
    /\ records' = Close(page[q].id, "SUCCESS", flask[q].stored, lastSummary)
    /\ Go(q, "respond")
    /\ UNCHANGED <<lastSummary, lastStats, page>>

\* The call raises: before the update, or after it when only its answer is lost.
SucceedRaises(q) ==
    /\ At(q, "record")
    /\ "record" \in Faults
    /\ records' \in {records, Close(page[q].id, "SUCCESS", flask[q].stored, lastSummary)}
    /\ Go(q, "fail")
    /\ UNCHANGED <<lastSummary, lastStats, page>>

Escapes(q) ==
    /\ flask[q].at \in {"collect", "store"}
    /\ "raise" \in Faults
    /\ Go(q, "raised")
    /\ UNCHANGED <<records, lastSummary, lastStats, page>>

Raise(q) ==
    /\ flask[q].at \in {"collect", "store"}
    /\ "raise" \in Faults
    /\ Go(q, "fail")
    /\ UNCHANGED <<records, lastSummary, lastStats, page>>

Fail(q) ==
    /\ At(q, "fail")
    /\ records' = Close(page[q].id, "FAILED", None, None)
    /\ Go(q, "raised")
    /\ UNCHANGED <<lastSummary, lastStats, page>>

\* The database is down, or the exception has no message: fail itself raises, and
\* discover_website only logs that.
FailRaises(q) ==
    /\ At(q, "fail")
    /\ "record" \in Faults
    /\ Go(q, "unclosed")
    /\ UNCHANGED <<records, lastSummary, lastStats, page>>

\* The route adds the summary to the response.
Respond(q) ==
    /\ At(q, "respond")
    /\ flask' = [flask EXCEPT ![q].at = "replied", ![q].answer = lastSummary]
    /\ UNCHANGED <<records, lastSummary, lastStats, page>>

Crash ==
    /\ "crash" \in Faults
    /\ \E q \in Requests : flask[q].at \in Working \cup {"lookup"}
    /\ flask' = [q \in Requests |->
          IF flask[q].at \in Working \cup {"lookup"} THEN [flask[q] EXCEPT !.at = "dead"]
                                                    ELSE flask[q]]
    /\ lastSummary' = None
    /\ lastStats' = None
    /\ UNCHANGED <<records, page>>

-----------------------------------------------------------------------------
(* The page, inside Django.                                                *)

\* run_discovery makes an id of its own; another client of the API may repeat one.
Click(q) ==
    /\ page[q].shows = "form"
    /\ \E i \in Ids :
          /\ \A p \in Requests : page[p].id # i
          /\ page' = [page EXCEPT ![q] = [shows |-> "sending", id |-> i]]
    /\ UNCHANGED <<records, lastSummary, lastStats, flask>>

Repeat(q) ==
    /\ page[q].shows = "form"
    /\ \E p \in Requests \ {q} :
          /\ page[p].id # None
          /\ page' = [page EXCEPT ![q] = [shows |-> "sending", id |-> page[p].id]]
    /\ UNCHANGED <<records, lastSummary, lastStats, flask>>

\* The companies were read first, by requests of their own.
Send(q) ==
    /\ page[q].shows = "sending"
    /\ Show(q, "waiting")
    /\ Go(q, "lookup")
    /\ UNCHANGED <<records, lastSummary, lastStats>>

\* Whichever call times out, the page says that the discovery is still working.
TimeOut(q) ==
    /\ \/ page[q].shows = "waiting"
       \/ page[q].shows = "sending" /\ "early" \in Faults
    /\ Show(q, "pending")
    /\ UNCHANGED <<records, lastSummary, lastStats, flask>>

Receive(q) ==
    /\ page[q].shows = "waiting"
    /\ flask[q].at \in Over
    /\ Show(q, IF At(q, "replied") THEN "result" ELSE "error")
    /\ UNCHANGED <<records, lastSummary, lastStats, flask>>

\* A record that does not exist yet (404) counts as RUNNING, and the page asks again.

Poll(q) ==
    /\ page[q].shows = "pending"
    /\ records[page[q].id] # None
    /\ \/ records[page[q].id].status = "SUCCESS" /\ Show(q, "complete")
       \/ records[page[q].id].status = "FAILED" /\ Show(q, "failed")
    /\ UNCHANGED <<records, lastSummary, lastStats, flask>>

\* Any other error ends the polling.
PollFails(q) ==
    /\ "poll" \in Faults
    /\ page[q].shows = "pending"
    /\ Show(q, "error")
    /\ UNCHANGED <<records, lastSummary, lastStats, flask>>

-----------------------------------------------------------------------------
Serve(q) ==
    \/ StartRun(q) \/ Refuse(q) \/ Collect(q) \/ Store(q) \/ Reconcile(q) \/ Publish(q)
    \/ Succeed(q) \/ SucceedRaises(q) \/ Raise(q) \/ Fail(q) \/ FailRaises(q) \/ Respond(q)

Browse(q) ==
    \/ Click(q) \/ Repeat(q) \/ Send(q) \/ TimeOut(q) \/ Receive(q) \/ Poll(q) \/ PollFails(q)

Next == (\E q \in Requests : Serve(q) \/ Browse(q)) \/ Crash

Spec == Init /\ [][Next]_vars

\* Flask works on each request, and the page refreshes itself every 15 seconds.
FairSpec == Spec /\ \A q \in Requests : WF_vars(Serve(q)) /\ WF_vars(Poll(q))

-----------------------------------------------------------------------------
(* Properties.                                                             *)

\* Every variable stays within its type.
TypeOK ==
    /\ records \in [Ids -> Record \cup {None}]
    /\ lastSummary \in Summary \cup {None}
    /\ lastStats \in Requests \cup {None}
    /\ flask \in [Requests ->
          [at : {"absent", "lookup"} \cup Working \cup Over,
           found : 0 .. MaxFound, stored : 0 .. MaxFound,
           stats : Requests \cup {None}, answer : Summary \cup {None}]]
    /\ page \in [Requests ->
          [shows : {"form", "sending", "waiting", "pending", "result", "complete",
                    "failed", "error"},
           id : Ids \cup {None}]]

\* SUCCESS is authoritative: every url that its run found is stored, and the
\* count is their number, even if the request later failed or died.
SuccessIsComplete ==
    \A i \in Ids : records[i] # None /\ records[i].status = "SUCCESS" =>
        LET r == flask[records[i].by]
        IN  /\ records[i].count = r.found
            /\ r.stored = r.found
            /\ r.at \notin {"lookup", "collect", "store", "publish"}

\* No user is told the opposite of what the record says: a result or a completed
\* page means SUCCESS, a failed page means that no run of this id answers.
VerdictsAgree ==
    \A q \in Requests :
        LET r == records[page[q].id]
        IN  /\ page[q].shows \in {"result", "complete"} => r # None /\ r.status = "SUCCESS"
            /\ page[q].shows = "failed" =>
                  \A p \in Requests : page[p].id = page[q].id => ~At(p, "replied")

\* Of the requests that carry the same run id, one works.
OneRunPerId ==
    \A q, p \in Requests : q # p /\ page[q].id = page[p].id =>
        ~(flask[q].at \in Working /\ flask[p].at \in Working)

\* The counts in a record and in a response are those of the run itself, sitemap
\* statistics included: "Per-run discovery counts" (DiscoverySummary).
SummaryIsOwn ==
    LET Own(summary, q) == summary # None => summary = [by |-> q, stats |-> q]
    IN  /\ \A i \in Ids : records[i] # None => Own(records[i].summary, records[i].by)
        /\ \A q \in Requests : Own(flask[q].answer, q)

\* When the work finishes, the record says SUCCESS or FAILED (api-contract.md), unless
\* the call that should close it failed as well.
FinishedIsRecorded ==
    \A i \in Ids : records[i] # None /\ flask[records[i].by].at \in {"replied", "raised"} =>
        records[i].status # "RUNNING"

\* Nobody will ever write the verdict that page q waits for: its request was not sent
\* or never began, or the one that works on its id died or could not close the record.
Abandoned(q) ==
    LET r == records[page[q].id]
    IN  \/ r = None /\ flask[q].at \in {"absent"} \cup Over
        \/ r # None /\ r.status = "RUNNING" /\ flask[r.by].at \in {"unclosed", "dead"}

\* "Discovery is still working": a page that timed out and polls is told the verdict,
\* however late it asks first, unless nobody is left to give one.
PollingEnds ==
    \A q \in Requests : page[q].shows = "pending" ~> page[q].shows # "pending" \/ Abandoned(q)
=============================================================================
