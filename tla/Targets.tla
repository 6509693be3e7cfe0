------------------------------ MODULE Targets ------------------------------
(***************************************************************************)
(* The shared collection of discovery candidates and monitoring targets,   *)
(* and the requests that read a document, decide, and write it later       *)
(* (DiscoveryService, MonitoringTargetService, and the discovery pipeline, *)
(* all through MonitoringTargetRepository).  A request is a session: it    *)
(* keeps the decision taken on what it read while others change the        *)
(* document.  A database call is one step; what a session does between two *)
(* calls happens with the call before it.                                  *)
(*                                                                         *)
(* One competitor; its documents differ by url.  A document is reduced to  *)
(* the fields that decide who may do what with it.                         *)
(*                                                                         *)
(* A definition that no other one uses (AnyUrl, NobodyDecided, ...) is a   *)
(* deliberate mutation of the definition below it.                         *)
(***************************************************************************)
EXTENDS Naturals, FiniteSets

CONSTANTS
    Ids,        \* document ids, never given twice
    Urls,
    Excluded,   \* the urls that the exclusion patterns match
    Sessions,   \* requests, discovery runs and monitoring runs in progress
    Ops,        \* the operations an instance includes
    None        \* no document, no id, or a field that an update leaves alone

Statuses == {"SUGGESTED", "DISCARDED", "ACTIVE"}
Sources  == {"MANUAL", "SITEMAP"}
Row      == [url : Urls, active : BOOLEAN, status : Statuses, source : Sources]

ASSUME TargetsAssumption ==
    /\ Excluded \subseteq Urls
    /\ Ops \subseteq {"activate", "add", "manual", "edit", "discard", "remove",
                      "patch", "upsert", "purge", "monitor"}
    /\ None \notin Ids \cup Urls
    /\ None \notin BOOLEAN /\ None \notin Statuses \cup Sources /\ None \notin Row

VARIABLES
    rows,       \* rows[i]: the document with id i, or None
    used,       \* the ids given so far
    history,    \* history[i]: snapshots or changes refer to i
    sess,       \* sess[s]: the next step of the session and what it decided
    overtaken   \* the sessions whose document, or its history, another one changed
                \* after they had read it (an observation: no step depends on it)

vars == <<rows, used, history, sess, overtaken>>

NoChange == [url |-> None, active |-> None, status |-> None, source |-> None]
Idle == [step |-> "idle", id |-> None, set |-> NoChange]

\* Discovery ran before: some documents wait for review.
Init ==
    /\ rows \in [Ids -> {None} \cup [url : Urls, active : {FALSE},
                                    status : {"SUGGESTED", "DISCARDED"},
                                    source : {"SITEMAP"}]]
    /\ \A i, k \in Ids : i # k /\ None \notin {rows[i], rows[k]} => rows[i].url # rows[k].url
    /\ used = {i \in Ids : rows[i] # None}
    /\ history = [i \in Ids |-> FALSE]
    /\ sess = [s \in Sessions |-> Idle]
    /\ overtaken = {}

-----------------------------------------------------------------------------
(* What the services look at, and what they decide to write.               *)

Exists(i)  == rows[i] # None
WithUrl(u) == {i \in Ids : Exists(i) /\ rows[i].url = u}

IsActivated(r)    == r.active \/ r.status = "ACTIVE"
IsActiveTarget(r) == r.active /\ r.status = "ACTIVE"

\* update_target: activating a review row promotes it.
PatchOnlyActive(r, b) == [NoChange EXCEPT !.active = b]
PatchNamesInactive(r, b) == [NoChange EXCEPT !.active = b,
                                 !.status = IF b THEN "ACTIVE" ELSE "INACTIVE"]
Patch(r, b) == [NoChange EXCEPT !.active = b,
                    !.status = IF b /\ r.status # "ACTIVE" THEN "ACTIVE" ELSE None]

\* upsert_discovered_candidate: a user's activation outranks the classifier.
NobodyDecided(r, verdict) == [NoChange EXCEPT !.source = "SITEMAP", !.status = verdict]
Rediscovered(r, verdict) == [NoChange EXCEPT !.source = "SITEMAP",
                                !.status = IF IsActivated(r) THEN None ELSE verdict]

Manual(u) == [url |-> u, active |-> TRUE, status |-> "ACTIVE", source |-> "MANUAL"]

\* remove_candidate: only an activated document can have history.
NeverInspects(r) == "delete"
RemoveStep(r) == IF IsActivated(r) THEN "history" ELSE "delete"

\* The field after an update: $set writes it or leaves it.
Field(new, old) == IF new = None THEN old ELSE new

Merge(r, set) == [url    |-> Field(set.url, r.url),
                  active |-> Field(set.active, r.active),
                  status |-> Field(set.status, r.status),
                  source |-> Field(set.source, r.source)]

\* The unique index on (competitor_id, url), for a document other than i.
AnyUrl(u, i) == TRUE
UrlIsFree(u, i) == WithUrl(u) \subseteq {i}

-----------------------------------------------------------------------------
(* The first call of each operation reads one document and decides.        *)

Start(s, op, step, i, set) ==
    /\ op \in Ops
    /\ sess[s] = Idle
    /\ sess' = [sess EXCEPT ![s] = [step |-> step, id |-> i, set |-> set]]
    /\ UNCHANGED <<rows, used, history, overtaken>>

\* A discarded candidate is refused and an active target is returned as it is.
Activate(s, i) ==
    /\ Exists(i) /\ rows[i].status # "DISCARDED" /\ ~IsActiveTarget(rows[i])
    /\ Start(s, "activate", "validate", i,
             [NoChange EXCEPT !.active = TRUE, !.status = "ACTIVE"])

PatchActive(s, i, b) ==
    /\ Exists(i)
    /\ Start(s, "patch", "validate", i, Patch(rows[i], b))

Discard(s, i) ==
    /\ Exists(i) /\ ~IsActivated(rows[i]) /\ rows[i].status # "DISCARDED"
    /\ Start(s, "discard", "validate", i,
             [NoChange EXCEPT !.active = FALSE, !.status = "DISCARDED"])

\* The new url is looked up in a second call.
Edit(s, i, u) ==
    /\ Exists(i) /\ ~IsActivated(rows[i])
    /\ Start(s, "edit", "lookup", i, [NoChange EXCEPT !.url = u])

Remove(s, i) ==
    /\ Exists(i)
    /\ Start(s, "remove", RemoveStep(rows[i]), i, [NoChange EXCEPT !.active = FALSE])

AddCandidate(s, u) ==
    /\ WithUrl(u) = {}
    /\ Start(s, "add", "insert", None,
             [url |-> u, active |-> FALSE, status |-> "SUGGESTED", source |-> "MANUAL"])

\* An active target is returned as it is; otherwise the liveness checks follow,
\* which take as long as they take.
AddManual(s, u) ==
    \/ /\ WithUrl(u) = {}
       /\ Start(s, "manual", "insert", None, Manual(u))
    \/ \E i \in WithUrl(u) : /\ ~IsActiveTarget(rows[i])
                             /\ Start(s, "manual", "validate", i, Manual(u))

\* One url of a discovery run, as the classifier sees it.
Upsert(s, u, verdict) ==
    \/ /\ WithUrl(u) = {}
       /\ Start(s, "upsert", "insert", None,
                [url |-> u, active |-> FALSE, status |-> verdict, source |-> "SITEMAP"])
    \/ \E i \in WithUrl(u) :
          Start(s, "upsert", "validate", i, Rediscovered(rows[i], verdict))

\* monitor_target reads the target; its snapshot comes later.
Monitor(s, i) ==
    /\ Exists(i) /\ IsActiveTarget(rows[i])
    /\ Start(s, "monitor", "snapshot", i, NoChange)

-----------------------------------------------------------------------------
(* The calls that follow.                                                  *)

At(s, step) == sess[s].step = step
Proceed(s, step) == sess' = [sess EXCEPT ![s].step = step] /\ UNCHANGED overtaken

Changed(i) == rows'[i] # rows[i] \/ history'[i] # history[i]

\* The session ends, after the change it made, if any.
Done(s) ==
    /\ sess' = [sess EXCEPT ![s] = Idle]
    /\ overtaken' = (overtaken \ {s}) \cup
          {o \in Sessions \ {s} : sess[o].id # None /\ Changed(sess[o].id)}

\* Editing to the url of another document is refused.
LookUp(s) ==
    /\ At(s, "lookup")
    /\ UNCHANGED <<rows, used, history>>
    /\ IF WithUrl(sess[s].set.url) \subseteq {sess[s].id} THEN Proceed(s, "validate")
                                                        ELSE Done(s)

InspectHistory(s) ==
    /\ At(s, "history")
    /\ Proceed(s, IF history[sess[s].id] THEN "validate" ELSE "delete")
    /\ UNCHANGED <<rows, used, history>>

\* update reads the document again, to refuse an active DISCARDED one ...
Validate(s) ==
    LET i == sess[s].id
    IN  /\ At(s, "validate")
        /\ UNCHANGED <<rows, used, history>>
        /\ IF Exists(i) /\ ~(/\ Merge(rows[i], sess[s].set).active
                             /\ Merge(rows[i], sess[s].set).status = "DISCARDED")
           THEN Proceed(s, "write") ELSE Done(s)

\* ... and then sets the fields, whatever the document says by now.
Write(s) ==
    LET i == sess[s].id
    IN  /\ At(s, "write")
        /\ rows' = IF Exists(i) /\ UrlIsFree(Merge(rows[i], sess[s].set).url, i)
                   THEN [rows EXCEPT ![i] = Merge(@, sess[s].set)] ELSE rows
        /\ UNCHANGED <<used, history>>
        /\ Done(s)

\* insert_one; a duplicate key makes the request fail.
Insert(s) ==
    /\ At(s, "insert")
    /\ IF UrlIsFree(sess[s].set.url, None)
       THEN \E i \in Ids \ used : /\ rows' = [rows EXCEPT ![i] = sess[s].set]
                                  /\ used' = used \cup {i}
       ELSE UNCHANGED <<rows, used>>
    /\ UNCHANGED history
    /\ Done(s)

Delete(s) ==
    /\ At(s, "delete")
    /\ rows' = [rows EXCEPT ![sess[s].id] = None]
    /\ UNCHANGED <<used, history>>
    /\ Done(s)

TakeSnapshot(s) ==
    /\ At(s, "snapshot")
    /\ history' = [history EXCEPT ![sess[s].id] = TRUE]
    /\ UNCHANGED <<rows, used>>
    /\ Done(s)

\* The url is not live, the site is down, a call fails, the process dies.
GiveUp(s) ==
    /\ sess[s] # Idle
    /\ UNCHANGED <<rows, used, history>>
    /\ Done(s)

\* The end of a discovery run: one update_many discards what earlier runs found
\* and the patterns now exclude.
Purge ==
    /\ "purge" \in Ops
    /\ rows' = [i \in Ids |->
          IF /\ Exists(i)
             /\ ~rows[i].active /\ rows[i].status # "ACTIVE"
             /\ rows[i].source = "SITEMAP" /\ rows[i].url \in Excluded
          THEN [rows[i] EXCEPT !.active = FALSE, !.status = "DISCARDED"]
          ELSE rows[i]]
    /\ rows' # rows
    /\ UNCHANGED <<used, history, sess>>
    /\ overtaken' = overtaken \cup {o \in Sessions : sess[o].id # None /\ Changed(sess[o].id)}

Next ==
    \/ \E s \in Sessions, i \in Ids :
          \/ Activate(s, i) \/ Discard(s, i) \/ Remove(s, i) \/ Monitor(s, i)
          \/ \E b \in BOOLEAN : PatchActive(s, i, b)
          \/ \E u \in Urls : Edit(s, i, u)
    \/ \E s \in Sessions, u \in Urls :
          \/ AddCandidate(s, u) \/ AddManual(s, u)
          \/ \E verdict \in {"SUGGESTED", "DISCARDED"} : Upsert(s, u, verdict)
    \/ \E s \in Sessions :
          \/ LookUp(s) \/ InspectHistory(s) \/ Validate(s) \/ Write(s)
          \/ Insert(s) \/ Delete(s) \/ TakeSnapshot(s) \/ GiveUp(s)
    \/ Purge

Spec == Init /\ [][Next]_vars

-----------------------------------------------------------------------------
(* Properties.                                                             *)

Session == [step : {"idle", "lookup", "history", "validate", "write", "insert",
                    "delete", "snapshot"},
            id : Ids \cup {None},
            set : [url : Urls \cup {None}, active : BOOLEAN \cup {None},
                   status : Statuses \cup {None}, source : Sources \cup {None}]]

\* Every variable stays within its type.
TypeOK ==
    /\ rows \in [Ids -> Row \cup {None}]
    /\ used \in SUBSET Ids
    /\ history \in [Ids -> BOOLEAN]
    /\ sess \in [Sessions -> Session]
    /\ overtaken \in SUBSET {s \in Sessions : sess[s] # Idle}

\* Two requests that both found no document for a url never leave two behind, and
\* neither does an edit that races an insert.
UrlsAreUnique ==
    \A i, k \in Ids : i # k /\ Exists(i) /\ Exists(k) => rows[i].url # rows[k].url

\* A document that claims to be monitored is one that the engine accepts: "the
\* repository invariant that active=True never coexists with SUGGESTED/DISCARDED"
\* (update_target).
ActiveIsActivated == \A i \in Ids : Exists(i) /\ rows[i].active => rows[i].status = "ACTIVE"

\* What monitoring recorded keeps the document it refers to, and keeps it among
\* the activated ones, where remove_candidate looks at the history.
HistoryKeepsTarget == \A i \in Ids : history[i] => Exists(i) /\ rows[i].status = "ACTIVE"

\* Nothing takes an activation back: discovery runs, exclusion patterns, edits and
\* discards leave an activated document activated, and only a removal that found no
\* history deletes it.
KeepsActivation ==
    \A i \in Ids : Exists(i) /\ rows[i].status = "ACTIVE" =>
        \/ rows'[i] # None /\ rows'[i].status = "ACTIVE"
        \/ rows'[i] = None /\ ~history[i]

\* The step of a request that another one overtook between its read and its write.
OvertakenStep == \E s \in overtaken : sess'[s] # sess[s]

\* These three are safe from every request that nobody overtakes, in any number and
\* order, and whatever others do at the same time to other documents.
FreshKeepsActivation == [][OvertakenStep \/ KeepsActivation]_vars

FreshKeepsActive ==
    [][OvertakenStep \/ (ActiveIsActivated => ActiveIsActivated')]_vars

FreshKeepsHistory ==
    [][OvertakenStep \/ (HistoryKeepsTarget => HistoryKeepsTarget')]_vars
=============================================================================
