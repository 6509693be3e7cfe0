---------------------------- MODULE TargetsProofs ----------------------------
(***************************************************************************)
(* Proofs about the collection of candidates and targets, for any number   *)
(* of documents, urls and concurrent requests and any set of operations.   *)
(*                                                                         *)
(* What a request has decided is right for the document as it was read.    *)
(* FreshOK says what of that the write depends on; it holds for a request  *)
(* until another one changes its document, which is what `overtaken`       *)
(* records.  The three Fresh properties follow from it step by step.       *)
(***************************************************************************)
EXTENDS Targets, TLAPS

-----------------------------------------------------------------------------
(* The inductive invariant.                                                *)

Set == [url : Urls \cup {None}, active : BOOLEAN \cup {None},
        status : Statuses \cup {None}, source : Sources \cup {None}]

\* What the locals of a session hold at each step.
SessOK(j) ==
    /\ j.step = "idle" => j = Idle
    /\ j.step = "insert" => /\ j.set \in Row /\ j.id = None
                            /\ j.set.active = TRUE => j.set.status = "ACTIVE"
    /\ j.step \notin {"idle", "insert"} => j.id \in Ids

\* What a session decided on the document r, with history h, that it read.
FreshOK(j, r, h) ==
    /\ j.set.status \in {"SUGGESTED", "DISCARDED"} =>
          r # None /\ r.status # "ACTIVE" /\ r.active = FALSE
    /\ j.set.active = TRUE /\ j.set.status # "ACTIVE" => r # None /\ r.status = "ACTIVE"
    /\ j.step = "delete" /\ r # None /\ r.status = "ACTIVE" => h = FALSE
    /\ j.step = "snapshot" => r # None /\ r.status = "ACTIVE"

SessInv == \A s \in Sessions : SessOK(sess[s])

FreshInv ==
    \A s \in Sessions \ overtaken :
        sess[s].id # None => FreshOK(sess[s], rows[sess[s].id], history[sess[s].id])

Inv ==
    /\ TypeOK
    /\ \A i \in Ids : rows[i] # None => i \in used
    /\ SessInv
    /\ FreshInv

-----------------------------------------------------------------------------
(* Types of what sessions decide and write.                                *)

LEMMA NoChangeType == NoChange \in Set /\ Idle \in Session /\ SessOK(Idle)
<1>1. NoChange \in Set
  BY DEF NoChange, Set
<1>2. Idle \in Session
  BY DEF Idle, NoChange, Session
<1> QED BY <1>1, <1>2 DEF Idle, SessOK

\* $set leaves a document a document.
LEMMA MergeType ==
    ASSUME NEW r \in Row, NEW set \in Set
    PROVE  /\ Merge(r, set) \in Row
           /\ Merge(r, set).url = Field(set.url, r.url)
           /\ Merge(r, set).active = Field(set.active, r.active)
           /\ Merge(r, set).status = Field(set.status, r.status)
<1>1. set.url \in Urls \cup {None} /\ set.active \in BOOLEAN \cup {None}
      /\ set.status \in Statuses \cup {None} /\ set.source \in Sources \cup {None}
  BY DEF Set
<1>2. r.url \in Urls /\ r.active \in BOOLEAN /\ r.status \in Statuses /\ r.source \in Sources
  BY DEF Row
<1>3. Field(set.url, r.url) \in Urls
  BY <1>1, <1>2 DEF Field
<1>4. Field(set.active, r.active) \in BOOLEAN
  BY <1>1, <1>2, Zenon DEF Field
<1>5. Field(set.status, r.status) \in Statuses
  BY <1>1, <1>2 DEF Field
<1>6. Field(set.source, r.source) \in Sources
  BY <1>1, <1>2 DEF Field
<1> QED BY <1>3, <1>4, <1>5, <1>6 DEF Merge, Row

\* The types of a session's record.
LEMMA SessionFields ==
    ASSUME NEW j \in Session
    PROVE  j.set \in Set /\ j.id \in Ids \cup {None}
BY DEF Session, Set

LEMMA SessionOf ==
    ASSUME NEW step \in {"idle", "lookup", "history", "validate", "write", "insert",
                         "delete", "snapshot"},
           NEW i \in Ids \cup {None}, NEW set \in Set
    PROVE  /\ [step |-> step, id |-> i, set |-> set] \in Session
           /\ [step |-> step, id |-> i, set |-> set].step = step
           /\ [step |-> step, id |-> i, set |-> set].id = i
           /\ [step |-> step, id |-> i, set |-> set].set = set
BY DEF Session, Set

-----------------------------------------------------------------------------
(* The three kinds of step: a session begins, goes on, or ends.            *)

\* The first call of a request (update_target, activate_candidate, ...).
LEMMA StartKeeps ==
    ASSUME Inv, NEW s \in Sessions, NEW op, NEW i \in Ids \cup {None}, NEW set \in Set,
           NEW step \in {"lookup", "history", "validate", "insert", "delete", "snapshot"},
           Start(s, op, step, i, set),
           step = "insert" => /\ set \in Row /\ i = None
                              /\ set.active = TRUE => set.status = "ACTIVE",
           step # "insert" => i \in Ids,
           i # None => FreshOK([step |-> step, id |-> i, set |-> set], rows[i], history[i])
    PROVE  Inv'
<1> DEFINE j == [step |-> step, id |-> i, set |-> set]
<1>1. j \in Session /\ j.step = step /\ j.id = i /\ j.set = set
  BY SessionOf
<1>2. SessOK(j)
  BY <1>1 DEF SessOK
<1>3. sess[s] = Idle /\ sess' = [sess EXCEPT ![s] = j]
      /\ UNCHANGED <<rows, used, history, overtaken>>
  BY DEF Start
<1>4. i # None => FreshOK(j, rows[i], history[i])
  OBVIOUS
<1> HIDE DEF j
<1>5. sess \in [Sessions -> Session]
  BY DEF Inv, TypeOK
<1>6. sess'[s] = j /\ sess' \in [Sessions -> Session]
      /\ \A o \in Sessions \ {s} : sess'[o] = sess[o]
  BY <1>1, <1>3, <1>5
<1>7. overtaken' \in SUBSET {o \in Sessions : sess'[o] # Idle}
  <2>1. overtaken \in SUBSET {o \in Sessions : sess[o] # Idle}
    BY DEF Inv, TypeOK
  <2> QED BY <2>1, <1>3, <1>6
<1>8. SessInv'
  BY <1>2, <1>6 DEF Inv, SessInv
<1>9. FreshInv'
  <2> SUFFICES ASSUME NEW o \in Sessions \ overtaken, sess'[o].id # None
               PROVE  FreshOK(sess'[o], rows[sess'[o].id], history[sess'[o].id])
    BY <1>3 DEF FreshInv
  <2>1. CASE o = s
    BY <1>1, <1>4, <1>6, <2>1
  <2>2. CASE o # s
    BY <1>6, <2>2 DEF Inv, FreshInv
  <2> QED BY <2>1, <2>2
<1> QED BY <1>3, <1>6, <1>7, <1>8, <1>9 DEF Inv, TypeOK

\* A call that reads and goes on (update looks at the document again, ...).
LEMMA ProceedKeeps ==
    ASSUME Inv, NEW s \in Sessions, NEW step \in {"validate", "write", "delete"},
           sess[s].step \in {"lookup", "history", "validate"},
           Proceed(s, step), UNCHANGED <<rows, used, history>>,
           step = "delete" => history[sess[s].id] = FALSE
    PROVE  Inv'
<1> DEFINE j == [sess[s] EXCEPT !.step = step]
<1>1. sess[s] \in Session /\ SessOK(sess[s]) /\ sess \in [Sessions -> Session]
  BY DEF Inv, TypeOK, SessInv
<1>2. j \in Session /\ j.step = step /\ j.id = sess[s].id /\ j.set = sess[s].set
  BY <1>1 DEF Session
<1>3. sess[s].id \in Ids /\ SessOK(j)
  BY <1>1, <1>2 DEF SessOK
<1>4. sess' = [sess EXCEPT ![s] = j] /\ UNCHANGED overtaken
  BY DEF Proceed
<1>5. s \notin overtaken => FreshOK(j, rows[j.id], history[j.id])
  <2> SUFFICES ASSUME s \notin overtaken PROVE FreshOK(j, rows[j.id], history[j.id])
    OBVIOUS
  <2>1. FreshOK(sess[s], rows[sess[s].id], history[sess[s].id])
    BY <1>3, TargetsAssumption DEF Inv, FreshInv
  <2> QED BY <2>1, <1>2 DEF FreshOK
<1> HIDE DEF j
<1>6. sess'[s] = j /\ sess' \in [Sessions -> Session]
      /\ \A o \in Sessions \ {s} : sess'[o] = sess[o]
  BY <1>1, <1>2, <1>4
<1>7. overtaken' \in SUBSET {o \in Sessions : sess'[o] # Idle}
  <2>1. overtaken \in SUBSET {o \in Sessions : sess[o] # Idle} /\ j # Idle
    BY <1>2 DEF Inv, TypeOK, Idle
  <2> QED BY <2>1, <1>4, <1>6
<1>8. SessInv'
  BY <1>3, <1>6 DEF Inv, SessInv
<1>9. FreshInv'
  <2> SUFFICES ASSUME NEW o \in Sessions \ overtaken, sess'[o].id # None
               PROVE  FreshOK(sess'[o], rows[sess'[o].id], history[sess'[o].id])
    BY <1>4 DEF FreshInv
  <2>1. CASE o = s
    BY <1>5, <1>6, <2>1
  <2>2. CASE o # s
    BY <1>6, <2>2 DEF Inv, FreshInv
  <2> QED BY <2>1, <2>2
<1> QED BY <1>4, <1>6, <1>7, <1>8, <1>9 DEF Inv, TypeOK

\* The last call of a request: whoever else works on the document it changes is
\* overtaken.
LEMMA DoneKeeps ==
    ASSUME Inv, NEW s \in Sessions, Done(s),
           rows' \in [Ids -> Row \cup {None}], used' \in SUBSET Ids,
           history' \in [Ids -> BOOLEAN],
           \A i \in Ids : rows'[i] # None => i \in used'
    PROVE  Inv'
<1>1. sess \in [Sessions -> Session] /\ sess' = [sess EXCEPT ![s] = Idle]
      /\ overtaken' = (overtaken \ {s}) \cup
             {o \in Sessions \ {s} : sess[o].id # None /\ Changed(sess[o].id)}
  BY DEF Inv, TypeOK, Done
<1>2. sess'[s] = Idle /\ sess' \in [Sessions -> Session]
      /\ \A o \in Sessions \ {s} : sess'[o] = sess[o]
  BY <1>1, NoChangeType
<1>3. overtaken' \in SUBSET {o \in Sessions : sess'[o] # Idle}
  <2>1. overtaken \in SUBSET {o \in Sessions : sess[o] # Idle} /\ Idle.id = None
    BY DEF Inv, TypeOK, Idle
  <2> QED BY <2>1, <1>1, <1>2
<1>4. SessInv'
  BY <1>2, NoChangeType DEF Inv, SessInv
<1>5. FreshInv'
  <2> SUFFICES ASSUME NEW o \in Sessions \ overtaken', sess'[o].id # None
               PROVE  FreshOK(sess'[o], rows'[sess'[o].id], history'[sess'[o].id])
    BY DEF FreshInv
  <2>1. o # s
    BY <1>2 DEF Idle
  <2>2. sess'[o] = sess[o] /\ o \notin overtaken /\ ~Changed(sess[o].id)
    BY <1>1, <1>2, <2>1
  <2>3. rows'[sess[o].id] = rows[sess[o].id] /\ history'[sess[o].id] = history[sess[o].id]
    BY <2>2 DEF Changed
  <2> QED BY <2>2, <2>3 DEF Inv, FreshInv
<1> QED BY <1>2, <1>3, <1>4, <1>5 DEF Inv, TypeOK

-----------------------------------------------------------------------------
(* Every step keeps the invariant.                                         *)

LEMMA InitInv == Init => Inv
<1> SUFFICES ASSUME Init PROVE Inv
  OBVIOUS
<1>1. rows \in [Ids -> Row \cup {None}]
  <2>1. [url : Urls, active : {FALSE}, status : {"SUGGESTED", "DISCARDED"},
         source : {"SITEMAP"}] \subseteq Row
    BY DEF Row, Statuses, Sources
  <2> QED BY <2>1 DEF Init
<1>2. used \in SUBSET Ids /\ \A i \in Ids : rows[i] # None => i \in used
  BY DEF Init
<1>3. history \in [Ids -> BOOLEAN] /\ sess \in [Sessions -> Session] /\ overtaken = {}
  BY NoChangeType DEF Init
<1>4. SessInv /\ FreshInv
  BY NoChangeType DEF Init, SessInv, FreshInv, Idle
<1> QED BY <1>1, <1>2, <1>3, <1>4 DEF Inv, TypeOK

\* The fields of a stored document.
LEMMA RowFields ==
    ASSUME Inv, NEW i \in Ids, Exists(i)
    PROVE  rows[i] \in Row /\ rows[i].active \in BOOLEAN /\ rows[i].status \in Statuses
BY DEF Inv, TypeOK, Exists, Row

\* Requests that begin by reading one document.
LEMMA BeginKeepsInv ==
    ASSUME Inv, NEW s \in Sessions, NEW i \in Ids,
           \/ Activate(s, i) \/ Discard(s, i) \/ Remove(s, i) \/ Monitor(s, i)
           \/ \E b \in BOOLEAN : PatchActive(s, i, b)
           \/ \E u \in Urls : Edit(s, i, u)
    PROVE  Inv'
<1>0. NoChange \in Set /\ i # None /\ "ACTIVE" # None
  BY NoChangeType, TargetsAssumption DEF Statuses
<1>1. CASE Activate(s, i)
  <2> DEFINE set == [NoChange EXCEPT !.active = TRUE, !.status = "ACTIVE"]
             j == [step |-> "validate", id |-> i, set |-> set]
  <2>1. set \in Set /\ set.status = "ACTIVE"
    BY <1>0 DEF Set, Statuses, NoChange
  <2>2. FreshOK(j, rows[i], history[i])
    BY <2>1 DEF FreshOK
  <2>3. Start(s, "activate", "validate", i, set)
    BY <1>1 DEF Activate
  <2> HIDE DEF set
  <2> QED BY <2>1, <2>2, <2>3, StartKeeps
<1>2. CASE Discard(s, i)
  <2> DEFINE set == [NoChange EXCEPT !.active = FALSE, !.status = "DISCARDED"]
             j == [step |-> "validate", id |-> i, set |-> set]
  <2>1. set \in Set /\ set.active = FALSE
    BY <1>0 DEF Set, Statuses, NoChange
  <2>2. rows[i] # None /\ rows[i].status # "ACTIVE" /\ rows[i].active = FALSE
    BY <1>2, RowFields DEF Discard, IsActivated, Exists
  <2>3. FreshOK(j, rows[i], history[i])
    BY <2>1, <2>2 DEF FreshOK
  <2>4. Start(s, "discard", "validate", i, set)
    BY <1>2 DEF Discard
  <2> HIDE DEF set
  <2> QED BY <2>1, <2>3, <2>4, StartKeeps
<1>3. CASE Remove(s, i)
  <2> DEFINE set == [NoChange EXCEPT !.active = FALSE]
             step == RemoveStep(rows[i])
             j == [step |-> step, id |-> i, set |-> set]
  <2>1. set \in Set /\ set.active = FALSE /\ set.status = None
    BY <1>0 DEF Set, NoChange
  <2>2. step \in {"history", "delete"}
    BY DEF RemoveStep
  <2>3. step = "delete" => rows[i].status # "ACTIVE"
    BY DEF RemoveStep, IsActivated
  <2>4. Start(s, "remove", step, i, set)
    BY <1>3 DEF Remove
  <2> HIDE DEF set, step
  <2>5. FreshOK(j, rows[i], history[i])
    BY <2>1, <2>2, <2>3, TargetsAssumption DEF FreshOK, Statuses
  <2> QED BY <2>1, <2>2, <2>4, <2>5, StartKeeps
<1>4. CASE Monitor(s, i)
  <2> DEFINE j == [step |-> "snapshot", id |-> i, set |-> NoChange]
  <2>1. rows[i] # None /\ rows[i].status = "ACTIVE"
    BY <1>4 DEF Monitor, Exists, IsActiveTarget
  <2>2. FreshOK(j, rows[i], history[i])
    BY <2>1, TargetsAssumption DEF FreshOK, NoChange, Statuses
  <2>3. Start(s, "monitor", "snapshot", i, NoChange)
    BY <1>4 DEF Monitor
  <2> QED BY <1>0, <2>2, <2>3, StartKeeps
<1>5. ASSUME NEW b \in BOOLEAN, PatchActive(s, i, b) PROVE Inv'
  <2> DEFINE set == Patch(rows[i], b)
             j == [step |-> "validate", id |-> i, set |-> set]
  <2>1. set \in Set /\ set.status \in {"ACTIVE", None} /\ set.active = b
        /\ (b /\ rows[i].status # "ACTIVE" => set.status = "ACTIVE")
    BY <1>0 DEF Patch, Set, Statuses, NoChange
  <2>2. Exists(i) /\ Start(s, "patch", "validate", i, set)
    BY <1>5 DEF PatchActive
  <2> HIDE DEF set
  <2>3. FreshOK(j, rows[i], history[i])
    BY <2>1, <2>2, TargetsAssumption DEF FreshOK, Exists, Statuses
  <2> QED BY <2>1, <2>2, <2>3, StartKeeps
<1>6. ASSUME NEW u \in Urls, Edit(s, i, u) PROVE Inv'
  <2> DEFINE set == [NoChange EXCEPT !.url = u]
             j == [step |-> "lookup", id |-> i, set |-> set]
  <2>1. set \in Set /\ set.active = None /\ set.status = None
    BY <1>0 DEF Set, NoChange
  <2>2. Start(s, "edit", "lookup", i, set)
    BY <1>6 DEF Edit
  <2> HIDE DEF set
  <2>3. FreshOK(j, rows[i], history[i])
    BY <2>1, TargetsAssumption DEF FreshOK, Statuses
  <2> QED BY <2>1, <2>2, <2>3, StartKeeps
<1> QED BY <1>1, <1>2, <1>3, <1>4, <1>5, <1>6

\* Requests that begin by looking for a url.
LEMMA LookForKeepsInv ==
    ASSUME Inv, NEW s \in Sessions, NEW u \in Urls,
           \/ AddCandidate(s, u) \/ AddManual(s, u)
           \/ \E verdict \in {"SUGGESTED", "DISCARDED"} : Upsert(s, u, verdict)
    PROVE  Inv'
<1>0. NoChange \in Set /\ None \in Ids \cup {None}
  BY NoChangeType
<1>1. ASSUME NEW set \in Row, NEW op, set.active = TRUE => set.status = "ACTIVE",
             Start(s, op, "insert", None, set)
      PROVE  Inv'
  <2>1. set \in Set
    BY <1>1 DEF Row, Set
  <2> QED BY <1>0, <1>1, <2>1, StartKeeps
<1>2. CASE AddCandidate(s, u)
  <2> DEFINE set == [url |-> u, active |-> FALSE, status |-> "SUGGESTED",
                     source |-> "MANUAL"]
  <2>1. set \in Row /\ set.active = FALSE
    BY DEF Row, Statuses, Sources
  <2>2. Start(s, "add", "insert", None, set)
    BY <1>2 DEF AddCandidate
  <2> HIDE DEF set
  <2> QED BY <1>1, <2>1, <2>2
<1>3. CASE AddManual(s, u)
  <2>1. Manual(u) \in Row /\ Manual(u) \in Set /\ Manual(u).status = "ACTIVE"
    BY DEF Manual, Row, Set, Statuses, Sources
  <2>2. CASE Start(s, "manual", "insert", None, Manual(u))
    BY <1>1, <2>1, <2>2
  <2>3. ASSUME NEW i \in WithUrl(u), Start(s, "manual", "validate", i, Manual(u))
        PROVE  Inv'
    <3>1. i \in Ids
      BY DEF WithUrl
    <3>2. FreshOK([step |-> "validate", id |-> i, set |-> Manual(u)], rows[i], history[i])
      BY <2>1 DEF FreshOK
    <3> QED BY <2>1, <2>3, <3>1, <3>2, StartKeeps
  <2> QED BY <1>3, <2>2, <2>3 DEF AddManual
<1>4. ASSUME NEW verdict \in {"SUGGESTED", "DISCARDED"}, Upsert(s, u, verdict)
      PROVE  Inv'
  <2> DEFINE new == [url |-> u, active |-> FALSE, status |-> verdict, source |-> "SITEMAP"]
  <2>1. CASE Start(s, "upsert", "insert", None, new)
    <3>1. new \in Row /\ new.active = FALSE
      BY DEF Row, Statuses, Sources
    <3> HIDE DEF new
    <3> QED BY <1>1, <2>1, <3>1
  <2>2. ASSUME NEW i \in WithUrl(u),
               Start(s, "upsert", "validate", i, Rediscovered(rows[i], verdict))
        PROVE  Inv'
    <3> DEFINE set == Rediscovered(rows[i], verdict)
               j == [step |-> "validate", id |-> i, set |-> set]
    <3>1. i \in Ids /\ Exists(i)
      BY DEF WithUrl
    <3>2. set \in Set /\ set.active = None
          /\ set.status = IF IsActivated(rows[i]) THEN None ELSE verdict
      BY <1>0 DEF Rediscovered, Set, Statuses, Sources, NoChange
    <3>3. Start(s, "upsert", "validate", i, set)
      BY <2>2
    <3> HIDE DEF set
    <3>4. ~IsActivated(rows[i]) => rows[i].status # "ACTIVE" /\ rows[i].active = FALSE
      BY <3>1, RowFields DEF IsActivated
    <3>5. FreshOK(j, rows[i], history[i])
      BY <3>1, <3>2, <3>4, TargetsAssumption DEF FreshOK, Exists, Statuses
    <3> QED BY <3>1, <3>2, <3>3, <3>5, StartKeeps
  <2> QED BY <1>4, <2>1, <2>2 DEF Upsert
<1> QED BY <1>2, <1>3, <1>4

\* What the last call of a request leaves.
LEMMA WriteType ==
    ASSUME Inv, NEW s \in Sessions, Write(s)
    PROVE  /\ rows' \in [Ids -> Row \cup {None}]
           /\ \A i \in Ids : rows'[i] # None => rows[i] # None
<1> DEFINE i == sess[s].id
           merged == Merge(rows[i], sess[s].set)
<1>1. sess[s] \in Session /\ SessOK(sess[s]) /\ rows \in [Ids -> Row \cup {None}]
  BY DEF Inv, TypeOK, SessInv
<1>2. i \in Ids /\ sess[s].set \in Set
  BY <1>1, SessionFields DEF Write, At, SessOK
<1>3. Exists(i) => merged \in Row
  BY <1>2, RowFields, MergeType
<1>4. rows' = IF Exists(i) /\ UrlIsFree(merged.url, i) THEN [rows EXCEPT ![i] = merged]
                                                       ELSE rows
  BY DEF Write
<1> HIDE DEF merged, i
<1> QED BY <1>1, <1>2, <1>3, <1>4 DEF Exists

LEMMA StepKeepsInv ==
    ASSUME Inv, NEW s \in Sessions,
           \/ LookUp(s) \/ InspectHistory(s) \/ Validate(s) \/ Write(s)
           \/ Insert(s) \/ Delete(s) \/ TakeSnapshot(s) \/ GiveUp(s)
    PROVE  Inv'
<1>0. /\ rows \in [Ids -> Row \cup {None}] /\ used \in SUBSET Ids
      /\ history \in [Ids -> BOOLEAN] /\ \A i \in Ids : rows[i] # None => i \in used
      /\ sess[s] \in Session /\ SessOK(sess[s])
  BY DEF Inv, TypeOK, SessInv
<1>1. CASE Done(s) /\ UNCHANGED <<rows, used, history>>
  BY <1>0, <1>1, DoneKeeps
<1>2. CASE LookUp(s)
  <2>1. CASE Proceed(s, "validate")
    BY <1>2, <2>1, ProceedKeeps DEF LookUp, At
  <2> QED BY <1>1, <1>2, <2>1 DEF LookUp
<1>3. CASE InspectHistory(s)
  <2> DEFINE step == IF history[sess[s].id] THEN "validate" ELSE "delete"
  <2>1. sess[s].id \in Ids
    BY <1>0, <1>3 DEF InspectHistory, At, SessOK
  <2>2. step \in {"validate", "delete"} /\ (step = "delete" => history[sess[s].id] = FALSE)
    BY <1>0, <2>1
  <2>3. Proceed(s, step) /\ UNCHANGED <<rows, used, history>> /\ sess[s].step = "history"
    BY <1>3 DEF InspectHistory, At
  <2> HIDE DEF step
  <2> QED BY <2>2, <2>3, ProceedKeeps
<1>4. CASE Validate(s)
  <2>1. CASE Proceed(s, "write")
    BY <1>4, <2>1, ProceedKeeps DEF Validate, At
  <2> QED BY <1>1, <1>4, <2>1 DEF Validate
<1>5. CASE Write(s)
  BY <1>0, <1>5, WriteType, DoneKeeps DEF Write
<1>6. CASE Insert(s)
  <2>1. CASE UNCHANGED <<rows, used>>
    BY <1>1, <1>6, <2>1 DEF Insert
  <2>2. ASSUME NEW i \in Ids \ used, rows' = [rows EXCEPT ![i] = sess[s].set],
               used' = used \cup {i}
        PROVE  Inv'
    <3>1. sess[s].set \in Row
      BY <1>0, <1>6 DEF Insert, At, SessOK
    <3> QED BY <1>0, <1>6, <2>2, <3>1, DoneKeeps DEF Insert
  <2> QED BY <1>6, <2>1, <2>2 DEF Insert
<1>7. CASE Delete(s)
  BY <1>0, <1>7, DoneKeeps DEF Delete
<1>8. CASE TakeSnapshot(s)
  BY <1>0, <1>8, DoneKeeps DEF TakeSnapshot
<1>9. CASE GiveUp(s)
  BY <1>1, <1>9 DEF GiveUp
<1> QED BY <1>2, <1>3, <1>4, <1>5, <1>6, <1>7, <1>8, <1>9

\* The documents that the exclusion purge discards, and what it makes of them.
LEMMA PurgeEffect ==
    ASSUME Inv, Purge
    PROVE  /\ rows' \in [Ids -> Row \cup {None}]
           /\ \A i \in Ids :
                 \/ rows'[i] = rows[i]
                 \/ /\ rows[i] # None /\ rows[i].status # "ACTIVE"
                    /\ rows'[i] # None /\ rows'[i].url = rows[i].url
                    /\ rows'[i].active = FALSE
<1>1. rows \in [Ids -> Row \cup {None}]
  BY DEF Inv, TypeOK
<1>2. ASSUME NEW i \in Ids, Exists(i)
      PROVE  LET r == [rows[i] EXCEPT !.active = FALSE, !.status = "DISCARDED"]
             IN  r \in Row /\ r.url = rows[i].url /\ r.active = FALSE
  BY <1>2, RowFields DEF Row, Statuses
<1>3. ASSUME NEW i \in Ids
      PROVE  /\ rows'[i] \in Row \cup {None}
             /\ \/ rows'[i] = rows[i]
                \/ /\ rows[i] # None /\ rows[i].status # "ACTIVE"
                   /\ rows'[i] # None /\ rows'[i].url = rows[i].url
                   /\ rows'[i].active = FALSE
  BY <1>1, <1>2, TargetsAssumption DEF Purge, Exists
<1>4. rows' = [i \in Ids |-> rows'[i]]
  BY DEF Purge
<1> QED BY <1>3, <1>4

LEMMA PurgeKeepsInv ==
    ASSUME Inv, Purge
    PROVE  Inv'
<1>1. /\ rows' \in [Ids -> Row \cup {None}] /\ \A i \in Ids : rows'[i] # None => rows[i] # None
  BY PurgeEffect
<1>2. UNCHANGED <<used, history, sess>>
      /\ overtaken' = overtaken \cup {o \in Sessions : sess[o].id # None /\ Changed(sess[o].id)}
  BY DEF Purge
<1>3. overtaken' \in SUBSET {o \in Sessions : sess'[o] # Idle}
  <2>1. overtaken \in SUBSET {o \in Sessions : sess[o] # Idle} /\ Idle.id = None
    BY DEF Inv, TypeOK, Idle
  <2> QED BY <2>1, <1>2
<1>4. FreshInv'
  <2> SUFFICES ASSUME NEW o \in Sessions \ overtaken', sess'[o].id # None
               PROVE  FreshOK(sess'[o], rows'[sess'[o].id], history'[sess'[o].id])
    BY DEF FreshInv
  <2>1. sess'[o] = sess[o] /\ o \notin overtaken /\ ~Changed(sess[o].id)
    BY <1>2
  <2>2. rows'[sess[o].id] = rows[sess[o].id] /\ history'[sess[o].id] = history[sess[o].id]
    BY <2>1 DEF Changed
  <2> QED BY <2>1, <2>2 DEF Inv, FreshInv
<1> QED BY <1>1, <1>2, <1>3, <1>4 DEF Inv, TypeOK, SessInv

LEMMA NextKeepsInv == Inv /\ [Next]_vars => Inv'
<1> SUFFICES ASSUME Inv, [Next]_vars PROVE Inv'
  OBVIOUS
<1>1. CASE UNCHANGED vars
  <2>1. \A i \in Ids : rows' = rows /\ history' = history
    BY <1>1 DEF vars
  <2> QED BY <1>1 DEF vars, Inv, TypeOK, SessInv, FreshInv
<1> QED BY <1>1, BeginKeepsInv, LookForKeepsInv, StepKeepsInv, PurgeKeepsInv DEF Next

-----------------------------------------------------------------------------
(* Urls.                                                                   *)

\* Changing or adding the document i to one whose url no other document has.
LEMMA FreeUrlIsUnique ==
    ASSUME UrlsAreUnique, NEW i \in Ids, NEW r, rows \in [Ids -> Row \cup {None}],
           rows' = [rows EXCEPT ![i] = r], WithUrl(r.url) \subseteq {i}
    PROVE  UrlsAreUnique'
<1> SUFFICES ASSUME NEW k \in Ids, NEW l \in Ids, k # l, rows'[k] # None, rows'[l] # None
             PROVE  rows'[k].url # rows'[l].url
  BY DEF UrlsAreUnique, Exists
<1>1. rows'[i] = r /\ \A o \in Ids \ {i} : rows'[o] = rows[o]
  OBVIOUS
<1>2. \A o \in Ids \ {i} : rows[o] # None => rows[o].url # r.url
  BY DEF WithUrl, Exists
<1> QED BY <1>1, <1>2 DEF UrlsAreUnique, Exists

LEMMA NextKeepsUrls == Inv /\ UrlsAreUnique /\ [Next]_vars => UrlsAreUnique'
<1> SUFFICES ASSUME Inv, UrlsAreUnique, [Next]_vars PROVE UrlsAreUnique'
  OBVIOUS
<1>0. rows \in [Ids -> Row \cup {None}]
  BY DEF Inv, TypeOK
<1>1. CASE UNCHANGED rows
  BY <1>1 DEF UrlsAreUnique, Exists
<1>2. ASSUME NEW s \in Sessions, Write(s) PROVE UrlsAreUnique'
  <2> DEFINE i == sess[s].id
             merged == Merge(rows[i], sess[s].set)
  <2>1. i \in Ids
    BY <1>2 DEF Write, At, Inv, SessInv, SessOK
  <2>2. CASE Exists(i) /\ UrlIsFree(merged.url, i)
    <3>1. rows' = [rows EXCEPT ![i] = merged] /\ WithUrl(merged.url) \subseteq {i}
      BY <1>2, <2>2 DEF Write, UrlIsFree
    <3> HIDE DEF merged, i
    <3> QED BY <1>0, <2>1, <3>1, FreeUrlIsUnique
  <2>3. CASE ~(Exists(i) /\ UrlIsFree(merged.url, i))
    BY <1>1, <1>2, <2>3 DEF Write
  <2> QED BY <2>2, <2>3
<1>3. ASSUME NEW s \in Sessions, Insert(s) PROVE UrlsAreUnique'
  <2>1. CASE UrlIsFree(sess[s].set.url, None)
    <3>1. PICK i \in Ids \ used : rows' = [rows EXCEPT ![i] = sess[s].set]
      BY <1>3, <2>1 DEF Insert
    <3>2. WithUrl(sess[s].set.url) \subseteq {i}
      BY <2>1, TargetsAssumption DEF UrlIsFree, WithUrl
    <3> QED BY <1>0, <3>1, <3>2, FreeUrlIsUnique
  <2>2. CASE ~UrlIsFree(sess[s].set.url, None)
    BY <1>1, <1>3, <2>2 DEF Insert
  <2> QED BY <2>1, <2>2
<1>4. ASSUME NEW s \in Sessions, Delete(s) PROVE UrlsAreUnique'
  BY <1>0, <1>4 DEF Delete, UrlsAreUnique, Exists
<1>5. CASE Purge
  BY <1>5, PurgeEffect DEF UrlsAreUnique, Exists
<1>6. CASE \E s \in Sessions : LookUp(s) \/ InspectHistory(s) \/ Validate(s)
                               \/ TakeSnapshot(s) \/ GiveUp(s)
  BY <1>1, <1>6 DEF LookUp, InspectHistory, Validate, TakeSnapshot, GiveUp
<1>7. CASE \E s \in Sessions, i \in Ids :
             \/ Activate(s, i) \/ Discard(s, i) \/ Remove(s, i) \/ Monitor(s, i)
             \/ \E b \in BOOLEAN : PatchActive(s, i, b)
             \/ \E u \in Urls : Edit(s, i, u)
  BY <1>1, <1>7 DEF Activate, Discard, Remove, Monitor, PatchActive, Edit, Start
<1>8. CASE \E s \in Sessions, u \in Urls :
             \/ AddCandidate(s, u) \/ AddManual(s, u)
             \/ \E verdict \in {"SUGGESTED", "DISCARDED"} : Upsert(s, u, verdict)
  BY <1>1, <1>8 DEF AddCandidate, AddManual, Upsert, Start
<1>9. CASE UNCHANGED vars
  BY <1>1, <1>9 DEF vars
<1> QED BY <1>2, <1>3, <1>4, <1>5, <1>6, <1>7, <1>8, <1>9 DEF Next

-----------------------------------------------------------------------------
(* What a request that nobody overtook does to documents and their history. *)

SafeStep ==
    /\ KeepsActivation
    /\ ActiveIsActivated => ActiveIsActivated'
    /\ HistoryKeepsTarget => HistoryKeepsTarget'

LEMMA QuietIsSafe ==
    ASSUME rows' = rows, history' = history, history \in [Ids -> BOOLEAN]
    PROVE  SafeStep
BY DEF SafeStep, KeepsActivation, ActiveIsActivated, HistoryKeepsTarget, Exists

\* A session that ends and was not overtaken had decided on the document as it is.
LEMMA EndingIsFresh ==
    ASSUME Inv, NEW s \in Sessions, Done(s), sess[s].step # "idle", ~OvertakenStep,
           sess[s].id # None
    PROVE  FreshOK(sess[s], rows[sess[s].id], history[sess[s].id])
<1>1. sess'[s] = Idle
  BY DEF Done, Inv, TypeOK
<1>2. s \notin overtaken
  BY <1>1 DEF OvertakenStep, Idle
<1> QED BY <1>2 DEF Inv, FreshInv

LEMMA FreshWriteIsSafe ==
    ASSUME Inv, NEW s \in Sessions, Write(s), ~OvertakenStep
    PROVE  SafeStep
<1> DEFINE i == sess[s].id
           set == sess[s].set
           merged == Merge(rows[i], set)
<1>0. sess[s] \in Session /\ SessOK(sess[s]) /\ rows \in [Ids -> Row \cup {None}]
      /\ history \in [Ids -> BOOLEAN]
  BY DEF Inv, TypeOK, SessInv
<1>1. i \in Ids /\ i # None /\ set \in Set /\ Done(s) /\ sess[s].step = "write"
  BY <1>0, SessionFields, TargetsAssumption DEF Write, At, SessOK
<1>2. FreshOK(sess[s], rows[i], history[i])
  BY <1>1, EndingIsFresh
<1>3. CASE UNCHANGED rows
  BY <1>0, <1>3, QuietIsSafe DEF Write
<1>4. CASE Exists(i) /\ rows' = [rows EXCEPT ![i] = merged]
  <2>1. rows[i] \in Row /\ rows[i].active \in BOOLEAN /\ rows[i].status \in Statuses
    BY <1>1, <1>4, RowFields
  <2>2. /\ merged \in Row /\ merged # None
        /\ merged.active = Field(set.active, rows[i].active)
        /\ merged.status = Field(set.status, rows[i].status)
    BY <1>1, <2>1, MergeType, TargetsAssumption
  <2>3. set.active \in BOOLEAN \cup {None} /\ set.status \in Statuses \cup {None}
    BY <1>1 DEF Set
  <2>4. /\ set.status \in {"SUGGESTED", "DISCARDED"} =>
              rows[i].status # "ACTIVE" /\ rows[i].active = FALSE
        /\ set.active = TRUE /\ set.status # "ACTIVE" => rows[i].status = "ACTIVE"
    BY <1>2 DEF FreshOK
  <2> HIDE DEF merged, set, i
  <2>5. rows[i].status = "ACTIVE" => merged.status = "ACTIVE"
    BY <2>2, <2>3, <2>4 DEF Field, Statuses
  <2>6. ASSUME rows[i].active => rows[i].status = "ACTIVE", merged.active = TRUE
        PROVE  merged.status = "ACTIVE"
    <3>1. CASE set.active = TRUE
      <4>1. set.status # "ACTIVE" => rows[i].status = "ACTIVE"
        BY <2>4, <3>1, Zenon
      <4>2. set.status = "ACTIVE" => merged.status = "ACTIVE"
        BY <2>2, TargetsAssumption DEF Field, Statuses
      <4> QED BY <2>5, <4>1, <4>2
    <3>2. CASE set.active # TRUE
      <4>1. rows[i].active = TRUE
        BY <2>1, <2>2, <2>3, <2>6, <3>2, Zenon DEF Field
      <4> QED BY <2>5, <2>6, <4>1
    <3> QED BY <3>1, <3>2
  <2>7. rows'[i] = merged /\ \A k \in Ids \ {i} : rows'[k] = rows[k]
    BY <1>0, <1>1, <1>4
  <2>8. history' = history
    BY DEF Write
  <2>9. KeepsActivation
    BY <2>2, <2>5, <2>7 DEF KeepsActivation, Exists
  <2>10. ActiveIsActivated => ActiveIsActivated'
    <3> SUFFICES ASSUME ActiveIsActivated, NEW k \in Ids, rows'[k] # None, rows'[k].active
                 PROVE  rows'[k].status = "ACTIVE"
      BY DEF ActiveIsActivated, Exists
    <3>1. CASE k = i
      <4>1. merged.active = TRUE
        BY <2>2, <2>7, <3>1 DEF Row
      <4>2. rows[i].active => rows[i].status = "ACTIVE"
        BY <1>1, <1>4 DEF ActiveIsActivated
      <4> QED BY <2>6, <2>7, <3>1, <4>1, <4>2
    <3>2. CASE k # i
      BY <2>7, <3>2 DEF ActiveIsActivated, Exists
    <3> QED BY <3>1, <3>2
  <2>11. HistoryKeepsTarget => HistoryKeepsTarget'
    BY <2>2, <2>5, <2>7, <2>8 DEF HistoryKeepsTarget, Exists
  <2> QED BY <2>9, <2>10, <2>11 DEF SafeStep
<1> QED BY <1>3, <1>4 DEF Write

LEMMA InsertIsSafe ==
    ASSUME Inv, NEW s \in Sessions, Insert(s)
    PROVE  SafeStep
<1>0. /\ rows \in [Ids -> Row \cup {None}] /\ history \in [Ids -> BOOLEAN]
      /\ \A i \in Ids : rows[i] # None => i \in used
      /\ SessOK(sess[s]) /\ history' = history
  BY DEF Inv, TypeOK, SessInv, Insert
<1>1. CASE UNCHANGED rows
  BY <1>0, <1>1, QuietIsSafe
<1>2. ASSUME NEW i \in Ids \ used, rows' = [rows EXCEPT ![i] = sess[s].set]
      PROVE  SafeStep
  <2>1. /\ sess[s].set \in Row /\ sess[s].set # None
        /\ sess[s].set.active = TRUE => sess[s].set.status = "ACTIVE"
    BY <1>0, TargetsAssumption DEF Insert, At, SessOK
  <2>2. rows[i] = None /\ rows'[i] = sess[s].set /\ \A k \in Ids \ {i} : rows'[k] = rows[k]
    BY <1>0, <1>2
  <2>3. KeepsActivation
    BY <2>2 DEF KeepsActivation, Exists
  <2>4. ActiveIsActivated => ActiveIsActivated'
    <3>1. sess[s].set.active \in BOOLEAN
      BY <2>1 DEF Row
    <3>2. \A k \in Ids \ {i} : rows'[k] = rows[k]
      BY <2>2
    <3>3. ASSUME ActiveIsActivated, NEW k \in Ids, rows'[k] # None, rows'[k].active
          PROVE  rows'[k].status = "ACTIVE"
      <4>1. CASE k = i
        <5>1. sess[s].set.active = TRUE
          BY <2>2, <3>1, <3>3, <4>1
        <5> QED BY <2>1, <2>2, <4>1, <5>1
      <4>2. CASE k # i
        BY <3>2, <3>3, <4>2 DEF ActiveIsActivated, Exists
      <4> QED BY <4>1, <4>2
    <3> QED BY <3>3 DEF ActiveIsActivated, Exists
  <2>5. HistoryKeepsTarget => HistoryKeepsTarget'
    BY <1>0, <2>2 DEF HistoryKeepsTarget, Exists
  <2> QED BY <2>3, <2>4, <2>5 DEF SafeStep
<1> QED BY <1>1, <1>2 DEF Insert

LEMMA FreshDeleteIsSafe ==
    ASSUME Inv, NEW s \in Sessions, Delete(s), ~OvertakenStep
    PROVE  SafeStep
<1> DEFINE i == sess[s].id
<1>0. rows \in [Ids -> Row \cup {None}] /\ history \in [Ids -> BOOLEAN] /\ SessOK(sess[s])
      /\ sess[s].step = "delete" /\ Done(s) /\ history' = history
  BY DEF Inv, TypeOK, SessInv, Delete, At
<1>1. i \in Ids /\ i # None
  BY <1>0, TargetsAssumption DEF SessOK
<1>2. FreshOK(sess[s], rows[i], history[i])
  BY <1>0, <1>1, EndingIsFresh
<1>3. rows[i] # None /\ rows[i].status = "ACTIVE" => history[i] = FALSE
  BY <1>0, <1>2 DEF FreshOK
<1>4. rows' = [rows EXCEPT ![i] = None]
  BY DEF Delete
<1> HIDE DEF i
<1>5. rows'[i] = None /\ \A k \in Ids \ {i} : rows'[k] = rows[k]
  BY <1>0, <1>1, <1>4
<1>6. KeepsActivation
  BY <1>3, <1>5 DEF KeepsActivation, Exists
<1>7. ActiveIsActivated => ActiveIsActivated'
  BY <1>5 DEF ActiveIsActivated, Exists
<1>8. HistoryKeepsTarget => HistoryKeepsTarget'
  BY <1>0, <1>3, <1>5 DEF HistoryKeepsTarget, Exists
<1> QED BY <1>6, <1>7, <1>8 DEF SafeStep

LEMMA FreshSnapshotIsSafe ==
    ASSUME Inv, NEW s \in Sessions, TakeSnapshot(s), ~OvertakenStep
    PROVE  SafeStep
<1> DEFINE i == sess[s].id
<1>0. rows \in [Ids -> Row \cup {None}] /\ history \in [Ids -> BOOLEAN] /\ SessOK(sess[s])
      /\ sess[s].step = "snapshot" /\ Done(s) /\ rows' = rows
  BY DEF Inv, TypeOK, SessInv, TakeSnapshot, At
<1>1. i \in Ids /\ i # None
  BY <1>0, TargetsAssumption DEF SessOK
<1>2. FreshOK(sess[s], rows[i], history[i])
  BY <1>0, <1>1, EndingIsFresh
<1>3. rows[i] # None /\ rows[i].status = "ACTIVE"
  BY <1>0, <1>2 DEF FreshOK
<1>4. history' = [history EXCEPT ![i] = TRUE]
  BY DEF TakeSnapshot
<1> HIDE DEF i
<1> QED BY <1>0, <1>1, <1>3, <1>4
        DEF SafeStep, KeepsActivation, ActiveIsActivated, HistoryKeepsTarget, Exists

LEMMA PurgeIsSafe ==
    ASSUME Inv, Purge
    PROVE  SafeStep
BY PurgeEffect DEF Purge, SafeStep, KeepsActivation, ActiveIsActivated, HistoryKeepsTarget,
   Exists

LEMMA FreshIsSafe ==
    ASSUME Inv, [Next]_vars
    PROVE  OvertakenStep \/ SafeStep
<1> SUFFICES ASSUME ~OvertakenStep PROVE SafeStep
  OBVIOUS
<1>1. history \in [Ids -> BOOLEAN]
  BY DEF Inv, TypeOK
<1>2. CASE UNCHANGED <<rows, history>>
  BY <1>1, <1>2, QuietIsSafe
<1>3. CASE \E s \in Sessions : LookUp(s) \/ InspectHistory(s) \/ Validate(s) \/ GiveUp(s)
  BY <1>2, <1>3 DEF LookUp, InspectHistory, Validate, GiveUp
<1>4. CASE \E s \in Sessions, i \in Ids :
             \/ Activate(s, i) \/ Discard(s, i) \/ Remove(s, i) \/ Monitor(s, i)
             \/ \E b \in BOOLEAN : PatchActive(s, i, b)
             \/ \E u \in Urls : Edit(s, i, u)
  BY <1>2, <1>4 DEF Activate, Discard, Remove, Monitor, PatchActive, Edit, Start
<1>5. CASE \E s \in Sessions, u \in Urls :
             \/ AddCandidate(s, u) \/ AddManual(s, u)
             \/ \E verdict \in {"SUGGESTED", "DISCARDED"} : Upsert(s, u, verdict)
  BY <1>2, <1>5 DEF AddCandidate, AddManual, Upsert, Start
<1>6. CASE UNCHANGED vars
  BY <1>2, <1>6 DEF vars
<1>7. CASE \E s \in Sessions : Write(s) \/ Insert(s) \/ Delete(s) \/ TakeSnapshot(s)
  BY <1>7, FreshWriteIsSafe, InsertIsSafe, FreshDeleteIsSafe, FreshSnapshotIsSafe
<1> QED BY <1>3, <1>4, <1>5, <1>6, <1>7, PurgeIsSafe DEF Next

-----------------------------------------------------------------------------

\* Every variable stays within its type; in particular a request that changes a
\* document always has one that was given an id, whatever happens to it meanwhile
\* (MonitoringTargetRepository.update and its callers).
THEOREM TypesAreKept == Spec => []TypeOK
<1>1. Inv => TypeOK
  BY DEF Inv
<1> QED BY <1>1, InitInv, NextKeepsInv, PTL DEF Spec

\* A competitor never has one url twice, however requests interleave: the look-ups
\* before an insert or an edit may be stale, the unique index decides
\* (_find_by_url, update and create of MonitoringTargetRepository).
THEOREM OneDocumentPerUrl == Spec => []UrlsAreUnique
<1>1. Init => UrlsAreUnique
  BY DEF Init, UrlsAreUnique, Exists
<1> QED BY <1>1, InitInv, NextKeepsInv, NextKeepsUrls, PTL DEF Spec

\* A request that nobody overtook never takes an activation back, by an upsert of a
\* rediscovery, an edit, a discard, or a removal (upsert_discovered_candidate,
\* remove_candidate); the purge, which nothing can overtake, does not either.
THEOREM ActivationSurvives == Spec => FreshKeepsActivation
<1>1. Inv /\ [Next]_vars => [OvertakenStep \/ KeepsActivation]_vars
  BY FreshIsSafe DEF SafeStep
<1> QED BY <1>1, InitInv, NextKeepsInv, PTL DEF Spec, FreshKeepsActivation

\* As long as no request is overtaken, an active document is an ACTIVE one: the check
\* that update makes on the document it reads is then enough.
THEOREM ActiveSurvives == Spec => FreshKeepsActive
<1>1. Inv /\ [Next]_vars => [OvertakenStep \/ (ActiveIsActivated => ActiveIsActivated')]_vars
  BY FreshIsSafe DEF SafeStep
<1> QED BY <1>1, InitInv, NextKeepsInv, PTL DEF Spec, FreshKeepsActive

\* As long as no request is overtaken, recorded history keeps its target, and the
\* target stays where remove_candidate finds the history.
THEOREM HistorySurvives == Spec => FreshKeepsHistory
<1>1. Inv /\ [Next]_vars => [OvertakenStep \/ (HistoryKeepsTarget => HistoryKeepsTarget')]_vars
  BY FreshIsSafe DEF SafeStep
<1> QED BY <1>1, InitInv, NextKeepsInv, PTL DEF Spec, FreshKeepsHistory
=============================================================================
