-------------------------- MODULE DiscoveryProofs --------------------------
(***************************************************************************)
(* Proofs about discovery runs, for any number of requests, run ids,       *)
(* threads and urls, and for any faults, crashes of Flask included.        *)
(*                                                                         *)
(* A record names the request that inserted it.  RecordOK says what the    *)
(* two know of each other, and WorkInv that a request at work owns the     *)
(* record of its run id: the unique index and the guard on RUNNING in      *)
(* succeed and fail are what keeps both.                                   *)
(***************************************************************************)
EXTENDS DiscoveryRuns, TLAPS

-----------------------------------------------------------------------------
(* The inductive invariant.                                                *)

Flask == [at : {"absent", "lookup"} \cup Working \cup Over,
          found : 0 .. MaxFound, stored : 0 .. MaxFound,
          stats : Requests \cup {None}, answer : Summary \cup {None}]
Shown == {"form", "sending", "waiting", "pending", "result", "complete", "failed", "error"}
Page == [shows : Shown, id : Ids \cup {None}]

\* What a request has counted so far.
CountOK(f) ==
    /\ f.stored <= f.found
    /\ f.at \in {"absent", "lookup", "collect"} => f.stored = 0
    /\ f.at \in {"publish", "record", "respond"} => f.stored = f.found

\* What the page of a request may show, given the request.
PageOK(g, f) ==
    /\ g.shows = "form" <=> g.id = None
    /\ g.shows \in {"form", "sending"} => f.at = "absent"
    /\ g.shows = "result" => f.at = "replied"

\* What a record says of the request that inserted it.
RecordOK(r, f) ==
    /\ r.status = "SUCCESS" =>
          /\ f.at \in {"respond", "replied", "fail", "raised", "unclosed", "dead"}
          /\ r.count = f.found /\ f.stored = f.found
    /\ r.status = "FAILED" => f.at = "raised"
    /\ r.status = "RUNNING" =>
          f.at \in {"collect", "store", "publish", "record", "fail", "unclosed", "dead"}

RecordInv ==
    \A i \in Ids : records[i] # None =>
        /\ page[records[i].by].id = i
        /\ RecordOK(records[i], flask[records[i].by])

\* The record of the run id is that of the request at work, and of the one that answered.
Owner == Working \cup {"replied", "unclosed"}
Owns(q, i) == i \in Ids /\ records[i] # None /\ records[i].by = q
WorkInv == \A q \in Requests : flask[q].at \in Owner => Owns(q, page[q].id)

\* A verdict that a page shows is final.
Says(i, status) == i \in Ids /\ records[i] # None /\ records[i].status = status
VerdictInv ==
    \A q \in Requests :
        /\ page[q].shows = "complete" => Says(page[q].id, "SUCCESS")
        /\ page[q].shows = "failed" => Says(page[q].id, "FAILED")

Inv ==
    /\ TypeOK
    /\ \A q \in Requests : CountOK(flask[q]) /\ PageOK(page[q], flask[q])
    /\ RecordInv
    /\ WorkInv
    /\ VerdictInv

-----------------------------------------------------------------------------
(* Types.                                                                  *)

LEMMA Types ==
    ASSUME Inv
    PROVE  /\ records \in [Ids -> Record \cup {None}] /\ flask \in [Requests -> Flask]
           /\ page \in [Requests -> Page]
           /\ lastSummary \in Summary \cup {None} /\ lastStats \in Requests \cup {None}
BY DEF Inv, TypeOK, Flask, Page, Shown

LEMMA FlaskFields ==
    ASSUME NEW f \in Flask
    PROVE  /\ f.at \in {"absent", "lookup"} \cup Working \cup Over
           /\ f.found \in 0 .. MaxFound /\ f.stored \in 0 .. MaxFound
BY DEF Flask

LEMMA RecordFields ==
    ASSUME NEW r \in Record
    PROVE  /\ r # None /\ r.by \in Requests
           /\ r.status \in {"RUNNING", "SUCCESS", "FAILED"}
BY DiscoveryRunsAssumption DEF Record

\* The record of a request that inserted it is never that of one that has not begun.
LEMMA RecordOf ==
    ASSUME Inv, NEW i \in Ids, records[i] # None
    PROVE  /\ records[i] \in Record /\ records[i].by \in Requests
           /\ records[i].status \in {"RUNNING", "SUCCESS", "FAILED"}
           /\ page[records[i].by].id = i
           /\ RecordOK(records[i], flask[records[i].by])
           /\ flask[records[i].by].at \notin {"absent", "lookup"}
<1>1. records[i] \in Record
  BY Types
<1>2. page[records[i].by].id = i /\ RecordOK(records[i], flask[records[i].by])
  BY DEF Inv, RecordInv
<1> QED BY <1>1, <1>2, RecordFields DEF RecordOK

-----------------------------------------------------------------------------
(* The two kinds of step: one of Flask and one of the page.                *)

LEMMA ServeStepKeeps ==
    ASSUME Inv, NEW q \in Requests, NEW f \in Flask, NEW i \in Ids, i = page[q].id,
           flask' = [flask EXCEPT ![q] = f], UNCHANGED page,
           flask[q].at \notin {"absent", "replied"}, f.at # "absent", CountOK(f),
           lastSummary' \in Summary \cup {None}, lastStats' \in Requests \cup {None},
           records' \in [Ids -> Record \cup {None}],
           \A j \in Ids \ {i} : records'[j] = records[j],
           records'[i] # records[i] =>
               /\ records'[i] # None /\ records'[i].by = q
               /\ records[i] # None => records[i].by = q /\ records[i].status = "RUNNING",
           f.at \in Owner => records'[i] # None /\ records'[i].by = q,
           records'[i] # None /\ records'[i].by = q => RecordOK(records'[i], f)
    PROVE  Inv'
<1>1. flask' \in [Requests -> Flask] /\ flask'[q] = f
      /\ \A p \in Requests \ {q} : flask'[p] = flask[p]
  BY Types
<1>2. TypeOK'
  BY <1>1, Types DEF TypeOK, Flask, Page, Shown
<1>3. \A p \in Requests : CountOK(flask'[p]) /\ PageOK(page'[p], flask'[p])
  <2>1. CountOK(flask'[q]) /\ PageOK(page'[q], flask'[q])
    BY <1>1 DEF Inv, PageOK
  <2>2. \A p \in Requests \ {q} : CountOK(flask'[p]) /\ PageOK(page'[p], flask'[p])
    BY <1>1 DEF Inv
  <2> QED BY <2>1, <2>2
<1>4. RecordInv'
  <2> SUFFICES ASSUME NEW j \in Ids, records'[j] # None
               PROVE  /\ page[records'[j].by].id = j
                      /\ RecordOK(records'[j], flask'[records'[j].by])
    BY DEF RecordInv
  <2>1. CASE records'[j].by = q /\ j = i
    BY <1>1, <2>1
  <2>2. CASE ~(records'[j].by = q /\ j = i)
    <3>1. records'[j] = records[j]
      BY <2>2
    <3>2. page[records[j].by].id = j /\ RecordOK(records[j], flask[records[j].by])
          /\ records[j].by \in Requests
      BY <3>1, RecordOf
    <3>3. records[j].by # q
      BY <2>2, <3>1, <3>2
    <3> QED BY <1>1, <3>1, <3>2, <3>3
  <2> QED BY <2>1, <2>2
<1>5. WorkInv'
  <2> SUFFICES ASSUME NEW p \in Requests, flask'[p].at \in Owner
               PROVE  page[p].id \in Ids /\ records'[page[p].id] # None
                      /\ records'[page[p].id].by = p
    BY DEF WorkInv, Owns
  <2>1. CASE p = q
    BY <1>1, <2>1
  <2>2. CASE p # q
    BY <1>1, <2>2 DEF Inv, WorkInv, Owns
  <2> QED BY <2>1, <2>2
<1>6. VerdictInv'
  <2>1. \A j \in Ids : records[j] # None /\ records[j].status # "RUNNING" =>
            records'[j] = records[j]
    OBVIOUS
  <2> QED BY <2>1 DEF Inv, VerdictInv, Says
<1> QED BY <1>2, <1>3, <1>4, <1>5, <1>6 DEF Inv

LEMMA BrowseStepKeeps ==
    ASSUME Inv, NEW q \in Requests, NEW f \in Flask, NEW g \in Page,
           UNCHANGED <<records, lastSummary, lastStats>>,
           flask' = [flask EXCEPT ![q] = f], page' = [page EXCEPT ![q] = g],
           f = flask[q] \/ (flask[q].at = "absent" /\ f.at \notin Owner),
           g.id = page[q].id \/ flask[q].at = "absent",
           CountOK(f), PageOK(g, f),
           g.shows = "complete" => Says(g.id, "SUCCESS"),
           g.shows = "failed" => Says(g.id, "FAILED")
    PROVE  Inv'
<1>1. /\ flask' \in [Requests -> Flask] /\ flask'[q] = f
      /\ page' \in [Requests -> Page] /\ page'[q] = g
      /\ \A p \in Requests \ {q} : flask'[p] = flask[p] /\ page'[p] = page[p]
  BY Types
<1>2. TypeOK'
  BY <1>1, Types DEF TypeOK, Flask, Page, Shown
<1>3. \A p \in Requests : CountOK(flask'[p]) /\ PageOK(page'[p], flask'[p])
  BY <1>1 DEF Inv
<1>4. RecordInv'
  <2> SUFFICES ASSUME NEW i \in Ids, records[i] # None
               PROVE  /\ page'[records[i].by].id = i
                      /\ RecordOK(records[i], flask'[records[i].by])
    BY DEF RecordInv
  <2> QED BY <1>1, RecordOf
<1>5. WorkInv'
  <2> SUFFICES ASSUME NEW p \in Requests, flask'[p].at \in Owner
               PROVE  Owns(p, page'[p].id)
    BY DEF WorkInv, Owns
  <2>1. flask'[p] = flask[p] /\ page'[p].id = page[p].id
    BY <1>1 DEF Owner, Working
  <2> QED BY <2>1 DEF Inv, WorkInv
<1>6. VerdictInv'
  BY <1>1 DEF Inv, VerdictInv, Says
<1> QED BY <1>2, <1>3, <1>4, <1>5, <1>6 DEF Inv

-----------------------------------------------------------------------------
(* The steps of Flask.                                                     *)

\* A request that was sent has a run id.
LEMMA IdOf ==
    ASSUME Inv, NEW q \in Requests, flask[q].at # "absent"
    PROVE  page[q].id \in Ids
<1>1. page[q] \in Page /\ PageOK(page[q], flask[q])
  BY Types DEF Inv
<1> QED BY <1>1 DEF PageOK, Page

\* A step that leaves the records alone.
LEMMA ServeGoes ==
    ASSUME Inv, NEW q \in Requests, NEW f \in Flask,
           flask' = [flask EXCEPT ![q] = f], UNCHANGED <<records, page>>,
           lastSummary' \in Summary \cup {None}, lastStats' \in Requests \cup {None},
           flask[q].at \notin {"absent", "replied"}, f.at # "absent", CountOK(f),
           f.at \in Owner => flask[q].at \in Owner,
           \A r \in Record : RecordOK(r, flask[q]) => RecordOK(r, f)
    PROVE  Inv'
<1>1. page[q].id \in Ids
  BY IdOf
<1>2. f.at \in Owner => records[page[q].id] # None /\ records[page[q].id].by = q
  BY DEF Inv, WorkInv, Owns
<1>3. records[page[q].id] # None /\ records[page[q].id].by = q => RecordOK(records[page[q].id], f)
  BY <1>1, RecordOf
<1> QED BY <1>1, <1>2, <1>3, Types, ServeStepKeeps

\* What Close does to the record of a run id: nothing once it says SUCCESS or FAILED.
LEMMA CloseFacts ==
    ASSUME Inv, NEW i \in Ids, records[i] # None, NEW status \in {"SUCCESS", "FAILED"},
           NEW count \in 0 .. MaxFound \cup {None}, NEW summary \in Summary \cup {None}
    PROVE  LET c == Close(i, status, count, summary)
           IN  /\ c \in [Ids -> Record \cup {None}]
               /\ \A j \in Ids \ {i} : c[j] = records[j]
               /\ c[i] \in Record /\ c[i].by = records[i].by
               /\ records[i].status # "RUNNING" => c[i] = records[i]
               /\ records[i].status = "RUNNING" => c[i].status = status /\ c[i].count = count
<1> DEFINE r == [records[i] EXCEPT !.status = status, !.count = count, !.summary = summary]
<1>1. records[i] \in Record /\ records \in [Ids -> Record \cup {None}]
  BY RecordOf, Types
<1>2. r \in Record /\ r.by = records[i].by /\ r.status = status /\ r.count = count
  BY <1>1 DEF Record
<1>3. CASE records[i].status = "RUNNING"
  <2>1. Close(i, status, count, summary) = [records EXCEPT ![i] = r]
    BY <1>1, <1>3 DEF Close
  <2> HIDE DEF r
  <2> QED BY <1>1, <1>2, <1>3, <2>1
<1>4. CASE records[i].status # "RUNNING"
  BY <1>1, <1>4 DEF Close
<1> QED BY <1>3, <1>4

\* A step that closes the record of its run, or leaves it if it is closed.
LEMMA CloseKeeps ==
    ASSUME Inv, NEW q \in Requests, NEW f \in Flask, NEW status \in {"SUCCESS", "FAILED"},
           NEW count \in 0 .. MaxFound \cup {None}, NEW summary \in Summary \cup {None},
           flask' = [flask EXCEPT ![q] = f], UNCHANGED <<lastSummary, lastStats, page>>,
           records' = Close(page[q].id, status, count, summary),
           flask[q].at \in Working, f.at # "absent", CountOK(f),
           \A r \in Record : RecordOK(r, flask[q]) /\ r.status # "RUNNING" => RecordOK(r, f),
           \A r \in Record : r.status = status /\ r.count = count => RecordOK(r, f)
    PROVE  Inv'
<1> DEFINE i == page[q].id
<1>1. flask[q].at \in Owner /\ flask[q].at \notin {"absent", "replied"}
  BY DEF Working, Owner
<1>2. i \in Ids /\ records[i] # None /\ records[i].by = q
  BY <1>1 DEF Inv, WorkInv, Owns
<1>3. records[i] \in Record /\ RecordOK(records[i], flask[q])
  BY <1>2, RecordOf
<1> HIDE DEF i
<1>4. /\ records' \in [Ids -> Record \cup {None}]
      /\ \A j \in Ids \ {i} : records'[j] = records[j]
      /\ records'[i] \in Record /\ records'[i].by = records[i].by
      /\ records[i].status # "RUNNING" => records'[i] = records[i]
      /\ records[i].status = "RUNNING" =>
            records'[i].status = status /\ records'[i].count = count
  BY <1>2, CloseFacts DEF i
<1>5. RecordOK(records'[i], f) /\ records'[i] # None
  BY <1>3, <1>4, RecordFields
<1>6. lastSummary' \in Summary \cup {None} /\ lastStats' \in Requests \cup {None}
      /\ UNCHANGED page /\ i = page[q].id
  BY Types DEF i
<1> QED BY <1>1, <1>2, <1>4, <1>5, <1>6, ServeStepKeeps

\* What a step changes in the record of its request.
LEMMA FlaskAt ==
    ASSUME NEW f \in Flask, NEW step \in {"lookup"} \cup Working \cup Over
    PROVE  /\ [f EXCEPT !.at = step] \in Flask /\ [f EXCEPT !.at = step].at = step
           /\ [f EXCEPT !.at = step].found = f.found /\ [f EXCEPT !.at = step].stored = f.stored
BY DEF Flask

LEMMA ServeKeepsInv == ASSUME Inv, NEW q \in Requests, Serve(q) PROVE Inv'
<1>0. /\ flask[q] \in Flask /\ CountOK(flask[q])
      /\ lastSummary \in Summary \cup {None} /\ lastStats \in Requests \cup {None}
      /\ flask[q].found \in 0 .. MaxFound /\ flask[q].stored \in 0 .. MaxFound
      /\ \A r \in Record : r.status \in {"RUNNING", "SUCCESS", "FAILED"}
  BY Types, FlaskFields, RecordFields DEF Inv
<1> DEFINE To(step) == [flask[q] EXCEPT !.at = step]
\* insert_one: the unique index keeps the id for the request that has it.
<1>1. CASE StartRun(q)
  <2> DEFINE i == page[q].id
             f == To("collect")
             r == [status |-> "RUNNING", by |-> q, count |-> None, summary |-> None]
  <2>1. /\ flask[q].at = "lookup" /\ records[i] = None /\ flask' = [flask EXCEPT ![q] = f]
        /\ records' = [records EXCEPT ![i] = r] /\ UNCHANGED <<lastSummary, lastStats, page>>
    BY <1>1 DEF StartRun, At, Go, IdIsFree
  <2>2. f \in Flask /\ f.at = "collect" /\ f.stored = flask[q].stored /\ f.found = flask[q].found
    BY <1>0, FlaskAt DEF Working
  <2>3. CountOK(f)
    BY <1>0, <2>1, <2>2 DEF CountOK
  <2>4. r \in Record /\ r.by = q /\ r.status = "RUNNING" /\ i \in Ids
    BY <2>1, IdOf DEF Record
  <2>5. RecordOK(r, f)
    BY <2>2, <2>4 DEF RecordOK
  <2> HIDE DEF f, r
  <2>6. /\ records' \in [Ids -> Record \cup {None}] /\ records'[i] = r /\ r # None
        /\ \A j \in Ids \ {i} : records'[j] = records[j]
    BY <2>1, <2>4, Types, RecordFields
  <2> QED BY <1>0, <2>1, <2>2, <2>3, <2>4, <2>5, <2>6, ServeStepKeeps
<1>2. CASE Refuse(q)
  <2> DEFINE f == To("raised")
  <2>1. /\ flask[q].at = "lookup" /\ flask' = [flask EXCEPT ![q] = f]
        /\ UNCHANGED <<records, lastSummary, lastStats, page>>
    BY <1>2 DEF Refuse, At, Go
  <2>2. f \in Flask /\ f.at = "raised" /\ f.stored = flask[q].stored /\ f.found = flask[q].found
    BY <1>0, FlaskAt DEF Over
  <2> HIDE DEF f
  <2>3. CountOK(f) /\ f.at \notin Owner
    BY <1>0, <2>2 DEF CountOK, Owner, Working
  <2>4. \A r \in Record : ~RecordOK(r, flask[q])
    BY <1>0, <2>1 DEF RecordOK
  <2> QED BY <1>0, <2>1, <2>2, <2>3, <2>4, ServeGoes
<1>3. CASE Collect(q)
  <2>1. PICK n \in 0 .. MaxFound : flask' = [flask EXCEPT ![q].at = "store", ![q].found = n]
    BY <1>3 DEF Collect
  <2> DEFINE f == [flask[q] EXCEPT !.at = "store", !.found = n]
  <2>2. /\ flask[q].at = "collect" /\ flask' = [flask EXCEPT ![q] = f]
        /\ lastStats' \in Requests \cup {None} /\ UNCHANGED <<records, lastSummary, page>>
    BY <1>0, <1>3, <2>1 DEF Collect, At
  <2>3. f \in Flask /\ f.at = "store" /\ f.stored = flask[q].stored /\ f.found = n
    BY <1>0 DEF Flask, Working
  <2> HIDE DEF f
  <2>4. CountOK(f)
    BY <1>0, <2>2, <2>3, DiscoveryRunsAssumption DEF CountOK
  <2>5. \A r \in Record : RecordOK(r, flask[q]) => RecordOK(r, f)
    BY <1>0, <2>2, <2>3 DEF RecordOK
  <2>6. flask[q].at \in Owner
    BY <2>2 DEF Owner, Working
  <2> QED BY <1>0, <2>2, <2>3, <2>4, <2>5, <2>6, ServeGoes
<1>4. CASE Store(q)
  <2> DEFINE f == [flask[q] EXCEPT !.stored = @ + 1]
  <2>1. /\ flask[q].at = "store" /\ flask[q].stored < flask[q].found
        /\ flask' = [flask EXCEPT ![q] = f]
        /\ UNCHANGED <<records, lastSummary, lastStats, page>>
    BY <1>4 DEF Store, At, MoreToStore
  <2>2. flask[q].stored + 1 \in 0 .. MaxFound /\ flask[q].stored + 1 <= flask[q].found
    BY <1>0, <2>1, DiscoveryRunsAssumption
  <2>3. f \in Flask /\ f.at = "store" /\ f.stored = flask[q].stored + 1
        /\ f.found = flask[q].found
    BY <1>0, <2>1, <2>2 DEF Flask
  <2> HIDE DEF f
  <2>4. CountOK(f)
    BY <2>2, <2>3 DEF CountOK
  <2>5. \A r \in Record : RecordOK(r, flask[q]) => RecordOK(r, f)
    BY <1>0, <2>1, <2>3 DEF RecordOK
  <2>6. flask[q].at \in Owner
    BY <2>1 DEF Owner, Working
  <2> QED BY <1>0, <2>1, <2>3, <2>4, <2>5, <2>6, ServeGoes
<1>5. CASE Reconcile(q)
  <2> DEFINE f == [flask[q] EXCEPT !.at = "publish", !.stats = lastStats]
  <2>1. /\ flask[q].at = "store" /\ flask[q].stored = flask[q].found
        /\ flask' = [flask EXCEPT ![q] = f]
        /\ UNCHANGED <<records, lastSummary, lastStats, page>>
    BY <1>5 DEF Reconcile, At, AllStored
  <2>2. f \in Flask /\ f.at = "publish" /\ f.stored = flask[q].stored /\ f.found = flask[q].found
    BY <1>0 DEF Flask, Working
  <2> HIDE DEF f
  <2>3. CountOK(f)
    BY <1>0, <2>1, <2>2 DEF CountOK
  <2>4. \A r \in Record : RecordOK(r, flask[q]) => RecordOK(r, f)
    BY <1>0, <2>1, <2>2 DEF RecordOK
  <2>5. flask[q].at \in Owner
    BY <2>1 DEF Owner, Working
  <2> QED BY <1>0, <2>1, <2>2, <2>3, <2>4, <2>5, ServeGoes
<1>6. CASE Publish(q)
  <2> DEFINE f == To("record")
  <2>1. /\ flask[q].at = "publish" /\ flask' = [flask EXCEPT ![q] = f]
        /\ lastSummary' = [by |-> q, stats |-> flask[q].stats]
        /\ UNCHANGED <<records, lastStats, page>>
    BY <1>6 DEF Publish, At, Go
  <2>2. f \in Flask /\ f.at = "record" /\ f.stored = flask[q].stored /\ f.found = flask[q].found
    BY <1>0, FlaskAt DEF Working
  <2> HIDE DEF f
  <2>3. CountOK(f)
    BY <1>0, <2>1, <2>2 DEF CountOK
  <2>4. \A r \in Record : RecordOK(r, flask[q]) => RecordOK(r, f)
    BY <1>0, <2>1, <2>2 DEF RecordOK
  <2>5. flask[q].at \in Owner /\ lastSummary' \in Summary
    BY <1>0, <2>1 DEF Owner, Working, Summary, Flask
  <2> QED BY <1>0, <2>1, <2>2, <2>3, <2>4, <2>5, ServeGoes
<1>7. CASE Succeed(q)
  <2> DEFINE f == To("respond")
             n == flask[q].stored
             summary == lastSummary
  <2>1. /\ flask[q].at = "record" /\ flask' = [flask EXCEPT ![q] = f]
        /\ records' = Close(page[q].id, "SUCCESS", n, summary)
        /\ UNCHANGED <<lastSummary, lastStats, page>>
    BY <1>7 DEF Succeed, At, Go
  <2>2. f \in Flask /\ f.at = "respond" /\ f.stored = flask[q].stored /\ f.found = flask[q].found
    BY <1>0, FlaskAt DEF Working
  <2> HIDE DEF f
  <2>3. CountOK(f) /\ flask[q].stored = flask[q].found /\ flask[q].at \in Working
        /\ n \in 0 .. MaxFound /\ summary \in Summary \cup {None}
    BY <1>0, <2>1, <2>2 DEF CountOK, Working
  <2>4. \A r \in Record : RecordOK(r, flask[q]) /\ r.status # "RUNNING" => RecordOK(r, f)
    BY <1>0, <2>1 DEF RecordOK
  <2>5. \A r \in Record : r.status = "SUCCESS" /\ r.count = n => RecordOK(r, f)
    BY <2>2, <2>3 DEF RecordOK
  <2> HIDE DEF n, summary
  <2> QED BY <2>1, <2>2, <2>3, <2>4, <2>5, CloseKeeps
\* The update is made or not, and the request goes on to fail.
<1>8. CASE SucceedRaises(q)
  <2> DEFINE f == To("fail")
             n == flask[q].stored
             summary == lastSummary
  <2>1. /\ flask[q].at = "record" /\ flask' = [flask EXCEPT ![q] = f]
        /\ UNCHANGED <<lastSummary, lastStats, page>>
        /\ \/ UNCHANGED records
           \/ records' = Close(page[q].id, "SUCCESS", n, summary)
    BY <1>8 DEF SucceedRaises, At, Go
  <2>2. f \in Flask /\ f.at = "fail" /\ f.stored = flask[q].stored /\ f.found = flask[q].found
    BY <1>0, FlaskAt DEF Working
  <2> HIDE DEF f
  <2>3. CountOK(f) /\ flask[q].stored = flask[q].found
        /\ flask[q].at \in Working /\ flask[q].at \in Owner
        /\ n \in 0 .. MaxFound /\ summary \in Summary \cup {None}
    BY <1>0, <2>1, <2>2 DEF CountOK, Working, Owner
  <2>4. \A r \in Record : RecordOK(r, flask[q]) => r.status = "RUNNING" /\ RecordOK(r, f)
    BY <1>0, <2>1, <2>2 DEF RecordOK
  <2>5. \A r \in Record : r.status = "SUCCESS" /\ r.count = n => RecordOK(r, f)
    BY <2>2, <2>3 DEF RecordOK
  <2>6. CASE UNCHANGED records
    BY <1>0, <2>1, <2>2, <2>3, <2>4, <2>6, ServeGoes
  <2> HIDE DEF n, summary
  <2>7. CASE records' = Close(page[q].id, "SUCCESS", n, summary)
    BY <2>1, <2>2, <2>3, <2>4, <2>5, <2>7, CloseKeeps
  <2> QED BY <2>1, <2>6, <2>7
<1>9. CASE Raise(q)
  <2> DEFINE f == To("fail")
  <2>1. /\ flask[q].at \in {"collect", "store"} /\ flask' = [flask EXCEPT ![q] = f]
        /\ UNCHANGED <<records, lastSummary, lastStats, page>>
    BY <1>9 DEF Raise, Go
  <2>2. f \in Flask /\ f.at = "fail" /\ f.stored = flask[q].stored /\ f.found = flask[q].found
    BY <1>0, FlaskAt DEF Working
  <2> HIDE DEF f
  <2>3. CountOK(f) /\ flask[q].at \in Owner
    BY <1>0, <2>1, <2>2 DEF CountOK, Owner, Working
  <2>4. \A r \in Record : RecordOK(r, flask[q]) => RecordOK(r, f)
    BY <1>0, <2>1, <2>2 DEF RecordOK
  <2> QED BY <1>0, <2>1, <2>2, <2>3, <2>4, ServeGoes
\* fail leaves a record that says SUCCESS as it is.
<1>10. CASE Fail(q)
  <2> DEFINE f == To("raised")
  <2>1. /\ flask[q].at = "fail" /\ flask' = [flask EXCEPT ![q] = f]
        /\ records' = Close(page[q].id, "FAILED", None, None)
        /\ UNCHANGED <<lastSummary, lastStats, page>>
    BY <1>10 DEF Fail, At, Go
  <2>2. f \in Flask /\ f.at = "raised" /\ f.stored = flask[q].stored /\ f.found = flask[q].found
    BY <1>0, FlaskAt DEF Over
  <2> HIDE DEF f
  <2>3. CountOK(f) /\ flask[q].at \in Working
    BY <1>0, <2>1, <2>2 DEF CountOK, Working
  <2>4. \A r \in Record : RecordOK(r, flask[q]) /\ r.status # "RUNNING" => RecordOK(r, f)
    BY <1>0, <2>1, <2>2 DEF RecordOK
  <2>5. \A r \in Record : r.status = "FAILED" /\ r.count = None => RecordOK(r, f)
    BY <2>2 DEF RecordOK
  <2> QED BY <1>0, <2>1, <2>2, <2>3, <2>4, <2>5, CloseKeeps
<1>11. CASE FailRaises(q)
  <2> DEFINE f == To("unclosed")
  <2>1. /\ flask[q].at = "fail" /\ flask' = [flask EXCEPT ![q] = f]
        /\ UNCHANGED <<records, lastSummary, lastStats, page>>
    BY <1>11 DEF FailRaises, At, Go
  <2>2. f \in Flask /\ f.at = "unclosed" /\ f.stored = flask[q].stored
        /\ f.found = flask[q].found
    BY <1>0, FlaskAt DEF Over
  <2> HIDE DEF f
  <2>3. CountOK(f) /\ flask[q].at \in Owner
    BY <1>0, <2>1, <2>2 DEF CountOK, Owner, Working
  <2>4. \A r \in Record : RecordOK(r, flask[q]) => RecordOK(r, f)
    BY <1>0, <2>1, <2>2 DEF RecordOK
  <2> QED BY <1>0, <2>1, <2>2, <2>3, <2>4, ServeGoes
<1>12. CASE Respond(q)
  <2> DEFINE f == [flask[q] EXCEPT !.at = "replied", !.answer = lastSummary]
  <2>1. /\ flask[q].at = "respond" /\ flask' = [flask EXCEPT ![q] = f]
        /\ UNCHANGED <<records, lastSummary, lastStats, page>>
    BY <1>12 DEF Respond, At
  <2>2. f \in Flask /\ f.at = "replied" /\ f.stored = flask[q].stored /\ f.found = flask[q].found
    BY <1>0 DEF Flask, Over
  <2> HIDE DEF f
  <2>3. CountOK(f) /\ flask[q].at \in Owner
    BY <1>0, <2>1, <2>2 DEF CountOK, Owner, Working
  <2>4. \A r \in Record : RecordOK(r, flask[q]) => RecordOK(r, f)
    BY <1>0, <2>1, <2>2 DEF RecordOK
  <2> QED BY <1>0, <2>1, <2>2, <2>3, <2>4, ServeGoes
<1> QED BY <1>1, <1>2, <1>3, <1>4, <1>5, <1>6, <1>7, <1>8, <1>9, <1>10, <1>11, <1>12 DEF Serve

-----------------------------------------------------------------------------
(* The steps of the page, and the crash.                                   *)

\* What Show changes in a page.
LEMMA PageShows ==
    ASSUME NEW g \in Page, NEW what \in Shown
    PROVE  /\ [g EXCEPT !.shows = what] \in Page
           /\ [g EXCEPT !.shows = what].shows = what /\ [g EXCEPT !.shows = what].id = g.id
BY DEF Page

\* A page that has sent its request shows something else.
LEMMA ShowKeeps ==
    ASSUME Inv, NEW q \in Requests,
           NEW what \in {"pending", "result", "complete", "failed", "error"},
           Show(q, what), UNCHANGED <<records, lastSummary, lastStats, flask>>,
           page[q].shows # "form",
           what = "result" => flask[q].at = "replied",
           what = "complete" => Says(page[q].id, "SUCCESS"),
           what = "failed" => Says(page[q].id, "FAILED")
    PROVE  Inv'
<1> DEFINE g == [page[q] EXCEPT !.shows = what]
<1>1. page[q] \in Page /\ flask[q] \in Flask /\ CountOK(flask[q]) /\ PageOK(page[q], flask[q])
  BY Types DEF Inv
<1>2. g \in Page /\ g.shows = what /\ g.id = page[q].id
  <2>1. what \in Shown
    BY DEF Shown
  <2> QED BY <1>1, <2>1, PageShows
<1>3. page' = [page EXCEPT ![q] = g] /\ flask' = [flask EXCEPT ![q] = flask[q]]
  BY Types DEF Show
<1> HIDE DEF g
<1>4. PageOK(g, flask[q])
  BY <1>1, <1>2 DEF PageOK
<1> QED BY <1>1, <1>2, <1>3, <1>4, BrowseStepKeeps

\* The page gets its run id.
LEMMA SendingKeeps ==
    ASSUME Inv, NEW q \in Requests, NEW i \in Ids, page[q].shows = "form",
           page' = [page EXCEPT ![q] = [shows |-> "sending", id |-> i]],
           UNCHANGED <<records, lastSummary, lastStats, flask>>
    PROVE  Inv'
<1> DEFINE g == [shows |-> "sending", id |-> i]
<1>1. flask[q] \in Flask /\ CountOK(flask[q]) /\ PageOK(page[q], flask[q]) /\ i # None
  BY Types, DiscoveryRunsAssumption DEF Inv
<1>2. g \in Page /\ g.shows = "sending" /\ g.id = i
  BY DEF Page, Shown
<1>3. flask' = [flask EXCEPT ![q] = flask[q]]
  BY Types
<1> HIDE DEF g
<1>4. flask[q].at = "absent" /\ PageOK(g, flask[q])
  BY <1>1, <1>2 DEF PageOK
<1>5. page' = [page EXCEPT ![q] = g]
  BY DEF g
<1> QED BY <1>1, <1>2, <1>3, <1>4, <1>5, BrowseStepKeeps

LEMMA BrowseKeepsInv == ASSUME Inv, NEW q \in Requests, Browse(q) PROVE Inv'
<1>1. ASSUME Click(q) PROVE Inv'
  <2>1. PICK i \in Ids : page' = [page EXCEPT ![q] = [shows |-> "sending", id |-> i]]
    BY <1>1 DEF Click
  <2>2. page[q].shows = "form" /\ UNCHANGED <<records, lastSummary, lastStats, flask>>
    BY <1>1 DEF Click
  <2> QED BY <2>1, <2>2, SendingKeeps
<1>2. ASSUME Repeat(q) PROVE Inv'
  <2>1. PICK p \in Requests : /\ page[p].id # None
                              /\ page' = [page EXCEPT ![q] = [shows |-> "sending",
                                                              id |-> page[p].id]]
    BY <1>2 DEF Repeat
  <2>2. page[p].id \in Ids
    BY <2>1, Types DEF Page
  <2> DEFINE i == page[p].id
  <2>3. page' = [page EXCEPT ![q] = [shows |-> "sending", id |-> i]] /\ i \in Ids
    BY <2>1, <2>2
  <2> HIDE DEF i
  <2> QED BY <1>2, <2>3, SendingKeeps DEF Repeat
<1>3. ASSUME Send(q) PROVE Inv'
  <2> DEFINE f == [flask[q] EXCEPT !.at = "lookup"]
             g == [page[q] EXCEPT !.shows = "waiting"]
  <2>1. page[q] \in Page /\ flask[q] \in Flask /\ CountOK(flask[q])
        /\ PageOK(page[q], flask[q]) /\ page[q].shows = "sending"
    BY <1>3, Types DEF Inv, Send
  <2>2. f \in Flask /\ f.at = "lookup" /\ f.found = flask[q].found /\ f.stored = flask[q].stored
    BY <2>1, FlaskAt
  <2>3. g \in Page /\ g.shows = "waiting" /\ g.id = page[q].id
    BY <2>1, PageShows DEF Shown
  <2>4. flask' = [flask EXCEPT ![q] = f] /\ page' = [page EXCEPT ![q] = g]
        /\ UNCHANGED <<records, lastSummary, lastStats>>
    BY <1>3 DEF Send, Show, Go
  <2> HIDE DEF f, g
  <2>5. flask[q].at = "absent" /\ CountOK(f) /\ PageOK(g, f) /\ f.at \notin Owner
    BY <2>1, <2>2, <2>3 DEF PageOK, CountOK, Owner, Working
  <2> QED BY <2>2, <2>3, <2>4, <2>5, BrowseStepKeeps
<1>4. ASSUME TimeOut(q) PROVE Inv'
  BY <1>4, ShowKeeps DEF TimeOut
<1>5. ASSUME Receive(q) PROVE Inv'
  <2>1. CASE flask[q].at = "replied"
    BY <1>5, <2>1, ShowKeeps DEF Receive, At
  <2>2. CASE flask[q].at # "replied"
    BY <1>5, <2>2, ShowKeeps DEF Receive, At
  <2> QED BY <2>1, <2>2
\* The record that the page reads is there, and its verdict will stay.
<1>6. ASSUME Poll(q) PROVE Inv'
  <2>1. page[q].shows = "pending" /\ page[q].id \in Ids
    <3>1. page[q].shows = "pending"
      BY <1>6 DEF Poll
    <3> QED BY <3>1, Types DEF Inv, PageOK, Page
  <2>2. CASE records[page[q].id].status = "SUCCESS" /\ Show(q, "complete")
    BY <1>6, <2>1, <2>2, ShowKeeps DEF Poll, Says
  <2>3. CASE records[page[q].id].status = "FAILED" /\ Show(q, "failed")
    BY <1>6, <2>1, <2>3, ShowKeeps DEF Poll, Says
  <2> QED BY <1>6, <2>2, <2>3 DEF Poll
<1>7. ASSUME PollFails(q) PROVE Inv'
  BY <1>7, ShowKeeps DEF PollFails
<1> QED BY <1>1, <1>2, <1>3, <1>4, <1>5, <1>6, <1>7 DEF Browse

\* A crash keeps the records, and a page still polls for what nobody will write.
LEMMA CrashKeepsInv == ASSUME Inv, Crash PROVE Inv'
<1> DEFINE Dies(q) == flask[q].at \in Working \cup {"lookup"}
<1>1. /\ UNCHANGED <<records, page>> /\ lastSummary' = None /\ lastStats' = None
      /\ flask' = [q \in Requests |-> IF Dies(q) THEN [flask[q] EXCEPT !.at = "dead"]
                                                 ELSE flask[q]]
  BY DEF Crash
<1>2. \A q \in Requests : /\ flask'[q] \in Flask
                          /\ flask'[q].found = flask[q].found /\ flask'[q].stored = flask[q].stored
                          /\ flask'[q].at = IF Dies(q) THEN "dead" ELSE flask[q].at
  <2> SUFFICES ASSUME NEW q \in Requests
               PROVE  /\ flask'[q] \in Flask
                      /\ flask'[q].found = flask[q].found /\ flask'[q].stored = flask[q].stored
                      /\ flask'[q].at = IF Dies(q) THEN "dead" ELSE flask[q].at
    OBVIOUS
  <2>1. flask[q] \in Flask
    BY Types
  <2>2. /\ [flask[q] EXCEPT !.at = "dead"] \in Flask /\ [flask[q] EXCEPT !.at = "dead"].at = "dead"
        /\ [flask[q] EXCEPT !.at = "dead"].found = flask[q].found
        /\ [flask[q] EXCEPT !.at = "dead"].stored = flask[q].stored
    BY <2>1, FlaskAt DEF Over
  <2>3. flask'[q] = IF Dies(q) THEN [flask[q] EXCEPT !.at = "dead"] ELSE flask[q]
    BY <1>1
  <2> QED BY <2>1, <2>2, <2>3
<1>3. flask' \in [Requests -> Flask]
  BY <1>1, <1>2
<1>4. TypeOK'
  BY <1>1, <1>3, Types DEF TypeOK, Flask, Page, Shown
<1>5. \A q \in Requests : CountOK(flask'[q]) /\ PageOK(page'[q], flask'[q])
  BY <1>1, <1>2 DEF Inv, CountOK, PageOK, Working
<1>6. RecordInv'
  <2> SUFFICES ASSUME NEW i \in Ids, records[i] # None
               PROVE  /\ page[records[i].by].id = i
                      /\ RecordOK(records[i], flask'[records[i].by])
    BY <1>1 DEF RecordInv
  <2> QED BY <1>2, RecordOf DEF RecordOK, Working
<1>7. WorkInv'
  BY <1>1, <1>2 DEF Inv, WorkInv, Owns, Owner, Working
<1>8. VerdictInv'
  BY <1>1 DEF Inv, VerdictInv, Says
<1> QED BY <1>4, <1>5, <1>6, <1>7, <1>8 DEF Inv

-----------------------------------------------------------------------------
(* Theorems.                                                               *)

LEMMA InitInv == Init => Inv
<1> SUFFICES ASSUME Init PROVE Inv
  OBVIOUS
<1>1. Absent \in Flask /\ CountOK(Absent) /\ Absent.at = "absent"
  BY DiscoveryRunsAssumption DEF Absent, Flask, CountOK
<1>2. \A q \in Requests : flask[q] = Absent /\ page[q].shows = "form" /\ page[q].id = None
  BY DEF Init
<1>3. TypeOK
  <2>1. flask \in [Requests -> Flask]
    BY <1>1 DEF Init
  <2> QED BY <2>1 DEF Init, TypeOK, Flask
<1>4. \A q \in Requests : PageOK(page[q], flask[q])
  BY <1>1, <1>2 DEF PageOK
<1>5. RecordInv /\ WorkInv /\ VerdictInv
  BY <1>1, <1>2 DEF Init, RecordInv, WorkInv, VerdictInv, Owner, Working
<1> QED BY <1>1, <1>2, <1>3, <1>4, <1>5 DEF Inv

LEMMA StepKeepsInv == Inv /\ [Next]_vars => Inv'
<1> SUFFICES ASSUME Inv, [Next]_vars PROVE Inv'
  OBVIOUS
<1>1. CASE UNCHANGED vars
  BY <1>1 DEF vars, Inv, TypeOK, RecordInv, WorkInv, Owns, VerdictInv, Says
<1>2. CASE Next
  BY <1>2, ServeKeepsInv, BrowseKeepsInv, CrashKeepsInv DEF Next
<1> QED BY <1>1, <1>2

LEMMA SpecInv == Spec => []Inv
<1> QED BY InitInv, StepKeepsInv, PTL DEF Spec

\* discover_website, the record's repository and the page keep to their types, whatever
\* faults and crashes happen.
THEOREM TypesAreKept == Spec => []TypeOK
<1>1. Inv => TypeOK
  BY DEF Inv
<1> QED BY <1>1, SpecInv, PTL

\* A record that says SUCCESS counts every url that the run found, and all are stored,
\* even if the answer was lost, the call raised afterwards or Flask died.
THEOREM SuccessCounts == Spec => []SuccessIsComplete
<1>1. Inv => SuccessIsComplete
  <2> SUFFICES ASSUME Inv, NEW i \in Ids, records[i] # None, records[i].status = "SUCCESS"
               PROVE  LET r == flask[records[i].by]
                      IN  /\ records[i].count = r.found
                          /\ r.stored = r.found
                          /\ r.at \notin {"lookup", "collect", "store", "publish"}
    BY DEF SuccessIsComplete
  <2> QED BY RecordOf DEF RecordOK
<1> QED BY <1>1, SpecInv, PTL

\* No user is told the opposite of what the record says: not by a late answer, a repeated
\* id or a poll that comes before the end.
THEOREM NoContradiction == Spec => []VerdictsAgree
<1>1. Inv => VerdictsAgree
  <2> SUFFICES ASSUME Inv, NEW q \in Requests
               PROVE  LET r == records[page[q].id]
                      IN  /\ page[q].shows \in {"result", "complete"} =>
                                r # None /\ r.status = "SUCCESS"
                          /\ page[q].shows = "failed" =>
                                \A p \in Requests : page[p].id = page[q].id => ~At(p, "replied")
    BY DEF VerdictsAgree
  <2>1. \A p \in Requests : flask[p].at = "replied" => Says(page[p].id, "SUCCESS")
    BY RecordOf DEF Inv, WorkInv, Owns, Owner, RecordOK, Says
  <2>2. page[q].shows = "result" => flask[q].at = "replied"
    BY DEF Inv, PageOK
  <2>3. /\ page[q].shows = "complete" => Says(page[q].id, "SUCCESS")
        /\ page[q].shows = "failed" => Says(page[q].id, "FAILED")
    BY DEF Inv, VerdictInv
  <2> QED BY <2>1, <2>2, <2>3 DEF Says, At
<1> QED BY <1>1, SpecInv, PTL

\* The unique index on run_id is enough: of the requests that carry an id, one works.
THEOREM OneWorks == Spec => []OneRunPerId
<1>1. Inv => OneRunPerId
  BY DEF Inv, WorkInv, Owns, Owner, OneRunPerId
<1> QED BY <1>1, SpecInv, PTL

\* A request that has ended, well or not, has closed its record, unless the call that
\* should close it failed too.
THEOREM EndsAreRecorded == Spec => []FinishedIsRecorded
<1>1. Inv => FinishedIsRecorded
  BY RecordOf DEF FinishedIsRecorded, RecordOK
<1> QED BY <1>1, SpecInv, PTL
=============================================================================
