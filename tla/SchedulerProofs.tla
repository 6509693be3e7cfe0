--------------------------- MODULE SchedulerProofs ---------------------------
(***************************************************************************)
(* Proofs about the scheduler: types, that a pass accounts for every       *)
(* target, and that checks keep their distance.                            *)
(***************************************************************************)
EXTENDS Scheduler, TLAPS

-----------------------------------------------------------------------------
(* Typing.                                                                 *)

InCheck(p) == p.at \in {"claim", "touch", "work", "abort"}

\* What the locals of a pass hold at each position of the loop.
PassOK(p) ==
    /\ InCheck(p) => p.target \in Targets
    /\ ~InCheck(p) => p.target = None
    /\ InCheck(p) \/ p.at = "turn" => p.seen \in [Targets -> Row]
    /\ p.at = "list" => p.skipped = {} /\ p.succeeded = {} /\ p.failed = {}

TypeInv == TypeOK /\ \A s \in Schedulers : PassOK(pass[s])

\* The fields of a pass.
LEMMA PassFields ==
    ASSUME NEW p \in Pass
    PROVE  /\ p.at \in Labels /\ p.now \in Time /\ p.seen \in [Targets -> Row] \cup {None}
           /\ p.todo \subseteq Targets /\ p.target \in Targets \cup {None}
           /\ p.started \in Time /\ p.evaluated \subseteq Targets
           /\ p.skipped \subseteq Targets /\ p.succeeded \subseteq Targets
           /\ p.failed \subseteq Targets
BY DEF Pass

LEMMA NeverIsTime == Never \in Time /\ Never \in Nat
BY SchedulerAssumption DEF Never, Time

LEMMA WaitingType == ASSUME NEW l \in Labels, NEW n \in Time
                     PROVE  [Waiting EXCEPT !.at = l, !.now = n] \in Pass
BY NeverIsTime DEF Waiting, Pass

LEMMA FailType ==
    ASSUME NEW p \in Pass, NEW t \in Targets
    PROVE  Fail(p, t) \in Pass /\ Fail(p, t).at = "turn" /\ Fail(p, t).seen = p.seen
           /\ Fail(p, t).target = None
<1>1. "turn" \in Labels
  BY DEF Labels
<1>2. Failed(p, t) \in Pass /\ Failed(p, t).seen = p.seen
  BY DEF Failed, Pass
<1>3. ASSUME NEW q \in Pass PROVE AfterFailure(q) \in Pass /\ AfterFailure(q).seen = q.seen
                                  /\ AfterFailure(q).at = "turn"
  BY <1>1 DEF AfterFailure, Pass
<1>4. ASSUME NEW q \in Pass PROVE [q EXCEPT !.target = None, !.started = Never] \in Pass
  BY NeverIsTime DEF Pass
<1> QED BY <1>2, <1>3, <1>4 DEF Fail, Pass

LEMMA SkipType ==
    ASSUME NEW p \in Pass, NEW t \in Targets
    PROVE  Skip(p, t) \in Pass /\ Skip(p, t).at = p.at /\ Skip(p, t).seen = p.seen
           /\ Skip(p, t).target = p.target
BY DEF Skip, Pass

LEMMA SucceedType ==
    ASSUME NEW p \in Pass, NEW t \in Targets
    PROVE  Succeed(p, t) \in Pass /\ Succeed(p, t).at = "turn" /\ Succeed(p, t).seen = p.seen
           /\ Succeed(p, t).target = None
<1>1. "turn" \in Labels
  BY DEF Labels
<1> QED BY <1>1, NeverIsTime DEF Succeed, Pass

\* A step of one process: the others keep their pass.
LEMMA StepOfOne ==
    ASSUME TypeInv, NEW s \in Schedulers, NEW q \in Pass, PassOK(q),
           pass' = [pass EXCEPT ![s] = q]
    PROVE  pass' \in [Schedulers -> Pass] /\ \A u \in Schedulers : PassOK(pass'[u])
<1>1. ASSUME NEW u \in Schedulers PROVE pass'[u] = IF u = s THEN q ELSE pass[u]
  BY DEF TypeInv, TypeOK
<1> QED BY <1>1 DEF TypeInv, TypeOK

\* The pass between two ticks.
LEMMA WaitingOK == Waiting \in Pass /\ PassOK(Waiting)
<1>1. "wait" \in Labels
  BY DEF Labels
<1> QED BY <1>1, NeverIsTime DEF Waiting, Pass, PassOK, InCheck

\* The parts of TypeOK other than the passes, and what disturbs them.
Rest == <<clock, row, held, begun, events>>
RestOK == /\ clock \in Time /\ events \in 0..MaxEvents
          /\ row \in [Targets -> Row]
          /\ \A t \in Targets \ Malformed : row[t].interval # None
          /\ held \in [Targets -> Lease]
          /\ begun \in [Targets -> Time]

LEMMA InitType == Init => TypeInv
<1> SUFFICES ASSUME Init PROVE TypeInv
  OBVIOUS
<1>1. row \in [Targets -> Row] /\ \A t \in Targets \ Malformed : row[t].interval # None
  <2>1. ASSUME NEW t \in Targets PROVE row[t] \in Row
    <3> DEFINE First == [eligible : {TRUE}, interval : Intervals \cup {None}, last : {Never}]
    <3>1. row[t] \in First
      BY DEF Init
    <3>2. First \subseteq Row
      <4>1. {TRUE} \subseteq BOOLEAN /\ {Never} \subseteq Time
        BY NeverIsTime
      <4> QED BY <4>1, Zenon DEF Row
    <3> QED BY <3>1, <3>2
  <2> QED BY <2>1 DEF Init
<1>2. clock \in Time /\ events \in 0..MaxEvents
  BY SchedulerAssumption DEF Init, Time
<1>3. held \in [Targets -> Lease] /\ begun \in [Targets -> Time]
  BY NeverIsTime DEF Init, Free, Lease
<1>4. \A s \in Schedulers : pass[s] = Waiting
  BY DEF Init
<1> QED BY <1>1, <1>2, <1>3, <1>4, WaitingOK DEF Init, TypeInv, TypeOK

\* Each step of a process moves its pass to a typed one and keeps the rest typed.
MovesTo(s, q) == q \in Pass /\ PassOK(q) /\ pass' = [pass EXCEPT ![s] = q]

LEMMA MoveType ==
    ASSUME TypeInv, NEW s \in Schedulers, NEW q, MovesTo(s, q), RestOK'
    PROVE  TypeInv'
BY StepOfOne DEF MovesTo, TypeInv, TypeOK, RestOK

LEMMA WakeMoves ==
    ASSUME TypeInv, NEW s \in Schedulers, Wake(s)
    PROVE  MovesTo(s, [Waiting EXCEPT !.at = "list", !.now = clock])
<1>1. "list" \in Labels /\ clock \in Time
  BY DEF Labels, TypeInv, TypeOK
<1>2. [Waiting EXCEPT !.at = "list", !.now = clock] \in Pass
  BY <1>1, WaitingType
<1>3. PassOK([Waiting EXCEPT !.at = "list", !.now = clock])
  BY DEF PassOK, InCheck, Waiting
<1> QED BY <1>2, <1>3 DEF Wake, MovesTo

LEMMA StopMoves ==
    ASSUME TypeInv, NEW s \in Schedulers, Stop(s)
    PROVE  MovesTo(s, [pass[s] EXCEPT !.at = "stopped"])
<1>1. "stopped" \in Labels /\ pass[s] \in Pass /\ PassOK(pass[s])
  BY DEF Labels, TypeInv, TypeOK
<1>2. [pass[s] EXCEPT !.at = "stopped"] \in Pass
  BY <1>1 DEF Pass
<1>3. PassOK([pass[s] EXCEPT !.at = "stopped"])
  BY <1>1 DEF PassOK, InCheck, Stop, Pass
<1> QED BY <1>2, <1>3 DEF Stop, MovesTo

LEMMA ListMoves ==
    ASSUME TypeInv, NEW s \in Schedulers, List(s)
    PROVE  LET rows == {t \in Targets : row[t].eligible}
           IN  MovesTo(s, [pass[s] EXCEPT !.at = "turn", !.seen = row, !.todo = rows,
                                          !.evaluated = rows])
<1> DEFINE rows == {t \in Targets : row[t].eligible}
           q == [pass[s] EXCEPT !.at = "turn", !.seen = row, !.todo = rows,
                                !.evaluated = rows]
<1>1. "turn" \in Labels /\ pass[s] \in Pass /\ PassOK(pass[s]) /\ row \in [Targets -> Row]
  BY DEF Labels, TypeInv, TypeOK
<1>2. rows \in SUBSET Targets
  OBVIOUS
<1> HIDE DEF rows
<1>3. q \in Pass
  BY <1>1, <1>2 DEF Pass
<1>4. PassOK(q)
  BY <1>1 DEF PassOK, InCheck, List, Pass
<1>5. pass' = [pass EXCEPT ![s] = q]
  BY DEF List, rows
<1> QED BY <1>3, <1>4, <1>5 DEF MovesTo, rows

\* The target whose turn it is, and the three things that may come of it.
LEMMA TurnMoves ==
    ASSUME TypeInv, NEW s \in Schedulers, Turn(s)
    PROVE  \E t \in NextInLine(pass[s]) :
             LET q == [pass[s] EXCEPT !.todo = @ \ {t}]
             IN  \/ MovesTo(s, Fail(q, t))
                 \/ /\ pass[s].seen[t].interval # None /\ IsDue(pass[s].seen[t], pass[s].now)
                    /\ MovesTo(s, [q EXCEPT !.at = "claim", !.target = t])
                 \/ MovesTo(s, Skip(q, t))
<1> DEFINE q(t) == [pass[s] EXCEPT !.todo = @ \ {t}]
           c(t) == [q(t) EXCEPT !.at = "claim", !.target = t]
<1>1. PICK t \in NextInLine(pass[s]) :
         pass' = [pass EXCEPT ![s] =
                     IF pass[s].seen[t].interval = None THEN Fail(q(t), t)
                     ELSE IF IsDue(pass[s].seen[t], pass[s].now) THEN c(t)
                     ELSE Skip(q(t), t)]
  BY DEF Turn
<1>2. pass[s] \in Pass /\ PassOK(pass[s]) /\ pass[s].at = "turn" /\ t \in Targets
  <2>1. pass[s] \in Pass /\ PassOK(pass[s]) /\ pass[s].at = "turn"
    BY DEF TypeInv, TypeOK, Turn
  <2>2. pass[s].todo \subseteq Targets
    BY <2>1, PassFields
  <2> QED BY <2>1, <2>2 DEF NextInLine
<1>3. pass[s].target = None /\ pass[s].seen \in [Targets -> Row]
  BY <1>2 DEF PassOK, InCheck
<1>4. q(t) \in Pass /\ q(t).at = "turn" /\ q(t).seen = pass[s].seen /\ q(t).target = None
  <2>1. pass[s].todo \ {t} \in SUBSET Targets
    BY <1>2, PassFields
  <2> QED BY <2>1, <1>2, <1>3 DEF Pass
<1>5. c(t) \in Pass /\ PassOK(c(t))
  <2>1. "claim" \in Labels
    BY DEF Labels
  <2>2. c(t) \in Pass /\ c(t).at = "claim" /\ c(t).target = t /\ c(t).seen = pass[s].seen
    <3> HIDE DEF q
    <3> QED BY <2>1, <1>2, <1>4 DEF Pass
  <2> HIDE DEF c
  <2> QED BY <2>2, <1>2, <1>3 DEF PassOK, InCheck
<1>6. PassOK(Fail(q(t), t)) /\ Fail(q(t), t) \in Pass
  <2> HIDE DEF q
  <2> QED BY <1>2, <1>3, <1>4, FailType DEF PassOK, InCheck
<1>7. PassOK(Skip(q(t), t)) /\ Skip(q(t), t) \in Pass
  <2> HIDE DEF q
  <2> QED BY <1>2, <1>3, <1>4, SkipType DEF PassOK, InCheck
<1>8. \/ MovesTo(s, Fail(q(t), t))
      \/ /\ pass[s].seen[t].interval # None /\ IsDue(pass[s].seen[t], pass[s].now)
         /\ MovesTo(s, c(t))
      \/ MovesTo(s, Skip(q(t), t))
  <2> HIDE DEF q, c
  <2> QED BY <1>1, <1>5, <1>6, <1>7 DEF MovesTo
<1> QED BY <1>8

\* A process in a check that fails it, or goes on with it.
LEMMA FailMoves ==
    ASSUME TypeInv, NEW s \in Schedulers, InCheck(pass[s]),
           pass' = [pass EXCEPT ![s] = Fail(pass[s], pass[s].target)]
    PROVE  MovesTo(s, Fail(pass[s], pass[s].target))
<1>1. pass[s] \in Pass /\ PassOK(pass[s]) /\ pass[s].target \in Targets
  BY DEF TypeInv, TypeOK, PassOK
<1> QED BY <1>1, FailType DEF MovesTo, PassOK, InCheck

LEMMA OnMoves ==
    ASSUME TypeInv, NEW s \in Schedulers, InCheck(pass[s]),
           NEW l \in {"touch", "work", "abort"}, NEW n \in Time,
           pass' = [pass EXCEPT ![s] = [pass[s] EXCEPT !.at = l, !.started = n]]
    PROVE  MovesTo(s, [pass[s] EXCEPT !.at = l, !.started = n])
<1>1. pass[s] \in Pass /\ PassOK(pass[s]) /\ l \in Labels
  BY DEF TypeInv, TypeOK, Labels
<1>2. [pass[s] EXCEPT !.at = l, !.started = n] \in Pass
  BY <1>1 DEF Pass
<1>3. PassOK([pass[s] EXCEPT !.at = l, !.started = n])
  BY <1>1 DEF PassOK, InCheck, Pass
<1> QED BY <1>2, <1>3 DEF MovesTo

\* What happens to the pass in each step of a check.
LEMMA CheckMoves ==
    ASSUME TypeInv, NEW s \in Schedulers,
           Claim(s) \/ Touch(s) \/ TouchFails(s) \/ Finish(s) \/ Abort(s) \/ AbortFails(s)
    PROVE  /\ InCheck(pass[s])
           /\ \/ MovesTo(s, Fail(pass[s], pass[s].target))
              \/ MovesTo(s, Succeed(pass[s], pass[s].target))
              \/ \E l \in {"touch", "work", "abort"}, n \in Time :
                    MovesTo(s, [pass[s] EXCEPT !.at = l, !.started = n])
<1>1. pass[s] \in Pass /\ PassOK(pass[s]) /\ pass[s].started \in Time /\ clock \in Time
  BY PassFields DEF TypeInv, TypeOK
<1>2. InCheck(pass[s])
  BY DEF InCheck, Claim, Touch, TouchFails, Finish, Abort, AbortFails
<1>3. CASE Claim(s)
  <2>1. \/ pass' = [pass EXCEPT ![s] = Fail(pass[s], pass[s].target)]
        \/ pass' = [pass EXCEPT ![s] = [pass[s] EXCEPT !.at = "touch", !.started = clock]]
    BY <1>3 DEF Claim
  <2> QED BY <1>1, <1>2, <2>1, FailMoves, OnMoves
<1>4. CASE Touch(s) \/ TouchFails(s)
  <2>1. [pass[s] EXCEPT !.at = "work"]
          = [pass[s] EXCEPT !.at = "work", !.started = pass[s].started]
    BY <1>1 DEF Pass
  <2>2. [pass[s] EXCEPT !.at = "abort"]
          = [pass[s] EXCEPT !.at = "abort", !.started = pass[s].started]
    BY <1>1 DEF Pass
  <2>3. CASE pass' = [pass EXCEPT ![s] = [pass[s] EXCEPT !.at = "work", !.started = pass[s].started]]
    BY <2>3, <1>1, <1>2, OnMoves
  <2>4. CASE pass' = [pass EXCEPT ![s] = [pass[s] EXCEPT !.at = "abort", !.started = pass[s].started]]
    BY <2>4, <1>1, <1>2, OnMoves
  <2>5. \/ pass' = [pass EXCEPT ![s] = [pass[s] EXCEPT !.at = "work"]]
        \/ pass' = [pass EXCEPT ![s] = [pass[s] EXCEPT !.at = "abort"]]
    BY <1>4 DEF Touch, TouchFails
  <2> QED BY <2>1, <2>2, <2>3, <2>4, <2>5
<1>5. CASE Finish(s) \/ Abort(s) \/ AbortFails(s)
  <2>1. \/ pass' = [pass EXCEPT ![s] = Fail(pass[s], pass[s].target)]
        \/ pass' = [pass EXCEPT ![s] = Succeed(pass[s], pass[s].target)]
    BY <1>5 DEF Finish, Abort, AbortFails
  <2>2. pass[s].target \in Targets
    BY <1>1, <1>2 DEF PassOK
  <2>3. PassOK(Succeed(pass[s], pass[s].target)) /\ Succeed(pass[s], pass[s].target) \in Pass
    BY <1>1, <1>2, <2>2, SucceedType DEF PassOK, InCheck
  <2> QED BY <1>2, <2>1, <2>3, FailMoves DEF MovesTo
<1> QED BY <1>2, <1>3, <1>4, <1>5

LEMMA EndMoves ==
    ASSUME TypeInv, NEW s \in Schedulers, EndPass(s) \/ ListFails(s) \/ Crash(s)
    PROVE  MovesTo(s, Waiting)
BY WaitingOK DEF EndPass, ListFails, Crash, MovesTo

\* What a step does to everything but the passes.
LEMMA RestType ==
    ASSUME TypeInv, [Next]_vars
    PROVE  RestOK'
<1>1. RestOK /\ \A s \in Schedulers : pass[s] \in Pass /\ PassOK(pass[s])
  BY DEF TypeInv, TypeOK, RestOK
<1>2. CASE UNCHANGED <<clock, row, held, begun>> /\ events' \in 0..MaxEvents
  BY <1>1, <1>2 DEF RestOK
<1>3. ASSUME NEW s \in Schedulers, Claim(s) PROVE RestOK'
  <2>1. pass[s].target \in Targets
    BY <1>1, <1>3 DEF PassOK, InCheck, Claim
  <2>2. [by |-> s, since |-> clock] \in Lease
    BY <1>1 DEF RestOK, Lease
  <2> QED BY <1>1, <1>3, <2>1, <2>2 DEF RestOK, Claim
<1>4. ASSUME NEW s \in Schedulers, Touch(s) PROVE RestOK'
  <2> DEFINE t == pass[s].target
             r == [row[t] EXCEPT !.last = pass[s].started]
  <2>1. t \in Targets /\ pass[s].started \in Time
    BY <1>1, <1>4, PassFields DEF PassOK, InCheck, Touch
  <2>2. r \in Row /\ r.interval = row[t].interval
    BY <1>1, <2>1 DEF RestOK, Row
  <2>3. row' = [row EXCEPT ![t] = r]
    BY <1>4 DEF Touch
  <2> HIDE DEF t, r
  <2> QED BY <1>1, <1>4, <2>1, <2>2, <2>3 DEF RestOK, Touch
<1>5. ASSUME NEW s \in Schedulers, Finish(s) \/ Abort(s) PROVE RestOK'
  <2>1. Free \in Lease
    BY NeverIsTime DEF Free, Lease
  <2>2. UNCHANGED <<clock, row, begun, events>> /\ held' \in [Targets -> Lease]
    BY <1>1, <1>5, <2>1 DEF Finish, Abort, Release, RestOK
  <2> QED BY <1>1, <2>2 DEF RestOK
<1>6. CASE Tick
  BY <1>1, <1>6, SchedulerAssumption DEF Tick, RestOK, Time
<1>7. ASSUME NEW t \in Targets, Edit(t) PROVE RestOK'
  <2>1. PICK r \in Row : /\ row' = [row EXCEPT ![t] = r]
                         /\ row[t].interval # None => r.interval # None
    <3>1. row[t] \in Row
      BY <1>1 DEF RestOK
    <3>2. ASSUME NEW b \in BOOLEAN
          PROVE  /\ [row[t] EXCEPT !.eligible = b] \in Row
                 /\ [row[t] EXCEPT !.eligible = b].interval = row[t].interval
      BY <3>1 DEF Row
    <3>3. ASSUME NEW i \in Intervals
          PROVE  /\ [row[t] EXCEPT !.interval = i] \in Row
                 /\ [row[t] EXCEPT !.interval = i].interval # None
      BY <3>1, SchedulerAssumption DEF Row
    <3>4. \/ \E b \in BOOLEAN : row' = [row EXCEPT ![t] = [row[t] EXCEPT !.eligible = b]]
          \/ \E i \in Intervals : row' = [row EXCEPT ![t] = [row[t] EXCEPT !.interval = i]]
      BY <1>7 DEF Edit
    <3> QED BY <3>2, <3>3, <3>4
  <2>2. UNCHANGED <<clock, held, begun>> /\ events' \in 0..MaxEvents
    BY <1>1, <1>7, SchedulerAssumption DEF Edit, RestOK
  <2> QED BY <1>1, <2>1, <2>2 DEF RestOK
<1>8. ASSUME NEW s \in Schedulers,
             ListFails(s) \/ TouchFails(s) \/ AbortFails(s) \/ Crash(s)
      PROVE  RestOK'
  BY <1>1, <1>2, <1>8, SchedulerAssumption
     DEF ListFails, TouchFails, AbortFails, Crash, RestOK
<1>9. ASSUME NEW s \in Schedulers, Wake(s) \/ Stop(s) \/ List(s) \/ Turn(s) \/ EndPass(s)
      PROVE  RestOK'
  BY <1>1, <1>2, <1>9 DEF Wake, Stop, List, Turn, EndPass, RestOK
<1>10. CASE UNCHANGED vars
  BY <1>1, <1>2, <1>10 DEF vars, RestOK
<1> QED BY <1>3, <1>4, <1>5, <1>6, <1>7, <1>8, <1>9, <1>10 DEF Next, Step

LEMMA NextType == TypeInv /\ [Next]_vars => TypeInv'
<1> SUFFICES ASSUME TypeInv, [Next]_vars PROVE TypeInv'
  OBVIOUS
<1>1. RestOK'
  BY RestType
<1>2. ASSUME NEW s \in Schedulers, NEW q, MovesTo(s, q) PROVE TypeInv'
  BY <1>1, <1>2, MoveType
<1>3. CASE UNCHANGED pass
  BY <1>1, <1>3 DEF TypeInv, TypeOK, RestOK
<1>4. ASSUME NEW s \in Schedulers, Wake(s) PROVE TypeInv'
  BY <1>2, <1>4, WakeMoves
<1>5. ASSUME NEW s \in Schedulers, Stop(s) PROVE TypeInv'
  BY <1>2, <1>5, StopMoves
<1>6. ASSUME NEW s \in Schedulers, List(s) PROVE TypeInv'
  BY <1>2, <1>6, ListMoves
<1>7. ASSUME NEW s \in Schedulers, Turn(s) PROVE TypeInv'
  BY <1>2, <1>7, TurnMoves
<1>8. ASSUME NEW s \in Schedulers,
             Claim(s) \/ Touch(s) \/ TouchFails(s) \/ Finish(s) \/ Abort(s) \/ AbortFails(s)
      PROVE  TypeInv'
  BY <1>2, <1>8, CheckMoves
<1>9. ASSUME NEW s \in Schedulers, EndPass(s) \/ ListFails(s) \/ Crash(s) PROVE TypeInv'
  BY <1>2, <1>9, EndMoves
<1>10. CASE Tick \/ (\E t \in Targets : Edit(t)) \/ UNCHANGED vars
  BY <1>3, <1>10 DEF Tick, Edit, vars
<1> QED BY <1>4, <1>5, <1>6, <1>7, <1>8, <1>9, <1>10 DEF Next, Step

\* Every variable of the scheduler model stays in its type.
THEOREM TypesAreKept == Spec => []TypeOK
<1>1. Spec => []TypeInv
  BY InitType, NextType, PTL DEF Spec
<1>2. TypeInv => TypeOK
  BY DEF TypeInv
<1> QED BY <1>1, <1>2, PTL

-----------------------------------------------------------------------------
(* The result of a pass accounts for every target that it listed.          *)

\* EveryTargetIsAccounted for one pass, part by part.
Accounted(p) ==
    /\ p.evaluated = p.todo \cup ({p.target} \ {None}) \cup p.skipped \cup p.succeeded
                     \cup p.failed
    /\ p.target \notin p.todo \cup p.skipped \cup p.succeeded \cup p.failed
    /\ p.todo \cap (p.skipped \cup p.succeeded \cup p.failed) = {}
    /\ p.skipped \cap (p.succeeded \cup p.failed) = {}
    /\ p.succeeded \cap p.failed = {}

AccountInv == TypeInv /\ \A s \in Schedulers : Accounted(pass[s])

LEMMA AccountedParts ==
    ASSUME AccountInv PROVE EveryTargetIsAccounted
<1> SUFFICES ASSUME NEW s \in Schedulers
             PROVE  LET p == pass[s]
                        parts == <<p.todo, {p.target} \ {None}, p.skipped, p.succeeded, p.failed>>
                    IN  /\ p.evaluated = UNION {parts[i] : i \in 1..5}
                        /\ \A i, j \in 1..5 : i # j => parts[i] \cap parts[j] = {}
  BY DEF EveryTargetIsAccounted
<1> DEFINE p == pass[s]
           current == {p.target} \ {None}
           parts == <<p.todo, current, p.skipped, p.succeeded, p.failed>>
<1>1. Accounted(p)
  BY DEF AccountInv
<1>2. /\ parts[1] = p.todo /\ parts[2] = current /\ parts[3] = p.skipped
      /\ parts[4] = p.succeeded /\ parts[5] = p.failed
  OBVIOUS
<1>3. \A i \in 1..5 : i = 1 \/ i = 2 \/ i = 3 \/ i = 4 \/ i = 5
  OBVIOUS
<1>4. 1 \in 1..5 /\ 2 \in 1..5 /\ 3 \in 1..5 /\ 4 \in 1..5 /\ 5 \in 1..5
  OBVIOUS
<1>5. current \cap (p.todo \cup p.skipped \cup p.succeeded \cup p.failed) = {}
  BY <1>1 DEF Accounted
<1>6. UNION {parts[i] : i \in 1..5}
        = parts[1] \cup parts[2] \cup parts[3] \cup parts[4] \cup parts[5]
  <2> HIDE DEF parts
  <2> QED BY <1>3, <1>4
<1>7. p.evaluated = UNION {parts[i] : i \in 1..5}
  <2> HIDE DEF parts
  <2> QED BY <1>1, <1>2, <1>6 DEF Accounted
<1>8. ASSUME NEW i \in 1..5, NEW j \in 1..5, i # j PROVE parts[i] \cap parts[j] = {}
  <2> HIDE DEF parts, current
  <2> QED BY <1>1, <1>2, <1>3, <1>5, <1>8 DEF Accounted
<1> QED BY <1>7, <1>8

\* A pass that a process moves to is accounted for if the one it was at is.
LEMMA AccountedMove ==
    ASSUME AccountInv, NEW s \in Schedulers, NEW q, MovesTo(s, q), Accounted(q)
    PROVE  \A u \in Schedulers : Accounted(pass'[u])
<1>1. ASSUME NEW u \in Schedulers PROVE pass'[u] = IF u = s THEN q ELSE pass[u]
  BY DEF MovesTo, AccountInv, TypeInv, TypeOK
<1> QED BY <1>1 DEF AccountInv

\* A failure, a success and a postponement take a target from where it was.
LEMMA AccountedEnds ==
    ASSUME NEW p \in Pass, Accounted(p), p.target \in Targets
    PROVE  Accounted(Fail(p, p.target)) /\ Accounted(Succeed(p, p.target))
<1>1. Fail(p, p.target) = [p EXCEPT !.failed = p.failed \cup {p.target}, !.at = "turn",
                                    !.target = None, !.started = Never]
  BY DEF Fail, Failed, AfterFailure, Pass
<1>2. Succeed(p, p.target) = [p EXCEPT !.succeeded = p.succeeded \cup {p.target}, !.at = "turn",
                                       !.target = None, !.started = Never]
  BY DEF Succeed
<1>3. None \notin Targets /\ p.todo \subseteq Targets /\ p.skipped \subseteq Targets
      /\ p.succeeded \subseteq Targets /\ p.failed \subseteq Targets
  BY PassFields, SchedulerAssumption
<1>4. Accounted(Fail(p, p.target))
  BY <1>1, <1>3 DEF Accounted, Pass
<1>5. Accounted(Succeed(p, p.target))
  BY <1>2, <1>3 DEF Accounted, Pass
<1> QED BY <1>4, <1>5

LEMMA AccountedTurn ==
    ASSUME NEW p \in Pass, Accounted(p), p.target = None, NEW t \in p.todo
    PROVE  LET q == [p EXCEPT !.todo = @ \ {t}]
           IN  /\ Accounted(Fail(q, t)) /\ Accounted(Skip(q, t))
               /\ Accounted([q EXCEPT !.at = "claim", !.target = t])
<1> DEFINE q == [p EXCEPT !.todo = @ \ {t}]
<1>1. None \notin Targets /\ p.todo \subseteq Targets /\ p.skipped \subseteq Targets
      /\ p.succeeded \subseteq Targets /\ p.failed \subseteq Targets
  BY PassFields, SchedulerAssumption
<1>2. q \in Pass /\ q.todo = p.todo \ {t} /\ q.target = None /\ q.evaluated = p.evaluated
      /\ q.skipped = p.skipped /\ q.succeeded = p.succeeded /\ q.failed = p.failed
  <2>1. p.todo \ {t} \in SUBSET Targets
    BY <1>1
  <2> QED BY <2>1 DEF Pass
<1> HIDE DEF q
<1>3. Accounted([q EXCEPT !.at = "claim", !.target = t])
  BY <1>1, <1>2 DEF Accounted, Pass
<1>4. Accounted(Skip(q, t))
  BY <1>1, <1>2 DEF Accounted, Pass, Skip
<1>5. Accounted(Fail(q, t))
  <2>1. Fail(q, t) = [q EXCEPT !.failed = q.failed \cup {t}, !.at = "turn",
                               !.target = None, !.started = Never]
    BY <1>2 DEF Fail, Failed, AfterFailure, Pass
  <2> QED BY <1>1, <1>2, <2>1 DEF Accounted, Pass
<1> QED BY <1>3, <1>4, <1>5 DEF q

LEMMA InitAccounted == Init => AccountInv
<1> SUFFICES ASSUME Init PROVE AccountInv
  OBVIOUS
<1>1. Accounted(Waiting)
  BY DEF Accounted, Waiting
<1>2. \A s \in Schedulers : pass[s] = Waiting
  BY DEF Init
<1> QED BY <1>1, <1>2, InitType DEF AccountInv

LEMMA NextAccounted == AccountInv /\ [Next]_vars => AccountInv'
<1> SUFFICES ASSUME AccountInv, [Next]_vars PROVE \A s \in Schedulers : Accounted(pass'[s])
  BY NextType DEF AccountInv
<1>1. TypeInv /\ \A s \in Schedulers : /\ pass[s] \in Pass /\ PassOK(pass[s])
                                       /\ Accounted(pass[s])
  BY DEF AccountInv, TypeInv, TypeOK
<1>2. CASE UNCHANGED pass
  BY <1>1, <1>2
<1>3. ASSUME NEW s \in Schedulers, Wake(s) PROVE \A u \in Schedulers : Accounted(pass'[u])
  <2>1. Accounted([Waiting EXCEPT !.at = "list", !.now = clock])
    BY DEF Accounted, Waiting
  <2> QED BY <1>1, <1>3, <2>1, WakeMoves, AccountedMove
<1>4. ASSUME NEW s \in Schedulers, Stop(s) PROVE \A u \in Schedulers : Accounted(pass'[u])
  <2>1. Accounted([pass[s] EXCEPT !.at = "stopped"])
    BY <1>1 DEF Accounted, Pass
  <2> QED BY <1>1, <1>4, <2>1, StopMoves, AccountedMove
<1>5. ASSUME NEW s \in Schedulers, List(s) PROVE \A u \in Schedulers : Accounted(pass'[u])
  <2> DEFINE rows == {t \in Targets : row[t].eligible}
             q == [pass[s] EXCEPT !.at = "turn", !.seen = row, !.todo = rows,
                                  !.evaluated = rows]
  <2>1. pass[s].target = None /\ pass[s].skipped = {} /\ pass[s].succeeded = {}
        /\ pass[s].failed = {}
    BY <1>1, <1>5 DEF List, PassOK, InCheck
  <2>2. MovesTo(s, q)
    BY <1>1, <1>5, ListMoves
  <2>3. None \notin rows
    BY SchedulerAssumption
  <2>4. Accounted(q)
    <3> HIDE DEF rows
    <3> QED BY <1>1, <2>1, <2>3 DEF Accounted, Pass
  <2> QED BY <2>2, <2>4, AccountedMove
<1>6. ASSUME NEW s \in Schedulers, Turn(s) PROVE \A u \in Schedulers : Accounted(pass'[u])
  <2> DEFINE q(t) == [pass[s] EXCEPT !.todo = @ \ {t}]
  <2>1. PICK t \in NextInLine(pass[s]) :
           \/ MovesTo(s, Fail(q(t), t))
           \/ MovesTo(s, [q(t) EXCEPT !.at = "claim", !.target = t])
           \/ MovesTo(s, Skip(q(t), t))
    BY <1>1, <1>6, TurnMoves
  <2>2. t \in pass[s].todo /\ pass[s].target = None
    BY <1>1, <1>6 DEF NextInLine, Turn, PassOK, InCheck
  <2>3. /\ Accounted(Fail(q(t), t)) /\ Accounted(Skip(q(t), t))
        /\ Accounted([q(t) EXCEPT !.at = "claim", !.target = t])
    BY <1>1, <2>2, AccountedTurn
  <2> HIDE DEF q
  <2> QED BY <2>1, <2>3, AccountedMove
<1>7. ASSUME NEW s \in Schedulers,
             Claim(s) \/ Touch(s) \/ TouchFails(s) \/ Finish(s) \/ Abort(s) \/ AbortFails(s)
      PROVE  \A u \in Schedulers : Accounted(pass'[u])
  <2>1. /\ InCheck(pass[s])
        /\ \/ MovesTo(s, Fail(pass[s], pass[s].target))
           \/ MovesTo(s, Succeed(pass[s], pass[s].target))
           \/ \E l \in {"touch", "work", "abort"}, n \in Time :
                 MovesTo(s, [pass[s] EXCEPT !.at = l, !.started = n])
    BY <1>1, <1>7, CheckMoves
  <2>2. Accounted(Fail(pass[s], pass[s].target)) /\ Accounted(Succeed(pass[s], pass[s].target))
    BY <1>1, <2>1, AccountedEnds DEF PassOK
  <2>3. ASSUME NEW l \in {"touch", "work", "abort"}, NEW n \in Time
        PROVE  Accounted([pass[s] EXCEPT !.at = l, !.started = n])
    BY <1>1 DEF Accounted, Pass
  <2> QED BY <2>1, <2>2, <2>3, AccountedMove
<1>8. ASSUME NEW s \in Schedulers, EndPass(s) \/ ListFails(s) \/ Crash(s)
      PROVE  \A u \in Schedulers : Accounted(pass'[u])
  <2>1. Accounted(Waiting)
    BY DEF Accounted, Waiting
  <2> QED BY <1>1, <1>8, <2>1, EndMoves, AccountedMove
<1>9. CASE Tick \/ (\E t \in Targets : Edit(t)) \/ UNCHANGED vars
  BY <1>2, <1>9 DEF Tick, Edit, vars
<1> QED BY <1>3, <1>4, <1>5, <1>6, <1>7, <1>8, <1>9 DEF Next, Step

\* The result of a pass accounts for every target it listed exactly once, for any
\* number of targets and processes, whatever fails or is taken over
\* (run_due_targets: "isolating failures per target").
THEOREM PassesAccount == Spec => []EveryTargetIsAccounted
<1>1. Spec => []AccountInv
  BY InitAccounted, NextAccounted, PTL DEF Spec
<1>2. AccountInv => EveryTargetIsAccounted
  BY AccountedParts
<1> QED BY <1>1, <1>2, PTL

-----------------------------------------------------------------------------
(* Two checks of a target keep its interval.                               *)

\* A pass counts as a time in the past, and the target it is about to claim was due
\* then by the row it had read.
DueAtClaim(p) ==
    /\ p.now <= clock
    /\ p.at = "claim" => /\ p.seen[p.target].interval # None
                         /\ IsDue(p.seen[p.target], p.now)

SpacedInv == TypeInv /\ \A s \in Schedulers : DueAtClaim(pass[s])

LEMMA InitSpaced == Init => SpacedInv
<1> SUFFICES ASSUME Init PROVE SpacedInv
  OBVIOUS
<1>1. clock = 1 /\ \A s \in Schedulers : pass[s] = Waiting
  BY DEF Init
<1>2. ASSUME NEW s \in Schedulers PROVE DueAtClaim(pass[s])
  <2>1. pass[s].now = 0 /\ pass[s].at = "wait"
    BY <1>1 DEF Waiting, Never
  <2> QED BY <1>1, <2>1 DEF DueAtClaim
<1> QED BY <1>2, InitType DEF SpacedInv

LEMMA SpacedMove ==
    ASSUME SpacedInv, NEW s \in Schedulers, NEW q, MovesTo(s, q), DueAtClaim(q),
           UNCHANGED clock
    PROVE  \A u \in Schedulers : DueAtClaim(pass[u])'
<1>1. ASSUME NEW u \in Schedulers PROVE pass'[u] = IF u = s THEN q ELSE pass[u]
  BY DEF MovesTo, SpacedInv, TypeInv, TypeOK
<1> QED BY <1>1 DEF SpacedInv, DueAtClaim

LEMMA NextSpaced == SpacedInv /\ [Next]_vars => SpacedInv'
<1> SUFFICES ASSUME SpacedInv, [Next]_vars PROVE \A s \in Schedulers : DueAtClaim(pass[s])'
  BY NextType DEF SpacedInv
<1>1. TypeInv /\ clock \in Nat
  BY DEF SpacedInv, TypeInv, TypeOK, Time
<1>2. \A s \in Schedulers : /\ pass[s] \in Pass /\ PassOK(pass[s])
                            /\ pass[s].now <= clock /\ DueAtClaim(pass[s])
  BY DEF SpacedInv, TypeInv, TypeOK, DueAtClaim
<1>3. CASE UNCHANGED pass /\ (clock' = clock \/ clock' = clock + 1)
  <2>1. ASSUME NEW s \in Schedulers PROVE DueAtClaim(pass[s])'
    <3>1. pass[s].now \in Nat
      BY <1>2, PassFields DEF Time
    <3> QED BY <1>1, <1>2, <1>3, <3>1 DEF DueAtClaim
  <2> QED BY <2>1
<1>4. ASSUME NEW s \in Schedulers, Wake(s) PROVE \A u \in Schedulers : DueAtClaim(pass[u])'
  <2>1. DueAtClaim([Waiting EXCEPT !.at = "list", !.now = clock])
    BY <1>1 DEF DueAtClaim, Waiting
  <2> QED BY <1>1, <1>4, <2>1, WakeMoves, SpacedMove DEF Wake
<1>5. ASSUME NEW s \in Schedulers, Stop(s) PROVE \A u \in Schedulers : DueAtClaim(pass[u])'
  <2>1. DueAtClaim([pass[s] EXCEPT !.at = "stopped"])
    BY <1>2 DEF DueAtClaim, Pass
  <2> QED BY <1>1, <1>5, <2>1, StopMoves, SpacedMove DEF Stop
<1>6. ASSUME NEW s \in Schedulers, List(s) PROVE \A u \in Schedulers : DueAtClaim(pass[u])'
  <2> DEFINE rows == {t \in Targets : row[t].eligible}
             q == [pass[s] EXCEPT !.at = "turn", !.seen = row, !.todo = rows,
                                  !.evaluated = rows]
  <2>1. MovesTo(s, q)
    BY <1>1, <1>6, ListMoves
  <2>2. DueAtClaim(q)
    <3> HIDE DEF rows
    <3> QED BY <1>2 DEF DueAtClaim, Pass
  <2> QED BY <1>6, <2>1, <2>2, SpacedMove DEF List
<1>7. ASSUME NEW s \in Schedulers, Turn(s) PROVE \A u \in Schedulers : DueAtClaim(pass[u])'
  <2> DEFINE q(t) == [pass[s] EXCEPT !.todo = @ \ {t}]
             c(t) == [q(t) EXCEPT !.at = "claim", !.target = t]
  <2>1. PICK t \in NextInLine(pass[s]) :
           \/ MovesTo(s, Fail(q(t), t))
           \/ /\ pass[s].seen[t].interval # None /\ IsDue(pass[s].seen[t], pass[s].now)
              /\ MovesTo(s, c(t))
           \/ MovesTo(s, Skip(q(t), t))
    BY <1>1, <1>7, TurnMoves
  <2>2. UNCHANGED clock /\ pass[s].at = "turn"
    BY <1>7 DEF Turn
  <2>3. q(t).now = pass[s].now /\ q(t).seen = pass[s].seen /\ q(t).at = "turn"
    BY <1>2, <2>2 DEF Pass
  <2>4. DueAtClaim(Fail(q(t), t)) /\ DueAtClaim(Skip(q(t), t))
    <3>1. Fail(q(t), t).now = pass[s].now /\ Fail(q(t), t).at = "turn"
      BY <1>2 DEF Fail, Failed, AfterFailure, Pass
    <3>2. Skip(q(t), t).now = pass[s].now /\ Skip(q(t), t).at = "turn"
      BY <1>2, <2>2 DEF Skip, Pass
    <3> HIDE DEF q
    <3> QED BY <1>2, <3>1, <3>2 DEF DueAtClaim
  <2>5. /\ c(t).now = pass[s].now /\ c(t).seen = pass[s].seen /\ c(t).target = t
    BY <1>2 DEF Pass
  <2>6. ASSUME pass[s].seen[t].interval # None, IsDue(pass[s].seen[t], pass[s].now)
        PROVE  DueAtClaim(c(t))
    <3> HIDE DEF c
    <3> QED BY <1>2, <2>5, <2>6 DEF DueAtClaim
  <2> HIDE DEF q, c
  <2> QED BY <2>1, <2>2, <2>4, <2>6, SpacedMove
<1>8. ASSUME NEW s \in Schedulers,
             Claim(s) \/ Touch(s) \/ TouchFails(s) \/ Finish(s) \/ Abort(s) \/ AbortFails(s)
      PROVE  \A u \in Schedulers : DueAtClaim(pass[u])'
  <2>1. \/ MovesTo(s, Fail(pass[s], pass[s].target))
        \/ MovesTo(s, Succeed(pass[s], pass[s].target))
        \/ \E l \in {"touch", "work", "abort"}, n \in Time :
              MovesTo(s, [pass[s] EXCEPT !.at = l, !.started = n])
    BY <1>1, <1>8, CheckMoves
  <2>2. UNCHANGED clock
    BY <1>8 DEF Claim, Touch, TouchFails, Finish, Abort, AbortFails
  <2>3. DueAtClaim(Fail(pass[s], pass[s].target)) /\ DueAtClaim(Succeed(pass[s], pass[s].target))
    <3>1. /\ Fail(pass[s], pass[s].target).now = pass[s].now
          /\ Fail(pass[s], pass[s].target).at = "turn"
      BY <1>2 DEF Fail, Failed, AfterFailure, Pass
    <3>2. /\ Succeed(pass[s], pass[s].target).now = pass[s].now
          /\ Succeed(pass[s], pass[s].target).at = "turn"
      BY <1>2 DEF Succeed, Pass
    <3> QED BY <1>2, <3>1, <3>2 DEF DueAtClaim
  <2>4. ASSUME NEW l \in {"touch", "work", "abort"}, NEW n \in Time
        PROVE  DueAtClaim([pass[s] EXCEPT !.at = l, !.started = n])
    BY <1>2 DEF DueAtClaim, Pass
  <2> QED BY <2>1, <2>2, <2>3, <2>4, SpacedMove
<1>9. ASSUME NEW s \in Schedulers, EndPass(s) \/ ListFails(s) \/ Crash(s)
      PROVE  \A u \in Schedulers : DueAtClaim(pass[u])'
  <2>1. DueAtClaim(Waiting)
    BY <1>1 DEF DueAtClaim, Waiting, Never
  <2> QED BY <1>1, <1>9, <2>1, EndMoves, SpacedMove DEF EndPass, ListFails, Crash
<1>10. CASE Tick \/ (\E t \in Targets : Edit(t)) \/ UNCHANGED vars
  BY <1>3, <1>10 DEF Tick, Edit, vars
<1> QED BY <1>4, <1>5, <1>6, <1>7, <1>8, <1>9, <1>10 DEF Next, Step

\* Who gets the record of a target had its turn with it and claims it.
LEMMA SpacedStep ==
    ASSUME SpacedInv, [Next]_vars,
           NEW s \in Schedulers, NEW t \in Targets,
           held'[t] # held[t], held'[t].by = s,
           begun[t] # Never, row[t].interval # None, begun[t] = row[t].last,
           pass[s].seen[t] = row[t]
    PROVE  begun'[t] >= begun[t] + row[t].interval
<1>1. TypeInv
  BY DEF SpacedInv
<1>2. held \in [Targets -> Lease] /\ begun \in [Targets -> Time] /\ s # None
      /\ row \in [Targets -> Row] /\ clock \in Time
  BY <1>1, SchedulerAssumption DEF TypeInv, TypeOK
<1>3. ASSUME NEW u \in Schedulers, Finish(u) \/ Abort(u) PROVE FALSE
  <2>1. held'[t] = Free
    BY <1>2, <1>3 DEF Finish, Abort, Release
  <2> QED BY <1>2, <2>1 DEF Free
<1>4. ASSUME NEW u \in Schedulers, Claim(u) PROVE begun'[t] >= begun[t] + row[t].interval
  <2>1. /\ held' = [held EXCEPT ![pass[u].target] = [by |-> u, since |-> clock]]
        /\ begun' = [begun EXCEPT ![pass[u].target] = clock]
    BY <1>4 DEF Claim
  <2>2. t = pass[u].target /\ u = s
    <3>1. t = pass[u].target
      BY <1>2, <2>1
    <3>2. held'[t] = [by |-> u, since |-> clock]
      BY <1>2, <2>1, <3>1
    <3> QED BY <3>1, <3>2
  <2>3. begun'[t] = clock
    BY <1>2, <2>1, <2>2
  <2>4. IsDue(row[t], pass[s].now) /\ pass[s].now <= clock
    BY <1>4, <2>2 DEF SpacedInv, DueAtClaim, Claim
  <2>5. pass[s].now \in Nat /\ clock \in Nat
    BY <1>1, <1>2, PassFields DEF TypeInv, TypeOK, Time
  <2>6. row[t].last \in Nat /\ row[t].interval \in Nat
    <3>1. row[t] \in Row
      BY <1>2
    <3>2. row[t].last \in Time /\ row[t].interval \in Intervals
      BY <3>1 DEF Row
    <3>3. Time \subseteq Nat /\ Intervals \subseteq Nat
      BY SchedulerAssumption DEF Time
    <3> QED BY <3>2, <3>3, Zenon
  <2>7. row[t].last + row[t].interval <= pass[s].now
    <3>1. row[t].last # Never
      OBVIOUS
    <3> QED BY <2>4, <3>1 DEF IsDue
  <2> QED BY <2>3, <2>4, <2>5, <2>6, <2>7
<1>5. ASSUME NEW u \in Schedulers,
             \/ Wake(u) \/ Stop(u) \/ List(u) \/ ListFails(u) \/ Turn(u) \/ EndPass(u)
             \/ Touch(u) \/ TouchFails(u) \/ AbortFails(u) \/ Crash(u)
      PROVE  FALSE
  BY <1>5 DEF Wake, Stop, List, ListFails, Turn, EndPass, Touch, TouchFails,
              AbortFails, Crash
<1>6. CASE Tick \/ (\E o \in Targets : Edit(o)) \/ UNCHANGED vars
  BY <1>6 DEF Tick, Edit, vars
<1> QED BY <1>3, <1>4, <1>5, <1>6 DEF Next, Step

\* Two checks of a target begin at least its interval apart, for any number of
\* scheduler processes, clock values and crashes, with the exceptions that
\* ChecksAreSpaced names (_is_due, last_checked_at).
THEOREM ChecksKeepDistance == Spec => ChecksAreSpaced
<1>1. Spec => []SpacedInv
  BY InitSpaced, NextSpaced, PTL DEF Spec
<1>2. SpacedInv /\ [Next]_vars =>
        [\A s \in Schedulers, t \in Targets :
            /\ held'[t] # held[t] /\ held'[t].by = s
            /\ begun[t] # Never /\ row[t].interval # None
            /\ begun[t] = row[t].last
            /\ pass[s].seen[t] = row[t]
            => begun'[t] >= begun[t] + row[t].interval]_vars
  BY SpacedStep
<1> QED BY <1>1, <1>2, PTL DEF Spec, ChecksAreSpaced
=============================================================================
