--------------------------- MODULE SnapshotProofs ---------------------------
(***************************************************************************)
(* Proofs about the snapshot directory, for any number of calls, clock     *)
(* readings and contents.                                                  *)
(*                                                                         *)
(* Types and orphans are proved for any number of storages and for every   *)
(* fault.  What metadata promises holds under two assumptions: insert_one  *)
(* does not fail after it was applied, and no two storages, each with a    *)
(* lock of its own, write with the same clock reading.  With one storage   *)
(* the second needs no assuming.                                           *)
(***************************************************************************)
EXTENDS SnapshotStore, FiniteSetTheorems, TLAPS

-----------------------------------------------------------------------------
(* The inductive invariant of every storage.                               *)

Steps == {"lock", "name", "write", "insert", "delete"} \cup Over
Call == [at : Steps, storage : Storages \cup {None}, stamp : Stamps \cup {None},
         content : Contents \cup {None}, suffix : Nat]

\* The calls that will not change their path again, and those that may have a file.
Settled == {"insert", "delete", "done", "failed", "leaked", "dead"}
Holding == {"insert", "delete", "done", "leaked", "dead"}

\* What a call that has begun knows.
Begun ==
    \A c \in Calls : ~At(c, "idle") =>
        call[c].storage \in Storages /\ call[c].stamp \in Stamps /\ call[c].content \in Contents

\* A suffix was passed over because some call had taken the name.
Taken(c, k) == \E d \in Calls \ {c} : call[d].at \in Settled /\ PathOf(d) = <<call[c].stamp, k>>
SuffixInv == \A c \in Calls : \A k \in Nat : k < call[c].suffix => Taken(c, k)

Inv ==
    /\ files \in [Paths -> Contents \cup {None}]
    /\ metadata \in [Calls -> Row \cup {None}]
    /\ lock \in [Storages -> Calls \cup {None}]
    /\ call \in [Calls -> Call]
    /\ Begun
    /\ SuffixInv
    /\ NoOrphans

-----------------------------------------------------------------------------
(* The inductive invariant of what metadata promises.                      *)

\* No two storages write with the same clock reading.
ClocksDiffer ==
    \A c, d \in Calls :
        ~At(c, "idle") /\ ~At(d, "idle") /\ call[c].storage # call[d].storage =>
            call[c].stamp # call[d].stamp

\* The lock is held from the first look for a name until the file is there.
LockInv == \A c \in Calls : call[c].at \in {"name", "write"} => lock[call[c].storage] = c

\* The name that a call is about to use is free.
NameInv == \A c \in Calls : At(c, "write") => files[PathOf(c)] = None

\* The files of calls that wrote one are theirs alone.
Owning == {"insert", "delete", "done"}
FileInv ==
    \A c \in Calls : call[c].at \in Owning =>
        /\ files[PathOf(c)] = call[c].content
        /\ \A d \in Calls \ {c} : call[d].at \in Owning => PathOf(d) # PathOf(c)

DocumentInv == \A c \in Calls : metadata[c] # None => At(c, "done") /\ metadata[c] = Document(c)

MetaInv == LockInv /\ NameInv /\ FileInv /\ DocumentInv

-----------------------------------------------------------------------------
(* Types and names.                                                        *)

\* The fields of a call.
LEMMA CallFields ==
    ASSUME Inv, NEW c \in Calls
    PROVE  /\ call[c] \in Call /\ call[c].at \in Steps /\ call[c].suffix \in Nat
           /\ ~At(c, "idle") => /\ call[c].storage \in Storages
                                /\ call[c].stamp \in Stamps /\ call[c].content \in Contents
BY DEF Inv, Call, Begun

\* _next_filename always finds a name: each name it passed over is that of another call.
LEMMA SuffixBound ==
    ASSUME Inv, NEW c \in Calls
    PROVE  call[c].suffix < Cardinality(Calls) /\ call[c].suffix \in Suffixes
<1> DEFINE n == call[c].suffix
           S == 0 .. n - 1
           T == Calls \ {c}
           f == [k \in S |-> CHOOSE d \in T : PathOf(d) = <<call[c].stamp, k>>]
<1>1. n \in Nat
  BY CallFields
<1>2. IsFiniteSet(T) /\ Cardinality(T) = Cardinality(Calls) - 1 /\ Cardinality(Calls) \in Nat
  BY SnapshotStoreAssumption, FS_RemoveElement, FS_CardinalityType
<1>3. IsFiniteSet(S) /\ Cardinality(S) = n
  <2>1. 0 \in Int /\ n - 1 \in Int /\ (IF 0 > n - 1 THEN 0 ELSE n - 1 - 0 + 1) = n
    BY <1>1
  <2> QED BY <2>1, FS_Interval, Zenon
<1>4. \A k \in S : f[k] \in T /\ PathOf(f[k]) = <<call[c].stamp, k>>
  <2> SUFFICES ASSUME NEW k \in S PROVE f[k] \in T /\ PathOf(f[k]) = <<call[c].stamp, k>>
    OBVIOUS
  <2>1. \E d \in T : PathOf(d) = <<call[c].stamp, k>>
    BY <1>1 DEF Inv, SuffixInv, Taken
  <2> QED BY <2>1
<1>5. f \in [S -> T]
  BY <1>4
<1>6. ASSUME NEW x \in S, NEW y \in S, f[x] = f[y] PROVE x = y
  <2>1. <<call[c].stamp, x>> = <<call[c].stamp, y>>
    BY <1>4, <1>6, Zenon
  <2> QED BY <2>1
<1> HIDE DEF S, T, f
<1>7. ~(Cardinality(T) < Cardinality(S))
  BY <1>2, <1>3, <1>5, <1>6, FS_PigeonHole
<1> QED BY <1>1, <1>2, <1>3, <1>7 DEF Suffixes

LEMMA PathType ==
    ASSUME Inv, NEW c \in Calls, ~At(c, "idle")
    PROVE  PathOf(c) \in Paths /\ Document(c) \in Row
BY CallFields, SuffixBound DEF PathOf, Paths, Document, Row

-----------------------------------------------------------------------------
(* Types and orphans, whatever happens.                                    *)

\* One call changes: the names that others passed over are still taken.
LEMMA CallKeeps ==
    ASSUME Inv, NEW c \in Calls, NEW r \in Call, call' = [call EXCEPT ![c] = r],
           r.at # "idle" => r.storage \in Storages /\ r.stamp \in Stamps /\ r.content \in Contents,
           call[c].at \in Settled =>
               r.at \in Settled /\ r.stamp = call[c].stamp /\ r.suffix = call[c].suffix,
           \A k \in Nat : k < r.suffix =>
               \E d \in Calls \ {c} : call[d].at \in Settled /\ PathOf(d) = <<r.stamp, k>>
    PROVE  /\ call' \in [Calls -> Call] /\ Begun' /\ SuffixInv'
           /\ call'[c] = r /\ \A d \in Calls \ {c} : call'[d] = call[d]
<1>1. call \in [Calls -> Call] /\ Begun /\ SuffixInv
  BY DEF Inv
<1>2. call' \in [Calls -> Call] /\ call'[c] = r /\ \A d \in Calls \ {c} : call'[d] = call[d]
  BY <1>1
<1>3. Begun'
  BY <1>1, <1>2 DEF Begun, At
<1>4. \A d \in Calls : call[d].at \in Settled =>
          call'[d].at \in Settled /\ PathOf(d)' = PathOf(d)
  BY <1>2 DEF PathOf
<1>5. SuffixInv'
  <2> SUFFICES ASSUME NEW o \in Calls, NEW k \in Nat, k < call'[o].suffix
               PROVE  \E d \in Calls \ {o} : /\ call'[d].at \in Settled
                                             /\ PathOf(d)' = <<call'[o].stamp, k>>
    BY DEF SuffixInv, Taken
  <2>1. \E d \in Calls \ {o} : call[d].at \in Settled /\ PathOf(d) = <<call'[o].stamp, k>>
    BY <1>1, <1>2 DEF SuffixInv, Taken
  <2> QED BY <2>1, <1>4
<1> QED BY <1>2, <1>3, <1>5

\* A call goes on to its next step.
LEMMA GoKeeps ==
    ASSUME Inv, NEW c \in Calls, NEW step \in Steps \ {"idle"}, ~At(c, "idle"), Go(c, step),
           call[c].at \in Settled => step \in Settled
    PROVE  /\ call' \in [Calls -> Call] /\ Begun' /\ SuffixInv'
           /\ call'[c].at = step /\ PathOf(c)' = PathOf(c)
           /\ call'[c].storage = call[c].storage /\ call'[c].content = call[c].content
           /\ call'[c].stamp = call[c].stamp
           /\ \A d \in Calls \ {c} : call'[d] = call[d] /\ PathOf(d)' = PathOf(d)
<1> DEFINE r == [call[c] EXCEPT !.at = step]
<1>1. r \in Call /\ r.at = step /\ r.storage = call[c].storage /\ r.stamp = call[c].stamp
      /\ r.content = call[c].content /\ r.suffix = call[c].suffix
  BY CallFields DEF Call
<1>2. \A k \in Nat : k < r.suffix =>
          \E d \in Calls \ {c} : call[d].at \in Settled /\ PathOf(d) = <<r.stamp, k>>
  BY <1>1 DEF Inv, SuffixInv, Taken
<1>3. call' = [call EXCEPT ![c] = r]
  BY DEF Go
<1> HIDE DEF r
<1>4. call' \in [Calls -> Call] /\ Begun' /\ SuffixInv'
      /\ call'[c] = r /\ \A d \in Calls \ {c} : call'[d] = call[d]
  BY <1>1, <1>2, <1>3, CallFields, CallKeeps
<1> QED BY <1>1, <1>4 DEF PathOf

\* A call that has begun takes another name.
LEMMA NextNameKeeps ==
    ASSUME Inv, NEW c \in Calls, At(c, "name"), files[PathOf(c)] # None,
           call' = [call EXCEPT ![c].suffix = @ + 1]
    PROVE  /\ call' \in [Calls -> Call] /\ Begun' /\ SuffixInv'
           /\ call'[c].at = "name" /\ call'[c].storage = call[c].storage
           /\ \A d \in Calls \ {c} : call'[d] = call[d] /\ PathOf(d)' = PathOf(d)
<1> DEFINE r == [call[c] EXCEPT !.suffix = @ + 1]
<1>1. call[c].suffix \in Nat /\ ~At(c, "idle")
  BY CallFields DEF At
<1>2. r \in Call /\ r.at = call[c].at /\ r.storage = call[c].storage
      /\ r.stamp = call[c].stamp /\ r.content = call[c].content
      /\ r.suffix = call[c].suffix + 1
  BY <1>1, CallFields DEF Call
<1>3. \A k \in Nat : k < r.suffix =>
          \E d \in Calls \ {c} : call[d].at \in Settled /\ PathOf(d) = <<r.stamp, k>>
  <2> SUFFICES ASSUME NEW k \in Nat, k < r.suffix
               PROVE  \E d \in Calls \ {c} : call[d].at \in Settled /\ PathOf(d) = <<r.stamp, k>>
    OBVIOUS
  <2>1. CASE k < call[c].suffix
    BY <1>2, <2>1 DEF Inv, SuffixInv, Taken
  <2>2. CASE k = call[c].suffix
    <3>1. PICK d \in Calls : PathOf(d) = PathOf(c) /\ call[d].at \in Holding
      BY <1>1, PathType DEF Inv, NoOrphans, Holding
    <3>2. d # c /\ call[d].at \in Settled
      BY <3>1 DEF At, Holding, Settled
    <3> QED BY <1>2, <2>2, <3>1, <3>2 DEF PathOf
  <2> QED BY <1>1, <1>2, <2>1, <2>2
<1>4. call' = [call EXCEPT ![c] = r]
  OBVIOUS
<1>5. call[c].at \notin Settled /\ r.at = "name"
  BY <1>2 DEF At, Settled
<1> HIDE DEF r
<1>6. call' \in [Calls -> Call] /\ Begun' /\ SuffixInv'
      /\ call'[c] = r /\ \A d \in Calls \ {c} : call'[d] = call[d]
  BY <1>1, <1>2, <1>3, <1>4, <1>5, CallFields, CallKeeps
<1> QED BY <1>2, <1>5, <1>6 DEF PathOf

LEMMA InitInv == Init => Inv
<1> SUFFICES ASSUME Init PROVE Inv
  OBVIOUS
<1>1. Idle \in Call /\ Idle.at = "idle" /\ Idle.suffix = 0
  BY DEF Idle, Call, Steps, Over
<1>2. call \in [Calls -> Call] /\ \A c \in Calls : call[c] = Idle
  BY <1>1 DEF Init
<1>3. Begun /\ SuffixInv
  BY <1>1, <1>2 DEF Begun, At, SuffixInv
<1> QED BY <1>2, <1>3 DEF Init, Inv, NoOrphans

\* A file that no step of call c touches keeps the call it belongs to.
LEMMA OrphansKeep ==
    ASSUME Inv, NEW c \in Calls,
           \A d \in Calls \ {c} : call'[d] = call[d] /\ PathOf(d)' = PathOf(d),
           \/ call[c].at \notin Holding
           \/ call'[c].at \in Holding /\ PathOf(c)' = PathOf(c)
           \/ files' = [files EXCEPT ![PathOf(c)] = None],
           \/ files' = files
           \/ files' = [files EXCEPT ![PathOf(c)] = None]
           \/ files' = [files EXCEPT ![PathOf(c)] = call[c].content] /\ call'[c].at \in Holding
              /\ PathOf(c)' = PathOf(c)
    PROVE  NoOrphans'
<1> SUFFICES ASSUME NEW p \in Paths, files'[p] # None
             PROVE  \E d \in Calls : PathOf(d)' = p /\ call'[d].at \in Holding
  BY DEF NoOrphans, Holding
<1>1. CASE p = PathOf(c) /\ call'[c].at \in Holding /\ PathOf(c)' = PathOf(c)
  BY <1>1
<1>2. CASE ~(p = PathOf(c) /\ call'[c].at \in Holding /\ PathOf(c)' = PathOf(c))
  <2>1. files[p] # None
    BY <1>2 DEF Inv
  <2>2. PICK d \in Calls : PathOf(d) = p /\ call[d].at \in Holding
    BY <2>1 DEF Inv, NoOrphans, Holding
  <2>3. d # c
    <3> SUFFICES ASSUME d = c PROVE FALSE
      OBVIOUS
    <3>1. files' = [files EXCEPT ![p] = None]
      BY <1>2, <2>2
    <3> QED BY <3>1 DEF Inv
  <2> QED BY <2>2, <2>3
<1> QED BY <1>1, <1>2

\* One call of create_snapshot goes on.
LEMMA CallStepKeepsInv ==
    ASSUME Inv, NEW c \in Calls,
           \/ \E s \in Storages, t \in Stamps, x \in Contents : Begin(c, s, t, x)
           \/ Lock(c) \/ NextFilename(c) \/ Replace(c) \/ WriteFails(c)
           \/ Insert(c) \/ InsertFails(c) \/ Delete(c) \/ DeleteFails(c)
    PROVE  Inv'
<1>0. /\ files \in [Paths -> Contents \cup {None}] /\ metadata \in [Calls -> Row \cup {None}]
      /\ lock \in [Storages -> Calls \cup {None}]
  BY DEF Inv
<1>1. ASSUME NEW s \in Storages, NEW t \in Stamps, NEW x \in Contents, Begin(c, s, t, x)
      PROVE  Inv'
  <2> DEFINE r == [at |-> "lock", storage |-> s, stamp |-> t, content |-> x, suffix |-> 0]
  <2>1. r \in Call /\ r.at = "lock" /\ r.storage = s /\ r.stamp = t /\ r.content = x
        /\ r.suffix = 0
    BY DEF Call, Steps
  <2>2. call' = [call EXCEPT ![c] = r] /\ UNCHANGED <<files, metadata, lock>>
        /\ call[c].at = "idle"
    BY <1>1 DEF Begin, At
  <2> HIDE DEF r
  <2>3. call[c].at \notin Settled /\ call[c].at \notin Holding
    BY <2>2 DEF Settled, Holding
  <2>4. \A k \in Nat : k < r.suffix =>
            \E d \in Calls \ {c} : call[d].at \in Settled /\ PathOf(d) = <<r.stamp, k>>
    BY <2>1
  <2>5. call' \in [Calls -> Call] /\ Begun' /\ SuffixInv'
        /\ \A d \in Calls \ {c} : call'[d] = call[d]
    BY <2>1, <2>2, <2>3, <2>4, CallKeeps
  <2>6. \A d \in Calls \ {c} : PathOf(d)' = PathOf(d)
    BY <2>5 DEF PathOf
  <2>7. NoOrphans'
    BY <2>2, <2>3, <2>5, <2>6, OrphansKeep
  <2> QED BY <1>0, <2>2, <2>5, <2>7 DEF Inv
<1>2. CASE Lock(c)
  <2>1. Go(c, "name") /\ call[c].at = "lock" /\ UNCHANGED <<files, metadata>>
        /\ lock' = [lock EXCEPT ![call[c].storage] = c]
    BY <1>2 DEF Lock, At
  <2>2. call[c].at \notin Settled /\ call[c].at \notin Holding /\ ~At(c, "idle")
        /\ "name" \in Steps \ {"idle"}
    BY <2>1 DEF Settled, Holding, At, Steps
  <2>3. call' \in [Calls -> Call] /\ Begun' /\ SuffixInv' /\ NoOrphans'
    BY <2>1, <2>2, GoKeeps, OrphansKeep
  <2> QED BY <1>0, <2>1, <2>3 DEF Inv
<1>3. CASE NextFilename(c)
  <2>1. call[c].at = "name" /\ UNCHANGED <<files, metadata, lock>>
    BY <1>3 DEF NextFilename, At
  <2>2. call[c].at \notin Settled /\ call[c].at \notin Holding /\ ~At(c, "idle")
        /\ "write" \in Steps \ {"idle"}
    BY <2>1 DEF Settled, Holding, At, Steps
  <2>3. CASE files[PathOf(c)] = None
    <3>1. Go(c, "write")
      BY <1>3, <2>3 DEF NextFilename
    <3>2. call' \in [Calls -> Call] /\ Begun' /\ SuffixInv' /\ NoOrphans'
      BY <2>1, <2>2, <3>1, GoKeeps, OrphansKeep
    <3> QED BY <1>0, <2>1, <3>2 DEF Inv
  <2>4. CASE files[PathOf(c)] # None
    <3>1. call' = [call EXCEPT ![c].suffix = @ + 1] /\ At(c, "name")
      BY <1>3, <2>4 DEF NextFilename
    <3>2. call' \in [Calls -> Call] /\ Begun' /\ SuffixInv' /\ NoOrphans'
      BY <2>1, <2>2, <2>4, <3>1, NextNameKeeps, OrphansKeep
    <3> QED BY <1>0, <2>1, <3>2 DEF Inv
  <2> QED BY <2>3, <2>4
<1>4. CASE Replace(c)
  <2>1. Go(c, "insert") /\ call[c].at = "write" /\ UNCHANGED metadata
        /\ lock' = [lock EXCEPT ![call[c].storage] = None]
        /\ files' = [files EXCEPT ![PathOf(c)] = call[c].content]
    BY <1>4 DEF Replace, At, Unlock
  <2>2. call[c].at \notin Settled /\ call[c].at \notin Holding /\ ~At(c, "idle")
        /\ "insert" \in Steps \ {"idle"} /\ "insert" \in Holding
    BY <2>1 DEF Settled, Holding, At, Steps
  <2>3. call' \in [Calls -> Call] /\ Begun' /\ SuffixInv' /\ NoOrphans'
    BY <2>1, <2>2, GoKeeps, OrphansKeep
  <2>4. files' \in [Paths -> Contents \cup {None}]
    BY <1>0, <2>1, <2>2, CallFields
  <2> QED BY <1>0, <2>1, <2>3, <2>4 DEF Inv
<1>5. CASE WriteFails(c)
  <2>1. Go(c, "failed") /\ call[c].at = "write" /\ UNCHANGED <<files, metadata>>
        /\ lock' = [lock EXCEPT ![call[c].storage] = None]
    BY <1>5 DEF WriteFails, At, Unlock
  <2>2. call[c].at \notin Settled /\ call[c].at \notin Holding /\ ~At(c, "idle")
        /\ "failed" \in Steps \ {"idle"}
    BY <2>1 DEF Settled, Holding, At, Steps, Over
  <2>3. call' \in [Calls -> Call] /\ Begun' /\ SuffixInv' /\ NoOrphans'
    BY <2>1, <2>2, GoKeeps, OrphansKeep
  <2> QED BY <1>0, <2>1, <2>3 DEF Inv
<1>6. CASE Insert(c) \/ InsertFails(c)
  <2>1. /\ call[c].at = "insert" /\ UNCHANGED <<files, lock>>
        /\ Go(c, "done") \/ Go(c, "delete")
        /\ metadata' = metadata \/ metadata' = [metadata EXCEPT ![c] = Document(c)]
    BY <1>6 DEF Insert, InsertFails, At
  <2>2. ~At(c, "idle") /\ {"done", "delete"} \subseteq Steps \ {"idle"}
        /\ {"done", "delete"} \subseteq Settled \cap Holding
    BY <2>1 DEF Settled, Holding, At, Steps, Over
  <2>3. call' \in [Calls -> Call] /\ Begun' /\ SuffixInv' /\ NoOrphans'
    BY <2>1, <2>2, GoKeeps, OrphansKeep
  <2>4. metadata' \in [Calls -> Row \cup {None}]
    BY <1>0, <2>1, <2>2, PathType
  <2> QED BY <1>0, <2>1, <2>3, <2>4 DEF Inv
<1>7. CASE Delete(c)
  <2>1. Go(c, "failed") /\ call[c].at = "delete" /\ UNCHANGED <<metadata, lock>>
        /\ files' = [files EXCEPT ![PathOf(c)] = None]
    BY <1>7 DEF Delete, At
  <2>2. ~At(c, "idle") /\ "failed" \in Steps \ {"idle"} /\ "failed" \in Settled
    BY <2>1 DEF Settled, At, Steps, Over
  <2>3. call' \in [Calls -> Call] /\ Begun' /\ SuffixInv' /\ NoOrphans'
    BY <2>1, <2>2, GoKeeps, OrphansKeep
  <2>4. files' \in [Paths -> Contents \cup {None}]
    BY <1>0, <2>1
  <2> QED BY <1>0, <2>1, <2>3, <2>4 DEF Inv
<1>8. CASE DeleteFails(c)
  <2>1. Go(c, "leaked") /\ call[c].at = "delete" /\ UNCHANGED <<files, metadata, lock>>
    BY <1>8 DEF DeleteFails, At
  <2>2. ~At(c, "idle") /\ "leaked" \in Steps \ {"idle"} /\ "leaked" \in Settled \cap Holding
    BY <2>1 DEF Settled, Holding, At, Steps, Over
  <2>3. call' \in [Calls -> Call] /\ Begun' /\ SuffixInv' /\ NoOrphans'
    BY <2>1, <2>2, GoKeeps, OrphansKeep
  <2> QED BY <1>0, <2>1, <2>3 DEF Inv
<1> QED BY <1>1, <1>2, <1>3, <1>4, <1>5, <1>6, <1>7, <1>8

\* The processes die: a call that was under way keeps its name, and its file if it has one.
LEMMA CrashCalls ==
    ASSUME Inv, Crash, NEW c \in Calls
    PROVE  /\ call' \in [Calls -> Call]
           /\ PathOf(c)' = PathOf(c) /\ call'[c].storage = call[c].storage
           /\ call'[c].stamp = call[c].stamp /\ call'[c].content = call[c].content
           /\ call'[c].suffix = call[c].suffix
           /\ call'[c].at = IF call[c].at \in Over THEN call[c].at ELSE "dead"
<1>1. \A d \in Calls : [call[d] EXCEPT !.at = "dead"] \in Call
  BY CallFields DEF Call, Steps, Over
<1>2. call' \in [Calls -> Call]
  BY <1>1, CallFields DEF Crash
<1>3. call'[c] = IF call[c].at \in Over THEN call[c] ELSE [call[c] EXCEPT !.at = "dead"]
  BY DEF Crash
<1>4. call[c] \in Call
  BY CallFields
<1> QED BY <1>2, <1>3, <1>4 DEF Call, PathOf

LEMMA CrashKeepsInv == ASSUME Inv, Crash PROVE Inv'
<1>1. \A c \in Calls : call[c].at \in Settled => call'[c].at \in Settled
  BY CrashCalls DEF Settled
<1>2. \A c \in Calls : call[c].at \in Holding => call'[c].at \in Holding
  BY CrashCalls DEF Holding
<1>3. call' \in [Calls -> Call]
  BY CrashCalls, CallFields DEF Crash, Inv, Call, Steps, Over
<1>4. Begun'
  BY CrashCalls, CallFields DEF Begun, At, Over
<1>5. SuffixInv'
  <2> SUFFICES ASSUME NEW c \in Calls, NEW k \in Nat, k < call'[c].suffix
               PROVE  \E d \in Calls \ {c} : /\ call'[d].at \in Settled
                                             /\ PathOf(d)' = <<call'[c].stamp, k>>
    BY DEF SuffixInv, Taken
  <2>1. \E d \in Calls \ {c} : call[d].at \in Settled /\ PathOf(d) = <<call[c].stamp, k>>
    BY CrashCalls DEF Inv, SuffixInv, Taken
  <2> QED BY <1>1, <2>1, CrashCalls
<1>6. UNCHANGED <<files, metadata>> /\ lock' \in [Storages -> Calls \cup {None}]
  BY DEF Crash
<1>7. NoOrphans'
  <2> SUFFICES ASSUME NEW p \in Paths, files[p] # None
               PROVE  \E c \in Calls : PathOf(c)' = p /\ call'[c].at \in Holding
    BY <1>6 DEF NoOrphans, Holding
  <2>1. \E c \in Calls : PathOf(c) = p /\ call[c].at \in Holding
    BY DEF Inv, NoOrphans, Holding
  <2> QED BY <1>2, <2>1, CrashCalls
<1> QED BY <1>3, <1>4, <1>5, <1>6, <1>7 DEF Inv

LEMMA StepKeepsInv == Inv /\ [Next]_vars => Inv'
<1> SUFFICES ASSUME Inv, [Next]_vars PROVE Inv'
  OBVIOUS
<1>1. CASE UNCHANGED vars
  BY <1>1 DEF vars, Inv, Begun, At, SuffixInv, Taken, PathOf, NoOrphans
<1>2. CASE Next
  BY <1>2, CallStepKeepsInv, CrashKeepsInv DEF Next
<1> QED BY <1>1, <1>2

LEMMA SpecInv == Spec => []Inv
<1> QED BY InitInv, StepKeepsInv, PTL DEF Spec

\* The snapshot store never leaves its types: _next_filename finds a free name before
\* it has tried as many suffixes as there are calls, however many storages write at once.
THEOREM TypesAreKept == Spec => []TypeOK
<1>1. Inv => TypeOK
  <2> SUFFICES ASSUME Inv PROVE TypeOK
    OBVIOUS
  <2>1. call \in [Calls ->
            [at : {"lock", "name", "write", "insert", "delete"} \cup Over,
             storage : Storages \cup {None}, stamp : Stamps \cup {None},
             content : Contents \cup {None}, suffix : Suffixes]]
    <3>1. call \in [Calls -> Call]
      BY DEF Inv
    <3>2. \A c \in Calls : call[c] \in
             [at : {"lock", "name", "write", "insert", "delete"} \cup Over,
              storage : Storages \cup {None}, stamp : Stamps \cup {None},
              content : Contents \cup {None}, suffix : Suffixes]
      BY CallFields, SuffixBound DEF Call, Steps
    <3> QED BY <3>1, <3>2
  <2> QED BY <2>1 DEF Inv, TypeOK
<1> QED BY <1>1, SpecInv, PTL

\* create_snapshot leaves no file without a document behind, unless it could not delete
\* the file or its process died: whatever faults happen and however many storages write.
THEOREM NoFileIsOrphaned == Spec => []NoOrphans
<1>1. Inv => NoOrphans
  BY DEF Inv
<1> QED BY <1>1, SpecInv, PTL

-----------------------------------------------------------------------------
(* What metadata promises.                                                 *)

\* What MetaInv says of call c, given that nobody else changes.
LEMMA OneCallKeepsMeta ==
    ASSUME Inv, MetaInv, NEW c \in Calls,
           \A d \in Calls \ {c} : call'[d] = call[d] /\ PathOf(d)' = PathOf(d),
           \A d \in Calls \ {c} : metadata'[d] = metadata[d],
           \A d \in Calls \ {c} : call[d].at \in {"name", "write"} =>
               lock'[call[d].storage] = lock[call[d].storage],
           \A d \in Calls \ {c} : call[d].at \in Owning \cup {"write"} =>
               files'[PathOf(d)] = files[PathOf(d)],
           call'[c].at \in {"name", "write"} => lock'[call'[c].storage] = c,
           call'[c].at = "write" => files'[PathOf(c)'] = None,
           call'[c].at \in Owning =>
               /\ files'[PathOf(c)'] = call'[c].content
               /\ \A d \in Calls \ {c} : call[d].at \in Owning => PathOf(d) # PathOf(c)',
           metadata'[c] # None =>
               /\ call'[c].at = "done"
               /\ metadata'[c] = [path |-> PathOf(c)', hash |-> call'[c].content]
    PROVE  MetaInv'
<1>1. LockInv'
  BY DEF MetaInv, LockInv
<1>2. NameInv'
  BY DEF MetaInv, NameInv, At, Owning
<1>3. FileInv'
  BY DEF MetaInv, FileInv
<1>4. DocumentInv'
  BY DEF MetaInv, DocumentInv, At, Document
<1> QED BY <1>1, <1>2, <1>3, <1>4 DEF MetaInv

LEMMA CallStepKeepsMeta ==
    ASSUME Inv, MetaInv, ClocksDiffer, "lost" \notin Faults, NEW c \in Calls,
           \/ \E s \in Storages, t \in Stamps, x \in Contents : Begin(c, s, t, x)
           \/ Lock(c) \/ NextFilename(c) \/ Replace(c) \/ WriteFails(c)
           \/ Insert(c) \/ InsertFails(c) \/ Delete(c) \/ DeleteFails(c)
    PROVE  MetaInv'
<1>1. ASSUME NEW s \in Storages, NEW t \in Stamps, NEW x \in Contents, Begin(c, s, t, x)
      PROVE  MetaInv'
  <2>1. call[c].at = "idle" /\ UNCHANGED <<files, metadata, lock>>
        /\ call' = [call EXCEPT ![c] =
               [at |-> "lock", storage |-> s, stamp |-> t, content |-> x, suffix |-> 0]]
    BY <1>1 DEF Begin, At
  <2>2. call'[c].at = "lock" /\ \A d \in Calls \ {c} : call'[d] = call[d]
    BY <2>1 DEF Inv
  <2>3. \A d \in Calls \ {c} : PathOf(d)' = PathOf(d)
    BY <2>2 DEF PathOf
  <2>4. metadata[c] = None
    BY <2>1 DEF MetaInv, DocumentInv, At
  <2>5. call'[c].at \notin Owning \cup {"name", "write"}
    BY <2>2 DEF Owning
  <2> QED BY <2>1, <2>2, <2>3, <2>4, <2>5, OneCallKeepsMeta
<1>2. CASE Lock(c)
  <2>1. Go(c, "name") /\ call[c].at = "lock" /\ UNCHANGED <<files, metadata>>
        /\ lock[call[c].storage] = None /\ lock' = [lock EXCEPT ![call[c].storage] = c]
    BY <1>2 DEF Lock, At, LockIsFree
  <2>2. ~At(c, "idle") /\ "name" \in Steps \ {"idle"} /\ call[c].at \notin Settled
    BY <2>1 DEF At, Steps, Settled
  <2>3. call'[c].at = "name" /\ call'[c].storage = call[c].storage
        /\ \A d \in Calls \ {c} : call'[d] = call[d] /\ PathOf(d)' = PathOf(d)
    BY <2>1, <2>2, GoKeeps
  <2>4. metadata[c] = None
    BY <2>1 DEF MetaInv, DocumentInv, At
  <2>5. lock'[call[c].storage] = c
    BY <2>1, <2>2, CallFields DEF Inv
  <2>6. \A d \in Calls \ {c} : call[d].at \in {"name", "write"} =>
            lock'[call[d].storage] = lock[call[d].storage]
    BY <2>1, <2>2, CallFields, SnapshotStoreAssumption DEF MetaInv, LockInv, Inv, At
  <2>7. call'[c].at \notin Owning \cup {"write"}
    BY <2>3 DEF Owning
  <2> QED BY <2>1, <2>3, <2>4, <2>5, <2>6, <2>7, OneCallKeepsMeta
<1>3. CASE NextFilename(c)
  <2>1. call[c].at = "name" /\ UNCHANGED <<files, metadata, lock>>
    BY <1>3 DEF NextFilename, At
  <2>2. ~At(c, "idle") /\ "write" \in Steps \ {"idle"} /\ call[c].at \notin Settled
    BY <2>1 DEF At, Steps, Settled
  <2>3. metadata[c] = None /\ lock[call[c].storage] = c
    BY <2>1 DEF MetaInv, DocumentInv, At, LockInv
  <2>4. CASE files[PathOf(c)] = None
    <3>1. Go(c, "write")
      BY <1>3, <2>4 DEF NextFilename
    <3>2. call'[c].at = "write" /\ call'[c].storage = call[c].storage /\ PathOf(c)' = PathOf(c)
          /\ \A d \in Calls \ {c} : call'[d] = call[d] /\ PathOf(d)' = PathOf(d)
      BY <2>2, <3>1, GoKeeps
    <3>3. call'[c].at \notin Owning
      BY <3>2 DEF Owning
    <3> QED BY <2>1, <2>3, <2>4, <3>2, <3>3, OneCallKeepsMeta
  <2>5. CASE files[PathOf(c)] # None
    <3>1. call' = [call EXCEPT ![c].suffix = @ + 1] /\ At(c, "name")
      BY <1>3, <2>5 DEF NextFilename
    <3>2. call'[c].at = "name" /\ call'[c].storage = call[c].storage
          /\ \A d \in Calls \ {c} : call'[d] = call[d] /\ PathOf(d)' = PathOf(d)
      BY <2>5, <3>1, NextNameKeeps
    <3>3. call'[c].at \notin Owning \cup {"write"}
      BY <3>2 DEF Owning
    <3> QED BY <2>1, <2>3, <3>2, <3>3, OneCallKeepsMeta
  <2> QED BY <2>4, <2>5
\* The lock and the clocks keep other writers away from the free name.
<1>4. CASE Replace(c)
  <2>1. Go(c, "insert") /\ call[c].at = "write" /\ UNCHANGED metadata
        /\ lock' = [lock EXCEPT ![call[c].storage] = None]
        /\ files' = [files EXCEPT ![PathOf(c)] = call[c].content]
    BY <1>4 DEF Replace, At, Unlock
  <2>2. ~At(c, "idle") /\ "insert" \in Steps \ {"idle"} /\ call[c].at \notin Settled
        /\ "insert" \notin {"name", "write"}
    BY <2>1 DEF At, Steps, Settled
  <2>3. call'[c].at = "insert" /\ call'[c].content = call[c].content /\ PathOf(c)' = PathOf(c)
        /\ \A d \in Calls \ {c} : call'[d] = call[d] /\ PathOf(d)' = PathOf(d)
    BY <2>1, <2>2, GoKeeps
  <2>4. metadata[c] = None /\ lock[call[c].storage] = c /\ files[PathOf(c)] = None
    BY <2>1 DEF MetaInv, DocumentInv, At, LockInv, NameInv
  <2>5. \A d \in Calls \ {c} : call[d].at \in {"name", "write"} =>
            call[d].storage # call[c].storage
    BY <2>4 DEF MetaInv, LockInv
  <2>6. \A d \in Calls \ {c} : call[d].at \in {"name", "write"} =>
            lock'[call[d].storage] = lock[call[d].storage]
    BY <2>1, <2>5, CallFields DEF Inv, At
  <2>7. \A d \in Calls \ {c} : call[d].at \in Owning => PathOf(d) # PathOf(c)
    <3> SUFFICES ASSUME NEW d \in Calls \ {c}, call[d].at \in Owning, PathOf(d) = PathOf(c)
                 PROVE  FALSE
      OBVIOUS
    <3>1. files[PathOf(d)] = call[d].content
      BY DEF MetaInv, FileInv
    <3>2. call[d].content \in Contents
      BY CallFields DEF At, Owning
    <3> QED BY <2>4, <3>1, <3>2, SnapshotStoreAssumption
  <2>8. \A d \in Calls \ {c} : call[d].at = "write" => PathOf(d) # PathOf(c)
    BY <2>2, <2>5 DEF ClocksDiffer, At, PathOf
  <2>9. files'[PathOf(c)] = call[c].content
        /\ \A d \in Calls \ {c} : call[d].at \in Owning \cup {"write"} =>
               files'[PathOf(d)] = files[PathOf(d)]
    <3>1. PathOf(c) \in Paths /\ files \in [Paths -> Contents \cup {None}]
      BY <2>2, PathType DEF Inv
    <3>2. \A d \in Calls : call[d].at \in Owning \cup {"write"} => PathOf(d) \in Paths
      BY PathType DEF At, Owning
    <3> QED BY <2>1, <2>7, <2>8, <3>1, <3>2
  <2> QED BY <2>1, <2>2, <2>3, <2>4, <2>6, <2>7, <2>9, OneCallKeepsMeta
<1>5. CASE WriteFails(c)
  <2>1. Go(c, "failed") /\ call[c].at = "write" /\ UNCHANGED <<files, metadata>>
        /\ lock' = [lock EXCEPT ![call[c].storage] = None]
    BY <1>5 DEF WriteFails, At, Unlock
  <2>2. ~At(c, "idle") /\ "failed" \in Steps \ {"idle"} /\ call[c].at \notin Settled
    BY <2>1 DEF At, Steps, Settled, Over
  <2>3. call'[c].at = "failed"
        /\ \A d \in Calls \ {c} : call'[d] = call[d] /\ PathOf(d)' = PathOf(d)
    BY <2>1, <2>2, GoKeeps
  <2>4. metadata[c] = None /\ lock[call[c].storage] = c
    BY <2>1 DEF MetaInv, DocumentInv, At, LockInv
  <2>5. \A d \in Calls \ {c} : call[d].at \in {"name", "write"} =>
            lock'[call[d].storage] = lock[call[d].storage]
    BY <2>1, <2>4, CallFields DEF Inv, At, MetaInv, LockInv
  <2>6. call'[c].at \notin Owning \cup {"name", "write"}
    BY <2>3 DEF Owning
  <2> QED BY <2>1, <2>3, <2>4, <2>5, <2>6, OneCallKeepsMeta
\* The document is of the file that the call wrote.
<1>6. CASE Insert(c) \/ InsertFails(c)
  <2>1. /\ call[c].at = "insert" /\ UNCHANGED <<files, lock>>
        /\ \/ Go(c, "done") /\ metadata' = [metadata EXCEPT ![c] = Document(c)]
           \/ Go(c, "delete") /\ UNCHANGED metadata
    BY <1>6 DEF Insert, InsertFails, At
  <2>2. ~At(c, "idle") /\ {"done", "delete"} \subseteq Steps \ {"idle"}
        /\ {"done", "delete"} \subseteq Settled /\ call[c].at \in Owning
    BY <2>1 DEF At, Steps, Settled, Over, Owning
  <2>3. /\ call'[c].content = call[c].content /\ PathOf(c)' = PathOf(c)
        /\ \/ call'[c].at = "done" /\ metadata' = [metadata EXCEPT ![c] = Document(c)]
           \/ call'[c].at = "delete" /\ UNCHANGED metadata
        /\ \A d \in Calls \ {c} : call'[d] = call[d] /\ PathOf(d)' = PathOf(d)
    BY <2>1, <2>2, GoKeeps
  <2>4. metadata[c] = None
    BY <2>1 DEF MetaInv, DocumentInv, At
  <2>5. files[PathOf(c)] = call[c].content
        /\ \A d \in Calls \ {c} : call[d].at \in Owning => PathOf(d) # PathOf(c)
    BY <2>2 DEF MetaInv, FileInv
  <2>6. /\ metadata'[c] # None =>
               /\ call'[c].at = "done"
               /\ metadata'[c] = [path |-> PathOf(c)', hash |-> call'[c].content]
        /\ \A d \in Calls \ {c} : metadata'[d] = metadata[d]
    BY <2>3, <2>4 DEF Inv, Document
  <2>7. call'[c].at \notin {"name", "write"}
    BY <2>3
  <2>8. /\ files'[PathOf(c)'] = call'[c].content
        /\ \A d \in Calls \ {c} : call[d].at \in Owning => PathOf(d) # PathOf(c)'
    BY <2>1, <2>3, <2>5
  <2>9. files' = files /\ lock' = lock
        /\ \A d \in Calls \ {c} : call'[d] = call[d] /\ PathOf(d)' = PathOf(d)
    BY <2>1, <2>3
  <2> QED BY <2>6, <2>7, <2>8, <2>9, OneCallKeepsMeta
<1>7. CASE Delete(c)
  <2>1. Go(c, "failed") /\ call[c].at = "delete" /\ UNCHANGED <<metadata, lock>>
        /\ files' = [files EXCEPT ![PathOf(c)] = None]
    BY <1>7 DEF Delete, At
  <2>2. ~At(c, "idle") /\ "failed" \in Steps \ {"idle"} /\ "failed" \in Settled
        /\ call[c].at \in Owning
    BY <2>1 DEF Settled, At, Steps, Over, Owning
  <2>3. call'[c].at = "failed"
        /\ \A d \in Calls \ {c} : call'[d] = call[d] /\ PathOf(d)' = PathOf(d)
    BY <2>1, <2>2, GoKeeps
  <2>4. metadata[c] = None
    BY <2>1 DEF MetaInv, DocumentInv, At
  <2>5. \A d \in Calls \ {c} : call[d].at \in Owning \cup {"write"} =>
            files'[PathOf(d)] = files[PathOf(d)]
    <3> SUFFICES ASSUME NEW d \in Calls \ {c}, call[d].at \in Owning \cup {"write"}
                 PROVE  files'[PathOf(d)] = files[PathOf(d)]
      OBVIOUS
    <3>1. files \in [Paths -> Contents \cup {None}] /\ PathOf(d) \in Paths
      BY PathType DEF Inv, At, Owning
    <3>2. CASE call[d].at = "write"
      BY <2>1, <3>1, <3>2 DEF MetaInv, NameInv, At
    <3>3. CASE call[d].at \in Owning
      BY <2>1, <2>2, <3>1, <3>3 DEF MetaInv, FileInv
    <3> QED BY <3>2, <3>3
  <2>6. call'[c].at \notin Owning \cup {"name", "write"}
    BY <2>3 DEF Owning
  <2> QED BY <2>1, <2>3, <2>4, <2>5, <2>6, OneCallKeepsMeta
<1>8. CASE DeleteFails(c)
  <2>1. Go(c, "leaked") /\ call[c].at = "delete" /\ UNCHANGED <<files, metadata, lock>>
    BY <1>8 DEF DeleteFails, At
  <2>2. ~At(c, "idle") /\ "leaked" \in Steps \ {"idle"} /\ "leaked" \in Settled
    BY <2>1 DEF Settled, At, Steps, Over
  <2>3. call'[c].at = "leaked"
        /\ \A d \in Calls \ {c} : call'[d] = call[d] /\ PathOf(d)' = PathOf(d)
    BY <2>1, <2>2, GoKeeps
  <2>4. metadata[c] = None
    BY <2>1 DEF MetaInv, DocumentInv, At
  <2>5. call'[c].at \notin Owning \cup {"name", "write"}
    BY <2>3 DEF Owning
  <2> QED BY <2>1, <2>3, <2>4, <2>5, OneCallKeepsMeta
<1> QED BY <1>1, <1>2, <1>3, <1>4, <1>5, <1>6, <1>7, <1>8

LEMMA CrashKeepsMeta == ASSUME Inv, MetaInv, Crash PROVE MetaInv'
<1>1. UNCHANGED <<files, metadata>>
  BY DEF Crash
<1>2. \A c \in Calls : /\ call'[c].at \notin {"name", "write"}
                       /\ call'[c].at \in Owning => call'[c].at = "done" /\ call[c].at = "done"
                       /\ call[c].at = "done" => call'[c].at = "done"
  BY CrashCalls DEF Over, Owning
<1>3. LockInv' /\ NameInv'
  BY <1>2 DEF LockInv, NameInv, At
<1>4. FileInv'
  <2>1. \A c \in Calls : call'[c].at \in Owning => call[c].at \in Owning
    BY <1>2 DEF Owning
  <2> QED BY <1>1, <2>1, CrashCalls DEF MetaInv, FileInv
<1>5. \A c \in Calls : Document(c)' = Document(c)
  BY CrashCalls DEF Document
<1>6. DocumentInv'
  BY <1>1, <1>2, <1>5 DEF MetaInv, DocumentInv, At
<1> QED BY <1>3, <1>4, <1>6 DEF MetaInv

LEMMA StepKeepsMeta ==
    ASSUME "lost" \notin Faults
    PROVE  Inv /\ ClocksDiffer /\ MetaInv /\ [Next]_vars => MetaInv'
<1> SUFFICES ASSUME Inv, ClocksDiffer, MetaInv, [Next]_vars PROVE MetaInv'
  OBVIOUS
<1>1. CASE UNCHANGED vars
  BY <1>1 DEF vars, MetaInv, LockInv, NameInv, FileInv, DocumentInv, At, PathOf, Document
<1>2. CASE Next
  BY <1>2, CallStepKeepsMeta, CrashKeepsMeta DEF Next
<1> QED BY <1>1, <1>2

LEMMA InitMeta == Init => MetaInv
<1> SUFFICES ASSUME Init PROVE MetaInv
  OBVIOUS
<1>1. \A c \in Calls : call[c].at = "idle" /\ metadata[c] = None
  BY DEF Init, Idle
<1> QED BY <1>1 DEF MetaInv, LockInv, NameInv, FileInv, DocumentInv, At, Owning

LEMMA SpecMeta ==
    ASSUME "lost" \notin Faults
    PROVE  Spec /\ []ClocksDiffer => []MetaInv
<1> QED BY InitMeta, StepKeepsMeta, SpecInv, PTL DEF Spec

\* With one storage the clocks do not matter.
OneStorage == \A s, t \in Storages : s = t

LEMMA OneStorageClocks == ASSUME OneStorage PROVE Inv => ClocksDiffer
BY CallFields DEF OneStorage, ClocksDiffer

\* A document is that of a call that has ended well.
LEMMA DocumentOf ==
    ASSUME MetaInv, NEW c \in Calls, metadata[c] # None
    PROVE  /\ call[c].at = "done"
           /\ metadata[c].path = PathOf(c) /\ metadata[c].hash = call[c].content
<1>1. call[c].at = "done" /\ metadata[c] = [path |-> PathOf(c), hash |-> call[c].content]
  BY DEF MetaInv, DocumentInv, At, Document
<1> QED BY <1>1

\* create_snapshot keeps its word: what a document names is there with the hash it gives,
\* for any number of storages as long as no two of them write with the same clock reading.
THEOREM DocumentsMatchFiles ==
    ASSUME "lost" \notin Faults
    PROVE  Spec /\ []ClocksDiffer => []MetadataMatchesFile
<1>1. MetaInv => MetadataMatchesFile
  BY DocumentOf DEF MetaInv, FileInv, Owning, MetadataMatchesFile
<1> QED BY <1>1, SpecMeta, PTL

\* One SnapshotStorage, used by any number of threads, needs nothing of the clock: its
\* lock and the search for a free name are enough.
COROLLARY OneStorageMatches ==
    ASSUME "lost" \notin Faults, OneStorage
    PROVE  Spec => []MetadataMatchesFile
<1> QED BY DocumentsMatchFiles, OneStorageClocks, SpecInv, PTL

\* A call that has ended does not change.
LEMMA DoneStays ==
    ASSUME Inv, [Next]_vars, NEW c \in Calls, call[c].at = "done"
    PROVE  call'[c] = call[c] /\ PathOf(c)' = PathOf(c)
<1>1. CASE UNCHANGED vars
  BY <1>1 DEF vars, PathOf
<1>2. CASE Crash
  BY <1>2 DEF Crash, Over, PathOf
<1>3. ASSUME NEW d \in Calls,
             \/ \E s \in Storages, t \in Stamps, x \in Contents : Begin(d, s, t, x)
             \/ Lock(d) \/ NextFilename(d) \/ Replace(d) \/ WriteFails(d)
             \/ Insert(d) \/ InsertFails(d) \/ Delete(d) \/ DeleteFails(d)
      PROVE  call'[c] = call[c]
  <2>1. call[d].at # "done" /\ \E r : call' = [call EXCEPT ![d] = r]
    BY <1>3 DEF Begin, Lock, NextFilename, Replace, WriteFails, Insert, InsertFails, Delete,
                DeleteFails, At, Go
  <2> QED BY <2>1 DEF Inv
<1> QED BY <1>1, <1>2, <1>3 DEF Next, PathOf

\* No step touches the file of a document.
LEMMA StepKeepsFiles ==
    ASSUME "lost" \notin Faults
    PROVE  Inv /\ MetaInv /\ ClocksDiffer /\ [Next]_vars =>
               \A c \in Calls : metadata[c] # None =>
                   files'[metadata[c].path] = files[metadata[c].path]
<1> SUFFICES ASSUME Inv, MetaInv, ClocksDiffer, [Next]_vars, NEW c \in Calls, metadata[c] # None
             PROVE  files'[metadata[c].path] = files[metadata[c].path]
  OBVIOUS
<1>1. call[c].at = "done" /\ metadata[c].path = PathOf(c)
  BY DocumentOf
<1>2. files[PathOf(c)] = call[c].content
  BY <1>1 DEF MetaInv, FileInv, Owning
<1>3. call'[c] = call[c] /\ PathOf(c)' = PathOf(c)
  BY <1>1, DoneStays
<1>4. files'[PathOf(c)'] = call'[c].content
  BY <1>1, <1>3, StepKeepsMeta DEF MetaInv, FileInv, Owning
<1> QED BY <1>1, <1>2, <1>3, <1>4

\* What can be read through a document stays, and what a step adds is one whole snapshot.
LEMMA StepArchives ==
    ASSUME "lost" \notin Faults
    PROVE  Inv /\ MetaInv /\ ClocksDiffer /\ [Next]_vars => [Archive!Next]_Archived
<1> SUFFICES ASSUME Inv, MetaInv, ClocksDiffer, [Next]_vars
             PROVE  Archive!Next \/ Archived' = Archived
  OBVIOUS
<1>1. CASE metadata' = metadata
  <2>1. ASSUME NEW c \in Calls
        PROVE  (IF metadata'[c] = None THEN None ELSE files'[metadata'[c].path]) =
               (IF metadata[c] = None THEN None ELSE files[metadata[c].path])
    BY <1>1, StepKeepsFiles
  <2> QED BY <2>1 DEF Archived
<1>2. CASE metadata' # metadata
  <2>1. PICK c \in Calls : Insert(c)
    BY <1>2 DEF Next, vars, Begin, Lock, NextFilename, Replace, WriteFails, Insert, InsertFails,
                Delete, DeleteFails, Crash
  <2>2. /\ At(c, "insert") /\ files' = files
        /\ metadata' = [metadata EXCEPT ![c] = Document(c)]
    BY <2>1 DEF Insert
  <2>3. metadata \in [Calls -> Row \cup {None}]
    BY DEF Inv
  <2>4. metadata[c] = None
    BY <2>2 DEF MetaInv, DocumentInv, At
  <2>5. files[PathOf(c)] = call[c].content /\ call[c].content \in Contents
    BY <2>2 DEF MetaInv, FileInv, Owning, Inv, Begun, At
  <2>6. Document(c).path = PathOf(c) /\ Document(c) # None
    BY <2>2, PathType, SnapshotStoreAssumption DEF At, Document
  <2>7. Archived[c] = None
    BY <2>4 DEF Archived
  <2>8. Archived' = [Archived EXCEPT ![c] = call[c].content]
    <3>1. ASSUME NEW d \in Calls
          PROVE  (IF metadata'[d] = None THEN None ELSE files'[metadata'[d].path]) =
                 IF d = c THEN call[c].content
                 ELSE IF metadata[d] = None THEN None ELSE files[metadata[d].path]
      BY <2>2, <2>3, <2>5, <2>6
    <3> QED BY <3>1 DEF Archived
  <2> QED BY <2>5, <2>7, <2>8 DEF Archive!Next, Archive!Keep
<1> QED BY <1>1, <1>2

\* create_snapshot makes one entry of a file and a document, and nobody takes it back: not
\* the next name that another call takes, nor the deletion after a failed insert.
THEOREM SnapshotsAreArchived ==
    ASSUME "lost" \notin Faults
    PROVE  Spec /\ []ClocksDiffer => ImplementsArchive
<1>1. Init => Archive!Init
  BY DEF Init, Archived, Archive!Init
<1>2. Inv /\ MetaInv /\ ClocksDiffer /\ [Next]_vars => [Archive!Next]_Archived
  BY StepArchives
<1> QED BY <1>1, <1>2, SpecInv, SpecMeta, PTL DEF Spec, ImplementsArchive, Archive!Spec

\* One SnapshotStorage is an archive for any readings of its clock.
COROLLARY OneStorageArchives ==
    ASSUME "lost" \notin Faults, OneStorage
    PROVE  Spec => ImplementsArchive
<1> QED BY SnapshotsAreArchived, OneStorageClocks, SpecInv, PTL
=============================================================================
