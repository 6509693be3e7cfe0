---------------------------- MODULE SnapshotStore ----------------------------
(***************************************************************************)
(* One target's snapshot directory and its metadata collection             *)
(* (SnapshotService.create_snapshot, SnapshotStorage, SnapshotRepository). *)
(* The content goes to a file first and the metadata that names the file   *)
(* second, with no transaction around the two.  Each SnapshotStorage has a *)
(* lock of its own: the scheduler, the Flask process and the simulation    *)
(* service build one each over the same root.                              *)
(*                                                                         *)
(* A content stands for its bytes and their hash.                          *)
(*                                                                         *)
(* A definition that no other one uses (AlwaysFree, ...) is a deliberate   *)
(* mutation of the definition below it.                                    *)
(***************************************************************************)
EXTENDS Naturals, FiniteSets

CONSTANTS
    Calls,      \* the calls of create_snapshot
    Storages,   \* the SnapshotStorage instances
    Stamps,     \* clock readings, as file names show them
    Contents,
    Faults,     \* "write", "insert", "lost" (insert_one is applied, its answer
                \* lost), "unlink", "crash" (of the processes, all together)
    None

\* <timestamp>-<suffix>.txt.gz: the calls themselves are too few to use up the suffixes.
Suffixes == 0 .. Cardinality(Calls)
Paths == Stamps \X Suffixes
Row == [path : Paths, hash : Contents]

ASSUME SnapshotStoreAssumption ==
    /\ IsFiniteSet(Calls)
    /\ Faults \subseteq {"write", "insert", "lost", "unlink", "crash"}
    /\ None \notin Contents \cup Calls \cup Storages \cup Row

VARIABLES
    files,      \* files[p]: the content of the file, or None
    metadata,   \* metadata[c]: the document that call c inserted, or None
    lock,       \* lock[s]: the call that holds the lock of storage s, or None
    call        \* call[c]: the progress of the call

vars == <<files, metadata, lock, call>>

Idle == [at |-> "idle", storage |-> None, stamp |-> None, content |-> None, suffix |-> 0]

Init ==
    /\ files = [p \in Paths |-> None]
    /\ metadata = [c \in Calls |-> None]
    /\ lock = [s \in Storages |-> None]
    /\ call = [c \in Calls |-> Idle]

Over == {"idle", "done", "failed", "leaked", "dead"}
At(c, step) == call[c].at = step
Go(c, step) == call' = [call EXCEPT ![c].at = step]
PathOf(c) == <<call[c].stamp, call[c].suffix>>
Document(c) == [path |-> PathOf(c), hash |-> call[c].content]

-----------------------------------------------------------------------------
\* The content is normalised and hashed before anything is written.
Begin(c, s, t, x) ==
    /\ At(c, "idle")
    /\ call' = [call EXCEPT ![c] =
                   [at |-> "lock", storage |-> s, stamp |-> t, content |-> x, suffix |-> 0]]
    /\ UNCHANGED <<files, metadata, lock>>

AlwaysFree(c) == TRUE
LockIsFree(c) == lock[call[c].storage] = None

Lock(c) ==
    /\ At(c, "lock")
    /\ LockIsFree(c)
    /\ lock' = [lock EXCEPT ![call[c].storage] = c]
    /\ Go(c, "name")
    /\ UNCHANGED <<files, metadata>>

ChecksFirstName(c) ==
    /\ At(c, "name")
    /\ IF files[<<call[c].stamp, 0>>] = None THEN Go(c, "write")
                                             ELSE call' = [call EXCEPT ![c].suffix = @ + 1]
    /\ UNCHANGED <<files, metadata, lock>>

\* _next_filename asks for one name after the other whether it exists.
NextFilename(c) ==
    /\ At(c, "name")
    /\ IF files[PathOf(c)] = None THEN Go(c, "write")
                                  ELSE call' = [call EXCEPT ![c].suffix = @ + 1]
    /\ UNCHANGED <<files, metadata, lock>>

Unlock(c) == lock' = [lock EXCEPT ![call[c].storage] = None]

\* The temporary file is complete; os.replace puts it in place, over whatever is there.
Replace(c) ==
    /\ At(c, "write")
    /\ files' = [files EXCEPT ![PathOf(c)] = call[c].content]
    /\ Unlock(c)
    /\ Go(c, "insert")
    /\ UNCHANGED metadata

WriteFails(c) ==
    /\ At(c, "write")
    /\ "write" \in Faults
    /\ Unlock(c)
    /\ Go(c, "failed")
    /\ UNCHANGED <<files, metadata>>

Insert(c) ==
    /\ At(c, "insert")
    /\ metadata' = [metadata EXCEPT ![c] = Document(c)]
    /\ Go(c, "done")
    /\ UNCHANGED <<files, lock>>

KeepsFile(c) ==
    /\ At(c, "insert")
    /\ "insert" \in Faults
    /\ Go(c, "failed")
    /\ UNCHANGED <<files, metadata, lock>>

InsertFails(c) ==
    /\ At(c, "insert")
    /\ \/ "insert" \in Faults /\ UNCHANGED metadata
       \/ "lost" \in Faults /\ metadata' = [metadata EXCEPT ![c] = Document(c)]
    /\ Go(c, "delete")
    /\ UNCHANGED <<files, lock>>

\* delete_snapshot takes no lock.
Delete(c) ==
    /\ At(c, "delete")
    /\ files' = [files EXCEPT ![PathOf(c)] = None]
    /\ Go(c, "failed")
    /\ UNCHANGED <<metadata, lock>>

DeleteFails(c) ==
    /\ At(c, "delete")
    /\ "unlink" \in Faults
    /\ Go(c, "leaked")
    /\ UNCHANGED <<files, metadata, lock>>

\* The locks are gone with the processes; the files and the database are not.
Crash ==
    /\ "crash" \in Faults
    /\ \E c \in Calls : call[c].at \notin Over
    /\ lock' = [s \in Storages |-> None]
    /\ call' = [c \in Calls |->
          IF call[c].at \in Over THEN call[c]
                                 ELSE [call[c] EXCEPT !.at = "dead"]]
    /\ UNCHANGED <<files, metadata>>

Next ==
    \/ \E c \in Calls :
          \/ \E s \in Storages, t \in Stamps, x \in Contents : Begin(c, s, t, x)
          \/ Lock(c) \/ NextFilename(c) \/ Replace(c) \/ WriteFails(c)
          \/ Insert(c) \/ InsertFails(c) \/ Delete(c) \/ DeleteFails(c)
    \/ Crash

Spec == Init /\ [][Next]_vars

-----------------------------------------------------------------------------
(* Properties.                                                             *)

\* Every variable stays within its type; no call runs out of suffixes.
TypeOK ==
    /\ files \in [Paths -> Contents \cup {None}]
    /\ metadata \in [Calls -> Row \cup {None}]
    /\ lock \in [Storages -> Calls \cup {None}]
    /\ call \in [Calls ->
          [at : {"lock", "name", "write", "insert", "delete"} \cup Over,
           storage : Storages \cup {None}, stamp : Stamps \cup {None},
           content : Contents \cup {None}, suffix : Suffixes]]

\* What a document names is there, with the hash that the document gives, and no two
\* documents name one file, even when their clocks agree: "writes the exact normalized
\* UTF-8 bytes [...] and then persists matching MongoDB metadata" (snapshot/service.py).
\* The next check of the target reads it.
MetadataMatchesFile ==
    \A c \in Calls : metadata[c] # None =>
        /\ files[metadata[c].path] = metadata[c].hash
        /\ \A d \in Calls \ {c} : metadata[d] # None => metadata[d].path # metadata[c].path

\* What is read through a document: the content of its file, None if that is missing.
Archived == [c \in Calls |-> IF metadata[c] = None THEN None ELSE files[metadata[c].path]]
Archive == INSTANCE SnapshotArchive WITH archive <- Archived

\* A stored snapshot can be read from the moment its document is there, and neither a
\* later write nor a failed one nor the deletion that follows it changes or removes it
\* (module SnapshotArchive).
ImplementsArchive == Archive!Spec

\* A file without a document belongs to a call in progress, or to one that died or
\* could not delete it: a call that failed otherwise leaves no file behind.
NoOrphans ==
    \A p \in Paths : files[p] # None =>
        \E c \in Calls : PathOf(c) = p /\ call[c].at \in {"insert", "delete", "done", "leaked", "dead"}
=============================================================================
