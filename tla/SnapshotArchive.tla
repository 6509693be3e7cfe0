--------------------------- MODULE SnapshotArchive ---------------------------
(***************************************************************************)
(* What the snapshot store promises its callers: a stored snapshot is      *)
(* there at once and for good.  A document and a file that are written one *)
(* after the other look like one entry that is made in one step, that      *)
(* nobody replaces and nobody removes.                                     *)
(***************************************************************************)
CONSTANTS Calls, Contents, None

VARIABLE archive    \* archive[c]: the content that call c stored, or None

Init == archive = [c \in Calls |-> None]

Keep(c, x) ==
    /\ archive[c] = None
    /\ archive' = [archive EXCEPT ![c] = x]

Next == \E c \in Calls, x \in Contents : Keep(c, x)

Spec == Init /\ [][Next]_archive
=============================================================================
