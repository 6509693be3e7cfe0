---------------------------- MODULE MCChangeFeed ----------------------------
(* Instances of ChangeFeed for TLC.                                        *)
EXTENDS ChangeFeed, TLC

\* Two competitors with one website, which a start assigns to the first company.
MCCompetitorOf == "t1" :> "a" @@ "t2" :> "b" @@ "t3" :> "a"
MCWebsiteOf == "a" :> "known" @@ "b" :> "known"
MCDemo == "known" :> "m"

Old(t, kind, named, at, narrative) ==
    [target |-> t, kind |-> kind, named |-> named, at |-> at,
     narrative |-> narrative, url |-> None]

\* A product with a link in its summary and a text without anything; a text with a
\* narrative and a removed product without a link; single changes, one of a target
\* that is lost.
MCLogs == {<<Old("t1", "product", TRUE, 2, None), Old("t1", "narrative", FALSE, 1, None)>>,
           <<Old("t2", "narrative", FALSE, 1, "n"), Old("t1", "removal", FALSE, 1, None)>>,
           <<Old("t3", "product", TRUE, 1, None)>>,
           <<Old("t2", "narrative", FALSE, 2, None)>>}

MCSymmetry == Permutations(Fillers)
=============================================================================
