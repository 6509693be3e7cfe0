---------------------------- MODULE MCMonitoring ----------------------------
(* Instances of Monitoring for TLC.                                        *)
EXTENDS Monitoring, TLC

Page(text, refs, cards) == [text |-> text, refs |-> refs, cards |-> cards]
MCCard(key, name, price) == [key |-> key, offer |-> [name |-> name, price |-> price]]

\* Every text has lines of its own.
OwnLines == [t \in Texts |-> t]

\* The text "c" is "a" with a space moved across a closing quote, which the lines of
\* a diff do not show.
SpacedLines == [t \in Texts |-> IF t = "c" THEN "a" ELSE t]

\* A page that says one thing or another.
TextPages == {Page("a", 0, <<>>), Page("b", 0, <<>>)}

OnePage == {Page("a", 0, <<>>)}

\* A page whose text spells markup with character references.
EscapedPages == {Page("a", 1, <<>>)}

\* Listings that change only a name, change a price, and add or drop a product; the
\* second spells markup with a character reference, the third says "c", repeats
\* keys and has a card without an offer.
ListingPages ==
    {Page("a", 0, <<MCCard(1, "n", 1)>>),
     Page("a", 1, <<MCCard(1, "m", 1)>>),
     Page("c", 0, <<MCCard(1, "n", 2), MCCard(1, "n", 1),
                    [key |-> 2, offer |-> None], MCCard(2, "n", 1)>>)}

WorkerSymmetry == Permutations(Workers)
=============================================================================
