------------------------ MODULE MCSimulatedHistory -------------------------
(* Instances of SimulatedHistory for TLC.                                  *)
EXTENDS SimulatedHistory

MCPage(text, cards) == [text |-> text, refs |-> IF text = "a" THEN 0 ELSE 1, cards |-> cards]
MCCard(key, price) == [key |-> key, offer |-> [name |-> "n", price |-> price]]

\* The text "c" is "a" with a space moved across a closing quote, which the lines of
\* a diff do not show.
SpacedLines == [t \in Texts |-> IF t = "c" THEN "a" ELSE t]

\* Two products that a mutation can remove or reprice, before and after a new price;
\* the second page also spells markup with a character reference.
MCPages == {MCPage("a", <<MCCard(1, 1), MCCard(2, 1)>>),
            MCPage("b", <<MCCard(1, 2), MCCard(2, 1)>>)}
=============================================================================
