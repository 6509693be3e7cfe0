------------------------- MODULE ContentProcessing -------------------------
(***************************************************************************)
(* The pure part of a monitoring run: canonicalising a fetched page,       *)
(* extracting its product cards, and comparing the outcome with the        *)
(* previous snapshot (website_monitoring/content_processing.py and the     *)
(* normalizer of website_monitoring/service.py).                           *)
(*                                                                         *)
(* A raw page is abstracted to three fields:                               *)
(*   text   what the page says;                                            *)
(*   refs   how many more passes of the normalizer change the page's       *)
(*          canonical form.  It is 0 for an ordinary page.  The parser     *)
(*          decodes character references and the serializer does not       *)
(*          encode text again, so a page that says `&lt;b&gt;` has a       *)
(*          canonical form with the tag <b>, which a second pass parses;   *)
(*   cards  its product cards, in document order; a card without a stable  *)
(*          URL, a name or a price has the offer None.                     *)
(* Keys (product URL paths) are numbers so that "sorted" has a meaning.    *)
(* A SHA-256 digest is identified with the content it digests.             *)
(*                                                                         *)
(* generate_diff compares sentences stripped of the space around them, so  *)
(* two texts that differ only in such a space have different hashes and an *)
(* empty diff: Lines gives both the same value.                            *)
(***************************************************************************)
EXTENDS Integers, Sequences

CONSTANTS
    Texts, MaxRefs, Keys, Names, Prices, None,
    Lines               \* Lines[t]: what the lines that generate_diff compares say of t

ASSUME ContentAssumption ==
    /\ MaxRefs \in Nat
    /\ DOMAIN Lines = Texts
    /\ Keys \subseteq Nat
    /\ None \notin Keys
    /\ None \notin [name : Names, price : Prices]

Offer == [name : Names, price : Prices]
Card  == [key : Keys, offer : Offer \cup {None}]

RawPage == [text : Texts, refs : 0..MaxRefs, cards : Seq(Card)]

(* What a snapshot file can hold: canonical HTML or a product list.        *)
Html    == [kind : {"html"}, text : Texts, refs : 0..MaxRefs]
Listing == [kind : {"listing"}, products : [Keys -> Offer \cup {None}]]
Content == Html \cup Listing

PageTypes == {"BLOG", "PRICING", "OTHER", "PRODUCT_LISTING"}

ChangeTypes ==
    {"NEW_BLOG", "PAGE_UPDATE", "NEW_PRODUCT", "PRODUCT_REMOVED", "PRICE_CHANGE"}

Event == [type : ChangeTypes, key : Keys \cup {None}]

-----------------------------------------------------------------------------
(* The normalizer.                                                         *)

\* normalize_content(fetched HTML): one pass over a raw page.
CanonicalHtml(page) == [kind |-> "html", text |-> page.text, refs |-> page.refs]

\* normalize_content(c) for content that is already canonical: one more pass
\* decodes one more layer of references; JSON holds no markup to touch.
Normalize(c) ==
    IF c.kind = "html" /\ c.refs > 0 THEN [c EXCEPT !.refs = @ - 1] ELSE c

\* generate_diff of two different contents is empty: the sentences of both, stripped,
\* are the same. Listings that differ in a key or a price always have a diff.
EmptyDiff(c, d) ==
    /\ c.kind = "html" /\ d.kind = "html"
    /\ c.refs = d.refs /\ Lines[c.text] = Lines[d.text]

\* What create_change demands of two snapshots: different hashes and a diff.
Differ(c, d) == c # d /\ ~EmptyDiff(c, d)

-----------------------------------------------------------------------------
(* Product listings.                                                       *)

\* The cards of a key that carry a name and a price; setdefault keeps the first.
CompleteCards(cards, k) ==
    {i \in DOMAIN cards : cards[i].key = k /\ cards[i].offer # None}

FirstOffer(cards, k) ==
    cards[CHOOSE i \in CompleteCards(cards, k) :
              \A j \in CompleteCards(cards, k) : i <= j].offer

ExtractProducts(cards) ==
    [k \in Keys |-> IF CompleteCards(cards, k) = {} THEN None
                                                    ELSE FirstOffer(cards, k)]

SerializeProducts(products) == [kind |-> "listing", products |-> products]

\* A new key, a missing key, and a shared key whose price differs. A name on
\* its own never makes an event.
DiffByKey(old, new) ==
    {[type |-> "NEW_PRODUCT", key |-> k] :
        k \in {x \in Keys : old[x] = None /\ new[x] # None}}
    \cup {[type |-> "PRODUCT_REMOVED", key |-> k] :
        k \in {x \in Keys : old[x] # None /\ new[x] = None}}
    \cup {[type |-> "PRICE_CHANGE", key |-> k] :
        k \in {x \in Keys : /\ old[x] # None /\ new[x] # None
                            /\ old[x].price # new[x].price}}

\* The order in which the events are emitted: by type, then by key.
Rank == [t \in ChangeTypes |-> CASE t = "NEW_PRODUCT"     -> 1
                                 [] t = "PRODUCT_REMOVED" -> 2
                                 [] OTHER                 -> 3]

Precedes(e, f) ==
    \/ Rank[e.type] < Rank[f.type]
    \/ Rank[e.type] = Rank[f.type] /\ e.key < f.key

-----------------------------------------------------------------------------
(* The processors. `previous` is the content of the newest real snapshot,  *)
(* or None. `ok` is FALSE when the processor raises ContentProcessingError.*)

Unchanged(content) == [ok |-> TRUE, changed |-> FALSE, content |-> content, events |-> {}]
Rejected(content)  == [ok |-> FALSE, changed |-> FALSE, content |-> content, events |-> {}]

DeriveChangeType(pageType) ==
    CASE pageType = "BLOG"    -> "NEW_BLOG"
      [] pageType = "PRICING" -> "PRICE_CHANGE"
      [] OTHER                -> "PAGE_UPDATE"

TextBlobProcess(pageType, page, previous) ==
    LET content == CanonicalHtml(page)
    IN  IF previous = None \/ previous = content
        THEN Unchanged(content)
        ELSE IF EmptyDiff(previous, content) THEN Rejected(content)
        ELSE [ok |-> TRUE, changed |-> TRUE, content |-> content,
              events |-> {[type |-> DeriveChangeType(pageType), key |-> None]}]

\* The previous content is deserialized before the hashes are compared, so a
\* previous snapshot that is not a product list is an error in every case.
ProductListingProcess(page, previous) ==
    LET content == SerializeProducts(ExtractProducts(page.cards))
    IN  IF previous = None THEN Unchanged(content)
        ELSE IF previous.kind # "listing" THEN Rejected(content)
        ELSE IF previous = content THEN Unchanged(content)
        ELSE [ok |-> TRUE, changed |-> TRUE, content |-> content,
              events |-> DiffByKey(previous.products, content.products)]

\* resolve_content_processor followed by process.
Process(pageType, page, previous) ==
    IF pageType = "PRODUCT_LISTING" THEN ProductListingProcess(page, previous)
                                    ELSE TextBlobProcess(pageType, page, previous)
=============================================================================
