---------------------------- MODULE CatalogueProofs ----------------------------
(***************************************************************************)
(* Proofs about the catalogue, for any number of products, rows, forms and *)
(* requests, every amount and every file: Variants, ProductPage,           *)
(* Compatibility, Homepage, Photos and Prices.                             *)
(***************************************************************************)
EXTENDS Variants, Prices, Photos, ProductPage, Homepage, Compatibility,
        FiniteSums, SequenceTheorems

--------------------------------------------------------------------------------
(* Variants: who is the default of a product.                                *)

\* A product has at most one default, and a living one unless a request
\* overtook a check or a page.
DefaultLives ==
    /\ default = {} \/ \E v \in Variant : default = {v}
    /\ stray \/ \E v \in Live : default = {v}

\* Whoever is about to archive a variant has seen that it is not the default.
ArchivesChecked ==
    \A e \in Archiving :
        archiving[e].at = "checked" =>
            archiving[e].of \in Variant /\ archiving[e].of \notin archiving[e].default

\* What is copied was one state of the product.
CopyFaithful ==
    copy.at \in {"read", "made"} =>
        /\ copy \in [at : {"read", "made"}, of : SUBSET Variant, default : SUBSET Variant, stray : BOOLEAN]
        /\ copy.stray \/ \E v \in copy.of : copy.default = {v}

VariantsInv == VariantsTypeOK /\ DefaultLives /\ ArchivesChecked /\ CopyFaithful

LEMMA VariantsInit_Inv == VariantsInit => VariantsInv
<1>. SUFFICES ASSUME VariantsInit
              PROVE  VariantsInv
  OBVIOUS
<1>. USE VariantsAssumption DEF VariantsAssumption, VariantsInit
<1>1. VariantsTypeOK
  BY DEF VariantsTypeOK
<1>2. FirstVariant \in Live /\ default = {FirstVariant}
  BY DEF Live
<1>3. DefaultLives
  BY <1>2 DEF DefaultLives
<1>4. ArchivesChecked /\ CopyFaithful
  BY DEF ArchivesChecked, CopyFaithful
<1>. QED
  BY <1>1, <1>3, <1>4 DEF VariantsInv

LEMMA AddKeepsInv ==
    ASSUME VariantsInv, NEW v \in Variant, AddVariant(v) \/ SaveSpecs(v)
    PROVE  VariantsInv'
BY DEF AddVariant, SaveSpecs, VariantsInv, VariantsTypeOK, DefaultLives, ArchivesChecked, CopyFaithful, Live

LEMMA ArchiveCheckKeepsInv ==
    ASSUME VariantsInv, NEW e \in Archiving, NEW v \in Variant, CheckArchive(e, v)
    PROVE  VariantsInv'
<1>. USE DEF VariantsInv, CheckArchive
<1>1. \A x \in Archiving :
          archiving'[x] = archiving[x] \/ archiving'[x] = [at |-> "checked", of |-> v, default |-> default]
  OBVIOUS
<1>2. VariantsTypeOK'
  BY <1>1 DEF VariantsTypeOK
<1>3. DefaultLives' /\ CopyFaithful'
  BY DEF DefaultLives, CopyFaithful, Live
<1>4. ArchivesChecked'
  BY <1>1 DEF ArchivesChecked, Archivable
<1>. QED
  BY <1>2, <1>3, <1>4

LEMMA ArchiveKeepsInv ==
    ASSUME VariantsInv, NEW e \in Archiving, ArchiveVariant(e)
    PROVE  VariantsInv'
<1>. USE DEF VariantsInv
<1>1. archiving[e].of \in Variant /\ archiving[e].of \notin archiving[e].default
  BY DEF ArchiveVariant, ArchivesChecked
<1>2. stray' \in BOOLEAN
  BY Zenon DEF ArchiveVariant
<1>3. \A x \in Archiving : archiving'[x] = archiving[x] \/ archiving'[x] = [at |-> "over"]
  BY DEF ArchiveVariant
<1>4. VariantsTypeOK'
  BY <1>1, <1>2, <1>3 DEF ArchiveVariant, VariantsTypeOK
<1>5. ASSUME ~stray'
      PROVE  \E v \in Live' : default' = {v}
  <2>1. ~stray /\ archiving[e].of \notin default
    BY <1>1, <1>5 DEF ArchiveVariant
  <2>2. PICK v \in Live : default = {v}
    BY <2>1 DEF DefaultLives
  <2>3. v \in Live'
    BY <2>1, <2>2 DEF ArchiveVariant, Live, VariantsTypeOK
  <2>. QED
    BY <2>2, <2>3 DEF ArchiveVariant
<1>6. DefaultLives'
  BY <1>5 DEF DefaultLives, ArchiveVariant
<1>7. ArchivesChecked' /\ CopyFaithful'
  BY <1>3 DEF ArchivesChecked, CopyFaithful, ArchiveVariant
<1>. QED
  BY <1>4, <1>6, <1>7

LEMMA SetDefaultKeepsInv ==
    ASSUME VariantsInv, NEW v \in Variant, SetDefaultVariant(v)
    PROVE  VariantsInv'
<1>. USE DEF VariantsInv
<1>1. stray' \in BOOLEAN
  BY Zenon DEF SetDefaultVariant
<1>2. default' = {} \/ default' = {v}
  BY DEF SetDefaultVariant, DefaultAfter
<1>3. VariantsTypeOK'
  BY <1>1, <1>2 DEF SetDefaultVariant, VariantsTypeOK
<1>4. ASSUME ~stray'
      PROVE  v \in Live' /\ default' = {v}
  BY <1>4 DEF SetDefaultVariant, DefaultAfter, Live
<1>5. DefaultLives'
  BY <1>2, <1>4 DEF DefaultLives
<1>6. ArchivesChecked' /\ CopyFaithful'
  BY DEF SetDefaultVariant, ArchivesChecked, CopyFaithful
<1>. QED
  BY <1>3, <1>5, <1>6

LEMMA CopyKeepsInv ==
    ASSUME VariantsInv, ReadForCopy \/ Duplicate
    PROVE  VariantsInv'
<1>. USE DEF VariantsInv
<1>1. DefaultLives' /\ ArchivesChecked'
  BY DEF ReadForCopy, Duplicate, DefaultLives, ArchivesChecked, Live
<1>2. CASE ReadForCopy
  <2>1. VariantsTypeOK'
    BY <1>2 DEF ReadForCopy, VariantsTypeOK
  <2>2. ASSUME ~stray
        PROVE  \E v \in Live : default \cap Live = {v}
    BY <2>2 DEF DefaultLives
  <2>3. copy' \in [at : {"read", "made"}, of : SUBSET Variant, default : SUBSET Variant, stray : BOOLEAN]
    BY <1>2 DEF ReadForCopy, VariantsTypeOK, Live
  <2>4. copy'.of = Live /\ copy'.default = default \cap Live /\ copy'.stray = stray
    BY <1>2 DEF ReadForCopy
  <2>5. copy'.stray \/ \E v \in copy'.of : copy'.default = {v}
    BY <2>2, <2>4
  <2>. QED
    BY <1>1, <2>1, <2>3, <2>5 DEF CopyFaithful
<1>3. CASE Duplicate
  <2>1. copy' = [copy EXCEPT !.at = "made"]
    BY <1>3 DEF Duplicate
  <2>2. /\ copy \in [at : {"read", "made"}, of : SUBSET Variant, default : SUBSET Variant, stray : BOOLEAN]
        /\ copy.stray \/ \E v \in copy.of : copy.default = {v}
    BY <1>3 DEF Duplicate, CopyFaithful
  <2>3. /\ copy' \in [at : {"read", "made"}, of : SUBSET Variant, default : SUBSET Variant, stray : BOOLEAN]
        /\ copy'.of = copy.of /\ copy'.default = copy.default /\ copy'.stray = copy.stray
    BY <2>1, <2>2
  <2>4. CopyFaithful'
    BY <2>2, <2>3 DEF CopyFaithful
  <2>5. VariantsTypeOK'
    BY <1>3, <2>3 DEF Duplicate, VariantsTypeOK
  <2>. QED
    BY <1>1, <2>4, <2>5
<1>. QED
  BY <1>2, <1>3

LEMMA VariantsNextKeepsInv ==
    ASSUME VariantsInv, [VariantsNext]_variantsVars
    PROVE  VariantsInv'
<1>1. CASE UNCHANGED variantsVars
  BY <1>1 DEF variantsVars, VariantsInv, VariantsTypeOK, DefaultLives, ArchivesChecked, CopyFaithful, Live
<1>. QED
  BY <1>1, AddKeepsInv, ArchiveCheckKeepsInv, ArchiveKeepsInv, SetDefaultKeepsInv, CopyKeepsInv DEF VariantsNext

LEMMA InvGivesDefault == VariantsInv => HasDefault
<1>. SUFFICES ASSUME VariantsInv
              PROVE  HasDefault
  OBVIOUS
<1>. USE DEF VariantsInv
<1>1. Cardinality(default) <= 1
  <2>1. CASE default = {}
    <3>1. Cardinality(default) = 0
      BY <2>1, FS_EmptySet
    <3>. QED
      BY <3>1
  <2>2. ASSUME NEW v \in Variant, default = {v}
        PROVE  Cardinality(default) <= 1
    <3>1. Cardinality(default) = 1
      BY <2>2, FS_Singleton
    <3>. QED
      BY <3>1
  <2>. QED
    BY <2>1, <2>2 DEF DefaultLives
<1>2. stray \/ (default # {} /\ default \subseteq Live)
  BY DEF DefaultLives
<1>3. ASSUME copy.at = "made"
      PROVE  copy.stray \/ (Cardinality(copy.default) = 1 /\ copy.default \subseteq copy.of)
  <2>1. copy.stray \/ \E v \in copy.of : copy.default = {v}
    BY <1>3 DEF CopyFaithful
  <2>. QED
    BY <2>1, FS_Singleton
<1>. QED
  BY <1>1, <1>2, <1>3 DEF HasDefault

\* Whatever is added, archived and chosen, a product and its duplicate have one
\* default variant and it is for sale, unless a request overtook the check or
\* the page it was sent from (product-detail.tsx).
THEOREM DefaultForSale == VariantsSpec => []HasDefault
<1>1. VariantsInv /\ [VariantsNext]_variantsVars => VariantsInv'
  BY VariantsNextKeepsInv
<1>. QED
  BY VariantsInit_Inv, <1>1, InvGivesDefault, PTL DEF VariantsSpec

(* Variants, when the default moves between archivings and to what is there. *)

\* A page that offers a variant as default is as new as the variant's archiving,
ChosenLive == \A v \in Variant : SetDefaultVariant(v) => v \in Live

\* and nobody moves the default between an archiving's check and its write.
DefaultHeld == (\E e \in Archiving : archiving[e].at = "checked") => default' = default

DefaultsOrderly == [][ChosenLive /\ DefaultHeld]_variantsVars

ChecksStand ==
    /\ ~stray
    /\ \A e \in Archiving : archiving[e].at = "checked" => archiving[e].default = default
    /\ copy.at \in {"read", "made"} => ~copy.stray

LEMMA ChecksStandStep ==
    VariantsInv /\ ChecksStand /\ [ChosenLive /\ DefaultHeld]_variantsVars /\ [VariantsNext]_variantsVars => ChecksStand'
<1>. SUFFICES ASSUME VariantsInv, ChecksStand, [ChosenLive /\ DefaultHeld]_variantsVars, [VariantsNext]_variantsVars
              PROVE  ChecksStand'
  OBVIOUS
<1>1. CASE UNCHANGED variantsVars
  BY <1>1 DEF variantsVars, ChecksStand
<1>2. ASSUME NEW v \in Variant, AddVariant(v) \/ SaveSpecs(v)
      PROVE  ChecksStand'
  BY <1>2 DEF AddVariant, SaveSpecs, ChecksStand
<1>3. ASSUME NEW v \in Variant, NEW e \in Archiving, CheckArchive(e, v)
      PROVE  ChecksStand'
  <2>1. UNCHANGED <<default, copy, stray>>
    BY <1>3 DEF CheckArchive
  <2>2. \A f \in Archiving : archiving'[f] = archiving[f] \/ archiving'[f].default = default
    BY <1>3 DEF CheckArchive
  <2>. QED
    BY <2>1, <2>2 DEF ChecksStand
<1>4. ASSUME NEW e \in Archiving, ArchiveVariant(e)
      PROVE  ChecksStand'
  <2>1. UNCHANGED <<default, copy>> /\ archiving[e].default = default
    BY <1>4 DEF ArchiveVariant, ChecksStand
  <2>2. ~stray'
    BY <1>4, <2>1 DEF ArchiveVariant, ChecksStand
  <2>3. \A f \in Archiving : archiving'[f].at = "checked" => archiving'[f] = archiving[f]
    BY <1>4 DEF ArchiveVariant
  <2>. QED
    BY <2>1, <2>2, <2>3 DEF ChecksStand
<1>5. ASSUME NEW v \in Variant, SetDefaultVariant(v)
      PROVE  ChecksStand'
  <2>1. CASE UNCHANGED variantsVars
    BY <1>1, <2>1
  <2>2. CASE ChosenLive /\ DefaultHeld
    <3>1. v \in Live
      BY <1>5, <2>2 DEF ChosenLive
    <3>2. ~stray' /\ UNCHANGED <<archiving, copy>>
      BY <1>5, <3>1 DEF SetDefaultVariant, ChecksStand
    <3>3. (\E e \in Archiving : archiving[e].at = "checked") => default' = default
      BY <2>2 DEF DefaultHeld
    <3>. QED
      BY <3>2, <3>3 DEF ChecksStand
  <2>. QED
    BY <2>1, <2>2
<1>6. CASE ReadForCopy \/ Duplicate
  <2>1. UNCHANGED <<default, archiving, stray>>
    BY <1>6 DEF ReadForCopy, Duplicate
  <2>2. CASE ReadForCopy
    BY <2>1, <2>2 DEF ReadForCopy, ChecksStand
  <2>3. CASE Duplicate
    <3>1. copy \in [at : {"read", "made"}, of : SUBSET Variant, default : SUBSET Variant, stray : BOOLEAN]
      BY <2>3 DEF Duplicate, VariantsInv, CopyFaithful
    <3>2. copy'.stray = copy.stray
      BY <2>3, <3>1 DEF Duplicate
    <3>. QED
      BY <2>1, <2>3, <3>2 DEF Duplicate, ChecksStand
  <2>. QED
    BY <1>6, <2>2, <2>3
<1>. QED
  BY <1>1, <1>2, <1>3, <1>4, <1>5, <1>6 DEF VariantsNext

\* These two rules are all that the default needs: with them a product always
\* has one default that is for sale, and so has each of its duplicates
\* (product-detail.tsx).
THEOREM OrderlyDefaultStays ==
    VariantsSpec /\ DefaultsOrderly =>
        [](/\ \E v \in Live : default = {v}
           /\ copy.at = "made" => \E v \in copy.of : copy.default = {v})
<1>1. VariantsInit => ChecksStand
  BY DEF VariantsInit, ChecksStand
<1>2. VariantsInv /\ [VariantsNext]_variantsVars => VariantsInv'
  BY VariantsNextKeepsInv
<1>3. VariantsInv /\ ChecksStand => /\ \E v \in Live : default = {v}
                                    /\ copy.at = "made" => \E v \in copy.of : copy.default = {v}
  BY DEF VariantsInv, DefaultLives, CopyFaithful, ChecksStand
<1>. QED
  BY VariantsInit_Inv, ChecksStandStep, <1>1, <1>2, <1>3, PTL DEF VariantsSpec, DefaultsOrderly

--------------------------------------------------------------------------------
(* ProductPage: what the stamp in the form tells its author.                 *)

\* Every stamp is the time of some request, and a request in progress carries
\* its own.
StampsPast ==
    /\ product.updated \in stamped
    /\ \A s \in stamped : s <= now
    /\ \A e \in Author :
          /\ draft[e].at = "editing" => draft[e].loaded \in stamped
          /\ draft[e].at \in {"checked", "publishing"} => draft[e].began <= now

\* While updated_at has only gone forward, and with every text, it is the latest
\* of its values: whoever loaded the value it has saw the text there is.
StampTellsText ==
    /\ \A s \in stamped : s <= product.updated
    /\ \A e \in Author :
          /\ draft[e].at = "editing" /\ draft[e].loaded = product.updated => draft[e].saw = text
          /\ draft[e].at = "checked" => draft[e].saw = draft[e].met
    /\ ~erased

ProductInv == ProductTypeOK /\ StampsPast /\ (unstamped \/ StampTellsText)

Text == Author \cup {"creation", "import"}
ProductRow == [status : {"draft", "active", "archived"}, archived : BOOLEAN, updated : Nat]
DraftLocal ==
    [at : {"waiting", "closed"}]
      \cup [at : {"editing"}, loaded : Nat, saw : Text]
      \cup [at : {"checked"}, began : Nat, saw : Text, met : Text]
      \cup [at : {"publishing"}, began : Nat]

\* The locals of a submission, by where it is.
LEMMA DraftRow ==
    ASSUME NEW j \in DraftLocal
    PROVE  /\ j.at = "editing" => j.loaded \in Nat /\ j.saw \in Text
           /\ j.at = "checked" => j.began \in Nat /\ j.saw \in Text /\ j.met \in Text
           /\ j.at = "publishing" => j.began \in Nat
<1>1. CASE j \in [at : {"waiting", "closed"}]
  BY <1>1
<1>2. CASE j \in [at : {"editing"}, loaded : Nat, saw : Text]
  BY <1>2
<1>3. CASE j \in [at : {"checked"}, began : Nat, saw : Text, met : Text]
  BY <1>3
<1>4. CASE j \in [at : {"publishing"}, began : Nat]
  BY <1>4
<1>. QED
  BY <1>1, <1>2, <1>3, <1>4 DEF DraftLocal

LEMMA ProductTypes ==
    ProductTypeOK <=>
        /\ now \in Nat
        /\ product \in ProductRow
        /\ text \in Text
        /\ draft \in [Author -> DraftLocal]
        /\ stamped \subseteq Nat
        /\ unstamped \in BOOLEAN /\ erased \in BOOLEAN
BY DEF ProductTypeOK, ProductRow, DraftLocal, Text

LEMMA ProductInit_Inv == ProductInit => ProductInv
<1>. SUFFICES ASSUME ProductInit
              PROVE  ProductInv
  OBVIOUS
<1>1. PICK status \in {"draft", "active"} :
          product = [status |-> status, archived |-> FALSE, updated |-> 0]
  BY DEF ProductInit
<1>2. product.updated = 0 /\ product \in ProductRow
  BY <1>1 DEF ProductRow
<1>3. /\ now = 1 /\ text = "creation" /\ stamped = {0} /\ unstamped = FALSE /\ erased = FALSE
      /\ draft = [e \in Author |-> [at |-> "waiting"]]
  BY DEF ProductInit
<1>4. ProductTypeOK
  <2>1. draft \in [Author -> DraftLocal]
    BY <1>3 DEF DraftLocal
  <2>2. now \in Nat /\ text \in Text /\ stamped \subseteq Nat
    BY <1>3 DEF Text
  <2>3. unstamped \in BOOLEAN /\ erased \in BOOLEAN
    BY <1>3
  <2>. QED
    BY <1>2, <2>1, <2>2, <2>3, ProductTypes
<1>. QED
  BY <1>2, <1>3, <1>4 DEF ProductInv, StampsPast, StampTellsText

\* A step by which a submission at most closes, or moves without a write.
Advances(e, j) == draft' = [draft EXCEPT ![e] = j]

\* A step that writes nothing.
LEMMA ReadingKeepsInv ==
    ASSUME ProductInv, NEW e \in Author, NEW j \in DraftLocal, Advances(e, j),
           j.at = "editing" => j.loaded = product.updated /\ j.saw = text,
           j.at \in {"checked", "publishing"} => j.began <= now,
           j.at = "checked" => unstamped \/ j.saw = j.met,
           UNCHANGED <<now, product, text, stamped, unstamped, erased>>
    PROVE  ProductInv'
<1>. USE DEF ProductInv, Advances
<1>1. draft' \in [Author -> DraftLocal] /\ \A x \in Author : draft'[x] = draft[x] \/ (x = e /\ draft'[x] = j)
  BY ProductTypes
<1>2. ProductTypeOK'
  BY <1>1, ProductTypes DEF ProductTypeOK, ProductRow, DraftLocal, Text
<1>3. StampsPast'
  BY <1>1 DEF StampsPast
<1>4. unstamped' \/ StampTellsText'
  BY <1>1 DEF StampTellsText
<1>. QED
  BY <1>2, <1>3, <1>4

\* A stamp that leaves the text alone.
LEMMA StampKeepsInv ==
    ASSUME ProductInv, NEW row \in ProductRow, NEW began \in Nat, Stamp(row, began), began <= now,
           draft' \in [Author -> DraftLocal],
           \A x \in Author : draft'[x] = draft[x] \/ draft'[x] = [at |-> "closed"],
           unstamped' \in BOOLEAN, Backwards(began) \/ unstamped => unstamped',
           UNCHANGED <<now, text, erased>>
    PROVE  ProductInv'
<1>. USE DEF ProductInv
<1>1. product' \in ProductRow /\ product'.updated = began /\ stamped' = stamped \cup {began}
  BY DEF Stamp, ProductRow
<1>2. ProductTypeOK'
  BY <1>1, ProductTypes DEF ProductTypeOK, ProductRow, DraftLocal, Text
<1>3. StampsPast'
  BY <1>1 DEF StampsPast
<1>4. ASSUME ~unstamped'
      PROVE  StampTellsText'
  <2>1. product.updated <= began /\ StampTellsText /\ product.updated \in Nat /\ stamped \subseteq Nat
    BY <1>4, ProductTypes DEF Backwards, ProductRow
  <2>2. \A s \in stamped' : s <= product'.updated
    BY <1>1, <2>1 DEF StampTellsText
  <2>3. ASSUME NEW x \in Author, draft'[x].at = "editing", draft'[x].loaded = product'.updated
        PROVE  draft'[x].saw = text'
    <3>1. draft'[x] = draft[x] /\ draft[x].loaded \in stamped
      BY <2>3 DEF StampsPast
    <3>2. draft[x].loaded = product.updated
      BY <1>1, <2>1, <2>3, <3>1 DEF StampTellsText
    <3>. QED
      BY <2>1, <2>3, <3>1, <3>2 DEF StampTellsText
  <2>. QED
    BY <2>1, <2>2, <2>3 DEF StampTellsText
<1>. QED
  BY <1>2, <1>3, <1>4

LEMMA SaveKeepsInv ==
    ASSUME ProductInv, NEW e \in Author, CommitDetails(e)
    PROVE  ProductInv'
<1>. USE DEF ProductInv, CommitDetails, Answer
<1>. DEFINE j == draft[e]
<1>1. j.began \in Nat /\ j.began <= now /\ j.at = "checked"
  BY ProductTypes, DraftRow DEF StampsPast
<1>2. product' \in ProductRow /\ product'.updated = j.began /\ stamped' = stamped \cup {j.began}
  BY <1>1, ProductTypes DEF Stamp, ProductRow
<1>3. /\ draft' \in [Author -> DraftLocal]
      /\ \A x \in Author : draft'[x] = draft[x] \/ draft'[x] = [at |-> "closed"]
  BY ProductTypes DEF DraftLocal
<1>4. unstamped' \in BOOLEAN /\ erased' \in BOOLEAN
  BY Zenon
<1>5. text' = e /\ now' = now
  OBVIOUS
<1>6. ProductTypeOK'
  BY <1>1, <1>2, <1>3, <1>4, <1>5, ProductTypes DEF ProductTypeOK, ProductRow, DraftLocal, Text
<1>7. StampsPast'
  BY <1>1, <1>2, <1>3, <1>5 DEF StampsPast
<1>8. ASSUME ~unstamped'
      PROVE  StampTellsText'
  <2>1. /\ product.updated <= j.began /\ j.began \notin stamped /\ StampTellsText
        /\ product.updated \in Nat /\ stamped \subseteq Nat
    <3>1. ~unstamped /\ ~Backwards(j.began) /\ j.began \notin stamped
      BY <1>8
    <3>2. product.updated \in Nat /\ stamped \subseteq Nat
      BY ProductTypes DEF ProductRow
    <3>. QED
      BY <1>1, <3>1, <3>2 DEF Backwards
  <2>2. ~erased'
    BY <1>1, <2>1 DEF StampTellsText
  <2>3. \A x \in Author : draft'[x].at = "editing" => draft'[x].loaded # product'.updated
    BY <1>2, <1>3, <2>1 DEF StampsPast
  <2>4. \A s \in stamped' : s <= product'.updated
    BY <1>1, <1>2, <2>1 DEF StampTellsText
  <2>. QED
    BY <1>3, <2>1, <2>2, <2>3, <2>4 DEF StampTellsText
<1>. QED
  BY <1>6, <1>7, <1>8

LEMMA AuthorKeepsInv ==
    ASSUME ProductInv, NEW e \in Author,
           OpenEditor(e) \/ CheckDetails(e) \/ CommitDetails(e) \/ CheckPublish(e) \/ CommitPublish(e)
    PROVE  ProductInv'
<1>. USE DEF ProductInv
<1>1. CASE OpenEditor(e)
  <2>. DEFINE j == [at |-> "editing", loaded |-> product.updated, saw |-> text]
  <2>1. j \in DraftLocal
    BY ProductTypes DEF DraftLocal, ProductRow
  <2>. QED
    BY <1>1, <2>1, ReadingKeepsInv DEF OpenEditor, Advances
<1>2. CASE CheckDetails(e)
  <2>. DEFINE j == [at |-> "checked", began |-> now, saw |-> draft[e].saw, met |-> text]
              k == [at |-> "closed"]
  <2>1. j \in DraftLocal /\ k \in DraftLocal
    BY <1>2, ProductTypes, DraftRow DEF DraftLocal, CheckDetails
  <2>2. CASE Conflicts(draft[e].loaded)
    BY <1>2, <2>1, <2>2, ReadingKeepsInv DEF CheckDetails, Advances, Answer
  <2>3. CASE ~Conflicts(draft[e].loaded)
    <3>1. unstamped \/ j.saw = j.met
      BY <1>2, <2>3 DEF CheckDetails, Conflicts, StampTellsText
    <3>2. now <= now
      BY ProductTypes
    <3>. QED
      BY <1>2, <2>1, <2>3, <3>1, <3>2, ReadingKeepsInv DEF CheckDetails, Advances
  <2>. QED
    BY <2>2, <2>3
<1>3. CASE CheckPublish(e)
  <2>. DEFINE j == [at |-> "publishing", began |-> now]
              k == [at |-> "closed"]
  <2>1. j \in DraftLocal /\ k \in DraftLocal /\ now <= now
    BY ProductTypes DEF DraftLocal
  <2>. QED
    BY <1>3, <2>1, ReadingKeepsInv DEF CheckPublish, Advances, Answer
<1>4. CASE CommitPublish(e)
  <2>. DEFINE row == [product EXCEPT !.status = "active"]
  <2>1. row \in ProductRow
    BY ProductTypes DEF ProductRow
  <2>2. draft[e].began \in Nat /\ draft[e].began <= now
    BY <1>4, ProductTypes, DraftRow DEF CommitPublish, StampsPast
  <2>3. unstamped' \in BOOLEAN
    BY <1>4, Zenon DEF CommitPublish
  <2>4. /\ draft' \in [Author -> DraftLocal]
        /\ \A x \in Author : draft'[x] = draft[x] \/ draft'[x] = [at |-> "closed"]
    BY <1>4, ProductTypes DEF CommitPublish, Answer, DraftLocal
  <2>. QED
    BY <1>4, <2>1, <2>2, <2>3, <2>4, StampKeepsInv DEF CommitPublish
<1>. QED
  BY <1>1, <1>2, <1>3, <1>4, SaveKeepsInv

LEMMA ProductNextKeepsInv ==
    ASSUME ProductInv, [ProductNext]_productVars
    PROVE  ProductInv'
<1>. USE DEF ProductInv
<1>1. CASE UNCHANGED productVars
  BY <1>1 DEF productVars, ProductTypeOK, StampsPast, StampTellsText
<1>2. CASE MsPasses
  <2>1. now' = now + 1 /\ now \in Nat /\ UNCHANGED <<product, text, draft, stamped, unstamped, erased>>
    BY <1>2, ProductTypes DEF MsPasses
  <2>2. ProductTypeOK'
    BY <2>1 DEF ProductTypeOK
  <2>3. StampsPast'
    <3>1. \A s \in stamped : s \in Nat
      BY ProductTypes
    <3>2. \A e \in Author : draft[e].at \in {"checked", "publishing"} => draft[e].began \in Nat
      BY ProductTypes, DraftRow
    <3>. QED
      BY <2>1, <3>1, <3>2 DEF StampsPast
  <2>. QED
    BY <2>1, <2>2, <2>3 DEF StampTellsText
<1>3. CASE ImportName
  BY <1>3 DEF ImportName, ProductTypeOK, StampsPast
<1>4. ASSUME NEW row \in ProductRow, NEW began \in 1..now, Late(row, began)
      PROVE  ProductInv'
  <2>1. now \in Nat /\ draft \in [Author -> DraftLocal] /\ unstamped \in BOOLEAN
    BY ProductTypes
  <2>2. began \in Nat /\ began <= now
    BY <1>4, <2>1
  <2>3. unstamped' \in BOOLEAN
    BY <1>4, <2>1, Zenon DEF Late
  <2>. QED
    BY <1>4, <2>1, <2>2, <2>3, StampKeepsInv DEF Late
<1>5. /\ \A s \in {"draft", "active"} : [product EXCEPT !.status = s] \in ProductRow
      /\ [product EXCEPT !.status = "archived", !.archived = TRUE] \in ProductRow
      /\ [product EXCEPT !.status = "draft", !.archived = FALSE] \in ProductRow
      /\ product \in ProductRow
  BY ProductTypes DEF ProductRow
<1>6. ASSUME NEW began \in 1..now, NEW s \in {"draft", "active"}, SetStatus(s, began)
      PROVE  ProductInv'
  BY <1>4, <1>5, <1>6 DEF SetStatus
<1>7. ASSUME NEW began \in 1..now, ArchiveProduct(began) \/ RestoreProduct(began) \/ FeatureProduct(began)
      PROVE  ProductInv'
  BY <1>4, <1>5, <1>7 DEF ArchiveProduct, RestoreProduct, FeatureProduct
<1>. QED
  BY <1>1, <1>2, <1>3, <1>6, <1>7, AuthorKeepsInv DEF ProductNext

\* Nobody's text is replaced unseen: the conflict guard stops every save whose
\* author loaded the page before the text was written, unless updated_at itself
\* was repeated, set back, or left out by an import (product-detail.tsx).
THEOREM OverwritesSeen == ProductSpec => []NoSilentOverwrite
<1>1. ProductInv /\ [ProductNext]_productVars => ProductInv'
  BY ProductNextKeepsInv
<1>2. ProductInv => NoSilentOverwrite
  BY DEF ProductInv, StampTellsText, NoSilentOverwrite
<1>. QED
  BY ProductInit_Inv, <1>1, <1>2, PTL DEF ProductSpec

--------------------------------------------------------------------------------
(* Compatibility: a claim that a cover fits, and who verified it.            *)

RecordRow == {None} \cup [level : Level, by : Checker \cup {"nobody"}]
CompatForm ==
    [at : {"idle"}]
      \cup [at : {"add"}, phone : Phone, level : Level]
      \cup [at : {"set", "tick"}, scope : Scope, phone : Phone, level : Level]

\* A tick stands for a verification of the level the record has now, unless the
\* page it was sent from showed another.
TicksEarned ==
    \A s \in Scope, p \in Phone :
        record[s][p].by # "nobody" => checked[s][p] = record[s][p].level \/ <<s, p>> \in misticked

CompatInv == CompatTypeOK /\ TicksEarned

LEMMA CompatTypes ==
    CompatTypeOK <=>
        /\ record \in [Scope -> [Phone -> RecordRow]]
        /\ form \in [Form -> CompatForm]
        /\ checked \in [Scope -> [Phone -> Level \cup {"none"}]]
        /\ misticked \subseteq Scope \X Phone
BY DEF CompatTypeOK, RecordRow, CompatForm

LEMMA RowTyped ==
    ASSUME NEW row \in RecordRow
    PROVE  /\ row # None => row \in [level : Level, by : Checker \cup {"nobody"}]
           /\ row.by \in Checker \cup {"nobody"} /\ row.level \in Level \cup {"none"}
           /\ row.by # "nobody" => row # None /\ row.by \in Checker
BY DEF RecordRow, None

LEMMA AssertedTyped == \A l \in Level : Asserted(l) \in RecordRow /\ Asserted(l).by = "nobody"
BY DEF Asserted, RecordRow

LEMMA FormTyped ==
    ASSUME NEW j \in CompatForm
    PROVE  /\ j.at = "add" => j.phone \in Phone /\ j.level \in Level
           /\ j.at \in {"set", "tick"} => j.scope \in Scope /\ j.phone \in Phone /\ j.level \in Level
<1>1. CASE j \in [at : {"idle"}]
  BY <1>1
<1>2. CASE j \in [at : {"add"}, phone : Phone, level : Level]
  BY <1>2
<1>3. CASE j \in [at : {"set", "tick"}, scope : Scope, phone : Phone, level : Level]
  BY <1>3
<1>. QED
  BY <1>1, <1>2, <1>3 DEF CompatForm

LEMMA WholeScope == Whole \in Scope /\ \A v \in Colour : v \in Scope
BY DEF Scope

LEMMA CompatInit_Inv == CompatInit => CompatInv
<1>. SUFFICES ASSUME CompatInit
              PROVE  CompatInv
  OBVIOUS
<1>1. PICK known \in [Colour -> [Phone -> {None} \cup {Asserted(l) : l \in {"exact_fit", "incompatible"}}]] :
          record = [s \in Scope |-> IF s = Whole THEN [p \in Phone |-> None] ELSE known[s]]
  BY Zenon DEF CompatInit
<1>2. ASSUME NEW s \in Scope
      PROVE  record[s] \in [Phone -> RecordRow] /\ \A p \in Phone : record[s][p].by = "nobody"
  <2>1. None \in RecordRow /\ None.by = "nobody"
    BY DEF None, RecordRow
  <2>2. CASE s = Whole
    BY <1>1, <2>1, <2>2
  <2>3. CASE s # Whole
    <3>1. s \in Colour /\ record[s] = known[s]
      BY <1>1, <2>3 DEF Scope
    <3>2. \A l \in {"exact_fit", "incompatible"} : l \in Level
      BY DEF Level
    <3>3. \A p \in Phone : known[s][p] \in RecordRow /\ known[s][p].by = "nobody"
      BY <2>1, <3>1, <3>2, AssertedTyped
    <3>. QED
      BY <3>1, <3>3
  <2>. QED
    BY <2>2, <2>3
<1>3. record \in [Scope -> [Phone -> RecordRow]]
  BY <1>1, <1>2
<1>4. /\ form \in [Form -> CompatForm] /\ checked \in [Scope -> [Phone -> Level \cup {"none"}]]
      /\ misticked = {}
  BY DEF CompatInit, CompatForm
<1>. QED
  BY <1>2, <1>3, <1>4, CompatTypes DEF CompatInv, TicksEarned

\* A step that writes one record, or none.
LEMMA WriteKeepsInv ==
    ASSUME CompatInv, NEW s \in Scope, NEW p \in Phone, NEW row \in RecordRow,
           NEW level \in Level \cup {"none"},
           record' = [record EXCEPT ![s][p] = row],
           checked' = [checked EXCEPT ![s][p] = level],
           misticked' \subseteq Scope \X Phone,
           row.by # "nobody" => level = row.level \/ <<s, p>> \in misticked',
           \A t \in Scope, q \in Phone :
               <<t, q>> # <<s, p>> /\ <<t, q>> \in misticked => <<t, q>> \in misticked',
           form' \in [Form -> CompatForm]
    PROVE  CompatInv'
<1>. USE DEF CompatInv
<1>1. /\ record' \in [Scope -> [Phone -> RecordRow]]
      /\ checked' \in [Scope -> [Phone -> Level \cup {"none"}]]
  BY CompatTypes
<1>2. \A t \in Scope, q \in Phone :
          \/ t = s /\ q = p /\ record'[t][q] = row /\ checked'[t][q] = level
          \/ <<t, q>> # <<s, p>> /\ record'[t][q] = record[t][q] /\ checked'[t][q] = checked[t][q]
  BY CompatTypes
<1>3. CompatTypeOK'
  BY <1>1 DEF CompatTypeOK, RecordRow, CompatForm
<1>. QED
  BY <1>2, <1>3 DEF TicksEarned

\* A step of a form that writes no record.
LEMMA FormKeepsInv ==
    ASSUME CompatInv, form' \in [Form -> CompatForm],
           UNCHANGED <<record, checked, misticked>>
    PROVE  CompatInv'
BY DEF CompatInv, CompatTypeOK, TicksEarned, CompatForm

LEMMA SubmissionKeepsInv ==
    ASSUME CompatInv, NEW f \in Form,
           \/ \E p \in Phone, l \in Asked : LookForRecord(f, p, l)
           \/ AddRecord(f)
           \/ \E s \in Scope, p \in Phone, l \in Asked : OpenRecord(f, s, p, l)
           \/ SetLevel(f)
    PROVE  CompatInv'
<1>. USE DEF CompatInv
<1>1. [form EXCEPT ![f] = [at |-> "idle"]] \in [Form -> CompatForm]
  BY CompatTypes DEF CompatForm
<1>2. ASSUME NEW p \in Phone, NEW l \in Asked, LookForRecord(f, p, l)
      PROVE  CompatInv'
  <2>1. form' \in [Form -> CompatForm]
    BY <1>2, CompatTypes, CompatibilityAssumption DEF LookForRecord, CompatForm, CompatibilityAssumption
  <2>. QED
    BY <1>2, <2>1, FormKeepsInv DEF LookForRecord
<1>3. ASSUME NEW s \in Scope, NEW p \in Phone, NEW l \in Asked, OpenRecord(f, s, p, l)
      PROVE  CompatInv'
  <2>1. form' \in [Form -> CompatForm]
    BY <1>3, CompatTypes, CompatibilityAssumption DEF OpenRecord, CompatForm, CompatibilityAssumption
  <2>. QED
    BY <1>3, <2>1, FormKeepsInv DEF OpenRecord
<1>4. CASE AddRecord(f)
  <2>. DEFINE p == form[f].phone
              row == IF On(Whole, p) THEN record[Whole][p] ELSE Asserted(form[f].level)
  <2>1. p \in Phone /\ form[f].level \in Level
    BY <1>4, CompatTypes, FormTyped DEF AddRecord
  <2>2. record[Whole][p] \in RecordRow /\ checked[Whole][p] \in Level \cup {"none"}
    BY <2>1, CompatTypes, WholeScope
  <2>3. /\ row \in RecordRow
        /\ row.by # "nobody" => checked[Whole][p] = row.level \/ <<Whole, p>> \in misticked
    BY <2>1, <2>2, AssertedTyped, WholeScope DEF TicksEarned
  <2>4. record' = [record EXCEPT ![Whole][p] = row]
    BY <1>4, <2>1, CompatTypes, WholeScope DEF AddRecord
  <2>5. checked' = [checked EXCEPT ![Whole][p] = checked[Whole][p]]
    BY <1>4, <2>1, CompatTypes, WholeScope DEF AddRecord
  <2>6. form' \in [Form -> CompatForm] /\ misticked' = misticked /\ misticked \subseteq Scope \X Phone
    BY <1>1, <1>4, CompatTypes DEF AddRecord
  <2>. HIDE DEF row, p
  <2>. QED
    BY <2>1, <2>2, <2>3, <2>4, <2>5, <2>6, WriteKeepsInv, WholeScope
<1>5. CASE SetLevel(f)
  <2>. DEFINE s == form[f].scope
              p == form[f].phone
              row == Asserted(form[f].level)
  <2>1. s \in Scope /\ p \in Phone /\ form[f].level \in Level
    BY <1>5, CompatTypes, FormTyped DEF SetLevel
  <2>2. checked[s][p] \in Level \cup {"none"}
    BY <2>1, CompatTypes
  <2>3. row \in RecordRow /\ row.by = "nobody"
    BY <2>1, AssertedTyped
  <2>4. record' = [record EXCEPT ![s][p] = row]
    BY <1>5, <2>1, CompatTypes DEF SetLevel, Relevelled
  <2>5. checked' = [checked EXCEPT ![s][p] = checked[s][p]]
    BY <1>5, <2>1, CompatTypes DEF SetLevel
  <2>6. form' \in [Form -> CompatForm]
    BY <1>1, <1>5 DEF SetLevel
  <2>7. misticked' = misticked \ {<<s, p>>} /\ misticked \subseteq Scope \X Phone
    BY <1>5, CompatTypes DEF SetLevel
  <2>. HIDE DEF row, p, s
  <2>. QED
    BY <2>1, <2>2, <2>3, <2>4, <2>5, <2>6, <2>7, WriteKeepsInv
<1>. QED
  BY <1>2, <1>3, <1>4, <1>5

LEMMA DeletionKeepsInv ==
    ASSUME CompatInv, NEW s \in Scope, NEW p \in Phone, RemoveRecord(s, p)
    PROVE  CompatInv'
<1>. USE DEF CompatInv
<1>1. form' \in [Form -> CompatForm]
  BY CompatTypes DEF RemoveRecord, Void, CompatForm
<1>2. None \in RecordRow /\ None.by = "nobody"
  BY DEF None, RecordRow
<1>3. misticked' = misticked \ {<<s, p>>} /\ misticked \subseteq Scope \X Phone
  BY CompatTypes DEF RemoveRecord
<1>. QED
  BY <1>1, <1>2, <1>3, WriteKeepsInv DEF RemoveRecord

LEMMA TickKeepsInv ==
    ASSUME CompatInv, NEW f \in Form,
           \/ \E s \in Scope, p \in Phone : OpenPage(f, s, p)
           \/ \E who \in Checker : Verify(f, who)
    PROVE  CompatInv'
<1>. USE DEF CompatInv
<1>1. ASSUME NEW s \in Scope, NEW p \in Phone, OpenPage(f, s, p)
      PROVE  CompatInv'
  <2>1. record[s][p].level \in Level
    BY <1>1, CompatTypes, RowTyped DEF OpenPage, Verifiable
  <2>2. form' \in [Form -> CompatForm]
    BY <1>1, <2>1, CompatTypes DEF OpenPage, CompatForm
  <2>. QED
    BY <1>1, <2>2, FormKeepsInv DEF OpenPage
<1>2. ASSUME NEW who \in Checker, Verify(f, who)
      PROVE  CompatInv'
  <2>. DEFINE s == form[f].scope
              p == form[f].phone
              seen == form[f].level
              row == [record[s][p] EXCEPT !.by = who]
  <2>1. s \in Scope /\ p \in Phone /\ seen \in Level
    BY <1>2, CompatTypes, FormTyped DEF Verify
  <2>2. form' \in [Form -> CompatForm]
    BY <1>2, CompatTypes DEF Verify, CompatForm
  <2>3. CASE ~Verifiable(record[s][p])
    BY <1>2, <2>2, <2>3, FormKeepsInv DEF Verify
  <2>4. CASE Verifiable(record[s][p])
    <3>1. record[s][p] \in [level : Level, by : Checker \cup {"nobody"}]
      BY <2>1, <2>4, CompatTypes, RowTyped DEF Verifiable
    <3>2. row \in RecordRow /\ row.level = record[s][p].level
      BY <3>1 DEF RecordRow
    <3>3. record' = [record EXCEPT ![s][p] = row] /\ checked' = [checked EXCEPT ![s][p] = seen]
      BY <1>2, <2>1, <2>4, CompatTypes DEF Verify
    <3>4. /\ misticked' = IF seen = row.level THEN misticked ELSE misticked \cup {<<s, p>>}
          /\ misticked \subseteq Scope \X Phone
      BY <1>2, <2>4, <3>2, CompatTypes DEF Verify
    <3>. HIDE DEF row, seen, s, p
    <3>5. /\ misticked' \subseteq Scope \X Phone
          /\ seen = row.level \/ <<s, p>> \in misticked'
          /\ \A t \in Scope, q \in Phone : <<t, q>> \in misticked => <<t, q>> \in misticked'
      BY <2>1, <3>4
    <3>. QED
      BY <2>1, <2>2, <3>2, <3>3, <3>5, WriteKeepsInv
  <2>. QED
    BY <2>3, <2>4
<1>. QED
  BY <1>1, <1>2

LEMMA InvGivesEvidence == CompatInv => ClaimsEvidenced
<1>. SUFFICES ASSUME CompatInv, NEW v \in Colour, NEW p \in Phone, Shown(v, p) \in {"exact", "compatible"}
              PROVE  /\ \E s \in {v, Whole} : /\ record[s][p].by \in Checker
                                              /\ checked[s][p] = record[s][p].level \/ <<s, p>> \in misticked
                                              /\ record[s][p].level \in {"exact_fit", "compatible"}
                     /\ ~\E s \in Scope : record[s][p].level = "incompatible"
  BY DEF ClaimsEvidenced
<1>1. ~SaidNotToFit(p)
  BY DEF Shown
<1>2. PICK s \in {v, Whole} : Applicable(v, p) = record[s][p]
  BY DEF Applicable
<1>3. s \in Scope /\ record[s][p] \in RecordRow
  BY <1>2, WholeScope, CompatTypes DEF CompatInv
<1>4. record[s][p].level \in Level \/ record[s][p] = None
  BY <1>3 DEF RecordRow
<1>5. record[s][p].level \in {"exact_fit", "compatible"} /\ Certain(record[s][p])
  <2>. DEFINE row == record[s][p]
  <2>1. ASSUME row.level = "exact_fit" \/ row.level = "compatible", ~Certain(row)
        PROVE  Shown(v, p) = "unverified"
    BY <1>1, <1>2, <2>1 DEF Shown, None
  <2>2. row.level = "adapter_required" => Shown(v, p) = "adapter"
    BY <1>1, <1>2 DEF Shown, None
  <2>3. row.level \in {"unverified", "universal"} => Shown(v, p) = row.level
    BY <1>1, <1>2 DEF Shown, None
  <2>4. row = None => Shown(v, p) \in {"universal", "mismatch", "unverified"}
    BY <1>1, <1>2 DEF Shown, None
  <2>5. row.level # "incompatible"
    BY <1>1, <1>3 DEF SaidNotToFit
  <2>. QED
    BY <1>4, <2>1, <2>2, <2>3, <2>4, <2>5 DEF Level
<1>6. record[s][p].by \in Checker /\ (checked[s][p] = record[s][p].level \/ <<s, p>> \in misticked)
  BY <1>3, <1>5, RowTyped DEF Certain, CompatInv, TicksEarned
<1>. QED
  BY <1>1, <1>5, <1>6 DEF SaidNotToFit

LEMMA CompatInductive == CompatSpec => []CompatInv
<1>1. CompatInv /\ [CompatNext]_compatVars => CompatInv'
  <2>1. CASE UNCHANGED compatVars
    BY <2>1 DEF compatVars, CompatInv, CompatTypeOK, TicksEarned
  <2>. QED
    BY <2>1, SubmissionKeepsInv, DeletionKeepsInv, TickKeepsInv DEF CompatNext
<1>. QED
  BY CompatInit_Inv, <1>1, PTL DEF CompatSpec

\* The storefront presents a fit as certain only on a record of this phone that
\* somebody verified at the level it has now, or from a page that showed another,
\* and never against a record that says the phone does not fit (resolve.ts,
\* product-detail.tsx, compatibility.tsx).
THEOREM FitsEvidenced == CompatSpec => []ClaimsEvidenced
BY CompatInductive, InvGivesEvidence, PTL

--------------------------------------------------------------------------------
(* Homepage: no two sections share a position.                               *)

LEMMA LastIsGreatest ==
    ASSUME position \in [Section -> 0..MaxPosition]
    PROVE  LastPosition \in 0..MaxPosition /\ \A s \in Section : position[s] <= LastPosition
<1>. DEFINE S == {position[s] : s \in Section} \cup {0}
<1>1. S \subseteq 0..MaxPosition /\ S # {}
  BY HomepageAssumption DEF HomepageAssumption
<1>2. LastPosition \in S /\ \A y \in S : LastPosition >= y
  BY <1>1, HasGreatest, HomepageAssumption DEF HomepageAssumption, LastPosition, Max
<1>. QED
  BY <1>1, <1>2

\* The locals of a submission: what it read, while nobody wrote since.
HomeLocal ==
    {Resting}
      \cup [at : {"adding"}, section : Section, last : 0..MaxPosition, stale : BOOLEAN]
      \cup [at : {"current"}, section : Section, from : 0..MaxPosition, up : BOOLEAN, stale : BOOLEAN]
      \cup [at : {"swap"}, section : Section, from : 0..MaxPosition, other : Section, to : 0..MaxPosition,
            stale : BOOLEAN]

UpToDate(j) ==
    /\ j.at = "adding" => \A s \in Section : position[s] <= j.last
    /\ j.at \in {"current", "swap"} => Present(j.section) /\ position[j.section] = j.from
    /\ j.at = "swap" => /\ Present(j.other) /\ position[j.other] = j.to
                        /\ j.other # j.section

HomeInv ==
    /\ position \in [Section -> 0..MaxPosition]
    /\ editing \in [Editing -> HomeLocal]
    /\ mixed \in BOOLEAN
    /\ \A e \in Editing : editing[e] = Resting \/ editing[e].stale \/ UpToDate(editing[e])
    /\ SectionsOrdered

LEMMA HomeRow ==
    ASSUME NEW j \in HomeLocal
    PROVE  /\ j.at \in {"resting", "adding", "current", "swap"}
           /\ j.at # "resting" => j # Resting /\ j.section \in Section /\ j.stale \in BOOLEAN
           /\ j.at = "adding" => j.last \in 0..MaxPosition
           /\ j.at \in {"current", "swap"} => j.from \in 0..MaxPosition
           /\ j.at = "swap" => j.other \in Section /\ j.to \in 0..MaxPosition
           /\ j.at = "resting" => j = Resting
<1>1. CASE j = Resting
  BY <1>1 DEF Resting
<1>2. CASE j \in [at : {"adding"}, section : Section, last : 0..MaxPosition, stale : BOOLEAN]
  BY <1>2 DEF Resting
<1>3. CASE j \in [at : {"current"}, section : Section, from : 0..MaxPosition, up : BOOLEAN, stale : BOOLEAN]
  BY <1>3 DEF Resting
<1>4. CASE j \in [at : {"swap"}, section : Section, from : 0..MaxPosition, other : Section, to : 0..MaxPosition,
                  stale : BOOLEAN]
  BY <1>4 DEF Resting
<1>. QED
  BY <1>1, <1>2, <1>3, <1>4 DEF HomeLocal

LEMMA StaleRow ==
    ASSUME NEW j \in HomeLocal, j # Resting
    PROVE  [j EXCEPT !.stale = TRUE] \in HomeLocal /\ [j EXCEPT !.stale = TRUE].stale
<1>1. CASE j \in [at : {"adding"}, section : Section, last : 0..MaxPosition, stale : BOOLEAN]
  BY <1>1 DEF HomeLocal
<1>2. CASE j \in [at : {"current"}, section : Section, from : 0..MaxPosition, up : BOOLEAN, stale : BOOLEAN]
  BY <1>2 DEF HomeLocal
<1>3. CASE j \in [at : {"swap"}, section : Section, from : 0..MaxPosition, other : Section, to : 0..MaxPosition,
                  stale : BOOLEAN]
  BY <1>3 DEF HomeLocal
<1>. QED
  BY <1>1, <1>2, <1>3 DEF HomeLocal

\* A write leaves nobody else up to date.
LEMMA WritingKeepsInv ==
    ASSUME HomeInv, NEW done \in SUBSET Editing, editing' = AfterWriteBy(done),
           position' \in [Section -> 0..MaxPosition], mixed' \in BOOLEAN, SectionsOrdered'
    PROVE  HomeInv'
<1>1. \A e \in Editing : editing'[e] \in HomeLocal /\ (editing'[e] = Resting \/ editing'[e].stale)
  BY StaleRow DEF AfterWriteBy, HomeInv, HomeLocal
<1>2. editing' \in [Editing -> HomeLocal]
  BY <1>1 DEF AfterWriteBy
<1>. QED
  BY <1>1, <1>2 DEF HomeInv, HomeLocal, Resting

\* A read, of positions nobody changed since if it follows another.
LEMMA LookingKeepsInv ==
    ASSUME HomeInv, NEW e \in Editing, NEW j \in HomeLocal, editing' = [editing EXCEPT ![e] = j],
           j = Resting \/ j.stale \/ UpToDate(j), UNCHANGED <<position, mixed>>
    PROVE  HomeInv'
<1>1. editing' \in [Editing -> HomeLocal]
  BY DEF HomeInv
<1>2. \A x \in Editing : editing'[x] = Resting \/ editing'[x].stale \/ UpToDate(editing'[x])
  BY DEF HomeInv
<1>3. \A x \in Editing : UpToDate(editing'[x]) => UpToDate(editing[x])'
  BY DEF UpToDate, Present
<1>4. position' \in [Section -> 0..MaxPosition] /\ mixed' \in BOOLEAN /\ SectionsOrdered'
  BY DEF HomeInv, SectionsOrdered, Present
<1>. QED
  BY <1>1, <1>2, <1>3, <1>4 DEF HomeInv, HomeLocal, Resting

LEMMA HomeReadsKeepInv ==
    ASSUME HomeInv, NEW e \in Editing,
           \/ \E s \in Section : ReadLast(e, s) \/ \E up \in BOOLEAN : ReadSection(e, s, up)
           \/ ReadNeighbour(e)
    PROVE  HomeInv'
<1>0. position \in [Section -> 0..MaxPosition] /\ editing[e] \in HomeLocal /\ Resting \in HomeLocal
  BY DEF HomeInv, HomeLocal
<1>1. ASSUME NEW s \in Section, ReadLast(e, s)
      PROVE  HomeInv'
  <2>. DEFINE j == [at |-> "adding", section |-> s, last |-> LastPosition, stale |-> FALSE]
  <2>1. j \in HomeLocal /\ UpToDate(j)
    BY <1>0, LastIsGreatest DEF HomeLocal, UpToDate
  <2>. QED
    BY <1>1, <2>1, LookingKeepsInv DEF ReadLast
<1>2. ASSUME NEW s \in Section, NEW up \in BOOLEAN, ReadSection(e, s, up)
      PROVE  HomeInv'
  <2>. DEFINE j == [at |-> "current", section |-> s, from |-> position[s], up |-> up, stale |-> FALSE]
  <2>1. j \in HomeLocal /\ UpToDate(j)
    BY <1>0, <1>2 DEF HomeLocal, UpToDate, ReadSection
  <2>. QED
    BY <1>2, <2>1, LookingKeepsInv DEF ReadSection
<1>3. CASE ReadNeighbour(e)
  <2>. DEFINE j == editing[e]
  <2>1. j.at = "current" /\ UNCHANGED <<position, mixed>>
    BY <1>3 DEF ReadNeighbour
  <2>2. j.section \in Section /\ j.from \in 0..MaxPosition /\ j.stale \in BOOLEAN /\ j # Resting
    BY <1>0, <2>1, HomeRow
  <2>3. CASE editing' = [editing EXCEPT ![e] = Resting]
    BY <1>0, <2>1, <2>3, LookingKeepsInv
  <2>4. ASSUME NEW n \in Nearest(j.from, j.up),
               editing' = [editing EXCEPT ![e] =
                             [at |-> "swap", section |-> j.section, from |-> j.from,
                              other |-> n, to |-> position[n], stale |-> j.stale]]
        PROVE  HomeInv'
    <3>. DEFINE k == [at |-> "swap", section |-> j.section, from |-> j.from,
                      other |-> n, to |-> position[n], stale |-> j.stale]
    <3>1. n \in Section /\ Present(n) /\ position[n] \in 0..MaxPosition
          /\ IF j.up THEN position[n] < j.from ELSE position[n] > j.from
      BY <1>0 DEF Nearest, Beyond
    <3>2. k \in HomeLocal
      BY <2>2, <3>1 DEF HomeLocal
    <3>3. k.stale \/ UpToDate(k)
      <4>1. j.stale \/ (Present(j.section) /\ position[j.section] = j.from)
        BY <2>1, <2>2 DEF HomeInv, UpToDate
      <4>2. position[n] # j.from
        BY <2>2, <3>1, HomepageAssumption DEF HomepageAssumption
      <4>. QED
        BY <3>1, <4>1, <4>2 DEF UpToDate
    <3>. HIDE DEF k
    <3>. QED
      BY <2>1, <2>4, <3>2, <3>3, LookingKeepsInv DEF k
  <2>. QED
    BY <1>3, <2>3, <2>4 DEF ReadNeighbour
<1>. QED
  BY <1>1, <1>2, <1>3

LEMMA HomeWritesKeepInv ==
    ASSUME HomeInv, NEW e \in Editing, AddSection(e) \/ SwapSections(e)
    PROVE  HomeInv'
<1>. DEFINE j == editing[e]
<1>0. /\ position \in [Section -> 0..MaxPosition] /\ j \in HomeLocal /\ MaxPosition \in Nat
      /\ j # Resting => j.stale \/ UpToDate(j)
  BY HomepageAssumption DEF HomeInv, HomepageAssumption
<1>1. CASE AddSection(e)
  <2>1. /\ j.at = "adding" /\ j.last < MaxPosition
        /\ position' = [position EXCEPT ![j.section] = j.last + 1]
        /\ editing' = AfterWriteBy({e})
    BY <1>1 DEF AddSection
  <2>2. j.section \in Section /\ j.last \in 0..MaxPosition /\ j # Resting
    BY <1>0, <2>1, HomeRow
  <2>3. mixed' \in BOOLEAN
    BY <1>1, Zenon DEF AddSection
  <2>. HIDE DEF j
  <2>4. position' \in [Section -> 0..MaxPosition]
    BY <1>0, <2>1, <2>2
  <2>5. ASSUME ~mixed'
        PROVE  \A s, t \in Section : s # t /\ Present(s)' /\ Present(t)' => position'[s] # position'[t]
    <3>1. ~mixed /\ ~j.stale
      BY <1>1, <2>5 DEF AddSection, j
    <3>2. \A s \in Section : position[s] <= j.last /\ position[s] \in 0..MaxPosition
      BY <1>0, <2>1, <2>2, <3>1 DEF UpToDate
    <3>3. \A s, t \in Section : s # t /\ Present(s) /\ Present(t) => position[s] # position[t]
      BY <3>1 DEF HomeInv, SectionsOrdered
    <3>. QED
      BY <1>0, <2>1, <2>2, <3>2, <3>3 DEF Present
  <2>6. SectionsOrdered'
    BY <2>5 DEF SectionsOrdered
  <2>. QED
    BY <2>1, <2>3, <2>4, <2>6, WritingKeepsInv
<1>2. CASE SwapSections(e)
  <2>1. /\ j.at = "swap" /\ position' = Swapped(j)
        /\ editing' = AfterWriteBy({e})
    BY <1>2 DEF SwapSections
  <2>2. /\ j.section \in Section /\ j.from \in 0..MaxPosition /\ j.other \in Section
        /\ j.to \in 0..MaxPosition /\ j # Resting
    BY <1>0, <2>1, HomeRow
  <2>3. mixed' \in BOOLEAN
    BY <1>2, Zenon DEF SwapSections
  <2>. HIDE DEF j
  <2>4. position' \in [Section -> 0..MaxPosition]
    BY <1>0, <2>1, <2>2 DEF Swapped, Placed
  <2>5. ASSUME ~mixed'
        PROVE  \A s, t \in Section : s # t /\ Present(s)' /\ Present(t)' => position'[s] # position'[t]
    <3>1. ~mixed /\ ~j.stale
      BY <1>2, <2>5 DEF SwapSections, j
    <3>2. /\ Present(j.section) /\ position[j.section] = j.from
          /\ Present(j.other) /\ position[j.other] = j.to /\ j.other # j.section
      BY <1>0, <2>1, <2>2, <3>1 DEF UpToDate
    <3>3. \A s, t \in Section : s # t /\ Present(s) /\ Present(t) => position[s] # position[t]
      BY <3>1 DEF HomeInv, SectionsOrdered
    <3>4. \A s \in Section : position'[s] = IF s = j.section THEN j.to
                                            ELSE IF s = j.other THEN j.from ELSE position[s]
      BY <1>0, <2>1, <2>2, <3>2 DEF Swapped, Placed
    <3>. QED
      BY <2>2, <3>2, <3>3, <3>4 DEF Present
  <2>6. SectionsOrdered'
    BY <2>5 DEF SectionsOrdered
  <2>. QED
    BY <2>1, <2>3, <2>4, <2>6, WritingKeepsInv
<1>. QED
  BY <1>1, <1>2

LEMMA RemovalKeepsInv ==
    ASSUME HomeInv, NEW s \in Section, RemoveSection(s)
    PROVE  HomeInv'
<1>1. position' \in [Section -> 0..MaxPosition] /\ mixed' \in BOOLEAN /\ editing' = AfterWriteBy({})
  BY HomepageAssumption DEF HomepageAssumption, HomeInv, RemoveSection
<1>2. SectionsOrdered'
  BY DEF HomeInv, SectionsOrdered, RemoveSection, Present
<1>. QED
  BY <1>1, <1>2, WritingKeepsInv

LEMMA HomeInductive == HomeSpec => []HomeInv
<1>1. ASSUME HomeInit
      PROVE  HomeInv
  <2>1. position \in [Section -> 0..MaxPosition] /\ \A s \in Section : ~Present(s)
    BY <1>1, HomepageAssumption DEF HomepageAssumption, HomeInit, Present
  <2>2. editing \in [Editing -> HomeLocal] /\ \A e \in Editing : editing[e] = Resting
    BY <1>1 DEF HomeInit, HomeLocal
  <2>. QED
    BY <1>1, <2>1, <2>2 DEF HomeInit, HomeInv, SectionsOrdered
<1>2. HomeInv /\ [HomeNext]_homeVars => HomeInv'
  <2>1. CASE UNCHANGED homeVars
    BY <2>1 DEF homeVars, HomeInv, HomeLocal, Resting, SectionsOrdered, Present, UpToDate
  <2>. QED
    BY <2>1, RemovalKeepsInv, HomeReadsKeepInv, HomeWritesKeepInv DEF HomeNext
<1>. QED
  BY <1>1, <1>2, PTL DEF HomeSpec

\* Whatever is added, moved and removed, no two sections share a position unless
\* a submission wrote after the positions it read had changed (homepage.tsx).
THEOREM PositionsDiffer == HomeSpec => []SectionsOrdered
<1>1. HomeInv => SectionsOrdered
  BY DEF HomeInv
<1>. QED
  BY <1>1, HomeInductive, PTL

(* Homepage, one submission at a time.                                       *)

OneSubmission == \A e, f \in Editing : editing[e] # Resting /\ editing[f] # Resting => e = f

AllApart == \A s, t \in Section : s # t /\ Present(s) /\ Present(t) => position[s] # position[t]

\* What a submission has read, whatever was removed since.
StillTrue(j) ==
    /\ j.at = "adding" => \A s \in Section : position[s] <= j.last
    /\ j.at \in {"current", "swap"} =>
          /\ j.from # 0 /\ position[j.section] \in {0, j.from}
          /\ \A s \in Section \ {j.section} : position[s] # j.from
    /\ j.at = "swap" =>
          /\ j.to \notin {0, j.from} /\ j.other # j.section /\ position[j.other] \in {0, j.to}
          /\ \A s \in Section \ {j.other} : position[s] # j.to

AloneInv == AllApart /\ \A e \in Editing : StillTrue(editing[e])

\* Reads move no row.
LEMMA ReadKeepsAlone ==
    ASSUME HomeInv, AloneInv, NEW e \in Editing, NEW j \in HomeLocal, editing' = [editing EXCEPT ![e] = j],
           UNCHANGED position, StillTrue(j)
    PROVE  AloneInv'
<1>1. \A f \in Editing : editing'[f] = IF f = e THEN j ELSE editing[f]
  BY DEF HomeInv
<1>2. AllApart'
  BY DEF AloneInv, AllApart, Present
<1>3. \A f \in Editing : StillTrue(editing[f])'
  BY <1>1 DEF AloneInv, StillTrue
<1>. QED
  BY <1>2, <1>3 DEF AloneInv

\* A write leaves nobody who has read.
LEMMA WriteKeepsAlone ==
    ASSUME HomeInv, AloneInv, OneSubmission, NEW e \in Editing, editing[e] # Resting,
           editing' = AfterWriteBy({e}), AllApart'
    PROVE  AloneInv'
<1>1. \A f \in Editing : editing'[f].at = "resting"
  BY DEF OneSubmission, AfterWriteBy, Resting
<1>. QED
  BY <1>1 DEF AloneInv, StillTrue

\* A submission that turns stale keeps what it has read.
LEMMA StaleFields ==
    ASSUME NEW j \in HomeLocal, j # Resting, NEW k, k = [j EXCEPT !.stale = TRUE]
    PROVE  /\ k.at = j.at
           /\ j.at = "adding" => k.last = j.last /\ j.last \in 0..MaxPosition
           /\ j.at \in {"current", "swap"} => k.section = j.section /\ k.from = j.from /\ j.section \in Section
           /\ j.at = "swap" => k.other = j.other /\ k.to = j.to /\ j.other \in Section
<1>1. CASE j \in [at : {"adding"}, section : Section, last : 0..MaxPosition, stale : BOOLEAN]
  BY <1>1
<1>2. CASE j \in [at : {"current"}, section : Section, from : 0..MaxPosition, up : BOOLEAN, stale : BOOLEAN]
  BY <1>2
<1>3. CASE j \in [at : {"swap"}, section : Section, from : 0..MaxPosition, other : Section, to : 0..MaxPosition,
                  stale : BOOLEAN]
  BY <1>3
<1>. QED
  BY <1>1, <1>2, <1>3 DEF HomeLocal

LEMMA RemovalKeepsAlone ==
    ASSUME HomeInv, AloneInv, NEW s \in Section, RemoveSection(s)
    PROVE  AloneInv'
<1>1. \A t \in Section : position'[t] = IF t = s THEN 0 ELSE position[t]
  BY DEF RemoveSection, HomeInv
<1>2. AllApart'
  BY <1>1 DEF AloneInv, AllApart, Present
<1>3. ASSUME NEW e \in Editing
      PROVE  StillTrue(editing[e])'
  <2>1. editing[e] \in HomeLocal /\ StillTrue(editing[e])
    BY DEF HomeInv, AloneInv
  <2>2. CASE editing[e] = Resting
    <3>1. editing'[e].at = "resting"
      BY <2>2 DEF RemoveSection, AfterWriteBy, Resting
    <3>. QED
      BY <3>1 DEF StillTrue
  <2>3. CASE editing[e] # Resting
    <3>1. editing'[e] = [editing[e] EXCEPT !.stale = TRUE]
      BY <2>3 DEF RemoveSection, AfterWriteBy
    <3>2. PICK j \in HomeLocal : j = editing[e] /\ j # Resting /\ StillTrue(j)
      BY <2>1, <2>3
    <3>3. PICK k : k = [j EXCEPT !.stale = TRUE] /\ k = editing'[e]
      BY <3>1, <3>2
    <3>4. /\ k.at = j.at
          /\ j.at = "adding" => k.last = j.last /\ j.last \in 0..MaxPosition
          /\ j.at \in {"current", "swap"} => k.section = j.section /\ k.from = j.from /\ j.section \in Section
          /\ j.at = "swap" => k.other = j.other /\ k.to = j.to /\ j.other \in Section
      BY <3>2, <3>3, StaleFields
    <3>5. \A t \in Section : position[t] \in 0..MaxPosition
      BY DEF HomeInv
    <3>6. k.at = "adding" => \A t \in Section : position'[t] <= k.last
      BY <1>1, <3>2, <3>4, <3>5 DEF StillTrue
    <3>7. k.at \in {"current", "swap"} =>
            /\ k.from # 0 /\ position'[k.section] \in {0, k.from}
            /\ \A t \in Section \ {k.section} : position'[t] # k.from
      BY <1>1, <3>2, <3>4 DEF StillTrue
    <3>8. k.at = "swap" =>
            /\ k.to \notin {0, k.from} /\ k.other # k.section /\ position'[k.other] \in {0, k.to}
            /\ \A t \in Section \ {k.other} : position'[t] # k.to
      BY <1>1, <3>2, <3>4 DEF StillTrue
    <3>. QED
      BY <3>3, <3>6, <3>7, <3>8 DEF StillTrue
  <2>. QED
    BY <2>2, <2>3
<1>. QED
  BY <1>2, <1>3 DEF AloneInv

LEMMA AloneStep == HomeInv /\ AloneInv /\ OneSubmission /\ [HomeNext]_homeVars => AloneInv'
<1>. SUFFICES ASSUME HomeInv, AloneInv, OneSubmission, [HomeNext]_homeVars
              PROVE  AloneInv'
  OBVIOUS
<1>0. position \in [Section -> 0..MaxPosition] /\ editing \in [Editing -> HomeLocal]
  BY DEF HomeInv
<1>1. ASSUME NEW e \in Editing, NEW s \in Section, ReadLast(e, s)
      PROVE  AloneInv'
  <2>1. LastPosition \in 0..MaxPosition /\ \A t \in Section : position[t] <= LastPosition
    BY <1>0, LastIsGreatest
  <2>2. PICK j \in HomeLocal : j = [at |-> "adding", section |-> s, last |-> LastPosition, stale |-> FALSE]
    BY <2>1 DEF HomeLocal
  <2>3. StillTrue(j)
    BY <2>1, <2>2 DEF StillTrue
  <2>. QED
    BY <1>1, <2>2, <2>3, ReadKeepsAlone DEF ReadLast
<1>2. ASSUME NEW e \in Editing, NEW s \in Section, NEW up \in BOOLEAN, ReadSection(e, s, up)
      PROVE  AloneInv'
  <2>1. PICK j \in HomeLocal :
           j = [at |-> "current", section |-> s, from |-> position[s], up |-> up, stale |-> FALSE]
    BY <1>0 DEF HomeLocal
  <2>2. Present(s) /\ \A t \in Section \ {s} : position[t] # position[s]
    BY <1>2 DEF ReadSection, AloneInv, AllApart, Present
  <2>3. StillTrue(j)
    BY <2>1, <2>2 DEF StillTrue, Present
  <2>. QED
    BY <1>2, <2>1, <2>3, ReadKeepsAlone DEF ReadSection
<1>3. ASSUME NEW e \in Editing, ReadNeighbour(e)
      PROVE  AloneInv'
  <2>1. PICK j \in HomeLocal : j = editing[e] /\ j.at = "current" /\ StillTrue(j)
    BY <1>0, <1>3 DEF ReadNeighbour, AloneInv
  <2>2. j.section \in Section /\ j.from \in 0..MaxPosition /\ j.stale \in BOOLEAN
    BY <2>1, HomeRow
  <2>3. CASE editing' = [editing EXCEPT ![e] = Resting]
    <3>1. Resting \in HomeLocal /\ StillTrue(Resting)
      BY DEF HomeLocal, Resting, StillTrue
    <3>. QED
      BY <1>3, <2>3, <3>1, ReadKeepsAlone DEF ReadNeighbour
  <2>4. ASSUME NEW n \in Nearest(j.from, j.up),
               editing' = [editing EXCEPT ![e] = [at |-> "swap", section |-> j.section, from |-> j.from,
                                                  other |-> n, to |-> position[n], stale |-> j.stale]]
        PROVE  AloneInv'
    <3>1. n \in Section /\ Present(n) /\ position[n] # j.from
      BY <1>0, <2>2, <2>4 DEF Nearest, Beyond
    <3>2. n # j.section
      BY <2>1, <3>1 DEF StillTrue, Present
    <3>3. \A t \in Section \ {n} : position[t] # position[n]
      BY <3>1 DEF AloneInv, AllApart, Present
    <3>4. PICK k \in HomeLocal : k = [at |-> "swap", section |-> j.section, from |-> j.from,
                                      other |-> n, to |-> position[n], stale |-> j.stale]
      BY <1>0, <2>2, <3>1 DEF HomeLocal
    <3>5. StillTrue(k)
      BY <2>1, <3>1, <3>2, <3>3, <3>4 DEF StillTrue, Present
    <3>. QED
      BY <1>3, <2>4, <3>4, <3>5, ReadKeepsAlone DEF ReadNeighbour
  <2>. QED
    BY <1>3, <2>1, <2>3, <2>4 DEF ReadNeighbour
<1>4. ASSUME NEW e \in Editing, AddSection(e)
      PROVE  AloneInv'
  <2>1. PICK j \in HomeLocal : j = editing[e] /\ j.at = "adding" /\ StillTrue(j)
    BY <1>0, <1>4 DEF AddSection, AloneInv
  <2>2. j # Resting /\ j.section \in Section /\ j.last \in 0..MaxPosition
    BY <2>1, HomeRow
  <2>3. \A t \in Section : position'[t] = IF t = j.section THEN j.last + 1 ELSE position[t]
    BY <1>0, <1>4, <2>1 DEF AddSection
  <2>4. \A t \in Section : position[t] <= j.last /\ position[t] \in 0..MaxPosition
    BY <1>0, <2>1 DEF StillTrue
  <2>5. AllApart'
    BY <2>2, <2>3, <2>4 DEF AloneInv, AllApart, Present
  <2>. QED
    BY <1>4, <2>1, <2>2, <2>5, WriteKeepsAlone DEF AddSection
<1>5. ASSUME NEW e \in Editing, SwapSections(e)
      PROVE  AloneInv'
  <2>1. PICK j \in HomeLocal : j = editing[e] /\ j.at = "swap" /\ StillTrue(j)
    BY <1>0, <1>5 DEF SwapSections, AloneInv
  <2>2. j # Resting /\ j.section \in Section /\ j.other \in Section
    BY <2>1, HomeRow
  <2>3. \A t \in Section : position'[t] = IF t = j.other THEN Placed(j.other, j.from)
                                          ELSE IF t = j.section THEN Placed(j.section, j.to)
                                          ELSE position[t]
    BY <1>0, <1>5, <2>1, <2>2 DEF SwapSections, Swapped
  <2>4. /\ j.from # 0 /\ j.to # 0 /\ j.to # j.from /\ j.other # j.section
        /\ \A t \in Section \ {j.section, j.other} : position[t] \notin {j.from, j.to}
    BY <2>1 DEF StillTrue
  <2>5. AllApart'
    BY <2>2, <2>3, <2>4 DEF AloneInv, AllApart, Present, Placed
  <2>. QED
    BY <1>5, <2>1, <2>2, <2>5, WriteKeepsAlone DEF SwapSections
<1>6. CASE UNCHANGED homeVars
  BY <1>6 DEF homeVars, AloneInv, AllApart, StillTrue, Present
<1>. QED
  BY <1>1, <1>2, <1>3, <1>4, <1>5, <1>6, RemovalKeepsAlone DEF HomeNext

\* Submissions that come one after the other never put two sections in one
\* place, even when rows they have read are removed under them (homepage.tsx).
THEOREM OneByOneSectionsDiffer == HomeSpec /\ []OneSubmission => []AllApart
<1>1. ASSUME HomeInit PROVE AloneInv
  <2>1. \A s \in Section : ~Present(s)
    BY <1>1 DEF HomeInit, Present
  <2>2. \A e \in Editing : editing[e].at = "resting"
    BY <1>1 DEF HomeInit, Resting
  <2>. QED
    BY <2>1, <2>2 DEF AloneInv, AllApart, StillTrue
<1>2. AloneInv => AllApart
  BY DEF AloneInv
<1>. QED
  BY <1>1, <1>2, AloneStep, HomeInductive, PTL DEF HomeSpec

--------------------------------------------------------------------------------
(* Photos: the objects of the rows, and the primary of a product.            *)

PhotoRecord == [at : {"row"}, of : Product, key : Key, primary : BOOLEAN]
UploadLocal == [at : {"new", "over"}] \cup [at : InProgress, of : Product, key : Key, first : BOOLEAN]
DeleteStage == {"counted", "unlinking", "unlinked", "promoting", "found", "over"}
DeleteLocal ==
    [at : {"new"}]
      \cup [at : DeleteStage, row : PhotoRow, of : Product, key : Key, primary : BOOLEAN, others : SUBSET PhotoRow]
CopyLocal ==
    [at : {"new", "over"}]
      \cup [at : {"read"}, of : Product, rows : UNION {[S -> PhotoRecord] : S \in SUBSET PhotoRow}]

PhotosTyped ==
    /\ photo \in [PhotoRow -> {NoPhoto, GonePhoto} \cup PhotoRecord]
    /\ bytes \subseteq Key /\ sidecar \subseteq Key
    /\ upload \in [Uploading -> UploadLocal]
    /\ delete \in [Deleting -> DeleteLocal]
    /\ copying \in [Copying -> CopyLocal]
    /\ gambled \in BOOLEAN /\ blurred \subseteq Product

LEMMA RowKinds ==
    ASSUME NEW r \in {NoPhoto, GonePhoto} \cup PhotoRecord
    PROVE  /\ r.at = "row" <=> r \in PhotoRecord
           /\ r.at = "row" => r.of \in Product /\ r.key \in Key /\ r.primary \in BOOLEAN
           /\ r # NoPhoto <=> r.at # "none"
           /\ r = GonePhoto <=> r.at = "gone"
           /\ r.at \in {"row", "none", "gone"}
BY DEF NoPhoto, GonePhoto, PhotoRecord

LEMMA NewRowTyped ==
    ASSUME NEW p \in Product, NEW k \in Key, NEW b \in BOOLEAN
    PROVE  /\ NewRow(p, k, b) \in PhotoRecord /\ NewRow(p, k, b).at = "row" /\ NewRow(p, k, b).of = p
           /\ NewRow(p, k, b).key = k /\ NewRow(p, k, b).primary = b
BY DEF NewRow, PhotoRecord

LEMMA UploadKinds ==
    ASSUME NEW j \in UploadLocal
    PROVE  j.at \in InProgress =>
              /\ j.of \in Product /\ j.key \in Key /\ j.first \in BOOLEAN
              /\ \A a \in InProgress : [j EXCEPT !.at = a] \in UploadLocal
<1>1. CASE j \in [at : {"new", "over"}]
  BY <1>1 DEF InProgress
<1>2. CASE j \in [at : InProgress, of : Product, key : Key, first : BOOLEAN]
  BY <1>2 DEF UploadLocal
<1>. QED
  BY <1>1, <1>2 DEF UploadLocal

LEMMA DeleteKinds ==
    ASSUME NEW j \in DeleteLocal
    PROVE  j.at # "new" =>
              /\ j.row \in PhotoRow /\ j.of \in Product /\ j.key \in Key /\ j.primary \in BOOLEAN
              /\ j.others \in SUBSET PhotoRow /\ j.at \in DeleteStage
              /\ \A a \in DeleteStage : [j EXCEPT !.at = a] \in DeleteLocal
              /\ \A a \in DeleteStage, i \in PhotoRow : [j EXCEPT !.at = a, !.row = i] \in DeleteLocal
<1>1. CASE j \in [at : {"new"}]
  BY <1>1
<1>2. CASE j \in [at : DeleteStage, row : PhotoRow, of : Product, key : Key, primary : BOOLEAN,
                  others : SUBSET PhotoRow]
  BY <1>2 DEF DeleteLocal, DeleteStage
<1>. QED
  BY <1>1, <1>2 DEF DeleteLocal

LEMMA CopyKinds ==
    ASSUME NEW j \in CopyLocal, j.at = "read"
    PROVE  /\ j.of \in Product /\ DOMAIN j.rows \in SUBSET PhotoRow
           /\ \A i \in DOMAIN j.rows : j.rows[i] \in PhotoRecord
<1>1. j \in [at : {"read"}, of : Product, rows : UNION {[S -> PhotoRecord] : S \in SUBSET PhotoRow}]
  BY DEF CopyLocal
<1>2. PICK S \in SUBSET PhotoRow : j.rows \in [S -> PhotoRecord]
  BY <1>1
<1>. QED
  BY <1>1, <1>2

\* Steps that touch no row.
LEMMA UploadTypes ==
    ASSUME PhotosTyped, NEW u \in Uploading,
           \/ \E p \in Product, c \in Content : CheckUpload(u, p, c)
           \/ PutSidecar(u) \/ PutBytes(u) \/ StopUpload(u)
    PROVE  PhotosTyped'
<1>. USE DEF PhotosTyped
<1>1. [at |-> "over"] \in UploadLocal
  BY DEF UploadLocal
<1>2. ASSUME NEW p \in Product, NEW c \in Content, CheckUpload(u, p, c)
      PROVE  PhotosTyped'
  <2>1. \A b \in BOOLEAN : [at |-> "checked", of |-> p, key |-> <<p, c>>, first |-> b] \in UploadLocal
    BY DEF UploadLocal, InProgress, Key
  <2>2. (Rows(p) = {}) \in BOOLEAN
    BY Zenon
  <2>3. upload' \in [Uploading -> UploadLocal]
    BY <1>2, <2>1, <2>2 DEF CheckUpload
  <2>. QED
    BY <1>2, <2>3 DEF CheckUpload
<1>3. CASE PutSidecar(u) \/ PutBytes(u)
  <2>1. upload[u].at \in InProgress /\ upload[u] \in UploadLocal
    BY <1>3 DEF PutSidecar, PutBytes, InProgress
  <2>2. upload[u].key \in Key /\ \A a \in InProgress : [upload[u] EXCEPT !.at = a] \in UploadLocal
    BY <2>1, UploadKinds
  <2>3. upload' \in [Uploading -> UploadLocal]
    BY <1>3, <2>2 DEF PutSidecar, PutBytes, InProgress
  <2>. QED
    BY <1>3, <2>2, <2>3 DEF PutSidecar, PutBytes
<1>4. CASE StopUpload(u)
  BY <1>1, <1>4 DEF StopUpload
<1>. QED
  BY <1>2, <1>3, <1>4

LEMMA InsertTypes ==
    ASSUME PhotosTyped, NEW u \in Uploading, NEW i \in PhotoRow, InsertPhoto(u, i)
    PROVE  PhotosTyped'
<1>. USE DEF PhotosTyped
<1>1. [at |-> "over"] \in UploadLocal
  BY DEF UploadLocal
<1>2. upload[u].at \in InProgress /\ upload[u] \in UploadLocal
  BY DEF InsertPhoto, InProgress
<1>3. NewRow(upload[u].of, upload[u].key, upload[u].first) \in PhotoRecord /\ upload[u].of \in Product
  BY <1>2, UploadKinds, NewRowTyped
<1>. QED
  BY <1>1, <1>3 DEF InsertPhoto

LEMMA PrimaryTypes ==
    ASSUME PhotosTyped, NEW p \in Product, NEW i \in PhotoRow, SetPrimary(p, i)
    PROVE  PhotosTyped'
<1>. USE DEF PhotosTyped
<1>1. ASSUME NEW x \in PhotoRow, x \in Rows(p)
      PROVE  [photo[x] EXCEPT !.primary = x \in PrimaryAfter(p, i)] \in PhotoRecord
  <2>. DEFINE b == x \in PrimaryAfter(p, i)
  <2>1. b \in BOOLEAN
    BY SMT
  <2>. HIDE DEF b
  <2>2. photo[x] \in PhotoRecord
    BY <1>1, RowKinds DEF Rows, There
  <2>. QED
    BY <2>1, <2>2 DEF PhotoRecord, b
<1>. QED
  BY <1>1 DEF SetPrimary

LEMMA DeleteTypes ==
    ASSUME PhotosTyped, NEW d \in Deleting,
           \/ \E i \in PhotoRow : CountReferences(d, i)
           \/ DeleteRow(d) \/ UnlinkBytes(d) \/ UnlinkSidecar(d)
           \/ FindNext(d) \/ Promote(d) \/ StopDelete(d)
    PROVE  PhotosTyped'
<1>. USE DEF PhotosTyped
<1>1. ASSUME NEW i \in PhotoRow, CountReferences(d, i)
      PROVE  PhotosTyped'
  <2>1. photo[i] \in PhotoRecord
    BY <1>1, RowKinds DEF CountReferences, There
  <2>2. photo[i].of \in Product /\ photo[i].key \in Key /\ photo[i].primary \in BOOLEAN
    BY <2>1 DEF PhotoRecord
  <2>3. RowsFor(photo[i].key) \ {i} \in SUBSET PhotoRow
    BY DEF RowsFor, There
  <2>4. delete' \in [Deleting -> DeleteLocal]
    BY <1>1, <2>2, <2>3 DEF CountReferences, DeleteLocal, DeleteStage
  <2>. QED
    BY <1>1, <2>4 DEF CountReferences
<1>2. ASSUME delete[d].at # "new"
      PROVE  /\ delete[d].row \in PhotoRow /\ delete[d].of \in Product /\ delete[d].key \in Key
             /\ \A a \in DeleteStage : [delete[d] EXCEPT !.at = a] \in DeleteLocal
             /\ \A a \in DeleteStage, i \in PhotoRow :
                   [delete[d] EXCEPT !.at = a, !.row = i] \in DeleteLocal
  BY <1>2, DeleteKinds
<1>3. ThenPromote(d) \in DeleteStage /\ \A a \in {"unlinking", "unlinked", "over"} : a \in DeleteStage
  BY DEF ThenPromote, DeleteStage
<1>4. CASE DeleteRow(d)
  <2>1. delete' \in [Deleting -> DeleteLocal] /\ photo' \in [PhotoRow -> {NoPhoto, GonePhoto} \cup PhotoRecord]
    BY <1>2, <1>3, <1>4 DEF DeleteRow
  <2>. QED
    BY <1>2, <1>4, <2>1 DEF DeleteRow
<1>5. CASE UnlinkBytes(d)
  <2>1. gambled' \in BOOLEAN
    BY <1>5, Zenon DEF UnlinkBytes
  <2>. QED
    BY <1>2, <1>3, <1>5, <2>1 DEF UnlinkBytes
<1>6. CASE UnlinkSidecar(d)
  <2>1. gambled' \in BOOLEAN
    BY <1>6, Zenon DEF UnlinkSidecar
  <2>. QED
    BY <1>2, <1>3, <1>6, <2>1 DEF UnlinkSidecar
<1>7. CASE FindNext(d)
  <2>1. delete' \in [Deleting -> DeleteLocal]
    BY <1>2, <1>7 DEF FindNext, DeleteStage, Rows, There
  <2>. QED
    BY <1>7, <2>1 DEF FindNext
<1>8. CASE Promote(d)
  <2>1. photo' \in [PhotoRow -> {NoPhoto, GonePhoto} \cup PhotoRecord]
    <3>1. CASE delete[d].row \notin There
      BY <1>8, <3>1 DEF Promote
    <3>2. CASE delete[d].row \in There
      <4>1. photo[delete[d].row] \in PhotoRecord /\ delete[d].row \in PhotoRow
        BY <3>2, RowKinds DEF There
      <4>2. [photo[delete[d].row] EXCEPT !.primary = TRUE] \in PhotoRecord
        BY <4>1 DEF PhotoRecord
      <4>. QED
        BY <1>8, <3>2, <4>1, <4>2 DEF Promote
    <3>. QED
      BY <3>1, <3>2
  <2>. QED
    BY <1>2, <1>3, <1>8, <2>1 DEF Promote
<1>9. CASE StopDelete(d)
  BY <1>2, <1>3, <1>9 DEF StopDelete
<1>. QED
  BY <1>1, <1>4, <1>5, <1>6, <1>7, <1>8, <1>9

\* What a duplicate inserts: under each fresh id, the row it copies.
LEMMA CopiedRows ==
    ASSUME PhotosTyped, NEW c \in Copying, NEW q \in Product, InsertCopies(c, q)
    PROVE  LET rows == copying[c].rows IN
           \E id \in [DOMAIN rows -> Free] :
              /\ \A i, k \in DOMAIN rows : id[i] = id[k] => i = k
              /\ \A i \in DOMAIN rows :
                    /\ photo'[id[i]] = NewRow(q, rows[i].key, rows[i].primary)
                    /\ photo'[id[i]] \in PhotoRecord
              /\ \A x \in PhotoRow : (\A i \in DOMAIN rows : id[i] # x) => photo'[x] = photo[x]
              /\ photo' \in [PhotoRow -> {NoPhoto, GonePhoto} \cup PhotoRecord]
<1>. DEFINE rows == copying[c].rows
<1>1. copying[c] \in CopyLocal /\ copying[c].at = "read"
  BY DEF PhotosTyped, InsertCopies
<1>2. \A i \in DOMAIN rows : rows[i] \in PhotoRecord
  BY <1>1, CopyKinds
<1>3. PICK id \in Injection(DOMAIN rows, Free) : photo' = WithCopies(rows, id, q)
  BY DEF InsertCopies
<1>4. id \in [DOMAIN rows -> Free] /\ \A i, k \in DOMAIN rows : id[i] = id[k] => i = k
  BY <1>3 DEF Injection, IsInjective
<1>. HIDE DEF rows
<1>5. \A i \in DOMAIN rows : id[i] \in PhotoRow
  BY <1>4 DEF Free
<1>6. \A i \in DOMAIN rows : (CHOOSE k \in DOMAIN rows : id[k] = id[i]) = i
  BY <1>4
<1>7. \A i \in DOMAIN rows : photo'[id[i]] = NewRow(q, rows[i].key, rows[i].primary)
  BY <1>3, <1>5, <1>6 DEF WithCopies
<1>8. \A i \in DOMAIN rows : photo'[id[i]] \in PhotoRecord
  <2>1. \A i \in DOMAIN rows : rows[i].key \in Key /\ rows[i].primary \in BOOLEAN
    BY <1>2 DEF PhotoRecord
  <2>. QED
    BY <1>7, <2>1, NewRowTyped
<1>9. \A x \in PhotoRow : (\A i \in DOMAIN rows : id[i] # x) => photo'[x] = photo[x]
  BY <1>3 DEF WithCopies
<1>10. DOMAIN photo' = PhotoRow /\ photo' = [x \in PhotoRow |-> photo'[x]]
  BY <1>3 DEF WithCopies
<1>11. \A x \in PhotoRow : photo'[x] \in {NoPhoto, GonePhoto} \cup PhotoRecord
  BY <1>8, <1>9 DEF PhotosTyped
<1>. QED
  BY <1>4, <1>7, <1>8, <1>9, <1>10, <1>11 DEF rows

LEMMA CopyTypes ==
    ASSUME PhotosTyped, NEW c \in Copying, NEW p \in Product, ReadPhotos(c, p) \/ InsertCopies(c, p)
    PROVE  PhotosTyped'
<1>. USE DEF PhotosTyped
<1>1. CASE ReadPhotos(c, p)
  <2>1. \A i \in Rows(p) : photo[i] \in PhotoRecord
    BY RowKinds DEF Rows, There
  <2>2. Rows(p) \in SUBSET PhotoRow
    BY DEF Rows, There
  <2>3. [i \in Rows(p) |-> photo[i]] \in UNION {[S -> PhotoRecord] : S \in SUBSET PhotoRow}
    BY <2>1, <2>2
  <2>4. [at |-> "read", of |-> p, rows |-> [i \in Rows(p) |-> photo[i]]] \in CopyLocal
    BY <2>3 DEF CopyLocal
  <2>. QED
    BY <1>1, <2>4 DEF ReadPhotos
<1>2. CASE InsertCopies(c, p)
  <2>1. photo' \in [PhotoRow -> {NoPhoto, GonePhoto} \cup PhotoRecord]
    BY <1>2, CopiedRows
  <2>2. [at |-> "over"] \in CopyLocal
    BY DEF CopyLocal
  <2>. QED
    BY <1>2, <2>1, <2>2 DEF InsertCopies
<1>. QED
  BY <1>1, <1>2

LEMMA PhotosTypesInductive == PhotosSpec => []PhotosTyped
<1>1. PhotosInit => PhotosTyped
  <2>1. /\ [at |-> "new"] \in UploadLocal /\ [at |-> "new"] \in DeleteLocal
        /\ [at |-> "new"] \in CopyLocal
    BY DEF UploadLocal, DeleteLocal, CopyLocal
  <2>. QED
    BY <2>1 DEF PhotosInit, PhotosTyped
<1>2. PhotosTyped /\ [PhotosNext]_photosVars => PhotosTyped'
  <2>1. CASE UNCHANGED photosVars
    BY <2>1 DEF photosVars, PhotosTyped
  <2>. QED
    BY <2>1, UploadTypes, InsertTypes, PrimaryTypes, DeleteTypes, CopyTypes DEF PhotosNext
<1>. QED
  BY <1>1, <1>2, PTL DEF PhotosSpec

(* Objects.                                                                  *)

\* Everybody who relies on an object has it: the rows, the uploads that put it,
\* the duplicates that read its key.
Served ==
    /\ \A i \in There : photo[i].key \in bytes
    /\ bytes \subseteq sidecar
    /\ \A u \in Uploading : /\ upload[u].at = "described" => upload[u].key \in sidecar
                            /\ upload[u].at = "stored" => upload[u].key \in bytes
    /\ \A c \in Copying : copying[c].at = "read" =>
          \A i \in DOMAIN copying[c].rows : copying[c].rows[i].key \in bytes

\* Whoever removes an object counted no other reference.
RemovesLast == \A d \in Deleting : delete[d].at = "unlinking" => delete[d].others = {}

ServedInv == PhotosTyped /\ RemovesLast /\ (gambled \/ Served)

LEMMA UploadServed ==
    ASSUME ServedInv, PhotosTyped', NEW u \in Uploading,
           \/ \E p \in Product, c \in Content : CheckUpload(u, p, c)
           \/ PutSidecar(u) \/ PutBytes(u) \/ StopUpload(u)
           \/ \E i \in PhotoRow : InsertPhoto(u, i)
    PROVE  ServedInv'
<1>. USE DEF ServedInv
<1>1. upload \in [Uploading -> UploadLocal] /\ photo \in [PhotoRow -> {NoPhoto, GonePhoto} \cup PhotoRecord]
  BY DEF PhotosTyped
<1>2. UNCHANGED <<delete, copying, gambled>>
  BY DEF CheckUpload, PutSidecar, PutBytes, StopUpload, InsertPhoto
<1>3. RemovesLast'
  BY <1>2 DEF RemovesLast
<1>. SUFFICES ASSUME Served
              PROVE  Served'
  BY <1>2, <1>3
<1>4. ASSUME NEW p \in Product, NEW c \in Content, CheckUpload(u, p, c)
      PROVE  Served'
  BY <1>1, <1>4 DEF CheckUpload, Served, There
<1>5. CASE PutSidecar(u)
  <2>1. \A x \in Uploading : upload'[x] = IF x = u THEN [upload[u] EXCEPT !.at = "described"] ELSE upload[x]
    BY <1>1, <1>5 DEF PutSidecar
  <2>2. upload[u].at = "checked" /\ upload[u] \in UploadLocal
    BY <1>1, <1>5 DEF PutSidecar
  <2>3. upload'[u].at = "described" /\ upload'[u].key = upload[u].key
    BY <2>1, <2>2 DEF UploadLocal, InProgress
  <2>. QED
    BY <1>5, <2>1, <2>3 DEF PutSidecar, Served, There
<1>6. CASE PutBytes(u)
  <2>1. \A x \in Uploading : upload'[x] = IF x = u THEN [upload[u] EXCEPT !.at = "stored"] ELSE upload[x]
    BY <1>1, <1>6 DEF PutBytes
  <2>2. upload[u].at = "described" /\ upload[u] \in UploadLocal
    BY <1>1, <1>6 DEF PutBytes
  <2>3. upload'[u].at = "stored" /\ upload'[u].key = upload[u].key
    BY <2>1, <2>2 DEF UploadLocal, InProgress
  <2>. QED
    BY <1>6, <2>1, <2>2, <2>3 DEF PutBytes, Served, There
<1>7. CASE StopUpload(u)
  BY <1>1, <1>7 DEF StopUpload, Served, There
<1>8. ASSUME NEW i \in PhotoRow, InsertPhoto(u, i)
      PROVE  Served'
  <2>1. \A x \in PhotoRow :
            photo'[x] = IF x = i THEN NewRow(upload[u].of, upload[u].key, upload[u].first) ELSE photo[x]
    BY <1>1, <1>8 DEF InsertPhoto
  <2>2. photo'[i].key = upload[u].key /\ upload[u].key \in bytes
    BY <1>8, <2>1 DEF NewRow, InsertPhoto, Served
  <2>. QED
    BY <1>1, <1>8, <2>1, <2>2 DEF InsertPhoto, Served, There
<1>. QED
  BY <1>4, <1>5, <1>6, <1>7, <1>8

\* Choosing a primary changes no object of a row.
LEMMA PrimaryKeepsKeys ==
    ASSUME PhotosTyped, NEW p \in Product, NEW i \in PhotoRow, SetPrimary(p, i)
    PROVE  There' = There /\ \A x \in There : photo'[x].key = photo[x].key
<1>1. ASSUME NEW x \in PhotoRow, x \in Rows(p)
      PROVE  photo'[x].at = photo[x].at /\ photo'[x].key = photo[x].key
  <2>1. photo[x] \in PhotoRecord
    BY <1>1, RowKinds DEF PhotosTyped, Rows, There
  <2>. QED
    BY <1>1, <2>1 DEF SetPrimary, PhotoRecord
<1>2. \A x \in PhotoRow : x \notin Rows(p) => photo'[x] = photo[x]
  BY DEF SetPrimary
<1>. QED
  BY <1>1, <1>2 DEF There

LEMMA PrimaryServed ==
    ASSUME ServedInv, PhotosTyped', NEW p \in Product, NEW i \in PhotoRow, SetPrimary(p, i)
    PROVE  ServedInv'
<1>1. There' = There /\ \A x \in There : photo'[x].key = photo[x].key
  BY PrimaryKeepsKeys DEF ServedInv
<1>. QED
  BY <1>1 DEF SetPrimary, ServedInv, Served, RemovesLast

\* Neither does promoting one.
LEMMA PromoteKeepsKeys ==
    ASSUME PhotosTyped, NEW d \in Deleting, Promote(d)
    PROVE  \A x \in There' : x \in There /\ photo'[x].key = photo[x].key
<1>0. photo \in [PhotoRow -> {NoPhoto, GonePhoto} \cup PhotoRecord]
  BY DEF PhotosTyped
<1>1. CASE delete[d].row \in There
  <2>1. photo[delete[d].row] \in PhotoRecord
    BY <1>0, <1>1, RowKinds DEF There
  <2>2. \A x \in There' : x \in There /\ photo'[x].key = photo[x].key
    BY <1>0, <1>1, <2>1 DEF Promote, There, PhotoRecord
  <2>. QED
    BY <2>2
<1>2. CASE delete[d].row \notin There
  BY <1>2 DEF Promote, There
<1>. QED
  BY <1>1, <1>2

LEMMA CopyServed ==
    ASSUME ServedInv, PhotosTyped', NEW c \in Copying, NEW p \in Product, ReadPhotos(c, p) \/ InsertCopies(c, p)
    PROVE  ServedInv'
<1>. USE DEF ServedInv
<1>1. copying \in [Copying -> CopyLocal] /\ UNCHANGED <<bytes, sidecar, upload, delete, gambled>>
  BY DEF PhotosTyped, ReadPhotos, InsertCopies
<1>2. RemovesLast'
  BY <1>1 DEF RemovesLast
<1>. SUFFICES ASSUME Served
              PROVE  Served'
  BY <1>1, <1>2
<1>3. CASE ReadPhotos(c, p)
  <2>1. \A x \in Copying : x # c => copying'[x] = copying[x]
    BY <1>1, <1>3 DEF ReadPhotos
  <2>2. copying'[c].rows = [i \in Rows(p) |-> photo[i]]
    BY <1>1, <1>3 DEF ReadPhotos
  <2>3. \A i \in DOMAIN copying'[c].rows : copying'[c].rows[i].key \in bytes
    BY <2>2 DEF Served, Rows
  <2>. QED
    BY <1>1, <1>3, <2>1, <2>3 DEF ReadPhotos, Served, There
<1>4. CASE InsertCopies(c, p)
  <2>. DEFINE rows == copying[c].rows
  <2>1. PICK id \in [DOMAIN rows -> Free] :
              /\ \A i \in DOMAIN rows : photo'[id[i]] = NewRow(p, rows[i].key, rows[i].primary)
              /\ \A x \in PhotoRow : (\A i \in DOMAIN rows : id[i] # x) => photo'[x] = photo[x]
    BY <1>4, CopiedRows
  <2>2. \A i \in DOMAIN rows : rows[i].key \in bytes
    BY <1>4 DEF InsertCopies, Served
  <2>. HIDE DEF rows
  <2>3. \A i \in DOMAIN rows : photo'[id[i]].key \in bytes
    <3>1. ASSUME NEW i \in DOMAIN rows
          PROVE  NewRow(p, rows[i].key, rows[i].primary).key = rows[i].key
      BY DEF NewRow
    <3>. QED
      BY <2>1, <2>2, <3>1
  <2>4. ASSUME NEW x \in There'
        PROVE  photo'[x].key \in bytes
    <3>1. CASE \E i \in DOMAIN rows : id[i] = x
      BY <2>3, <3>1
    <3>2. CASE \A i \in DOMAIN rows : id[i] # x
      BY <2>1, <3>2 DEF There, Served
    <3>. QED
      BY <3>1, <3>2
  <2>5. \A x \in Copying : copying'[x] = copying[x] \/ copying'[x] = [at |-> "over"]
    BY <1>1, <1>4 DEF InsertCopies
  <2>. QED
    BY <1>1, <2>4, <2>5 DEF Served
<1>. QED
  BY <1>3, <1>4

LEMMA DeleteServed ==
    ASSUME ServedInv, PhotosTyped', NEW d \in Deleting,
           \/ \E i \in PhotoRow : CountReferences(d, i)
           \/ DeleteRow(d) \/ UnlinkBytes(d) \/ UnlinkSidecar(d)
           \/ FindNext(d) \/ Promote(d) \/ StopDelete(d)
    PROVE  ServedInv'
<1>. USE DEF ServedInv
<1>0. /\ delete \in [Deleting -> DeleteLocal] /\ delete[d] \in DeleteLocal
      /\ photo \in [PhotoRow -> {NoPhoto, GonePhoto} \cup PhotoRecord]
  BY DEF PhotosTyped
<1>. DEFINE j == delete[d]
<1>1. RemovesLast'
  <2>1. \A x \in Deleting : x # d => delete'[x] = delete[x]
    BY <1>0 DEF CountReferences, DeleteRow, UnlinkBytes, UnlinkSidecar, FindNext, Promote, StopDelete
  <2>2. delete'[d].at = "unlinking" => delete'[d].others = {}
    <3>1. ASSUME NEW i \in PhotoRow, CountReferences(d, i)
          PROVE  delete'[d].at = "counted"
      BY <1>0, <3>1 DEF CountReferences
    <3>2. \A a : j.at # "new" => [j EXCEPT !.at = a].at = a /\ [j EXCEPT !.at = a].others = j.others
      BY <1>0, DeleteKinds DEF DeleteLocal
    <3>3. CASE DeleteRow(d)
      BY <1>0, <3>2, <3>3 DEF DeleteRow, LastReference, ThenPromote
    <3>4. CASE UnlinkBytes(d) \/ UnlinkSidecar(d) \/ Promote(d) \/ StopDelete(d)
      <4>1. CASE UnlinkBytes(d) \/ UnlinkSidecar(d)
        <5>1. CASE UnlinkBytes(d)
          BY <1>0, <3>2, <5>1 DEF UnlinkBytes, ThenPromote
        <5>2. CASE UnlinkSidecar(d)
          BY <1>0, <3>2, <5>2 DEF UnlinkSidecar, ThenPromote
        <5>. QED
          BY <4>1, <5>1, <5>2
      <4>2. CASE Promote(d)
        BY <1>0, <3>2, <4>2 DEF Promote
      <4>3. CASE StopDelete(d)
        BY <1>0, <3>2, <4>3 DEF StopDelete
      <4>. QED
        BY <3>4, <4>1, <4>2, <4>3
    <3>5. CASE FindNext(d)
      <4>1. j.at = "promoting"
        BY <3>5 DEF FindNext
      <4>2. \A i : [j EXCEPT !.at = "found", !.row = i].at = "found"
        BY <1>0, <4>1 DEF DeleteLocal
      <4>3. \/ delete' = [delete EXCEPT ![d] = [j EXCEPT !.at = "over"]]
            \/ \E i \in PhotoRow : delete' = [delete EXCEPT ![d] = [j EXCEPT !.at = "found", !.row = i]]
        BY <1>0, <3>5 DEF FindNext, Rows, There
      <4>4. delete'[d].at \in {"over", "found"}
        <5>1. [j EXCEPT !.at = "over"].at = "over"
          BY <3>2, <4>1
        <5>2. delete'[d] = [j EXCEPT !.at = "over"]
              \/ \E i \in PhotoRow : delete'[d] = [j EXCEPT !.at = "found", !.row = i]
          BY <1>0, <4>3
        <5>. HIDE DEF j
        <5>. QED
          BY <4>2, <5>1, <5>2
      <4>. QED
        BY <4>4
    <3>. QED
      BY <3>1, <3>3, <3>4, <3>5
  <2>. QED
    BY <2>1, <2>2 DEF RemovesLast
<1>. SUFFICES ASSUME ~gambled'
              PROVE  Served'
  BY <1>1
<1>2. Served
  BY DEF CountReferences, DeleteRow, UnlinkBytes, UnlinkSidecar, FindNext, Promote, StopDelete
<1>3. UNCHANGED <<upload, copying>>
  BY DEF CountReferences, DeleteRow, UnlinkBytes, UnlinkSidecar, FindNext, Promote, StopDelete
<1>4. ASSUME UNCHANGED <<photo, bytes, sidecar>>
      PROVE  Served'
  BY <1>2, <1>3, <1>4 DEF Served, There
<1>5. ASSUME UNCHANGED <<bytes, sidecar>>,
             \A x \in PhotoRow : x \in There' => x \in There /\ photo'[x].key = photo[x].key
      PROVE  Served'
  BY <1>2, <1>3, <1>5 DEF Served, There
<1>6. CASE DeleteRow(d)
  BY <1>0, <1>5, <1>6 DEF DeleteRow, There, GonePhoto
<1>7. CASE Promote(d)
  <2>1. \A x \in There' : x \in There /\ photo'[x].key = photo[x].key
    BY <1>7, PromoteKeepsKeys
  <2>. QED
    BY <1>5, <1>7, <2>1 DEF Promote
<1>8. CASE UnlinkBytes(d)
  <2>1. ~UsesAnew(d) /\ j.others = {} /\ bytes' = bytes \ {j.key} /\ UNCHANGED <<photo, sidecar>>
    BY <1>8 DEF UnlinkBytes, RemovesLast
  <2>2. \A i \in There : photo[i].key # j.key
    BY <2>1 DEF UsesAnew, RowsFor
  <2>3. \A u \in Uploading : upload[u].at \in {"described", "stored"} => upload[u].key # j.key
    BY <2>1 DEF UsesAnew
  <2>4. \A c \in Copying : copying[c].at = "read" =>
            \A i \in DOMAIN copying[c].rows : copying[c].rows[i].key # j.key
    BY <2>1 DEF UsesAnew
  <2>. HIDE DEF j
  <2>. QED
    BY <1>2, <1>3, <2>1, <2>2, <2>3, <2>4 DEF Served, There
<1>9. CASE UnlinkSidecar(d)
  <2>1. ~UsesAnew(d) /\ j.key \notin bytes /\ sidecar' = sidecar \ {j.key} /\ UNCHANGED <<photo, bytes>>
    BY <1>9 DEF UnlinkSidecar
  <2>2. \A u \in Uploading : upload[u].at \in {"described", "stored"} => upload[u].key # j.key
    BY <2>1 DEF UsesAnew
  <2>. HIDE DEF j
  <2>. QED
    BY <1>2, <1>3, <2>1, <2>2 DEF Served, There
<1>. QED
  BY <1>4, <1>6, <1>7, <1>8, <1>9 DEF CountReferences, FindNext, StopDelete

\* No photograph on the shop is broken and none is served without its type,
\* whatever is uploaded, deleted, duplicated or left half done, unless an object
\* was removed that somebody began to use after its references were counted
\* (product-detail.tsx, filesystem.ts).
THEOREM PhotosStayServed == PhotosSpec => []PhotosServed
<1>1. PhotosInit /\ PhotosTyped => ServedInv
  BY DEF PhotosInit, ServedInv, Served, RemovesLast, There, NoPhoto
<1>2. ServedInv /\ PhotosTyped' /\ [PhotosNext]_photosVars => ServedInv'
  <2>1. CASE UNCHANGED photosVars
    BY <2>1 DEF photosVars, ServedInv, Served, RemovesLast, There
  <2>. QED
    BY <2>1, UploadServed, PrimaryServed, DeleteServed, CopyServed DEF PhotosNext
<1>3. ServedInv => PhotosServed
  BY DEF ServedInv, Served, PhotosServed
<1>. QED
  BY PhotosTypesInductive, <1>1, <1>2, <1>3, PTL DEF PhotosSpec

(* The primary photograph.                                                   *)

\* A deletion is about a row of its product, as long as the row is there.
DeletesOwn ==
    \A d \in Deleting :
        delete[d].at # "new" =>
            \/ photo[delete[d].row] = GonePhoto
            \/ photo[delete[d].row].at = "row" /\ photo[delete[d].row].of = delete[d].of

\* At most one primary, and one unless somebody is about to choose it.
OneOrSettling(p) ==
    /\ \A i, k \in Primaries(p) : i = k
    /\ Rows(p) = {} \/ Settling(p) \/ Primaries(p) # {}

PrimaryInv == DeletesOwn /\ \A p \in Product \ blurred : OneOrSettling(p)

\* The locals of a deletion from one step to the next.
LEMMA DeleteMoves ==
    ASSUME PhotosTyped, NEW d \in Deleting,
           DeleteRow(d) \/ UnlinkBytes(d) \/ UnlinkSidecar(d) \/ FindNext(d) \/ Promote(d) \/ StopDelete(d)
    PROVE  /\ \A x \in Deleting : x # d => delete'[x] = delete[x]
           /\ delete[d].at # "new"
           /\ delete'[d].of = delete[d].of /\ delete'[d].primary = delete[d].primary
           /\ delete'[d].at # "new"
           /\ DeleteRow(d) => delete'[d].at = IF LastReference(d) THEN "unlinking" ELSE ThenPromote(d)
           /\ UnlinkBytes(d) => delete'[d].at = "unlinked"
           /\ UnlinkSidecar(d) => delete'[d].at = ThenPromote(d)
           /\ ~FindNext(d) => delete'[d].row = delete[d].row
           /\ FindNext(d) => \/ Rows(delete[d].of) = {} /\ delete'[d].row = delete[d].row
                             \/ delete'[d].row \in Rows(delete[d].of) /\ delete'[d].at = "found"
<1>. DEFINE j == delete[d]
<1>1. delete \in [Deleting -> DeleteLocal] /\ j \in DeleteLocal /\ j.at # "new"
  BY DEF PhotosTyped, DeleteRow, UnlinkBytes, UnlinkSidecar, FindNext, Promote, StopDelete
<1>2. \A a : /\ [j EXCEPT !.at = a].at = a /\ [j EXCEPT !.at = a].of = j.of
             /\ [j EXCEPT !.at = a].primary = j.primary /\ [j EXCEPT !.at = a].row = j.row
  BY <1>1 DEF DeleteLocal
<1>3. \A i : LET k == [j EXCEPT !.at = "found", !.row = i] IN
             k.at = "found" /\ k.of = j.of /\ k.primary = j.primary /\ k.row = i
  BY <1>1 DEF DeleteLocal
<1>4. ASSUME NEW a, delete' = [delete EXCEPT ![d].at = a]
      PROVE  /\ \A x \in Deleting : x # d => delete'[x] = delete[x]
             /\ delete'[d].of = j.of /\ delete'[d].primary = j.primary
             /\ delete'[d].at = a /\ delete'[d].row = j.row
  <2>1. delete'[d] = [j EXCEPT !.at = a] /\ \A x \in Deleting : x # d => delete'[x] = delete[x]
    BY <1>1, <1>4
  <2>. QED
    BY <1>2, <2>1
<1>5. CASE DeleteRow(d)
  <2>1. delete' = [delete EXCEPT ![d].at = IF LastReference(d) THEN "unlinking" ELSE ThenPromote(d)] /\ j.at = "counted"
    BY <1>5 DEF DeleteRow
  <2>2. ~UnlinkBytes(d) /\ ~UnlinkSidecar(d) /\ ~FindNext(d)
    BY <2>1 DEF UnlinkBytes, UnlinkSidecar, FindNext
  <2>. HIDE DEF j
  <2>. QED
    BY <1>1, <1>4, <2>1, <2>2 DEF ThenPromote, j
<1>6. CASE UnlinkBytes(d)
  <2>1. delete' = [delete EXCEPT ![d].at = "unlinked"] /\ j.at = "unlinking"
    BY <1>6 DEF UnlinkBytes
  <2>2. ~DeleteRow(d) /\ ~UnlinkSidecar(d) /\ ~FindNext(d)
    BY <2>1 DEF DeleteRow, UnlinkSidecar, FindNext
  <2>. QED
    BY <1>1, <1>4, <2>1, <2>2
<1>7. CASE UnlinkSidecar(d)
  <2>1. delete' = [delete EXCEPT ![d].at = ThenPromote(d)] /\ j.at = "unlinked"
    BY <1>7 DEF UnlinkSidecar
  <2>2. ~DeleteRow(d) /\ ~UnlinkBytes(d) /\ ~FindNext(d)
    BY <2>1 DEF DeleteRow, UnlinkBytes, FindNext
  <2>. QED
    BY <1>1, <1>4, <2>1, <2>2 DEF ThenPromote
<1>8. CASE Promote(d) \/ (StopDelete(d) /\ ~DeleteRow(d) /\ ~UnlinkBytes(d) /\ ~UnlinkSidecar(d) /\ ~FindNext(d))
  <2>1. delete' = [delete EXCEPT ![d].at = "over"]
    BY <1>8 DEF Promote, StopDelete
  <2>2. ~DeleteRow(d) /\ ~UnlinkBytes(d) /\ ~UnlinkSidecar(d) /\ ~FindNext(d)
    BY <1>8 DEF Promote, DeleteRow, UnlinkBytes, UnlinkSidecar, FindNext
  <2>. QED
    BY <1>1, <1>4, <2>1, <2>2
<1>9. CASE FindNext(d)
  <2>1. j.at = "promoting"
    BY <1>9 DEF FindNext
  <2>2. ~DeleteRow(d) /\ ~UnlinkBytes(d) /\ ~UnlinkSidecar(d)
    BY <2>1 DEF DeleteRow, UnlinkBytes, UnlinkSidecar
  <2>3. CASE Rows(j.of) = {}
    <3>1. delete' = [delete EXCEPT ![d].at = "over"]
      BY <1>9, <2>3 DEF FindNext
    <3>. QED
      BY <1>1, <1>4, <1>9, <2>2, <2>3, <3>1
  <2>4. CASE Rows(j.of) # {}
    <3>1. PICK i \in Rows(j.of) : delete' = [delete EXCEPT ![d].at = "found", ![d].row = i]
      BY <1>9, <2>4 DEF FindNext
    <3>2. delete'[d] = [j EXCEPT !.at = "found", !.row = i] /\ \A x \in Deleting : x # d => delete'[x] = delete[x]
      BY <1>1, <3>1
    <3>3. delete'[d].at = "found" /\ delete'[d].of = j.of /\ delete'[d].primary = j.primary /\ delete'[d].row = i
      BY <1>3, <3>2
    <3>. QED
      BY <1>1, <1>9, <2>2, <2>4, <3>2, <3>3
  <2>. QED
    BY <2>3, <2>4
<1>. QED
  BY <1>5, <1>6, <1>7, <1>8, <1>9

\* A row keeps its product until it is gone, and then stays gone.
LEMMA RowsPersist ==
    ASSUME PhotosTyped, PhotosNext, NEW x \in PhotoRow
    PROVE  /\ photo[x] = GonePhoto => photo'[x] = GonePhoto
           /\ photo[x].at = "row" => \/ photo'[x] = GonePhoto
                                     \/ photo'[x].at = "row" /\ photo'[x].of = photo[x].of
<1>1. /\ photo \in [PhotoRow -> {NoPhoto, GonePhoto} \cup PhotoRecord]
      /\ GonePhoto.at = "gone" /\ NoPhoto.at = "none"
  BY DEF PhotosTyped, GonePhoto, NoPhoto
<1>2. ASSUME photo' = photo
      PROVE  photo'[x] = photo[x]
  BY <1>2
<1>3. ASSUME NEW u \in Uploading, NEW i \in PhotoRow, InsertPhoto(u, i)
      PROVE  photo'[x] = photo[x] \/ photo[x] = NoPhoto
  BY <1>1, <1>3 DEF InsertPhoto
<1>4. ASSUME NEW p \in Product, NEW i \in PhotoRow, SetPrimary(p, i)
      PROVE  photo'[x] = photo[x] \/ (photo[x].at = "row" /\ photo'[x].at = "row" /\ photo'[x].of = photo[x].of)
  <2>1. CASE x \in Rows(p)
    <3>1. photo[x] \in PhotoRecord
      BY <1>1, <2>1, RowKinds DEF Rows, There
    <3>. QED
      BY <1>4, <2>1, <3>1 DEF SetPrimary, PhotoRecord
  <2>2. CASE x \notin Rows(p)
    BY <1>4, <2>2 DEF SetPrimary
  <2>. QED
    BY <2>1, <2>2
<1>5. ASSUME NEW d \in Deleting, DeleteRow(d)
      PROVE  photo'[x] = photo[x] \/ photo'[x] = GonePhoto
  BY <1>1, <1>5 DEF DeleteRow
<1>6. ASSUME NEW d \in Deleting, Promote(d)
      PROVE  photo'[x] = photo[x] \/ (photo[x].at = "row" /\ photo'[x].at = "row" /\ photo'[x].of = photo[x].of)
  <2>1. CASE x = delete[d].row /\ x \in There
    <3>1. photo[x] \in PhotoRecord
      BY <1>1, <2>1, RowKinds DEF There
    <3>. QED
      BY <1>1, <1>6, <2>1, <3>1 DEF Promote, PhotoRecord
  <2>2. CASE ~(x = delete[d].row /\ x \in There)
    BY <1>1, <1>6, <2>2 DEF Promote
  <2>. QED
    BY <2>1, <2>2
<1>7. ASSUME NEW c \in Copying, NEW p \in Product, InsertCopies(c, p)
      PROVE  photo'[x] = photo[x] \/ photo[x] = NoPhoto
  <2>1. PICK id \in [DOMAIN copying[c].rows -> Free] :
              \A y \in PhotoRow : (\A i \in DOMAIN copying[c].rows : id[i] # y) => photo'[y] = photo[y]
    BY <1>7, CopiedRows
  <2>. QED
    BY <2>1 DEF Free
<1>8. \/ photo' = photo
      \/ \E u \in Uploading, i \in PhotoRow : InsertPhoto(u, i)
      \/ \E p \in Product, i \in PhotoRow : SetPrimary(p, i)
      \/ \E d \in Deleting : DeleteRow(d) \/ Promote(d)
      \/ \E c \in Copying, p \in Product : InsertCopies(c, p)
  BY DEF PhotosNext, CheckUpload, PutSidecar, PutBytes, StopUpload, CountReferences, UnlinkBytes,
     UnlinkSidecar, FindNext, StopDelete, ReadPhotos
<1>. QED
  BY <1>1, <1>2, <1>3, <1>4, <1>5, <1>6, <1>7, <1>8

LEMMA OwnDeletesStep ==
    ASSUME PhotosTyped, DeletesOwn, [PhotosNext]_photosVars
    PROVE  DeletesOwn'
<1>0. /\ photo \in [PhotoRow -> {NoPhoto, GonePhoto} \cup PhotoRecord] /\ delete \in [Deleting -> DeleteLocal]
      /\ \A x \in Deleting : delete[x].at # "new" => delete[x].row \in PhotoRow
  BY DeleteKinds DEF PhotosTyped
<1>1. CASE UNCHANGED photosVars
  BY <1>1 DEF photosVars, DeletesOwn
<1>2. ASSUME PhotosNext, NEW x \in Deleting, delete'[x].at # "new",
             \/ delete[x].at # "new" /\ delete'[x].row = delete[x].row /\ delete'[x].of = delete[x].of
             \/ delete'[x].row \in Rows(delete'[x].of) /\ photo' = photo
      PROVE  \/ photo'[delete'[x].row] = GonePhoto
             \/ photo'[delete'[x].row].at = "row" /\ photo'[delete'[x].row].of = delete'[x].of
  <2>1. CASE delete[x].at # "new" /\ delete'[x].row = delete[x].row /\ delete'[x].of = delete[x].of
    BY <1>0, <1>2, <2>1, RowsPersist DEF DeletesOwn
  <2>2. CASE delete'[x].row \in Rows(delete'[x].of) /\ photo' = photo
    BY <2>2 DEF Rows, There
  <2>. QED
    BY <1>2, <2>1, <2>2
<1>3. ASSUME PhotosNext, delete' = delete
      PROVE  DeletesOwn'
  BY <1>2, <1>3 DEF DeletesOwn
<1>4. ASSUME PhotosNext, NEW d \in Deleting, NEW i \in PhotoRow, CountReferences(d, i)
      PROVE  DeletesOwn'
  <2>1. \A x \in Deleting : x # d => delete'[x] = delete[x]
    BY <1>0, <1>4 DEF CountReferences
  <2>2. /\ photo' = photo /\ i \in There /\ delete'[d].row = i /\ delete'[d].of = photo[i].of
    BY <1>0, <1>4 DEF CountReferences
  <2>3. delete'[d].row \in Rows(delete'[d].of)
    BY <2>2 DEF Rows
  <2>. QED
    BY <1>2, <1>4, <2>1, <2>2, <2>3 DEF DeletesOwn
<1>5. ASSUME PhotosNext, NEW d \in Deleting,
             DeleteRow(d) \/ UnlinkBytes(d) \/ UnlinkSidecar(d) \/ FindNext(d) \/ Promote(d) \/ StopDelete(d)
      PROVE  DeletesOwn'
  <2>1. /\ \A x \in Deleting : x # d => delete'[x] = delete[x]
        /\ delete[d].at # "new" /\ delete'[d].of = delete[d].of
        /\ ~FindNext(d) => delete'[d].row = delete[d].row
        /\ FindNext(d) => delete'[d].row = delete[d].row \/ delete'[d].row \in Rows(delete[d].of)
    BY <1>5, DeleteMoves
  <2>2. FindNext(d) => photo' = photo
    BY DEF FindNext
  <2>3. \A x \in Deleting :
            \/ x # d /\ delete'[x] = delete[x]
            \/ delete[x].at # "new" /\ delete'[x].row = delete[x].row /\ delete'[x].of = delete[x].of
            \/ delete'[x].row \in Rows(delete'[x].of) /\ photo' = photo
    BY <2>1, <2>2
  <2>. QED
    BY <1>2, <1>5, <2>3 DEF DeletesOwn
<1>6. PhotosNext =>
          \/ delete' = delete
          \/ \E d \in Deleting :
                \/ \E i \in PhotoRow : CountReferences(d, i)
                \/ DeleteRow(d) \/ UnlinkBytes(d) \/ UnlinkSidecar(d) \/ FindNext(d) \/ Promote(d) \/ StopDelete(d)
  BY DEF PhotosNext, CheckUpload, PutSidecar, PutBytes, StopUpload, InsertPhoto, SetPrimary, ReadPhotos,
     InsertCopies
<1>. QED
  BY <1>1, <1>3, <1>4, <1>5, <1>6

\* Steps that leave the gallery of a product as it is, and who chooses in it.
LEMMA SameGallery ==
    ASSUME NEW p \in Product, OneOrSettling(p),
           Rows(p)' = Rows(p), Primaries(p)' = Primaries(p),
           Rows(p) = {} \/ Primaries(p) # {} \/ (Settling(p) => Settling(p)')
    PROVE  OneOrSettling(p)'
BY DEF OneOrSettling

LEMMA SamePhotos ==
    ASSUME NEW p \in Product, OneOrSettling(p), photo' = photo,
           Rows(p) = {} \/ Primaries(p) # {} \/ (Settling(p) => Settling(p)')
    PROVE  OneOrSettling(p)'
<1>1. Rows(p)' = Rows(p) /\ Primaries(p)' = Primaries(p)
  BY DEF Rows, Primaries, There
<1>. QED
  BY <1>1, SameGallery

LEMMA ReadsKeepGallery ==
    ASSUME NEW p \in Product, OneOrSettling(p), UNCHANGED <<photo, delete>>
    PROVE  OneOrSettling(p)'
BY SamePhotos DEF Settling

LEMMA InsertGallery ==
    ASSUME PhotosTyped, NEW u \in Uploading, NEW i \in PhotoRow, InsertPhoto(u, i),
           NEW p \in Product \ blurred', OneOrSettling(p)
    PROVE  OneOrSettling(p)'
<1>. DEFINE j == upload[u]
<1>0. /\ photo \in [PhotoRow -> {NoPhoto, GonePhoto} \cup PhotoRecord]
      /\ photo[i] = NoPhoto /\ NoPhoto.at = "none" /\ delete' = delete
      /\ j \in UploadLocal /\ j.at \in InProgress
  BY DEF PhotosTyped, InsertPhoto, NoPhoto, InProgress
<1>1. j.of \in Product /\ j.key \in Key /\ j.first \in BOOLEAN
  BY <1>0, UploadKinds
<1>2. photo'[i].at = "row" /\ photo'[i].of = j.of /\ photo'[i].primary = j.first
  BY <1>0, <1>1, NewRowTyped DEF InsertPhoto
<1>3. \A x \in PhotoRow : x # i => photo'[x] = photo[x]
  BY <1>0 DEF InsertPhoto
<1>4. Settling(p)' = Settling(p)
  BY <1>0 DEF Settling
<1>5. CASE p # j.of
  <2>1. Rows(p)' = Rows(p) /\ Primaries(p)' = Primaries(p)
    BY <1>0, <1>2, <1>3, <1>5 DEF Rows, Primaries, There
  <2>. QED
    BY <1>4, <2>1, SameGallery
<1>6. CASE p = j.of
  <2>1. j.first = (Rows(p) = {})
    BY <1>6 DEF InsertPhoto
  <2>2. CASE Rows(p) = {}
    <3>1. j.first /\ photo'[i].primary
      BY <1>2, <2>1, <2>2
    <3>2. i \in Primaries(p)'
      BY <1>2, <1>6, <3>1 DEF Rows, Primaries, There
    <3>3. \A x \in PhotoRow : x # i => x \notin Primaries(p)'
      BY <1>3, <2>2 DEF Rows, Primaries, There
    <3>4. Primaries(p)' = {i}
      BY <3>2, <3>3 DEF Rows, Primaries, There
    <3>. QED
      BY <3>4 DEF OneOrSettling
  <2>3. CASE Rows(p) # {}
    <3>1. \A x \in PhotoRow : x \in Primaries(p)' <=> x \in Primaries(p)
      BY <1>0, <1>2, <1>3, <1>6, <2>1, <2>3 DEF Rows, Primaries, There
    <3>2. Primaries(p)' = Primaries(p)
      BY <3>1 DEF Rows, Primaries, There
    <3>. QED
      BY <1>4, <2>3, <3>2 DEF OneOrSettling
  <2>. QED
    BY <2>2, <2>3
<1>. QED
  BY <1>5, <1>6

LEMMA ChooseGallery ==
    ASSUME PhotosTyped, NEW q \in Product, NEW i \in PhotoRow, SetPrimary(q, i),
           NEW p \in Product \ blurred', OneOrSettling(p)
    PROVE  OneOrSettling(p)'
<1>0. photo \in [PhotoRow -> {NoPhoto, GonePhoto} \cup PhotoRecord] /\ delete' = delete
  BY DEF PhotosTyped, SetPrimary
<1>1. ASSUME NEW x \in PhotoRow
      PROVE  /\ x \notin Rows(q) => photo'[x] = photo[x]
             /\ x \in Rows(q) => /\ photo'[x].at = "row" /\ photo'[x].of = q
                                 /\ photo'[x].primary = (x \in PrimaryAfter(q, i))
  <2>1. CASE x \notin Rows(q)
    BY <2>1 DEF SetPrimary
  <2>2. CASE x \in Rows(q)
    <3>1. photo[x] \in PhotoRecord /\ photo[x].at = "row" /\ photo[x].of = q
      BY <1>0, <2>2, RowKinds DEF Rows, There
    <3>2. photo'[x] = [photo[x] EXCEPT !.primary = x \in PrimaryAfter(q, i)]
      BY <2>2 DEF SetPrimary
    <3>. QED
      BY <2>2, <3>1, <3>2 DEF PhotoRecord
  <2>. QED
    BY <2>1, <2>2
<1>2. CASE p # q
  <2>1. Rows(p)' = Rows(p) /\ Primaries(p)' = Primaries(p)
    BY <1>1, <1>2 DEF Rows, Primaries, There
  <2>2. Settling(p)' = Settling(p)
    BY <1>0 DEF Settling
  <2>. QED
    BY <2>1, <2>2, SameGallery
<1>3. CASE p = q
  <2>1. i \in Rows(q)
    BY <1>3 DEF SetPrimary
  <2>2. \A x \in PhotoRow : x \in Primaries(q)' <=> x = i
    BY <1>1, <2>1 DEF Rows, Primaries, There, PrimaryAfter
  <2>3. Primaries(q)' = {i}
    BY <2>2 DEF Primaries, Rows, There
  <2>. QED
    BY <1>3, <2>3 DEF OneOrSettling
<1>. QED
  BY <1>2, <1>3

\* Settlers other than the deletion that moves are as they were.
LEMMA OthersSettle ==
    ASSUME NEW p \in Product, NEW d \in Deleting,
           \A x \in Deleting : x # d => delete'[x] = delete[x],
           Settling(p), ~(delete[d].of = p /\ delete[d].primary /\ delete[d].at \notin {"new", "counted", "over"})
    PROVE  Settling(p)'
BY DEF Settling

LEMMA DeleteGallery ==
    ASSUME PhotosTyped, DeletesOwn, NEW d \in Deleting, DeleteRow(d),
           NEW p \in Product \ blurred', OneOrSettling(p)
    PROVE  OneOrSettling(p)'
<1>. DEFINE j == delete[d]
<1>0. /\ photo \in [PhotoRow -> {NoPhoto, GonePhoto} \cup PhotoRecord] /\ GonePhoto.at = "gone"
      /\ j \in DeleteLocal /\ j.at = "counted"
      /\ photo' = [photo EXCEPT ![j.row] = GonePhoto]
  BY DEF PhotosTyped, GonePhoto, DeleteRow
<1>1. /\ \A x \in Deleting : x # d => delete'[x] = delete[x]
      /\ delete'[d].of = j.of /\ delete'[d].primary = j.primary
      /\ delete'[d].at = IF LastReference(d) THEN "unlinking" ELSE ThenPromote(d)
  BY DeleteMoves
<1>2. j.row \in PhotoRow /\ j.of \in Product /\ j.primary \in BOOLEAN
  BY <1>0, DeleteKinds
<1>3. Settling(p) => Settling(p)'
  BY <1>0, <1>1, OthersSettle
<1>. HIDE DEF j
<1>4. /\ \A x \in PhotoRow : x # j.row => photo'[x] = photo[x]
      /\ photo'[j.row] = GonePhoto
  BY <1>0, <1>2
<1>5. CASE j.row \notin Rows(p)
  <2>1. /\ \A x \in PhotoRow : x \in Rows(p)' <=> x \in Rows(p)
        /\ \A x \in PhotoRow : x \in Primaries(p)' <=> x \in Primaries(p)
    BY <1>0, <1>4, <1>5 DEF Rows, Primaries, There
  <2>2. Rows(p)' = Rows(p) /\ Primaries(p)' = Primaries(p)
    BY <2>1 DEF Rows, Primaries, There
  <2>. QED
    BY <1>3, <2>2, SameGallery
<1>6. CASE j.row \in Rows(p)
  <2>1. p = j.of
    BY <1>0, <1>6 DEF DeletesOwn, Rows, There, j
  <2>2. photo[j.row].primary = j.primary
    BY <2>1 DEF DeleteRow, j
  <2>3. \A x \in PhotoRow : x \in Primaries(p)' <=> x \in Primaries(p) /\ x # j.row
    BY <1>0, <1>4 DEF Rows, Primaries, There
  <2>4. CASE j.primary
    <3>1. j.row \in Primaries(p)
      BY <1>6, <2>2, <2>4 DEF Primaries
    <3>2. Primaries(p)' = {}
      <4>1. \A x \in PhotoRow : x \notin Primaries(p)'
        BY <2>3, <3>1 DEF OneOrSettling
      <4>. QED
        BY <4>1 DEF Primaries, Rows, There
    <3>3. Settling(p)'
      BY <1>1, <2>1, <2>4 DEF Settling, ThenPromote, j
    <3>. QED
      BY <3>2, <3>3 DEF OneOrSettling
  <2>5. CASE ~j.primary
    <3>1. \A x \in PhotoRow : x \in Primaries(p)' <=> x \in Primaries(p)
      BY <2>2, <2>3, <2>5 DEF Primaries
    <3>2. Primaries(p)' = Primaries(p)
      BY <3>1 DEF Primaries, Rows, There
    <3>. QED
      BY <1>3, <1>6, <3>2 DEF OneOrSettling
  <2>. QED
    BY <1>2, <2>4, <2>5
<1>. QED
  BY <1>5, <1>6

LEMMA PromoteGallery ==
    ASSUME PhotosTyped, DeletesOwn, NEW d \in Deleting, Promote(d),
           NEW p \in Product \ blurred', OneOrSettling(p)
    PROVE  OneOrSettling(p)'
<1>. DEFINE j == delete[d]
<1>0. /\ photo \in [PhotoRow -> {NoPhoto, GonePhoto} \cup PhotoRecord]
      /\ j \in DeleteLocal /\ j.at = "found"
      /\ photo' = IF j.row \notin There THEN photo ELSE [photo EXCEPT ![j.row].primary = TRUE]
  BY DEF PhotosTyped, Promote
<1>1. \A x \in Deleting : x # d => delete'[x] = delete[x]
  BY DeleteMoves
<1>2. j.row \in PhotoRow
  BY <1>0, DeleteKinds
<1>. HIDE DEF j
<1>3. ASSUME NEW x \in PhotoRow
      PROVE  /\ x # j.row \/ j.row \notin There => photo'[x] = photo[x]
             /\ x = j.row /\ j.row \in There =>
                  photo'[x].at = "row" /\ photo'[x].of = photo[x].of /\ photo'[x].primary = TRUE
  <2>1. CASE x # j.row \/ j.row \notin There
    BY <1>0, <2>1
  <2>2. CASE x = j.row /\ j.row \in There
    <3>1. photo[x] \in PhotoRecord /\ photo[x].at = "row"
      BY <1>0, <2>2, RowKinds DEF There
    <3>2. photo'[x] = [photo[x] EXCEPT !.primary = TRUE]
      BY <1>0, <2>2
    <3>. QED
      BY <2>2, <3>1, <3>2 DEF PhotoRecord
  <2>. QED
    BY <2>1, <2>2
<1>4. CASE p # j.of
  <2>1. j.row \in There => photo[j.row].of = j.of
    BY <1>0 DEF DeletesOwn, There, j, GonePhoto
  <2>2. /\ \A x \in PhotoRow : x \in Rows(p)' <=> x \in Rows(p)
        /\ \A x \in PhotoRow : x \in Primaries(p)' <=> x \in Primaries(p)
    BY <1>3, <1>4, <2>1 DEF Rows, Primaries, There
  <2>3. Rows(p)' = Rows(p) /\ Primaries(p)' = Primaries(p)
    BY <2>2 DEF Rows, Primaries, There
  <2>4. Settling(p) => Settling(p)'
    BY <1>1, <1>4, OthersSettle DEF j
  <2>. QED
    BY <2>3, <2>4, SameGallery
<1>5. CASE p = j.of
  <2>1. j.row \in Rows(p) /\ Primaries(p) = {}
    BY <1>5 DEF Promote, j
  <2>2. ASSUME NEW x \in PhotoRow
        PROVE  x \in Primaries(p)' <=> x = j.row
    <3>1. CASE x = j.row
      <4>1. j.row \in There
        BY <2>1 DEF Rows
      <4>2. photo'[x].at = "row" /\ photo'[x].of = p /\ photo'[x].primary = TRUE
        BY <1>3, <2>1, <3>1, <4>1 DEF Rows
      <4>. QED
        BY <3>1, <4>2 DEF Rows, Primaries, There
    <3>2. CASE x # j.row
      <4>1. photo'[x] = photo[x]
        BY <1>3, <3>2
      <4>. QED
        BY <2>1, <3>2, <4>1 DEF Rows, Primaries, There
    <3>. QED
      BY <3>1, <3>2
  <2>3. Primaries(p)' = {j.row}
    BY <1>2, <2>2 DEF Primaries, Rows, There
  <2>. QED
    BY <2>3 DEF OneOrSettling
<1>. QED
  BY <1>4, <1>5

LEMMA SettleGallery ==
    ASSUME PhotosTyped, NEW d \in Deleting, UnlinkBytes(d) \/ UnlinkSidecar(d) \/ FindNext(d) \/ StopDelete(d),
           NEW p \in Product \ blurred', OneOrSettling(p)
    PROVE  OneOrSettling(p)'
<1>. DEFINE j == delete[d]
<1>1. /\ \A x \in Deleting : x # d => delete'[x] = delete[x]
      /\ delete'[d].of = j.of /\ delete'[d].primary = j.primary
      /\ UnlinkBytes(d) => delete'[d].at = "unlinked"
      /\ UnlinkSidecar(d) => delete'[d].at = ThenPromote(d)
      /\ FindNext(d) => Rows(j.of) = {} \/ delete'[d].at = "found"
  BY DeleteMoves
<1>2. photo' = photo /\ (StopDelete(d) => j.of # p \/ ~j.primary)
  BY DEF UnlinkBytes, UnlinkSidecar, FindNext, StopDelete
<1>3. Rows(p) = {} \/ (Settling(p) => Settling(p)')
  <2>1. CASE j.of = p /\ j.primary /\ ~StopDelete(d) /\ Rows(p) # {}
    BY <1>1, <2>1 DEF Settling, ThenPromote
  <2>2. CASE j.of # p \/ ~j.primary
    BY <1>1, <2>2, OthersSettle
  <2>. QED
    BY <1>2, <2>1, <2>2
<1>. QED
  BY <1>2, <1>3, SamePhotos

LEMMA CountGallery ==
    ASSUME PhotosTyped, NEW d \in Deleting, NEW i \in PhotoRow, CountReferences(d, i),
           NEW p \in Product, OneOrSettling(p)
    PROVE  OneOrSettling(p)'
<1>1. /\ \A x \in Deleting : x # d => delete'[x] = delete[x]
      /\ delete[d].at = "new" /\ photo' = photo
  BY DEF CountReferences, PhotosTyped
<1>2. Settling(p) => Settling(p)'
  BY <1>1, OthersSettle
<1>. QED
  BY <1>1, <1>2, SamePhotos

LEMMA CopyGallery ==
    ASSUME PhotosTyped, NEW c \in Copying, NEW q \in Product, InsertCopies(c, q),
           NEW p \in Product \ blurred', OneOrSettling(p)
    PROVE  OneOrSettling(p)'
<1>. DEFINE rows == copying[c].rows
            first == {i \in DOMAIN rows : rows[i].primary}
<1>1. PICK id \in [DOMAIN rows -> Free] :
          /\ \A i, k \in DOMAIN rows : id[i] = id[k] => i = k
          /\ \A i \in DOMAIN rows : photo'[id[i]] = NewRow(q, rows[i].key, rows[i].primary)
          /\ \A x \in PhotoRow : (\A i \in DOMAIN rows : id[i] # x) => photo'[x] = photo[x]
  BY CopiedRows
<1>2. /\ Rows(q) = {} /\ delete' = delete /\ copying[c] \in CopyLocal /\ copying[c].at = "read"
      /\ p = q => Cardinality(first) = 1
  BY DEF InsertCopies, FreshKeys, PhotosTyped
<1>3. DOMAIN rows \subseteq PhotoRow /\ \A i \in DOMAIN rows : rows[i] \in PhotoRecord
  BY <1>2, CopyKinds
<1>. HIDE DEF rows
<1>4. /\ \A i \in DOMAIN rows :
            /\ photo'[id[i]].at = "row" /\ photo'[id[i]].of = q
            /\ photo'[id[i]].primary = rows[i].primary
      /\ \A i \in DOMAIN rows : id[i] \in PhotoRow /\ photo[id[i]] = NoPhoto
  <2>1. \A i \in DOMAIN rows : rows[i].key \in Key /\ rows[i].primary \in BOOLEAN
    BY <1>3 DEF PhotoRecord
  <2>. QED
    BY <1>1, <2>1, NewRowTyped DEF Free
<1>5. NoPhoto.at # "row"
  BY DEF NoPhoto
<1>6. CASE p # q
  <2>1. ASSUME NEW x \in PhotoRow
        PROVE  /\ x \in Rows(p)' <=> x \in Rows(p)
               /\ x \in Primaries(p)' <=> x \in Primaries(p)
    <3>1. CASE \E i \in DOMAIN rows : id[i] = x
      BY <1>4, <1>5, <1>6, <3>1 DEF Rows, Primaries, There
    <3>2. CASE \A i \in DOMAIN rows : id[i] # x
      BY <1>1, <3>2 DEF Rows, Primaries, There
    <3>. QED
      BY <3>1, <3>2
  <2>2. Rows(p)' = Rows(p) /\ Primaries(p)' = Primaries(p)
    BY <2>1 DEF Rows, Primaries, There
  <2>3. Settling(p)' = Settling(p)
    BY <1>2 DEF Settling
  <2>. QED
    BY <2>2, <2>3, SameGallery
<1>7. CASE p = q
  <2>1. IsFiniteSet(first)
    BY <1>3, PhotosAssumption, FS_Subset
  <2>2. PICK k : first = {k}
    BY <1>2, <1>7, <2>1, FS_Singleton
  <2>3. /\ k \in DOMAIN rows /\ rows[k].primary
        /\ \A i \in DOMAIN rows : rows[i].primary => i = k
    BY <2>2
  <2>4. id[k] \in Primaries(q)'
    BY <1>4, <2>3 DEF Rows, Primaries, There
  <2>5. ASSUME NEW x \in Primaries(q)'
        PROVE  x = id[k]
    <3>1. x \in PhotoRow /\ photo'[x].at = "row" /\ photo'[x].of = q /\ photo'[x].primary
      BY DEF Rows, Primaries, There
    <3>2. CASE \E i \in DOMAIN rows : id[i] = x
      BY <1>4, <2>3, <3>1, <3>2
    <3>3. CASE \A i \in DOMAIN rows : id[i] # x
      BY <1>1, <1>2, <3>1, <3>3 DEF Rows, There
    <3>. QED
      BY <3>2, <3>3
  <2>. QED
    BY <1>7, <2>4, <2>5 DEF OneOrSettling
<1>. QED
  BY <1>6, <1>7

\* A product with photographs has exactly one primary, unless a deletion of the
\* former primary is still on its way or somebody judged from an outdated read.
THEOREM PrimaryIsOne == PhotosSpec => []OnePrimary
<1>1. PhotosInit => PrimaryInv
  <2>. SUFFICES ASSUME PhotosInit
                PROVE  PrimaryInv
    OBVIOUS
  <2>1. \A p \in Product : Rows(p) = {}
    BY DEF PhotosInit, Rows, There, NoPhoto
  <2>. QED
    BY <2>1 DEF PhotosInit, PrimaryInv, DeletesOwn, OneOrSettling, Primaries
<1>2. PhotosTyped /\ PrimaryInv /\ [PhotosNext]_photosVars => PrimaryInv'
  <2>. SUFFICES ASSUME PhotosTyped, PrimaryInv, [PhotosNext]_photosVars
                PROVE  PrimaryInv'
    OBVIOUS
  <2>1. DeletesOwn'
    BY OwnDeletesStep DEF PrimaryInv
  <2>2. ASSUME NEW p \in Product \ blurred'
        PROVE  OneOrSettling(p)'
    <3>1. blurred \subseteq blurred'
      BY DEF PhotosNext, photosVars, CheckUpload, PutSidecar, PutBytes, StopUpload, InsertPhoto, SetPrimary,
         CountReferences, DeleteRow, UnlinkBytes, UnlinkSidecar, FindNext, Promote, StopDelete,
         ReadPhotos, InsertCopies
    <3>2. DeletesOwn /\ OneOrSettling(p)
      BY <3>1 DEF PrimaryInv
    <3>3. CASE UNCHANGED photosVars
      BY <3>2, <3>3, ReadsKeepGallery DEF photosVars
    <3>4. CASE PhotosNext
      <4>1. ASSUME NEW u \in Uploading,
                   \/ \E q \in Product, k \in Content : CheckUpload(u, q, k)
                   \/ PutSidecar(u) \/ PutBytes(u) \/ StopUpload(u)
            PROVE  OneOrSettling(p)'
        <5>1. UNCHANGED <<photo, delete>>
          BY <4>1 DEF CheckUpload, PutSidecar, PutBytes, StopUpload
        <5>. QED
          BY <3>2, <5>1, ReadsKeepGallery
      <4>2. ASSUME NEW u \in Uploading, NEW i \in PhotoRow, InsertPhoto(u, i)
            PROVE  OneOrSettling(p)'
        BY <3>2, <4>2, InsertGallery
      <4>3. ASSUME NEW q \in Product, NEW i \in PhotoRow, SetPrimary(q, i)
            PROVE  OneOrSettling(p)'
        BY <3>2, <4>3, ChooseGallery
      <4>4. ASSUME NEW d \in Deleting, NEW i \in PhotoRow, CountReferences(d, i)
            PROVE  OneOrSettling(p)'
        BY <3>2, <4>4, CountGallery
      <4>5. ASSUME NEW d \in Deleting, DeleteRow(d)
            PROVE  OneOrSettling(p)'
        BY <3>2, <4>5, DeleteGallery
      <4>6. ASSUME NEW d \in Deleting, UnlinkBytes(d) \/ UnlinkSidecar(d) \/ FindNext(d) \/ StopDelete(d)
            PROVE  OneOrSettling(p)'
        BY <3>2, <4>6, SettleGallery
      <4>7. ASSUME NEW d \in Deleting, Promote(d)
            PROVE  OneOrSettling(p)'
        BY <3>2, <4>7, PromoteGallery
      <4>8. ASSUME NEW c \in Copying, NEW q \in Product, ReadPhotos(c, q)
            PROVE  OneOrSettling(p)'
        BY <3>2, <4>8, ReadsKeepGallery DEF ReadPhotos
      <4>9. ASSUME NEW c \in Copying, NEW q \in Product, InsertCopies(c, q)
            PROVE  OneOrSettling(p)'
        BY <3>2, <4>9, CopyGallery
      <4>. QED
        BY <3>4, <4>1, <4>2, <4>3, <4>4, <4>5, <4>6, <4>7, <4>8, <4>9 DEF PhotosNext
    <3>. QED
      BY <3>3, <3>4
  <2>. QED
    BY <2>1, <2>2 DEF PrimaryInv
<1>3. PrimaryInv => OnePrimary
  <2>. SUFFICES ASSUME PrimaryInv, NEW p \in Product \ blurred, Rows(p) # {}, ~Settling(p)
                PROVE  Cardinality(Primaries(p)) = 1
    BY DEF OnePrimary
  <2>1. OneOrSettling(p)
    BY DEF PrimaryInv
  <2>2. PICK x \in Primaries(p) : Primaries(p) = {x}
    BY <2>1 DEF OneOrSettling
  <2>. QED
    BY <2>2, FS_Singleton
<1>. QED
  BY PhotosTypesInductive, <1>1, <1>2, <1>3, PTL DEF PhotosSpec

(* Objects, when a deletion has its object to itself.                        *)

Removing(d) == delete[d].at \in {"counted", "unlinking", "unlinked"}

\* From counting the references to an object until it is off the disk, nobody
\* uploads it and nobody duplicates a product that shows it.
ObjectAlone ==
    \A d \in Deleting : Removing(d) =>
        /\ \A u \in Uploading : upload[u].at \in InProgress => upload[u].key # delete[d].key
        /\ \A c \in Copying : copying[c].at = "read" =>
              \A i \in DOMAIN copying[c].rows : copying[c].rows[i].key # delete[d].key

\* What a deletion has counted is what there is.
CountStands(d) ==
    Removing(d) =>
        /\ \A i \in RowsFor(delete[d].key) :
              i \in delete[d].others \/ (delete[d].at = "counted" /\ i = delete[d].row)
        /\ delete[d].at = "unlinked" => delete[d].key \notin bytes

CountsStand == ~gambled /\ \A d \in Deleting : CountStands(d)

\* Whoever adds no reference to an object, and does not write it, leaves the
\* counts as they are.
LEMMA OthersKeepCount ==
    ASSUME NEW d \in Deleting, CountStands(d), delete'[d] = delete[d],
           Removing(d) =>
              /\ \A i \in There' : photo'[i].key = delete[d].key => i \in There /\ photo[i].key = delete[d].key
              /\ delete[d].key \in bytes' => delete[d].key \in bytes
    PROVE  CountStands(d)'
BY DEF CountStands, Removing, RowsFor

LEMMA UploadKeepsCounts ==
    ASSUME PhotosTyped, CountsStand, ObjectAlone, NEW u \in Uploading,
           \/ \E p \in Product, c \in Content : CheckUpload(u, p, c)
           \/ PutSidecar(u) \/ PutBytes(u) \/ StopUpload(u)
           \/ \E i \in PhotoRow : InsertPhoto(u, i)
    PROVE  CountsStand'
<1>1. UNCHANGED <<delete, gambled>>
  BY DEF CheckUpload, PutSidecar, PutBytes, StopUpload, InsertPhoto
<1>2. ASSUME NEW d \in Deleting, Removing(d)
      PROVE  /\ \A i \in There' : photo'[i].key = delete[d].key => i \in There /\ photo[i].key = delete[d].key
             /\ delete[d].key \in bytes' => delete[d].key \in bytes
  <2>1. upload[u].at \in InProgress => upload[u].key # delete[d].key
    BY <1>2 DEF ObjectAlone
  <2>2. CASE UNCHANGED <<photo, bytes>>
    BY <2>2 DEF There
  <2>3. CASE PutBytes(u)
    BY <2>1, <2>3 DEF PutBytes, There, InProgress
  <2>4. ASSUME NEW i \in PhotoRow, InsertPhoto(u, i)
        PROVE  /\ \A x \in There' : photo'[x].key = delete[d].key => x \in There /\ photo[x].key = delete[d].key
               /\ bytes' = bytes
    <3>1. /\ photo' = [photo EXCEPT ![i] = NewRow(upload[u].of, upload[u].key, upload[u].first)]
          /\ upload[u].at = "stored" /\ bytes' = bytes
      BY <2>4 DEF InsertPhoto
    <3>2. NewRow(upload[u].of, upload[u].key, upload[u].first).key # delete[d].key
      BY <2>1, <3>1 DEF NewRow, InProgress
    <3>3. photo'[i].key # delete[d].key /\ \A x \in PhotoRow : x # i => photo'[x] = photo[x]
      BY <3>1, <3>2 DEF PhotosTyped
    <3>. QED
      BY <3>1, <3>3 DEF There
  <2>. QED
    BY <2>2, <2>3, <2>4 DEF CheckUpload, PutSidecar, StopUpload
<1>. QED
  BY <1>1, <1>2, OthersKeepCount DEF CountsStand

LEMMA PrimaryKeepsCounts ==
    ASSUME PhotosTyped, CountsStand, NEW p \in Product, NEW i \in PhotoRow, SetPrimary(p, i)
    PROVE  CountsStand'
<1>1. UNCHANGED <<delete, gambled, bytes>>
  BY DEF SetPrimary
<1>2. \A x \in There' : x \in There /\ photo'[x].key = photo[x].key
  BY PrimaryKeepsKeys
<1>. QED
  BY <1>1, <1>2, OthersKeepCount DEF CountsStand

LEMMA CopyKeepsCounts ==
    ASSUME PhotosTyped, CountsStand, ObjectAlone, NEW c \in Copying, NEW p \in Product,
           ReadPhotos(c, p) \/ InsertCopies(c, p)
    PROVE  CountsStand'
<1>1. UNCHANGED <<delete, gambled, bytes>>
  BY DEF ReadPhotos, InsertCopies
<1>2. CASE ReadPhotos(c, p)
  <2>1. UNCHANGED photo
    BY <1>2 DEF ReadPhotos
  <2>. QED
    BY <1>1, <2>1, OthersKeepCount DEF CountsStand, There
<1>3. ASSUME InsertCopies(c, p), NEW d \in Deleting, Removing(d)
      PROVE  \A x \in There' : photo'[x].key = delete[d].key => x \in There /\ photo[x].key = delete[d].key
  <2>. DEFINE rows == copying[c].rows
  <2>1. PICK id \in [DOMAIN rows -> Free] :
              /\ \A i \in DOMAIN rows : photo'[id[i]] = NewRow(p, rows[i].key, rows[i].primary)
              /\ \A x \in PhotoRow : (\A i \in DOMAIN rows : id[i] # x) => photo'[x] = photo[x]
    BY <1>3, CopiedRows
  <2>2. \A i \in DOMAIN rows : rows[i].key # delete[d].key
    BY <1>3 DEF InsertCopies, ObjectAlone
  <2>. HIDE DEF rows
  <2>3. \A i \in DOMAIN rows : photo'[id[i]].key # delete[d].key
    <3>1. ASSUME NEW i \in DOMAIN rows
          PROVE  NewRow(p, rows[i].key, rows[i].primary).key = rows[i].key
      BY DEF NewRow
    <3>. QED
      BY <2>1, <2>2, <3>1
  <2>. QED
    BY <2>1, <2>3 DEF There
<1>. QED
  BY <1>1, <1>2, <1>3, OthersKeepCount DEF CountsStand

\* What a deletion carries from its count to the disk.
LEMMA RemovingFields ==
    ASSUME PhotosTyped, NEW d \in Deleting, Removing(d), NEW a,
           delete' = [delete EXCEPT ![d].at = a]
    PROVE  /\ delete'[d].at = a /\ delete'[d].key = delete[d].key
           /\ delete'[d].others = delete[d].others
<1>1. delete[d] \in DeleteLocal /\ delete[d].at # "new" /\ delete \in [Deleting -> DeleteLocal]
  BY DEF PhotosTyped, Removing
<1>2. delete[d] \in [at : DeleteStage, row : PhotoRow, of : Product, key : Key, primary : BOOLEAN,
                     others : SUBSET PhotoRow]
  BY <1>1 DEF DeleteLocal
<1>3. delete'[d] = [delete[d] EXCEPT !.at = a]
  BY <1>1
<1>. QED
  BY <1>2, <1>3

LEMMA DeletionKeepsCounts ==
    ASSUME PhotosTyped, CountsStand, ObjectAlone, NEW d \in Deleting,
           \/ \E i \in PhotoRow : CountReferences(d, i)
           \/ DeleteRow(d) \/ UnlinkBytes(d) \/ UnlinkSidecar(d)
           \/ FindNext(d) \/ Promote(d) \/ StopDelete(d)
    PROVE  CountsStand'
<1>0. delete \in [Deleting -> DeleteLocal] /\ photo \in [PhotoRow -> {NoPhoto, GonePhoto} \cup PhotoRecord]
  BY DEF PhotosTyped
<1>1. ASSUME \A x \in There' : x \in There /\ photo'[x].key = photo[x].key, bytes' \subseteq bytes,
             \A e \in Deleting : e # d => delete'[e] = delete[e],
             ~gambled', CountStands(d)'
      PROVE  CountsStand'
  <2>1. ASSUME NEW e \in Deleting, e # d PROVE CountStands(e)'
    BY <1>1, <2>1, OthersKeepCount DEF CountsStand
  <2>. QED
    BY <1>1, <2>1 DEF CountsStand
<1>2. ASSUME NEW i \in PhotoRow, CountReferences(d, i)
      PROVE  CountsStand'
  <2>1. /\ UNCHANGED <<photo, bytes, gambled>> /\ \A e \in Deleting : e # d => delete'[e] = delete[e]
        /\ delete'[d] = [at |-> "counted", row |-> i, of |-> photo[i].of, key |-> photo[i].key,
                         primary |-> photo[i].primary, others |-> RowsFor(photo[i].key) \ {i}]
    BY <1>0, <1>2 DEF CountReferences
  <2>2. delete'[d].at = "counted" /\ delete'[d].row = i /\ delete'[d].key = photo[i].key
        /\ delete'[d].others = RowsFor(photo[i].key) \ {i}
    BY <2>1
  <2>3. CountStands(d)'
    BY <2>1, <2>2 DEF CountStands, RowsFor, There
  <2>. QED
    BY <1>1, <2>1, <2>3 DEF CountsStand, There
<1>3. CASE DeleteRow(d)
  <2>1. /\ UNCHANGED <<bytes, gambled>> /\ delete[d].at = "counted"
        /\ photo' = [photo EXCEPT ![delete[d].row] = GonePhoto]
        /\ delete' = [delete EXCEPT ![d].at = IF LastReference(d) THEN "unlinking" ELSE ThenPromote(d)]
    BY <1>3 DEF DeleteRow
  <2>2. /\ delete'[d].at # "counted" /\ delete'[d].at # "unlinked"
        /\ delete'[d].key = delete[d].key /\ delete'[d].others = delete[d].others
    <3>. DEFINE a == IF LastReference(d) THEN "unlinking" ELSE ThenPromote(d)
    <3>1. a # "counted" /\ a # "unlinked"
      BY DEF ThenPromote
    <3>. HIDE DEF a
    <3>2. Removing(d) /\ delete' = [delete EXCEPT ![d].at = a]
      BY <2>1 DEF Removing, a
    <3>3. delete'[d].at = a /\ delete'[d].key = delete[d].key /\ delete'[d].others = delete[d].others
      BY <3>2, RemovingFields
    <3>. QED
      BY <3>1, <3>3
  <2>3. \A x \in There' : x \in There /\ photo'[x] = photo[x] /\ x # delete[d].row
    BY <1>0, <2>1 DEF There, GonePhoto
  <2>4. CountStands(d)
    BY DEF CountsStand
  <2>5. CountStands(d)'
    BY <2>1, <2>2, <2>3, <2>4 DEF CountStands, Removing, RowsFor
  <2>. QED
    BY <1>0, <1>1, <2>1, <2>3, <2>5 DEF CountsStand
<1>4. ASSUME UnlinkBytes(d) \/ UnlinkSidecar(d)
      PROVE  ~UsesAnew(d)
  <2>1. Removing(d) /\ delete[d].at # "counted"
    BY <1>4 DEF UnlinkBytes, UnlinkSidecar, Removing
  <2>2. RowsFor(delete[d].key) \ delete[d].others = {}
    BY <2>1 DEF CountsStand, CountStands
  <2>. QED
    BY <2>1, <2>2 DEF UsesAnew, ObjectAlone, InProgress
<1>5. CASE UnlinkBytes(d)
  <2>1. /\ bytes' = bytes \ {delete[d].key} /\ photo' = photo /\ delete[d].at = "unlinking"
        /\ gambled' = (gambled \/ UsesAnew(d)) /\ delete' = [delete EXCEPT ![d].at = "unlinked"]
    BY <1>5 DEF UnlinkBytes
  <2>2. /\ delete'[d].at = "unlinked" /\ delete'[d].key = delete[d].key /\ delete'[d].others = delete[d].others
    BY <2>1, RemovingFields DEF Removing
  <2>3. ~gambled'
    BY <1>4, <1>5, <2>1 DEF CountsStand
  <2>4. CountStands(d)
    BY DEF CountsStand
  <2>5. CountStands(d)'
    BY <2>1, <2>2, <2>4 DEF CountStands, Removing, RowsFor, There
  <2>. QED
    BY <1>0, <1>1, <2>1, <2>3, <2>5 DEF There
<1>6. CASE UnlinkSidecar(d)
  <2>1. /\ UNCHANGED <<photo, bytes>> /\ delete[d].at = "unlinked"
        /\ gambled' = (gambled \/ UsesAnew(d) \/ delete[d].key \in bytes)
        /\ delete' = [delete EXCEPT ![d].at = ThenPromote(d)]
    BY <1>6 DEF UnlinkSidecar
  <2>2. delete'[d].at \in {"promoting", "over"}
    BY <2>1, RemovingFields DEF Removing, ThenPromote
  <2>3. delete[d].key \notin bytes
    BY <2>1 DEF CountsStand, CountStands, Removing
  <2>4. ~gambled'
    BY <1>4, <1>6, <2>1, <2>3 DEF CountsStand
  <2>5. CountStands(d)'
    BY <2>2 DEF CountStands, Removing
  <2>. QED
    BY <1>0, <1>1, <2>1, <2>4, <2>5 DEF There
<1>7. CASE FindNext(d) \/ Promote(d) \/ StopDelete(d)
  <2>1. UNCHANGED <<bytes, gambled>>
    BY <1>7 DEF FindNext, Promote, StopDelete
  <2>2. \A x \in There' : x \in There /\ photo'[x].key = photo[x].key
    BY <1>7, PromoteKeepsKeys DEF FindNext, StopDelete, There
  <2>3. \A e \in Deleting : e # d => delete'[e] = delete[e]
    BY <1>7, DeleteMoves
  <2>4. delete'[d].at \in {"over", "found"}
    <3>1. delete[d] \in [at : DeleteStage, row : PhotoRow, of : Product, key : Key, primary : BOOLEAN,
                         others : SUBSET PhotoRow]
      BY <1>0, <1>7 DEF DeleteLocal, FindNext, Promote, StopDelete
    <3>2. CASE FindNext(d)
      BY <1>0, <3>1, <3>2 DEF FindNext
    <3>3. CASE Promote(d) \/ StopDelete(d)
      BY <1>0, <3>1, <3>3 DEF Promote, StopDelete
    <3>. QED
      BY <1>7, <3>2, <3>3
  <2>5. CountStands(d)'
    BY <2>4 DEF CountStands, Removing
  <2>. QED
    BY <1>1, <2>1, <2>2, <2>3, <2>5 DEF CountsStand
<1>. QED
  BY <1>2, <1>3, <1>5, <1>6, <1>7

\* If nobody begins to use an object while a deletion is at it, no photograph is
\* ever broken or untyped: who died half way, and what duplicates share, does no
\* harm of its own (product-detail.tsx, filesystem.ts).
THEOREM LoneDeletionsServed ==
    PhotosSpec /\ []ObjectAlone =>
        []((\A i \in There : photo[i].key \in bytes) /\ bytes \subseteq sidecar)
<1>1. PhotosInit => CountsStand
  BY DEF PhotosInit, CountsStand, CountStands, Removing
<1>2. PhotosTyped /\ CountsStand /\ ObjectAlone /\ [PhotosNext]_photosVars => CountsStand'
  <2>. SUFFICES ASSUME PhotosTyped, CountsStand, ObjectAlone, [PhotosNext]_photosVars
                PROVE  CountsStand'
    OBVIOUS
  <2>1. CASE UNCHANGED photosVars
    BY <2>1 DEF photosVars, CountsStand, CountStands, Removing, RowsFor, There
  <2>. QED
    BY <2>1, UploadKeepsCounts, PrimaryKeepsCounts, DeletionKeepsCounts, CopyKeepsCounts DEF PhotosNext
<1>3. CountsStand /\ PhotosServed => (\A i \in There : photo[i].key \in bytes) /\ bytes \subseteq sidecar
  BY DEF CountsStand, PhotosServed
<1>. QED
  BY PhotosTypesInductive, PhotosStayServed, <1>1, <1>2, <1>3, PTL DEF PhotosSpec

--------------------------------------------------------------------------------
(* Prices: the history a price rests on.                                     *)

PriceOrNone == Amount \cup {NoPrice}
PricingLocal == [at : {"new", "over"}] \cup [at : {"read"}, of : Sku, was : PriceOrNone, to : Amount]
PlanRow == [row : FileRow, outcome : {"create", "update", "unchanged", "error"}]
ImportStage == {"row", "read", "over"}
ImportLocal ==
    [at : {"none"}]
      \cup [at : ImportStage, plan : Seq(PlanRow), left : SUBSET Nat, done : SUBSET Nat, was : PriceOrNone]

PricesTyped ==
    /\ listed \subseteq Sku /\ shelved \subseteq listed
    /\ price \in [Sku -> PriceOrNone]
    /\ history \in [Sku -> Seq(PriceRow)]
    /\ pricing \in [Pricing -> PricingLocal]
    /\ import \in ImportLocal
    /\ copies \subseteq listed /\ overtaken \subseteq Sku

\* The rows of the history after a change: the former ones are closed.
LEMMA RowAdded ==
    ASSUME NEW rows \in Seq(PriceRow), NEW was \in PriceOrNone, NEW to \in Amount
    PROVE  /\ WithRow(rows, was, to) \in Seq(PriceRow)
           /\ Len(WithRow(rows, was, to)) = Len(rows) + 1
           /\ WithRow(rows, was, to)[Len(rows) + 1] = [old |-> was, new |-> to, open |-> TRUE]
           /\ \A i \in 1..Len(rows) : /\ WithRow(rows, was, to)[i].old = rows[i].old
                                      /\ WithRow(rows, was, to)[i].new = rows[i].new
                                      /\ WithRow(rows, was, to)[i].open = FALSE
<1>. DEFINE n == Len(rows)
            closed == [i \in DOMAIN rows |-> [rows[i] EXCEPT !.open = FALSE]]
            last == [old |-> was, new |-> to, open |-> TRUE]
<1>1. n \in Nat /\ DOMAIN rows = 1..n /\ \A i \in 1..n : rows[i] \in PriceRow
  BY LenProperties, ElementOfSeq
<1>2. \A i \in 1..n : [rows[i] EXCEPT !.open = FALSE] \in PriceRow
  BY <1>1 DEF PriceRow
<1>3. \A i \in 1..n : closed[i].old = rows[i].old /\ closed[i].new = rows[i].new /\ closed[i].open = FALSE
  BY <1>1 DEF PriceRow
<1>4. closed \in [1..n -> PriceRow]
  BY <1>1, <1>2
<1>5. last \in PriceRow
  BY DEF PriceRow, PriceOrNone
<1>. HIDE DEF closed, last, n
<1>6. closed \in Seq(PriceRow) /\ Len(closed) = n
  BY <1>1, <1>4
<1>7. WithRow(rows, was, to) = Append(closed, last)
  BY DEF WithRow, closed, last
<1>8. /\ Append(closed, last) \in Seq(PriceRow) /\ Len(Append(closed, last)) = n + 1
      /\ Append(closed, last)[n + 1] = last
      /\ \A i \in 1..n : Append(closed, last)[i] = closed[i]
  BY <1>1, <1>5, <1>6
<1>. QED
  BY <1>3, <1>7, <1>8 DEF n, last

LEMMA OpeningTyped ==
    ASSUME NEW a \in PriceOrNone
    PROVE  /\ Opening(a) \in Seq(PriceRow)
           /\ a = NoPrice => Opening(a) = <<>>
           /\ a # NoPrice => /\ Len(Opening(a)) = 1 /\ Opening(a) # <<>>
                             /\ Opening(a)[1].new = a /\ Opening(a)[1].open
<1>1. a # NoPrice => [old |-> NoPrice, new |-> a, open |-> TRUE] \in PriceRow
  BY DEF PriceRow, PriceOrNone
<1>. QED
  BY <1>1 DEF Opening

LEMMA ImportKinds ==
    ASSUME NEW j \in ImportLocal, j.at # "none"
    PROVE  j \in [at : ImportStage, plan : Seq(PlanRow), left : SUBSET Nat, done : SUBSET Nat, was : PriceOrNone]
BY DEF ImportLocal

LEMMA PlanTyped ==
    ASSUME PricesTyped, NEW rows \in File
    PROVE  /\ Planned(rows) \in Seq(PlanRow) /\ DOMAIN Planned(rows) \subseteq Nat
           /\ rows \in Seq(FileRow)
           /\ DOMAIN rows = 1..Len(rows) /\ Len(rows) \in Nat /\ DOMAIN Planned(rows) = DOMAIN rows
<1>1. rows \in Seq(FileRow)
  BY PricesAssumption
<1>2. Len(rows) \in Nat /\ DOMAIN rows = 1..Len(rows) /\ \A i \in 1..Len(rows) : rows[i] \in FileRow
  BY <1>1, LenProperties, ElementOfSeq
<1>3. \A i \in 1..Len(rows) : Outcome(rows, i) \in {"create", "update", "unchanged", "error"}
  BY DEF Outcome
<1>4. \A i \in 1..Len(rows) : [row |-> rows[i], outcome |-> Outcome(rows, i)] \in PlanRow
  BY <1>2, <1>3 DEF PlanRow
<1>5. Planned(rows) \in [1..Len(rows) -> PlanRow]
  BY <1>2, <1>4 DEF Planned
<1>6. Planned(rows) \in Seq(PlanRow) /\ DOMAIN Planned(rows) = 1..Len(rows)
  BY <1>2, <1>5
<1>. QED
  BY <1>1, <1>2, <1>6

\* The row whose turn it is.
LEMMA TurnIsLeft ==
    ASSUME NEW j, j \in ImportLocal, j = import, import.at # "none", import.left # {}
    PROVE  Turn \in import.left /\ Turn \in Nat
<1>1. import.left \subseteq Nat
  BY ImportKinds
<1>2. \E i \in import.left : \A k \in import.left : i <= k
  BY <1>1, HasLeast
<1>. QED
  BY <1>1, <1>2 DEF Turn

\* A change of a price.
LEMMA ChangeTypes ==
    ASSUME PricesTyped, NEW v \in Sku, NEW was \in PriceOrNone, NEW to \in Amount, ChangePrice(v, was, to)
    PROVE  /\ price' \in [Sku -> PriceOrNone] /\ history' \in [Sku -> Seq(PriceRow)] /\ overtaken' \subseteq Sku
           /\ \A w \in Sku : w # v => price'[w] = price[w] /\ history'[w] = history[w]
           /\ price'[v] = to /\ history'[v] = WithRow(history[v], was, to)
           /\ overtaken \subseteq overtaken' /\ (price[v] = was \/ v \in overtaken')
BY RowAdded DEF PricesTyped, ChangePrice, PriceOrNone

LEMMA AddTypes ==
    ASSUME PricesTyped, NEW v \in Sku, NEW a \in PriceOrNone, AddSku(v, a)
    PROVE  /\ listed' \subseteq Sku /\ shelved' \subseteq listed' /\ listed \subseteq listed'
           /\ price' \in [Sku -> PriceOrNone] /\ history' \in [Sku -> Seq(PriceRow)]
           /\ copies' \subseteq listed' /\ overtaken' \subseteq Sku /\ pricing' = pricing
           /\ \A w \in Sku : w # v => price'[w] = price[w] /\ history'[w] = history[w]
           /\ price'[v] = a /\ history'[v] = Opening(a) /\ v \in listed'
           /\ overtaken' = overtaken /\ copies' = copies
BY OpeningTyped DEF PricesTyped, AddSku

\* What the import may hold next.
LEMMA ImportMoves ==
    ASSUME PricesTyped, import.at \in {"row", "read"}, import.left # {}
    PROVE  /\ Turn \in import.left /\ Turn \in Nat
           /\ import \in [at : ImportStage, plan : Seq(PlanRow), left : SUBSET Nat, done : SUBSET Nat, was : PriceOrNone]
           /\ RowDone => /\ import' \in ImportLocal /\ import'.at \in {"row", "over"} /\ import'.plan = import.plan
                         /\ import'.left = import.left \ {Turn} /\ import'.done = import.done \cup {Turn}
                         /\ import'.at = "row" => import'.left # {}
           /\ \A a \in {"read", "over"}, was \in PriceOrNone :
                 [import EXCEPT !.at = a, !.was = was] \in ImportLocal
           /\ [import EXCEPT !.at = "over"] \in ImportLocal
<1>1. import \in [at : ImportStage, plan : Seq(PlanRow), left : SUBSET Nat, done : SUBSET Nat, was : PriceOrNone]
  BY ImportKinds DEF PricesTyped
<1>2. Turn \in import.left /\ Turn \in Nat
  BY <1>1, TurnIsLeft DEF PricesTyped
<1>3. ASSUME RowDone
      PROVE  /\ import' \in ImportLocal /\ import'.at \in {"row", "over"} /\ import'.plan = import.plan
             /\ import'.left = import.left \ {Turn} /\ import'.done = import.done \cup {Turn}
             /\ import'.at = "row" => import'.left # {}
  <2>. DEFINE a == IF import.left = {Turn} THEN "over" ELSE "row"
              t == Turn
  <2>1. /\ import' = [at |-> a, plan |-> import.plan, left |-> import.left \ {t},
                      done |-> import.done \cup {t}, was |-> NoPrice]
        /\ a \in {"row", "over"} /\ (a = "row" => import.left \ {t} # {})
    BY <1>2, <1>3 DEF RowDone
  <2>. HIDE DEF a, t
  <2>2. import' \in [at : ImportStage, plan : Seq(PlanRow), left : SUBSET Nat, done : SUBSET Nat, was : PriceOrNone]
    <3>1. import.left \ {t} \in SUBSET Nat /\ import.done \cup {t} \in SUBSET Nat
      BY <1>1, <1>2 DEF t
    <3>. QED
      BY <1>1, <2>1, <3>1 DEF ImportStage, PriceOrNone
  <2>. QED
    BY <2>1, <2>2 DEF ImportLocal, t
<1>4. /\ \A a \in {"read", "over"}, was \in PriceOrNone :
           [import EXCEPT !.at = a, !.was = was] \in
             [at : ImportStage, plan : Seq(PlanRow), left : SUBSET Nat, done : SUBSET Nat, was : PriceOrNone]
      /\ [import EXCEPT !.at = "over"] \in
             [at : ImportStage, plan : Seq(PlanRow), left : SUBSET Nat, done : SUBSET Nat, was : PriceOrNone]
  BY <1>1 DEF ImportStage
<1>. QED
  BY <1>1, <1>2, <1>3, <1>4 DEF ImportLocal

(* The evidence.                                                             *)

\* A file is a part of its plan: what is left and what is done are the first
\* rows of their SKU, and a row that changes a price is about a SKU that exists.
PlanFollowed ==
    import.at # "none" =>
        /\ import.at \in {"row", "read"} => import.left # {}
        /\ import.left \cup import.done \subseteq DOMAIN import.plan
        /\ \A i, k \in import.left \cup import.done :
              import.plan[i].row.sku = import.plan[k].row.sku => i = k
        /\ \A i \in import.left :
              /\ import.plan[i].row \in FileRow
              /\ import.plan[i].outcome = "update" => import.plan[i].row.sku \in listed
        /\ import.at = "read" => RowIs("update")

\* Whoever changes a price has a SKU that exists.
PricesTheListed ==
    /\ \A e \in Pricing : pricing[e].at = "read" => pricing[e].of \in listed
    /\ \A v \in Sku \ listed : price[v] = NoPrice /\ history[v] = <<>>

Evidenced(v) ==
    /\ price[v] # NoPrice => Len(history[v]) # 0 \/ v \in copies
    /\ Len(history[v]) # 0 => /\ history[v][Len(history[v])].open
                              /\ history[v][Len(history[v])].new = price[v]
    /\ \A i \in 1..(Len(history[v]) - 1) :
          /\ ~history[v][i].open
          /\ v \in overtaken \/ history[v][i + 1].old = history[v][i].new

PricesInv ==
    PricesTyped /\ PlanFollowed /\ PricesTheListed /\ \A v \in Sku : Evidenced(v)

LEMMA ChangeEvidenced ==
    ASSUME PricesTyped, NEW v \in Sku, NEW was \in PriceOrNone, NEW to \in Amount, ChangePrice(v, was, to),
           copies' = copies, NEW w \in Sku, Evidenced(w)
    PROVE  Evidenced(w)'
<1>1. /\ \A x \in Sku : x # v => price'[x] = price[x] /\ history'[x] = history[x]
      /\ price'[v] = to /\ history'[v] = WithRow(history[v], was, to)
      /\ overtaken \subseteq overtaken' /\ (price[v] = was \/ v \in overtaken')
  BY ChangeTypes
<1>2. CASE w # v
  BY <1>1, <1>2 DEF Evidenced
<1>3. CASE w = v
  <2>. DEFINE rows == history[v]
              n == Len(rows)
              after == history'[v]
  <2>1. rows \in Seq(PriceRow) /\ n \in Nat /\ \A i \in 1..n : rows[i] \in PriceRow
    BY LenProperties, ElementOfSeq DEF PricesTyped
  <2>2. /\ Len(after) = n + 1 /\ after[n + 1] = [old |-> was, new |-> to, open |-> TRUE]
        /\ \A i \in 1..n : after[i].old = rows[i].old /\ after[i].new = rows[i].new /\ after[i].open = FALSE
    <3>1. after = WithRow(rows, was, to)
      BY <1>1
    <3>. HIDE DEF after, rows
    <3>. QED
      BY <2>1, <3>1, RowAdded
  <2>3. /\ n # 0 => rows[n].new = price[v]
        /\ \A i \in 1..(n - 1) : v \in overtaken \/ rows[i + 1].old = rows[i].new
    BY <1>3 DEF Evidenced
  <2>. HIDE DEF rows, n, after
  <2>4. after[n + 1].old = was /\ after[n + 1].new = to /\ after[n + 1].open
    BY <2>2
  <2>5. ASSUME NEW i \in 1..n
        PROVE  ~after[i].open /\ (v \in overtaken' \/ after[i + 1].old = after[i].new)
    <3>1. CASE i = n
      BY <1>1, <2>1, <2>2, <2>3, <2>4, <3>1
    <3>2. CASE i # n
      <4>1. i \in 1..(n - 1) /\ i + 1 \in 1..n
        BY <2>1, <3>2
      <4>. QED
        BY <1>1, <2>2, <2>3, <4>1
    <3>. QED
      BY <3>1, <3>2
  <2>6. Len(after) # 0 /\ 1..(Len(after) - 1) = 1..n
    BY <2>1, <2>2
  <2>7. price'[v] = after[Len(after)].new /\ after[Len(after)].open
    BY <1>1, <2>2, <2>4
  <2>. QED
    BY <1>3, <2>5, <2>6, <2>7 DEF Evidenced, after
<1>. QED
  BY <1>2, <1>3

LEMMA AddEvidenced ==
    ASSUME PricesTyped, NEW v \in Sku, NEW a \in PriceOrNone, AddSku(v, a), NEW w \in Sku, Evidenced(w)
    PROVE  Evidenced(w)'
<1>1. /\ \A x \in Sku : x # v => price'[x] = price[x] /\ history'[x] = history[x]
      /\ price'[v] = a /\ history'[v] = Opening(a)
      /\ overtaken' = overtaken /\ copies' = copies
  BY AddTypes
<1>2. CASE w # v
  BY <1>1, <1>2 DEF Evidenced
<1>3. CASE w = v
  <2>1. CASE a = NoPrice
    BY <1>1, <1>3, <2>1, OpeningTyped DEF Evidenced
  <2>2. CASE a # NoPrice
    BY <1>1, <1>3, <2>2, OpeningTyped DEF Evidenced
  <2>. QED
    BY <2>1, <2>2
<1>. QED
  BY <1>2, <1>3

\* Steps that leave prices and histories as they are.
LEMMA KeepsEvidence ==
    ASSUME NEW w \in Sku, Evidenced(w), price'[w] = price[w], history'[w] = history[w],
           copies \subseteq copies', overtaken' = overtaken
    PROVE  Evidenced(w)'
BY DEF Evidenced

LEMMA KeepsPlan ==
    ASSUME PlanFollowed, import' = import, listed \subseteq listed'
    PROVE  PlanFollowed'
BY DEF PlanFollowed, RowIs, Turn

\* The plan of a file.
LEMMA PlanFirst ==
    ASSUME PricesTyped, NEW rows \in File, ApplyImport(rows)
    PROVE  import' \in ImportLocal /\ PlanFollowed'
<1>. DEFINE plan == Planned(rows)
            todo == {i \in DOMAIN plan : plan[i].outcome \in {"create", "update"}}
<1>1. /\ plan \in Seq(PlanRow) /\ DOMAIN plan \subseteq Nat /\ DOMAIN plan = 1..Len(rows) /\ DOMAIN rows = 1..Len(rows)
      /\ Len(rows) \in Nat /\ rows \in Seq(FileRow) /\ \A i \in 1..Len(rows) : rows[i] \in FileRow
  BY PlanTyped, ElementOfSeq
<1>2. \A i \in DOMAIN plan : plan[i].row = rows[i] /\ plan[i].outcome = Outcome(rows, i)
  BY DEF Planned
<1>3. \A i \in todo : FirstOfItsSku(rows, i)
  BY <1>1, <1>2 DEF Outcome
<1>4. \A i \in todo : plan[i].outcome = "update" => rows[i].sku \in listed
  BY <1>1, <1>2 DEF Outcome, InSnapshot
<1>5. import' = [at |-> "row", plan |-> plan, left |-> todo, done |-> {}, was |-> NoPrice] /\ todo # {}
  BY DEF ApplyImport
<1>6. todo \in SUBSET Nat /\ todo \subseteq DOMAIN plan
  BY <1>1
<1>7. listed' = listed
  BY DEF ApplyImport
<1>8. ASSUME NEW i \in todo, NEW k \in todo, rows[i].sku = rows[k].sku
      PROVE  i = k
  <2>1. i \in 1..Len(rows) /\ k \in 1..Len(rows)
    BY <1>1, <1>6
  <2>2. ~(i < k) /\ ~(k < i)
    <3>1. FirstOfItsSku(rows, i) /\ FirstOfItsSku(rows, k)
      BY <1>3
    <3>2. (i < k => i \in 1..(k - 1)) /\ (k < i => k \in 1..(i - 1))
      BY <2>1
    <3>. QED
      BY <1>8, <3>1, <3>2 DEF FirstOfItsSku
  <2>3. i \in Nat /\ k \in Nat
    BY <1>6
  <2>. QED
    BY <2>2, <2>3
<1>. HIDE DEF plan, todo
<1>9. import' \in ImportLocal
  BY <1>1, <1>5, <1>6 DEF ImportLocal, ImportStage, PriceOrNone
<1>10. import'.left = todo /\ import'.done = {} /\ import'.plan = plan /\ import'.at = "row"
  BY <1>5
<1>11. \A i \in todo : plan[i].row = rows[i] /\ rows[i] \in FileRow
  BY <1>1, <1>2, <1>6
<1>. QED
  BY <1>4, <1>5, <1>6, <1>7, <1>8, <1>9, <1>10, <1>11 DEF PlanFollowed

\* A row of the file is taken.
LEMMA RowTaken ==
    ASSUME PricesTyped, PlanFollowed, import.at \in {"row", "read"}, RowDone, listed \subseteq listed'
    PROVE  PlanFollowed'
<1>1. /\ Turn \in import.left
      /\ import'.at \in {"row", "over"} /\ import'.plan = import.plan
      /\ import'.left = import.left \ {Turn} /\ import'.done = import.done \cup {Turn}
      /\ import'.at = "row" => import'.left # {}
  BY ImportMoves DEF PlanFollowed
<1>2. import'.left \cup import'.done \subseteq import.left \cup import.done /\ import'.left \subseteq import.left
  BY <1>1
<1>3. import'.at # "read" /\ (import'.at \in {"row", "read"} => import'.left # {})
  BY <1>1
<1>. QED
  BY <1>1, <1>2, <1>3 DEF PlanFollowed

LEMMA RowRead ==
    ASSUME PricesTyped, PlanFollowed, import.at \in {"row", "read"}, listed' = listed,
           \/ import' = [import EXCEPT !.at = "over"]
           \/ RowIs("update") /\ \E was \in PriceOrNone : import' = [import EXCEPT !.at = "read", !.was = was]
    PROVE  import' \in ImportLocal /\ PlanFollowed'
<1>1. import \in [at : ImportStage, plan : Seq(PlanRow), left : SUBSET Nat, done : SUBSET Nat, was : PriceOrNone]
  BY ImportKinds DEF PricesTyped
<1>2. import' \in ImportLocal
  <2>1. import.left # {}
    BY DEF PlanFollowed
  <2>2. /\ \A a \in {"read", "over"}, was \in PriceOrNone : [import EXCEPT !.at = a, !.was = was] \in ImportLocal
        /\ [import EXCEPT !.at = "over"] \in ImportLocal
    BY <2>1, ImportMoves
  <2>. QED
    BY <2>2
<1>3. import'.plan = import.plan /\ import'.left = import.left /\ import'.done = import.done
  BY <1>1
<1>4. import'.at = "over" \/ (import'.at = "read" /\ RowIs("update"))
  BY <1>1
<1>5. RowIs("update") => RowIs("update")'
  BY <1>3 DEF RowIs, Turn
<1>. QED
  BY <1>2, <1>3, <1>4, <1>5 DEF PlanFollowed

LEMMA CatalogueKeepsEvidence ==
    ASSUME PricesInv, NEW v \in Sku,
           \/ \E a \in PriceOrNone : CreateSku(v, a)
           \/ \E w \in Sku : DuplicateSku(v, w)
           \/ ShelveSku(v)
    PROVE  PricesInv'
<1>. USE DEF PricesInv
<1>1. CASE \E a \in PriceOrNone : CreateSku(v, a)
  <2>1. PICK a \in PriceOrNone : AddSku(v, a) /\ import' = import
    BY <1>1 DEF CreateSku
  <2>2. /\ listed' = listed \cup {v}
        /\ \A x \in Sku : x # v => price'[x] = price[x] /\ history'[x] = history[x]
        /\ pricing' = pricing
    BY <2>1, AddTypes DEF AddSku
  <2>3. PricesTyped'
    BY <2>1, AddTypes DEF PricesTyped
  <2>4. PricesTheListed'
    BY <2>2 DEF PricesTheListed
  <2>5. PlanFollowed'
    BY <2>1, <2>2, KeepsPlan
  <2>. QED
    BY <2>1, <2>3, <2>4, <2>5, AddEvidenced
<1>2. CASE \E w \in Sku : DuplicateSku(v, w)
  <2>1. PICK w \in Sku : DuplicateSku(v, w)
    BY <1>2
  <2>2. /\ v \in listed /\ w \notin listed /\ listed' = listed \cup {w} /\ copies' = copies \cup {w}
        /\ price' = [price EXCEPT ![w] = price[v]]
        /\ UNCHANGED <<shelved, history, pricing, import, overtaken>>
    BY <2>1 DEF DuplicateSku
  <2>3. PricesTyped'
    BY <2>2 DEF PricesTyped
  <2>4. PricesTheListed'
    BY <2>2 DEF PricesTheListed, PricesTyped
  <2>5. PlanFollowed'
    BY <2>2, KeepsPlan
  <2>6. ASSUME NEW x \in Sku
        PROVE  Evidenced(x)'
    <3>1. CASE x # w
      BY <2>2, <3>1, KeepsEvidence DEF PricesTyped
    <3>2. CASE x = w
      <4>1. history'[w] = <<>> /\ w \in copies'
        BY <2>2 DEF PricesTheListed
      <4>2. Len(history'[w]) = 0 /\ ~(1 <= 0 - 1)
        BY <4>1
      <4>. QED
        BY <3>2, <4>1, <4>2 DEF Evidenced
    <3>. QED
      BY <3>1, <3>2
  <2>. QED
    BY <2>3, <2>4, <2>5, <2>6
<1>3. CASE ShelveSku(v)
  <2>1. UNCHANGED <<listed, price, history, pricing, import, copies, overtaken>> /\ shelved' = shelved \cup {v} /\ v \in listed
    BY <1>3 DEF ShelveSku
  <2>2. PricesTyped' /\ PricesTheListed'
    BY <2>1 DEF PricesTyped, PricesTheListed
  <2>. QED
    BY <2>1, <2>2, KeepsPlan, KeepsEvidence
<1>. QED
  BY <1>1, <1>2, <1>3

LEMMA PricingKeepsEvidence ==
    ASSUME PricesInv, NEW e \in Pricing,
           \/ \E v \in Sku, from \in {"page", "list"}, a \in Amount : ReadPrice(e, v, from, a)
           \/ CommitPrice(e)
           \/ RollBackPrice(e)
    PROVE  PricesInv'
<1>. USE DEF PricesInv
<1>0. [at |-> "over"] \in PricingLocal
  BY DEF PricingLocal
<1>1. ASSUME NEW v \in Sku, NEW from \in {"page", "list"}, NEW a \in Amount, ReadPrice(e, v, from, a)
      PROVE  PricesInv'
  <2>1. /\ UNCHANGED <<listed, shelved, price, history, import, copies, overtaken>> /\ v \in listed
        /\ pricing' = [pricing EXCEPT ![e] = [at |-> "read", of |-> v, was |-> price[v], to |-> a]]
    BY <1>1 DEF ReadPrice
  <2>2. [at |-> "read", of |-> v, was |-> price[v], to |-> a] \in PricingLocal
    BY DEF PricingLocal, PricesTyped
  <2>3. PricesTyped'
    BY <2>1, <2>2 DEF PricesTyped
  <2>4. PricesTheListed'
    BY <2>1 DEF PricesTheListed, PricesTyped
  <2>. QED
    BY <2>1, <2>3, <2>4, KeepsPlan, KeepsEvidence
<1>2. CASE CommitPrice(e)
  <2>. DEFINE j == pricing[e]
  <2>1. /\ UNCHANGED <<listed, shelved, import, copies>> /\ j.at = "read"
        /\ ChangePrice(j.of, j.was, j.to) /\ pricing' = [pricing EXCEPT ![e] = [at |-> "over"]]
        /\ j \in PricingLocal
    BY <1>2 DEF CommitPrice, PricesTyped
  <2>2. j.of \in Sku /\ j.was \in PriceOrNone /\ j.to \in Amount /\ j.of \in listed
    BY <2>1 DEF PricingLocal, PricesTheListed
  <2>. HIDE DEF j
  <2>3. /\ price' \in [Sku -> PriceOrNone] /\ history' \in [Sku -> Seq(PriceRow)] /\ overtaken' \subseteq Sku
        /\ \A w \in Sku : w # j.of => price'[w] = price[w] /\ history'[w] = history[w]
    BY <2>1, <2>2, ChangeTypes
  <2>4. PricesTyped'
    BY <1>0, <2>1, <2>3 DEF PricesTyped
  <2>5. PricesTheListed'
    BY <2>1, <2>2, <2>3 DEF PricesTheListed, PricesTyped
  <2>6. \A w \in Sku : Evidenced(w)'
    BY <2>1, <2>2, ChangeEvidenced
  <2>. QED
    BY <2>1, <2>4, <2>5, <2>6, KeepsPlan
<1>3. CASE RollBackPrice(e)
  <2>1. /\ UNCHANGED <<listed, shelved, price, history, import, copies, overtaken>>
        /\ pricing' = [pricing EXCEPT ![e] = [at |-> "over"]]
    BY <1>3 DEF RollBackPrice
  <2>2. PricesTyped' /\ PricesTheListed'
    BY <1>0, <2>1 DEF PricesTyped, PricesTheListed
  <2>. QED
    BY <2>1, <2>2, KeepsPlan, KeepsEvidence
<1>. QED
  BY <1>1, <1>2, <1>3

LEMMA FileKeepsEvidence ==
    ASSUME PricesInv,
           \/ \E rows \in File : ApplyImport(rows)
           \/ ImportNewProduct \/ ReadImportRow \/ CommitImportRow \/ StopImport
    PROVE  PricesInv'
<1>. USE DEF PricesInv
<1>1. ASSUME NEW rows \in File, ApplyImport(rows)
      PROVE  PricesInv'
  <2>1. UNCHANGED <<listed, shelved, price, history, pricing, copies, overtaken>>
    BY <1>1 DEF ApplyImport
  <2>2. import' \in ImportLocal /\ PlanFollowed'
    BY <1>1, PlanFirst
  <2>3. PricesTyped' /\ PricesTheListed'
    BY <2>1, <2>2 DEF PricesTyped, PricesTheListed
  <2>. QED
    BY <2>1, <2>2, <2>3, KeepsEvidence
<1>2. ASSUME import.at \in {"row", "read"}
      PROVE  /\ Turn \in import.left /\ import.plan[Turn].row \in FileRow /\ Row = import.plan[Turn].row
             /\ Row.sku \in Sku /\ Row.amount \in PriceOrNone
             /\ RowIs("update") => Row.sku \in listed
             /\ RowDone => import' \in ImportLocal
             /\ import.was \in PriceOrNone
  <2>1. import.left # {}
    BY <1>2 DEF PlanFollowed
  <2>2. Turn \in import.left /\ (RowDone => import' \in ImportLocal) /\ import.was \in PriceOrNone
    BY <1>2, <2>1, ImportMoves
  <2>3. import.plan[Turn].row \in FileRow /\ Row = import.plan[Turn].row
    BY <1>2, <2>2 DEF PlanFollowed, Row
  <2>4. Row.sku \in Sku /\ Row.amount \in PriceOrNone
    BY <2>3 DEF FileRow, PriceOrNone
  <2>5. RowIs("update") => Row.sku \in listed
    BY <1>2, <2>2, <2>3 DEF PlanFollowed, RowIs
  <2>. QED
    BY <2>2, <2>3, <2>4, <2>5
<1>3. CASE ImportNewProduct
  <2>1. import.at \in {"row", "read"} /\ RowDone
    BY <1>3 DEF ImportNewProduct
  <2>2. CASE AddSku(Row.sku, Row.amount)
    <3>. DEFINE v == Row.sku
                a == Row.amount
    <3>1. v \in Sku /\ a \in PriceOrNone /\ import' \in ImportLocal /\ AddSku(v, a)
      BY <1>2, <2>1, <2>2
    <3>. HIDE DEF v, a
    <3>2. /\ listed' = listed \cup {v} /\ pricing' = pricing
          /\ \A x \in Sku : x # v => price'[x] = price[x] /\ history'[x] = history[x]
      BY <3>1, AddTypes DEF AddSku
    <3>3. PricesTyped'
      BY <3>1, AddTypes DEF PricesTyped
    <3>4. PricesTheListed'
      BY <3>2 DEF PricesTheListed
    <3>5. PlanFollowed'
      BY <2>1, <3>2, RowTaken
    <3>. QED
      BY <3>1, <3>3, <3>4, <3>5, AddEvidenced
  <2>3. CASE UNCHANGED <<listed, shelved, price, history, pricing, copies, overtaken>>
    <3>1. PlanFollowed'
      BY <2>1, <2>3, RowTaken
    <3>2. PricesTyped' /\ PricesTheListed'
      BY <1>2, <2>1, <2>3 DEF PricesTyped, PricesTheListed
    <3>. QED
      BY <2>3, <3>1, <3>2, KeepsEvidence
  <2>. QED
    BY <1>3, <2>2, <2>3 DEF ImportNewProduct
<1>4. CASE ReadImportRow \/ StopImport
  <2>1. import.at \in {"row", "read"} /\ UNCHANGED <<listed, shelved, price, history, pricing, copies, overtaken>>
    BY <1>4 DEF ReadImportRow, StopImport
  <2>2. price[Row.sku] \in PriceOrNone
    BY <1>2, <2>1 DEF PricesTyped
  <2>3. import' \in ImportLocal /\ PlanFollowed'
    BY <1>4, <2>1, <2>2, RowRead DEF ReadImportRow, StopImport
  <2>4. PricesTyped' /\ PricesTheListed'
    BY <2>1, <2>3 DEF PricesTyped, PricesTheListed
  <2>. QED
    BY <2>1, <2>3, <2>4, KeepsEvidence
<1>5. CASE CommitImportRow
  <2>1. import.at \in {"row", "read"} /\ RowDone /\ UNCHANGED <<listed, shelved, pricing, copies>> /\ import.at = "read"
    BY <1>5 DEF CommitImportRow
  <2>2. PlanFollowed' /\ import' \in ImportLocal
    BY <1>2, <2>1, RowTaken
  <2>3. CASE UNCHANGED <<price, history, overtaken>>
    <3>1. PricesTyped' /\ PricesTheListed'
      BY <2>1, <2>2, <2>3 DEF PricesTyped, PricesTheListed
    <3>. QED
      BY <2>1, <2>2, <2>3, <3>1, KeepsEvidence
  <2>4. CASE ChangePrice(Row.sku, import.was, Row.amount) /\ Row.amount # NoPrice
    <3>. DEFINE v == Row.sku
                was == import.was
                to == Row.amount
    <3>1. RowIs("update")
      BY <2>1 DEF PlanFollowed
    <3>2. v \in Sku /\ v \in listed /\ was \in PriceOrNone /\ to \in PriceOrNone
      BY <1>2, <2>1, <3>1
    <3>3. to \in Amount /\ ChangePrice(v, was, to)
      BY <2>4, <3>2 DEF PriceOrNone
    <3>. HIDE DEF v, was, to
    <3>4. /\ price' \in [Sku -> PriceOrNone] /\ history' \in [Sku -> Seq(PriceRow)] /\ overtaken' \subseteq Sku
          /\ \A w \in Sku : w # v => price'[w] = price[w] /\ history'[w] = history[w]
      BY <3>2, <3>3, ChangeTypes
    <3>5. PricesTyped'
      BY <2>1, <2>2, <3>4 DEF PricesTyped
    <3>6. PricesTheListed'
      BY <2>1, <3>2, <3>4 DEF PricesTheListed
    <3>7. \A w \in Sku : Evidenced(w)'
      BY <2>1, <3>2, <3>3, ChangeEvidenced
    <3>. QED
      BY <2>2, <3>5, <3>6, <3>7
  <2>. QED
    BY <1>5, <2>3, <2>4 DEF CommitImportRow
<1>. QED
  BY <1>1, <1>3, <1>4, <1>5

LEMMA PricesInductive == PricesSpec => []PricesInv
<1>1. PricesInit => PricesInv
  <2>. SUFFICES ASSUME PricesInit
                PROVE  PricesInv
    OBVIOUS
  <2>1. [at |-> "new"] \in PricingLocal /\ [at |-> "none"] \in ImportLocal /\ <<>> \in Seq(PriceRow)
    BY DEF PricingLocal, ImportLocal
  <2>2. PricesTyped
    BY <2>1 DEF PricesInit, PricesTyped, PriceOrNone
  <2>3. PlanFollowed /\ PricesTheListed
    BY DEF PricesInit, PlanFollowed, PricesTheListed
  <2>4. ASSUME NEW v \in Sku
        PROVE  Evidenced(v)
    <3>1. history[v] = <<>> /\ price[v] = NoPrice
      BY DEF PricesInit
    <3>. QED
      BY <3>1 DEF Evidenced
  <2>. QED
    BY <2>2, <2>3, <2>4 DEF PricesInv
<1>2. PricesInv /\ [PricesNext]_pricesVars => PricesInv'
  <2>1. CASE UNCHANGED pricesVars
    <3>. SUFFICES ASSUME PricesInv
                  PROVE  PricesInv'
      OBVIOUS
    <3>1. PricesTyped' /\ PricesTheListed'
      BY <2>1 DEF pricesVars, PricesInv, PricesTyped, PricesTheListed
    <3>. QED
      BY <2>1, <3>1, KeepsPlan, KeepsEvidence DEF pricesVars, PricesInv
  <2>2. CASE PricesNext
    BY <2>2, CatalogueKeepsEvidence, PricingKeepsEvidence, FileKeepsEvidence DEF PricesNext, PriceOrNone
  <2>. QED
    BY <2>1, <2>2
<1>. QED
  BY <1>1, <1>2, PTL DEF PricesSpec

\* The history of prices evidences every price that is no duplicate's first one,
\* and chains from one to the next unless two changes crossed.
THEOREM PricesEvidenced == PricesSpec => []PriceEvidenced
<1>1. PricesInv => PriceEvidenced
  <2>. SUFFICES ASSUME PricesInv
                PROVE  PriceEvidenced
    OBVIOUS
  <2>1. ASSUME NEW v \in Sku
        PROVE  /\ price[v] # NoPrice => history[v] # <<>> \/ v \in copies
               /\ history[v] # <<>> => /\ history[v][Len(history[v])].open
                                       /\ history[v][Len(history[v])].new = price[v]
    <3>1. history[v] # <<>> <=> Len(history[v]) # 0
      BY EmptySeq DEF PricesInv, PricesTyped
    <3>. QED
      BY <3>1 DEF PricesInv, Evidenced
  <2>2. import.at # "none" =>
          \A i, k \in import.done : import.plan[i].row.sku = import.plan[k].row.sku => i = k
    BY DEF PricesInv, PlanFollowed
  <2>. QED
    BY <2>1, <2>2 DEF PriceEvidenced, PricesInv, Evidenced
<1>. QED
  BY <1>1, PricesInductive, PTL

(* Prices, one change of a variant at a time.                                *)

\* Nobody reads a variant's price while another is about to change it.
OneChangeOfSku ==
    \A e \in Pricing : pricing[e].at = "read" =>
        /\ import.at = "read" => Row.sku # pricing[e].of
        /\ \A f \in Pricing : pricing[f].at = "read" /\ pricing[f].of = pricing[e].of => e = f

PricesReadStand ==
    /\ \A e \in Pricing : pricing[e].at = "read" => price[pricing[e].of] = pricing[e].was
    /\ import.at = "read" => price[Row.sku] = import.was
    /\ overtaken = {}

LEMMA ReadAreListed ==
    ASSUME PricesInv
    PROVE  /\ \A e \in Pricing : pricing[e].at = "read" => pricing[e].of \in listed /\ pricing[e].of \in Sku
           /\ import.at = "read" => Row.sku \in listed /\ Row.sku \in Sku
<1>1. listed \subseteq Sku
  BY DEF PricesInv, PricesTyped
<1>2. ASSUME import.at = "read" PROVE Row.sku \in listed
  <2>1. import.left # {} /\ RowIs("update")
    BY <1>2 DEF PricesInv, PlanFollowed
  <2>2. Turn \in import.left
    BY <1>2, <2>1, ImportMoves DEF PricesInv
  <2>. QED
    BY <1>2, <2>1, <2>2 DEF PricesInv, PlanFollowed, RowIs, Row
<1>. QED
  BY <1>1, <1>2 DEF PricesInv, PricesTheListed

\* New variants have prices nobody has read.
LEMMA NewPricesStand ==
    ASSUME PricesInv, PricesReadStand, pricing' = pricing, overtaken' = overtaken,
           \A v \in listed : price'[v] = price[v],
           import' = import \/ import'.at # "read"
    PROVE  PricesReadStand'
<1>1. \A e \in Pricing : pricing'[e].at = "read" => price'[pricing'[e].of] = pricing'[e].was
  BY ReadAreListed DEF PricesReadStand
<1>2. ASSUME import'.at = "read" PROVE price'[Row'.sku] = import'.was
  <2>1. import' = import /\ Row' = Row
    BY <1>2 DEF Row, Turn
  <2>. QED
    BY <1>2, <2>1, ReadAreListed DEF PricesReadStand
<1>. QED
  BY <1>1, <1>2 DEF PricesReadStand

LEMMA CatalogueStands ==
    ASSUME PricesInv, PricesReadStand, NEW v \in Sku,
           \/ \E a \in PriceOrNone : CreateSku(v, a)
           \/ \E w \in Sku : DuplicateSku(v, w)
           \/ ShelveSku(v)
    PROVE  PricesReadStand'
<1>1. UNCHANGED <<pricing, import, overtaken>>
  BY DEF CreateSku, AddSku, DuplicateSku, ShelveSku
<1>2. \A w \in listed : price'[w] = price[w]
  BY DEF CreateSku, AddSku, DuplicateSku, ShelveSku, PricesInv, PricesTyped
<1>. QED
  BY <1>1, <1>2, NewPricesStand

LEMMA PricingStands ==
    ASSUME PricesInv, PricesReadStand, OneChangeOfSku, NEW e \in Pricing,
           \/ \E v \in Sku, from \in {"page", "list"}, a \in Amount : ReadPrice(e, v, from, a)
           \/ CommitPrice(e)
           \/ RollBackPrice(e)
    PROVE  PricesReadStand'
<1>0. pricing \in [Pricing -> PricingLocal] /\ PricesTyped
  BY DEF PricesInv, PricesTyped
<1>1. ASSUME NEW v \in Sku, NEW from \in {"page", "list"}, NEW a \in Amount, ReadPrice(e, v, from, a)
      PROVE  PricesReadStand'
  <2>1. /\ UNCHANGED <<price, import, overtaken>>
        /\ pricing' = [pricing EXCEPT ![e] = [at |-> "read", of |-> v, was |-> price[v], to |-> a]]
    BY <1>1 DEF ReadPrice
  <2>2. \A f \in Pricing : pricing'[f].at = "read" => price'[pricing'[f].of] = pricing'[f].was
    BY <1>0, <2>1 DEF PricesReadStand
  <2>. QED
    BY <2>1, <2>2 DEF PricesReadStand, Row, Turn
<1>2. CASE RollBackPrice(e)
  <2>1. UNCHANGED <<price, import, overtaken>> /\ pricing' = [pricing EXCEPT ![e] = [at |-> "over"]]
    BY <1>2 DEF RollBackPrice
  <2>2. \A f \in Pricing : pricing'[f].at = "read" => pricing'[f] = pricing[f]
    BY <1>0, <2>1
  <2>. QED
    BY <2>1, <2>2 DEF PricesReadStand, Row, Turn
<1>3. CASE CommitPrice(e)
  <2>. DEFINE v == pricing[e].of
  <2>1. /\ pricing[e].at = "read" /\ import' = import
        /\ ChangePrice(v, pricing[e].was, pricing[e].to)
        /\ pricing' = [pricing EXCEPT ![e] = [at |-> "over"]]
    BY <1>3 DEF CommitPrice
  <2>2. pricing[e].was \in PriceOrNone /\ pricing[e].to \in Amount
    BY <1>0, <2>1 DEF PricingLocal
  <2>3. v \in Sku /\ pricing[e].was = price[v]
    BY <2>1, ReadAreListed DEF PricesReadStand
  <2>4. \A w \in Sku : w # v => price'[w] = price[w]
    BY <1>0, <2>1, <2>2, <2>3, ChangeTypes
  <2>5. overtaken' = overtaken
    BY <2>1, <2>3 DEF ChangePrice
  <2>6. ASSUME NEW f \in Pricing, pricing'[f].at = "read"
        PROVE  price'[pricing'[f].of] = pricing'[f].was
    <3>1. f # e /\ pricing'[f] = pricing[f]
      BY <1>0, <2>1, <2>6
    <3>2. pricing[f].of # v
      BY <2>1, <2>6, <3>1 DEF OneChangeOfSku
    <3>. QED
      BY <2>4, <2>6, <3>1, <3>2, ReadAreListed DEF PricesReadStand
  <2>7. ASSUME import'.at = "read" PROVE price'[Row'.sku] = import'.was
    <3>1. Row' = Row /\ Row.sku # v
      BY <2>1, <2>7 DEF OneChangeOfSku, Row, Turn
    <3>. QED
      BY <2>1, <2>4, <2>7, <3>1, ReadAreListed DEF PricesReadStand
  <2>. QED
    BY <2>5, <2>6, <2>7 DEF PricesReadStand
<1>. QED
  BY <1>1, <1>2, <1>3

LEMMA FileStands ==
    ASSUME PricesInv, PricesReadStand, OneChangeOfSku,
           \/ \E rows \in File : ApplyImport(rows)
           \/ ImportNewProduct \/ ReadImportRow \/ CommitImportRow \/ StopImport
    PROVE  PricesReadStand'
<1>0. PricesTyped /\ PlanFollowed
  BY DEF PricesInv
<1>1. ASSUME import.at \in {"row", "read"}
      PROVE  /\ RowDone => import'.at # "read"
             /\ import \in [at : ImportStage, plan : Seq(PlanRow), left : SUBSET Nat, done : SUBSET Nat, was : PriceOrNone]
             /\ Row.sku \in Sku /\ Row.amount \in PriceOrNone
  <2>1. import.left # {}
    BY <1>0, <1>1 DEF PlanFollowed
  <2>2. Turn \in import.left
    BY <1>0, <1>1, <2>1, ImportMoves
  <2>3. Row \in FileRow
    BY <1>0, <1>1, <2>2 DEF PlanFollowed, Row
  <2>. QED
    BY <1>0, <1>1, <2>1, <2>3, ImportMoves DEF FileRow, PriceOrNone
<1>2. ASSUME NEW rows \in File, ApplyImport(rows)
      PROVE  PricesReadStand'
  <2>1. import'.at = "row" /\ UNCHANGED <<price, pricing, overtaken>>
    BY <1>2 DEF ApplyImport
  <2>. QED
    BY <2>1, NewPricesStand
<1>3. CASE ImportNewProduct
  <2>1. import'.at # "read"
    BY <1>1, <1>3 DEF ImportNewProduct
  <2>2. CASE AddSku(Row.sku, Row.amount)
    <3>1. Row.sku \notin listed /\ UNCHANGED <<pricing, overtaken>>
      BY <2>2 DEF AddSku
    <3>2. \A w \in Sku : w # Row.sku => price'[w] = price[w]
      <4>1. Row.sku \in Sku /\ Row.amount \in PriceOrNone
        BY <1>1, <1>3 DEF ImportNewProduct
      <4>. QED
        BY <1>0, <2>2, <4>1, AddTypes
    <3>3. \A w \in listed : price'[w] = price[w]
      BY <1>0, <3>1, <3>2 DEF PricesTyped
    <3>. QED
      BY <2>1, <3>1, <3>3, NewPricesStand
  <2>3. CASE UNCHANGED <<listed, shelved, price, history, pricing, copies, overtaken>>
    BY <2>1, <2>3, NewPricesStand
  <2>. QED
    BY <1>3, <2>2, <2>3 DEF ImportNewProduct
<1>4. CASE ReadImportRow
  <2>1. /\ UNCHANGED <<price, pricing, overtaken>> /\ import.at = "row"
        /\ import' = [import EXCEPT !.at = "read", !.was = price[Row.sku]]
    BY <1>4 DEF ReadImportRow
  <2>2. import'.was = price[Row.sku] /\ Row' = Row
    BY <1>1, <2>1 DEF Row, Turn
  <2>. QED
    BY <2>1, <2>2 DEF PricesReadStand
<1>5. CASE StopImport
  <2>1. UNCHANGED <<price, pricing, overtaken>> /\ import'.at = "over"
    BY <1>1, <1>5 DEF StopImport
  <2>. QED
    BY <2>1, NewPricesStand
<1>6. CASE CommitImportRow
  <2>. DEFINE v == Row.sku
  <2>1. import.at = "read" /\ import'.at # "read" /\ pricing' = pricing
    BY <1>1, <1>6 DEF CommitImportRow
  <2>2. CASE UNCHANGED <<price, history, overtaken>>
    BY <2>1, <2>2, NewPricesStand
  <2>3. CASE ChangePrice(v, import.was, Row.amount) /\ Row.amount # NoPrice
    <3>1. v \in Sku /\ Row.amount \in Amount /\ import.was \in PriceOrNone /\ import.was = price[v]
      BY <1>1, <2>1, <2>3 DEF PriceOrNone, PricesReadStand
    <3>2. \A w \in Sku : w # v => price'[w] = price[w]
      BY <1>0, <2>3, <3>1, ChangeTypes
    <3>3. overtaken' = overtaken
      BY <2>3, <3>1 DEF ChangePrice
    <3>4. ASSUME NEW f \in Pricing, pricing[f].at = "read"
          PROVE  price'[pricing[f].of] = pricing[f].was
      <4>1. pricing[f].of # v
        BY <2>1, <3>4 DEF OneChangeOfSku
      <4>. QED
        BY <3>2, <3>4, <4>1, ReadAreListed DEF PricesReadStand
    <3>. QED
      BY <2>1, <3>3, <3>4 DEF PricesReadStand
  <2>. QED
    BY <1>6, <2>2, <2>3 DEF CommitImportRow
<1>. QED
  BY <1>2, <1>3, <1>4, <1>5, <1>6

\* While changes of one variant come one after the other, from pages, the list
\* or a file, its history is one unbroken chain: each row starts from the price
\* the row before it ended with (product-detail.tsx, products.tsx, imports.tsx).
THEOREM OneByOneHistoryChains ==
    PricesSpec /\ []OneChangeOfSku =>
        [](\A v \in Sku : \A i \in 1..(Len(history[v]) - 1) : history[v][i + 1].old = history[v][i].new)
<1>1. ASSUME PricesInit PROVE PricesReadStand
  BY <1>1 DEF PricesInit, PricesReadStand
<1>2. ASSUME PricesInv, PricesReadStand, OneChangeOfSku, [PricesNext]_pricesVars
      PROVE  PricesReadStand'
  <2>1. CASE UNCHANGED pricesVars
    BY <1>2, <2>1, NewPricesStand DEF pricesVars
  <2>2. CASE PricesNext
    BY <1>2, <2>2, CatalogueStands, PricingStands, FileStands DEF PricesNext, PriceOrNone
  <2>. QED
    BY <1>2, <2>1, <2>2
<1>3. PricesInv /\ PricesReadStand =>
        \A v \in Sku : \A i \in 1..(Len(history[v]) - 1) : history[v][i + 1].old = history[v][i].new
  BY DEF PricesInv, PricesReadStand, Evidenced
<1>. QED
  BY PricesInductive, <1>1, <1>2, <1>3, PTL DEF PricesSpec
===============================================================================
