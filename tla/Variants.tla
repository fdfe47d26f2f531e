-------------------------------- MODULE Variants --------------------------------
(***************************************************************************)
(* The variants of one product, on its page                                *)
(* (app/routes/admin/product-detail.tsx): adding one, archiving one,       *)
(* choosing the default, and duplicating the product.                      *)
(***************************************************************************)
EXTENDS Naturals, FiniteSets

CONSTANTS
    Variant,
    FirstVariant,   \* the one the product was created with
    Archiving       \* submissions of "archive"

ASSUME VariantsAssumption == FirstVariant \in Variant

VARIABLES
    variant,        \* variant[v]: none, live or archived
    default,        \* those with is_default = 1
    specified,      \* those with specifications of the product's type
    archiving,      \* archiving[e]: locals of a submission
    copy,           \* the product duplicated from this one
    stray           \* history: an outdated page or check moved the default

variantsVars == <<variant, default, specified, archiving, copy, stray>>

Live  == {v \in Variant : variant[v] = "live"}
Known == {v \in Variant : variant[v] # "none"}

VariantsInit ==
    /\ variant = [v \in Variant |-> IF v = FirstVariant THEN "live" ELSE "none"]
    /\ default = {FirstVariant}
    /\ specified = {}
    /\ archiving = [e \in Archiving |-> [at |-> "new"]]
    /\ copy = [at |-> "none"]
    /\ stray = FALSE

\* Never the default: the product has one.
AddVariant(v) ==
    /\ variant[v] = "none"
    /\ variant' = [variant EXCEPT ![v] = "live"]
    /\ UNCHANGED <<default, specified, archiving, copy, stray>>

\* Only of a live variant of this product.
SaveSpecs(v) ==
    /\ v \in Live
    /\ specified' = specified \cup {v}
    /\ UNCHANGED <<variant, default, archiving, copy, stray>>

Archivable_Any(v) == Cardinality(Live) > 1
Archivable(v) == v \notin default /\ Cardinality(Live) > 1

CheckArchive(e, v) ==
    /\ archiving[e].at = "new"
    /\ v \in Known
    /\ Archivable(v)
    /\ archiving' = [archiving EXCEPT ![e] = [at |-> "checked", of |-> v, default |-> default]]
    /\ UNCHANGED <<variant, default, specified, copy, stray>>

ArchiveVariant(e) ==
    LET j == archiving[e] IN
    /\ j.at = "checked"
    /\ variant' = [variant EXCEPT ![j.of] = "archived"]
    /\ stray' = (stray \/ j.of \in default \ j.default)
    /\ archiving' = [archiving EXCEPT ![e] = [at |-> "over"]]
    /\ UNCHANGED <<default, specified, copy>>

\* All are cleared; then the variant is marked, if it is not archived.
DefaultAfter(v) == {v} \cap Live

SetDefaultVariant(v) ==
    /\ v \in Known
    /\ default' = DefaultAfter(v)
    /\ stray' = (stray \/ v \notin Live)
    /\ UNCHANGED <<variant, specified, archiving, copy>>

\* The variants are read, and written for the copy some reads later.
ReadForCopy ==
    /\ copy.at = "none"
    /\ Live # {}
    /\ copy' = [at |-> "read", of |-> Live, default |-> default \cap Live, stray |-> stray]
    /\ UNCHANGED <<variant, default, specified, archiving, stray>>

Duplicate ==
    /\ copy.at = "read"
    /\ copy' = [copy EXCEPT !.at = "made"]
    /\ UNCHANGED <<variant, default, specified, archiving, stray>>

VariantsNext ==
    \/ \E v \in Variant : \/ AddVariant(v) \/ SaveSpecs(v) \/ SetDefaultVariant(v)
                          \/ \E e \in Archiving : CheckArchive(e, v)
    \/ \E e \in Archiving : ArchiveVariant(e)
    \/ ReadForCopy \/ Duplicate

VariantsSpec == VariantsInit /\ [][VariantsNext]_variantsVars

--------------------------------------------------------------------------------
(* Properties.                                                               *)

VariantsTypeOK ==
    /\ variant \in [Variant -> {"none", "live", "archived"}]
    /\ default \subseteq Variant
    /\ specified \subseteq Variant
    /\ \A e \in Archiving : archiving[e].at \in {"new", "checked", "over"}
    /\ copy.at \in {"none", "read", "made"}
    /\ stray \in BOOLEAN

\* The storefront opens a product on its default variant: there is exactly one
\* and it is for sale, in the product and in its copy.  Archiving checks that
\* before it writes, and choosing a default trusts the page it was chosen on: a
\* request that overtook the check or the page is the one thing that breaks it.
HasDefault ==
    /\ Cardinality(default) <= 1
    /\ stray \/ (default # {} /\ default \subseteq Live)
    /\ copy.at = "made" => copy.stray \/ (Cardinality(copy.default) = 1 /\ copy.default \subseteq copy.of)
================================================================================
