----------------------------- MODULE Compatibility -----------------------------
(***************************************************************************)
(* Which phones one product fits, and what the storefront says of it:      *)
(*                                                                         *)
(*   the records      app/routes/admin/product-detail.tsx, compatibility.tsx *)
(*   what is shown    app/domain/compatibility/resolve.ts                  *)
(*                                                                         *)
(* A record is about one phone and either the whole product or one of its  *)
(* variants; the pair is unique.  Records about a variant come with the    *)
(* catalogue, so they may exist at the start and are never added here.     *)
(***************************************************************************)
EXTENDS Integers, FiniteSets

CONSTANTS
    Phone,      \* device models
    Colour,     \* variants of the product
    Whole,      \* the variant_id of a record about the product
    Checker,    \* members of staff who verify
    Asked,      \* the levels staff choose from
    Form        \* submissions that read before they write, and the pages they come from

Level == {"exact_fit", "compatible", "adapter_required", "universal", "unverified", "incompatible"}

ASSUME CompatibilityAssumption == Whole \notin Colour /\ Asked \subseteq Level

Scope == Colour \cup {Whole}
None  == [level |-> "none", by |-> "nobody"]

VARIABLES
    record,     \* record[s][p]: the product_compatibility row of scope s and phone p
    form,       \* form[f]: locals of a submission
    checked,    \* history: checked[s][p]: the level somebody last verified
    misticked   \* history: the records verified from a page that showed another level

compatVars == <<record, form, checked, misticked>>

On(s, p) == record[s][p] # None

\* Nobody asserts a fit by filling in a form: a new record is unverified.
Asserted(level) == [level |-> level, by |-> "nobody"]

CompatInit ==
    /\ \E known \in [Colour -> [Phone -> {None} \cup {Asserted(l) : l \in {"exact_fit", "incompatible"}}]] :
          record = [s \in Scope |-> IF s = Whole THEN [p \in Phone |-> None] ELSE known[s]]
    /\ form = [f \in Form |-> [at |-> "idle"]]
    /\ checked = [s \in Scope |-> [p \in Phone |-> "none"]]
    /\ misticked = {}

--------------------------------------------------------------------------------
(* The records.                                                              *)

\* The existing record is looked for first; the index is what decides.
LookForRecord(f, p, level) ==
    /\ form[f].at = "idle"
    /\ ~On(Whole, p)
    /\ form' = [form EXCEPT ![f] = [at |-> "add", phone |-> p, level |-> level]]
    /\ UNCHANGED <<record, checked, misticked>>

AddRecord(f) ==
    LET p == form[f].phone IN
    /\ form[f].at = "add"
    /\ record' = [record EXCEPT ![Whole][p] = IF On(Whole, p) THEN @ ELSE Asserted(form[f].level)]
    /\ form' = [form EXCEPT ![f] = [at |-> "idle"]]
    /\ UNCHANGED <<checked, misticked>>

\* A record is known by its id, and one added later has another: what is about to
\* be written to this one finds nothing.
Void(s, p) ==
    form' = [f \in Form |-> IF form[f].at \in {"set", "tick"} /\ form[f].scope = s /\ form[f].phone = p
                            THEN [at |-> "idle"] ELSE form[f]]

RemoveRecord(s, p) ==
    /\ On(s, p)
    /\ record' = [record EXCEPT ![s][p] = None]
    /\ checked' = [checked EXCEPT ![s][p] = "none"]
    /\ misticked' = misticked \ {<<s, p>>}
    /\ Void(s, p)

\* The list of records offers the tick beside the level it shows ...
Verifiable(row) == row # None /\ row.by = "nobody"

OpenPage(f, s, p) ==
    /\ form[f].at = "idle"
    /\ Verifiable(record[s][p])
    /\ form' = [form EXCEPT ![f] = [at |-> "tick", scope |-> s, phone |-> p, level |-> record[s][p].level]]
    /\ UNCHANGED <<record, checked, misticked>>

\* ... and the one UPDATE asks that nobody has ticked, not that the level is
\* still the one that was shown.
Verify(f, who) ==
    LET s == form[f].scope
        p == form[f].phone
        row == record[s][p]
        seen == form[f].level
    IN
    /\ form[f].at = "tick"
    /\ form' = [form EXCEPT ![f] = [at |-> "idle"]]
    /\ IF Verifiable(row)
       THEN /\ record' = [record EXCEPT ![s][p].by = who]
            /\ checked' = [checked EXCEPT ![s][p] = seen]
            /\ misticked' = IF seen = row.level THEN misticked ELSE misticked \cup {<<s, p>>}
       ELSE UNCHANGED <<record, checked, misticked>>

\* The level before is read for the audit log ...
OpenRecord(f, s, p, level) ==
    /\ form[f].at = "idle"
    /\ On(s, p)
    /\ form' = [form EXCEPT ![f] = [at |-> "set", scope |-> s, phone |-> p, level |-> level]]
    /\ UNCHANGED <<record, checked, misticked>>

\* ... and the write takes the tick away, the level being the same or not.
Relevelled_Ticked(row, level) == [row EXCEPT !.level = level]
Relevelled(row, level) == Asserted(level)

SetLevel(f) ==
    LET s == form[f].scope
        p == form[f].phone
    IN
    /\ form[f].at = "set"
    /\ record' = [record EXCEPT ![s][p] = Relevelled(@, form[f].level)]
    /\ misticked' = misticked \ {<<s, p>>}
    /\ form' = [form EXCEPT ![f] = [at |-> "idle"]]
    /\ UNCHANGED checked

--------------------------------------------------------------------------------
(* What the storefront says for a phone and a variant.                       *)

Applicable(v, p) == IF On(v, p) THEN record[v][p] ELSE record[Whole][p]

\* A record of any scope for this phone counts against it.
SaidNotToFit(p) == \E s \in Scope : record[s][p].level = "incompatible"
Universal == \E s \in Scope, p \in Phone : record[s][p].level = "universal"
Recorded  == \E s \in Scope, p \in Phone : On(s, p)

Certain(row) == row.by # "nobody"

Shown(v, p) ==
    LET row == Applicable(v, p) IN
    IF SaidNotToFit(p) THEN "mismatch" ELSE
    CASE row.level = "exact_fit"         -> IF Certain(row) THEN "exact" ELSE "unverified"
      [] row.level = "compatible"        -> IF Certain(row) THEN "compatible" ELSE "unverified"
      [] row.level = "adapter_required"  -> "adapter"
      [] row.level = "unverified"        -> "unverified"
      [] row.level = "universal"         -> "universal"
      [] row = None                      -> IF Universal THEN "universal"
                                            ELSE IF Recorded THEN "mismatch" ELSE "unverified"

--------------------------------------------------------------------------------
CompatNext ==
    \/ \E f \in Form :
          \/ \E p \in Phone, l \in Asked : LookForRecord(f, p, l)
          \/ AddRecord(f)
          \/ \E s \in Scope, p \in Phone, l \in Asked : OpenRecord(f, s, p, l)
          \/ SetLevel(f)
          \/ \E s \in Scope, p \in Phone : OpenPage(f, s, p)
          \/ \E who \in Checker : Verify(f, who)
    \/ \E s \in Scope, p \in Phone : RemoveRecord(s, p)

CompatSpec == CompatInit /\ [][CompatNext]_compatVars

--------------------------------------------------------------------------------
(* Properties.                                                               *)

CompatTypeOK ==
    /\ record \in [Scope -> [Phone -> {None} \cup [level : Level, by : Checker \cup {"nobody"}]]]
    /\ form \in [Form -> [at : {"idle"}]
                   \cup [at : {"add"}, phone : Phone, level : Level]
                   \cup [at : {"set", "tick"}, scope : Scope, phone : Phone, level : Level]]
    /\ checked \in [Scope -> [Phone -> Level \cup {"none"}]]
    /\ misticked \subseteq Scope \X Phone

\* The storefront presents a fit as certain only when the record behind it is
\* for this phone, somebody verified it at the very level it has now, and no
\* record of any scope says that this phone does not fit.  The tick says nothing
\* of its level, so a page that showed the record at an older one certifies the
\* new one: misticked names these records, until their level is set again.
ClaimsEvidenced ==
    \A v \in Colour, p \in Phone :
        Shown(v, p) \in {"exact", "compatible"} =>
            /\ \E s \in {v, Whole} : /\ record[s][p].by \in Checker
                                     /\ checked[s][p] = record[s][p].level \/ <<s, p>> \in misticked
                                     /\ record[s][p].level \in {"exact_fit", "compatible"}
            /\ ~\E s \in Scope : record[s][p].level = "incompatible"
================================================================================
