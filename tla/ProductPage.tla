------------------------------ MODULE ProductPage ------------------------------
(***************************************************************************)
(* The row of one product and its texts, edited by several people at once: *)
(*                                                                         *)
(*   details, status         app/routes/admin/product-detail.tsx           *)
(*   the list of products    app/routes/admin/products.tsx                 *)
(*   featured products       app/routes/admin/featured.tsx                 *)
(*   an import's names       app/routes/admin/imports.tsx                  *)
(*                                                                         *)
(* updated_at guards the texts: the form carries the one it was loaded     *)
(* with.  Whether the product has a price is module Prices' business.      *)
(***************************************************************************)
EXTENDS Naturals

CONSTANTS
    Author,         \* submissions of the product's page
    MaxStamp        \* bound: the clock, in milliseconds that matter

ASSUME ProductPageAssumption ==
    /\ Author \cap {"creation", "import"} = {}
    /\ MaxStamp \in Nat \ {0}

VARIABLES
    now,            \* the clock
    product,        \* status, archived and updated_at of the products row
    text,           \* who wrote its name and descriptions last
    draft,          \* draft[e]: locals of a submission
    stamped,        \* history: the values updated_at has had
    unstamped,      \* history: updated_at repeated a value, went back, or missed a text
    erased          \* history: a save replaced a text its author had not seen

productVars == <<now, product, text, draft, stamped, unstamped, erased>>

ProductInit ==
    /\ now = 1
    /\ \E status \in {"draft", "active"} : product = [status |-> status, archived |-> FALSE, updated |-> 0]
    /\ text = "creation"
    /\ draft = [e \in Author |-> [at |-> "waiting"]]
    /\ stamped = {0}
    /\ unstamped = FALSE
    /\ erased = FALSE

MsPasses ==
    /\ now < MaxStamp
    /\ now' = now + 1
    /\ UNCHANGED <<product, text, draft, stamped, unstamped, erased>>

\* A request that writes updated_at writes the time it began, read before its
\* awaits, which may be before the time that is there.
Stamp(row, began) == /\ product' = [row EXCEPT !.updated = began]
                     /\ stamped' = stamped \cup {began}
Backwards(began)  == began < product.updated

Answer(e) == draft' = [draft EXCEPT ![e] = [at |-> "closed"]]

--------------------------------------------------------------------------------
(* Details.                                                                  *)

OpenEditor(e) ==
    /\ draft[e].at = "waiting"
    /\ draft' = [draft EXCEPT ![e] = [at |-> "editing", loaded |-> product.updated, saw |-> text]]
    /\ UNCHANGED <<now, product, text, stamped, unstamped, erased>>

Conflicts_Older(loaded) == product.updated < loaded
Conflicts(loaded) == product.updated # loaded

CheckDetails(e) ==
    /\ draft[e].at = "editing"
    /\ IF Conflicts(draft[e].loaded)
       THEN Answer(e)
       ELSE draft' = [draft EXCEPT ![e] =
                        [at |-> "checked", began |-> now, saw |-> @.saw, met |-> text]]
    /\ UNCHANGED <<now, product, text, stamped, unstamped, erased>>

CommitDetails(e) ==
    LET j == draft[e] IN
    /\ j.at = "checked"
    /\ Stamp(product, j.began)
    /\ unstamped' = (unstamped \/ Backwards(j.began) \/ j.began \in stamped)
    /\ erased' = (erased \/ (text = j.met /\ text # j.saw))
    /\ text' = e
    /\ Answer(e)
    /\ UNCHANGED now

\* The names of an import are written without updated_at.
ImportName ==
    /\ text' = "import"
    /\ unstamped' = TRUE
    /\ UNCHANGED <<now, product, draft, stamped, erased>>

--------------------------------------------------------------------------------
(* Status.                                                                   *)

\* From its page a product is published if some live variant has a price.
CheckPublish(e) ==
    /\ draft[e].at = "waiting"
    /\ \/ draft' = [draft EXCEPT ![e] = [at |-> "publishing", began |-> now]]
       \/ Answer(e)
    /\ UNCHANGED <<now, product, text, stamped, unstamped, erased>>

CommitPublish(e) ==
    /\ draft[e].at = "publishing"
    /\ Stamp([product EXCEPT !.status = "active"], draft[e].began)
    /\ unstamped' = (unstamped \/ Backwards(draft[e].began))
    /\ Answer(e)
    /\ UNCHANGED <<now, text, erased>>

\* The requests below read nothing of the row.  All they carry over their awaits
\* is the time they began, any time so far.
Late(row, began) ==
    /\ Stamp(row, began)
    /\ unstamped' = (unstamped \/ Backwards(began))
    /\ UNCHANGED <<now, text, draft, erased>>

\* The list asks for no price.
SetStatus(status, began) == Late([product EXCEPT !.status = status], began)

ArchiveProduct(began) == Late([product EXCEPT !.status = "archived", !.archived = TRUE], began)

RestoreProduct(began) == Late([product EXCEPT !.status = "draft", !.archived = FALSE], began)

\* A flag of the featured page: only updated_at matters here.  The clock is read
\* as the statement is sent, which then waits for a connection.
FeatureProduct(began) == Late(product, began)

--------------------------------------------------------------------------------
ProductNext ==
    \/ MsPasses
    \/ \E e \in Author : \/ OpenEditor(e) \/ CheckDetails(e) \/ CommitDetails(e)
                         \/ CheckPublish(e) \/ CommitPublish(e)
    \/ ImportName
    \/ \E began \in 1..now :
          \/ \E status \in {"draft", "active"} : SetStatus(status, began)
          \/ ArchiveProduct(began) \/ RestoreProduct(began) \/ FeatureProduct(began)

ProductSpec == ProductInit /\ [][ProductNext]_productVars

--------------------------------------------------------------------------------
(* Properties.                                                               *)

ProductTypeOK ==
    /\ now \in Nat
    /\ product \in [status : {"draft", "active", "archived"}, archived : BOOLEAN, updated : Nat]
    /\ text \in Author \cup {"creation", "import"}
    /\ draft \in [Author -> [at : {"waiting", "closed"}]
                    \cup [at : {"editing"}, loaded : Nat, saw : Author \cup {"creation", "import"}]
                    \cup [at : {"checked"}, began : Nat, saw : Author \cup {"creation", "import"},
                          met : Author \cup {"creation", "import"}]
                    \cup [at : {"publishing"}, began : Nat]]
    /\ stamped \subseteq Nat
    /\ unstamped \in BOOLEAN /\ erased \in BOOLEAN

\* A colleague's name or description is never replaced by somebody who loaded
\* the page before it was written and saved after: the conflict guard stops the
\* save, except when both saves were between their check and their write, when
\* two carried one millisecond, when a slow request of any kind (a save, a
\* publication, an archival, a flag) set updated_at back, or when an import wrote
\* the name.
NoSilentOverwrite == unstamped \/ ~erased
================================================================================
