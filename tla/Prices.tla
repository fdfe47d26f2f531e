--------------------------------- MODULE Prices ---------------------------------
(***************************************************************************)
(* The prices of the default list and the history that evidences them:     *)
(*                                                                         *)
(*   a price of a variant      app/routes/admin/product-detail.tsx         *)
(*   a price in the list       app/routes/admin/products.tsx               *)
(*   a new product             app/application/commands/create-product.ts  *)
(*   a file                    app/domain/import/product-import.ts,        *)
(*                             app/routes/admin/imports.tsx                *)
(*                                                                         *)
(* A variant is named by its SKU, which is unique over the whole catalogue *)
(* and never given up.  Names of an import are module ProductPage's.       *)
(***************************************************************************)
EXTENDS Naturals, Sequences

CONSTANTS
    Sku,
    Amount,         \* the prices staff type
    Pricing,        \* submissions of a price
    File,           \* files: sequences of [sku, amount, name]; name: it carries a name
    NoPrice

FileRow == [sku : Sku, amount : Amount \cup {NoPrice}, name : BOOLEAN]

ASSUME PricesAssumption ==
    /\ Amount \subseteq Nat
    /\ NoPrice \notin Nat
    /\ File \subseteq Seq(FileRow)

VARIABLES
    listed,     \* SKUs that exist
    shelved,    \* those whose variant or product is archived
    price,      \* price[v]: variant_prices.amount, or NoPrice
    history,    \* history[v]: price_history rows, oldest first
    pricing,    \* pricing[e]: locals of a submission
    import,     \* the import under way
    copies,     \* history: variants that are duplicates
    overtaken   \* history: variants whose price moved between a read and the write

pricesVars == <<listed, shelved, price, history, pricing, import, copies, overtaken>>

\* The first price opens the history.
Opening(a) == IF a = NoPrice THEN <<>> ELSE <<[old |-> NoPrice, new |-> a, open |-> TRUE]>>

PricesInit ==
    /\ listed = {}
    /\ shelved = {}
    /\ price = [v \in Sku |-> NoPrice]
    /\ history = [v \in Sku |-> <<>>]
    /\ pricing = [e \in Pricing |-> [at |-> "new"]]
    /\ import = [at |-> "none"]
    /\ copies = {}
    /\ overtaken = {}

\* A product, or a variant of one.  The SKU is looked up for a clear message;
\* its index decides.
AddSku(v, a) ==
    /\ v \notin listed
    /\ listed' = listed \cup {v}
    /\ price' = [price EXCEPT ![v] = a]
    /\ history' = [history EXCEPT ![v] = Opening(a)]
    /\ UNCHANGED <<shelved, pricing, copies, overtaken>>

CreateSku(v, a) == AddSku(v, a) /\ UNCHANGED import

\* A duplicate is priced like its original, and has no history yet.
DuplicateSku(v, w) ==
    /\ v \in listed \ shelved /\ w \notin listed
    /\ listed' = listed \cup {w}
    /\ price' = [price EXCEPT ![w] = price[v]]
    /\ copies' = copies \cup {w}
    /\ UNCHANGED <<shelved, history, pricing, import, overtaken>>

ShelveSku(v) ==
    /\ v \in listed \ shelved
    /\ shelved' = shelved \cup {v}
    /\ UNCHANGED <<listed, price, history, pricing, import, copies, overtaken>>

--------------------------------------------------------------------------------
(* One price.  The page may set the first price of a variant, the list only  *)
(* changes one.  A page may be older than the archiving of its variant.      *)

Settable(from, current, a) == current # a /\ (from = "page" \/ current # NoPrice)

ReadPrice(e, v, from, a) ==
    /\ pricing[e].at = "new"
    /\ v \in listed
    /\ Settable(from, price[v], a)
    /\ pricing' = [pricing EXCEPT ![e] = [at |-> "read", of |-> v, was |-> price[v], to |-> a]]
    /\ UNCHANGED <<listed, shelved, price, history, import, copies, overtaken>>

\* Close the open row, then open a new one.
WithRow_BothOpen(rows, was, to) == Append(rows, [old |-> was, new |-> to, open |-> TRUE])
WithRow(rows, was, to) ==
    Append([i \in DOMAIN rows |-> [rows[i] EXCEPT !.open = FALSE]],
           [old |-> was, new |-> to, open |-> TRUE])

ChangePrice(v, was, to) ==
    /\ price' = [price EXCEPT ![v] = to]
    /\ history' = [history EXCEPT ![v] = WithRow(@, was, to)]
    /\ overtaken' = IF price[v] = was THEN overtaken ELSE overtaken \cup {v}

\* A first price is inserted, and (variant, price list) is unique.
CommitPrice(e) ==
    LET j == pricing[e] IN
    /\ j.at = "read"
    /\ j.was = NoPrice => price[j.of] = NoPrice
    /\ ChangePrice(j.of, j.was, j.to)
    /\ pricing' = [pricing EXCEPT ![e] = [at |-> "over"]]
    /\ UNCHANGED <<listed, shelved, import, copies>>

RollBackPrice(e) ==
    LET j == pricing[e] IN
    /\ j.at = "read"
    /\ j.was = NoPrice /\ price[j.of] # NoPrice
    /\ pricing' = [pricing EXCEPT ![e] = [at |-> "over"]]
    /\ UNCHANGED <<listed, shelved, price, history, import, copies, overtaken>>

--------------------------------------------------------------------------------
(* A file.  The plan is made anew when the file is applied.                  *)

InSnapshot(v) == v \in listed \ shelved

FirstOfItsSku(rows, i) == \A k \in 1..(i - 1) : rows[k].sku # rows[i].sku

ChangesNothing(r) == ~r.name /\ r.amount \in {NoPrice, price[r.sku]}

\* A second row of a SKU is refused, and so is a product without a name.
Outcome(rows, i) ==
    LET r == rows[i] IN
    CASE ~FirstOfItsSku(rows, i)            -> "error"
      [] FirstOfItsSku(rows, i) /\ ~InSnapshot(r.sku) -> IF r.name THEN "create" ELSE "error"
      [] FirstOfItsSku(rows, i) /\ InSnapshot(r.sku)  -> IF ChangesNothing(r) THEN "unchanged" ELSE "update"

Planned(rows) == [i \in DOMAIN rows |-> [row |-> rows[i], outcome |-> Outcome(rows, i)]]

\* The row of the job already says applied.
ApplyImport(rows) ==
    LET plan == Planned(rows)
        todo == {i \in DOMAIN plan : plan[i].outcome \in {"create", "update"}} IN
    /\ import.at = "none"
    /\ todo # {}
    /\ import' = [at |-> "row", plan |-> plan, left |-> todo, done |-> {}, was |-> NoPrice]
    /\ UNCHANGED <<listed, shelved, price, history, pricing, copies, overtaken>>

\* The rows are taken in the order of the file.
Turn == CHOOSE i \in import.left : \A k \in import.left : i <= k
Row  == import.plan[Turn].row
RowIs(outcome) == import.plan[Turn].outcome = outcome
RowDone == import' = [at |-> IF import.left = {Turn} THEN "over" ELSE "row", plan |-> import.plan,
                      left |-> import.left \ {Turn}, done |-> import.done \cup {Turn}, was |-> NoPrice]

\* A product of its own; a SKU that is taken is reported.
ImportNewProduct ==
    /\ import.at = "row" /\ RowIs("create")
    /\ \/ AddSku(Row.sku, Row.amount)
       \/ Row.sku \in listed /\ UNCHANGED <<listed, shelved, price, history, pricing, copies, overtaken>>
    /\ RowDone

\* The price is read again for its row ...
ReadImportRow ==
    /\ import.at = "row" /\ RowIs("update")
    /\ import' = [import EXCEPT !.at = "read", !.was = price[Row.sku]]
    /\ UNCHANGED <<listed, shelved, price, history, pricing, copies, overtaken>>

\* ... and changed if there is one.
CommitImportRow ==
    /\ import.at = "read"
    /\ IF import.was # NoPrice /\ Row.amount \notin {NoPrice, import.was}
       THEN ChangePrice(Row.sku, import.was, Row.amount)
       ELSE UNCHANGED <<price, history, overtaken>>
    /\ RowDone
    /\ UNCHANGED <<listed, shelved, pricing, copies>>

\* A statement throws: what is left of the file is not applied.
StopImport ==
    /\ import.at \in {"row", "read"}
    /\ import' = [import EXCEPT !.at = "over"]
    /\ UNCHANGED <<listed, shelved, price, history, pricing, copies, overtaken>>

--------------------------------------------------------------------------------
PricesNext ==
    \/ \E v \in Sku :
          \/ \E a \in Amount \cup {NoPrice} : CreateSku(v, a)
          \/ \E w \in Sku : DuplicateSku(v, w)
          \/ ShelveSku(v)
    \/ \E e \in Pricing :
          \/ \E v \in Sku, from \in {"page", "list"}, a \in Amount : ReadPrice(e, v, from, a)
          \/ CommitPrice(e)
          \/ RollBackPrice(e)
    \/ \E rows \in File : ApplyImport(rows)
    \/ ImportNewProduct \/ ReadImportRow \/ CommitImportRow \/ StopImport

PricesSpec == PricesInit /\ [][PricesNext]_pricesVars

--------------------------------------------------------------------------------
(* Properties.                                                               *)

PriceRow == [old : Amount \cup {NoPrice}, new : Amount, open : BOOLEAN]

PricesTypeOK ==
    /\ listed \subseteq Sku
    /\ shelved \subseteq listed
    /\ price \in [Sku -> Amount \cup {NoPrice}]
    /\ history \in [Sku -> Seq(PriceRow)]
    /\ pricing \in [Pricing -> [at : {"new", "over"}]
          \cup [at : {"read"}, of : Sku, was : Amount \cup {NoPrice}, to : Amount]]
    /\ import.at \in {"none", "row", "read", "over"}
    /\ copies \subseteq listed /\ overtaken \subseteq Sku

\* The evidence for a former price: every price but a duplicate's first one has
\* its row; of the rows of a variant only the last is open, and it has the price
\* the variant sells at; and whatever page, list or file changed it, each row
\* starts from the price the row before it ended with, unless two changes of
\* one variant crossed.  One file changes one variant once, although its rows
\* are planned from one snapshot and applied one by one.
PriceEvidenced ==
    /\ import.at # "none" =>
          \A i, k \in import.done : import.plan[i].row.sku = import.plan[k].row.sku => i = k
    /\ \A v \in Sku :
          LET rows == history[v] IN
          /\ price[v] # NoPrice => rows # <<>> \/ v \in copies
          /\ rows # <<>> => rows[Len(rows)].open /\ rows[Len(rows)].new = price[v]
          /\ \A i \in 1..(Len(rows) - 1) :
                ~rows[i].open /\ (v \in overtaken \/ rows[i + 1].old = rows[i].new)
================================================================================
