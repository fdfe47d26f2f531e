----------------------------- MODULE SearchIndex -----------------------------
(***************************************************************************)
(* The search tables on MariaDB: app/infrastructure/search/indexer.ts,     *)
(* read by app/infrastructure/search/predicate.ts.                         *)
(*                                                                         *)
(* The catalogue changes on its own: no write of it calls the indexer, so  *)
(* the tables follow only when somebody runs a rebuild                     *)
(* (scripts/hostinger/search-rebuild.mjs).  A rebuild is many              *)
(* transactions and may stop between two of them.                          *)
(***************************************************************************)
EXTENDS Integers, Sequences, FiniteSets, SequencesExt, FiniteSetsExt

CONSTANTS
    Items,      \* products are 1..Items, in the order of their ids
    Tongue,     \* the locales a product may be translated into
    BatchSize,  \* rows in one transaction of a rebuild (50 in the code)
    Rebuild,    \* runs of the rebuild
    MaxWordings \* bound: wordings one translation has over time

ASSUME SearchIndexAssumption ==
    /\ Items \in Nat
    /\ IsFiniteSet(Tongue)
    /\ BatchSize \in Nat \ {0}
    /\ MaxWordings \in Nat \ {0}

VARIABLES
    wording,    \* wording[i][g]: the product_translations row, 0 when there is none
    document,   \* document[i][g]: wording in product_search_documents, 0 when no row
    token,      \* token[i][g]: wording whose words product_search_tokens holds, or 0
    rebuild,    \* rebuild[r]: locals of a run
    disturbed   \* history: since the latest run began, the catalogue or another run
                \*   wrote, or a run stopped

searchVars == <<wording, document, token, rebuild, disturbed>>

Translation == (1..Items) \X Tongue
Nothing == [i \in 1..Items |-> [g \in Tongue |-> 0]]
Waiting == [at |-> "waiting"]

\* The search tables are created empty, beside a catalogue that may be full.
SearchInit ==
    /\ wording \in [1..Items -> [Tongue -> {0, 1}]]
    /\ document = Nothing
    /\ token = Nothing
    /\ rebuild = [r \in Rebuild |-> Waiting]
    /\ disturbed = FALSE

Going(r) == rebuild[r].at \notin {"waiting", "done", "stopped"}

\* A new product, a new name, an import: the translation's words change.
Reword(i, g) ==
    /\ wording[i][g] < MaxWordings
    /\ wording' = [wording EXCEPT ![i][g] = @ + 1]
    /\ disturbed' = TRUE
    /\ UNCHANGED <<document, token, rebuild>>

--------------------------------------------------------------------------------
(* A rebuild.                                                                *)

\* ORDER BY product_id: the translations of one product come in any order.
Ordered(rows) == \A m, n \in 1..Len(rows) : m < n => rows[m].item <= rows[n].item
LoadedRows == {rows \in SetToSeqs({[item |-> x[1], tongue |-> x[2], words |-> wording[x[1]][x[2]]] :
                                   x \in {y \in Translation : wording[y[1]][y[2]] # 0}}) : Ordered(rows)}

LoadCatalogue(r) ==
    /\ rebuild[r] = Waiting
    /\ \E rows \in LoadedRows : rebuild' = [rebuild EXCEPT ![r] = [at |-> "loaded", rows |-> rows]]
    /\ disturbed' = \E o \in Rebuild \ {r} : Going(o)
    /\ UNCHANGED <<wording, document, token>>

EmptyTokens(r) ==
    /\ rebuild[r].at = "loaded"
    /\ token' = Nothing
    /\ rebuild' = [rebuild EXCEPT ![r].at = "no tokens"]
    /\ UNCHANGED <<wording, document, disturbed>>

EmptyDocuments(r) ==
    /\ rebuild[r].at = "no tokens"
    /\ document' = Nothing
    /\ rebuild' = [rebuild EXCEPT ![r].at = "filling"]
    /\ UNCHANGED <<wording, token, disturbed>>

\* reindexStatements: the tokens of every product in the batch go, those of
\* the batch's rows come; documents are upserted by product and locale.
Batch_Short(rows) == SubSeq(rows, 1, BatchSize - 1)
Batch(rows) == SubSeq(rows, 1, Min({BatchSize, Len(rows)}))
Rest(rows) == SubSeq(rows, Min({BatchSize, Len(rows)}) + 1, Len(rows))

WordsIn(rows, i, g, otherwise) ==
    LET mine == {n \in 1..Len(rows) : rows[n].item = i /\ rows[n].tongue = g} IN
    IF mine = {} THEN otherwise ELSE rows[CHOOSE n \in mine : TRUE].words

Retokened(rows) ==
    [i \in 1..Items |->
        IF \E n \in 1..Len(rows) : rows[n].item = i
        THEN [g \in Tongue |-> WordsIn(rows, i, g, 0)]
        ELSE token[i]]

FillBatch(r) ==
    LET rows == rebuild[r].rows IN
    /\ rebuild[r].at = "filling"
    /\ rows # <<>>
    /\ token' = Retokened(Batch(rows))
    /\ document' = [i \in 1..Items |-> [g \in Tongue |-> WordsIn(Batch(rows), i, g, document[i][g])]]
    /\ rebuild' = [rebuild EXCEPT ![r].rows = Rest(rows)]
    /\ UNCHANGED <<wording, disturbed>>

FinishRebuild(r) ==
    /\ rebuild[r].at = "filling"
    /\ rebuild[r].rows = <<>>
    /\ rebuild' = [rebuild EXCEPT ![r] = [at |-> "done"]]
    /\ UNCHANGED <<wording, document, token, disturbed>>

\* The script is stopped, or one of its transactions fails.
StopRebuild(r) ==
    /\ Going(r)
    /\ rebuild' = [rebuild EXCEPT ![r] = [at |-> "stopped"]]
    /\ disturbed' = TRUE
    /\ UNCHANGED <<wording, document, token>>

--------------------------------------------------------------------------------
SearchNext ==
    \/ \E i \in 1..Items, g \in Tongue : Reword(i, g)
    \/ \E r \in Rebuild :
          \/ LoadCatalogue(r)
          \/ EmptyTokens(r)
          \/ EmptyDocuments(r)
          \/ FillBatch(r)
          \/ FinishRebuild(r)
          \/ StopRebuild(r)

SearchSpec == SearchInit /\ [][SearchNext]_searchVars

--------------------------------------------------------------------------------
(* Properties.                                                               *)

SearchTypeOK ==
    /\ wording \in [1..Items -> [Tongue -> 0..MaxWordings]]
    /\ document \in [1..Items -> [Tongue -> 0..MaxWordings]]
    /\ token \in [1..Items -> [Tongue -> 0..MaxWordings]]
    /\ disturbed \in BOOLEAN
    /\ \A r \in Rebuild : rebuild[r].at \in {"waiting", "loaded", "no tokens", "filling", "done", "stopped"}

\* A row of product i can be the last of one batch and the first of the next.
TranslationsOf(i) == Cardinality({g \in Tongue : wording[i][g] # 0})
RowsBefore(i) == MapThenSumSet(TranslationsOf, 1..(i - 1))
Straddles(i) == TranslationsOf(i) > 1 /\ RowsBefore(i) \div BatchSize # (RowsBefore(i) + TranslationsOf(i) - 1) \div BatchSize

\* Once the latest rebuild has ended and nothing disturbed it, every
\* translation is found: its document holds its present words and so do its
\* tokens.  The tokens have one exception, and only one: a product whose
\* translations were written by two batches keeps the tokens of the second.
IndexComplete ==
    ( /\ ~disturbed
      /\ \E r \in Rebuild : rebuild[r].at = "done"
      /\ ~\E r \in Rebuild : Going(r) ) =>
    \A i \in 1..Items, g \in Tongue :
        /\ document[i][g] = wording[i][g]
        /\ token[i][g] = wording[i][g] \/ (Straddles(i) /\ token[i][g] = 0)
================================================================================
