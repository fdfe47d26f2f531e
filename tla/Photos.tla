--------------------------------- MODULE Photos ---------------------------------
(***************************************************************************)
(* The photographs of products:                                            *)
(*                                                                         *)
(*   their rows           app/routes/admin/product-detail.tsx              *)
(*   their objects        app/infrastructure/storage/filesystem.ts         *)
(*   what is accepted     app/domain/media/image.ts                        *)
(*                                                                         *)
(* The key of an object is made of the product and the content, so one     *)
(* photograph uploaded twice has one object; a duplicate of a product has  *)
(* rows of its own for the same objects.  On disk an object is two files,  *)
(* the bytes and a sidecar with its type.  The order of a gallery is left  *)
(* out: where the code takes the next photograph, any may be it.           *)
(***************************************************************************)
EXTENDS Naturals, FiniteSets, Functions

CONSTANTS
    Product,
    Content,        \* the photographs staff have
    PhotoRow,       \* ids of product_images rows
    Uploading,      \* submissions of the upload form
    Deleting,       \* submissions of "delete"
    Copying         \* submissions of "duplicate"

ASSUME PhotosAssumption == IsFiniteSet(PhotoRow)

Key == Product \X Content

VARIABLES
    photo,      \* photo[i]: the product_images row, none or gone
    bytes,      \* keys whose file is on disk
    sidecar,    \* keys whose sidecar is on disk
    upload,     \* upload[u]: locals of an upload
    delete,     \* delete[d]: locals of a deletion
    copying,    \* copying[c]: locals of a duplication
    gambled,    \* history: an object was removed that somebody began to use meanwhile
    blurred     \* history: products whose primary was judged from an outdated read

photosVars == <<photo, bytes, sidecar, upload, delete, copying, gambled, blurred>>

\* The id of a deleted row is not given again.
NoPhoto   == [at |-> "none"]
GonePhoto == [at |-> "gone"]
There      == {i \in PhotoRow : photo[i].at = "row"}
Rows(p)    == {i \in There : photo[i].of = p}
RowsFor(k) == {i \in There : photo[i].key = k}
Primaries(p) == {i \in Rows(p) : photo[i].primary}
Free == {i \in PhotoRow : photo[i] = NoPhoto}

PhotosInit ==
    /\ photo = [i \in PhotoRow |-> NoPhoto]
    /\ bytes = {}
    /\ sidecar = {}
    /\ upload = [u \in Uploading |-> [at |-> "new"]]
    /\ delete = [d \in Deleting |-> [at |-> "new"]]
    /\ copying = [c \in Copying |-> [at |-> "new"]]
    /\ gambled = FALSE
    /\ blurred = {}

InProgress == {"checked", "described", "stored"}
NewRow(p, k, primary) == [at |-> "row", of |-> p, key |-> k, primary |-> primary]

--------------------------------------------------------------------------------
(* Uploading: the object first, then the row.                                *)

CheckUpload(u, p, c) ==
    /\ upload[u].at = "new"
    /\ Rows(p) \cap RowsFor(<<p, c>>) = {}
    /\ upload' = [upload EXCEPT ![u] =
                    [at |-> "checked", of |-> p, key |-> <<p, c>>, first |-> Rows(p) = {}]]
    /\ UNCHANGED <<photo, bytes, sidecar, delete, copying, gambled, blurred>>

\* FilesystemObjectStore.put: the sidecar, then the bytes.
PutSidecar(u) ==
    /\ upload[u].at = "checked"
    /\ sidecar' = sidecar \cup {upload[u].key}
    /\ upload' = [upload EXCEPT ![u].at = "described"]
    /\ UNCHANGED <<photo, bytes, delete, copying, gambled, blurred>>

PutBytes(u) ==
    /\ upload[u].at = "described"
    /\ bytes' = bytes \cup {upload[u].key}
    /\ upload' = [upload EXCEPT ![u].at = "stored"]
    /\ UNCHANGED <<photo, sidecar, delete, copying, gambled, blurred>>

\* The first photograph is the primary one: there were none when it was checked.
InsertPhoto(u, i) ==
    LET j == upload[u] IN
    /\ j.at = "stored"
    /\ photo[i] = NoPhoto
    /\ photo' = [photo EXCEPT ![i] = NewRow(j.of, j.key, j.first)]
    /\ blurred' = IF j.first = (Rows(j.of) = {}) THEN blurred ELSE blurred \cup {j.of}
    /\ upload' = [upload EXCEPT ![u] = [at |-> "over"]]
    /\ UNCHANGED <<bytes, sidecar, delete, copying, gambled>>

\* A write fails or the process dies.
StopUpload(u) ==
    /\ upload[u].at \in InProgress
    /\ upload' = [upload EXCEPT ![u] = [at |-> "over"]]
    /\ UNCHANGED <<photo, bytes, sidecar, delete, copying, gambled, blurred>>

--------------------------------------------------------------------------------
(* Choosing the primary photograph: all are cleared, then the chosen one is  *)
(* marked, if it still is there.                                             *)

PrimaryAfter_Added(p, i) == Primaries(p) \cup ({i} \cap Rows(p))
PrimaryAfter(p, i) == {i} \cap Rows(p)

SetPrimary(p, i) ==
    /\ photo' = [x \in PhotoRow |-> IF x \in Rows(p)
                                    THEN [photo[x] EXCEPT !.primary = x \in PrimaryAfter(p, i)]
                                    ELSE photo[x]]
    /\ blurred' = IF i \in Rows(p) THEN blurred ELSE blurred \cup {p}
    /\ UNCHANGED <<bytes, sidecar, upload, delete, copying, gambled>>

--------------------------------------------------------------------------------
(* Deleting: the row, the object if nothing else refers to it, and another   *)
(* primary if it was the primary.                                            *)

CountReferences(d, i) ==
    /\ delete[d].at = "new"
    /\ i \in There
    /\ delete' = [delete EXCEPT ![d] =
                    [at |-> "counted", row |-> i, of |-> photo[i].of, key |-> photo[i].key,
                     primary |-> photo[i].primary, others |-> RowsFor(photo[i].key) \ {i}]]
    /\ UNCHANGED <<photo, bytes, sidecar, upload, copying, gambled, blurred>>

LastReference_Always(d) == TRUE
LastReference(d) == delete[d].others = {}

ThenPromote(d) == IF delete[d].primary THEN "promoting" ELSE "over"

DeleteRow(d) ==
    LET j == delete[d] IN
    /\ j.at = "counted"
    /\ photo' = [photo EXCEPT ![j.row] = GonePhoto]
    /\ blurred' = IF j.row \in Rows(j.of) /\ photo[j.row].primary = j.primary
                  THEN blurred ELSE blurred \cup {j.of}
    /\ delete' = [delete EXCEPT ![d].at = IF LastReference(d) THEN "unlinking" ELSE ThenPromote(d)]
    /\ UNCHANGED <<bytes, sidecar, upload, copying, gambled>>

\* Whoever came to use the object since the references were counted.
UsesAnew(d) ==
    \/ RowsFor(delete[d].key) \ delete[d].others # {}
    \/ \E u \in Uploading : upload[u].at \in {"described", "stored"} /\ upload[u].key = delete[d].key
    \/ \E c \in Copying : /\ copying[c].at = "read"
                          /\ \E i \in DOMAIN copying[c].rows : copying[c].rows[i].key = delete[d].key

\* FilesystemObjectStore.delete: the bytes, then the sidecar.
UnlinkBytes(d) ==
    /\ delete[d].at = "unlinking"
    /\ bytes' = bytes \ {delete[d].key}
    /\ gambled' = (gambled \/ UsesAnew(d))
    /\ delete' = [delete EXCEPT ![d].at = "unlinked"]
    /\ UNCHANGED <<photo, sidecar, upload, copying, blurred>>

UnlinkSidecar(d) ==
    /\ delete[d].at = "unlinked"
    /\ sidecar' = sidecar \ {delete[d].key}
    /\ gambled' = (gambled \/ UsesAnew(d) \/ delete[d].key \in bytes)
    /\ delete' = [delete EXCEPT ![d].at = ThenPromote(d)]
    /\ UNCHANGED <<photo, bytes, upload, copying, blurred>>

FindNext(d) ==
    LET p == delete[d].of IN
    /\ delete[d].at = "promoting"
    /\ IF Rows(p) = {}
       THEN delete' = [delete EXCEPT ![d].at = "over"]
       ELSE \E i \in Rows(p) : delete' = [delete EXCEPT ![d].at = "found", ![d].row = i]
    /\ UNCHANGED <<photo, bytes, sidecar, upload, copying, gambled, blurred>>

Promote(d) ==
    LET j == delete[d] IN
    /\ j.at = "found"
    /\ photo' = IF j.row \notin There THEN photo ELSE [photo EXCEPT ![j.row].primary = TRUE]
    /\ blurred' = IF j.row \in Rows(j.of) /\ Primaries(j.of) = {}
                  THEN blurred ELSE blurred \cup {j.of}
    /\ delete' = [delete EXCEPT ![d].at = "over"]
    /\ UNCHANGED <<bytes, sidecar, upload, copying, gambled>>

StopDelete(d) ==
    /\ delete[d].at \notin {"new", "over"}
    /\ blurred' = IF delete[d].primary THEN blurred \cup {delete[d].of} ELSE blurred
    /\ delete' = [delete EXCEPT ![d].at = "over"]
    /\ UNCHANGED <<photo, bytes, sidecar, upload, copying, gambled>>

--------------------------------------------------------------------------------
(* Duplicating: new rows, the same keys, in a product without photographs.   *)

ReadPhotos(c, p) ==
    /\ copying[c].at = "new"
    /\ Rows(p) # {}
    /\ copying' = [copying EXCEPT ![c] = [at |-> "read", of |-> p, rows |-> [i \in Rows(p) |-> photo[i]]]]
    /\ UNCHANGED <<photo, bytes, sidecar, upload, delete, gambled, blurred>>

FreshKeys(q) == Rows(q) = {} /\ \A u \in Uploading : upload[u].at \in InProgress => upload[u].of # q

WithCopies(rows, id, q) ==
    [x \in PhotoRow |-> IF \E i \in DOMAIN rows : id[i] = x
                        THEN LET i == CHOOSE i \in DOMAIN rows : id[i] = x
                             IN  NewRow(q, rows[i].key, rows[i].primary)
                        ELSE photo[x]]

\* A product whose primary is in doubt passes the doubt on.
InsertCopies(c, q) ==
    LET rows == copying[c].rows IN
    /\ copying[c].at = "read"
    /\ q # copying[c].of /\ FreshKeys(q)
    /\ \E id \in Injection(DOMAIN rows, Free) : photo' = WithCopies(rows, id, q)
    /\ blurred' = IF Cardinality({i \in DOMAIN rows : rows[i].primary}) = 1
                  THEN blurred ELSE blurred \cup {q}
    /\ copying' = [copying EXCEPT ![c] = [at |-> "over"]]
    /\ UNCHANGED <<bytes, sidecar, upload, delete, gambled>>

--------------------------------------------------------------------------------
PhotosNext ==
    \/ \E u \in Uploading :
          \/ \E p \in Product, c \in Content : CheckUpload(u, p, c)
          \/ PutSidecar(u) \/ PutBytes(u)
          \/ \E i \in PhotoRow : InsertPhoto(u, i)
          \/ StopUpload(u)
    \/ \E p \in Product, i \in PhotoRow : SetPrimary(p, i)
    \/ \E d \in Deleting :
          \/ \E i \in PhotoRow : CountReferences(d, i)
          \/ DeleteRow(d) \/ UnlinkBytes(d) \/ UnlinkSidecar(d)
          \/ FindNext(d) \/ Promote(d) \/ StopDelete(d)
    \/ \E c \in Copying, p \in Product : ReadPhotos(c, p) \/ InsertCopies(c, p)

PhotosSpec == PhotosInit /\ [][PhotosNext]_photosVars

--------------------------------------------------------------------------------
(* Properties.                                                               *)

PhotosTypeOK ==
    /\ photo \in [PhotoRow -> {NoPhoto, GonePhoto}
                    \cup [at : {"row"}, of : Product, key : Key, primary : BOOLEAN]]
    /\ bytes \subseteq Key /\ sidecar \subseteq Key
    /\ \A u \in Uploading : upload[u].at \in InProgress \cup {"new", "over"}
    /\ \A d \in Deleting : delete[d].at \in
          {"new", "counted", "unlinking", "unlinked", "promoting", "found", "over"}
    /\ \A c \in Copying : copying[c].at \in {"new", "read", "over"}
    /\ gambled \in BOOLEAN /\ blurred \subseteq Product

\* No photograph on the shop is broken, and none is served without its type,
\* whatever is deleted, shared with a duplicate, or left half done by a crash:
\* only an object somebody began to use after its references were counted may
\* be missing.
PhotosServed ==
    gambled \/ /\ \A i \in There : photo[i].key \in bytes
               /\ bytes \subseteq sidecar

\* A product with photographs has exactly one primary, once the deletion of the
\* former one is through, unless a request judged from rows that others changed
\* meanwhile.
Settling(p) == \E d \in Deleting : delete[d].at \notin {"new", "counted", "over"}
                                     /\ delete[d].of = p /\ delete[d].primary
OnePrimary ==
    \A p \in Product \ blurred : Rows(p) # {} /\ ~Settling(p) => Cardinality(Primaries(p)) = 1
================================================================================
