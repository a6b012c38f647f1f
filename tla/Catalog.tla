------------------------------- MODULE Catalog -------------------------------
(***************************************************************************)
(* One product in the three stores that hold a copy of it: its row in      *)
(* PostgreSQL, the entry "product:<id>" of Valkey (cache-aside, TTL 60 s)  *)
(* and its document in Elasticsearch (app/routers/products.py and the      *)
(* invalidation at the end of the checkout, orders.py:162-168).  No        *)
(* operation relates the copies of two products, so one is enough.         *)
(*                                                                         *)
(* Contents are abstracted to counters: "version" counts the committed     *)
(* changes of the row, "searchable" those of the columns that are written  *)
(* into the search document: all but image_url, stock included.            *)
(***************************************************************************)
EXTENDS Integers, FiniteSets

CONSTANTS
    Gets,           \* GET /products/{id} requests, each sent once
    Writers         \* requests that write the row, each sent once

Kinds == {"create", "put", "image", "checkout"}

VARIABLES
    version,        \* the committed row; 0 = no row yet
    searchable,     \* the part of it that goes into the document
    cached,         \* the version in the cache; 0 = no entry
    timed,          \* does the cache entry have a TTL?
    indexed,        \* the searchable version in the document; 0 = none
    getStep,        \* getStep[g]: where get_product of g stands
    seen,           \* seen[g]: the version that g holds; 0 = none
    writeStep,      \* writeStep[w]: where the writing handler stands
    kind,           \* kind[w]: which handler it is
    snapshot,       \* snapshot[w]: searchable version after db.refresh
    overtaken,      \* history: did a commit overtake the fill of the entry?
    sold            \* history: has no writer read the row since a sale of it?

copies == <<version, searchable, cached, timed, indexed>>
getVars == <<getStep, seen>>
writeVars == <<writeStep, kind, snapshot>>
histories == <<overtaken, sold>>
catalogVars == <<copies, getVars, writeVars, histories>>

GetSteps == {"idle", "missed", "loaded", "answered", "notFound", "failed"}
WriteSteps == {"idle", "committed", "refreshed", "invalidated", "done",
               "failed"}

CatalogTypeOK ==
    /\ version \in Nat /\ searchable \in 0 .. version
    /\ cached \in 0 .. version /\ timed \in BOOLEAN
    /\ indexed \in 0 .. searchable
    /\ getStep \in [Gets -> GetSteps]
    /\ seen \in [Gets -> 0 .. version]
    /\ writeStep \in [Writers -> WriteSteps]
    /\ kind \in [Writers -> Kinds \cup {"none"}]
    /\ snapshot \in [Writers -> 0 .. searchable]
    /\ overtaken \in BOOLEAN /\ sold \in BOOLEAN

CatalogInit ==
    /\ version = 0 /\ searchable = 0
    /\ cached = 0 /\ timed = FALSE
    /\ indexed = 0
    /\ getStep = [g \in Gets |-> "idle"]
    /\ seen = [g \in Gets |-> 0]
    /\ writeStep = [w \in Writers |-> "idle"]
    /\ kind = [w \in Writers |-> "none"]
    /\ snapshot = [w \in Writers |-> 0]
    /\ overtaken = FALSE /\ sold = FALSE

-----------------------------------------------------------------------------
(* GET /products/{id}                                                      *)

\* A hit is answered from the cache; otherwise the database is next.
CacheGet(g) ==
    /\ getStep[g] = "idle"
    /\ getStep' = [getStep EXCEPT ![g] =
                      IF cached = 0 THEN "missed" ELSE "answered"]
    /\ UNCHANGED <<copies, seen, writeVars, histories>>

\* db.get; a 404 is not cached.
DbGet(g) ==
    /\ getStep[g] = "missed"
    /\ getStep' = [getStep EXCEPT ![g] =
                      IF version = 0 THEN "notFound" ELSE "loaded"]
    /\ seen' = [seen EXCEPT ![g] = version]
    /\ UNCHANGED <<copies, writeVars, histories>>

\* Mutant: SET instead of SETEX.
FillUntimed == FALSE

\* The entry carries a TTL.
FillTimed == TRUE

\* SETEX: value and TTL in one command, whatever happened since the read.
Fill(g) ==
    /\ getStep[g] = "loaded"
    /\ cached' = seen[g]
    /\ timed' = FillTimed
    /\ overtaken' = (seen[g] # version)
    /\ getStep' = [getStep EXCEPT ![g] = "answered"]
    /\ seen' = [seen EXCEPT ![g] = 0]
    /\ UNCHANGED <<version, searchable, indexed, writeVars, sold>>

GetStep(g) == CacheGet(g) \/ DbGet(g) \/ Fill(g)

GetAbort(g) ==
    /\ getStep[g] \in {"missed", "loaded"}
    /\ getStep' = [getStep EXCEPT ![g] = "failed"]
    /\ seen' = [seen EXCEPT ![g] = 0]
    /\ UNCHANGED <<copies, writeVars, histories>>

-----------------------------------------------------------------------------
(* The writers                                                             *)

\* What a commit adds to the two counters.  The commit of a PUT that changes
\* nothing sends no UPDATE; image_url is the one column that the document
\* leaves out; the stock that a checkout takes is in it.
Touches(k) ==
    CASE k = "put" -> {<<0, 0>>, <<1, 1>>}
      [] k = "image" -> {<<1, 0>>}
      [] OTHER -> {<<1, 1>>}

\* Mutant: the checkout leaves the cache alone.
AfterCommitNoDelete(k) ==
    IF k \in {"image", "checkout"} THEN "done" ELSE "committed"

\* What is left to do after the commit: an image upload is done.
AfterCommit(k) == IF k = "image" THEN "done" ELSE "committed"

WriteCommit(w) ==
    \E k \in Kinds : \E change \in Touches(k) :
        /\ writeStep[w] = "idle"
        /\ (k = "create") <=> (version = 0)
        /\ version' = version + change[1]
        /\ searchable' = searchable + change[2]
        /\ kind' = [kind EXCEPT ![w] = k]
        /\ writeStep' = [writeStep EXCEPT ![w] = AfterCommit(k)]
        /\ sold' = (sold \/ k = "checkout")
        /\ UNCHANGED <<cached, timed, indexed, getVars, snapshot, overtaken>>

\* Mutant: the object is not read again after the commit.
NotReread == indexed

\* The columns of the document, as SELECT finds them.
Reread == searchable

\* db.refresh reads the row again, as it is by now.
Refresh(w) ==
    /\ writeStep[w] = "committed"
    /\ kind[w] \in {"put", "create"}
    /\ snapshot' = [snapshot EXCEPT ![w] = Reread]
    /\ writeStep' = [writeStep EXCEPT ![w] =
                        IF kind[w] = "put" THEN "refreshed" ELSE "invalidated"]
    /\ sold' = FALSE
    /\ UNCHANGED <<copies, getVars, kind, overtaken>>

\* DEL product:<id>.  It is the last step of a checkout for this product.
Invalidate(w) ==
    /\ \/ kind[w] = "put" /\ writeStep[w] = "refreshed"
       \/ kind[w] = "checkout" /\ writeStep[w] = "committed"
    /\ cached' = 0
    /\ timed' = FALSE
    /\ overtaken' = FALSE
    /\ writeStep' = [writeStep EXCEPT ![w] =
                        IF kind[w] = "put" THEN "invalidated" ELSE "done"]
    /\ UNCHANGED <<version, searchable, indexed, getVars, kind, snapshot, sold>>

\* The document is built from the refreshed object.
Document(w) == snapshot[w]

\* _index_product_in_elasticsearch overwrites the document with the snapshot.
Index(w) ==
    /\ writeStep[w] = "invalidated"
    /\ indexed' = Document(w)
    /\ writeStep' = [writeStep EXCEPT ![w] = "done"]
    /\ UNCHANGED <<version, searchable, cached, timed, getVars, kind, snapshot,
                   histories>>

WriteStep(w) == WriteCommit(w) \/ Refresh(w) \/ Invalidate(w) \/ Index(w)

\* An exception or the end of the process after the commit: the row has
\* changed, and the rest of the handler is skipped.
WriteAbort(w) ==
    /\ writeStep[w] \in {"committed", "refreshed", "invalidated"}
    /\ writeStep' = [writeStep EXCEPT ![w] = "failed"]
    /\ UNCHANGED <<copies, getVars, kind, snapshot, histories>>

\* The TTL is over.
CacheExpire ==
    /\ cached # 0 /\ timed
    /\ cached' = 0 /\ timed' = FALSE /\ overtaken' = FALSE
    /\ UNCHANGED <<version, searchable, indexed, getVars, writeVars, sold>>

CatalogNext ==
    \/ \E g \in Gets : GetStep(g) \/ GetAbort(g)
    \/ \E w \in Writers : WriteStep(w) \/ WriteAbort(w)
    \/ CacheExpire

CatalogSpec == CatalogInit /\ [][CatalogNext]_catalogVars

\* A TTL runs out; no request is owed.
FairCatalogSpec == CatalogSpec /\ WF_catalogVars(CacheExpire)

-----------------------------------------------------------------------------
(* Properties                                                              *)

\* Why may the cache differ from the row?  A writer is on its way to its DEL
\* or never got there, an image was uploaded (the only write without a DEL),
\* or the fill was overtaken by a commit.  There is no fifth reason: no order
\* of fills, commits, deletes and expiries makes another stale entry.
StaleForAReason ==
    cached \notin {0, version} =>
        \/ overtaken
        \/ \E w \in Writers :
            \/ kind[w] = "image"
            \/ kind[w] = "put" /\ writeStep[w] \in {"committed", "refreshed"}
            \/ kind[w] = "checkout" /\ writeStep[w] = "committed"
            \/ writeStep[w] = "failed"

\* Whatever got into the cache, a stale entry does not live forever: it is
\* gone within a TTL (products.py:40-42, orders.py:164-165).
StaleEntriesEnd == []<>(cached \in {0, version})

\* Why may the search document lag behind the row?  A create or a PUT is on
\* its way to Index or was stopped before it, or an older snapshot was
\* indexed after a newer one, or a checkout took stock and no create or PUT
\* has read the row since: a checkout drops the cache entry and never writes
\* the document (orders.py:162-168).  Nothing else makes a difference.
Indexers == {w \in Writers : kind[w] \in {"create", "put"}}

LagsForAReason ==
    indexed # searchable =>
        \/ sold
        \/ \E w \in Indexers : writeStep[w] # "done"
        \/ \E v, w \in Indexers : snapshot[v] = indexed
                                /\ snapshot[w] = searchable

\* Every request that wrote the row is through, and none was stopped half-way.
AllThrough == \A w \in Writers : writeStep[w] \in {"idle", "done"}

\* Search results "always reflect the current state of the product"
\* (products.py:54-55): when all writers are through and no sale has gone
\* unread, the document shows the row.
IndexIsCurrent == AllThrough /\ ~sold => indexed = searchable
=============================================================================
