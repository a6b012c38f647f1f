---------------------------- MODULE CatalogProofs ----------------------------
(***************************************************************************)
(* Theorems about Catalog.tla, for any number of readers and writers of a  *)
(* product.                                                                *)
(***************************************************************************)
EXTENDS Catalog, TLAPS

-----------------------------------------------------------------------------
(* Types                                                                   *)

\* A request that has not committed has no kind yet, every commit found a row
\* or made it, and only a create or a PUT goes on to the document.
WritersHaveRows ==
    /\ \A w \in Writers :
          /\ writeStep[w] = "idle" <=> kind[w] = "none"
          /\ writeStep[w] # "idle" => version > 0
          /\ writeStep[w] \in {"refreshed", "invalidated"}
                => kind[w] \in {"create", "put"}
    /\ version > 0 => searchable > 0

CatalogTyped == CatalogTypeOK /\ WritersHaveRows

LEMMA CatalogTypedInit == CatalogInit => CatalogTyped
  <1> SUFFICES ASSUME CatalogInit PROVE CatalogTyped
    OBVIOUS
  <1>1. /\ version \in Nat /\ 0 \in 0 .. version /\ 0 \in 0 .. searchable
        /\ searchable = 0 /\ cached = 0 /\ indexed = 0
    BY DEF CatalogInit
  <1>2. CatalogTypeOK
    BY <1>1 DEF CatalogInit, CatalogTypeOK, GetSteps, WriteSteps
  <1>3. WritersHaveRows
    BY DEF CatalogInit, WritersHaveRows
  <1> QED
    BY <1>2, <1>3 DEF CatalogTyped

\* What a commit does to the row.
LEMMA CommitTouches ==
    ASSUME CatalogTyped, NEW w \in Writers, WriteCommit(w)
    PROVE  \E k \in Kinds : \E rows, columns \in {0, 1} :
              /\ version' = version + rows
              /\ searchable' = searchable + columns
              /\ columns <= rows
              /\ k = "create" <=> version = 0
              /\ k = "create" => columns = 1
              /\ columns = 1 => k # "image"
              /\ sold' = (sold \/ k = "checkout")
              /\ writeStep[w] = "idle"
              /\ kind' = [kind EXCEPT ![w] = k]
              /\ writeStep' = [writeStep EXCEPT ![w] =
                                  IF k = "image" THEN "done" ELSE "committed"]
  <1>1. PICK k \in Kinds : \E change \in Touches(k) :
           /\ writeStep[w] = "idle"
           /\ k = "create" <=> version = 0
           /\ version' = version + change[1]
           /\ searchable' = searchable + change[2]
           /\ sold' = (sold \/ k = "checkout")
           /\ kind' = [kind EXCEPT ![w] = k]
           /\ writeStep' = [writeStep EXCEPT ![w] =
                               IF k = "image" THEN "done" ELSE "committed"]
    BY DEF WriteCommit, AfterCommit
  <1>2. PICK change \in Touches(k) :
           version' = version + change[1] /\ searchable' = searchable + change[2]
    BY <1>1
  <1>3. /\ change[1] \in {0, 1} /\ change[2] \in {0, 1}
        /\ change[2] <= change[1]
        /\ k = "create" => change[2] = 1
        /\ change[2] = 1 => k # "image"
    BY DEF Touches
  <1> QED
    BY <1>1, <1>2, <1>3

LEMMA CatalogTypedStep ==
    CatalogTyped /\ [CatalogNext]_catalogVars => CatalogTyped'
  <1> SUFFICES ASSUME CatalogTyped, [CatalogNext]_catalogVars
      PROVE  CatalogTyped'
    OBVIOUS
  <1> USE DEF CatalogTyped, CatalogTypeOK, WritersHaveRows, GetSteps,
              WriteSteps, Kinds, copies, getVars, writeVars, histories
  <1>1. ASSUME NEW g \in Gets, GetStep(g) \/ GetAbort(g) PROVE CatalogTyped'
    <2>1. CASE CacheGet(g)
      BY <2>1 DEF CacheGet
    <2>2. CASE DbGet(g)
      BY <2>2 DEF DbGet
    <2>3. CASE Fill(g)
      BY <2>3 DEF Fill, FillTimed
    <2>4. CASE GetAbort(g)
      BY <2>4 DEF GetAbort
    <2> QED
      BY <1>1, <2>1, <2>2, <2>3, <2>4 DEF GetStep
  <1>2. ASSUME NEW w \in Writers, WriteCommit(w) PROVE CatalogTyped'
    <2>1. PICK k \in Kinds, rows \in {0, 1}, columns \in {0, 1} :
             /\ version' = version + rows
             /\ searchable' = searchable + columns
             /\ columns <= rows
             /\ k = "create" <=> version = 0
             /\ k = "create" => columns = 1
             /\ sold' = (sold \/ k = "checkout")
             /\ kind' = [kind EXCEPT ![w] = k]
             /\ writeStep' = [writeStep EXCEPT ![w] =
                                 IF k = "image" THEN "done" ELSE "committed"]
      BY <1>2, CommitTouches
    <2>2. UNCHANGED <<cached, timed, indexed, getStep, seen, snapshot,
                      overtaken>>
      BY <1>2 DEF WriteCommit
    <2>3. /\ version' \in Nat /\ searchable' \in 0 .. version'
          /\ 0 .. version \subseteq 0 .. version'
          /\ 0 .. searchable \subseteq 0 .. searchable'
          /\ version' > 0 /\ searchable' > 0
      BY <2>1
    <2>4. CatalogTypeOK'
      <3>1. seen' \in [Gets -> 0 .. version']
        BY <2>2, <2>3
      <3>2. snapshot' \in [Writers -> 0 .. searchable']
        BY <2>2, <2>3
      <3> QED
        BY <2>1, <2>2, <2>3, <3>1, <3>2
    <2>5. WritersHaveRows'
      BY <2>1, <2>2, <2>3
    <2> QED
      BY <2>4, <2>5
  <1>3. ASSUME NEW w \in Writers,
               Refresh(w) \/ Invalidate(w) \/ Index(w) \/ WriteAbort(w)
        PROVE  CatalogTyped'
    <2>1. CASE Refresh(w)
      <3>1. UNCHANGED <<version, searchable, cached, timed, indexed, getStep,
                        seen, kind, overtaken>>
        BY <2>1 DEF Refresh
      <3>2. snapshot' = [snapshot EXCEPT ![w] = searchable] /\ sold' = FALSE
        BY <2>1 DEF Refresh, Reread
      <3>3. searchable \in 0 .. searchable
        OBVIOUS
      <3>4. CatalogTypeOK'
        BY <2>1, <3>1, <3>2, <3>3 DEF Refresh
      <3>5. WritersHaveRows'
        BY <2>1, <3>1 DEF Refresh
      <3> QED
        BY <3>4, <3>5
    <2>2. CASE Invalidate(w)
      <3>1. 0 \in 0 .. version
        OBVIOUS
      <3>2. CatalogTypeOK'
        BY <2>2, <3>1 DEF Invalidate
      <3>3. WritersHaveRows'
        BY <2>2 DEF Invalidate
      <3> QED
        BY <3>2, <3>3
    <2>3. CASE Index(w)
      BY <2>3 DEF Index, Document
    <2>4. CASE WriteAbort(w)
      BY <2>4 DEF WriteAbort
    <2> QED
      BY <1>3, <2>1, <2>2, <2>3, <2>4
  <1>4. CASE CacheExpire
    <2>1. 0 \in 0 .. version
      OBVIOUS
    <2> QED
      BY <1>4, <2>1 DEF CacheExpire
  <1>5. CASE UNCHANGED catalogVars
    BY <1>5 DEF catalogVars
  <1> QED
    BY <1>1, <1>2, <1>3, <1>4, <1>5 DEF CatalogNext, WriteStep

-----------------------------------------------------------------------------
(* The cache                                                               *)

\* The reasons that a writer gives for a stale entry.
Staling(w) ==
    \/ kind[w] = "image"
    \/ kind[w] = "put" /\ writeStep[w] \in {"committed", "refreshed"}
    \/ kind[w] = "checkout" /\ writeStep[w] = "committed"
    \/ writeStep[w] = "failed"

LEMMA StaleStep ==
    CatalogTyped /\ StaleForAReason /\ [CatalogNext]_catalogVars
        => StaleForAReason'
  <1> SUFFICES ASSUME CatalogTyped, StaleForAReason, [CatalogNext]_catalogVars,
                      cached' \notin {0, version'}, ~overtaken'
      PROVE  \E w \in Writers : Staling(w)'
    BY DEF StaleForAReason, Staling
  <1> USE DEF CatalogTyped, CatalogTypeOK, WritersHaveRows
  \* A reason lasts as long as the entry.
  <1>1. ASSUME UNCHANGED <<version, cached, overtaken>>,
               \A w \in Writers : Staling(w) => Staling(w)'
        PROVE  \E w \in Writers : Staling(w)'
    BY <1>1 DEF StaleForAReason, Staling
  <1>2. ASSUME NEW g \in Gets, GetStep(g) \/ GetAbort(g)
        PROVE  \E w \in Writers : Staling(w)'
    <2>1. CASE Fill(g)
      BY <2>1 DEF Fill
    <2>2. CASE ~Fill(g)
      BY <1>1, <1>2, <2>2
         DEF GetStep, GetAbort, CacheGet, DbGet, copies, writeVars, histories,
             Staling
    <2> QED
      BY <2>1, <2>2
  <1>3. ASSUME NEW w \in Writers, WriteCommit(w)
        PROVE  \E v \in Writers : Staling(v)'
    <2>1. PICK k \in Kinds :
             /\ writeStep[w] = "idle"
             /\ k = "create" <=> version = 0
             /\ kind' = [kind EXCEPT ![w] = k]
             /\ writeStep' = [writeStep EXCEPT ![w] =
                                 IF k = "image" THEN "done" ELSE "committed"]
      BY <1>3, CommitTouches
    <2>2. cached' = cached
      BY <1>3 DEF WriteCommit
    <2>3. version # 0
      BY <2>2
    <2>4. Staling(w)'
      BY <2>1, <2>3 DEF Staling, Kinds
    <2> QED
      BY <2>4
  <1>4. ASSUME NEW w \in Writers, Invalidate(w) \/ CacheExpire PROVE FALSE
    BY <1>4 DEF Invalidate, CacheExpire
  <1>5. ASSUME NEW w \in Writers, Refresh(w) \/ Index(w) \/ WriteAbort(w)
        PROVE  \E v \in Writers : Staling(v)'
    BY <1>1, <1>5 DEF Refresh, Index, WriteAbort, copies, histories, Staling
  <1>6. CASE CacheExpire
    BY <1>6 DEF CacheExpire
  <1>7. CASE UNCHANGED catalogVars
    BY <1>1, <1>7 DEF catalogVars, copies, writeVars, histories, Staling
  <1> QED
    BY <1>2, <1>3, <1>4, <1>5, <1>6, <1>7 DEF CatalogNext, WriteStep

-----------------------------------------------------------------------------
(* The search document                                                     *)

\* The document is the snapshot of some indexer that is through.
DocumentHasAuthor ==
    /\ indexed # 0 =>
          \E v \in Indexers : writeStep[v] = "done" /\ snapshot[v] = indexed
    /\ \A w \in Indexers :
          /\ writeStep[w] \in {"refreshed", "invalidated", "done"}
                => snapshot[w] > 0
          /\ writeStep[w] = "done" => indexed > 0

\* Unless a checkout wrote the columns of the document since anybody read
\* them, whoever wrote them last, or reads them after that, takes them on to
\* the document, or was stopped.
LastWriteIsCarried ==
    searchable # 0 /\ ~sold =>
        \E w \in Indexers :
            \/ writeStep[w] \in {"committed", "failed"}
            \/ snapshot[w] = searchable

DocumentInv == DocumentHasAuthor /\ LastWriteIsCarried

LEMMA DocumentLags == CatalogTyped /\ DocumentInv => LagsForAReason
  <1> SUFFICES ASSUME CatalogTyped, DocumentInv, indexed # searchable, ~sold,
                      \A w \in Indexers : writeStep[w] = "done"
      PROVE  \E v, w \in Indexers : snapshot[v] = indexed
                                    /\ snapshot[w] = searchable
    BY DEF LagsForAReason
  <1> USE DEF CatalogTyped, CatalogTypeOK, DocumentInv
  <1>1. searchable # 0
    OBVIOUS
  <1>2. PICK w \in Indexers : snapshot[w] = searchable
    BY <1>1 DEF LastWriteIsCarried
  <1>3. indexed # 0
    BY <1>2 DEF DocumentHasAuthor
  <1>4. PICK v \in Indexers : snapshot[v] = indexed
    BY <1>3 DEF DocumentHasAuthor
  <1> QED
    BY <1>2, <1>4

LEMMA DocumentStep ==
    CatalogTyped /\ DocumentInv /\ [CatalogNext]_catalogVars => DocumentInv'
  <1> SUFFICES ASSUME CatalogTyped, DocumentInv, [CatalogNext]_catalogVars
      PROVE  DocumentInv'
    OBVIOUS
  <1> USE DEF CatalogTyped, CatalogTypeOK, WritersHaveRows, Kinds, Indexers
  <1>1. CASE UNCHANGED <<searchable, indexed, writeStep, kind, snapshot, sold>>
    BY <1>1 DEF DocumentInv, DocumentHasAuthor, LastWriteIsCarried
  <1>2. ASSUME NEW w \in Writers, WriteCommit(w) PROVE DocumentInv'
    <2>1. PICK k \in Kinds, columns \in {0, 1} :
             /\ searchable' = searchable + columns
             /\ columns = 1 => k # "image"
             /\ sold' = (sold \/ k = "checkout")
             /\ writeStep[w] = "idle"
             /\ kind' = [kind EXCEPT ![w] = k]
             /\ writeStep' = [writeStep EXCEPT ![w] =
                                 IF k = "image" THEN "done" ELSE "committed"]
      BY <1>2, CommitTouches
    <2>2. UNCHANGED <<indexed, snapshot>>
      BY <1>2 DEF WriteCommit
    <2>3. /\ w \notin Indexers
          /\ \A v \in Indexers : v \in Indexers' /\ writeStep'[v] = writeStep[v]
          /\ \A v \in Indexers' \ {w} : v \in Indexers
                                        /\ writeStep'[v] = writeStep[v]
      BY <2>1
    <2>4. w \in Indexers' => writeStep'[w] = "committed"
      BY <2>1
    <2>5. DocumentHasAuthor'
      <3>1. indexed' # 0 =>
               \E v \in Indexers' :
                   writeStep'[v] = "done" /\ snapshot'[v] = indexed'
        BY <2>2, <2>3 DEF DocumentInv, DocumentHasAuthor
      <3>2. ASSUME NEW v \in Indexers'
            PROVE  /\ writeStep'[v] \in {"refreshed", "invalidated", "done"}
                         => snapshot'[v] > 0
                   /\ writeStep'[v] = "done" => indexed' > 0
        <4>1. CASE v = w
          BY <2>4, <4>1
        <4>2. CASE v # w
          BY <2>2, <2>3, <4>2 DEF DocumentInv, DocumentHasAuthor
        <4> QED
          BY <4>1, <4>2
      <3> QED
        BY <3>1, <3>2 DEF DocumentHasAuthor
    <2>6. LastWriteIsCarried'
      <3>1. CASE columns = 1
        <4>1. CASE k = "checkout"
          BY <2>1, <4>1 DEF LastWriteIsCarried
        <4>2. CASE k # "checkout"
          <5>1. w \in Indexers' /\ writeStep'[w] = "committed"
            BY <2>1, <3>1, <4>2
          <5> QED
            BY <5>1 DEF LastWriteIsCarried
        <4> QED
          BY <4>1, <4>2
      <3>2. CASE columns = 0
        <4>1. searchable' = searchable
          BY <2>1, <3>2
        <4>2. sold' = FALSE => sold = FALSE
          BY <2>1
        <4> QED
          BY <2>2, <2>3, <4>1, <4>2 DEF DocumentInv, LastWriteIsCarried
      <3> QED
        BY <3>1, <3>2
    <2> QED
      BY <2>5, <2>6 DEF DocumentInv
  <1>3. ASSUME NEW w \in Writers, Refresh(w) PROVE DocumentInv'
    <2>1. /\ writeStep[w] = "committed" /\ kind[w] \in {"put", "create"}
          /\ snapshot' = [snapshot EXCEPT ![w] = searchable]
          /\ writeStep' = [writeStep EXCEPT ![w] =
                 IF kind[w] = "put" THEN "refreshed" ELSE "invalidated"]
          /\ UNCHANGED <<searchable, indexed, kind>>
      BY <1>3 DEF Refresh, Reread, copies
    <2>2. searchable > 0
      BY <2>1
    <2>3. Indexers' = Indexers /\ w \in Indexers
      BY <2>1
    <2>4. LastWriteIsCarried'
      BY <2>1, <2>3 DEF LastWriteIsCarried
    <2>5. DocumentHasAuthor'
      BY <2>1, <2>2, <2>3 DEF DocumentInv, DocumentHasAuthor
    <2> QED
      BY <2>4, <2>5 DEF DocumentInv
  <1>4. ASSUME NEW w \in Writers, Invalidate(w) PROVE DocumentInv'
    BY <1>4 DEF Invalidate, DocumentInv, DocumentHasAuthor, LastWriteIsCarried
  <1>5. ASSUME NEW w \in Writers, Index(w) PROVE DocumentInv'
    <2>1. w \in Indexers
      BY <1>5 DEF Index
    <2> QED
      BY <1>5, <2>1 DEF Index, Document, histories, DocumentInv, DocumentHasAuthor,
                        LastWriteIsCarried
  <1>6. ASSUME NEW w \in Writers, WriteAbort(w) PROVE DocumentInv'
    BY <1>6 DEF WriteAbort, copies, histories, DocumentInv, DocumentHasAuthor,
                LastWriteIsCarried
  <1>7. ASSUME NEW g \in Gets, GetStep(g) \/ GetAbort(g) PROVE DocumentInv'
    BY <1>1, <1>7 DEF GetStep, CacheGet, DbGet, Fill, GetAbort, copies,
                      writeVars, histories
  <1>8. CASE CacheExpire \/ UNCHANGED catalogVars
    BY <1>1, <1>8 DEF CacheExpire, catalogVars, copies, writeVars, histories
  <1> QED
    BY <1>2, <1>3, <1>4, <1>5, <1>6, <1>7, <1>8 DEF CatalogNext, WriteStep

-----------------------------------------------------------------------------
(* Theorems                                                                *)

CatalogInv == CatalogTyped /\ StaleForAReason /\ DocumentInv

\* The invariant from which the theorems below follow.
THEOREM CatalogInvariance == CatalogSpec => []CatalogInv
  <1>1. CatalogInit => CatalogInv
    BY CatalogTypedInit
       DEF CatalogInit, CatalogInv, StaleForAReason, DocumentInv,
           DocumentHasAuthor, LastWriteIsCarried, Indexers
  <1>2. CatalogInv /\ [CatalogNext]_catalogVars => CatalogInv'
    BY CatalogTypedStep, StaleStep, DocumentStep DEF CatalogInv
  <1> QED
    BY <1>1, <1>2, PTL DEF CatalogSpec

\* A cache entry and a document are always of a version that the row has had,
\* and so is whatever a reader or a writer holds.
THEOREM CatalogTypeCorrect == CatalogSpec => []CatalogTypeOK
  <1>1. CatalogInv => CatalogTypeOK
    BY DEF CatalogInv, CatalogTyped
  <1> QED
    BY <1>1, CatalogInvariance, PTL

\* The cache differs from the row only for an image upload, for a writer before
\* its DEL or stopped there, or for a fill that a commit has overtaken, however
\* many readers and writers there are (products.py:221-259, 265-297, orders.py:162-168).
THEOREM StaleEntriesHaveReasons == CatalogSpec => []StaleForAReason
  <1>1. CatalogInv => StaleForAReason
    BY DEF CatalogInv
  <1> QED
    BY <1>1, CatalogInvariance, PTL

\* The search document differs from the row only while a create or PUT is on
\* its way or was stopped, because an older snapshot was indexed last, or
\* because a checkout took stock that no create or PUT has read since, however
\* many writers there are (products.py:44-74, 265-297, orders.py:162-168).
THEOREM LagsHaveReasons == CatalogSpec => []LagsForAReason
  <1>1. CatalogInv => LagsForAReason
    BY DocumentLags DEF CatalogInv
  <1> QED
    BY <1>1, CatalogInvariance, PTL
=============================================================================
