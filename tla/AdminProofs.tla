------------------------------ MODULE AdminProofs ------------------------------
(***************************************************************************)
(* Theorems about AdminPage.tla, for any prices and stocks and any number  *)
(* of products, drafts, edits and requests in flight.                      *)
(***************************************************************************)
EXTENDS AdminPage, TLAPS

-----------------------------------------------------------------------------
(* The inductive invariant                                                 *)

Fields == {"price", "stock"}
Stages == {"sent", "committed", "served"}
CreateKeys == [id : Ids \cup {0}, draft : 1 .. Drafts, row : Row,
               stage : Stages, got : Row]
JobKeys == [id : Ids, row : Row, edits : SUBSET Fields, stage : Stages,
            got : Row]

CreateCalls == [api : {"create"}, key : CreateKeys, live : BOOLEAN]
SaveCalls == [api : {"save"}, key : JobKeys, live : BOOLEAN]
UploadCalls == [api : {"upload"}, key : JobKeys, live : {TRUE}]

CallsTyped ==
    /\ calls = [c \in Calls |-> calls[c]]
    /\ \A c \in Calls :
          calls[c] \in {Free} \cup CreateCalls \cup SaveCalls \cup UploadCalls

ServerTyped ==
    /\ rows \in Seq(Row) /\ Len(rows) <= MaxProducts
    /\ draftOf \in Seq(1 .. Drafts) /\ Len(draftOf) = Len(rows)
    /\ unknown \subseteq Existing

PageTyped ==
    /\ form \in [draft : 0 .. Drafts, row : Row]
    /\ typed \in [Ids -> Row]
    /\ edited \in [Ids -> SUBSET Fields]
    /\ overtaken \subseteq Ids
    /\ busy \in [submitting : BOOLEAN, saving : SUBSET Ids, uploading : BOOLEAN]
    /\ missed \subseteq Existing

\* The newest product first, and each of them once.
NewestFirst(s) == \A i, j \in DOMAIN s : i < j => s[i].id > s[j].id
ListOK ==
    /\ listed \in Seq([id : Ids, row : Row]) /\ Listed \subseteq Existing
    /\ NewestFirst(listed)
    /\ lastCreated \in Listed \cup {0}

Live(c, api) == calls[c].api = api /\ calls[c].live

\* A request has an id when it has a row.
JobExists(c) ==
    /\ calls[c].api = "create" =>
          \/ calls[c].key.stage = "sent" /\ calls[c].key.id = 0
          \/ calls[c].key.stage # "sent" /\ calls[c].key.id \in Existing
    /\ calls[c].api \in {"save", "upload"} => calls[c].key.id \in Existing

JobsExist == \A c \in Calls : JobExists(c)

AdminTyped ==
    CallsTyped /\ ServerTyped /\ PageTyped /\ ListOK /\ JobsExist

\* The button lets one request at a time through, for a product that is not
\* in the list before its answer ...
OneCreate ==
    /\ \A c \in Calls : Live(c, "create") =>
          /\ busy.submitting
          /\ \A id \in Listed : calls[c].key.id = 0 \/ calls[c].key.id > id
    /\ \A c, d \in Calls : Live(c, "create") /\ Live(d, "create") => c = d

\* ... and each row of the list one at a time.
OneSave ==
    /\ \A c \in Calls : Live(c, "save") =>
          calls[c].key.id \in Listed \cap busy.saving
    /\ \A c, d \in Calls :
          Live(c, "save") /\ Live(d, "save") /\ calls[c].key.id = calls[d].key.id
              => c = d

AllAccountedFor ==
    \A id \in Existing :
        \/ id \in Listed \cup missed
        \/ \E c \in Calls : calls[c].api = "create" /\ calls[c].key.id = id

\* A product that the page will not hear of.
Spent(id) == id \in missed \cup DeadJobs("create")

\* The fields of a product that the page knows of, or will, are not in the
\* form any more, nor on their way again.
DraftsOK ==
    /\ DuplicatesNeedFailures
    /\ \A id \in Existing :
          \/ Spent(id)
          \/ draftOf[id] # form.draft
          \/ \E c \in Calls : Live(c, "create") /\ calls[c].key.id = id
    /\ \A c \in Calls : Live(c, "create") /\ calls[c].key.stage = "sent" =>
          \A id \in Existing : draftOf[id] = calls[c].key.draft => Spent(id)

Saving(id) == \E c \in Calls : Live(c, "save") /\ calls[c].key.id = id

\* The table holds no price that would be rounded again.
RowsRounded == \A id \in Existing : Stored(rows[id]) = rows[id]

\* What the inputs of a row would store is what the table has, but for the
\* fields that were typed, and unless the table has changed behind the page ...
InputOK(id) ==
    id \notin unknown /\ ~Saving(id) =>
        \A f \in Fields :
            Stored(typed[id])[f] # rows[id][f] => f \in edited[id]

\* ... which a PUT that the page waits for makes true again.
SaveOK(c) ==
    LET job == calls[c].key IN
    /\ \A f \in Fields : typed[job.id][f] # job.row[f] => f \in edited[job.id]
    /\ job.id \notin unknown =>
          IF job.stage = "sent"
          THEN \A f \in Fields :
                  Stored(job.row)[f] # rows[job.id][f] => f \in job.edits
          ELSE rows[job.id] = Stored(job.row)

CreateOK(c) ==
    LET job == calls[c].key IN
    job.id \in unknown \/ rows[job.id] = job.got

InputsOK == \A id \in Listed : InputOK(id)
SavesOK == \A c \in Calls : Live(c, "save") => SaveOK(c)
CreatesOK ==
    \A c \in Calls : Live(c, "create") /\ calls[c].key.stage = "served"
                        => CreateOK(c)

\* Why the Save button of a row is enabled, or will be after an error.
DirtyJobOK(c) ==
    LET job == calls[c].key IN
    Dirty(job.id) => \/ edited[job.id] \cup job.edits # {}
                     \/ job.id \in overtaken \/ IsRounded(job.id)

DirtyOK ==
    /\ DirtyForAReason
    /\ \A c \in Calls : Live(c, "save") => DirtyJobOK(c)

RowsAgree == InputsOK /\ SavesOK /\ CreatesOK

AdminInv ==
    /\ AdminTyped /\ OneCreate /\ OneSave
    /\ AllAccountedFor /\ DraftsOK
    /\ RowsRounded /\ RowsAgree /\ DirtyOK

-----------------------------------------------------------------------------
(* What the steps do to the requests in flight                             *)

AnyCall == {Free} \cup CreateCalls \cup SaveCalls \cup UploadCalls

\* At most the request c has changed; no request of an API has.
Only(c) == \A d \in Calls \ {c} : calls'[d] = calls[d]
Kept(api) ==
    \A d \in Calls : api \in {calls[d].api, calls'[d].api} => calls'[d] = calls[d]

\* The request c is as before but for its stage.
Goes(c, stage) ==
    /\ Only(c)
    /\ calls'[c].api = calls[c].api /\ calls'[c].live = calls[c].live
    /\ calls'[c].key.stage = stage
    /\ calls'[c].key.row = calls[c].key.row

LEMMA FreeIsNone == Free.api = "none" /\ Free.live = FALSE
  BY DEF Free

LEMMA AnyRowIsRow == AnyRow \in Row
  BY AdminAssumption DEF AnyRow, Row

\* What is stored of a row: its stock, and its price rounded.
LEMMA StoredIs ==
    ASSUME NEW r \in Row
    PROVE  /\ Stored(r) \in Row
           /\ Stored(r).price = Rounded[r.price] /\ Stored(r).stock = r.stock
  <1>1. r.price \in Prices /\ Rounded[r.price] \in Prices
    BY AdminAssumption DEF Row
  <1> QED
    BY <1>1 DEF Stored, Row

\* Each field of it comes from that field alone.
LEMMA StoredFields ==
    ASSUME NEW r \in Row, NEW s \in Row, NEW f \in Fields, r[f] = s[f]
    PROVE  Stored(r)[f] = Stored(s)[f]
  BY StoredIs DEF Fields

\* Rows are the same when their fields are.
LEMMA SameRows ==
    ASSUME NEW r \in Row, NEW s \in Row, r.price = s.price, r.stock = s.stock
    PROVE  r = s
  BY DEF Row

LEMMA StoredTwice ==
    ASSUME NEW r \in Row
    PROVE  Stored(Stored(r)) = Stored(r)
  <1>1. Stored(r) \in Row /\ Stored(Stored(r)) \in Row
    BY StoredIs
  <1>2. /\ Stored(Stored(r)).price = Rounded[Rounded[r.price]]
        /\ Stored(Stored(r)).stock = Stored(r).stock
        /\ Stored(r).price = Rounded[r.price]
    BY <1>1, StoredIs
  <1>3. Rounded[Rounded[r.price]] = Rounded[r.price]
    BY AdminAssumption DEF Row
  <1> QED
    BY <1>1, <1>2, <1>3, SameRows

\* The API of a request tells what it is.
LEMMA KindIs ==
    ASSUME NEW r \in AnyCall
    PROVE  /\ r.api \in {"none", "create", "save", "upload"}
           /\ r.api = "none" => r = Free
           /\ r.api = "create" => r \in CreateCalls /\ r.key \in CreateKeys
           /\ r.api = "save" => r \in SaveCalls /\ r.key \in JobKeys
           /\ r.api = "upload" => r \in UploadCalls /\ r.key \in JobKeys
           /\ r.live \in BOOLEAN
  <1>1. CASE r = Free
    BY <1>1, FreeIsNone
  <1>2. CASE r \in CreateCalls
    BY <1>2 DEF CreateCalls
  <1>3. CASE r \in SaveCalls
    BY <1>3 DEF SaveCalls
  <1>4. CASE r \in UploadCalls
    BY <1>4 DEF UploadCalls
  <1> QED
    BY <1>1, <1>2, <1>3, <1>4 DEF AnyCall

LEMMA KindOf ==
    ASSUME CallsTyped, NEW c \in Calls
    PROVE  calls[c] \in AnyCall
  BY DEF CallsTyped, AnyCall

LEMMA CallBecomes ==
    ASSUME CallsTyped, NEW c \in Calls, NEW r \in AnyCall,
           calls' = [calls EXCEPT ![c] = r]
    PROVE  CallsTyped' /\ calls'[c] = r /\ Only(c)
  <1>1. calls' = [d \in Calls |-> IF d = c THEN r ELSE calls[d]]
    BY DEF CallsTyped
  <1>2. /\ calls'[c] = r /\ Only(c)
        /\ \A d \in Calls : calls'[d] = IF d = c THEN r ELSE calls[d]
    BY <1>1 DEF Only
  <1>3. calls' = [d \in Calls |-> calls'[d]]
    BY <1>1, <1>2
  <1> QED
    BY <1>2, <1>3 DEF CallsTyped, AnyCall, Only

LEMMA OnlyKeeps ==
    ASSUME NEW c \in Calls, NEW api, Only(c), api # calls[c].api,
           api # calls'[c].api
    PROVE  Kept(api)
  BY DEF Only, Kept

LEMMA Ends ==
    ASSUME CallsTyped, NEW c \in Calls, Over(c)
    PROVE  CallsTyped' /\ calls'[c] = Free /\ Only(c)
  BY CallBecomes DEF Over, AnyCall

\* A new request.
LEMMA SubmitSends ==
    ASSUME AdminTyped, Submit
    PROVE  \E c \in Calls :
              /\ calls[c] = Free /\ Only(c) /\ CallsTyped'
              /\ calls'[c].api = "create" /\ calls'[c].live
              /\ calls'[c].key.id = 0 /\ calls'[c].key.stage = "sent"
              /\ calls'[c].key.draft = form.draft
              /\ calls'[c].key.row = form.row
  <1> DEFINE k == [id |-> 0, draft |-> form.draft, row |-> form.row,
                   stage |-> "sent", got |-> AnyRow]
             r == Call("create", k)
  <1>1. form.draft \in 1 .. Drafts /\ form.row \in Row
    BY AdminAssumption DEF Submit, MaySubmit, AdminTyped, PageTyped
  <1>2. k \in CreateKeys
    BY <1>1, AnyRowIsRow DEF CreateKeys, Stages
  <1>3. /\ k.id = 0 /\ k.stage = "sent" /\ k.draft = form.draft
        /\ k.row = form.row
    OBVIOUS
  <1>4. PICK c \in Calls : calls[c] = Free /\ calls' = [calls EXCEPT ![c] = r]
    BY DEF Submit, Send, NextPlace
  <1> HIDE DEF k
  <1>5. r \in CreateCalls /\ r.api = "create" /\ r.live /\ r.key = k
    BY <1>2 DEF CreateCalls, Call
  <1> HIDE DEF r
  <1>6. CallsTyped' /\ calls'[c] = r /\ Only(c)
    BY <1>4, <1>5, CallBecomes DEF AdminTyped, AnyCall
  <1> QED
    BY <1>3, <1>4, <1>5, <1>6

LEMMA JobSends ==
    ASSUME CallsTyped, NEW api \in {"save", "upload"}, NEW id \in Ids,
           NEW row \in Row, NEW fields \in SUBSET Fields,
           Send(api, Job(id, row, fields))
    PROVE  \E c \in Calls :
              /\ calls[c] = Free /\ Only(c) /\ CallsTyped'
              /\ calls'[c].api = api /\ calls'[c].live
              /\ calls'[c].key.id = id /\ calls'[c].key.stage = "sent"
              /\ calls'[c].key.row = row /\ calls'[c].key.edits = fields
  <1> DEFINE k == Job(id, row, fields)
             r == Call(api, k)
  <1>2. k \in JobKeys
    BY AnyRowIsRow DEF JobKeys, Stages, Job
  <1>3. k.id = id /\ k.stage = "sent" /\ k.row = row /\ k.edits = fields
    BY DEF Job
  <1>4. PICK c \in Calls : calls[c] = Free /\ calls' = [calls EXCEPT ![c] = r]
    BY DEF Send, NextPlace
  <1> HIDE DEF k
  <1>5. r \in SaveCalls \cup UploadCalls /\ r.api = api /\ r.live /\ r.key = k
    BY <1>2 DEF SaveCalls, UploadCalls, Call
  <1> HIDE DEF r
  <1>6. CallsTyped' /\ calls'[c] = r /\ Only(c)
    BY <1>4, <1>5, CallBecomes DEF AnyCall
  <1> QED
    BY <1>3, <1>4, <1>5, <1>6

\* The server goes on with a request.
LEMMA InsertGoes ==
    ASSUME AdminTyped, NEW c \in Calls, InsertProduct(c)
    PROVE  /\ CallsTyped' /\ Goes(c, "committed")
           /\ calls[c].api = "create" /\ calls[c].key.stage = "sent"
           /\ calls'[c].key.id = Len(rows) + 1
           /\ calls[c].key.row \in Row /\ calls[c].key.draft \in 1 .. Drafts
           /\ rows' = Append(rows, Stored(calls[c].key.row))
           /\ draftOf' = Append(draftOf, calls[c].key.draft)
           /\ Len(rows) + 1 \in Ids
  <1> DEFINE k == [calls[c].key EXCEPT !.stage = "committed",
                                       !.id = Len(rows) + 1]
             r == [calls[c] EXCEPT !.key = k]
  <1>1. /\ calls[c].api = "create" /\ calls[c].key.stage = "sent"
        /\ calls[c] \in CreateCalls /\ calls[c].key \in CreateKeys
    BY KindOf, KindIs DEF InsertProduct, JobAt, AdminTyped
  <1>2. Len(rows) \in Nat /\ Len(rows) + 1 \in Ids
    BY AdminAssumption DEF InsertProduct, AdminTyped, ServerTyped, Ids
  <1>3. /\ k \in CreateKeys /\ k.stage = "committed" /\ k.id = Len(rows) + 1
        /\ k.row = calls[c].key.row
    BY <1>1, <1>2 DEF CreateKeys, Stages
  <1>4. calls' = [calls EXCEPT ![c] = r]
    BY <1>1 DEF InsertProduct, AdminTyped, CallsTyped
  <1> HIDE DEF k
  <1>5. r \in CreateCalls /\ r.api = "create" /\ r.live = calls[c].live
        /\ r.key = k
    BY <1>1, <1>3 DEF CreateCalls
  <1> HIDE DEF r
  <1>6. CallsTyped' /\ calls'[c] = r /\ Only(c)
    BY <1>4, <1>5, CallBecomes DEF AdminTyped, AnyCall
  <1>7. calls[c].key.row \in Row /\ calls[c].key.draft \in 1 .. Drafts
    BY <1>1 DEF CreateKeys
  <1> QED
    BY <1>1, <1>2, <1>3, <1>5, <1>6, <1>7 DEF InsertProduct, Goes

LEMMA UpdateGoes ==
    ASSUME AdminTyped, NEW c \in Calls, UpdateProduct(c)
    PROVE  /\ CallsTyped' /\ Goes(c, "committed")
           /\ calls[c].api = "save" /\ calls[c].key.stage = "sent"
           /\ calls'[c].key.id = calls[c].key.id
           /\ calls'[c].key.edits = calls[c].key.edits
           /\ calls[c].key.row \in Row /\ calls[c].key.id \in Ids
  <1> DEFINE k == [calls[c].key EXCEPT !.stage = "committed"]
             r == [calls[c] EXCEPT !.key = k]
  <1>1. /\ calls[c].api = "save" /\ calls[c].key.stage = "sent"
        /\ calls[c] \in SaveCalls /\ calls[c].key \in JobKeys
    BY KindOf, KindIs DEF UpdateProduct, JobAt, AdminTyped
  <1>3. /\ k \in JobKeys /\ k.stage = "committed" /\ k.id = calls[c].key.id
        /\ k.row = calls[c].key.row /\ k.edits = calls[c].key.edits
    BY <1>1 DEF JobKeys, Stages
  <1>4. calls' = [calls EXCEPT ![c] = r]
    BY <1>1 DEF UpdateProduct, AdminTyped, CallsTyped
  <1> HIDE DEF k
  <1>5. r \in SaveCalls /\ r.api = "save" /\ r.live = calls[c].live
        /\ r.key = k
    BY <1>1, <1>3 DEF SaveCalls
  <1> HIDE DEF r
  <1>6. CallsTyped' /\ calls'[c] = r /\ Only(c)
    BY <1>4, <1>5, CallBecomes DEF AdminTyped, AnyCall
  <1>7. calls[c].key.row \in Row /\ calls[c].key.id \in Ids
    BY <1>1 DEF JobKeys
  <1> QED
    BY <1>1, <1>3, <1>5, <1>6, <1>7 DEF Goes

LEMMA ReadGoes ==
    ASSUME AdminTyped, NEW c \in Calls, ReadBack(c)
    PROVE  /\ CallsTyped' /\ Goes(c, "served")
           /\ calls[c].api \in {"create", "save"} /\ calls[c].live
           /\ calls[c].key.stage = "committed"
           /\ calls[c].key.id \in Existing
           /\ calls'[c].key.id = calls[c].key.id
           /\ calls[c].api = "save"
                 => calls'[c].key.edits = calls[c].key.edits
           /\ calls'[c].key.got = rows[calls[c].key.id]
  <1> DEFINE id == calls[c].key.id
             k == [calls[c].key EXCEPT !.stage = "served", !.got = rows[id]]
             r == [calls[c] EXCEPT !.key = k]
  <1>1. /\ calls[c].api \in {"create", "save"} /\ calls[c].live
        /\ calls[c].key.stage = "committed"
        /\ \/ calls[c] \in CreateCalls /\ calls[c].key \in CreateKeys
           \/ calls[c] \in SaveCalls /\ calls[c].key \in JobKeys
    BY KindOf, KindIs DEF ReadBack, JobAt, AdminTyped
  <1>2. id \in Existing
    BY <1>1 DEF AdminTyped, JobsExist, JobExists
  <1>3. rows[id] \in Row
    BY <1>2 DEF AdminTyped, ServerTyped, Existing
  <1>4. calls' = [calls EXCEPT ![c] = r]
    BY <1>1 DEF ReadBack, AdminTyped, CallsTyped
  <1>5. CASE calls[c] \in CreateCalls /\ calls[c].key \in CreateKeys
    <2>1. /\ k \in CreateKeys /\ k.stage = "served" /\ k.id = id
          /\ k.row = calls[c].key.row /\ k.got = rows[id]
      BY <1>3, <1>5 DEF CreateKeys, Stages
    <2> HIDE DEF k
    <2>2. r \in CreateCalls /\ r.api = calls[c].api /\ r.live = calls[c].live
          /\ r.key = k
      BY <1>5, <2>1 DEF CreateCalls
    <2> HIDE DEF r
    <2>3. CallsTyped' /\ calls'[c] = r /\ Only(c)
      BY <1>4, <2>2, CallBecomes DEF AdminTyped, AnyCall
    <2>4. calls[c].api = "create"
      BY <1>5 DEF CreateCalls
    <2> QED
      BY <1>1, <1>2, <2>1, <2>2, <2>3, <2>4 DEF Goes
  <1>6. CASE calls[c] \in SaveCalls /\ calls[c].key \in JobKeys
    <2>1. /\ k \in JobKeys /\ k.stage = "served" /\ k.id = id
          /\ k.row = calls[c].key.row /\ k.edits = calls[c].key.edits
          /\ k.got = rows[id]
      BY <1>3, <1>6 DEF JobKeys, Stages
    <2> HIDE DEF k
    <2>2. r \in SaveCalls /\ r.api = calls[c].api /\ r.live = calls[c].live
          /\ r.key = k
      BY <1>6, <2>1 DEF SaveCalls
    <2> HIDE DEF r
    <2>3. CallsTyped' /\ calls'[c] = r /\ Only(c)
      BY <1>4, <2>2, CallBecomes DEF AdminTyped, AnyCall
    <2> QED
      BY <1>1, <1>2, <2>1, <2>2, <2>3 DEF Goes
  <1> QED
    BY <1>1, <1>5, <1>6

LEMMA ImageGoes ==
    ASSUME AdminTyped, NEW c \in Calls, StoreImage(c)
    PROVE  /\ CallsTyped' /\ Goes(c, "served")
           /\ calls[c].api = "upload"
           /\ calls'[c].key.id = calls[c].key.id
  <1> DEFINE k == [calls[c].key EXCEPT !.stage = "served"]
             r == [calls[c] EXCEPT !.key = k]
  <1>1. /\ calls[c].api = "upload"
        /\ calls[c] \in UploadCalls /\ calls[c].key \in JobKeys
    BY KindOf, KindIs DEF StoreImage, JobAt, AdminTyped
  <1>3. /\ k \in JobKeys /\ k.stage = "served" /\ k.id = calls[c].key.id
        /\ k.row = calls[c].key.row
    BY <1>1 DEF JobKeys, Stages
  <1>4. calls' = [calls EXCEPT ![c] = r]
    BY <1>1 DEF StoreImage, AdminTyped, CallsTyped
  <1> HIDE DEF k
  <1>5. r \in UploadCalls /\ r.api = "upload" /\ r.live = calls[c].live
        /\ r.key = k
    BY <1>1, <1>3 DEF UploadCalls
  <1> HIDE DEF r
  <1>6. CallsTyped' /\ calls'[c] = r /\ Only(c)
    BY <1>4, <1>5, CallBecomes DEF AdminTyped, AnyCall
  <1> QED
    BY <1>1, <1>3, <1>5, <1>6 DEF Goes

\* A request that nobody waits for any more: free, or still to be committed.
LEMMA AbandonedCall ==
    ASSUME AdminTyped, NEW c \in Calls, NEW r, r = Abandoned(c)
    PROVE  /\ r \in AnyCall /\ ~r.live
           /\ r.api \in {"none", "create", "save"}
           /\ r.api # "none" => /\ r.key = calls[c].key /\ r.api = calls[c].api
                                /\ r.key.stage = "sent"
           /\ r.api = "none" => r = Free
           /\ calls[c].api \in {"create", "save"} /\ calls[c].key.stage = "sent"
                 => r.api = calls[c].api
  <1>1. CASE calls[c].api \in {"create", "save"} /\ calls[c].key.stage = "sent"
    <2>1. r = [calls[c] EXCEPT !.live = FALSE]
      BY <1>1 DEF Abandoned
    <2>2. calls[c] \in CreateCalls \cup SaveCalls
      BY <1>1, KindOf, KindIs DEF AdminTyped
    <2> QED
      BY <1>1, <2>1, <2>2 DEF AnyCall, CreateCalls, SaveCalls
  <1>2. CASE ~(calls[c].api \in {"create", "save"} /\ calls[c].key.stage = "sent")
    BY <1>2 DEF Abandoned, AnyCall, Free
  <1> QED
    BY <1>1, <1>2

\* The end of a request: maybe something is left for the server to do.
LEMMA EndGoes ==
    ASSUME AdminTyped, NEW c \in Calls, Answered(c) \/ Failed(c) \/ Lost(c)
    PROVE  /\ CallsTyped' /\ Only(c) /\ ~calls'[c].live
           /\ \/ calls'[c] = Free
              \/ /\ calls'[c].api = calls[c].api /\ calls'[c].key = calls[c].key
                 /\ calls[c].api \in {"create", "save"} /\ calls[c].live
                 /\ calls[c].key.stage = "sent"
           /\ \A api : api # calls[c].api /\ api # "none" => Kept(api)
  <1>1. CASE Over(c)
    <2>1. CallsTyped' /\ calls'[c] = Free /\ Only(c)
      BY <1>1, Ends DEF AdminTyped
    <2> QED
      BY <2>1, FreeIsNone DEF Only, Kept
  <1>2. CASE Lost(c)
    <2>1. PICK r : r = Abandoned(c)
      OBVIOUS
    <2>2. calls' = [calls EXCEPT ![c] = r] /\ calls[c].live
      BY <1>2, <2>1 DEF Lost
    <2>3. CallsTyped' /\ calls'[c] = r /\ Only(c)
      BY <2>1, <2>2, AbandonedCall, CallBecomes DEF AdminTyped
    <2>4. /\ ~r.live /\ r.api \in {"none", "create", "save"}
          /\ r.api # "none" => /\ r.key = calls[c].key /\ r.api = calls[c].api
                               /\ r.key.stage = "sent"
          /\ r.api = "none" => r = Free
      BY <2>1, AbandonedCall
    <2> QED
      BY <2>2, <2>3, <2>4 DEF Only, Kept
  <1> QED
    BY <1>1, <1>2 DEF Answered, Failed

-----------------------------------------------------------------------------
(* The list                                                                *)

Entries == [id : Ids, row : Row]
IdsOf(s) == {s[i].id : i \in DOMAIN s}
RowIn(s, id) == (CHOOSE p \in {s[i] : i \in DOMAIN s} : p.id = id).row

LEMMA RowsAreFound ==
    ASSUME NEW s \in Seq(Entries), NewestFirst(s), NEW i \in DOMAIN s
    PROVE  RowIn(s, s[i].id) = s[i].row
  <1> DEFINE P == {s[j] : j \in DOMAIN s}
  <1>1. \A j \in DOMAIN s : s[j].id \in Nat /\ j \in Nat
    <2>1. \A j \in DOMAIN s : s[j] \in Entries /\ j \in Nat
      OBVIOUS
    <2>2. \A q \in Entries : q.id \in 1 .. MaxProducts
      BY DEF Entries, Ids
    <2>3. \A q \in Entries : q.id \in Nat
      BY <2>2, AdminAssumption
    <2> QED
      BY <2>1, <2>3
  <1>2. \A j, k \in DOMAIN s : s[j].id = s[k].id => j = k
    BY <1>1 DEF NewestFirst
  <1>3. \A p \in P : p.id = s[i].id => p = s[i]
    BY <1>2
  <1>4. s[i] \in P
    OBVIOUS
  <1> HIDE DEF P
  <1>5. (CHOOSE p \in P : p.id = s[i].id) = s[i]
    BY <1>3, <1>4
  <1> QED
    BY <1>5 DEF RowIn, P

LEMMA AddedOnTop ==
    ASSUME NEW s \in Seq(Entries), NewestFirst(s), NEW p \in Entries,
           \A id \in IdsOf(s) : p.id > id, NEW t, t = <<p>> \o s
    PROVE  /\ t \in Seq(Entries) /\ NewestFirst(t)
           /\ IdsOf(t) = IdsOf(s) \cup {p.id}
           /\ RowIn(t, p.id) = p.row
           /\ \A id \in IdsOf(s) : RowIn(t, id) = RowIn(s, id)
  <1>1. /\ t \in Seq(Entries) /\ Len(s) \in Nat /\ Len(t) = Len(s) + 1
        /\ DOMAIN t = 1 .. Len(s) + 1 /\ DOMAIN s = 1 .. Len(s)
        /\ t[1] = p
        /\ \A i \in DOMAIN s : t[i + 1] = s[i]
    OBVIOUS
  <1>2. \A i \in DOMAIN t : i = 1 \/ (i - 1 \in DOMAIN s /\ t[i] = s[i - 1])
    BY <1>1
  <1>3. \A i \in DOMAIN s : s[i].id \in IdsOf(s) /\ i + 1 \in DOMAIN t
    BY <1>1 DEF IdsOf
  <1>4. NewestFirst(t)
    <2> SUFFICES ASSUME NEW i \in DOMAIN t, NEW j \in DOMAIN t, i < j
                 PROVE  t[i].id > t[j].id
      BY DEF NewestFirst
    <2>1. j # 1 /\ j - 1 \in DOMAIN s /\ t[j] = s[j - 1]
      BY <1>1, <1>2
    <2>2. CASE i = 1
      BY <1>1, <1>3, <2>1, <2>2
    <2>3. CASE i # 1
      <3>1. i - 1 \in DOMAIN s /\ t[i] = s[i - 1] /\ i - 1 < j - 1
        BY <1>1, <1>2, <2>3
      <3> QED
        BY <2>1, <3>1 DEF NewestFirst
    <2> QED
      BY <2>2, <2>3
  <1>5. IdsOf(t) = IdsOf(s) \cup {p.id}
    <2>1. IdsOf(t) \subseteq IdsOf(s) \cup {p.id}
      BY <1>1, <1>2, <1>3 DEF IdsOf
    <2>2. \A i \in DOMAIN s : s[i].id \in IdsOf(t)
      BY <1>1, <1>3 DEF IdsOf
    <2>3. 1 \in DOMAIN t /\ t[1].id = p.id
      BY <1>1
    <2>4. p.id \in IdsOf(t)
      BY <2>3 DEF IdsOf
    <2> QED
      BY <2>1, <2>2, <2>4 DEF IdsOf
  <1>6. RowIn(t, p.id) = p.row
    <2>1. 1 \in DOMAIN t
      BY <1>1
    <2>2. RowIn(t, t[1].id) = t[1].row
      BY <1>1, <1>4, <2>1, RowsAreFound
    <2> QED
      BY <1>1, <2>2
  <1>7. ASSUME NEW id \in IdsOf(s) PROVE RowIn(t, id) = RowIn(s, id)
    <2>1. PICK i \in DOMAIN s : id = s[i].id
      BY DEF IdsOf
    <2>2. RowIn(s, id) = s[i].row
      BY <2>1, RowsAreFound
    <2>3. i + 1 \in DOMAIN t /\ t[i + 1] = s[i]
      BY <1>1, <1>3
    <2>4. RowIn(t, t[i + 1].id) = t[i + 1].row
      BY <1>1, <1>4, <2>3, RowsAreFound
    <2> QED
      BY <2>1, <2>2, <2>3, <2>4
  <1> QED
    BY <1>1, <1>4, <1>5, <1>6, <1>7

LEMMA UpdatedInPlace ==
    ASSUME NEW s \in Seq(Entries), NewestFirst(s), NEW p \in Entries,
           NEW t, t = [i \in DOMAIN s |-> IF s[i].id = p.id THEN p ELSE s[i]]
    PROVE  /\ t \in Seq(Entries) /\ NewestFirst(t)
           /\ IdsOf(t) = IdsOf(s)
           /\ p.id \in IdsOf(s) => RowIn(t, p.id) = p.row
           /\ \A id \in IdsOf(s) : id # p.id => RowIn(t, id) = RowIn(s, id)
  <1>1. /\ DOMAIN t = DOMAIN s /\ Len(s) \in Nat /\ DOMAIN s = 1 .. Len(s)
        /\ \A i \in DOMAIN s : s[i] \in Entries
    OBVIOUS
  <1>2. \A i \in DOMAIN s : /\ t[i] = IF s[i].id = p.id THEN p ELSE s[i]
                            /\ t[i].id = s[i].id
    OBVIOUS
  <1>3. t \in Seq(Entries)
    BY <1>1, <1>2
  <1>4. NewestFirst(t)
    BY <1>1, <1>2 DEF NewestFirst
  <1>5. IdsOf(t) = IdsOf(s)
    BY <1>1, <1>2 DEF IdsOf
  <1>6. ASSUME NEW i \in DOMAIN s
        PROVE  RowIn(t, s[i].id) = t[i].row /\ RowIn(s, s[i].id) = s[i].row
    BY <1>1, <1>2, <1>3, <1>4, RowsAreFound
  <1>7. ASSUME p.id \in IdsOf(s) PROVE RowIn(t, p.id) = p.row
    BY <1>2, <1>6, <1>7 DEF IdsOf
  <1>8. ASSUME NEW id \in IdsOf(s), id # p.id PROVE RowIn(t, id) = RowIn(s, id)
    BY <1>2, <1>6, <1>8 DEF IdsOf
  <1> QED
    BY <1>3, <1>4, <1>5, <1>7, <1>8

-----------------------------------------------------------------------------
(* What the answers do to the page                                         *)

Busy == [submitting : BOOLEAN, saving : SUBSET Ids, uploading : BOOLEAN]
pageFacts == <<form, lastCreated, listed, typed, overtaken>>

LEMMA BusyChanges ==
    ASSUME busy \in Busy, NEW b \in BOOLEAN, NEW ids \in SUBSET Ids
    PROVE  /\ \A r : r = [busy EXCEPT !.submitting = b] =>
                 r \in Busy /\ r.submitting = b /\ r.saving = busy.saving
           /\ \A r : r = [busy EXCEPT !.saving = ids] =>
                 r \in Busy /\ r.saving = ids /\ r.submitting = busy.submitting
           /\ \A r : r = [busy EXCEPT !.uploading = b] =>
                 r \in Busy /\ r.submitting = busy.submitting
                 /\ r.saving = busy.saving
  BY DEF Busy

LEMMA ListedExist ==
    ASSUME AdminTyped, NEW id \in Listed
    PROVE  id \in Existing /\ id \in Ids /\ id \in Nat \ {0}
  <1>1. id \in Existing
    BY DEF AdminTyped, ListOK
  <1>2. id \in Ids /\ id \in Nat \ {0}
    BY <1>1, AdminAssumption DEF AdminTyped, ServerTyped, Existing, Ids
  <1> QED
    BY <1>1, <1>2

LEMMA ExistingAreIds == AdminTyped => Existing \subseteq Ids
                                      /\ Existing = 1 .. Len(rows)
                                      /\ Len(rows) \in Nat
  BY AdminAssumption DEF AdminTyped, ServerTyped, Existing, Ids

LEMMA CreatedShows ==
    ASSUME AdminTyped, OneCreate, NEW c \in Calls, Answered(c),
           calls[c].api = "create",
           NEW id, id = calls[c].key.id, NEW got, got = calls[c].key.got
    PROVE  /\ calls'[c] = Free /\ Live(c, "create")
           /\ calls[c].key.stage = "served" /\ id \in Existing /\ got \in Row
           /\ listed' \in Seq(Entries) /\ NewestFirst(listed')
           /\ IdsOf(listed') = Listed \cup {id} /\ id \notin Listed
           /\ RowIn(listed', id) = got
           /\ \A i \in Listed : RowIn(listed', i) = ListedRow(i)
           /\ typed' = [typed EXCEPT ![id] = got]
           /\ lastCreated' = id /\ form' = BlankForm
           /\ busy' \in Busy /\ busy'.saving = busy.saving
           /\ UNCHANGED <<edited, overtaken, missed, rows, draftOf, unknown,
                          edits, leaves>>
  <1> DEFINE p == [id |-> id, row |-> got]
  <1>1. /\ Over(c) /\ Created(c) /\ calls[c].key.stage = "served"
        /\ calls[c].live /\ UNCHANGED <<rows, draftOf, unknown, edits, leaves>>
    BY DEF Answered, serverVars
  <1>2. calls'[c] = Free
    BY <1>1, Ends DEF AdminTyped
  <1>3. id \in Existing
    BY <1>1 DEF AdminTyped, JobsExist, JobExists
  <1>4. id \in Ids /\ id \in Nat \ {0}
    BY <1>3, ExistingAreIds
  <1>5. got \in Row
    BY KindOf, KindIs DEF AdminTyped, CreateKeys
  <1>6. p \in Entries /\ p.id = id /\ p.row = got /\ Product(c) = p
    BY <1>4, <1>5 DEF Entries, Product
  <1> HIDE DEF p
  <1>7. \A i \in Listed : id > i
    BY <1>1, <1>4 DEF OneCreate, Live
  <1>8. \A i \in Listed : i \in Nat
    BY ListedExist
  <1>9. id \notin Listed
    BY <1>4, <1>7
  <1>10. listed' = <<p>> \o listed
    BY <1>1, <1>6, <1>9 DEF Created, Added, Without
  <1>11. listed \in Seq(Entries) /\ NewestFirst(listed) /\ Listed = IdsOf(listed)
    BY DEF AdminTyped, ListOK, Entries, Listed, IdsOf
  <1>12. /\ listed' \in Seq(Entries) /\ NewestFirst(listed')
         /\ IdsOf(listed') = IdsOf(listed) \cup {p.id}
         /\ RowIn(listed', p.id) = p.row
         /\ \A i \in IdsOf(listed) : RowIn(listed', i) = RowIn(listed, i)
    BY <1>6, <1>7, <1>10, <1>11, AddedOnTop
  <1>13. \A i : RowIn(listed, i) = ListedRow(i)
    BY DEF RowIn, ListedRow
  <1>14. busy' \in Busy /\ busy'.saving = busy.saving
    <2>1. busy \in Busy /\ busy' = [busy EXCEPT !.submitting = FALSE]
      BY <1>1 DEF Created, AdminTyped, PageTyped, Busy
    <2> QED
      BY <2>1, BusyChanges
  <1>15. /\ typed' = [typed EXCEPT ![id] = got] /\ lastCreated' = id
         /\ form' = BlankForm
         /\ UNCHANGED <<edited, overtaken, missed>>
    BY <1>1, <1>6 DEF Created, Inputs
  <1> QED
    BY <1>1, <1>2, <1>3, <1>5, <1>6, <1>9, <1>11, <1>12, <1>13, <1>14, <1>15
       DEF Live

LEMMA SavedShows ==
    ASSUME AdminTyped, OneSave, NEW c \in Calls, Answered(c),
           calls[c].api = "save",
           NEW id, id = calls[c].key.id, NEW got, got = calls[c].key.got
    PROVE  /\ calls'[c] = Free /\ Live(c, "save")
           /\ calls[c].key.stage = "served" /\ id \in Listed /\ got \in Row
           /\ listed' \in Seq(Entries) /\ NewestFirst(listed')
           /\ IdsOf(listed') = Listed
           /\ RowIn(listed', id) = got
           /\ \A i \in Listed : i # id => RowIn(listed', i) = ListedRow(i)
           /\ overtaken' = IF got # Stored(calls[c].key.row)
                           THEN overtaken \cup {id} ELSE overtaken \ {id}
           /\ busy' \in Busy /\ busy'.saving = busy.saving \ {id}
           /\ busy'.submitting = busy.submitting
           /\ UNCHANGED <<form, lastCreated, typed, edited, missed, rows,
                          draftOf, unknown, edits, leaves>>
  <1> DEFINE p == [id |-> id, row |-> got]
  <1>1. /\ Over(c) /\ Saved(c) /\ calls[c].key.stage = "served"
        /\ calls[c].live /\ UNCHANGED <<rows, draftOf, unknown, edits, leaves>>
    BY DEF Answered, serverVars
  <1>2. calls'[c] = Free
    BY <1>1, Ends DEF AdminTyped
  <1>3. id \in Listed
    BY <1>1 DEF OneSave, Live
  <1>4. id \in Ids
    BY <1>3, ListedExist
  <1>5. got \in Row
    BY KindOf, KindIs DEF AdminTyped, JobKeys
  <1>6. p \in Entries /\ p.id = id /\ p.row = got /\ Product(c) = p
    BY <1>4, <1>5 DEF Entries, Product
  <1> HIDE DEF p
  <1>10. listed' = [i \in DOMAIN listed |-> IF listed[i].id = p.id THEN p
                                            ELSE listed[i]]
    BY <1>1, <1>6 DEF Saved, Updated
  <1>11. listed \in Seq(Entries) /\ NewestFirst(listed) /\ Listed = IdsOf(listed)
    BY DEF AdminTyped, ListOK, Entries, Listed, IdsOf
  <1>12. /\ listed' \in Seq(Entries) /\ NewestFirst(listed')
         /\ IdsOf(listed') = IdsOf(listed)
         /\ p.id \in IdsOf(listed) => RowIn(listed', p.id) = p.row
         /\ \A i \in IdsOf(listed) : i # p.id
                => RowIn(listed', i) = RowIn(listed, i)
    BY <1>6, <1>10, <1>11, UpdatedInPlace
  <1>13. \A i : RowIn(listed, i) = ListedRow(i)
    BY DEF RowIn, ListedRow
  <1>14. /\ busy' \in Busy /\ busy'.saving = busy.saving \ {id}
         /\ busy'.submitting = busy.submitting
    <2>1. /\ busy \in Busy /\ busy' = [busy EXCEPT !.saving = busy.saving \ {id}]
          /\ busy.saving \ {id} \in SUBSET Ids
      BY <1>1 DEF Saved, AdminTyped, PageTyped, Busy
    <2> QED
      BY <2>1, BusyChanges
  <1>15. /\ overtaken' = IF got # Stored(calls[c].key.row)
                         THEN overtaken \cup {id} ELSE overtaken \ {id}
         /\ UNCHANGED <<form, lastCreated, typed, edited, missed>>
    BY <1>1 DEF Saved, formVars
  <1> QED
    BY <1>1, <1>2, <1>3, <1>5, <1>6, <1>11, <1>12, <1>13, <1>14, <1>15 DEF Live

\* An error is shown: the buttons are enabled, all else stays on the page.
LEMMA ErrorShows ==
    ASSUME AdminTyped, NEW c \in Calls, Failed(c) \/ Lost(c), calls[c].live,
           NEW id, id = calls[c].key.id
    PROVE  /\ calls[c].api \in {"create", "save", "upload"}
           /\ busy' \in Busy
           /\ UNCHANGED <<pageFacts, rows, draftOf, unknown, edits, leaves>>
           /\ calls[c].api = "create" =>
                 /\ busy'.saving = busy.saving /\ edited' = edited
                 /\ missed' = missed \cup ({id} \ {0})
           /\ calls[c].api = "save" =>
                 /\ busy'.saving = busy.saving \ {id}
                 /\ busy'.submitting = busy.submitting
                 /\ edited' = [edited EXCEPT ![id] = @ \cup calls[c].key.edits]
                 /\ missed' = missed
           /\ calls[c].api = "upload" =>
                 /\ busy'.submitting = busy.submitting
                 /\ busy'.saving = busy.saving
                 /\ edited' = edited /\ missed' = missed
  <1>1. /\ ShowError(c)
        /\ UNCHANGED <<rows, draftOf, unknown, edits, leaves>>
    BY DEF Failed, Lost, serverVars
  <1>2. /\ UNCHANGED pageFacts
        /\ edited' = IF calls[c].api = "save"
                     THEN [edited EXCEPT ![id] = @ \cup calls[c].key.edits]
                     ELSE edited
        /\ missed' = IF calls[c].api = "create" THEN missed \cup ({id} \ {0})
                     ELSE missed
    BY <1>1 DEF ShowError, Missed, formVars, pageFacts
  <1>3. calls[c].api \in {"create", "save", "upload"}
    BY KindOf, KindIs, FreeIsNone DEF AdminTyped
  <1>4. busy \in Busy /\ busy.saving \ {id} \in SUBSET Ids
    BY DEF AdminTyped, PageTyped, Busy
  <1>5. ASSUME calls[c].api = "create"
        PROVE  busy' \in Busy /\ busy'.saving = busy.saving
    <2>1. busy' = [busy EXCEPT !.submitting = FALSE]
      BY <1>1, <1>5 DEF ShowError
    <2> QED
      BY <1>4, <2>1, BusyChanges
  <1>6. ASSUME calls[c].api = "save"
        PROVE  /\ busy' \in Busy /\ busy'.saving = busy.saving \ {id}
               /\ busy'.submitting = busy.submitting
    <2>1. busy' = [busy EXCEPT !.saving = busy.saving \ {id}]
      BY <1>1, <1>6 DEF ShowError, SavingAfterError
    <2> QED
      BY <1>4, <2>1, BusyChanges
  <1>7. ASSUME calls[c].api = "upload"
        PROVE  /\ busy' \in Busy /\ busy'.saving = busy.saving
               /\ busy'.submitting = busy.submitting
    <2>1. busy' = [busy EXCEPT !.uploading = FALSE]
      BY <1>1, <1>7 DEF ShowError
    <2> QED
      BY <1>4, <2>1, BusyChanges
  <1> QED
    BY <1>1, <1>2, <1>3, <1>5, <1>6, <1>7

\* Nobody is told.
LEMMA DeadEnds ==
    ASSUME NEW c \in Calls, Failed(c), ~calls[c].live
    PROVE  /\ Over(c) /\ calls[c] # Free
           /\ UNCHANGED <<pageFacts, edited, busy, rows, draftOf, unknown, edits,
                          leaves>>
           /\ missed' = IF calls[c].api = "create"
                        THEN missed \cup ({calls[c].key.id} \ {0}) ELSE missed
  BY DEF Failed, Missed, formVars, listVars, serverVars, pageFacts

LEMMA UploadAnswered ==
    ASSUME AdminTyped, NEW c \in Calls, Answered(c), calls[c].api = "upload"
    PROVE  /\ busy' \in Busy /\ busy'.submitting = busy.submitting
           /\ busy'.saving = busy.saving
           /\ UNCHANGED <<pageFacts, edited, missed, rows, draftOf, unknown, edits,
                          leaves>>
  <1>1. NotUploading /\ UNCHANGED <<rows, draftOf, unknown, edits, leaves>>
    BY DEF Answered, serverVars
  <1>2. busy \in Busy /\ busy' = [busy EXCEPT !.uploading = FALSE]
    BY <1>1 DEF NotUploading, AdminTyped, PageTyped, Busy
  <1>3. /\ busy' \in Busy /\ busy'.submitting = busy.submitting
        /\ busy'.saving = busy.saving
    BY <1>2, BusyChanges
  <1> QED
    BY <1>1, <1>3 DEF NotUploading, formVars, listVars, pageFacts

-----------------------------------------------------------------------------
(* Types                                                                   *)

LEMMA BlankFormTyped ==
    /\ BlankForm \in [draft : 0 .. Drafts, row : Row]
    /\ BlankForm.draft = 0
  BY AnyRowIsRow, AdminAssumption DEF BlankForm

LEMMA AdminTypedInit == AdminInit => AdminTyped
  <1> SUFFICES ASSUME AdminInit PROVE AdminTyped
    OBVIOUS
  <1>1. CallsTyped /\ JobsExist
    BY DEF AdminInit, CallsTyped, JobsExist, JobExists, Free
  <1>2. ServerTyped
    <2>1. rows = <<>> /\ draftOf = <<>> /\ unknown = {}
      BY DEF AdminInit
    <2> QED
      BY <2>1, AdminAssumption DEF ServerTyped
  <1>3. PageTyped
    BY AnyRowIsRow, BlankFormTyped DEF AdminInit, PageTyped, NotBusy
  <1>4. ListOK
    <2>1. listed = <<>> /\ lastCreated = 0
      BY DEF AdminInit
    <2> QED
      BY <2>1 DEF ListOK, NewestFirst, Listed
  <1> QED
    BY <1>1, <1>2, <1>3, <1>4 DEF AdminTyped

\* Requests keep their rows, for no row is ever deleted.
LEMMA JobsStay ==
    ASSUME AdminTyped, Existing \subseteq Existing', NEW c \in Calls, Only(c),
           JobExists(c)'
    PROVE  JobsExist'
  BY DEF AdminTyped, JobsExist, JobExists, Only

LEMMA ListStays ==
    ASSUME AdminTyped, Existing \subseteq Existing',
           UNCHANGED <<listed, lastCreated>>
    PROVE  ListOK'
  BY DEF AdminTyped, ListOK, Listed

LEMMA ServerStays ==
    ASSUME AdminTyped, UNCHANGED <<rows, draftOf, unknown>>
    PROVE  ServerTyped' /\ Existing' = Existing
  BY DEF AdminTyped, ServerTyped, Existing

LEMMA PageStays ==
    ASSUME AdminTyped, PageUnchanged, Existing \subseteq Existing'
    PROVE  PageTyped' /\ ListOK'
  <1>1. PageTyped'
    BY DEF PageUnchanged, formVars, listVars, AdminTyped, PageTyped
  <1>2. ListOK'
    BY ListStays DEF PageUnchanged, formVars, listVars
  <1> QED
    BY <1>1, <1>2

LEMMA CustomerTyped ==
    ASSUME AdminTyped,
           FillForm \/ Submit \/ Upload \/ LeaveAdmin
              \/ \E id \in Ids : Edit(id) \/ Save(id)
    PROVE  AdminTyped'
  <1>0. /\ UNCHANGED <<rows, draftOf>>
        /\ UNCHANGED unknown \/ unknown' = {}
    BY DEF FillForm, Submit, Upload, LeaveAdmin, Edit, TypeField, Save,
           serverVars
  <1>1. ServerTyped' /\ Existing' = Existing
    BY <1>0 DEF AdminTyped, ServerTyped, Existing
  <1>2. CASE FillForm
    <2>1. PICK d \in 1 .. Drafts, row \in Fills : form' = [draft |-> d, row |-> row]
      BY <1>2 DEF FillForm
    <2>2. UNCHANGED <<calls, lastCreated, listed, typed, edited, overtaken, busy,
                      missed>>
      BY <1>2 DEF FillForm, listVars
    <2>3. form' \in [draft : 0 .. Drafts, row : Row]
      <3>1. row \in [price : Prices, stock : Nat]
        BY AdminAssumption
      <3>2. row \in Row /\ d \in 0 .. Drafts
        BY <3>1, AdminAssumption DEF Row
      <3> QED
        BY <2>1, <3>2
    <2>4. PageTyped'
      BY <1>1, <2>2, <2>3 DEF AdminTyped, PageTyped
    <2>5. CallsTyped' /\ JobsExist'
      BY <1>1, <2>2 DEF AdminTyped, CallsTyped, JobsExist, JobExists
    <2> QED
      BY <1>1, <2>2, <2>4, <2>5, ListStays DEF AdminTyped
  <1>3. CASE Submit
    <2>1. PICK c \in Calls :
             /\ calls[c] = Free /\ Only(c) /\ CallsTyped'
             /\ calls'[c].api = "create"
             /\ calls'[c].key.id = 0 /\ calls'[c].key.stage = "sent"
      BY <1>3, SubmitSends
    <2>2. UNCHANGED <<form, lastCreated, listed, typed, edited, overtaken, missed>>
      BY <1>3 DEF Submit, listVars, formVars
    <2>3. busy' \in Busy
      BY <1>3, BusyChanges DEF Submit, AdminTyped, PageTyped, Busy
    <2>4. PageTyped'
      BY <1>1, <2>2, <2>3 DEF AdminTyped, PageTyped, Busy
    <2>5. JobsExist'
      BY <1>1, <2>1, JobsStay DEF JobExists
    <2> QED
      BY <1>1, <2>1, <2>2, <2>4, <2>5, ListStays DEF AdminTyped
  <1>4. CASE Upload
    <2>1. lastCreated \in Listed
      BY <1>4 DEF Upload, AdminTyped, ListOK
    <2>2. lastCreated \in Ids /\ lastCreated \in Existing
      BY <2>1, ListedExist
    <2>3. {} \in SUBSET Fields
      OBVIOUS
    <2>4. PICK c \in Calls :
             /\ Only(c) /\ CallsTyped'
             /\ calls'[c].api = "upload" /\ calls'[c].key.id = lastCreated
      BY <1>4, <2>2, <2>3, AnyRowIsRow, JobSends DEF Upload, AdminTyped
    <2>5. UNCHANGED <<form, lastCreated, listed, typed, edited, overtaken, missed>>
      BY <1>4 DEF Upload, listVars, formVars
    <2>6. busy' \in Busy
      BY <1>4, BusyChanges DEF Upload, AdminTyped, PageTyped, Busy
    <2>7. PageTyped'
      BY <1>1, <2>5, <2>6 DEF AdminTyped, PageTyped, Busy
    <2>8. JobsExist'
      BY <1>1, <2>2, <2>4, JobsStay DEF JobExists
    <2> QED
      BY <1>1, <2>4, <2>5, <2>7, <2>8, ListStays DEF AdminTyped
  <1>5. CASE LeaveAdmin
    <2>1. /\ calls' = [c \in Calls |-> Abandoned(c)]
          /\ form' = BlankForm /\ lastCreated' = 0 /\ listed' = <<>>
          /\ busy' = NotBusy /\ typed' = [id \in Ids |-> AnyRow]
          /\ edited' = [id \in Ids |-> {}] /\ overtaken' = {}
          /\ missed' = missed \cup Listed \cup (JobsOf("create", BOOLEAN) \ {0})
      BY <1>5 DEF LeaveAdmin
    <2>2. JobsOf("create", BOOLEAN) \ {0} \subseteq Existing
      BY DEF JobsOf, AdminTyped, JobsExist, JobExists
    <2>3. PageTyped'
      BY <1>1, <2>1, <2>2, ListedExist, AnyRowIsRow, BlankFormTyped
         DEF AdminTyped, PageTyped, NotBusy
    <2>4. ListOK'
      BY <2>1 DEF ListOK, NewestFirst, Listed
    <2>5. CallsTyped'
      BY <2>1, AbandonedCall DEF CallsTyped, AnyCall
    <2>6. JobsExist'
      BY <1>1, <2>1, AbandonedCall DEF AdminTyped, JobsExist, JobExists
    <2> QED
      BY <1>1, <2>3, <2>4, <2>5, <2>6 DEF AdminTyped
  <1>6. ASSUME NEW id \in Ids, Edit(id) PROVE AdminTyped'
    <2>1. PICK f, v :
             /\ f \in Fields /\ TypeField(id, f, v)
             /\ f = "price" => v \in Prices
             /\ f = "stock" => v \in Nat
      BY <1>6, AdminAssumption DEF Edit, Fields
    <2>2. UNCHANGED <<calls, form, lastCreated, listed, overtaken, busy, missed>>
      BY <2>1 DEF TypeField, formVars
    <2>3. typed' \in [Ids -> Row]
      <3>1. PICK r : r = [typed[id] EXCEPT ![f] = v]
        OBVIOUS
      <3>2. typed[id] \in Row
        BY DEF AdminTyped, PageTyped
      <3>3. r \in Row
        BY <2>1, <3>1, <3>2 DEF Row, Fields
      <3>4. typed' = [typed EXCEPT ![id] = r]
        BY <2>1, <3>1 DEF TypeField
      <3> QED
        BY <3>3, <3>4 DEF AdminTyped, PageTyped
    <2>4. edited' \in [Ids -> SUBSET Fields]
      BY <2>1 DEF TypeField, AdminTyped, PageTyped
    <2>5. PageTyped'
      BY <1>1, <2>2, <2>3, <2>4 DEF AdminTyped, PageTyped
    <2>6. CallsTyped' /\ JobsExist'
      BY <1>1, <2>2 DEF AdminTyped, CallsTyped, JobsExist, JobExists
    <2> QED
      BY <1>1, <2>2, <2>5, <2>6, ListStays DEF AdminTyped
  <1>7. ASSUME NEW id \in Ids, Save(id) PROVE AdminTyped'
    <2>1. id \in Listed /\ id \in Existing
      BY <1>7, ListedExist DEF Save
    <2>2. typed[id] \in Row /\ edited[id] \in SUBSET Fields
      BY DEF AdminTyped, PageTyped
    <2>4. PICK c \in Calls :
             /\ Only(c) /\ CallsTyped'
             /\ calls'[c].api = "save" /\ calls'[c].key.id = id
      BY <1>7, <2>2, JobSends DEF Save, AdminTyped
    <2>5. /\ UNCHANGED <<form, lastCreated, listed, typed, overtaken, missed>>
          /\ edited' \in [Ids -> SUBSET Fields]
      BY <1>7 DEF Save, formVars, AdminTyped, PageTyped
    <2>6. busy' \in Busy
      <3>1. busy' = [busy EXCEPT !.saving = busy.saving \cup {id}]
        BY <1>7 DEF Save
      <3>2. busy \in Busy /\ busy.saving \cup {id} \in SUBSET Ids
        BY DEF AdminTyped, PageTyped, Busy
      <3> QED
        BY <3>1, <3>2, BusyChanges
    <2>7. PageTyped'
      BY <1>1, <2>5, <2>6 DEF AdminTyped, PageTyped, Busy
    <2>8. JobsExist'
      BY <1>1, <2>1, <2>4, JobsStay DEF JobExists
    <2> QED
      BY <1>1, <2>4, <2>5, <2>7, <2>8, ListStays DEF AdminTyped
  <1> QED
    BY <1>2, <1>3, <1>4, <1>5, <1>6, <1>7

LEMMA RowReplaced ==
    ASSUME NEW s \in Seq(Row), NEW id \in DOMAIN s, NEW r \in Row,
           NEW t, t = [s EXCEPT ![id] = r]
    PROVE  /\ t \in Seq(Row) /\ Len(t) = Len(s) /\ DOMAIN t = DOMAIN s
           /\ t[id] = r /\ \A i \in DOMAIN s \ {id} : t[i] = s[i]
  <1>1. DOMAIN s = 1 .. Len(s) /\ Len(s) \in Nat /\ \A i \in DOMAIN s : s[i] \in Row
    OBVIOUS
  <1>2. s = [i \in 1 .. Len(s) |-> s[i]]
    BY <1>1
  <1>3. t = [i \in 1 .. Len(s) |-> IF i = id THEN r ELSE s[i]]
    BY <1>1, <1>2
  <1>4. t \in [1 .. Len(s) -> Row]
    BY <1>1, <1>3
  <1>5. t \in Seq(Row) /\ Len(t) = Len(s)
    BY <1>1, <1>3, <1>4
  <1> QED
    BY <1>1, <1>3, <1>5

LEMMA ServerStepTyped ==
    ASSUME AdminTyped,
           \/ \E id \in Existing : Sell(id)
           \/ \E c \in Calls : \/ InsertProduct(c) \/ UpdateProduct(c)
                               \/ ReadBack(c) \/ StoreImage(c)
    PROVE  AdminTyped' /\ PageUnchanged
  <1>0. PageUnchanged
    BY DEF Sell, InsertProduct, UpdateProduct, ReadBack, StoreImage
  <1>1. ASSUME NEW id \in Existing, Sell(id) PROVE AdminTyped'
    <2>1. PICK r : r = [rows[id] EXCEPT !.stock = @ - 1]
      OBVIOUS
    <2>2. rows[id] \in Row /\ rows[id].stock > 0
      BY <1>1 DEF Sell, AdminTyped, ServerTyped, Existing
    <2>3. r \in Row
      BY <2>1, <2>2 DEF Row
    <2>4. /\ rows' = [rows EXCEPT ![id] = r] /\ unknown' = unknown \cup {id}
          /\ UNCHANGED <<calls, draftOf>>
      BY <1>1, <2>1 DEF Sell
    <2>5. rows' \in Seq(Row) /\ Len(rows') = Len(rows) /\ DOMAIN rows' = DOMAIN rows
      BY <2>3, <2>4, RowReplaced DEF AdminTyped, ServerTyped, Existing
    <2>6. ServerTyped' /\ Existing' = Existing
      BY <2>4, <2>5 DEF AdminTyped, ServerTyped, Existing
    <2>7. CallsTyped' /\ JobsExist'
      BY <2>4, <2>6 DEF AdminTyped, CallsTyped, JobsExist, JobExists
    <2> QED
      BY <1>0, <2>6, <2>7, PageStays DEF AdminTyped
  <1>2. ASSUME NEW c \in Calls, InsertProduct(c) PROVE AdminTyped'
    <2>1. /\ CallsTyped' /\ Goes(c, "committed")
          /\ calls[c].api = "create"
          /\ calls'[c].key.id = Len(rows) + 1
          /\ calls[c].key.row \in Row /\ calls[c].key.draft \in 1 .. Drafts
          /\ rows' = Append(rows, Stored(calls[c].key.row))
          /\ Stored(calls[c].key.row) \in Row
          /\ draftOf' = Append(draftOf, calls[c].key.draft)
      BY <1>2, InsertGoes, StoredIs
    <2>2. Len(rows) < MaxProducts /\ unknown' = unknown
      BY <1>2 DEF InsertProduct
    <2>3. /\ rows \in Seq(Row) /\ draftOf \in Seq(1 .. Drafts)
          /\ Len(draftOf) = Len(rows) /\ Len(rows) \in Nat
          /\ unknown \subseteq Existing
      BY DEF AdminTyped, ServerTyped
    <2>4. /\ rows' \in Seq(Row) /\ Len(rows') = Len(rows) + 1
          /\ DOMAIN rows' = 1 .. Len(rows) + 1 /\ DOMAIN rows = 1 .. Len(rows)
      BY <2>1, <2>3
    <2>5. draftOf' \in Seq(1 .. Drafts) /\ Len(draftOf') = Len(rows) + 1
      BY <2>1, <2>3
    <2>6. Existing \subseteq Existing' /\ Len(rows) + 1 \in Existing'
      BY <2>3, <2>4 DEF Existing
    <2>7. ServerTyped'
      <3>1. Len(rows') <= MaxProducts
        BY <2>2, <2>3, <2>4, AdminAssumption
      <3> QED
        BY <2>2, <2>3, <2>4, <2>5, <2>6, <3>1 DEF ServerTyped
    <2>8. JobExists(c)'
      BY <2>1, <2>6 DEF JobExists, Goes
    <2>9. JobsExist'
      BY <2>1, <2>6, <2>8, JobsStay DEF Goes
    <2> QED
      BY <1>0, <2>1, <2>6, <2>7, <2>9, PageStays DEF AdminTyped
  <1>3. ASSUME NEW c \in Calls, UpdateProduct(c) PROVE AdminTyped'
    <2>1. /\ CallsTyped' /\ Goes(c, "committed") /\ calls[c].api = "save"
          /\ calls'[c].key.id = calls[c].key.id
          /\ Stored(calls[c].key.row) \in Row
      BY <1>3, UpdateGoes, StoredIs
    <2>2. calls[c].key.id \in Existing
      BY <2>1 DEF AdminTyped, JobsExist, JobExists
    <2>3. PICK id \in Existing, r \in Row :
             /\ rows' = [rows EXCEPT ![id] = r]
             /\ unknown' \subseteq unknown \cup {id} /\ draftOf' = draftOf
      BY <1>3, <2>1, <2>2 DEF UpdateProduct
    <2>4. rows' \in Seq(Row) /\ Len(rows') = Len(rows) /\ DOMAIN rows' = DOMAIN rows
      BY <2>3, RowReplaced DEF AdminTyped, ServerTyped, Existing
    <2>5. ServerTyped' /\ Existing' = Existing
      BY <2>3, <2>4 DEF AdminTyped, ServerTyped, Existing
    <2>6. JobExists(c)'
      BY <2>1, <2>2, <2>5 DEF JobExists, Goes
    <2>7. JobsExist'
      BY <2>1, <2>5, <2>6, JobsStay DEF Goes
    <2> QED
      BY <1>0, <2>1, <2>5, <2>7, PageStays DEF AdminTyped
  <1>4. ASSUME NEW c \in Calls, ReadBack(c) PROVE AdminTyped'
    <2>1. /\ CallsTyped' /\ Goes(c, "served")
          /\ calls[c].key.id \in Existing
          /\ calls'[c].key.id = calls[c].key.id
      BY <1>4, ReadGoes
    <2>2. unknown' \subseteq unknown /\ UNCHANGED <<rows, draftOf>>
      BY <1>4 DEF ReadBack
    <2>3. ServerTyped' /\ Existing' = Existing
      BY <2>2 DEF AdminTyped, ServerTyped, Existing
    <2>4. JobExists(c)'
      BY <2>1, <2>3 DEF JobExists, Goes
    <2>5. JobsExist'
      BY <2>1, <2>3, <2>4, JobsStay DEF Goes
    <2> QED
      BY <1>0, <2>1, <2>3, <2>5, PageStays DEF AdminTyped
  <1>5. ASSUME NEW c \in Calls, StoreImage(c) PROVE AdminTyped'
    <2>1. /\ CallsTyped' /\ Goes(c, "served") /\ calls[c].api = "upload"
          /\ calls'[c].key.id = calls[c].key.id
      BY <1>5, ImageGoes
    <2>2. ServerTyped' /\ Existing' = Existing
      BY <1>5, ServerStays DEF StoreImage, serverVars
    <2>3. JobExists(c)'
      BY <2>1, <2>2 DEF JobExists, Goes, AdminTyped, JobsExist
    <2>4. JobsExist'
      BY <2>1, <2>2, <2>3, JobsStay DEF Goes
    <2> QED
      BY <1>0, <2>1, <2>2, <2>4, PageStays DEF AdminTyped
  <1> QED
    BY <1>0, <1>1, <1>2, <1>3, <1>4, <1>5

LEMMA AnswersTyped ==
    ASSUME AdminTyped, OneCreate, OneSave, NEW c \in Calls,
           Answered(c) \/ Failed(c) \/ Lost(c)
    PROVE  AdminTyped' /\ UNCHANGED <<rows, draftOf, unknown>>
  <1>1. /\ CallsTyped' /\ Only(c)
        /\ \/ calls'[c] = Free
           \/ calls'[c].api = calls[c].api /\ calls'[c].key = calls[c].key
    BY EndGoes
  <1>2. UNCHANGED <<rows, draftOf, unknown>>
    BY DEF Answered, Failed, Lost, serverVars
  <1>3. ServerTyped' /\ Existing' = Existing
    BY <1>2, ServerStays
  <1>4. JobsExist'
    <2>1. JobExists(c)'
      BY <1>1, <1>3, FreeIsNone DEF JobExists, AdminTyped, JobsExist
    <2> QED
      BY <1>1, <1>3, <2>1, JobsStay
  <1>5. calls[c].api = "create" => {calls[c].key.id} \ {0} \subseteq Existing
    BY DEF AdminTyped, JobsExist, JobExists
  <1>6. CASE (Failed(c) \/ Lost(c)) /\ calls[c].live
    <2>1. /\ busy' \in Busy /\ UNCHANGED pageFacts
          /\ calls[c].api \in {"create", "save", "upload"}
          /\ calls[c].api = "create" =>
                /\ edited' = edited
                /\ missed' = missed \cup ({calls[c].key.id} \ {0})
          /\ calls[c].api = "save" =>
                /\ edited' = [edited EXCEPT ![calls[c].key.id] =
                                 @ \cup calls[c].key.edits]
                /\ missed' = missed
          /\ calls[c].api = "upload" => edited' = edited /\ missed' = missed
      BY <1>6, ErrorShows
    <2>2. edited' \in [Ids -> SUBSET Fields]
      <3>1. calls[c].api = "save" => calls[c].key.edits \in SUBSET Fields
        BY KindOf, KindIs DEF AdminTyped, JobKeys
      <3> QED
        BY <2>1, <3>1 DEF AdminTyped, PageTyped
    <2>3. missed' \subseteq Existing
      BY <1>5, <2>1 DEF AdminTyped, PageTyped
    <2>4. PageTyped'
      BY <1>3, <2>1, <2>2, <2>3 DEF AdminTyped, PageTyped, Busy, pageFacts
    <2>5. ListOK'
      BY <1>3, <2>1, ListStays DEF pageFacts
    <2> QED
      BY <1>1, <1>2, <1>3, <1>4, <2>4, <2>5 DEF AdminTyped
  <1>7. CASE Failed(c) /\ ~calls[c].live
    <2>1. /\ UNCHANGED <<pageFacts, edited, busy>>
          /\ missed' = IF calls[c].api = "create"
                       THEN missed \cup ({calls[c].key.id} \ {0}) ELSE missed
      BY <1>7, DeadEnds
    <2>2. PageTyped'
      BY <1>3, <1>5, <2>1 DEF AdminTyped, PageTyped, pageFacts
    <2>3. ListOK'
      BY <1>3, <2>1, ListStays DEF pageFacts
    <2> QED
      BY <1>1, <1>2, <1>3, <1>4, <2>2, <2>3 DEF AdminTyped
  <1>8. CASE Answered(c) /\ calls[c].api = "upload"
    <2>1. busy' \in Busy /\ UNCHANGED <<pageFacts, edited, missed>>
      BY <1>8, UploadAnswered
    <2>2. PageTyped'
      BY <1>3, <2>1 DEF AdminTyped, PageTyped, pageFacts, Busy
    <2>3. ListOK'
      BY <1>3, <2>1, ListStays DEF pageFacts
    <2> QED
      BY <1>1, <1>2, <1>3, <1>4, <2>2, <2>3 DEF AdminTyped
  <1>9. CASE Answered(c) /\ calls[c].api = "create"
    <2> DEFINE id == calls[c].key.id
    <2>1. /\ id \in Existing /\ calls[c].key.got \in Row
          /\ listed' \in Seq(Entries) /\ NewestFirst(listed')
          /\ IdsOf(listed') = Listed \cup {id}
          /\ typed' = [typed EXCEPT ![id] = calls[c].key.got]
          /\ lastCreated' = id /\ form' = BlankForm
          /\ busy' \in Busy
          /\ UNCHANGED <<edited, overtaken, missed>>
      BY <1>9, CreatedShows
    <2>2. PageTyped'
      BY <1>3, <2>1, BlankFormTyped DEF AdminTyped, PageTyped, Busy
    <2>3. ListOK'
      <3>1. Listed' = IdsOf(listed')
        BY DEF Listed, IdsOf
      <3>2. Listed \subseteq Existing
        BY ListedExist
      <3> QED
        BY <1>3, <2>1, <3>1, <3>2 DEF ListOK, Entries
    <2> QED
      BY <1>1, <1>2, <1>3, <1>4, <2>2, <2>3 DEF AdminTyped
  <1>10. CASE Answered(c) /\ calls[c].api = "save"
    <2> DEFINE id == calls[c].key.id
    <2>1. /\ id \in Listed
          /\ listed' \in Seq(Entries) /\ NewestFirst(listed')
          /\ IdsOf(listed') = Listed
          /\ overtaken' \subseteq overtaken \cup {id}
          /\ busy' \in Busy
          /\ UNCHANGED <<form, lastCreated, typed, edited, missed>>
      BY <1>10, SavedShows
    <2>2. PageTyped'
      BY <1>3, <2>1, ListedExist DEF AdminTyped, PageTyped, Busy
    <2>3. ListOK'
      <3>1. Listed' = IdsOf(listed')
        BY DEF Listed, IdsOf
      <3> QED
        BY <1>3, <2>1, <3>1 DEF AdminTyped, ListOK, Entries
    <2> QED
      BY <1>1, <1>2, <1>3, <1>4, <2>2, <2>3 DEF AdminTyped
  <1>11. calls[c].api \in {"create", "save", "upload", "none"}
    BY KindOf, KindIs DEF AdminTyped
  <1>12. Answered(c) => calls[c].api # "none"
    BY KindOf, KindIs DEF AdminTyped, Answered
  <1> QED
    BY <1>6, <1>7, <1>8, <1>9, <1>10, <1>11, <1>12 DEF Lost

LEMMA AdminTypedStep ==
    AdminTyped /\ OneCreate /\ OneSave /\ [AdminNext]_adminVars => AdminTyped'
  <1> SUFFICES ASSUME AdminTyped, OneCreate, OneSave, [AdminNext]_adminVars
      PROVE  AdminTyped'
    OBVIOUS
  <1>1. CASE UNCHANGED adminVars
    BY <1>1 DEF adminVars, serverVars, formVars, listVars, AdminTyped, CallsTyped,
                ServerTyped, PageTyped, ListOK, JobsExist, JobExists, Listed,
                Existing
  <1> QED
    BY <1>1, CustomerTyped, ServerStepTyped, AnswersTyped DEF AdminNext

-----------------------------------------------------------------------------
(* One request at a time                                                   *)

\* A live request of an API has been one before, for the same product.
NoneNew(api) ==
    \A d \in Calls : Live(d, api)' => /\ Live(d, api)
                                      /\ calls'[d].key.id = calls[d].key.id

LEMMA KeptIsOld == ASSUME NEW api, Kept(api) PROVE NoneNew(api)
  BY DEF Kept, NoneNew, Live

LEMMA CreateStays ==
    ASSUME OneCreate, NoneNew("create"), Listed' \subseteq Listed,
           busy'.submitting = busy.submitting
    PROVE  OneCreate'
  BY DEF OneCreate, NoneNew, Live

LEMMA SaveStays ==
    ASSUME OneSave, NoneNew("save"), Listed \subseteq Listed',
           busy.saving \subseteq busy'.saving
    PROVE  OneSave'
  BY DEF OneSave, NoneNew, Live

LEMMA Goers ==
    ASSUME NEW c \in Calls, NEW stage, Goes(c, stage),
           NEW api, api = calls[c].api => calls'[c].key.id = calls[c].key.id
    PROVE  NoneNew(api)
  BY DEF Goes, Only, NoneNew, Live

LEMMA ServerKeepsOne ==
    ASSUME AdminTyped, OneCreate, OneSave,
           \/ \E id \in Existing : Sell(id)
           \/ \E c \in Calls : \/ InsertProduct(c) \/ UpdateProduct(c)
                               \/ ReadBack(c) \/ StoreImage(c)
    PROVE  OneCreate' /\ OneSave'
  <1>0. UNCHANGED <<listed, busy>> /\ Listed' = Listed
    BY ServerStepTyped DEF PageUnchanged, listVars, Listed
  <1>1. ASSUME NEW id \in Existing, Sell(id) PROVE OneCreate' /\ OneSave'
    BY <1>0, <1>1 DEF Sell, OneCreate, OneSave, Live
  <1>2. ASSUME NEW c \in Calls, InsertProduct(c) PROVE OneCreate' /\ OneSave'
    <2>1. /\ Goes(c, "committed") /\ calls[c].api = "create"
          /\ calls'[c].key.id = Len(rows) + 1
      BY <1>2, InsertGoes
    <2>2. \A id \in Listed : calls'[c].key.id > id
      BY <2>1, ListedExist, ExistingAreIds
    <2>3. OneCreate'
      BY <1>0, <2>1, <2>2 DEF OneCreate, Goes, Only, Live
    <2>4. NoneNew("save")
      BY <2>1, Goers
    <2> QED
      BY <1>0, <2>3, <2>4, SaveStays
  <1>3. ASSUME NEW c \in Calls, NEW stage, Goes(c, stage),
               calls'[c].key.id = calls[c].key.id
        PROVE  OneCreate' /\ OneSave'
    BY <1>0, <1>3, Goers, CreateStays, SaveStays
  <1> QED
    BY <1>1, <1>2, <1>3, UpdateGoes, ReadGoes, ImageGoes

LEMMA CustomerKeepsOne ==
    ASSUME AdminTyped, OneCreate, OneSave,
           FillForm \/ Submit \/ Upload \/ LeaveAdmin
              \/ \E id \in Ids : Edit(id) \/ Save(id)
    PROVE  OneCreate' /\ OneSave'
  <1>0. busy \in Busy
    BY DEF AdminTyped, PageTyped, Busy
  <1>1. CASE FillForm \/ \E id \in Ids : Edit(id)
    BY <1>1 DEF FillForm, Edit, TypeField, listVars, OneCreate, OneSave, Live,
                Listed
  <1>2. CASE Submit
    <2>1. PICK c \in Calls : /\ calls[c] = Free /\ Only(c)
                             /\ calls'[c].api = "create" /\ calls'[c].key.id = 0
      BY <1>2, SubmitSends
    <2>2. /\ Listed' = Listed /\ busy' = [busy EXCEPT !.submitting = TRUE]
          /\ ~busy.submitting
      BY <1>2 DEF Submit, MaySubmit, listVars, Listed
    <2>3. busy'.submitting /\ busy'.saving = busy.saving
      BY <1>0, <2>2, BusyChanges
    <2>4. \A d \in Calls : ~Live(d, "create")
      BY <2>2 DEF OneCreate
    <2>5. OneCreate'
      BY <2>1, <2>2, <2>3, <2>4 DEF OneCreate, Only, Live
    <2>6. NoneNew("save")
      BY <2>1 DEF NoneNew, Only, Live
    <2> QED
      BY <2>2, <2>3, <2>5, <2>6, SaveStays
  <1>3. CASE Upload
    <2>1. /\ Listed' = Listed /\ busy' = [busy EXCEPT !.uploading = TRUE]
          /\ lastCreated # 0
          /\ Send("upload", Job(lastCreated, AnyRow, {}))
      BY <1>3 DEF Upload, listVars, Listed
    <2>2. lastCreated \in Ids
      BY <2>1, ListedExist DEF AdminTyped, ListOK
    <2>3. PICK c \in Calls : Only(c) /\ calls'[c].api = "upload"
      <3>1. {} \in SUBSET Fields
        OBVIOUS
      <3> QED
        BY <2>1, <2>2, <3>1, AnyRowIsRow, JobSends DEF AdminTyped
    <2>4. NoneNew("create") /\ NoneNew("save")
      BY <2>3 DEF NoneNew, Only, Live
    <2>5. busy'.submitting = busy.submitting /\ busy'.saving = busy.saving
      BY <1>0, <2>1, BusyChanges
    <2> QED
      BY <2>1, <2>4, <2>5, CreateStays, SaveStays
  <1>4. CASE LeaveAdmin
    <2>1. calls' = [c \in Calls |-> Abandoned(c)]
      BY <1>4 DEF LeaveAdmin
    <2>2. \A c \in Calls : ~calls'[c].live
      BY <2>1, AbandonedCall
    <2> QED
      BY <2>2 DEF OneCreate, OneSave, Live
  <1>5. ASSUME NEW id \in Ids, Save(id) PROVE OneCreate' /\ OneSave'
    <2>1. /\ id \in Listed /\ id \notin busy.saving /\ Listed' = Listed
          /\ busy' = [busy EXCEPT !.saving = busy.saving \cup {id}]
          /\ Send("save", Job(id, typed[id], edited[id]))
      BY <1>5 DEF Save, Listed
    <2>2. PICK c \in Calls : /\ calls[c] = Free /\ Only(c)
                             /\ calls'[c].api = "save" /\ calls'[c].key.id = id
      <3>1. typed[id] \in Row /\ edited[id] \in SUBSET Fields
        BY DEF AdminTyped, PageTyped
      <3> QED
        BY <2>1, <3>1, JobSends DEF AdminTyped
    <2>3. /\ busy'.saving = busy.saving \cup {id}
          /\ busy'.submitting = busy.submitting
      <3>1. busy.saving \cup {id} \in SUBSET Ids
        BY <1>0 DEF Busy
      <3> QED
        BY <1>0, <2>1, <3>1, BusyChanges
    <2>4. NoneNew("create")
      BY <2>2 DEF NoneNew, Only, Live
    <2>5. \A d \in Calls : Live(d, "save") => calls[d].key.id # id
      BY <2>1 DEF OneSave
    <2>6. OneSave'
      BY <2>1, <2>2, <2>3, <2>5 DEF OneSave, Only, Live
    <2> QED
      BY <2>1, <2>3, <2>4, <2>6, CreateStays
  <1> QED
    BY <1>1, <1>2, <1>3, <1>4, <1>5

LEMMA AnswersKeepOne ==
    ASSUME AdminTyped, OneCreate, OneSave, NEW c \in Calls,
           Answered(c) \/ Failed(c) \/ Lost(c)
    PROVE  OneCreate' /\ OneSave'
  <1>1. /\ Only(c) /\ ~calls'[c].live
        /\ \A api : api # calls[c].api /\ api # "none" => Kept(api)
    BY EndGoes
  <1>2. NoneNew("create") /\ NoneNew("save")
    BY <1>1 DEF Only, NoneNew, Live
  <1>3. CASE Live(c, "create")
    <2>1. \A d \in Calls : ~Live(d, "create")'
      BY <1>1, <1>2, <1>3 DEF NoneNew, OneCreate, Live
    <2>2. OneCreate'
      BY <2>1 DEF OneCreate
    <2>3. Listed \subseteq Listed' /\ busy'.saving = busy.saving
      <3>1. CASE Answered(c)
        <4>1. IdsOf(listed') = Listed \cup {calls[c].key.id}
              /\ busy'.saving = busy.saving
          BY <1>3, <3>1, CreatedShows DEF Live
        <4> QED
          BY <4>1 DEF IdsOf, Listed
      <3>2. CASE Failed(c) \/ Lost(c)
        BY <1>3, <3>2, ErrorShows DEF Live, pageFacts, Listed
      <3> QED
        BY <3>1, <3>2
    <2> QED
      BY <1>2, <2>2, <2>3, SaveStays
  <1>4. CASE Live(c, "save")
    <2>1. /\ Listed' = Listed /\ busy'.saving = busy.saving \ {calls[c].key.id}
          /\ busy'.submitting = busy.submitting
      <3>1. CASE Answered(c)
        <4>1. /\ IdsOf(listed') = Listed
              /\ busy'.saving = busy.saving \ {calls[c].key.id}
              /\ busy'.submitting = busy.submitting
          BY <1>4, <3>1, SavedShows DEF Live
        <4> QED
          BY <4>1 DEF IdsOf, Listed
      <3>2. CASE Failed(c) \/ Lost(c)
        BY <1>4, <3>2, ErrorShows DEF Live, pageFacts, Listed
      <3> QED
        BY <3>1, <3>2
    <2>2. OneCreate'
      BY <1>2, <2>1, CreateStays
    <2>3. \A d \in Calls : Live(d, "save")' =>
             d # c /\ Live(d, "save") /\ calls'[d].key.id = calls[d].key.id
      BY <1>1, <1>2 DEF NoneNew, Live
    <2>4. \A d \in Calls : Live(d, "save")' =>
             calls[d].key.id # calls[c].key.id
      BY <1>4, <2>3 DEF OneSave
    <2>5. OneSave'
      BY <2>1, <2>3, <2>4 DEF OneSave
    <2> QED
      BY <2>2, <2>5
  <1>5. CASE ~Live(c, "create") /\ ~Live(c, "save")
    <2>1. /\ Listed' = Listed /\ busy'.saving = busy.saving
          /\ busy'.submitting = busy.submitting
      <3>1. CASE calls[c].live
        <4>1. calls[c].api = "upload"
          <5>1. calls[c].api \in {"none", "create", "save", "upload"}
            BY KindOf, KindIs DEF AdminTyped
          <5>2. calls[c].api # "none"
            BY <3>1, KindOf, KindIs, FreeIsNone DEF AdminTyped
          <5> QED
            BY <1>5, <3>1, <5>1, <5>2 DEF Live
        <4> QED
          BY <3>1, <4>1, ErrorShows, UploadAnswered DEF pageFacts, Listed
      <3>2. CASE ~calls[c].live
        BY <3>2, DeadEnds DEF Answered, Lost, pageFacts, Listed
      <3> QED
        BY <3>1, <3>2
    <2> QED
      BY <1>2, <2>1, CreateStays, SaveStays
  <1> QED
    BY <1>3, <1>4, <1>5

LEMMA OneStep ==
    AdminTyped /\ OneCreate /\ OneSave /\ [AdminNext]_adminVars
        => OneCreate' /\ OneSave'
  <1> SUFFICES ASSUME AdminTyped, OneCreate, OneSave, [AdminNext]_adminVars
      PROVE  OneCreate' /\ OneSave'
    OBVIOUS
  <1>1. CASE UNCHANGED adminVars
    BY <1>1 DEF adminVars, listVars, OneCreate, OneSave, Live, Listed
  <1> QED
    BY <1>1, CustomerKeepsOne, ServerKeepsOne, AnswersKeepOne DEF AdminNext

-----------------------------------------------------------------------------
(* What was created is accounted for                                       *)

\* A create goes on; or it ends, and is missed or else listed, the form blank.
GoesOn(c) ==
    \/ /\ calls'[c].api = "create" /\ calls'[c].key.id = calls[c].key.id
       /\ calls'[c].live => calls[c].live
    \/ calls[c].key.id \in missed' \cup {0}
    \/ /\ calls[c].live /\ calls[c].key.id \in Listed'
       /\ \A id \in Existing : draftOf[id] # form'.draft

\* A create that is still to be carried out was there already, or has just
\* been sent from the form while there was no other.
Unsent(c) ==
    \/ calls'[c] = calls[c]
    \/ /\ calls'[c].key.draft = form.draft
       /\ \A d \in Calls : ~Live(d, "create")

\* What all steps but an INSERT do.
CreatesGoOn ==
    /\ Existing' = Existing /\ draftOf' = draftOf
    /\ missed \subseteq missed' /\ Listed \subseteq Listed' \cup missed'
    /\ \/ form'.draft = form.draft
       \/ \A id \in Existing : draftOf[id] # form'.draft
    /\ \A c \in Calls : calls[c].api = "create" => GoesOn(c)
    /\ \A c \in Calls :
          Live(c, "create")' /\ calls'[c].key.stage = "sent" => Unsent(c)

LEMMA DraftsAreSome ==
    ASSUME AdminTyped
    PROVE  /\ \A id \in Existing : draftOf[id] \in 1 .. Drafts
           /\ DOMAIN draftOf = Existing
           /\ \A id \in Existing : draftOf[id] # 0
  BY AdminAssumption DEF AdminTyped, ServerTyped, Existing

LEMMA DeadAreSpent ==
    ASSUME CallsTyped', NEW c \in Calls, calls'[c].api = "create",
           ~calls'[c].live, NEW id, calls'[c].key.id = id
    PROVE  Spent(id)'
  <1>1. calls'[c] \in AnyCall
    BY DEF CallsTyped, AnyCall
  <1>2. calls'[c].live \in BOOLEAN
    BY <1>1, KindIs
  <1>3. calls'[c].live = FALSE
    BY <1>2
  <1> QED
    BY <1>3 DEF Spent, DeadJobs, JobsOf

LEMMA SpentStay ==
    ASSUME AdminTyped, CallsTyped', CreatesGoOn, NEW id \in Existing, Spent(id)
    PROVE  Spent(id)'
  <1>1. id # 0
    BY ExistingAreIds DEF Ids
  <1>2. CASE id \in missed
    BY <1>2 DEF CreatesGoOn, Spent
  <1>3. CASE id \in DeadJobs("create")
    <2>1. PICK c \in Calls : /\ calls[c].api = "create" /\ ~calls[c].live
                             /\ calls[c].key.id = id
      BY <1>3 DEF DeadJobs, JobsOf
    <2>2. GoesOn(c)
      BY <2>1 DEF CreatesGoOn
    <2>3. CASE id \in missed'
      BY <2>3 DEF Spent
    <2>4. CASE /\ calls'[c].api = "create" /\ calls'[c].key.id = id
               /\ ~calls'[c].live
      BY <2>4, DeadAreSpent
    <2> QED
      BY <1>1, <2>1, <2>2, <2>3, <2>4 DEF GoesOn
  <1> QED
    BY <1>2, <1>3 DEF Spent

LEMMA AccountedStay ==
    ASSUME AdminTyped, AllAccountedFor, CreatesGoOn
    PROVE  AllAccountedFor'
  <1> SUFFICES ASSUME NEW id \in Existing
               PROVE  \/ id \in Listed' \cup missed'
                      \/ \E c \in Calls : /\ calls'[c].api = "create"
                                          /\ calls'[c].key.id = id
    BY DEF AllAccountedFor, CreatesGoOn
  <1>1. id # 0
    BY ExistingAreIds DEF Ids
  <1>2. CASE id \in Listed \cup missed
    BY <1>2 DEF CreatesGoOn
  <1>3. CASE \E c \in Calls : calls[c].api = "create" /\ calls[c].key.id = id
    BY <1>1, <1>3 DEF CreatesGoOn, GoesOn
  <1> QED
    BY <1>2, <1>3 DEF AllAccountedFor

LEMMA DraftsStay ==
    ASSUME AdminTyped, CallsTyped', DraftsOK, CreatesGoOn
    PROVE  DraftsOK'
  <1>1. \A id \in Existing : id # 0 /\ (Spent(id) => Spent(id)')
    BY SpentStay, ExistingAreIds DEF Ids
  <1>2. DuplicatesNeedFailures'
    <2> SUFFICES ASSUME NEW i \in Existing, NEW j \in Existing, i < j,
                        draftOf[i] = draftOf[j]
                 PROVE  Spent(i)' \/ Spent(j)'
      BY DraftsAreSome DEF DuplicatesNeedFailures, Spent, CreatesGoOn
    <2>1. Spent(i) \/ Spent(j)
      BY DraftsAreSome DEF DraftsOK, DuplicatesNeedFailures, Spent
    <2> QED
      BY <1>1, <2>1
  <1>3. ASSUME NEW id \in Existing
        PROVE  \/ Spent(id)'
               \/ draftOf[id] # form'.draft
               \/ \E c \in Calls : Live(c, "create")' /\ calls'[c].key.id = id
    <2>1. CASE Spent(id) \/ draftOf[id] # form'.draft
      BY <1>1, <2>1
    <2>2. CASE ~Spent(id) /\ draftOf[id] = form'.draft
      <3>1. form'.draft = form.draft
        BY <2>2 DEF CreatesGoOn
      <3>2. PICK c \in Calls : Live(c, "create") /\ calls[c].key.id = id
        BY <2>2, <3>1 DEF DraftsOK
      <3>3. GoesOn(c)
        BY <3>2 DEF CreatesGoOn, Live
      <3>4. CASE id \in missed'
        BY <3>4 DEF Spent
      <3>5. CASE calls'[c].api = "create" /\ calls'[c].key.id = id
        BY <3>5, DeadAreSpent DEF Live
      <3> QED
        BY <1>1, <2>2, <3>2, <3>3, <3>4, <3>5 DEF GoesOn
    <2> QED
      BY <2>1, <2>2
  <1>4. ASSUME NEW c \in Calls, Live(c, "create")', calls'[c].key.stage = "sent",
               NEW id \in Existing, draftOf[id] = calls'[c].key.draft
        PROVE  Spent(id)'
    <2>1. Unsent(c)
      BY <1>4 DEF CreatesGoOn
    <2>2. Spent(id)
      BY <1>4, <2>1 DEF Unsent, DraftsOK, Live
    <2> QED
      BY <1>1, <2>2
  <1> QED
    BY <1>2, <1>3, <1>4 DEF DraftsOK, CreatesGoOn

\* A new row: its draft is that of no other that the page knows of.
LEMMA InsertKeepsDrafts ==
    ASSUME AdminTyped, OneCreate, AllAccountedFor, DraftsOK,
           NEW c \in Calls, InsertProduct(c)
    PROVE  AllAccountedFor' /\ DraftsOK'
  <1>0. PICK new, draft : new = Len(rows) + 1 /\ draft = calls[c].key.draft
    OBVIOUS
  <1>1. /\ Goes(c, "committed") /\ calls[c].api = "create"
        /\ calls[c].key.stage = "sent" /\ calls'[c].key.id = new
        /\ CallsTyped'
        /\ draft \in 1 .. Drafts /\ draftOf' = Append(draftOf, draft)
        /\ rows' = Append(rows, Stored(calls[c].key.row))
    BY <1>0, InsertGoes
  <1>2. UNCHANGED <<missed, form, listed>> /\ Listed' = Listed
    BY DEF InsertProduct, PageUnchanged, formVars, listVars, Listed
  <1>3. /\ Existing' = Existing \cup {new} /\ new \notin Existing
        /\ draftOf'[new] = draft
        /\ \A id \in Existing : draftOf'[id] = draftOf[id] /\ id < new
        /\ DOMAIN draftOf' = Existing'
    <2>1. /\ rows \in Seq(Row) /\ draftOf \in Seq(1 .. Drafts)
          /\ Len(draftOf) = Len(rows) /\ Stored(calls[c].key.row) \in Row
      BY InsertGoes, StoredIs DEF AdminTyped, ServerTyped
    <2> QED
      BY <1>0, <1>1, <2>1 DEF Existing
  <1>4. calls[c].key.id = 0
    BY <1>1 DEF AdminTyped, JobsExist, JobExists
  <1>5. \A d \in Calls \ {c} : calls'[d] = calls[d]
    BY <1>1 DEF Goes, Only
  <1>6. \A id \in Existing : id # 0 /\ id # new
    BY <1>3, ExistingAreIds DEF Ids
  <1>7. ASSUME NEW id \in Existing, Spent(id) PROVE Spent(id)'
    BY <1>2, <1>4, <1>5, <1>6, <1>7 DEF Spent, DeadJobs, JobsOf
  <1>8. ~calls[c].live => Spent(new)'
    BY <1>1, DeadAreSpent DEF Goes
  <1>9. calls[c].live => \A id \in Existing : draftOf[id] = draft => Spent(id)
    BY <1>0, <1>1 DEF DraftsOK, Live
  <1>10. AllAccountedFor'
    <2> SUFFICES ASSUME NEW id \in Existing'
                 PROVE  \/ id \in Listed' \cup missed'
                        \/ \E d \in Calls : /\ calls'[d].api = "create"
                                            /\ calls'[d].key.id = id
      BY DEF AllAccountedFor
    <2>1. CASE id = new
      BY <1>1, <2>1 DEF Goes
    <2>2. CASE id \in Existing
      BY <1>2, <1>4, <1>5, <1>6, <2>2 DEF AllAccountedFor
    <2> QED
      BY <1>3, <2>1, <2>2
  <1>11. DuplicatesNeedFailures'
    <2> SUFFICES ASSUME NEW i \in Existing', NEW j \in Existing', i < j,
                        draftOf'[i] = draftOf'[j]
                 PROVE  Spent(i)' \/ Spent(j)'
      BY <1>3 DEF DuplicatesNeedFailures, Spent
    <2>1. i \in Existing
      <3>1. SUFFICES ASSUME i = new PROVE FALSE
        BY <1>3
      <3>2. j \in Nat /\ new \in Nat /\ j <= new
        BY <1>0, <1>3, ExistingAreIds
      <3> QED
        BY <3>1, <3>2
    <2>2. CASE j \in Existing
      <3>1. Spent(i) \/ Spent(j)
        BY <1>3, <2>1, <2>2, DraftsAreSome
           DEF DraftsOK, DuplicatesNeedFailures, Spent
      <3> QED
        BY <1>7, <2>1, <2>2, <3>1
    <2>3. CASE j = new
      BY <1>3, <1>7, <1>8, <1>9, <2>1, <2>3
    <2> QED
      BY <1>3, <2>2, <2>3
  <1>12. ASSUME NEW id \in Existing'
         PROVE  \/ Spent(id)'
                \/ draftOf'[id] # form'.draft
                \/ \E d \in Calls : Live(d, "create")' /\ calls'[d].key.id = id
    <2>1. CASE id = new
      BY <1>1, <1>8, <2>1 DEF Goes, Live
    <2>2. CASE id \in Existing
      <3>1. CASE Spent(id) \/ draftOf[id] # form.draft
        BY <1>2, <1>3, <1>7, <2>2, <3>1
      <3>2. CASE \E d \in Calls : Live(d, "create") /\ calls[d].key.id = id
        BY <1>4, <1>5, <1>6, <2>2, <3>2 DEF Live
      <3> QED
        BY <2>2, <3>1, <3>2 DEF DraftsOK
    <2> QED
      BY <1>3, <2>1, <2>2
  <1>13. ASSUME NEW d \in Calls, Live(d, "create")', calls'[d].key.stage = "sent",
                NEW id \in Existing', draftOf'[id] = calls'[d].key.draft
         PROVE  Spent(id)'
    <2>1. d # c /\ calls'[d] = calls[d]
      BY <1>1, <1>5, <1>13 DEF Goes
    <2>2. ~Live(c, "create") /\ ~calls[c].live
      BY <1>1, <1>13, <2>1 DEF OneCreate, Live
    <2>3. CASE id = new
      BY <1>8, <2>2, <2>3
    <2>4. CASE id \in Existing
      BY <1>3, <1>7, <1>13, <2>1, <2>4 DEF DraftsOK, Live
    <2> QED
      BY <1>3, <2>3, <2>4
  <1> QED
    BY <1>10, <1>11, <1>12, <1>13 DEF DraftsOK

\* Steps that leave the creates alone.
LEMMA KeptGoesOn ==
    ASSUME AdminTyped, Kept("create"), Existing' = Existing,
           UNCHANGED <<draftOf, missed, Listed, form>>
    PROVE  CreatesGoOn
  BY DEF CreatesGoOn, Kept, GoesOn, Unsent, Live

LEMMA NewIsKept ==
    ASSUME NEW c \in Calls, calls[c] = Free, Only(c),
           NEW api, api \notin {"none", calls'[c].api}
    PROVE  Kept(api)
  BY FreeIsNone DEF Only, Kept

LEMMA GoesIsKept ==
    ASSUME NEW c \in Calls, NEW stage, Goes(c, stage),
           NEW api, api # calls[c].api
    PROVE  Kept(api)
  BY DEF Goes, Only, Kept

LEMMA CustomerGoesOn ==
    ASSUME AdminTyped, OneCreate,
           FillForm \/ Submit \/ Upload \/ LeaveAdmin
              \/ \E id \in Ids : Edit(id) \/ Save(id)
    PROVE  CreatesGoOn
  <1>0. UNCHANGED <<rows, draftOf>> /\ Existing' = Existing
    BY DEF FillForm, Submit, Upload, LeaveAdmin, Edit, TypeField, Save,
           serverVars, Existing
  <1>1. CASE FillForm
    <2>1. PICK d \in 1 .. Drafts, row \in Fills :
             /\ \A i \in DOMAIN draftOf : d > draftOf[i]
             /\ form' = [draft |-> d, row |-> row]
      BY <1>1 DEF FillForm
    <2>2. form'.draft = d
      BY <2>1
    <2>3. \A id \in Existing : draftOf[id] # form'.draft
      <3>1. \A id \in Existing : draftOf[id] \in Nat /\ d > draftOf[id]
        BY <2>1, DraftsAreSome, AdminAssumption
      <3> QED
        BY <2>1, <2>2, <3>1, AdminAssumption
    <2>4. UNCHANGED <<calls, missed, Listed>>
      BY <1>1 DEF FillForm, listVars, Listed
    <2> QED
      BY <1>0, <2>3, <2>4 DEF CreatesGoOn, GoesOn, Unsent, Live
  <1>2. CASE Submit
    <2>1. PICK c \in Calls : /\ calls[c] = Free /\ Only(c)
                             /\ calls'[c].key.draft = form.draft
      BY <1>2, SubmitSends
    <2>2. UNCHANGED <<missed, Listed, form>> /\ ~busy.submitting
      BY <1>2 DEF Submit, MaySubmit, listVars, formVars, Listed
    <2>3. \A d \in Calls : ~Live(d, "create")
      BY <2>2 DEF OneCreate
    <2>4. \A d \in Calls : calls[d].api = "create" => calls'[d] = calls[d]
      BY <2>1, FreeIsNone DEF Only
    <2> QED
      BY <1>0, <2>1, <2>2, <2>3, <2>4 DEF CreatesGoOn, GoesOn, Unsent, Only
  <1>3. CASE Upload
    <2>1. /\ UNCHANGED <<missed, Listed, form>>
          /\ lastCreated # 0
          /\ Send("upload", Job(lastCreated, AnyRow, {}))
      BY <1>3 DEF Upload, listVars, formVars, Listed
    <2>2. lastCreated \in Ids
      BY <2>1, ListedExist DEF AdminTyped, ListOK
    <2>3. PICK c \in Calls : /\ calls[c] = Free /\ Only(c)
                             /\ calls'[c].api = "upload"
      <3>1. {} \in SUBSET Fields
        OBVIOUS
      <3> QED
        BY <2>1, <2>2, <3>1, AnyRowIsRow, JobSends DEF AdminTyped
    <2> QED
      BY <1>0, <2>1, <2>3, NewIsKept, KeptGoesOn
  <1>4. CASE LeaveAdmin
    <2>1. /\ calls' = [c \in Calls |-> Abandoned(c)]
          /\ form' = BlankForm /\ listed' = <<>>
          /\ missed' = missed \cup Listed \cup (JobsOf("create", BOOLEAN) \ {0})
      BY <1>4 DEF LeaveAdmin
    <2>2. \A c \in Calls : ~calls'[c].live
      BY <2>1, AbandonedCall
    <2>3. ASSUME NEW c \in Calls, calls[c].api = "create"
          PROVE  calls[c].key.id \in missed' \cup {0}
      <3>1. calls[c].live \in BOOLEAN
        BY KindOf, KindIs DEF AdminTyped
      <3> QED
        BY <2>1, <2>3, <3>1 DEF JobsOf
    <2>4. \A id \in Existing : draftOf[id] # form'.draft
      BY <2>1, DraftsAreSome, BlankFormTyped
    <2>5. missed \subseteq missed' /\ Listed \subseteq missed'
      BY <2>1
    <2> QED
      BY <1>0, <2>2, <2>3, <2>4, <2>5 DEF CreatesGoOn, GoesOn, Live
  <1>5. ASSUME NEW id \in Ids, Edit(id) PROVE CreatesGoOn
    <2>1. UNCHANGED <<calls, missed, Listed, form>>
      BY <1>5 DEF Edit, TypeField, formVars, Listed
    <2> QED
      BY <1>0, <2>1, KeptGoesOn DEF Kept
  <1>6. ASSUME NEW id \in Ids, Save(id) PROVE CreatesGoOn
    <2>1. /\ UNCHANGED <<missed, Listed, form>>
          /\ Send("save", Job(id, typed[id], edited[id]))
      BY <1>6 DEF Save, formVars, Listed
    <2>2. PICK c \in Calls : /\ calls[c] = Free /\ Only(c)
                             /\ calls'[c].api = "save"
      <3>1. typed[id] \in Row /\ edited[id] \in SUBSET Fields
        BY DEF AdminTyped, PageTyped
      <3> QED
        BY <2>1, <3>1, JobSends DEF AdminTyped
    <2> QED
      BY <1>0, <2>1, <2>2, NewIsKept, KeptGoesOn
  <1> QED
    BY <1>1, <1>2, <1>3, <1>4, <1>5, <1>6

LEMMA ServerGoesOn ==
    ASSUME AdminTyped,
           \/ \E id \in Existing : Sell(id)
           \/ \E c \in Calls : UpdateProduct(c) \/ ReadBack(c) \/ StoreImage(c)
    PROVE  CreatesGoOn
  <1>1. UNCHANGED <<draftOf, missed, Listed, form>>
    <2>1. PageUnchanged /\ UNCHANGED draftOf
      BY DEF Sell, UpdateProduct, ReadBack, StoreImage, serverVars
    <2> QED
      BY <2>1 DEF PageUnchanged, formVars, listVars, Listed
  <1>2. Existing' = Existing
    <2>1. DOMAIN rows' = DOMAIN rows
      BY DEF Sell, UpdateProduct, ReadBack, StoreImage, serverVars
    <2> QED
      BY <2>1 DEF Existing
  <1>3. CASE \E id \in Existing : Sell(id)
    BY <1>1, <1>2, <1>3, KeptGoesOn DEF Sell, Kept
  <1>4. ASSUME NEW c \in Calls, NEW stage, Goes(c, stage), stage # "sent",
               calls'[c].key.id = calls[c].key.id
        PROVE  CreatesGoOn
    <2>1. CASE calls[c].api # "create"
      BY <1>1, <1>2, <1>4, <2>1, GoesIsKept, KeptGoesOn
    <2>2. CASE calls[c].api = "create"
      BY <1>1, <1>2, <1>4, <2>2
         DEF CreatesGoOn, GoesOn, Unsent, Live, Goes, Only
    <2> QED
      BY <2>1, <2>2
  <1> QED
    BY <1>3, <1>4, UpdateGoes, ReadGoes, ImageGoes

LEMMA AnswersGoOn ==
    ASSUME AdminTyped, OneCreate, OneSave, NEW c \in Calls,
           Answered(c) \/ Failed(c) \/ Lost(c)
    PROVE  CreatesGoOn
  <1>1. /\ Only(c) /\ ~calls'[c].live
        /\ \A api : api # calls[c].api /\ api # "none" => Kept(api)
    BY EndGoes
  <1>2. UNCHANGED <<rows, draftOf>> /\ Existing' = Existing
    BY AnswersTyped DEF Existing
  <1>3. CASE calls[c].api # "create"
    <2>1. UNCHANGED <<missed, Listed, form>>
      <3>1. CASE Answered(c)
        <4>1. CASE calls[c].api = "save"
          <5>1. /\ IdsOf(listed') = Listed /\ UNCHANGED <<missed, form>>
            BY <3>1, <4>1, SavedShows
          <5> QED
            BY <5>1 DEF IdsOf, Listed
        <4>2. CASE calls[c].api = "upload"
          BY <3>1, <4>2, UploadAnswered DEF pageFacts, Listed
        <4> QED
          BY <1>3, <3>1, <4>1, <4>2, KindOf, KindIs DEF AdminTyped, Answered
      <3>2. CASE (Failed(c) \/ Lost(c)) /\ calls[c].live
        BY <1>3, <3>2, ErrorShows DEF pageFacts, Listed
      <3>3. CASE Failed(c) /\ ~calls[c].live
        BY <1>3, <3>3, DeadEnds DEF pageFacts, Listed
      <3> QED
        BY <3>1, <3>2, <3>3 DEF Lost
    <2> QED
      BY <1>1, <1>2, <1>3, <2>1, KeptGoesOn
  <1>4. CASE calls[c].api = "create"
    <2>1. /\ GoesOn(c) /\ missed \subseteq missed' /\ Listed \subseteq Listed'
          /\ \/ form'.draft = form.draft
             \/ \A id \in Existing : draftOf[id] # form'.draft
      <3>1. CASE Answered(c)
        <4>1. /\ IdsOf(listed') = Listed \cup {calls[c].key.id}
              /\ form' = BlankForm /\ missed' = missed /\ Live(c, "create")
          BY <1>4, <3>1, CreatedShows
        <4>2. \A id \in Existing : draftOf[id] # form'.draft
          BY <4>1, DraftsAreSome, BlankFormTyped
        <4> QED
          BY <4>1, <4>2 DEF IdsOf, Listed, GoesOn, Live
      <3>2. CASE (Failed(c) \/ Lost(c)) /\ calls[c].live
        BY <1>4, <3>2, ErrorShows DEF pageFacts, Listed, GoesOn
      <3>3. CASE Failed(c) /\ ~calls[c].live
        BY <1>4, <3>3, DeadEnds DEF pageFacts, Listed, GoesOn
      <3> QED
        BY <3>1, <3>2, <3>3 DEF Lost
    <2>2. \A d \in Calls \ {c} : calls'[d] = calls[d]
      BY <1>1 DEF Only
    <2> QED
      BY <1>1, <1>2, <2>1, <2>2 DEF CreatesGoOn, GoesOn, Unsent, Live
  <1> QED
    BY <1>3, <1>4

LEMMA CreatesStep ==
    /\ AdminTyped /\ OneCreate /\ OneSave /\ AllAccountedFor /\ DraftsOK
    /\ [AdminNext]_adminVars
    => AllAccountedFor' /\ DraftsOK'
  <1> SUFFICES ASSUME AdminTyped, OneCreate, OneSave, AllAccountedFor, DraftsOK,
                      [AdminNext]_adminVars
      PROVE  AllAccountedFor' /\ DraftsOK'
    OBVIOUS
  <1>1. CASE \E c \in Calls : InsertProduct(c)
    BY <1>1, InsertKeepsDrafts
  <1>2. CASE CreatesGoOn
    <2>1. CallsTyped'
      BY AdminTypedStep DEF AdminTyped
    <2> QED
      BY <1>2, <2>1, AccountedStay, DraftsStay
  <1>3. CASE UNCHANGED adminVars
    <2>1. UNCHANGED <<calls, draftOf, missed, Listed, form>> /\ Existing' = Existing
      BY <1>3 DEF adminVars, serverVars, formVars, listVars, Listed, Existing
    <2> QED
      BY <1>2, <2>1, KeptGoesOn DEF Kept
  <1> QED
    BY <1>1, <1>2, <1>3, CustomerGoesOn, ServerGoesOn, AnswersGoOn DEF AdminNext

-----------------------------------------------------------------------------
(* What the inputs, the requests and the table have of each other          *)

\* The live requests are as they were.
SameLive(api) ==
    \A c \in Calls : Live(c, api) \/ Live(c, api)' => calls'[c] = calls[c]

OldServed ==
    \A c \in Calls : Live(c, "create")' /\ calls'[c].key.stage = "served"
                        => calls'[c] = calls[c]

LEMMA KeptIsSame == ASSUME NEW api, Kept(api) PROVE SameLive(api)
  BY DEF Kept, SameLive, Live

LEMMA SameIsOld == SameLive("create") => OldServed
  BY DEF SameLive, OldServed

LEMMA SavingStays ==
    ASSUME SameLive("save"), NEW id
    PROVE  Saving(id)' = Saving(id)
  BY DEF SameLive, Saving, Live

LEMMA SavesOfListed ==
    ASSUME AdminTyped, OneSave, NEW c \in Calls, Live(c, "save")
    PROVE  /\ calls[c].key.id \in Listed /\ calls[c].key.id \in Ids
           /\ calls[c].key.id \in Existing
           /\ Saving(calls[c].key.id)
           /\ calls[c].key \in JobKeys
  BY ListedExist, KindOf, KindIs DEF OneSave, Live, AdminTyped, Saving

LEMMA CreatesOfUnlisted ==
    ASSUME AdminTyped, OneCreate, NEW c \in Calls, Live(c, "create"),
           calls[c].key.stage # "sent"
    PROVE  calls[c].key.id \notin Listed /\ calls[c].key.id \in Existing
  <1>1. calls[c].key.id \in Existing
    BY DEF AdminTyped, JobsExist, JobExists, Live
  <1>2. calls[c].key.id \in Nat \ {0}
    BY <1>1, ExistingAreIds
  <1>3. \A id \in Listed : calls[c].key.id > id
    BY <1>2 DEF OneCreate
  <1> QED
    BY <1>1, <1>2, <1>3, ListedExist

\* A step that does not matter here.
LEMMA QuietSteps ==
    ASSUME RowsAgree, SameLive("save"), OldServed,
           UNCHANGED <<rows, unknown, typed, edited, Listed>>
    PROVE  RowsAgree'
  <1>1. InputsOK'
    <2> SUFFICES ASSUME NEW id \in Listed PROVE InputOK(id)'
      BY DEF InputsOK
    <2>1. InputOK(id) /\ Saving(id)' = Saving(id)
      BY SavingStays DEF RowsAgree, InputsOK
    <2> QED
      BY <2>1 DEF InputOK
  <1>2. SavesOK'
    <2> SUFFICES ASSUME NEW c \in Calls, Live(c, "save")' PROVE SaveOK(c)'
      BY DEF SavesOK
    <2>1. calls'[c] = calls[c] /\ Live(c, "save")
      BY DEF SameLive, Live
    <2> QED
      BY <2>1 DEF RowsAgree, SavesOK, SaveOK
  <1>3. CreatesOK'
    BY DEF RowsAgree, CreatesOK, CreateOK, OldServed, Live
  <1> QED
    BY <1>1, <1>2, <1>3 DEF RowsAgree

LEMMA SaveSendsJob ==
    ASSUME AdminTyped, NEW id \in Ids, Save(id)
    PROVE  \E c \in Calls :
              /\ calls[c] = Free /\ Only(c)
              /\ calls'[c].api = "save" /\ calls'[c].live
              /\ calls'[c].key.id = id /\ calls'[c].key.stage = "sent"
              /\ calls'[c].key.row = typed[id]
              /\ calls'[c].key.edits = edited[id]
  <1>1. typed[id] \in Row /\ edited[id] \in SUBSET Fields
    BY DEF AdminTyped, PageTyped
  <1> QED
    BY <1>1, JobSends DEF Save, AdminTyped

\* What typing into a field changes.
LEMMA EditTypes ==
    ASSUME AdminTyped, NEW id \in Ids, Edit(id)
    PROVE  /\ UNCHANGED <<calls, rows, unknown, listed, overtaken, busy>>
           /\ edited'[id] # {}
           /\ \A g \in Fields : typed'[id][g] # typed[id][g] => g \in edited'[id]
           /\ edited[id] \subseteq edited'[id]
           /\ \A i \in Ids \ {id} : typed'[i] = typed[i] /\ edited'[i] = edited[i]
  <1>1. PICK f, v : f \in Fields /\ TypeField(id, f, v)
    BY DEF Edit, Fields
  <1>2. PICK r : r = [typed[id] EXCEPT ![f] = v]
    OBVIOUS
  <1>3. typed \in [Ids -> Row] /\ edited \in [Ids -> SUBSET Fields]
    BY DEF AdminTyped, PageTyped
  <1>4. \A g \in Fields : g # f => r[g] = typed[id][g]
    BY <1>2, <1>3 DEF Row, Fields
  <1>5. typed' = [typed EXCEPT ![id] = r]
        /\ edited' = [edited EXCEPT ![id] = edited[id] \cup {f}]
    BY <1>1, <1>2 DEF TypeField
  <1>6. /\ typed'[id] = r /\ edited'[id] = edited[id] \cup {f}
        /\ \A i \in Ids \ {id} : typed'[i] = typed[i] /\ edited'[i] = edited[i]
    BY <1>3, <1>5
  <1>7. UNCHANGED <<calls, rows, unknown, listed, overtaken, busy>>
    BY <1>1 DEF TypeField, serverVars
  <1> QED
    BY <1>4, <1>6, <1>7

LEMMA CustomerAgrees ==
    ASSUME AdminTyped, OneCreate, OneSave, RowsAgree,
           FillForm \/ Submit \/ Upload \/ LeaveAdmin
              \/ \E id \in Ids : Edit(id) \/ Save(id)
    PROVE  RowsAgree'
  <1>1. CASE FillForm
    <2>1. UNCHANGED <<calls, rows, unknown, typed, edited, Listed>>
      BY <1>1 DEF FillForm, serverVars, listVars, Listed
    <2> QED
      BY <2>1, QuietSteps DEF SameLive, OldServed
  <1>2. CASE Submit
    <2>1. PICK c \in Calls : /\ calls[c] = Free /\ Only(c)
                             /\ calls'[c].api = "create"
                             /\ calls'[c].key.stage = "sent"
      BY <1>2, SubmitSends
    <2>2. UNCHANGED <<rows, unknown, typed, edited, Listed>>
      BY <1>2 DEF Submit, serverVars, listVars, Listed
    <2>3. SameLive("save")
      BY <2>1, NewIsKept, KeptIsSame
    <2>4. OldServed
      BY <2>1 DEF OldServed, Only
    <2> QED
      BY <2>2, <2>3, <2>4, QuietSteps
  <1>3. CASE Upload
    <2>1. /\ UNCHANGED <<rows, unknown, typed, edited, Listed>>
          /\ lastCreated # 0
          /\ Send("upload", Job(lastCreated, AnyRow, {}))
      BY <1>3 DEF Upload, serverVars, listVars, Listed
    <2>2. lastCreated \in Ids
      BY <2>1, ListedExist DEF AdminTyped, ListOK
    <2>3. PICK c \in Calls : /\ calls[c] = Free /\ Only(c)
                             /\ calls'[c].api = "upload"
      <3>1. {} \in SUBSET Fields
        OBVIOUS
      <3> QED
        BY <2>1, <2>2, <3>1, AnyRowIsRow, JobSends DEF AdminTyped
    <2>4. Kept("save") /\ Kept("create")
      BY <2>3, NewIsKept
    <2> QED
      BY <2>1, <2>4, KeptIsSame, SameIsOld, QuietSteps
  <1>4. CASE LeaveAdmin
    <2>1. calls' = [c \in Calls |-> Abandoned(c)] /\ listed' = <<>>
      BY <1>4 DEF LeaveAdmin
    <2>2. \A c \in Calls : ~calls'[c].live
      BY <2>1, AbandonedCall
    <2>3. Listed' = {}
      BY <2>1 DEF Listed
    <2> QED
      BY <2>2, <2>3 DEF RowsAgree, InputsOK, SavesOK, CreatesOK, Live
  <1>5. ASSUME NEW id \in Ids, Edit(id) PROVE RowsAgree'
    <2>1. /\ UNCHANGED <<calls, rows, unknown, Listed>>
          /\ \A g \in Fields : typed'[id][g] # typed[id][g] => g \in edited'[id]
          /\ edited[id] \subseteq edited'[id]
          /\ \A i \in Ids \ {id} : typed'[i] = typed[i] /\ edited'[i] = edited[i]
      BY <1>5, EditTypes DEF Listed
    <2>2. InputsOK'
      <3> SUFFICES ASSUME NEW i \in Listed PROVE InputOK(i)'
        BY <2>1 DEF InputsOK
      <3>1. Saving(i)' = Saving(i) /\ i \in Ids /\ InputOK(i)
        BY <2>1, ListedExist DEF Saving, Live, RowsAgree, InputsOK
      <3>2. CASE i = id
        <4>1. typed[id] \in Row /\ typed'[id] \in Row
          BY CustomerTyped, <1>5 DEF AdminTyped, PageTyped
        <4>2. \A g \in Fields : typed'[id][g] = typed[id][g]
                  => Stored(typed'[id])[g] = Stored(typed[id])[g]
          BY <4>1, StoredFields
        <4> QED
          BY <2>1, <3>1, <3>2, <4>2 DEF InputOK
      <3>3. CASE i # id
        BY <2>1, <3>1, <3>3 DEF InputOK
      <3> QED
        BY <3>2, <3>3
    <2>3. SavesOK'
      <3> SUFFICES ASSUME NEW c \in Calls, Live(c, "save") PROVE SaveOK(c)'
        BY <2>1 DEF SavesOK, Live
      <3>1. calls[c].key.id \in Ids /\ SaveOK(c)
        BY SavesOfListed DEF RowsAgree, SavesOK
      <3> QED
        BY <2>1, <3>1 DEF SaveOK
    <2>4. CreatesOK'
      BY <2>1 DEF RowsAgree, CreatesOK, CreateOK, Live
    <2> QED
      BY <2>2, <2>3, <2>4 DEF RowsAgree
  <1>6. ASSUME NEW id \in Ids, Save(id) PROVE RowsAgree'
    <2>1. PICK c \in Calls :
              /\ calls[c] = Free /\ Only(c)
              /\ calls'[c].api = "save" /\ calls'[c].live
              /\ calls'[c].key.id = id /\ calls'[c].key.stage = "sent"
              /\ calls'[c].key.row = typed[id]
              /\ calls'[c].key.edits = edited[id]
      BY <1>6, SaveSendsJob
    <2>2. /\ UNCHANGED <<rows, unknown, typed, Listed>>
          /\ id \in Listed /\ id \notin busy.saving
          /\ edited' = [edited EXCEPT ![id] = {}]
      BY <1>6 DEF Save, serverVars, Listed
    <2>3. ~Saving(id) /\ Saving(id)' /\ \A i : i # id => Saving(i)' = Saving(i)
      BY <2>1, <2>2, FreeIsNone DEF OneSave, Saving, Only, Live
    <2>4. \A i \in Ids \ {id} : edited'[i] = edited[i]
      BY <2>2 DEF AdminTyped, PageTyped
    <2>5. InputsOK'
      <3> SUFFICES ASSUME NEW i \in Listed, i # id PROVE InputOK(i)'
        BY <2>2, <2>3 DEF InputsOK, InputOK
      <3>1. i \in Ids /\ InputOK(i)
        BY ListedExist DEF RowsAgree, InputsOK
      <3> QED
        BY <2>2, <2>3, <2>4, <3>1 DEF InputOK
    <2>6. SaveOK(c)'
      <3>1. InputOK(id)
        BY <2>2 DEF RowsAgree, InputsOK
      <3> QED
        BY <2>1, <2>2, <2>3, <3>1 DEF InputOK, SaveOK
    <2>7. ASSUME NEW d \in Calls, d # c, Live(d, "save")' PROVE SaveOK(d)'
      <3>1. calls'[d] = calls[d] /\ Live(d, "save")
        BY <2>1, <2>7 DEF Only, Live
      <3>2. calls[d].key.id \in Ids /\ calls[d].key.id # id /\ SaveOK(d)
        BY <2>3, <3>1, SavesOfListed DEF RowsAgree, SavesOK
      <3> QED
        BY <2>2, <2>4, <3>1, <3>2 DEF SaveOK
    <2>8. CreatesOK'
      BY <2>1, <2>2 DEF RowsAgree, CreatesOK, CreateOK, Only, Live
    <2> QED
      BY <2>5, <2>6, <2>7, <2>8 DEF RowsAgree, SavesOK
  <1> QED
    BY <1>1, <1>2, <1>3, <1>4, <1>5, <1>6

LEMMA ServerAgrees ==
    ASSUME AdminTyped, OneCreate, OneSave, RowsAgree,
           \/ \E id \in Existing : Sell(id)
           \/ \E c \in Calls : \/ InsertProduct(c) \/ UpdateProduct(c)
                               \/ ReadBack(c) \/ StoreImage(c)
    PROVE  RowsAgree'
  <1>0. UNCHANGED <<typed, edited, Listed>>
    BY ServerStepTyped DEF PageUnchanged, listVars, Listed
  \* A row that changes behind the page is unknown from then on.
  <1>1. ASSUME NEW id, SameLive("save"), SameLive("create"),
               unknown' = unknown \cup {id},
               \A i \in Existing \ {id} : rows'[i] = rows[i]
        PROVE  RowsAgree'
    <2>1. InputsOK'
      <3> SUFFICES ASSUME NEW i \in Listed, i # id PROVE InputOK(i)'
        BY <1>0, <1>1 DEF InputsOK, InputOK
      <3>1. i \in Existing /\ InputOK(i) /\ Saving(i)' = Saving(i)
        BY <1>1, ListedExist, SavingStays DEF RowsAgree, InputsOK
      <3> QED
        BY <1>0, <1>1, <3>1 DEF InputOK
    <2>2. SavesOK'
      <3> SUFFICES ASSUME NEW c \in Calls, Live(c, "save")' PROVE SaveOK(c)'
        BY DEF SavesOK
      <3>1. Live(c, "save") /\ calls'[c] = calls[c]
        BY <1>1 DEF SameLive, Live
      <3>2. calls[c].key.id \in Existing /\ SaveOK(c)
        BY <3>1, SavesOfListed DEF RowsAgree, SavesOK
      <3> QED
        BY <1>0, <1>1, <3>1, <3>2 DEF SaveOK
    <2>3. CreatesOK'
      <3> SUFFICES ASSUME NEW c \in Calls, Live(c, "create")',
                          calls'[c].key.stage = "served"
                   PROVE  CreateOK(c)'
        BY DEF CreatesOK
      <3>1. Live(c, "create") /\ calls'[c] = calls[c]
        BY <1>1 DEF SameLive, Live
      <3>2. calls[c].key.id \in Existing /\ CreateOK(c)
        BY <3>1, CreatesOfUnlisted DEF RowsAgree, CreatesOK
      <3> QED
        BY <1>1, <3>1, <3>2 DEF CreateOK
    <2> QED
      BY <2>1, <2>2, <2>3 DEF RowsAgree
  <1>2. ASSUME NEW id \in Existing, Sell(id) PROVE RowsAgree'
    <2>1. /\ calls' = calls /\ unknown' = unknown \cup {id}
          /\ \E r : rows' = [rows EXCEPT ![id] = r]
      BY <1>2 DEF Sell
    <2>2. \A i \in Existing \ {id} : rows'[i] = rows[i]
      BY <2>1 DEF Existing, AdminTyped, ServerTyped
    <2> QED
      BY <1>1, <2>1, <2>2 DEF SameLive
  <1>3. ASSUME NEW c \in Calls, InsertProduct(c) PROVE RowsAgree'
    <2>1. /\ Goes(c, "committed") /\ calls[c].api = "create"
          /\ rows' = Append(rows, Stored(calls[c].key.row))
          /\ Stored(calls[c].key.row) \in Row /\ unknown' = unknown
      BY <1>3, InsertGoes, StoredIs DEF InsertProduct
    <2>2. \A i \in Existing : rows'[i] = rows[i]
      BY <2>1 DEF Existing, AdminTyped, ServerTyped
    <2>3. SameLive("save")
      BY <2>1, GoesIsKept, KeptIsSame
    <2>4. InputsOK'
      <3> SUFFICES ASSUME NEW i \in Listed PROVE InputOK(i)'
        BY <1>0 DEF InputsOK
      <3>1. i \in Existing /\ InputOK(i) /\ Saving(i)' = Saving(i)
        BY <2>3, ListedExist, SavingStays DEF RowsAgree, InputsOK
      <3> QED
        BY <1>0, <2>1, <2>2, <3>1 DEF InputOK
    <2>5. SavesOK'
      <3> SUFFICES ASSUME NEW d \in Calls, Live(d, "save")' PROVE SaveOK(d)'
        BY DEF SavesOK
      <3>1. Live(d, "save") /\ calls'[d] = calls[d]
        BY <2>3 DEF SameLive, Live
      <3>2. calls[d].key.id \in Existing /\ SaveOK(d)
        BY <3>1, SavesOfListed DEF RowsAgree, SavesOK
      <3> QED
        BY <1>0, <2>1, <2>2, <3>1, <3>2 DEF SaveOK
    <2>6. CreatesOK'
      <3> SUFFICES ASSUME NEW d \in Calls, Live(d, "create")',
                          calls'[d].key.stage = "served"
                   PROVE  CreateOK(d)'
        BY DEF CreatesOK
      <3>1. Live(d, "create") /\ calls'[d] = calls[d]
        BY <2>1 DEF Goes, Only, Live
      <3>2. calls[d].key.id \in Existing /\ CreateOK(d)
        BY <3>1, CreatesOfUnlisted DEF RowsAgree, CreatesOK
      <3> QED
        BY <2>1, <2>2, <3>1, <3>2 DEF CreateOK
    <2> QED
      BY <2>4, <2>5, <2>6 DEF RowsAgree
  <1>4. ASSUME NEW c \in Calls, UpdateProduct(c) PROVE RowsAgree'
    <2>0. PICK id : id = calls[c].key.id
      OBVIOUS
    <2>1. /\ Goes(c, "committed") /\ calls[c].api = "save"
          /\ calls'[c].key.id = id
          /\ rows' = [rows EXCEPT ![id] = Stored(calls[c].key.row)]
          /\ unknown' = IF calls[c].live THEN unknown \ {id}
                        ELSE unknown \cup {id}
      BY <1>4, <2>0, UpdateGoes DEF UpdateProduct
    <2>2. id \in Existing
      BY <2>0, <2>1 DEF AdminTyped, JobsExist, JobExists
    <2>3. /\ rows'[id] = Stored(calls[c].key.row)
          /\ \A i \in Existing \ {id} : rows'[i] = rows[i]
      BY <2>1, <2>2 DEF Existing, AdminTyped, ServerTyped
    <2>4. SameLive("create")
      BY <2>1, GoesIsKept, KeptIsSame
    <2>5. CASE ~calls[c].live
      <3>1. SameLive("save")
        BY <2>1, <2>5 DEF SameLive, Goes, Only, Live
      <3> QED
        BY <1>1, <2>1, <2>3, <2>4, <2>5, <3>1
    <2>6. CASE calls[c].live
      <3>1. id \in Listed /\ Saving(id) /\ Live(c, "save") /\ SaveOK(c)
        BY <2>0, <2>1, <2>6, SavesOfListed DEF Live, RowsAgree, SavesOK
      <3>2. \A i : Saving(i)' = Saving(i)
        BY <2>0, <2>1 DEF Saving, Goes, Only, Live
      <3>3. InputsOK'
        <4> SUFFICES ASSUME NEW i \in Listed PROVE InputOK(i)'
          BY <1>0 DEF InputsOK
        <4>1. CASE i = id
          BY <3>1, <3>2, <4>1 DEF InputOK
        <4>2. CASE i # id
          <5>1. i \in Existing /\ InputOK(i)
            BY ListedExist DEF RowsAgree, InputsOK
          <5> QED
            BY <1>0, <2>1, <2>3, <2>6, <3>2, <4>2, <5>1 DEF InputOK
        <4> QED
          BY <4>1, <4>2
      <3>4. SaveOK(c)'
        BY <1>0, <2>0, <2>1, <2>3, <3>1 DEF SaveOK, Goes
      <3>5. ASSUME NEW d \in Calls, d # c, Live(d, "save")' PROVE SaveOK(d)'
        <4>1. Live(d, "save") /\ calls'[d] = calls[d]
          BY <2>1, <3>5 DEF Goes, Only, Live
        <4>2. calls[d].key.id # id
          BY <2>0, <3>1, <3>5, <4>1 DEF OneSave
        <4>3. calls[d].key.id \in Existing /\ SaveOK(d)
          BY <4>1, SavesOfListed DEF RowsAgree, SavesOK
        <4> QED
          BY <1>0, <2>1, <2>3, <2>6, <4>1, <4>2, <4>3 DEF SaveOK
      <3>6. CreatesOK'
        <4> SUFFICES ASSUME NEW d \in Calls, Live(d, "create")',
                            calls'[d].key.stage = "served"
                     PROVE  CreateOK(d)'
          BY DEF CreatesOK
        <4>1. Live(d, "create") /\ calls'[d] = calls[d]
          BY <2>4 DEF SameLive, Live
        <4>2. calls[d].key.id \in Existing /\ calls[d].key.id \notin Listed
              /\ CreateOK(d)
          BY <4>1, CreatesOfUnlisted DEF RowsAgree, CreatesOK
        <4>3. calls[d].key.id # id
          BY <3>1, <4>2
        <4> QED
          BY <2>1, <2>3, <2>6, <4>1, <4>2, <4>3 DEF CreateOK
      <3> QED
        BY <3>3, <3>4, <3>5, <3>6 DEF RowsAgree, SavesOK
    <2> QED
      BY <2>5, <2>6
  <1>5. ASSUME NEW c \in Calls, ReadBack(c) PROVE RowsAgree'
    <2>0. PICK id : id = calls[c].key.id
      OBVIOUS
    <2>1. /\ Goes(c, "served") /\ calls[c].api \in {"create", "save"}
          /\ calls[c].live /\ calls[c].key.stage = "committed"
          /\ calls'[c].key.id = id
          /\ calls[c].api = "save" => calls'[c].key.edits = calls[c].key.edits
          /\ calls'[c].key.got = rows[id]
      BY <1>5, <2>0, ReadGoes
    <2>2. /\ rows' = rows
          /\ unknown' = IF calls[c].api = "create" THEN unknown \ {id} ELSE unknown
      BY <1>5, <2>0 DEF ReadBack
    <2>3. calls[c].api = "create" => id \notin Listed
      BY <2>0, <2>1, CreatesOfUnlisted DEF Live
    <2>4. ASSUME NEW i PROVE Saving(i)' <=> Saving(i)
      <3>1. \A d \in Calls : calls'[d].key.id = calls[d].key.id
        BY <2>0, <2>1 DEF Goes, Only
      <3>2. \A d \in Calls : Live(d, "save")' <=> Live(d, "save")
        BY <2>1 DEF Goes, Only, Live
      <3> QED
        BY <3>1, <3>2 DEF Saving
    <2>5. InputsOK'
      <3> SUFFICES ASSUME NEW i \in Listed PROVE InputOK(i)'
        BY <1>0 DEF InputsOK
      <3>1. InputOK(i) /\ (i \in unknown' <=> i \in unknown)
        BY <2>2, <2>3 DEF RowsAgree, InputsOK
      <3> QED
        BY <1>0, <2>2, <2>4, <3>1 DEF InputOK
    <2>6. SavesOK'
      <3> SUFFICES ASSUME NEW d \in Calls, Live(d, "save")' PROVE SaveOK(d)'
        BY DEF SavesOK
      <3>1. /\ Live(d, "save") /\ calls'[d].key.id = calls[d].key.id
            /\ calls'[d].key.row = calls[d].key.row
            /\ \/ calls'[d] = calls[d]
               \/ calls[d].key.stage # "sent" /\ calls'[d].key.stage # "sent"
        BY <2>0, <2>1 DEF Goes, Only, Live
      <3>2. SaveOK(d) /\ calls[d].key.id \in Listed
        BY <3>1, SavesOfListed DEF RowsAgree, SavesOK
      <3>3. calls[d].key.id \in unknown' <=> calls[d].key.id \in unknown
        BY <2>2, <2>3, <3>2
      <3>4. CASE calls'[d] = calls[d]
        BY <1>0, <2>2, <3>2, <3>3, <3>4 DEF SaveOK
      <3>5. CASE calls[d].key.stage # "sent" /\ calls'[d].key.stage # "sent"
        BY <1>0, <2>2, <3>1, <3>2, <3>3, <3>5 DEF SaveOK
      <3> QED
        BY <3>1, <3>4, <3>5
    <2>7. CreatesOK'
      <3> SUFFICES ASSUME NEW d \in Calls, Live(d, "create")',
                          calls'[d].key.stage = "served"
                   PROVE  CreateOK(d)'
        BY DEF CreatesOK
      <3>1. CASE d = c
        BY <2>1, <2>2, <3>1 DEF CreateOK
      <3>2. CASE d # c
        <4>1. Live(d, "create") /\ calls'[d] = calls[d] /\ CreateOK(d)
          BY <2>1, <3>2 DEF Goes, Only, Live, RowsAgree, CreatesOK
        <4>2. calls[c].api # "create"
          BY <2>1, <3>2, <4>1 DEF OneCreate, Live
        <4> QED
          BY <2>2, <4>1, <4>2 DEF CreateOK
      <3> QED
        BY <3>1, <3>2
    <2> QED
      BY <2>5, <2>6, <2>7 DEF RowsAgree
  <1>6. ASSUME NEW c \in Calls, StoreImage(c) PROVE RowsAgree'
    <2>1. Goes(c, "served") /\ calls[c].api = "upload"
      BY <1>6, ImageGoes
    <2>2. UNCHANGED <<rows, unknown>>
      BY <1>6 DEF StoreImage, serverVars
    <2>3. Kept("save") /\ Kept("create")
      BY <2>1, GoesIsKept
    <2> QED
      BY <1>0, <2>2, <2>3, KeptIsSame, SameIsOld, QuietSteps
  <1> QED
    BY <1>2, <1>3, <1>4, <1>5, <1>6

LEMMA AnswersAgree ==
    ASSUME AdminTyped, OneCreate, OneSave, RowsRounded, RowsAgree,
           NEW c \in Calls, Answered(c) \/ Failed(c) \/ Lost(c)
    PROVE  RowsAgree'
  <1>0. PICK id : id = calls[c].key.id
    OBVIOUS
  <1>1. /\ Only(c) /\ ~calls'[c].live
        /\ \A api : api # calls[c].api /\ api # "none" => Kept(api)
        /\ UNCHANGED <<rows, unknown>>
    BY EndGoes, AnswersTyped
  <1>2. OldServed
    BY <1>1 DEF OldServed, Only, Live
  <1>3. CASE ~Live(c, "save") /\ ~(Answered(c) /\ calls[c].api = "create")
    <2>1. SameLive("save")
      BY <1>1, <1>3 DEF SameLive, Only, Live
    <2>2. UNCHANGED <<typed, edited, Listed>>
      <3>1. CASE Answered(c)
        <4>1. calls[c].api = "upload"
          BY <1>3, <3>1, KindOf, KindIs DEF AdminTyped, Answered, Live
        <4> QED
          BY <3>1, <4>1, UploadAnswered DEF pageFacts, Listed
      <3>2. CASE (Failed(c) \/ Lost(c)) /\ calls[c].live
        BY <1>3, <3>2, ErrorShows DEF pageFacts, Listed, Live
      <3>3. CASE Failed(c) /\ ~calls[c].live
        BY <3>3, DeadEnds DEF pageFacts, Listed
      <3> QED
        BY <3>1, <3>2, <3>3 DEF Lost
    <2> QED
      BY <1>1, <1>2, <2>1, <2>2, QuietSteps
  <1>4. CASE Answered(c) /\ calls[c].api = "create"
    <2>1. /\ Live(c, "create") /\ calls[c].key.stage = "served"
          /\ id \in Existing
          /\ IdsOf(listed') = Listed \cup {id} /\ id \notin Listed
          /\ typed' = [typed EXCEPT ![id] = calls[c].key.got]
          /\ edited' = edited
      BY <1>0, <1>4, CreatedShows
    <2>2. SameLive("save") /\ Listed' = Listed \cup {id}
      BY <1>1, <1>4, <2>1, KeptIsSame DEF IdsOf, Listed
    <2>3. id \in Ids /\ typed'[id] = calls[c].key.got
          /\ \A i \in Ids \ {id} : typed'[i] = typed[i]
      BY <2>1, ExistingAreIds DEF AdminTyped, PageTyped
    <2>4. InputsOK'
      <3> SUFFICES ASSUME NEW i \in Listed' PROVE InputOK(i)'
        BY DEF InputsOK
      <3>1. CASE i = id
        <4>1. id \in unknown \/ rows[id] = calls[c].key.got
          BY <1>0, <2>1 DEF RowsAgree, CreatesOK, CreateOK
        <4>2. Stored(rows[id]) = rows[id]
          BY <2>1 DEF RowsRounded
        <4> QED
          BY <1>1, <2>3, <3>1, <4>1, <4>2 DEF InputOK
      <3>2. CASE i \in Listed
        <4>1. i \in Ids /\ i # id /\ InputOK(i) /\ Saving(i)' = Saving(i)
          BY <2>1, <2>2, <3>2, ListedExist, SavingStays DEF RowsAgree, InputsOK
        <4> QED
          BY <1>1, <2>1, <2>3, <4>1 DEF InputOK
      <3> QED
        BY <2>2, <3>1, <3>2
    <2>5. SavesOK'
      <3> SUFFICES ASSUME NEW d \in Calls, Live(d, "save")' PROVE SaveOK(d)'
        BY DEF SavesOK
      <3>1. Live(d, "save") /\ calls'[d] = calls[d]
        BY <2>2 DEF SameLive, Live
      <3>2. calls[d].key.id \in Ids \ {id} /\ SaveOK(d)
        BY <2>1, <3>1, SavesOfListed DEF RowsAgree, SavesOK
      <3> QED
        BY <1>1, <2>1, <2>3, <3>1, <3>2 DEF SaveOK
    <2>6. CreatesOK'
      BY <1>1, <1>2 DEF RowsAgree, CreatesOK, CreateOK, OldServed, Live
    <2> QED
      BY <2>4, <2>5, <2>6 DEF RowsAgree
  <1>5. CASE Live(c, "save")
    <2>1. /\ UNCHANGED <<typed, Listed>>
          /\ \A i \in Ids \ {id} : edited'[i] = edited[i]
          /\ edited[id] \subseteq edited'[id]
          /\ \/ calls[c].key.stage # "sent"
             \/ calls[c].key.edits \subseteq edited'[id]
      <3>0. id \in Ids /\ edited \in [Ids -> SUBSET Fields]
        BY <1>0, <1>5, SavesOfListed DEF AdminTyped, PageTyped
      <3>1. CASE Answered(c)
        <4>1. /\ calls[c].key.stage = "served" /\ IdsOf(listed') = Listed
              /\ UNCHANGED <<typed, edited>>
          BY <1>5, <3>1, SavedShows DEF Live
        <4> QED
          BY <4>1 DEF IdsOf, Listed
      <3>2. CASE Failed(c) \/ Lost(c)
        <4>1. /\ UNCHANGED pageFacts
              /\ edited' = [edited EXCEPT ![id] = @ \cup calls[c].key.edits]
          BY <1>0, <1>5, <3>2, ErrorShows DEF Live
        <4> QED
          BY <3>0, <4>1 DEF pageFacts, Listed
      <3> QED
        BY <3>1, <3>2
    <2>2. ~Saving(id)'
      BY <1>0, <1>1, <1>5 DEF OneSave, Saving, Only, Live
    <2>3. \A i : i # id => Saving(i)' = Saving(i)
      BY <1>0, <1>1 DEF Saving, Only, Live
    <2>4. id \in Listed /\ id \in Ids /\ SaveOK(c)
      BY <1>0, <1>5, SavesOfListed DEF RowsAgree, SavesOK
    <2>5. InputsOK'
      <3> SUFFICES ASSUME NEW i \in Listed PROVE InputOK(i)'
        BY <2>1 DEF InputsOK
      <3>1. CASE i = id
        <4> SUFFICES ASSUME id \notin unknown, NEW f \in Fields,
                            Stored(typed[id])[f] # rows[id][f]
                     PROVE  f \in edited'[id]
          BY <1>1, <2>1, <3>1 DEF InputOK
        <4>1. CASE typed[id][f] # calls[c].key.row[f]
          BY <1>0, <2>1, <2>4, <4>1 DEF SaveOK
        <4>2. CASE typed[id][f] = calls[c].key.row[f]
          <5>1. typed[id] \in Row /\ calls[c].key.row \in Row
            BY <1>5, <2>4, SavesOfListed DEF AdminTyped, PageTyped, JobKeys
          <5>2. Stored(typed[id])[f] = Stored(calls[c].key.row)[f]
            BY <4>2, <5>1, StoredFields
          <5> QED
            BY <1>0, <2>1, <2>4, <5>2 DEF SaveOK
        <4> QED
          BY <4>1, <4>2
      <3>2. CASE i # id
        <4>1. i \in Ids /\ InputOK(i)
          BY ListedExist DEF RowsAgree, InputsOK
        <4> QED
          BY <1>1, <2>1, <2>3, <3>2, <4>1 DEF InputOK
      <3> QED
        BY <3>1, <3>2
    <2>6. SavesOK'
      <3> SUFFICES ASSUME NEW d \in Calls, Live(d, "save")' PROVE SaveOK(d)'
        BY DEF SavesOK
      <3>1. d # c /\ Live(d, "save") /\ calls'[d] = calls[d]
        BY <1>1 DEF Only, Live
      <3>2. calls[d].key.id \in Ids \ {id} /\ SaveOK(d)
        BY <1>0, <1>5, <3>1, SavesOfListed DEF RowsAgree, SavesOK, OneSave
      <3> QED
        BY <1>1, <2>1, <3>1, <3>2 DEF SaveOK
    <2>7. CreatesOK'
      BY <1>1, <1>2 DEF RowsAgree, CreatesOK, CreateOK, OldServed, Live
    <2> QED
      BY <2>5, <2>6, <2>7 DEF RowsAgree
  <1> QED
    BY <1>3, <1>4, <1>5 DEF Live

LEMMA RowsStep ==
    /\ AdminTyped /\ OneCreate /\ OneSave /\ RowsRounded /\ RowsAgree
    /\ [AdminNext]_adminVars
    => RowsAgree'
  <1> SUFFICES ASSUME AdminTyped, OneCreate, OneSave, RowsRounded, RowsAgree,
                      [AdminNext]_adminVars
      PROVE  RowsAgree'
    OBVIOUS
  <1>1. CASE UNCHANGED adminVars
    <2>1. UNCHANGED <<calls, rows, unknown, typed, edited, Listed>>
      BY <1>1 DEF adminVars, serverVars, listVars, Listed
    <2> QED
      BY <2>1, QuietSteps DEF SameLive, OldServed
  <1>2. CASE FillForm \/ Submit \/ Upload \/ LeaveAdmin
                \/ \E id \in Ids : Edit(id) \/ Save(id)
    BY <1>2, CustomerAgrees
  <1>3. CASE \/ \E id \in Existing : Sell(id)
             \/ \E c \in Calls : \/ InsertProduct(c) \/ UpdateProduct(c)
                                 \/ ReadBack(c) \/ StoreImage(c)
    BY <1>3, ServerAgrees
  <1>4. ASSUME NEW c \in Calls, Answered(c) \/ Failed(c) \/ Lost(c)
        PROVE  RowsAgree'
    BY <1>4, AnswersAgree
  <1> QED
    BY <1>1, <1>2, <1>3, <1>4 DEF AdminNext

\* The steps that write a row, write what is stored of one.
LEMMA RoundedStep ==
    AdminTyped /\ RowsRounded /\ [AdminNext]_adminVars => RowsRounded'
  <1> SUFFICES ASSUME AdminTyped, RowsRounded, [AdminNext]_adminVars
      PROVE  RowsRounded'
    OBVIOUS
  <1>1. CASE rows' = rows
    BY <1>1 DEF RowsRounded, Existing
  <1>2. rows \in Seq(Row)
    BY DEF AdminTyped, ServerTyped
  \* One row of the table is replaced.
  <1>3. ASSUME NEW id \in Existing, NEW r \in Row, Stored(r) = r,
               rows' = [rows EXCEPT ![id] = r]
        PROVE  RowsRounded'
    <2>1. /\ Existing' = Existing /\ rows'[id] = r
          /\ \A i \in Existing \ {id} : rows'[i] = rows[i]
      BY <1>2, <1>3, RowReplaced DEF Existing
    <2> QED
      BY <1>3, <2>1 DEF RowsRounded
  <1>4. ASSUME NEW id \in Existing, Sell(id) PROVE RowsRounded'
    <2>1. PICK r : r = [rows[id] EXCEPT !.stock = @ - 1]
      OBVIOUS
    <2>2. rows[id] \in Row /\ rows[id].stock > 0
      BY <1>2, <1>4 DEF Sell, Existing
    <2>3. r \in Row /\ r.price = rows[id].price
      BY <2>1, <2>2 DEF Row
    <2>4. Rounded[rows[id].price] = rows[id].price
      BY <2>2, StoredIs DEF RowsRounded
    <2>5. Stored(r) = r
      BY <2>3, <2>4, StoredIs, SameRows
    <2>6. rows' = [rows EXCEPT ![id] = r]
      BY <1>4, <2>1 DEF Sell
    <2> QED
      BY <1>3, <2>3, <2>5, <2>6
  <1>5. ASSUME NEW c \in Calls, UpdateProduct(c) PROVE RowsRounded'
    <2>1. PICK r : r = Stored(calls[c].key.row)
      OBVIOUS
    <2>2. calls[c].key.row \in Row /\ calls[c].key.id \in Existing
      BY <1>5, UpdateGoes DEF AdminTyped, JobsExist, JobExists
    <2>3. r \in Row /\ Stored(r) = r
      BY <2>1, <2>2, StoredIs, StoredTwice
    <2>4. rows' = [rows EXCEPT ![calls[c].key.id] = r]
      BY <1>5, <2>1 DEF UpdateProduct
    <2> QED
      BY <1>3, <2>2, <2>3, <2>4
  <1>6. ASSUME NEW c \in Calls, InsertProduct(c) PROVE RowsRounded'
    <2>1. PICK r : r = Stored(calls[c].key.row)
      OBVIOUS
    <2>2. calls[c].key.row \in Row /\ rows' = Append(rows, r)
      BY <1>6, <2>1, InsertGoes
    <2>3. r \in Row /\ Stored(r) = r
      BY <2>1, <2>2, StoredIs, StoredTwice
    <2>4. /\ Existing' = Existing \cup {Len(rows) + 1}
          /\ rows'[Len(rows) + 1] = r
          /\ \A i \in Existing : rows'[i] = rows[i]
      BY <1>2, <2>2, <2>3 DEF Existing
    <2> QED
      BY <2>3, <2>4 DEF RowsRounded
  <1>7. CASE UNCHANGED adminVars
    BY <1>1, <1>7 DEF adminVars, serverVars
  <1>8. CASE FillForm \/ Submit \/ Upload \/ LeaveAdmin
    BY <1>1, <1>8 DEF FillForm, Submit, Upload, LeaveAdmin, serverVars
  <1>9. ASSUME NEW id \in Ids, Edit(id) \/ Save(id) PROVE RowsRounded'
    BY <1>1, <1>9 DEF Edit, TypeField, Save, serverVars
  <1>10. ASSUME NEW c \in Calls, \/ ReadBack(c) \/ StoreImage(c) \/ Answered(c)
                                 \/ Failed(c) \/ Lost(c)
         PROVE  RowsRounded'
    BY <1>1, <1>10 DEF ReadBack, StoreImage, Answered, Failed, Lost, serverVars
  <1> QED
    BY <1>4, <1>5, <1>6, <1>7, <1>8, <1>9, <1>10 DEF AdminNext

-----------------------------------------------------------------------------
(* Why a row can be saved                                                  *)

DirtyRowOK(id) ==
    Dirty(id) => \/ edited[id] # {}
                 \/ id \in busy.saving \cup overtaken
                 \/ IsRounded(id)

\* No PUT is new to the page, and each still carries its edits.
SameJobs ==
    \A d \in Calls : Live(d, "save")' =>
        /\ Live(d, "save")
        /\ calls'[d].key.id = calls[d].key.id
        /\ calls'[d].key.edits = calls[d].key.edits

LEMMA DirtyParts ==
    DirtyOK <=> /\ \A id \in Listed : DirtyRowOK(id)
                /\ \A c \in Calls : Live(c, "save") => DirtyJobOK(c)
  BY DEF DirtyOK, DirtyForAReason, DirtyRowOK

LEMMA SameIsSameJobs == ASSUME SameLive("save") PROVE SameJobs
  BY DEF SameLive, SameJobs, Live

LEMMA DirtyStays ==
    ASSUME DirtyOK, SameJobs, UNCHANGED <<listed, typed, edited, overtaken>>,
           busy.saving \subseteq busy'.saving
    PROVE  DirtyOK'
  <1>1. /\ Listed' = Listed
        /\ \A id : /\ Dirty(id)' <=> Dirty(id)
                   /\ IsRounded(id)' <=> IsRounded(id)
    BY DEF Listed, Dirty, ListedRow, IsRounded
  <1>2. ASSUME NEW id \in Listed PROVE DirtyRowOK(id)'
    BY <1>1, DirtyParts DEF DirtyRowOK
  <1>3. ASSUME NEW c \in Calls, Live(c, "save")' PROVE DirtyJobOK(c)'
    BY <1>1, <1>3 DEF DirtyOK, DirtyJobOK, SameJobs
  <1> QED
    BY <1>1, <1>2, <1>3 DEF DirtyOK, DirtyForAReason, DirtyRowOK

LEMMA CustomerDirties ==
    ASSUME AdminTyped, OneSave, DirtyOK,
           FillForm \/ Submit \/ Upload \/ LeaveAdmin
              \/ \E id \in Ids : Edit(id) \/ Save(id)
    PROVE  DirtyOK'
  <1>0. busy \in Busy
    BY DEF AdminTyped, PageTyped, Busy
  <1>1. CASE FillForm
    BY <1>1, DirtyStays DEF FillForm, listVars, SameJobs, Live
  <1>2. CASE Submit
    <2>1. PICK c \in Calls : /\ calls[c] = Free /\ Only(c)
                             /\ calls'[c].api = "create"
      BY <1>2, SubmitSends
    <2>2. SameJobs
      BY <2>1, NewIsKept, KeptIsSame, SameIsSameJobs
    <2>3. busy'.saving = busy.saving
      BY <1>0, <1>2, BusyChanges DEF Submit
    <2> QED
      BY <1>2, <2>2, <2>3, DirtyStays DEF Submit, listVars
  <1>3. CASE Upload
    <2>1. /\ UNCHANGED <<listed, typed, edited, overtaken>>
          /\ lastCreated # 0
          /\ Send("upload", Job(lastCreated, AnyRow, {}))
      BY <1>3 DEF Upload, listVars
    <2>2. lastCreated \in Ids
      BY <2>1, ListedExist DEF AdminTyped, ListOK
    <2>3. PICK c \in Calls : /\ calls[c] = Free /\ Only(c)
                             /\ calls'[c].api = "upload"
      <3>1. {} \in SUBSET Fields
        OBVIOUS
      <3> QED
        BY <2>1, <2>2, <3>1, AnyRowIsRow, JobSends DEF AdminTyped
    <2>4. SameJobs
      BY <2>3, NewIsKept, KeptIsSame, SameIsSameJobs
    <2>5. busy'.saving = busy.saving
      BY <1>0, <1>3, BusyChanges DEF Upload
    <2> QED
      BY <2>1, <2>4, <2>5, DirtyStays
  <1>4. CASE LeaveAdmin
    <2>1. calls' = [c \in Calls |-> Abandoned(c)] /\ listed' = <<>>
      BY <1>4 DEF LeaveAdmin
    <2>2. \A c \in Calls : ~calls'[c].live
      BY <2>1, AbandonedCall
    <2>3. Listed' = {}
      BY <2>1 DEF Listed
    <2> QED
      BY <2>2, <2>3 DEF DirtyOK, DirtyForAReason, Live
  <1>5. ASSUME NEW id \in Ids, Edit(id) PROVE DirtyOK'
    <2>1. /\ UNCHANGED <<calls, listed, overtaken, busy>>
          /\ edited'[id] # {}
          /\ \A i \in Ids \ {id} : typed'[i] = typed[i] /\ edited'[i] = edited[i]
      BY <1>5, EditTypes
    <2>2. /\ Listed' = Listed
          /\ \A i \in Ids \ {id} : /\ Dirty(i)' <=> Dirty(i)
                                   /\ IsRounded(i)' <=> IsRounded(i)
      BY <2>1 DEF Listed, Dirty, ListedRow, IsRounded
    <2>3. ASSUME NEW i \in Listed PROVE DirtyRowOK(i)'
      <3>1. i \in Ids /\ DirtyRowOK(i)
        BY ListedExist, DirtyParts
      <3> QED
        BY <2>1, <2>2, <3>1 DEF DirtyRowOK
    <2>4. ASSUME NEW c \in Calls, Live(c, "save")' PROVE DirtyJobOK(c)'
      <3>1. Live(c, "save") /\ calls'[c] = calls[c]
        BY <2>1, <2>4 DEF Live
      <3>2. calls[c].key.id \in Ids /\ DirtyJobOK(c)
        BY <3>1, SavesOfListed DEF DirtyOK
      <3> QED
        BY <2>1, <2>2, <3>1, <3>2 DEF DirtyJobOK
    <2> QED
      BY <2>2, <2>3, <2>4 DEF DirtyOK, DirtyForAReason, DirtyRowOK
  <1>6. ASSUME NEW id \in Ids, Save(id) PROVE DirtyOK'
    <2>1. PICK c \in Calls :
              /\ calls[c] = Free /\ Only(c)
              /\ calls'[c].api = "save" /\ calls'[c].live
              /\ calls'[c].key.id = id
              /\ calls'[c].key.edits = edited[id]
      BY <1>6, SaveSendsJob
    <2>2. /\ UNCHANGED <<typed, listed, overtaken>>
          /\ id \in Listed /\ id \notin busy.saving
          /\ edited' = [edited EXCEPT ![id] = {}]
          /\ busy' = [busy EXCEPT !.saving = @ \cup {id}]
      BY <1>6 DEF Save
    <2>3. busy'.saving = busy.saving \cup {id}
      BY <1>0, <2>2, BusyChanges DEF Busy
    <2>4. \A i \in Ids \ {id} : edited'[i] = edited[i]
      BY <2>2 DEF AdminTyped, PageTyped
    <2>5. /\ Listed' = Listed
          /\ \A i : /\ Dirty(i)' <=> Dirty(i)
                    /\ IsRounded(i)' <=> IsRounded(i)
      BY <2>2 DEF Listed, Dirty, ListedRow, IsRounded
    <2>6. ASSUME NEW i \in Listed PROVE DirtyRowOK(i)'
      <3>1. i \in Ids /\ DirtyRowOK(i)
        BY ListedExist, DirtyParts
      <3> QED
        BY <2>2, <2>3, <2>4, <2>5, <3>1 DEF DirtyRowOK
    <2>7. DirtyJobOK(c)'
      <3>1. DirtyRowOK(id)
        BY <2>2, DirtyParts
      <3> QED
        BY <2>1, <2>2, <2>5, <3>1 DEF DirtyRowOK, DirtyJobOK
    <2>8. ASSUME NEW d \in Calls, d # c, Live(d, "save")' PROVE DirtyJobOK(d)'
      <3>1. Live(d, "save") /\ calls'[d] = calls[d]
        BY <2>1, <2>8 DEF Only, Live
      <3>2. calls[d].key.id \in Ids \ {id} /\ DirtyJobOK(d)
        BY <2>2, <3>1, SavesOfListed DEF DirtyOK, OneSave
      <3> QED
        BY <2>2, <2>4, <2>5, <3>1, <3>2 DEF DirtyJobOK
    <2> QED
      BY <2>5, <2>6, <2>7, <2>8 DEF DirtyOK, DirtyForAReason, DirtyRowOK
  <1> QED
    BY <1>1, <1>2, <1>3, <1>4, <1>5, <1>6

LEMMA ServerDirties ==
    ASSUME AdminTyped, DirtyOK,
           \/ \E id \in Existing : Sell(id)
           \/ \E c \in Calls : \/ InsertProduct(c) \/ UpdateProduct(c)
                               \/ ReadBack(c) \/ StoreImage(c)
    PROVE  DirtyOK'
  <1>1. UNCHANGED <<listed, typed, edited, overtaken, busy>>
    BY ServerStepTyped DEF PageUnchanged, listVars
  <1>2. SameJobs
    <2>1. ASSUME NEW id \in Existing, Sell(id) PROVE SameJobs
      BY <2>1 DEF Sell, SameJobs, Live
    <2>2. ASSUME NEW c \in Calls, InsertProduct(c) \/ StoreImage(c) PROVE SameJobs
      BY <2>2, InsertGoes, ImageGoes, GoesIsKept, KeptIsSame, SameIsSameJobs
    <2>3. ASSUME NEW c \in Calls, UpdateProduct(c) \/ ReadBack(c) PROVE SameJobs
      <3>1. PICK stage : Goes(c, stage)
        BY <2>3, UpdateGoes, ReadGoes
      <3>2. /\ calls'[c].key.id = calls[c].key.id
            /\ calls[c].api = "save" => calls'[c].key.edits = calls[c].key.edits
        BY <2>3, UpdateGoes, ReadGoes
      <3> QED
        BY <3>1, <3>2 DEF SameJobs, Goes, Only, Live
    <2> QED
      BY <2>1, <2>2, <2>3
  <1> QED
    BY <1>1, <1>2, DirtyStays

LEMMA AnswersDirty ==
    ASSUME AdminTyped, OneCreate, OneSave, RowsAgree, DirtyOK, NEW c \in Calls,
           Answered(c) \/ Failed(c) \/ Lost(c)
    PROVE  DirtyOK'
  <1>0. PICK id, got : id = calls[c].key.id /\ got = calls[c].key.got
    OBVIOUS
  <1>1. Only(c) /\ ~calls'[c].live
    BY EndGoes
  <1>2. SameJobs
    BY <1>1 DEF SameJobs, Only, Live
  <1>3. \A d \in Calls : Live(d, "save")' =>
            d # c /\ Live(d, "save") /\ calls'[d] = calls[d]
    BY <1>1 DEF Only, Live
  <1>4. CASE ~Live(c, "save") /\ ~(Answered(c) /\ calls[c].api = "create")
    <2>1. /\ UNCHANGED <<listed, typed, edited, overtaken>>
          /\ busy'.saving = busy.saving
      <3>1. CASE Answered(c)
        <4>1. calls[c].api = "upload"
          BY <1>4, <3>1, KindOf, KindIs DEF AdminTyped, Answered, Live
        <4> QED
          BY <3>1, <4>1, UploadAnswered DEF pageFacts
      <3>2. CASE (Failed(c) \/ Lost(c)) /\ calls[c].live
        BY <1>4, <3>2, ErrorShows DEF pageFacts, Live
      <3>3. CASE Failed(c) /\ ~calls[c].live
        BY <3>3, DeadEnds DEF pageFacts
      <3> QED
        BY <3>1, <3>2, <3>3 DEF Lost
    <2> QED
      BY <1>2, <2>1, DirtyStays
  <1>5. CASE Answered(c) /\ calls[c].api = "create"
    <2>1. /\ id \in Existing
          /\ IdsOf(listed') = Listed \cup {id} /\ id \notin Listed
          /\ RowIn(listed', id) = got
          /\ \A i \in Listed : RowIn(listed', i) = ListedRow(i)
          /\ typed' = [typed EXCEPT ![id] = got]
          /\ UNCHANGED <<edited, overtaken>> /\ busy'.saving = busy.saving
      BY <1>0, <1>5, CreatedShows
    <2>2. Listed' = Listed \cup {id}
      BY <2>1 DEF IdsOf, Listed
    <2>3. /\ id \in Ids /\ typed'[id] = got
          /\ \A i \in Ids \ {id} : typed'[i] = typed[i]
      BY <2>1, ExistingAreIds DEF AdminTyped, PageTyped
    <2>4. /\ ~Dirty(id)'
          /\ \A i \in Listed : /\ Dirty(i)' <=> Dirty(i)
                               /\ IsRounded(i)' <=> IsRounded(i)
      BY <2>1, <2>3, ListedExist DEF Dirty, ListedRow, RowIn, IsRounded
    <2>5. ASSUME NEW i \in Listed' PROVE DirtyRowOK(i)'
      BY <2>1, <2>2, <2>4, DirtyParts DEF DirtyRowOK
    <2>6. ASSUME NEW d \in Calls, Live(d, "save")' PROVE DirtyJobOK(d)'
      <3>1. Live(d, "save") /\ calls'[d] = calls[d]
        BY <1>3, <2>6
      <3>2. calls[d].key.id \in Listed /\ DirtyJobOK(d)
        BY <3>1, SavesOfListed DEF DirtyOK
      <3> QED
        BY <2>1, <2>4, <3>1, <3>2 DEF DirtyJobOK
    <2> QED
      BY <2>5, <2>6 DEF DirtyOK, DirtyForAReason, DirtyRowOK
  <1>6. CASE Live(c, "save")
    <2>0. id \in Listed /\ id \in Ids /\ SaveOK(c) /\ DirtyJobOK(c)
          /\ calls[c].key \in JobKeys
      BY <1>0, <1>6, SavesOfListed DEF RowsAgree, SavesOK, DirtyOK
    <2>1. /\ Listed' = Listed /\ typed' = typed
          /\ \A i \in Listed \ {id} : /\ Dirty(i)' <=> Dirty(i)
                                      /\ edited'[i] = edited[i]
                                      /\ i \in overtaken' <=> i \in overtaken
          /\ \A i \in Listed : IsRounded(i)' <=> IsRounded(i)
          /\ busy'.saving = busy.saving \ {id}
          /\ DirtyRowOK(id)'
      <3>1. CASE Answered(c)
        <4>1. /\ IdsOf(listed') = Listed /\ RowIn(listed', id) = got
              /\ \A i \in Listed : i # id => RowIn(listed', i) = ListedRow(i)
              /\ overtaken' = IF got # Stored(calls[c].key.row)
                              THEN overtaken \cup {id} ELSE overtaken \ {id}
              /\ busy'.saving = busy.saving \ {id}
              /\ UNCHANGED <<typed, edited>>
          BY <1>0, <1>6, <3>1, SavedShows DEF Live
        <4>2. /\ Listed' = Listed
              /\ \A i \in Listed \ {id} : Dirty(i)' <=> Dirty(i)
              /\ \A i \in Listed : IsRounded(i)' <=> IsRounded(i)
          BY <4>1 DEF IdsOf, Listed, Dirty, ListedRow, RowIn, IsRounded
        <4>3. CASE got # Stored(calls[c].key.row)
          <5>1. id \in overtaken'
            BY <4>1, <4>3
          <5> QED
            BY <4>1, <4>2, <5>1 DEF DirtyRowOK
        \* The answer is what was typed, but for a price that was rounded.
        <4>4. CASE got = Stored(calls[c].key.row)
          <5>1. typed[id] \in Row /\ calls[c].key.row \in Row
            BY <2>0 DEF JobKeys, AdminTyped, PageTyped
          <5>2. typed[id] # calls[c].key.row =>
                    \E f \in Fields : typed[id][f] # calls[c].key.row[f]
            BY <5>1 DEF Row, Fields
          <5>3. edited'[id] # {} \/ typed[id] = calls[c].key.row
            BY <1>0, <2>0, <4>1, <5>2 DEF SaveOK
          <5>4. /\ Dirty(id)' <=> typed[id] # Stored(calls[c].key.row)
                /\ IsRounded(id)' <=> typed[id].price # Rounded[typed[id].price]
            BY <4>1, <4>4 DEF Dirty, ListedRow, RowIn, IsRounded
          <5>5. typed[id].price = Rounded[typed[id].price]
                    => typed[id] = Stored(typed[id])
            BY <5>1, StoredIs, SameRows
          <5>6. DirtyRowOK(id)'
            BY <5>3, <5>4, <5>5 DEF DirtyRowOK
          <5> QED
            BY <4>1, <4>2, <5>6
        <4> QED
          BY <4>1, <4>2, <4>3, <4>4
      <3>2. CASE Failed(c) \/ Lost(c)
        <4>1. /\ UNCHANGED pageFacts /\ busy'.saving = busy.saving \ {id}
              /\ edited' = [edited EXCEPT ![id] = @ \cup calls[c].key.edits]
          BY <1>0, <1>6, <3>2, ErrorShows DEF Live
        <4>2. /\ Listed' = Listed /\ typed' = typed /\ overtaken' = overtaken
              /\ \A i : /\ Dirty(i)' <=> Dirty(i)
                        /\ IsRounded(i)' <=> IsRounded(i)
          BY <4>1 DEF pageFacts, Listed, Dirty, ListedRow, IsRounded
        <4>3. /\ edited'[id] = edited[id] \cup calls[c].key.edits
              /\ \A i \in Ids \ {id} : edited'[i] = edited[i]
          BY <2>0, <4>1 DEF AdminTyped, PageTyped
        <4>4. DirtyRowOK(id)'
          BY <1>0, <2>0, <4>2, <4>3 DEF DirtyRowOK, DirtyJobOK
        <4> QED
          BY <4>1, <4>2, <4>3, <4>4, ListedExist
      <3> QED
        BY <3>1, <3>2
    <2>2. ASSUME NEW i \in Listed PROVE DirtyRowOK(i)'
      <3>1. DirtyRowOK(i)
        BY DirtyParts
      <3> QED
        BY <2>1, <3>1 DEF DirtyRowOK
    <2>3. ASSUME NEW d \in Calls, Live(d, "save")' PROVE DirtyJobOK(d)'
      <3>1. d # c /\ Live(d, "save") /\ calls'[d] = calls[d]
        BY <1>3, <2>3
      <3>2. calls[d].key.id \in Listed \ {id} /\ DirtyJobOK(d)
        BY <1>0, <1>6, <3>1, SavesOfListed DEF DirtyOK, OneSave
      <3> QED
        BY <2>1, <3>1, <3>2 DEF DirtyJobOK
    <2> QED
      BY <2>1, <2>2, <2>3 DEF DirtyOK, DirtyForAReason, DirtyRowOK
  <1> QED
    BY <1>4, <1>5, <1>6 DEF Live

LEMMA DirtyStep ==
    /\ AdminTyped /\ OneCreate /\ OneSave /\ RowsAgree /\ DirtyOK
    /\ [AdminNext]_adminVars
    => DirtyOK'
  <1> SUFFICES ASSUME AdminTyped, OneCreate, OneSave, RowsAgree, DirtyOK,
                      [AdminNext]_adminVars
      PROVE  DirtyOK'
    OBVIOUS
  <1>1. CASE UNCHANGED adminVars
    <2>1. /\ UNCHANGED <<listed, typed, edited, overtaken, busy>>
          /\ SameJobs
      BY <1>1 DEF adminVars, listVars, SameJobs, Live
    <2> QED
      BY <2>1, DirtyStays
  <1> QED
    BY <1>1, CustomerDirties, ServerDirties, AnswersDirty DEF AdminNext

-----------------------------------------------------------------------------
(* Theorems                                                                *)

LEMMA AdminInvInit == AdminInit => AdminInv
  <1> SUFFICES ASSUME AdminInit PROVE AdminInv
    OBVIOUS
  <1>1. \A api : \A c \in Calls : ~Live(c, api)
    BY FreeIsNone DEF AdminInit, Live
  <1>2. Listed = {}
    BY DEF AdminInit, Listed
  <1>3. Existing = {} /\ DOMAIN draftOf = {}
    BY DEF AdminInit, Existing
  <1>4. OneCreate /\ OneSave
    BY <1>1 DEF OneCreate, OneSave
  <1>5. AllAccountedFor /\ DraftsOK
    BY <1>1, <1>3 DEF AllAccountedFor, DraftsOK, DuplicatesNeedFailures
  <1>6. RowsAgree
    BY <1>1, <1>2 DEF RowsAgree, InputsOK, SavesOK, CreatesOK
  <1>7. DirtyOK
    BY <1>1, <1>2 DEF DirtyOK, DirtyForAReason
  <1>8. RowsRounded
    BY <1>3 DEF RowsRounded
  <1> QED
    BY <1>4, <1>5, <1>6, <1>7, <1>8, AdminTypedInit DEF AdminInv

\* The invariant from which the theorems below follow.
THEOREM AdminInvariance == AdminSpec => []AdminInv
  <1>1. AdminInit => AdminInv
    BY AdminInvInit
  <1>2. AdminInv /\ [AdminNext]_adminVars => AdminInv'
    BY AdminTypedStep, OneStep, CreatesStep, RoundedStep, RowsStep, DirtyStep
       DEF AdminInv
  <1> QED
    BY <1>1, <1>2, PTL DEF AdminSpec

\* The list holds a product once, so its rows have different keys
\* (AdminPage.tsx:37-44, 229-231).
THEOREM AdminTypeCorrect == AdminSpec => []AdminTypeOK
  <1>1. AdminInv => AdminTypeOK
    <2> SUFFICES ASSUME AdminInv PROVE AdminTypeOK
      OBVIOUS
    <2>1. AdminTyped
      BY DEF AdminInv
    <2>2. \A i \in DOMAIN listed : i \in Nat /\ listed[i].id \in Nat
      <3>1. listed \in Seq(Entries)
        BY <2>1 DEF AdminTyped, ListOK, Entries
      <3>2. \A i \in DOMAIN listed : i \in Nat /\ listed[i].id \in Listed
        BY <3>1 DEF Listed
      <3> QED
        BY <2>1, <3>2, ListedExist
    <2>3. \A i, j \in DOMAIN listed : listed[i].id = listed[j].id => i = j
      BY <2>1, <2>2 DEF AdminTyped, ListOK, NewestFirst
    <2> QED
      BY <2>1, <2>3 DEF AdminTyped, ListOK, ServerTyped, PageTyped, AdminTypeOK
  <1> QED
    BY <1>1, AdminInvariance, PTL

\* The list shows everything that was created from the page since it was
\* entered, the newest product first, but for what ended in an error or has no
\* answer yet (AdminPage.tsx:12-14, 38).
THEOREM ListsAreComplete == AdminSpec => []ListIsComplete
  <1>1. AdminInv => ListIsComplete
    BY DEF AdminInv, AllAccountedFor, AdminTyped, ListOK, NewestFirst,
           ListIsComplete
  <1> QED
    BY <1>1, AdminInvariance, PTL

\* The button, disabled while a request is under way, and the fields, cleared
\* with its answer, make one product of what was filled in, unless a request
\* that inserted it was answered with an error or was left alone
\* (AdminPage.tsx:82-108).
THEOREM DuplicatesHaveReasons == AdminSpec => []DuplicatesNeedFailures
  <1>1. AdminInv => DuplicatesNeedFailures
    BY DEF AdminInv, DraftsOK
  <1> QED
    BY <1>1, AdminInvariance, PTL

\* The Save button of a row is disabled until somebody types in the row, and
\* with the answer to a PUT again, unless a checkout came between the PUT and
\* its SELECT or PostgreSQL has rounded the price (AdminPage.tsx:250-253,
\* init.sql:16).
THEOREM DirtyRowsHaveReasons == AdminSpec => []DirtyForAReason
  <1>1. AdminInv => DirtyForAReason
    BY DEF AdminInv, DirtyOK
  <1> QED
    BY <1>1, AdminInvariance, PTL

\* A PUT that the page waits for changes no field that was not typed, in a row
\* which the page knows (AdminPage.tsx:258-261).
THEOREM SavesChangeWhatWasTyped == AdminSpec => SaveChangesWhatWasTyped
  <1>1. ASSUME AdminInv, NEW c \in Calls, calls[c].live, UpdateProduct(c)
        PROVE  LET job == calls[c].key IN
               /\ rows'[job.id].price # rows[job.id].price =>
                     "price" \in job.edits \/ job.id \in unknown
               /\ rows'[job.id].stock # rows[job.id].stock =>
                     "stock" \in job.edits \/ job.id \in unknown
    <2>1. PICK job : job = calls[c].key
      OBVIOUS
    <2>2. AdminTyped /\ OneSave /\ RowsAgree
      BY <1>1 DEF AdminInv
    <2>3. Live(c, "save") /\ job.stage = "sent" /\ job.row \in Row
      BY <1>1, <2>1, <2>2, UpdateGoes DEF Live
    <2>4. job.id \in Existing /\ SaveOK(c)
      BY <2>1, <2>2, <2>3, SavesOfListed DEF RowsAgree, SavesOK
    <2>5. rows'[job.id] = Stored(job.row)
      <3>1. rows \in Seq(Row) /\ job.id \in DOMAIN rows
        BY <2>2, <2>4 DEF AdminTyped, ServerTyped, Existing
      <3>2. rows' = [rows EXCEPT ![job.id] = Stored(job.row)]
        BY <1>1, <2>1 DEF UpdateProduct
      <3> QED
        BY <2>3, <3>1, <3>2, RowReplaced, StoredIs
    <2>6. job.id \notin unknown =>
              \A f \in Fields :
                  Stored(job.row)[f] # rows[job.id][f] => f \in job.edits
      BY <2>1, <2>3, <2>4 DEF SaveOK
    <2> QED
      BY <2>1, <2>5, <2>6 DEF Fields
  <1>2. AdminInv => \A c \in Calls : calls[c].live /\ UpdateProduct(c) =>
            LET job == calls[c].key IN
            /\ rows'[job.id].price # rows[job.id].price =>
                  "price" \in job.edits \/ job.id \in unknown
            /\ rows'[job.id].stock # rows[job.id].stock =>
                  "stock" \in job.edits \/ job.id \in unknown
    BY <1>1
  <1> QED
    BY <1>2, AdminInvariance, PTL DEF SaveChangesWhatWasTyped
=============================================================================
