------------------------------ MODULE AdminPage ------------------------------
(***************************************************************************)
(* pages/AdminPage.tsx: the form that creates products and the list of     *)
(* those created since the page was entered, each in a row that can be     *)
(* edited.  A handler sends one request; PostgreSQL commits it before the  *)
(* row is read again and indexed (create_product, update_product of        *)
(* products.py), so a request that fails may have been carried out.        *)
(*                                                                         *)
(* The inputs are not disabled while a request is under way, and units are *)
(* sold at any time.                                                       *)
(***************************************************************************)
EXTENDS Client, Sequences

CONSTANTS
    Prices, Stocks, \* what can be typed in a row and is not refused
    Rounded,        \* what NUMERIC(10, 2) makes of a price
    Fills,          \* what can be submitted with the form
    Drafts,         \* bound: how often the form is filled in
    MaxProducts,    \* bound: products that are created
    MaxEdits,       \* bound: fields that are typed in the rows
    MaxLeaves       \* bound: how often the page is left

ASSUME AdminAssumption ==
    /\ Prices # {} /\ Stocks \subseteq Nat
    /\ Rounded \in [Prices -> Prices]
    /\ \A p \in Prices : Rounded[Rounded[p]] = Rounded[p]
    /\ Fills \subseteq [price : Prices, stock : Stocks]
    /\ Drafts \in Nat \ {0} /\ MaxProducts \in Nat \ {0}
    /\ MaxEdits \in Nat /\ MaxLeaves \in Nat

VARIABLES
    rows,           \* the products table, in the order of its ids
    form,           \* the fields of the form: [draft, row], draft 0 when blank
    listed,         \* sessionProducts: [id, row], newest first
    typed,          \* typed[id]: the inputs of the row of a listed product
    busy,           \* the hooks [submitting, saving, uploading]
    lastCreated,    \* lastCreatedId, 0 for null
    edits, leaves,
    draftOf,        \* history: the draft that a product comes from
    missed,         \* history: products of which the page had no answer, or
                    \* that were listed when it was left
    edited,         \* history: fields typed since they were last saved
    unknown,        \* history: products sold, or changed by a PUT that was given
                    \* up, since the page has known their row
    overtaken       \* history: products changed between a PUT and its SELECT
                    \* by somebody else

serverVars == <<rows, draftOf, unknown>>
formVars == <<form, lastCreated>>
listVars == <<listed, typed, edited, overtaken>>
adminVars == <<calls, serverVars, formVars, listVars, busy, edits, leaves,
              missed>>

Row == [price : Prices, stock : Nat]
AnyRow == [price |-> CHOOSE p \in Prices : TRUE, stock |-> 0]
BlankForm == [draft |-> 0, row |-> AnyRow]
NotBusy == [submitting |-> FALSE, saving |-> {}, uploading |-> FALSE]

\* The row of the table that a row of inputs becomes.  The inputs of a row are
\* in no form, so that nothing holds their price to its step of 0.01.
Stored(row) == [row EXCEPT !.price = Rounded[@]]

Ids == 1 .. MaxProducts
Existing == DOMAIN rows
Listed == {listed[i].id : i \in DOMAIN listed}
ListedRow(id) == (CHOOSE p \in {listed[i] : i \in DOMAIN listed} : p.id = id).row

\* What request() carries: the row to be written, how far the server is with
\* it, and the row that it has read for the answer.
Job(id, row, fields) ==
    [id |-> id, row |-> row, edits |-> fields, stage |-> "sent", got |-> AnyRow]
JobAt(c, api, stage) == calls[c].api = api /\ calls[c].key.stage = stage

JobsOf(api, live) ==
    {calls[c].key.id : c \in {d \in Calls : /\ calls[d].api = api
                                            /\ calls[d].live \in live}}

AdminInit ==
    /\ calls = [c \in Calls |-> Free]
    /\ rows = <<>> /\ draftOf = <<>>
    /\ form = BlankForm
    /\ listed = <<>>
    /\ typed = [id \in Ids |-> AnyRow]
    /\ busy = NotBusy
    /\ lastCreated = 0
    /\ edits = 0 /\ leaves = 0
    /\ missed = {} /\ unknown = {} /\ overtaken = {}
    /\ edited = [id \in Ids |-> {}]

-----------------------------------------------------------------------------
(* The customer of the page                                                *)

\* Another product in the fields, also while the last one is being created.
FillForm ==
    /\ \E d \in 1 .. Drafts, row \in Fills :
          /\ d > form.draft /\ \A i \in DOMAIN draftOf : d > draftOf[i]
          /\ \A c \in Calls : calls[c].api = "create" => d > calls[c].key.draft
          /\ form' = [draft |-> d, row |-> row]
    /\ UNCHANGED <<calls, serverVars, lastCreated, listVars, busy, edits, leaves,
                   missed>>

\* Mutant: the button is not disabled while submitting.
MaySubmitAlways == form.draft # 0

\* The required fields are filled in, the button is enabled.
MaySubmit == form.draft # 0 /\ ~busy.submitting

Submit ==
    /\ MaySubmit
    /\ Send("create", [id |-> 0, draft |-> form.draft, row |-> form.row,
                       stage |-> "sent", got |-> AnyRow])
    /\ busy' = [busy EXCEPT !.submitting = TRUE]
    /\ UNCHANGED <<serverVars, formVars, listVars, edits, leaves, missed>>

\* The two inputs of a row.
TypeField(id, field, value) ==
    /\ id \in Listed
    /\ typed[id][field] # value
    /\ edits < MaxEdits /\ edits' = edits + 1
    /\ typed' = [typed EXCEPT ![id][field] = value]
    /\ edited' = [edited EXCEPT ![id] = @ \cup {field}]
    /\ UNCHANGED <<calls, serverVars, formVars, listed, overtaken, busy, leaves,
                   missed>>

Edit(id) ==
    \/ \E price \in Prices : TypeField(id, "price", price)
    \/ \E stock \in Stocks : TypeField(id, "stock", stock)

Dirty(id) == typed[id] # ListedRow(id)
IsRounded(id) == typed[id].price # Rounded[typed[id].price]

\* Both fields are sent, whichever of them was edited.
Save(id) ==
    /\ id \in Listed /\ Dirty(id) /\ id \notin busy.saving
    /\ Send("save", Job(id, typed[id], edited[id]))
    /\ busy' = [busy EXCEPT !.saving = @ \cup {id}]
    /\ edited' = [edited EXCEPT ![id] = {}]
    /\ UNCHANGED <<serverVars, formVars, listed, typed, overtaken, edits,
                   leaves,
                   missed>>

\* A file is chosen for the product that was created last.
Upload ==
    /\ lastCreated # 0 /\ ~busy.uploading
    /\ Send("upload", Job(lastCreated, AnyRow, {}))
    /\ busy' = [busy EXCEPT !.uploading = TRUE]
    /\ UNCHANGED <<serverVars, formVars, listVars, edits, leaves, missed>>

\* Of a request whose answer has nobody to go to only the commit is of
\* interest, if it is still to come.
Abandoned(c) ==
    IF calls[c].api \in {"create", "save"} /\ calls[c].key.stage = "sent"
    THEN [calls[c] EXCEPT !.live = FALSE] ELSE Free

\* The page is left or loaded again: its list and its fields are lost.
LeaveAdmin ==
    /\ leaves < MaxLeaves
    /\ leaves' = leaves + 1
    /\ calls' = [c \in Calls |-> Abandoned(c)]
    /\ form' = BlankForm /\ lastCreated' = 0
    /\ listed' = <<>> /\ busy' = NotBusy
    /\ typed' = [id \in Ids |-> AnyRow]
    /\ edited' = [id \in Ids |-> {}]
    /\ overtaken' = {} /\ unknown' = {}
    /\ missed' = missed \cup Listed \cup (JobsOf("create", BOOLEAN) \ {0})
    /\ UNCHANGED <<rows, draftOf, edits>>

-----------------------------------------------------------------------------
(* The server                                                              *)

PageUnchanged == UNCHANGED <<formVars, listVars, busy, edits, leaves, missed>>

\* POST /products commits.
InsertProduct(c) ==
    /\ JobAt(c, "create", "sent")
    /\ Len(rows) < MaxProducts
    /\ rows' = Append(rows, Stored(calls[c].key.row))
    /\ draftOf' = Append(draftOf, calls[c].key.draft)
    /\ calls' = [calls EXCEPT ![c].key.stage = "committed",
                              ![c].key.id = Len(rows) + 1]
    /\ UNCHANGED unknown
    /\ PageUnchanged

\* PUT /products/{id} commits.
UpdateProduct(c) ==
    /\ JobAt(c, "save", "sent")
    /\ rows' = [rows EXCEPT ![calls[c].key.id] = Stored(calls[c].key.row)]
    /\ unknown' = IF calls[c].live THEN unknown \ {calls[c].key.id}
                  ELSE unknown \cup {calls[c].key.id}
    /\ calls' = [calls EXCEPT ![c].key.stage = "committed"]
    /\ UNCHANGED draftOf
    /\ PageUnchanged

\* db.refresh, then the rest of the handler: the answer is what it has read
\* (of interest only to a page that waits for it).
ReadBack(c) ==
    /\ calls[c].live
    /\ JobAt(c, "create", "committed") \/ JobAt(c, "save", "committed")
    /\ calls' = [calls EXCEPT ![c].key.stage = "served",
                              ![c].key.got = rows[calls[c].key.id]]
    /\ unknown' = IF calls[c].api = "create"
                  THEN unknown \ {calls[c].key.id} ELSE unknown
    /\ UNCHANGED <<rows, draftOf>>
    /\ PageUnchanged

StoreImage(c) ==
    /\ JobAt(c, "upload", "sent")
    /\ calls' = [calls EXCEPT ![c].key.stage = "served"]
    /\ UNCHANGED serverVars
    /\ PageUnchanged

\* A checkout takes a unit.  What the page has lost sight of is left out.
Sell(id) ==
    /\ rows[id].stock > 0 /\ id \notin missed
    /\ rows' = [rows EXCEPT ![id].stock = @ - 1]
    /\ unknown' = unknown \cup {id}
    /\ UNCHANGED <<calls, draftOf>>
    /\ PageUnchanged

-----------------------------------------------------------------------------
(* Answers                                                                 *)

\* Mutant: the list is made of what was rendered at the click.
AddedForgetful(p) == <<p>>

\* filter((q) => q.id !== p.id); there is at most one such place.
Without(id) ==
    IF id \notin Listed THEN listed
    ELSE LET i == CHOOSE j \in DOMAIN listed : listed[j].id = id
         IN SubSeq(listed, 1, i - 1) \o SubSeq(listed, i + 1, Len(listed))

\* addSessionProduct: newest first.
Added(p) == <<p>> \o Without(p.id)

\* Mutant: the list is left alone.
UpdatedForgotten(p) == listed

\* updateSessionProduct.
Updated(p) == [i \in DOMAIN listed |-> IF listed[i].id = p.id THEN p ELSE listed[i]]

\* Mutant: rows are keyed by their place, so the inputs stay at theirs.
InputsByPlace(p) ==
    LET old == <<p>> \o listed
        at(id) == CHOOSE i \in DOMAIN old : old[i].id = id
    IN [id \in Ids |->
          IF id \notin Listed \cup {p.id} THEN typed[id]
          ELSE IF at(id) <= Len(listed) THEN typed[listed[at(id)].id]
          ELSE old[at(id)].row]

\* useState(String(product.price)) of the new row: key={p.id}.
Inputs(p) == [typed EXCEPT ![p.id] = p.row]

Product(c) == [id |-> calls[c].key.id, row |-> calls[c].key.got]

\* onCreated, and the fields are cleared, whatever was typed meanwhile.
Created(c) ==
    /\ listed' = Added(Product(c))
    /\ typed' = Inputs(Product(c))
    /\ lastCreated' = calls[c].key.id
    /\ form' = BlankForm
    /\ busy' = [busy EXCEPT !.submitting = FALSE]
    /\ UNCHANGED <<edited, overtaken, missed>>

\* onUpdated; the inputs keep what they hold.
Saved(c) ==
    LET id == calls[c].key.id IN
    /\ listed' = Updated(Product(c))
    /\ overtaken' = IF calls[c].key.got # Stored(calls[c].key.row)
                    THEN overtaken \cup {id} ELSE overtaken \ {id}
    /\ busy' = [busy EXCEPT !.saving = @ \ {id}]
    /\ UNCHANGED <<formVars, typed, edited, missed>>

NotUploading ==
    /\ busy' = [busy EXCEPT !.uploading = FALSE]
    /\ UNCHANGED <<formVars, listVars, missed>>

\* What was created for nobody.
Missed(c) == missed' = IF calls[c].api = "create"
                       THEN missed \cup ({calls[c].key.id} \ {0}) ELSE missed

Answered(c) ==
    /\ calls[c] # Free /\ calls[c].key.stage = "served" /\ calls[c].live
    /\ Over(c)
    /\ CASE calls[c].api = "create" -> Created(c)
         [] calls[c].api = "save" -> Saved(c)
         [] OTHER -> NotUploading
    /\ UNCHANGED <<serverVars, edits, leaves>>

\* finally { setSaving(false) }
SavingAfterError(id) == busy.saving \ {id}

\* catch: the fields of the form and of the row stay as they are.
ShowError(c) ==
    LET id == calls[c].key.id IN
    /\ busy' = CASE calls[c].api = "create" -> [busy EXCEPT !.submitting = FALSE]
                 [] calls[c].api = "save" ->
                        [busy EXCEPT !.saving = SavingAfterError(id)]
                 [] OTHER -> [busy EXCEPT !.uploading = FALSE]
    /\ edited' = IF calls[c].api = "save"
                 THEN [edited EXCEPT ![id] = @ \cup calls[c].key.edits]
                 ELSE edited
    /\ Missed(c)
    /\ UNCHANGED <<formVars, listed, typed, overtaken>>

\* Refused, or given up by the server, maybe after the commit; or over without
\* a page to be told.
Failed(c) ==
    /\ calls[c] # Free
    /\ Over(c)
    /\ IF calls[c].live THEN ShowError(c)
       ELSE Missed(c) /\ UNCHANGED <<formVars, listVars, busy>>
    /\ UNCHANGED <<serverVars, edits, leaves>>

\* The connection breaks: an error for the page, nothing to the server.
Lost(c) ==
    /\ calls[c] # Free /\ calls[c].live
    /\ calls' = [calls EXCEPT ![c] = Abandoned(c)]
    /\ ShowError(c)
    /\ UNCHANGED <<serverVars, edits, leaves>>

AdminNext ==
    \/ FillForm \/ Submit \/ Upload \/ LeaveAdmin
    \/ \E id \in Ids : Edit(id) \/ Save(id)
    \/ \E id \in Existing : Sell(id)
    \/ \E c \in Calls : \/ InsertProduct(c) \/ UpdateProduct(c) \/ ReadBack(c)
                        \/ StoreImage(c) \/ Answered(c) \/ Failed(c)
                        \/ Lost(c)

AdminSpec == AdminInit /\ [][AdminNext]_adminVars

-----------------------------------------------------------------------------
(* Properties                                                              *)

\* Types, and one row of the list per product: React needs different keys
\* (AdminPage.tsx:37-44, 229-231).
AdminTypeOK ==
    /\ rows \in Seq(Row) /\ Len(rows) <= MaxProducts
    /\ form \in [draft : 0 .. Drafts, row : Row]
    /\ listed \in Seq([id : Ids, row : Row]) /\ Listed \subseteq Existing
    /\ \A i, j \in DOMAIN listed : listed[i].id = listed[j].id => i = j
    /\ typed \in [Ids -> Row]
    /\ busy \in [submitting : BOOLEAN, saving : SUBSET Ids, uploading : BOOLEAN]
    /\ lastCreated \in Listed \cup {0}

DeadJobs(api) == JobsOf(api, {FALSE})

\* "We only remember what was created in this browser tab", "newest first"
\* (AdminPage.tsx:12-14, 38): of the products that the page has created only
\* those are not listed whose answer was an error or is still to come, or
\* that were created before the page was left.
ListIsComplete ==
    /\ \A id \in Existing :
          \/ id \in Listed \cup missed
          \/ \E c \in Calls : calls[c].api = "create" /\ calls[c].key.id = id
    /\ \A i, j \in DOMAIN listed : i < j => listed[i].id > listed[j].id

\* A product is created twice from the same fields only if one of the two
\* requests ended in an error although its row was made, as it does when only
\* the indexing has failed (AdminPage.tsx:82-108, products.py:91-96).
DuplicatesNeedFailures ==
    \A i, j \in DOMAIN draftOf : i < j /\ draftOf[i] = draftOf[j] =>
        {i, j} \cap (missed \cup DeadJobs("create")) # {}

\* "Disable the Save button if neither field has changed from the latest
\* server value" (AdminPage.tsx:250-251): a row can be saved because somebody
\* has typed in it, because units were sold between the PUT and its SELECT, or
\* because PostgreSQL rounded the price and the input still shows the typed one
\* (init.sql:16, AdminPage.tsx:245-253).
DirtyForAReason ==
    \A id \in Listed :
        Dirty(id) => \/ edited[id] # {}
                     \/ id \in busy.saving \cup overtaken
                     \/ IsRounded(id)

\* A PUT that the page waits for changes only what was typed, although it
\* always carries both fields, unless the row has changed in a way that the
\* page does not know of: sold units, for one, it brings back
\* (AdminPage.tsx:258-261).
SaveChangesWhatWasTyped ==
    [][\A c \in Calls : calls[c].live /\ UpdateProduct(c) =>
          LET job == calls[c].key IN
          /\ rows'[job.id].price # rows[job.id].price =>
                "price" \in job.edits \/ job.id \in unknown
          /\ rows'[job.id].stock # rows[job.id].stock =>
                "stock" \in job.edits \/ job.id \in unknown
      ]_adminVars
=============================================================================
