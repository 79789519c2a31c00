------------------------------ MODULE Catalogue ------------------------------
(***************************************************************************)
(* The business store (MongoDB) under the two row processors               *)
(* (apps/worker/src/runner/processors): a price update writes the product, *)
(* then the product's docs in the search index; a re-index walks the       *)
(* products page by page and upserts the docs of its catalogue.  Workers   *)
(* are the row executions under way, of any runner: two may hold the same  *)
(* row (a run that was reclaimed but still goes on), and any may stop      *)
(* between two writes.                                                     *)
(*                                                                         *)
(* Ids are numbers, in the order of `_id`; the first, 0, is the empty      *)
(* string, with which the re-index starts its walk.  The `_id` of a doc is *)
(* the name of its catalogue and the product's id put together: one        *)
(* catalogue never spells two products alike, two catalogues may.  Every   *)
(* write of one document is atomic, updateMany and bulkWrite are not.      *)
(***************************************************************************)
EXTENDS Integers, FiniteSets

CONSTANTS
  MaxId,          \* product ids 0 .. MaxId
  Prices,
  Catalogues,     \* one re-index row each
  DocId,          \* DocId[<<c, i>>]: `${catalogue}:${productId}`
  Updates,        \* price update rows
  Workers,
  PageSize,       \* REINDEX_PAGE_SIZE
  MaxAttempts     \* ROW_MAX_ATTEMPTS

Ids   == 0 .. MaxId
Rows  == Updates \cup Catalogues
Pairs == Catalogues \X Ids
Docs  == {DocId[p] : p \in Pairs}

None   == "none"         \* no such document
NoRow  == "no row"
EmptyId == 0

ASSUME CatalogueAssumption ==
  /\ MaxId \in Nat /\ PageSize \in Nat \ {0} /\ MaxAttempts \in Nat \ {0}
  /\ None \notin Prices /\ Updates \cap Catalogues = {} /\ NoRow \notin Rows
  /\ \A c \in Catalogues, i, j \in Ids : DocId[<<c, i>>] = DocId[<<c, j>>] => i = j

VARIABLES
  store,     \* products: store[i], its price or None
  index,     \* catalogue_index: index[d], the price of the doc or None
  fields,    \* fields[d]: its catalogue and its productId
  payload,   \* payload[u]: the id and price of the update row u
  row,       \* row[r]: its status in the ledger
  attempts,  \* attempts[r]
  job,       \* job[w]: the row the worker executes
  pc,        \* pc[w]: the await it is at
  docs,      \* docs[w]: what the statement under way has yet to write
  page,      \* page[w]: the page it read, id to price
  cursor,    \* cursor[w]: lastId
  had,       \* history: the products there when its row began
  seen,      \* history: every price the store had, by id
  begun,     \* history: the rows that were ever begun
  before,    \* history: the updates already done when the row was first begun
  mixed      \* history: an execution was begun while another was under way

work == <<job, pc, docs, page, cursor, had>>
past == <<begun, before, mixed>>
vars == <<store, index, fields, payload, row, attempts, work, seen, past>>

PC == {"idle", "upsert", "refresh", "page", "write", "flip"}

Products == {i \in Ids : store[i] # None}

ProductOf(d) == fields[d][2]

DocsOf(i) == {DocId[<<c, i>>] : c \in Catalogues}

(* The id under which worker w has product i, re-indexing its catalogue.   *)
Doc(w, i) == DocId[<<job[w], i>>]

Init ==
  /\ store \in [Ids -> Prices \cup {None}]
  /\ index = [d \in Docs |-> None]
  /\ fields = [d \in Docs |-> CHOOSE p \in Pairs : DocId[p] = d]
  /\ payload \in [Updates -> [id : Ids, price : Prices]]
  /\ row = [r \in Rows |-> "pending"] /\ attempts = [r \in Rows |-> 0]
  /\ job = [w \in Workers |-> NoRow] /\ pc = [w \in Workers |-> "idle"]
  /\ docs = [w \in Workers |-> {}] /\ cursor = [w \in Workers |-> EmptyId]
  /\ page = [w \in Workers |-> [i \in Ids |-> None]]
  /\ had = [w \in Workers |-> {}]
  /\ seen = [i \in Ids |-> {store[i]} \ {None}]
  /\ begun = {} /\ before = [r \in Rows |-> {}] /\ mixed = FALSE

-----------------------------------------------------------------------------
GoTo(w, l) == pc' = [pc EXCEPT ![w] = l]

(* The execution is over; nothing of it is kept.                           *)
Rest(w) ==
  /\ GoTo(w, "idle")
  /\ job'  = [job EXCEPT ![w] = NoRow]
  /\ docs' = [docs EXCEPT ![w] = {}]
  /\ cursor' = [cursor EXCEPT ![w] = EmptyId]
  /\ page' = [page EXCEPT ![w] = [i \in Ids |-> None]]
  /\ had'  = [had EXCEPT ![w] = {}]

(* A row still pending is handed to the processor of its kind.             *)
Start(w, r) ==
  /\ pc[w] = "idle" /\ row[r] = "pending"
  /\ job' = [job EXCEPT ![w] = r]
  /\ GoTo(w, IF r \in Updates THEN "upsert" ELSE "page")
  /\ had' = [had EXCEPT ![w] = Products]
  /\ begun' = begun \cup {r}
  /\ mixed' = (mixed \/ \E v \in Workers : pc[v] # "idle")
  /\ before' = [before EXCEPT ![r] =
                  IF r \in begun THEN @ ELSE {u \in Updates : row[u] = "done"}]
  /\ UNCHANGED <<store, index, fields, payload, row, attempts, docs, page, cursor, seen>>

-----------------------------------------------------------------------------
(* Price update.                                                           *)

(* Mutant: the projection is written, the source is not.                  *)
UpsertNever(w) ==
  LET p == payload[job[w]]
  IN  /\ pc[w] = "upsert"
      /\ docs' = [docs EXCEPT ![w] = DocsOf(p.id)]
      /\ GoTo(w, "refresh")
      /\ UNCHANGED <<store, seen, index, fields, payload, row, attempts, job, page, cursor, had, past>>

(* Mutant: the index is left to the next re-index.                         *)
UpsertOnly(w) ==
  LET p == payload[job[w]]
  IN  /\ pc[w] = "upsert"
      /\ store' = [store EXCEPT ![p.id] = p.price]
      /\ seen'  = [seen EXCEPT ![p.id] = @ \cup {p.price}]
      /\ GoTo(w, "flip")
      /\ UNCHANGED <<index, fields, payload, row, attempts, job, docs, page, cursor, had, past>>

(* upsertPrice; updateMany then visits the docs of the product.            *)
Upsert(w) ==
  LET p == payload[job[w]]
  IN  /\ pc[w] = "upsert"
      /\ store' = [store EXCEPT ![p.id] = p.price]
      /\ seen'  = [seen EXCEPT ![p.id] = @ \cup {p.price}]
      /\ docs'  = [docs EXCEPT ![w] = DocsOf(p.id)]
      /\ GoTo(w, "refresh")
      /\ UNCHANGED <<index, fields, payload, row, attempts, job, page, cursor, had, past>>

(* refreshPrice writes a doc that is there with this productId and inserts *)
(* none.                                                                   *)
RefreshDoc(w) == \E d \in docs[w] :
  LET p == payload[job[w]]
  IN  /\ pc[w] = "refresh"
      /\ index' = IF index[d] # None /\ ProductOf(d) = p.id
                  THEN [index EXCEPT ![d] = p.price] ELSE index
      /\ docs' = [docs EXCEPT ![w] = @ \ {d}]
      /\ UNCHANGED <<store, fields, payload, row, attempts, job, pc, page, cursor, had, seen, past>>

Refreshed(w) ==
  /\ pc[w] = "refresh" /\ docs[w] = {}
  /\ GoTo(w, "flip")
  /\ UNCHANGED <<store, index, fields, payload, row, attempts, job, docs, page, cursor, had, seen, past>>

-----------------------------------------------------------------------------
(* Re-index.                                                               *)

(* A page of products after id c: the PageSize first ones, or what is left.*)
PageAfter(c) ==
  LET next == {i \in Products : i > c}
  IN  {i \in next : Cardinality({j \in next : j < i}) < PageSize}

(* Mutant: the find is not sorted.                                         *)
ReadPageUnsorted(w) ==
  /\ pc[w] = "page"
  /\ \E ids \in SUBSET {i \in Products : i > cursor[w]} :
       /\ Cardinality(ids) = Cardinality(PageAfter(cursor[w]))
       /\ docs' = [docs EXCEPT ![w] = {Doc(w, i) : i \in ids}]
       /\ page' = [page EXCEPT ![w] = [i \in Ids |-> IF i \in ids THEN store[i] ELSE None]]
       /\ GoTo(w, IF ids = {} THEN "flip" ELSE "write")
  /\ UNCHANGED <<store, index, fields, payload, row, attempts, job, cursor, had, seen, past>>

(* pageAfter; an empty page ends the walk.                                 *)
ReadPage(w) ==
  LET ids == PageAfter(cursor[w])
  IN  /\ pc[w] = "page"
      /\ docs' = [docs EXCEPT ![w] = {Doc(w, i) : i \in ids}]
      /\ page' = [page EXCEPT ![w] = [i \in Ids |-> IF i \in ids THEN store[i] ELSE None]]
      /\ GoTo(w, IF ids = {} THEN "flip" ELSE "write")
      /\ UNCHANGED <<store, index, fields, payload, row, attempts, job, cursor, had, seen, past>>

(* What the bulk write has yet to write of the page.                       *)
Unwritten(w) == {i \in Ids : page[w][i] # None /\ Doc(w, i) \in docs[w]}

(* Mutant: $setOnInsert, a doc that is there is kept.                      *)
UpsertDocOnce(w) == \E i \in Unwritten(w) :
  LET d == Doc(w, i)
  IN  /\ pc[w] = "write"
      /\ index'  = [index EXCEPT ![d] = IF @ = None THEN page[w][i] ELSE @]
      /\ fields' = [fields EXCEPT ![d] = IF index[d] = None THEN <<job[w], i>> ELSE @]
      /\ docs' = [docs EXCEPT ![w] = @ \ {d}]
      /\ UNCHANGED <<store, payload, row, attempts, job, pc, page, cursor, had, seen, past>>

(* upsertPage, one document of the unordered bulk write: whatever doc has  *)
(* this id gets the catalogue, the productId and the price.                *)
UpsertDoc(w) == \E i \in Unwritten(w) :
  LET d == Doc(w, i)
  IN  /\ pc[w] = "write"
      /\ index'  = [index EXCEPT ![d] = page[w][i]]
      /\ fields' = [fields EXCEPT ![d] = <<job[w], i>>]
      /\ docs' = [docs EXCEPT ![w] = @ \ {d}]
      /\ UNCHANGED <<store, payload, row, attempts, job, pc, page, cursor, had, seen, past>>

(* Mutant: the cursor stays.                                               *)
PageWrittenStays(w) ==
  /\ pc[w] = "write" /\ docs[w] = {}
  /\ GoTo(w, "page")
  /\ UNCHANGED <<store, index, fields, payload, row, attempts, job, docs, page, cursor, had, seen, past>>

(* The whole page is written: the cursor moves to its last id.             *)
PageWritten(w) ==
  /\ pc[w] = "write" /\ docs[w] = {}
  /\ \E i \in Ids : /\ page[w][i] # None /\ \A j \in Ids : page[w][j] # None => j <= i
                    /\ cursor' = [cursor EXCEPT ![w] = i]
  /\ GoTo(w, "page")
  /\ UNCHANGED <<store, index, fields, payload, row, attempts, job, docs, page, had, seen, past>>

-----------------------------------------------------------------------------
(* How an execution ends.                                                  *)

(* markRowDone: the flip of a row somebody settled meanwhile misses.       *)
Flip(w) ==
  /\ pc[w] = "flip"
  /\ row' = [row EXCEPT ![job[w]] = IF @ = "pending" THEN "done" ELSE @]
  /\ attempts' = [attempts EXCEPT ![job[w]] = IF row[job[w]] = "pending" THEN @ + 1 ELSE @]
  /\ Rest(w)
  /\ UNCHANGED <<store, index, fields, payload, seen, past>>

(* A statement on the store throws, done in part or not: the attempt is    *)
(* charged and at the last one the row is dead-lettered.                   *)
Throws(w) ==
  /\ pc[w] # "idle"
  /\ IF row[job[w]] = "pending"
     THEN /\ attempts' = [attempts EXCEPT ![job[w]] = @ + 1]
          /\ row' = [row EXCEPT ![job[w]] =
                       IF attempts[job[w]] + 1 >= MaxAttempts THEN "failed" ELSE @]
     ELSE UNCHANGED <<row, attempts>>
  /\ Rest(w)
  /\ UNCHANGED <<store, index, fields, payload, seen, past>>

(* The process dies at any await, or a drain aborts the re-index between   *)
(* two pages: the row keeps its status.                                    *)
Stops(w) ==
  /\ pc[w] # "idle"
  /\ Rest(w)
  /\ UNCHANGED <<store, index, fields, payload, row, attempts, seen, past>>

-----------------------------------------------------------------------------
Walk(w) ==
  \/ Upsert(w) \/ RefreshDoc(w) \/ Refreshed(w)
  \/ ReadPage(w) \/ UpsertDoc(w) \/ PageWritten(w) \/ Flip(w)

Next == \E w \in Workers :
  \/ \E r \in Rows : Start(w, r)
  \/ Walk(w) \/ Throws(w) \/ Stops(w)

Spec == Init /\ [][Next]_vars

(* An execution goes on: each operation on the store answers or fails      *)
(* within its timeout.                                                     *)
FairSpec == Spec /\ \A w \in Workers : WF_vars(Walk(w))

-----------------------------------------------------------------------------
(* What is checked.                                                        *)

TypeOK ==
  /\ store \in [Ids -> Prices \cup {None}] /\ index \in [Docs -> Prices \cup {None}]
  /\ fields \in [Docs -> Pairs]
  /\ payload \in [Updates -> [id : Ids, price : Prices]]
  /\ row \in [Rows -> {"pending", "done", "failed"}]
  /\ attempts \in [Rows -> 0 .. MaxAttempts]
  /\ job \in [Workers -> Rows \cup {NoRow}] /\ pc \in [Workers -> PC]
  /\ docs \in [Workers -> SUBSET Docs] /\ cursor \in [Workers -> Ids]
  /\ page \in [Workers -> [Ids -> Prices \cup {None}]]
  /\ had \in [Workers -> SUBSET Ids]
  /\ seen \in [Ids -> SUBSET Prices]
  /\ begun \subseteq Rows /\ before \in [Rows -> SUBSET Updates] /\ mixed \in BOOLEAN

(* Source before projection (adr/0005:46-49): whatever the interleaving,   *)
(* the crashes and the half-done statements, the index holds no price its  *)
(* product never had, and no doc of a product that does not exist.         *)
IndexFromStore == \A d \in Docs :
  /\ index[d] # None => index[d] \in seen[ProductOf(d)]
  /\ index[d] # None => store[ProductOf(d)] # None

(* No other product, of any catalogue, spells the `_id` of product i in c. *)
Unshared(c, i) == \A p \in Pairs : DocId[p] = DocId[<<c, i>>] => p = <<c, i>>

(* The keyset walk skips nothing: a re-index that came to its end, even    *)
(* with products inserted and re-priced under it, has a doc under the id of*)
(* every product that was there when it began, the empty id apart, and the *)
(* product's own doc wherever no other product spells the same id          *)
(* (product.repository.ts:37-40, catalogue-reindex.processor.ts:49).       *)
ReindexCovers == \A w \in Workers :
  job[w] \in Catalogues /\ pc[w] = "flip" =>
    \A i \in had[w] \ {EmptyId} :
      /\ index[Doc(w, i)] # None
      /\ Unshared(job[w], i) => fields[Doc(w, i)] = <<job[w], i>>

(* A doc of its own, with the product's price.                             *)
UpToDate(w, i) == fields[Doc(w, i)] = <<job[w], i>> /\ index[Doc(w, i)] = store[i]

(* A re-index that nothing runs beside is a full catch-up (adr/0003:108):  *)
(* at its end each product has its own doc in the catalogue, with its      *)
(* price, whatever updates had died half-way before, dead-lettered or not, *)
(* and whatever other catalogue had taken the id.                          *)
ReindexCatchesUp == \A w \in Workers :
  ~mixed /\ job[w] \in Catalogues /\ pc[w] = "flip" =>
    \A i \in Products \ {EmptyId} : UpToDate(w, i)

Quiet == (\A w \in Workers : pc[w] = "idle") /\ (\A r \in Rows : row[r] = "done")

(* adr/0003:108-112: once every row is done and nothing is under way, the  *)
(* index agrees with the store on every doc it has.                        *)
IndexAgrees == Quiet => \A d \in Docs : index[d] \in {None, store[ProductOf(d)]}

(* The index agrees in the end if no two executions overlapped: what a     *)
(* crash left between the two writes of an update was repaired by the      *)
(* replay of its row.                                                      *)
IndexAgreesWhenDone == ~mixed => IndexAgrees

(* A re-index under way ends: the cursor always moves on, and the products *)
(* ahead of it run out.                                                    *)
ReindexEnds == \A w \in Workers : job[w] \in Catalogues ~> job[w] = NoRow

(* catalogue-reindex.processor.ts:11-13: a re-index "rebuilds the search   *)
(* index from the product store", every product of it.                     *)
ReindexCoversAll == \A w \in Workers :
  job[w] \in Catalogues /\ pc[w] = "flip" =>
    \A i \in had[w] : index[Doc(w, i)] # None

(* catalogue-index.repository.ts:8: "One index doc per product": once every*)
(* catalogue is re-indexed and nothing is under way, each product that no  *)
(* update touched has, in each catalogue, the doc with its own fields.     *)
OneDocPerProduct == Quiet =>
  \A c \in Catalogues, i \in Products \ {EmptyId} :
    (\A u \in Updates : payload[u].id # i) => fields[DocId[<<c, i>>]] = <<c, i>>

(* product.repository.ts:17-19: the replay of a row converges.  An update  *)
(* that was begun after another of the same product was done is not undone *)
(* by a late execution of that other.                                      *)
ReplayConverges == Quiet =>
  \A u, v \in Updates :
    /\ u \in before[v] /\ payload[u].id = payload[v].id
    /\ \A x \in Updates \ {u, v} : payload[x].id # payload[v].id
    => store[payload[v].id] = payload[v].price

-----------------------------------------------------------------------------
(* The strengthening of the invariants above, worker by worker.            *)

JobOfKind(w) ==
  /\ pc[w] # "idle" => job[w] \in Rows
  /\ pc[w] \in {"upsert", "refresh"} => job[w] \in Updates
  /\ pc[w] \in {"page", "write"} => job[w] \in Catalogues

(* What an update has yet to write is a price its product had.             *)
RefreshesSeen(w) ==
  pc[w] = "refresh" =>
    /\ payload[job[w]].price \in seen[payload[job[w]].id]
    /\ store[payload[job[w]].id] # None
    /\ docs[w] \subseteq DocsOf(payload[job[w]].id)

(* So is what a re-index has read, however old the page is.                *)
WritesSeen(w) ==
  /\ \A i \in Ids : page[w][i] # None => page[w][i] \in seen[i] /\ store[i] # None
  /\ pc[w] = "write" => docs[w] \subseteq {Doc(w, i) : i \in {j \in Ids : page[w][j] # None}}

(* A page leaves out none of the products of `set` below its last one.     *)
PageIsDense(w, set) ==
  \A i \in set, j \in Ids : cursor[w] < i /\ i <= j /\ page[w][j] # None => page[w][i] # None

(* Behind the cursor of a re-index everything it began with is indexed, and*)
(* of its page what is not about to be.                                    *)
WalkedCovered(w) ==
  /\ had[w] \subseteq Products
  /\ pc[w] \in {"page", "write"} =>
       \A i \in had[w] : EmptyId < i /\ i <= cursor[w] => index[Doc(w, i)] # None
  /\ pc[w] = "write" =>
       /\ \A i \in Ids : page[w][i] # None => Doc(w, i) \in docs[w] \/ index[Doc(w, i)] # None
       /\ PageIsDense(w, had[w])
  /\ pc[w] = "flip" /\ job[w] \in Catalogues =>
       \A i \in had[w] \ {EmptyId} : index[Doc(w, i)] # None

(* A worker between two executions starts the next from the first id.      *)
RestsClean(w) == pc[w] = "idle" => cursor[w] = EmptyId

Local(w) == RestsClean(w) /\ JobOfKind(w) /\ RefreshesSeen(w) /\ WritesSeen(w) /\ WalkedCovered(w)

StoreSeen == \A i \in Ids : store[i] # None => store[i] \in seen[i]

BudgetLeft == \A r \in Rows : row[r] = "pending" => attempts[r] < MaxAttempts

(* A doc lies under the id its fields spell.                               *)
FieldsSpellId == \A d \in Docs : DocId[fields[d]] = d

CInv ==
  /\ TypeOK /\ StoreSeen /\ BudgetLeft /\ FieldsSpellId /\ IndexFromStore
  /\ \A w \in Workers : Local(w)

(* What holds besides as long as no two executions overlapped.             *)
Agrees(d) == index[d] \in {None, store[ProductOf(d)]}

Alone == \A v, w \in Workers : pc[v] # "idle" /\ pc[w] # "idle" => v = w

(* A doc that disagrees has an update of its product yet to be done.       *)
RepairDue ==
  \A d \in Docs :
    Agrees(d) \/ \E u \in Updates : payload[u].id = ProductOf(d) /\ row[u] # "done"

UpdateRepairs(w) ==
  /\ pc[w] # "idle" => row[job[w]] # "done"
  /\ pc[w] = "refresh" =>
       /\ store[payload[job[w]].id] = payload[job[w]].price
       /\ \A d \in Docs : ProductOf(d) = payload[job[w]].id /\ d \notin docs[w] => Agrees(d)
  /\ pc[w] = "flip" /\ job[w] \in Updates =>
       \A d \in Docs : ProductOf(d) = payload[job[w]].id => Agrees(d)

WalkedAgrees(w) ==
  /\ pc[w] \in {"page", "write"} =>
       \A i \in Products : EmptyId < i /\ i <= cursor[w] => UpToDate(w, i)
  /\ pc[w] = "write" =>
       /\ \A i \in Ids : page[w][i] # None =>
            /\ page[w][i] = store[i]
            /\ Doc(w, i) \in docs[w] \/ UpToDate(w, i)
       /\ PageIsDense(w, Products)
  /\ pc[w] = "flip" /\ job[w] \in Catalogues =>
       \A i \in Products \ {EmptyId} : UpToDate(w, i)

ApartInv ==
  ~mixed => /\ Alone /\ RepairDue
            /\ \A w \in Workers : UpdateRepairs(w) /\ WalkedAgrees(w)
=============================================================================
