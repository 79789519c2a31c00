-------------------------- MODULE Catalogue_proofs --------------------------
(* Theorems about Catalogue, for any number of products, catalogues, rows  *)
(* and concurrent executions, and any page size.                           *)
EXTENDS Catalogue, FiniteSetTheorems, WellFoundedInduction, TLAPS

StepOf(w) ==
  \/ \E r \in Rows : Start(w, r)
  \/ Upsert(w) \/ RefreshDoc(w) \/ Refreshed(w)
  \/ ReadPage(w) \/ UpsertDoc(w) \/ PageWritten(w) \/ Flip(w)
  \/ Throws(w) \/ Stops(w)

LEMMA NextIsStep == Next => \E w \in Workers : StepOf(w)
  BY DEF Next, StepOf, Walk

-----------------------------------------------------------------------------
(* Docs.                                                                    *)

LEMMA DocIds ==
  /\ \A c \in Catalogues, i \in Ids : DocId[<<c, i>>] \in Docs
  /\ \A c \in Catalogues, i, j \in Ids : DocId[<<c, i>>] = DocId[<<c, j>>] => i = j
  /\ \A i \in Ids : DocsOf(i) \subseteq Docs
<1>1. \A c \in Catalogues, i \in Ids : DocId[<<c, i>>] \in Docs
  BY DEF Docs, Pairs
<1>2. ASSUME NEW i \in Ids, NEW d \in DocsOf(i) PROVE d \in Docs
  BY <1>1, <1>2 DEF DocsOf
<1> QED BY <1>1, <1>2, CatalogueAssumption

(* A doc lies among the ones updateMany visits for its product.             *)
LEMMA DocOfProduct ==
  ASSUME TypeOK, FieldsSpellId, NEW d \in Docs
  PROVE  fields[d] \in Pairs /\ ProductOf(d) \in Ids /\ d \in DocsOf(ProductOf(d))
<1>1. fields[d] \in Catalogues \X Ids /\ DocId[fields[d]] = d
  BY DEF TypeOK, FieldsSpellId, Pairs
<1>2. PICK c \in Catalogues, i \in Ids : fields[d] = <<c, i>>
  BY <1>1
<1> QED BY <1>1, <1>2 DEF Pairs, ProductOf, DocsOf

-----------------------------------------------------------------------------
(* Pages.                                                                   *)

LEMMA LeastOf ==
  ASSUME NEW S \in SUBSET Nat, S # {}
  PROVE  \E m \in S : \A k \in S : m <= k
<1>1. PICK m \in S : \A k \in S : <<k, m>> \notin OpToRel(<, Nat)
  BY NatLessThanWellFounded, WFMin
<1>2. \A k \in S : ~(k < m)
  BY <1>1 DEF OpToRel
<1> QED BY <1>2

Below(S, i) == {j \in S : j < i}

LEMMA BelowFacts ==
  ASSUME NEW S \in SUBSET Ids, NEW i \in S
  PROVE  /\ IsFiniteSet(Below(S, i)) /\ Cardinality(Below(S, i)) \in Nat
         /\ (\A k \in S : i <= k) => Below(S, i) = {}
         /\ \A j \in S : i <= j => Below(S, i) \subseteq Below(S, j)
<1>1. MaxId \in Nat /\ \A k \in S : k \in Nat /\ k <= MaxId
  BY CatalogueAssumption DEF Ids
<1>2. \A k \in Below(S, i) : k \in S /\ k < i
  BY DEF Below
<1>3. IsFiniteSet(Below(S, i))
  <2>1. Below(S, i) \in SUBSET Nat
    BY <1>1, <1>2
  <2>2. \A k \in Below(S, i) : k <= MaxId
    BY <1>1, <1>2
  <2> QED BY <1>1, <2>1, <2>2, FS_BoundedSetOfNaturals
<1>4. ASSUME \A k \in S : i <= k PROVE Below(S, i) = {}
  <2> SUFFICES ASSUME NEW k \in Below(S, i) PROVE FALSE
    OBVIOUS
  <2>1. k \in S /\ k < i /\ i <= k
    BY <1>2, <1>4
  <2>2. k \in Nat /\ i \in Nat
    BY <1>1, <2>1
  <2> QED BY <2>1, <2>2
<1>5. ASSUME NEW j \in S, i <= j PROVE Below(S, i) \subseteq Below(S, j)
  <2> SUFFICES ASSUME NEW k \in Below(S, i) PROVE k \in Below(S, j)
    OBVIOUS
  <2>0. k \in S /\ k < i
    BY <1>2
  <2>1. k \in S /\ k < j
    <3>1. k \in Nat /\ i \in Nat /\ j \in Nat
      BY <1>1, <2>0
    <3> QED BY <1>5, <2>0, <3>1
  <2> QED BY <2>1 DEF Below
<1> QED BY <1>3, <1>4, <1>5, FS_CardinalityType

(* A page is a prefix of what is left, and empty only when nothing is.      *)
LEMMA PageIsPrefix ==
  ASSUME TypeOK, NEW c \in Ids
  PROVE  /\ PageAfter(c) \subseteq {i \in Products : i > c}
         /\ PageAfter(c) = {} => {i \in Products : i > c} = {}
         /\ \A j \in PageAfter(c), i \in Products : c < i /\ i <= j => i \in PageAfter(c)
<1> DEFINE next == {i \in Products : i > c}
<1>1. PageAfter(c) = {i \in next : Cardinality(Below(next, i)) < PageSize}
  BY DEF PageAfter, Below
<1>2. next \in SUBSET Ids /\ next \in SUBSET Nat /\ PageSize \in Nat \ {0}
  BY CatalogueAssumption DEF Products, Ids
<1>3. \A i \in Products : i \in next <=> c < i
  BY <1>2 DEF Products, Ids
<1> HIDE DEF next
<1>4. ASSUME next # {} PROVE PageAfter(c) # {}
  <2>1. PICK m \in next : \A k \in next : m <= k
    BY <1>2, <1>4, LeastOf
  <2>2. Below(next, m) = {}
    BY <1>2, <2>1, BelowFacts
  <2>3. Cardinality(Below(next, m)) < PageSize
    BY <1>2, <2>2, FS_EmptySet
  <2> QED BY <2>3, <1>1
<1>5. ASSUME NEW j \in PageAfter(c), NEW i \in Products, c < i, i <= j
      PROVE  i \in PageAfter(c)
  <2>1. i \in next /\ j \in next /\ Cardinality(Below(next, j)) < PageSize
    BY <1>1, <1>3, <1>5
  <2>2. Below(next, i) \subseteq Below(next, j)
    BY <1>2, <1>5, <2>1, BelowFacts
  <2>3. /\ IsFiniteSet(Below(next, j)) /\ Cardinality(Below(next, i)) \in Nat
        /\ Cardinality(Below(next, j)) \in Nat
    BY <1>2, <2>1, BelowFacts
  <2>4. Cardinality(Below(next, i)) <= Cardinality(Below(next, j))
    BY <2>2, <2>3, FS_Subset
  <2> QED BY <1>1, <1>2, <2>1, <2>3, <2>4
<1>6. PageAfter(c) \subseteq next
  BY <1>1
<1> QED BY <1>4, <1>5, <1>6 DEF next

-----------------------------------------------------------------------------
(* Types.                                                                   *)

LEMMA RestTypes ==
  ASSUME TypeOK, NEW w \in Workers, Rest(w)
  PROVE  /\ job' \in [Workers -> Rows \cup {NoRow}] /\ pc' \in [Workers -> PC]
         /\ docs' \in [Workers -> SUBSET Docs] /\ cursor' \in [Workers -> Ids]
         /\ page' \in [Workers -> [Ids -> Prices \cup {None}]]
         /\ had' \in [Workers -> SUBSET Ids]
<1>1. EmptyId \in Ids
  BY CatalogueAssumption DEF EmptyId, Ids
<1>2. [i \in Ids |-> None] \in [Ids -> Prices \cup {None}]
  OBVIOUS
<1> QED BY <1>1, <1>2 DEF Rest, GoTo, TypeOK, PC

LEMMA StepTypes ==
  ASSUME CInv, NEW w \in Workers, StepOf(w)
  PROVE  TypeOK'
<1> USE DEF GoTo, work, past
<1>1. TypeOK /\ JobOfKind(w) /\ BudgetLeft
  BY DEF CInv, Local
<1>2. Products \subseteq Ids /\ Rows = Updates \cup Catalogues
  BY DEF Products, Rows
<1>3. ASSUME NEW r \in Rows, Start(w, r) PROVE TypeOK'
  <2>1. pc' \in [Workers -> PC] /\ job' \in [Workers -> Rows \cup {NoRow}]
    BY <1>1, <1>3 DEF TypeOK, Start, PC
  <2>2. had' \in [Workers -> SUBSET Ids]
    BY <1>1, <1>2, <1>3 DEF TypeOK, Start
  <2>3. begun' \subseteq Rows /\ before' \in [Rows -> SUBSET Updates] /\ mixed' \in BOOLEAN
    BY <1>1, <1>3 DEF TypeOK, Start
  <2> QED BY <1>1, <1>3, <2>1, <2>2, <2>3 DEF TypeOK, Start
<1>4. CASE Upsert(w)
  <2>1. payload[job[w]] \in [id : Ids, price : Prices]
    BY <1>1, <1>4 DEF TypeOK, Upsert, JobOfKind
  <2>2. payload[job[w]].id \in Ids /\ payload[job[w]].price \in Prices
    BY <2>1
  <2>3. DocsOf(payload[job[w]].id) \subseteq Docs
    BY <2>2, DocIds
  <2>4. pc' \in [Workers -> PC] /\ docs' \in [Workers -> SUBSET Docs]
    BY <1>1, <1>4, <2>3 DEF TypeOK, Upsert, PC
  <2>5. store' \in [Ids -> Prices \cup {None}] /\ seen' \in [Ids -> SUBSET Prices]
    BY <1>1, <1>4, <2>2 DEF TypeOK, Upsert
  <2> QED BY <1>1, <1>4, <2>4, <2>5 DEF TypeOK, Upsert
<1>5. CASE RefreshDoc(w)
  <2>1. payload[job[w]].price \in Prices
    BY <1>1, <1>5 DEF TypeOK, RefreshDoc, JobOfKind
  <2>2. PICK d \in docs[w] :
          /\ \/ index' = index
             \/ index' = [index EXCEPT ![d] = payload[job[w]].price]
          /\ docs' = [docs EXCEPT ![w] = @ \ {d}]
          /\ UNCHANGED <<store, fields, payload, row, attempts, job, pc, page, cursor, had, seen, past>>
    BY <1>5 DEF RefreshDoc
  <2>3. index' \in [Docs -> Prices \cup {None}] /\ docs' \in [Workers -> SUBSET Docs]
    BY <1>1, <2>1, <2>2 DEF TypeOK
  <2> QED BY <1>1, <2>2, <2>3 DEF TypeOK
<1>6. CASE Refreshed(w)
  BY <1>1, <1>6 DEF TypeOK, Refreshed, PC
<1>7. CASE ReadPage(w)
  <2> DEFINE ids == PageAfter(cursor[w])
             read == [i \in Ids |-> IF i \in ids THEN store[i] ELSE None]
  <2>1. cursor[w] \in Ids /\ job[w] \in Catalogues
    BY <1>1, <1>7 DEF TypeOK, ReadPage, JobOfKind
  <2>2. ids \subseteq Ids
    BY <1>2, PageIsPrefix, <1>1, <2>1
  <2>3. {Doc(w, i) : i \in ids} \subseteq Docs /\ read \in [Ids -> Prices \cup {None}]
    <3>1. \A i \in Ids : Doc(w, i) \in Docs
      BY <2>1, DocIds DEF Doc
    <3>2. {Doc(w, i) : i \in ids} \subseteq Docs
      BY <2>2, <3>1
    <3> QED BY <1>1, <3>2 DEF TypeOK
  <2>4. /\ docs' = [docs EXCEPT ![w] = {Doc(w, i) : i \in ids}] /\ page' = [page EXCEPT ![w] = read]
        /\ pc' = [pc EXCEPT ![w] = IF ids = {} THEN "flip" ELSE "write"]
        /\ UNCHANGED <<store, index, fields, payload, row, attempts, job, cursor, had, seen, past>>
    BY <1>7 DEF ReadPage
  <2> HIDE DEF ids, read
  <2>5. /\ docs' \in [Workers -> SUBSET Docs] /\ pc' \in [Workers -> PC]
        /\ page' \in [Workers -> [Ids -> Prices \cup {None}]]
    BY <1>1, <2>3, <2>4 DEF TypeOK, PC
  <2> QED BY <1>1, <2>4, <2>5 DEF TypeOK
<1>8. CASE UpsertDoc(w)
  <2>1. PICK i \in Unwritten(w) :
          /\ index'  = [index EXCEPT ![Doc(w, i)] = page[w][i]]
          /\ fields' = [fields EXCEPT ![Doc(w, i)] = <<job[w], i>>]
          /\ docs' = [docs EXCEPT ![w] = @ \ {Doc(w, i)}]
          /\ UNCHANGED <<store, payload, row, attempts, job, pc, page, cursor, had, seen, past>>
    BY <1>8 DEF UpsertDoc
  <2>2. i \in Ids /\ job[w] \in Catalogues
    BY <1>1, <1>8 DEF Unwritten, UpsertDoc, JobOfKind
  <2>3. page[w][i] \in Prices \cup {None} /\ <<job[w], i>> \in Pairs
    BY <1>1, <2>2 DEF TypeOK, Pairs
  <2>4. index' \in [Docs -> Prices \cup {None}] /\ docs' \in [Workers -> SUBSET Docs]
    BY <1>1, <2>1, <2>3 DEF TypeOK
  <2>5. fields' \in [Docs -> Pairs]
    BY <1>1, <2>1, <2>3 DEF TypeOK
  <2> QED BY <1>1, <2>1, <2>4, <2>5 DEF TypeOK
<1>9. CASE PageWritten(w)
  <2>1. pc' \in [Workers -> PC] /\ cursor' \in [Workers -> Ids]
    BY <1>1, <1>9 DEF TypeOK, PageWritten, PC
  <2> QED BY <1>1, <1>9, <2>1 DEF TypeOK, PageWritten
<1>10. CASE Flip(w) \/ Throws(w) \/ Stops(w)
  <2>1. Rest(w) /\ UNCHANGED <<store, index, fields, payload, seen, past>>
    BY <1>10 DEF Flip, Throws, Stops
  <2>2. row' \in [Rows -> {"pending", "done", "failed"}] /\ attempts' \in [Rows -> 0 .. MaxAttempts]
    <3>1. job[w] \in Rows /\ MaxAttempts \in Nat
      BY <1>1, <1>10, CatalogueAssumption DEF JobOfKind, Flip, Throws, Stops
    <3>2. row[job[w]] = "pending" => attempts[job[w]] + 1 \in 0 .. MaxAttempts
      BY <1>1, <3>1 DEF TypeOK, BudgetLeft
    <3>3. CASE Flip(w)
      BY <1>1, <3>1, <3>2, <3>3 DEF TypeOK, Flip
    <3>4. CASE Throws(w)
      BY <1>1, <3>1, <3>2, <3>4 DEF TypeOK, Throws
    <3>5. CASE Stops(w)
      BY <1>1, <3>5 DEF TypeOK, Stops
    <3> QED BY <1>10, <3>3, <3>4, <3>5
  <2> QED BY <1>1, <2>1, <2>2, RestTypes DEF TypeOK
<1> QED BY <1>3, <1>4, <1>5, <1>6, <1>7, <1>8, <1>9, <1>10 DEF StepOf

-----------------------------------------------------------------------------
(* What a step leaves alone.                                                *)

(* The records of the store only grow, and a doc once there stays.          *)
Grows ==
  /\ \A i \in Ids : (store[i] # None => store'[i] # None) /\ seen[i] \subseteq seen'[i]
  /\ \A d \in Docs : index[d] # None => index'[d] # None
  /\ payload' = payload

Same(v) ==
  /\ job'[v] = job[v] /\ pc'[v] = pc[v] /\ docs'[v] = docs[v] /\ page'[v] = page[v]
  /\ cursor'[v] = cursor[v] /\ had'[v] = had[v]

LEMMA OthersAreSame ==
  ASSUME TypeOK, NEW w \in Workers, StepOf(w), NEW v \in Workers, v # w
  PROVE  Same(v)
<1> USE DEF TypeOK, GoTo, Same, Rest
<1>1. ASSUME NEW r \in Rows, Start(w, r) PROVE Same(v)
  BY <1>1 DEF Start
<1>2. CASE Upsert(w)
  BY <1>2 DEF Upsert
<1>3. CASE RefreshDoc(w) \/ Refreshed(w)
  BY <1>3 DEF RefreshDoc, Refreshed
<1>4. CASE ReadPage(w) \/ UpsertDoc(w)
  BY <1>4 DEF ReadPage, UpsertDoc
<1>5. CASE PageWritten(w)
  BY <1>5 DEF PageWritten
<1>6. CASE Flip(w) \/ Throws(w) \/ Stops(w)
  BY <1>6 DEF Flip, Throws, Stops
<1> QED BY <1>1, <1>2, <1>3, <1>4, <1>5, <1>6 DEF StepOf

(* The two writers: which docs they write, and with what.                   *)
LEMMA RefreshDocWrites ==
  ASSUME CInv, NEW w \in Workers, RefreshDoc(w)
  PROVE  \E d \in docs[w] :
           /\ pc[w] = "refresh" /\ job[w] \in Updates /\ d \in Docs
           /\ payload[job[w]].price \in Prices /\ payload[job[w]].id \in Ids
           /\ index'[d] = IF index[d] # None /\ ProductOf(d) = payload[job[w]].id
                          THEN payload[job[w]].price ELSE index[d]
           /\ \A e \in Docs : e # d => index'[e] = index[e]
           /\ docs'[w] = docs[w] \ {d}
           /\ UNCHANGED <<store, fields, payload, row, attempts, job, pc, page, cursor, had, seen, past>>
<1>1. PICK d \in docs[w] :
        /\ pc[w] = "refresh"
        /\ index' = IF index[d] # None /\ ProductOf(d) = payload[job[w]].id
                    THEN [index EXCEPT ![d] = payload[job[w]].price] ELSE index
        /\ docs' = [docs EXCEPT ![w] = @ \ {d}]
        /\ UNCHANGED <<store, fields, payload, row, attempts, job, pc, page, cursor, had, seen, past>>
  BY DEF RefreshDoc
<1>2. TypeOK /\ job[w] \in Updates
  BY <1>1 DEF CInv, Local, JobOfKind
<1>3. payload[job[w]].price \in Prices /\ payload[job[w]].id \in Ids /\ d \in Docs
  BY <1>2 DEF TypeOK
<1>4. /\ index'[d] = IF index[d] # None /\ ProductOf(d) = payload[job[w]].id
                     THEN payload[job[w]].price ELSE index[d]
      /\ \A e \in Docs : e # d => index'[e] = index[e]
      /\ docs'[w] = docs[w] \ {d}
  BY <1>1, <1>2, <1>3 DEF TypeOK
<1> QED BY <1>1, <1>2, <1>3, <1>4

LEMMA UpsertDocWrites ==
  ASSUME CInv, NEW w \in Workers, UpsertDoc(w)
  PROVE  \E i \in Ids :
           /\ pc[w] = "write" /\ job[w] \in Catalogues /\ Doc(w, i) \in docs[w]
           /\ Doc(w, i) \in Docs /\ page[w][i] # None
           /\ index'[Doc(w, i)] = page[w][i] /\ fields'[Doc(w, i)] = <<job[w], i>>
           /\ \A e \in Docs : e # Doc(w, i) => index'[e] = index[e] /\ fields'[e] = fields[e]
           /\ docs'[w] = docs[w] \ {Doc(w, i)}
           /\ UNCHANGED <<store, payload, row, attempts, job, pc, page, cursor, had, seen, past>>
<1>1. PICK i \in Unwritten(w) :
        /\ pc[w] = "write"
        /\ index'  = [index EXCEPT ![Doc(w, i)] = page[w][i]]
        /\ fields' = [fields EXCEPT ![Doc(w, i)] = <<job[w], i>>]
        /\ docs' = [docs EXCEPT ![w] = @ \ {Doc(w, i)}]
        /\ UNCHANGED <<store, payload, row, attempts, job, pc, page, cursor, had, seen, past>>
  BY DEF UpsertDoc
<1>2. TypeOK /\ job[w] \in Catalogues
  BY <1>1 DEF CInv, Local, JobOfKind
<1>3. i \in Ids /\ page[w][i] # None /\ Doc(w, i) \in docs[w]
  BY DEF Unwritten
<1>4. Doc(w, i) \in Docs
  BY <1>2, <1>3, DocIds DEF Doc
<1>5. /\ index'[Doc(w, i)] = page[w][i] /\ fields'[Doc(w, i)] = <<job[w], i>>
      /\ \A e \in Docs : e # Doc(w, i) => index'[e] = index[e] /\ fields'[e] = fields[e]
      /\ docs'[w] = docs[w] \ {Doc(w, i)}
  BY <1>1, <1>2, <1>4 DEF TypeOK
<1> QED BY <1>1, <1>2, <1>3, <1>4, <1>5

LEMMA StepGrows ==
  ASSUME CInv, NEW w \in Workers, StepOf(w)
  PROVE  Grows
<1>0. TypeOK
  BY DEF CInv
<1>1. CASE UNCHANGED <<store, seen, index, payload>>
  BY <1>1 DEF Grows
<1>2. CASE Upsert(w)
  <2>1. job[w] \in Updates
    BY <1>2 DEF CInv, Local, JobOfKind, Upsert
  <2>2. payload[job[w]].price \in Prices /\ payload[job[w]].price # None
    BY <1>0, <2>1, CatalogueAssumption DEF TypeOK
  <2> QED BY <1>0, <1>2, <2>2 DEF Upsert, TypeOK, Grows
<1>3. CASE RefreshDoc(w)
  <2>1. \A p \in Prices : p # None
    BY CatalogueAssumption
  <2> QED BY <1>3, <2>1, RefreshDocWrites DEF Grows
<1>4. CASE UpsertDoc(w)
  BY <1>4, UpsertDocWrites DEF Grows
<1> QED
  BY <1>1, <1>2, <1>3, <1>4 DEF StepOf, Start, Refreshed, ReadPage, PageWritten, Flip, Throws, Stops

-----------------------------------------------------------------------------
(* The invariant, worker by worker.                                         *)

LEMMA LocalOfOthers ==
  ASSUME CInv, Grows, NEW v \in Workers, Same(v)
  PROVE  Local(v)'
<1>0. TypeOK /\ RestsClean(v) /\ JobOfKind(v) /\ RefreshesSeen(v) /\ WritesSeen(v) /\ WalkedCovered(v)
  BY DEF CInv, Local
<1>1. JobOfKind(v)' /\ RestsClean(v)'
  BY <1>0 DEF JobOfKind, RestsClean, Same
<1>2. RefreshesSeen(v)'
  <2> SUFFICES ASSUME pc'[v] = "refresh"
               PROVE  /\ payload'[job'[v]].price \in seen'[payload'[job'[v]].id]
                      /\ store'[payload'[job'[v]].id] # None
                      /\ docs'[v] \subseteq DocsOf(payload'[job'[v]].id)
    BY DEF RefreshesSeen
  <2>1. pc[v] = "refresh" /\ job[v] \in Updates
    BY <1>0 DEF Same, JobOfKind
  <2>2. payload[job[v]].id \in Ids
    BY <1>0, <2>1 DEF TypeOK
  <2> QED BY <1>0, <2>1, <2>2 DEF Same, Grows, RefreshesSeen
<1>3. WritesSeen(v)'
  BY <1>0 DEF WritesSeen, Same, Grows, Doc
<1>4. WalkedCovered(v)'
  <2>1. had[v] \subseteq Ids /\ (job[v] \in Catalogues => \A i \in Ids : Doc(v, i) \in Docs)
    BY <1>0, DocIds DEF TypeOK, Doc
  <2>0. \A i \in Ids : Doc(v, i)' = Doc(v, i)
    BY DEF Doc, Same
  <2>2. had'[v] \subseteq Products'
    BY <1>0, <2>1 DEF WalkedCovered, Products, Same, Grows
  <2>3. pc[v] \in {"page", "write"} => job[v] \in Catalogues
    BY <1>0 DEF JobOfKind
  <2>4. pc'[v] \in {"page", "write"} =>
          \A i \in had'[v] : EmptyId < i /\ i <= cursor'[v] => index'[Doc(v, i)'] # None
    BY <1>0, <2>0, <2>1, <2>3 DEF WalkedCovered, Same, Grows
  <2>5. pc'[v] = "write" =>
          /\ \A i \in Ids : page'[v][i] # None => \/ Doc(v, i)' \in docs'[v]
                                                  \/ index'[Doc(v, i)'] # None
          /\ PageIsDense(v, had[v])'
    BY <1>0, <2>0, <2>1, <2>3 DEF WalkedCovered, PageIsDense, Same, Grows
  <2>6. pc'[v] = "flip" /\ job'[v] \in Catalogues =>
          \A i \in had'[v] \ {EmptyId} : index'[Doc(v, i)'] # None
    BY <1>0, <2>0, <2>1 DEF WalkedCovered, Same, Grows
  <2> QED BY <2>2, <2>4, <2>5, <2>6 DEF WalkedCovered
<1> QED BY <1>1, <1>2, <1>3, <1>4 DEF Local

LEMMA LocalOfResting ==
  ASSUME TypeOK, NEW w \in Workers, Rest(w)
  PROVE  Local(w)'
<1>1. /\ pc'[w] = "idle" /\ had'[w] = {} /\ cursor'[w] = EmptyId
      /\ \A i \in Ids : page'[w][i] = None
  BY DEF Rest, GoTo, TypeOK
<1> QED BY <1>1 DEF Local, RestsClean, JobOfKind, RefreshesSeen, WritesSeen, WalkedCovered

LEMMA LocalOfStart ==
  ASSUME CInv, NEW w \in Workers, NEW r \in Rows, Start(w, r)
  PROVE  Local(w)'
<1>1. /\ pc'[w] = (IF r \in Updates THEN "upsert" ELSE "page") /\ job'[w] = r
      /\ had'[w] = Products /\ cursor'[w] = cursor[w] /\ page'[w] = page[w]
      /\ store' = store /\ seen' = seen /\ index' = index
  BY DEF CInv, TypeOK, Start, GoTo
<1>2. r \notin Updates => r \in Catalogues
  BY DEF Rows
<1>3. RestsClean(w)' /\ JobOfKind(w)' /\ RefreshesSeen(w)'
  BY <1>1, <1>2 DEF RestsClean, JobOfKind, RefreshesSeen
<1>4. WritesSeen(w)'
  BY <1>1 DEF CInv, Local, WritesSeen
<1>5. WalkedCovered(w)'
  <2>1. pc[w] = "idle"
    BY DEF Start
  <2>2. cursor[w] = EmptyId
    BY <2>1 DEF CInv, Local, RestsClean
  <2>3. had'[w] \subseteq Products' /\ Products \subseteq Ids
    BY <1>1 DEF Products
  <2>4. \A i \in Products : ~(EmptyId < i /\ i <= EmptyId)
    BY <2>3, CatalogueAssumption DEF EmptyId, Ids
  <2> QED BY <1>1, <2>2, <2>3, <2>4 DEF WalkedCovered
<1> QED BY <1>3, <1>4, <1>5 DEF Local

(* The steps of an update.                                                  *)
LEMMA LocalOfUpdate ==
  ASSUME CInv, NEW w \in Workers, Upsert(w) \/ RefreshDoc(w)
  PROVE  Local(w)'
<1>0. TypeOK /\ Local(w) /\ Grows
  BY StepGrows DEF CInv, StepOf
<1>1. job[w] \in Updates /\ pc[w] \in {"upsert", "refresh"}
  BY <1>0 DEF Local, JobOfKind, Upsert, RefreshDoc
<1>2. payload[job[w]].price \in Prices /\ payload[job[w]].id \in Ids
  BY <1>0, <1>1 DEF TypeOK
<1>3. /\ pc'[w] = "refresh" /\ UNCHANGED <<job, payload, page, cursor, had>>
  BY <1>0 DEF TypeOK, Upsert, RefreshDoc, GoTo
<1>4. RestsClean(w)' /\ JobOfKind(w)'
  BY <1>1, <1>3 DEF RestsClean, JobOfKind, Rows
<1>5. RefreshesSeen(w)'
  <2>1. CASE Upsert(w)
    <3>1. payload[job[w]].price # None
      BY <1>2, CatalogueAssumption
    <3>2. /\ docs'[w] = DocsOf(payload[job[w]].id)
          /\ store'[payload[job[w]].id] = payload[job[w]].price
          /\ payload[job[w]].price \in seen'[payload[job[w]].id]
      BY <1>0, <1>2, <2>1 DEF TypeOK, Upsert
    <3> QED BY <1>3, <3>1, <3>2 DEF RefreshesSeen
  <2>2. CASE RefreshDoc(w)
    BY <1>0, <2>2, RefreshDocWrites DEF Local, RefreshesSeen
  <2> QED BY <2>1, <2>2
<1>6. WritesSeen(w)'
  BY <1>0, <1>3 DEF Local, WritesSeen, Grows
<1>7. WalkedCovered(w)'
  <2>1. had'[w] \subseteq Products'
    BY <1>0, <1>3 DEF TypeOK, Local, WalkedCovered, Products, Grows
  <2> QED BY <1>3, <2>1 DEF WalkedCovered
<1> QED BY <1>4, <1>5, <1>6, <1>7 DEF Local

LEMMA LocalOfRefreshed ==
  ASSUME CInv, NEW w \in Workers, Refreshed(w)
  PROVE  Local(w)'
<1>0. TypeOK /\ Local(w)
  BY DEF CInv
<1>1. job[w] \in Updates /\ job[w] \notin Catalogues
  BY <1>0, CatalogueAssumption DEF Local, JobOfKind, Refreshed
<1>2. /\ pc'[w] = "flip" /\ UNCHANGED <<store, index, fields, payload, job, docs, page, cursor, had, seen>>
  BY <1>0 DEF TypeOK, Refreshed, GoTo
<1>3. Products' = Products
  BY <1>2 DEF Products
<1> QED
  BY <1>0, <1>1, <1>2, <1>3
     DEF Local, RestsClean, JobOfKind, Rows, RefreshesSeen, WritesSeen, WalkedCovered

(* The steps of a re-index.                                                 *)
LEMMA LocalOfReadPage ==
  ASSUME CInv, NEW w \in Workers, ReadPage(w)
  PROVE  Local(w)'
<1> DEFINE ids == PageAfter(cursor[w])
<1>0. TypeOK /\ Local(w) /\ StoreSeen
  BY DEF CInv
<1>1. job[w] \in Catalogues /\ cursor[w] \in Ids /\ had[w] \subseteq Products
  BY <1>0 DEF TypeOK, Local, JobOfKind, WalkedCovered, ReadPage
<1>2. /\ docs'[w] = {Doc(w, i) : i \in ids}
      /\ page'[w] = [i \in Ids |-> IF i \in ids THEN store[i] ELSE None]
      /\ pc'[w] = IF ids = {} THEN "flip" ELSE "write"
      /\ UNCHANGED <<store, index, fields, payload, job, cursor, had, seen>>
  BY <1>0 DEF TypeOK, ReadPage, GoTo
<1>3. /\ ids \subseteq {i \in Products : i > cursor[w]}
      /\ ids = {} => {i \in Products : i > cursor[w]} = {}
      /\ \A j \in ids, i \in Products : cursor[w] < i /\ i <= j => i \in ids
  BY <1>0, <1>1, PageIsPrefix
<1>4. Products' = Products /\ Products \subseteq Ids /\ Ids \subseteq Nat
  BY <1>2, CatalogueAssumption DEF Products, Ids
<1> HIDE DEF ids
<1>5. \A i \in Ids : page'[w][i] # None <=> i \in ids
  BY <1>2, <1>3 DEF Products
<1>6. RestsClean(w)' /\ JobOfKind(w)' /\ RefreshesSeen(w)'
  BY <1>1, <1>2 DEF RestsClean, JobOfKind, Rows, RefreshesSeen
<1>7. WritesSeen(w)'
  <2>1. \A i \in Ids : page'[w][i] # None => page'[w][i] \in seen'[i] /\ store'[i] # None
    BY <1>0, <1>2, <1>3, <1>5 DEF StoreSeen, Products
  <2>2. docs'[w] \subseteq {Doc(w, i)' : i \in {j \in Ids : page'[w][j] # None}}
    BY <1>2, <1>3, <1>4, <1>5 DEF Doc
  <2> QED BY <2>1, <2>2 DEF WritesSeen
<1>8. WalkedCovered(w)'
  <2>1. \A i \in had[w] : EmptyId < i /\ i <= cursor[w] => index[Doc(w, i)] # None
    BY <1>0 DEF Local, WalkedCovered, ReadPage
  <2>2. PageIsDense(w, had[w])'
    BY <1>1, <1>2, <1>3, <1>4, <1>5 DEF PageIsDense
  <2>3. \A i \in Ids : page'[w][i] # None => Doc(w, i)' \in docs'[w]
    BY <1>2, <1>5 DEF Doc
  <2>4. ids = {} => \A i \in had[w] \ {EmptyId} : EmptyId < i /\ i <= cursor[w]
    <3> SUFFICES ASSUME ids = {}, NEW i \in had[w], i # EmptyId
                 PROVE  EmptyId < i /\ i <= cursor[w]
      OBVIOUS
    <3>1. i \in Products /\ i \in Nat /\ cursor[w] \in Nat /\ ~(i > cursor[w])
      BY <1>1, <1>3, <1>4
    <3> QED BY <3>1 DEF EmptyId
  <2> QED BY <1>1, <1>2, <1>4, <2>1, <2>2, <2>3, <2>4 DEF WalkedCovered, Doc
<1> QED BY <1>6, <1>7, <1>8 DEF Local

LEMMA LocalOfUpsertDoc ==
  ASSUME CInv, NEW w \in Workers, UpsertDoc(w)
  PROVE  Local(w)'
<1>0. TypeOK /\ Local(w) /\ Grows
  BY StepGrows DEF CInv, StepOf
<1>1. PICK i \in Ids :
        /\ pc[w] = "write" /\ job[w] \in Catalogues /\ Doc(w, i) \in docs[w]
        /\ page[w][i] # None /\ index'[Doc(w, i)] = page[w][i]
        /\ docs'[w] = docs[w] \ {Doc(w, i)}
        /\ UNCHANGED <<store, payload, job, pc, page, cursor, had, seen>>
  BY UpsertDocWrites
<1>2. \A j \in Ids : Doc(w, j) \in Docs /\ Doc(w, j)' = Doc(w, j)
  BY <1>1, DocIds DEF Doc
<1>3. Products' = Products /\ had[w] \subseteq Ids
  BY <1>0, <1>1 DEF Products, TypeOK
<1>4. RestsClean(w)' /\ JobOfKind(w)' /\ RefreshesSeen(w)'
  BY <1>0, <1>1 DEF Local, RestsClean, JobOfKind, RefreshesSeen
<1>5. WritesSeen(w)'
  <2>1. docs'[w] \subseteq {Doc(w, j)' : j \in {k \in Ids : page'[w][k] # None}}
    BY <1>0, <1>1, <1>2 DEF Local, WritesSeen
  <2> QED BY <1>0, <1>1, <2>1 DEF Local, WritesSeen
<1>6. WalkedCovered(w)'
  <2>1. \A j \in had[w] : EmptyId < j /\ j <= cursor[w] => index'[Doc(w, j)] # None
    BY <1>0, <1>1, <1>2, <1>3 DEF Local, WalkedCovered, Grows
  <2>2. \A j \in Ids : page[w][j] # None => \/ Doc(w, j) \in docs'[w]
                                            \/ index'[Doc(w, j)] # None
    <3> SUFFICES ASSUME NEW j \in Ids, page[w][j] # None, Doc(w, j) \notin docs'[w]
                 PROVE  index'[Doc(w, j)] # None
      OBVIOUS
    <3>1. CASE j = i
      BY <1>1, <3>1
    <3>2. CASE j # i
      BY <1>0, <1>1, <1>2, <3>2 DEF Local, WalkedCovered, Grows
    <3> QED BY <3>1, <3>2
  <2>3. had'[w] \subseteq Products' /\ PageIsDense(w, had[w])'
    BY <1>0, <1>1, <1>3 DEF Local, WalkedCovered, PageIsDense
  <2> QED BY <1>1, <1>2, <1>3, <2>1, <2>2, <2>3 DEF WalkedCovered
<1> QED BY <1>4, <1>5, <1>6 DEF Local

LEMMA LocalOfPageWritten ==
  ASSUME CInv, NEW w \in Workers, PageWritten(w)
  PROVE  Local(w)'
<1>0. TypeOK /\ Local(w)
  BY DEF CInv
<1>1. PICK i \in Ids : /\ page[w][i] # None /\ \A j \in Ids : page[w][j] # None => j <= i
                       /\ cursor' = [cursor EXCEPT ![w] = i]
  BY DEF PageWritten
<1>2. /\ pc[w] = "write" /\ docs[w] = {} /\ pc'[w] = "page" /\ cursor'[w] = i
      /\ UNCHANGED <<store, index, fields, payload, job, docs, page, had, seen>>
  BY <1>0, <1>1 DEF TypeOK, PageWritten, GoTo
<1>3. job[w] \in Catalogues /\ had[w] \subseteq Ids /\ Ids \subseteq Nat
  BY <1>0, <1>2, CatalogueAssumption DEF TypeOK, Local, JobOfKind, Ids
<1>4. RestsClean(w)' /\ JobOfKind(w)' /\ RefreshesSeen(w)' /\ WritesSeen(w)'
  BY <1>0, <1>2, <1>3 DEF Local, RestsClean, JobOfKind, Rows, RefreshesSeen, WritesSeen
<1>5. \A j \in had[w] : EmptyId < j /\ j <= i => index[Doc(w, j)] # None
  <2> SUFFICES ASSUME NEW j \in had[w], EmptyId < j, j <= i PROVE index[Doc(w, j)] # None
    OBVIOUS
  <2>1. CASE j <= cursor[w]
    BY <1>0, <1>2, <2>1 DEF Local, WalkedCovered
  <2>2. CASE cursor[w] < j
    <3>1. page[w][j] # None
      BY <1>0, <1>1, <1>2, <2>2 DEF Local, WalkedCovered, PageIsDense
    <3> QED BY <1>0, <1>2, <1>3, <3>1 DEF Local, WalkedCovered
  <2>3. j \in Nat /\ cursor[w] \in Nat
    BY <1>0, <1>3 DEF TypeOK
  <2> QED BY <2>1, <2>2, <2>3
<1>6. WalkedCovered(w)'
  <2>1. Products' = Products
    BY <1>2 DEF Products
  <2> QED BY <1>0, <1>2, <1>5, <2>1 DEF Local, WalkedCovered, Doc
<1> QED BY <1>4, <1>6 DEF Local

-----------------------------------------------------------------------------
(* The invariant, store and ledger.                                         *)

LEMMA StoreStaysSeen ==
  ASSUME CInv, NEW w \in Workers, StepOf(w)
  PROVE  StoreSeen'
<1>0. TypeOK /\ StoreSeen
  BY DEF CInv
<1>1. CASE UNCHANGED <<store, seen>>
  BY <1>0, <1>1 DEF StoreSeen
<1>2. CASE Upsert(w)
  <2>1. payload[job[w]].price \in Prices /\ payload[job[w]].id \in Ids
    BY <1>0, <1>2 DEF CInv, Local, JobOfKind, Upsert, TypeOK
  <2> QED BY <1>0, <1>2, <2>1 DEF StoreSeen, Upsert, TypeOK
<1> QED
  BY <1>1, <1>2 DEF StepOf, Start, RefreshDoc, Refreshed, ReadPage, UpsertDoc, PageWritten,
     Flip, Throws, Stops

LEMMA BudgetStaysLeft ==
  ASSUME CInv, NEW w \in Workers, StepOf(w)
  PROVE  BudgetLeft'
<1>0. TypeOK /\ BudgetLeft /\ JobOfKind(w)
  BY DEF CInv, Local
<1>1. CASE UNCHANGED <<row, attempts>>
  BY <1>0, <1>1 DEF BudgetLeft
<1>2. CASE Flip(w)
  <2>1. job[w] \in Rows
    BY <1>0, <1>2 DEF Flip, JobOfKind
  <2> QED BY <1>0, <1>2, <2>1 DEF Flip, TypeOK, BudgetLeft
<1>3. CASE Throws(w)
  <2>1. job[w] \in Rows /\ MaxAttempts \in Nat
    BY <1>0, <1>3, CatalogueAssumption DEF Throws, JobOfKind
  <2>2. row \in [Rows -> {"pending", "done", "failed"}] /\ attempts \in [Rows -> 0 .. MaxAttempts]
    BY <1>0 DEF TypeOK
  <2> QED BY <1>0, <1>3, <2>1, <2>2 DEF Throws, BudgetLeft
<1> QED
  BY <1>1, <1>2, <1>3 DEF StepOf, Start, Upsert, RefreshDoc, Refreshed, ReadPage, UpsertDoc,
     PageWritten, Stops

LEMMA FieldsStaySpelt ==
  ASSUME CInv, NEW w \in Workers, StepOf(w)
  PROVE  FieldsSpellId'
<1>0. FieldsSpellId
  BY DEF CInv
<1>1. CASE UNCHANGED fields
  BY <1>0, <1>1 DEF FieldsSpellId
<1>2. CASE UpsertDoc(w)
  <2>1. PICK i \in Ids :
          /\ fields'[Doc(w, i)] = <<job[w], i>>
          /\ \A e \in Docs : e # Doc(w, i) => fields'[e] = fields[e]
    BY <1>2, UpsertDocWrites
  <2> QED BY <1>0, <2>1 DEF FieldsSpellId, Doc
<1> QED
  BY <1>1, <1>2 DEF StepOf, Start, Upsert, RefreshDoc, Refreshed, ReadPage, PageWritten, Flip,
     Throws, Stops

LEMMA IndexStaysFromStore ==
  ASSUME CInv, NEW w \in Workers, StepOf(w)
  PROVE  IndexFromStore'
<1>0. TypeOK /\ FieldsSpellId /\ IndexFromStore /\ Grows /\ Local(w)
  BY StepGrows DEF CInv
<1>1. \A d \in Docs : ProductOf(d) \in Ids
  BY <1>0, DocOfProduct
<1>2. CASE UNCHANGED <<index, fields>>
  BY <1>0, <1>1, <1>2 DEF IndexFromStore, ProductOf, Grows
<1>3. CASE RefreshDoc(w)
  <2>1. PICK d \in docs[w] :
          /\ pc[w] = "refresh" /\ d \in Docs /\ UNCHANGED <<store, fields, seen>>
          /\ index'[d] = IF index[d] # None /\ ProductOf(d) = payload[job[w]].id
                         THEN payload[job[w]].price ELSE index[d]
          /\ \A e \in Docs : e # d => index'[e] = index[e]
    BY <1>3, RefreshDocWrites
  <2>2. /\ payload[job[w]].price \in seen[payload[job[w]].id]
        /\ store[payload[job[w]].id] # None
    BY <1>0, <2>1 DEF Local, RefreshesSeen
  <2> QED BY <1>0, <2>1, <2>2 DEF IndexFromStore, ProductOf
<1>4. CASE UpsertDoc(w)
  <2>1. PICK i \in Ids :
          /\ page[w][i] # None /\ Doc(w, i) \in Docs
          /\ index'[Doc(w, i)] = page[w][i] /\ fields'[Doc(w, i)] = <<job[w], i>>
          /\ \A e \in Docs : e # Doc(w, i) => index'[e] = index[e] /\ fields'[e] = fields[e]
          /\ UNCHANGED <<store, seen>>
    BY <1>4, UpsertDocWrites
  <2>2. page[w][i] \in seen[i] /\ store[i] # None
    BY <1>0, <2>1 DEF Local, WritesSeen
  <2> QED BY <1>0, <2>1, <2>2 DEF IndexFromStore, ProductOf
<1> QED
  BY <1>2, <1>3, <1>4 DEF StepOf, Start, Upsert, Refreshed, ReadPage, PageWritten, Flip,
     Throws, Stops

LEMMA CInvInit == Init => CInv
<1> SUFFICES ASSUME Init PROVE CInv
  OBVIOUS
<1>1. EmptyId \in Ids /\ MaxAttempts \in Nat \ {0}
  BY CatalogueAssumption DEF EmptyId, Ids
<1>2. [i \in Ids |-> None] \in [Ids -> Prices \cup {None}]
  OBVIOUS
<1>3. TypeOK
  <2>1. /\ store \in [Ids -> Prices \cup {None}] /\ index \in [Docs -> Prices \cup {None}]
        /\ seen \in [Ids -> SUBSET Prices] /\ payload \in [Updates -> [id : Ids, price : Prices]]
    BY DEF Init
  <2>2. /\ row \in [Rows -> {"pending", "done", "failed"}]
        /\ attempts \in [Rows -> 0 .. MaxAttempts]
        /\ begun \subseteq Rows /\ before \in [Rows -> SUBSET Updates] /\ mixed \in BOOLEAN
    <3>1. 0 \in 0 .. MaxAttempts
      BY <1>1
    <3> QED BY <3>1 DEF Init
  <2>3. /\ job \in [Workers -> Rows \cup {NoRow}] /\ pc \in [Workers -> PC]
        /\ docs \in [Workers -> SUBSET Docs] /\ cursor \in [Workers -> Ids]
        /\ had \in [Workers -> SUBSET Ids]
        /\ page \in [Workers -> [Ids -> Prices \cup {None}]]
    BY <1>1, <1>2 DEF Init, PC
  <2>4. fields \in [Docs -> Pairs]
    <3>1. \A d \in Docs : (CHOOSE p \in Pairs : DocId[p] = d) \in Pairs
      BY DEF Docs
    <3> QED BY <3>1 DEF Init
  <2> QED BY <2>1, <2>2, <2>3, <2>4 DEF TypeOK
<1>4. StoreSeen /\ BudgetLeft /\ IndexFromStore
  BY <1>1 DEF Init, StoreSeen, BudgetLeft, IndexFromStore
<1>5. \A w \in Workers : Local(w)
  BY DEF Init, Local, RestsClean, JobOfKind, RefreshesSeen, WritesSeen, WalkedCovered
<1>6. FieldsSpellId
  <2>1. \A d \in Docs : DocId[CHOOSE p \in Pairs : DocId[p] = d] = d
    BY DEF Docs
  <2> QED BY <2>1 DEF Init, FieldsSpellId
<1> QED BY <1>3, <1>4, <1>5, <1>6 DEF CInv

LEMMA CInvNext == CInv /\ [Next]_vars => CInv'
<1> SUFFICES ASSUME CInv, [Next]_vars PROVE CInv'
  OBVIOUS
<1>1. CASE UNCHANGED vars
  <2>1. TypeOK' /\ StoreSeen' /\ BudgetLeft' /\ FieldsSpellId' /\ IndexFromStore'
    BY <1>1 DEF vars, work, past, CInv, TypeOK, StoreSeen, BudgetLeft, FieldsSpellId,
       IndexFromStore, ProductOf
  <2>2. Grows /\ \A w \in Workers : Same(w)
    BY <1>1 DEF vars, work, Grows, Same
  <2>3. \A w \in Workers : Local(w)'
    BY <2>2, LocalOfOthers
  <2> QED BY <2>1, <2>3 DEF CInv
<1>2. ASSUME NEW w \in Workers, StepOf(w) PROVE CInv'
  <2>0. TypeOK /\ Grows
    BY <1>2, StepGrows DEF CInv
  <2>1. TypeOK' /\ StoreSeen' /\ BudgetLeft' /\ FieldsSpellId' /\ IndexFromStore'
    BY <1>2, StepTypes, StoreStaysSeen, BudgetStaysLeft, FieldsStaySpelt, IndexStaysFromStore
  <2>2. \A v \in Workers : v # w => Local(v)'
    BY <1>2, <2>0, OthersAreSame, LocalOfOthers
  <2>3. Local(w)'
    <3>1. CASE Flip(w) \/ Throws(w) \/ Stops(w)
      <4>1. Rest(w)
        BY <3>1 DEF Flip, Throws, Stops
      <4> QED BY <2>0, <4>1, LocalOfResting
    <3> QED
      BY <1>2, <3>1, LocalOfStart, LocalOfUpdate, LocalOfRefreshed, LocalOfReadPage,
         LocalOfUpsertDoc, LocalOfPageWritten DEF StepOf
  <2> QED BY <2>1, <2>2, <2>3 DEF CInv
<1> QED BY <1>1, <1>2, NextIsStep

(* What every execution may rely on, whatever runs beside it.               *)
THEOREM CatalogueInvariant == Spec => []CInv
  BY CInvInit, CInvNext, PTL DEF Spec

(* Every variable has its type; no row is attempted more often than allowed.*)
THEOREM CatalogueTypes == Spec => []TypeOK
<1>1. CInv => TypeOK
  BY DEF CInv
<1> QED BY <1>1, CatalogueInvariant, PTL

(* The index only holds what the store once held, whatever overlaps, dies   *)
(* or fails.                                                                *)
THEOREM SourceBeforeProjection == Spec => []IndexFromStore
<1>1. CInv => IndexFromStore
  BY DEF CInv
<1> QED BY <1>1, CatalogueInvariant, PTL

(* The keyset walk skips no product, whatever is inserted under it: a doc   *)
(* lies under the id of each, and it is the product's own wherever no other *)
(* catalogue and product spell the same id.                                 *)
THEOREM WalksSkipNothing == Spec => []ReindexCovers
<1>1. CInv => ReindexCovers
  <2> SUFFICES ASSUME CInv, NEW w \in Workers, job[w] \in Catalogues, pc[w] = "flip",
                      NEW i \in had[w] \ {EmptyId}
               PROVE  /\ index[Doc(w, i)] # None
                      /\ Unshared(job[w], i) => fields[Doc(w, i)] = <<job[w], i>>
    BY DEF ReindexCovers
  <2>1. TypeOK /\ FieldsSpellId /\ i \in Ids
    BY DEF CInv, TypeOK
  <2>2. Doc(w, i) \in Docs
    BY <2>1, DocIds DEF Doc
  <2>3. fields[Doc(w, i)] \in Pairs /\ DocId[fields[Doc(w, i)]] = DocId[<<job[w], i>>]
    BY <2>1, <2>2, DocOfProduct DEF FieldsSpellId, Doc
  <2>4. Unshared(job[w], i) => fields[Doc(w, i)] = <<job[w], i>>
    BY <2>3 DEF Unshared
  <2>5. index[Doc(w, i)] # None
    BY DEF CInv, Local, WalkedCovered
  <2> QED BY <2>4, <2>5
<1> QED BY <1>1, CatalogueInvariant, PTL

-----------------------------------------------------------------------------
(* As long as no two executions overlapped.                                 *)

ApartLocal(w) == UpdateRepairs(w) /\ WalkedAgrees(w)

(* Who was alone stays alone, and only the worker that steps is at work.    *)
LEMMA AloneStays ==
  ASSUME CInv, NEW w \in Workers, StepOf(w), ~mixed', ~mixed => Alone
  PROVE  /\ ~mixed /\ Alone
         /\ \A v \in Workers : v # w => pc[v] = "idle" /\ pc'[v] = "idle"
         /\ Alone'
<1>0. TypeOK
  BY DEF CInv
<1>1. ~mixed
  <2>1. mixed \in BOOLEAN
    BY <1>0 DEF TypeOK
  <2>2. ASSUME NEW r \in Rows, Start(w, r) PROVE ~mixed
    BY <2>2 DEF Start
  <2> QED
    BY <2>2 DEF StepOf, past, Upsert, RefreshDoc, Refreshed, ReadPage, UpsertDoc, PageWritten,
       Flip, Throws, Stops
<1>2. \A v \in Workers : v # w => pc[v] = "idle"
  <2>1. ASSUME NEW r \in Rows, Start(w, r) PROVE \A v \in Workers : pc[v] = "idle"
    BY <2>1 DEF Start
  <2>2. CASE pc[w] # "idle"
    BY <1>1, <2>2 DEF Alone
  <2> QED
    BY <2>1, <2>2 DEF StepOf, Upsert, RefreshDoc, Refreshed, ReadPage, UpsertDoc, PageWritten,
       Flip, Throws, Stops
<1>3. \A v \in Workers : v # w => pc'[v] = "idle"
  BY <1>0, <1>2, OthersAreSame DEF Same
<1> QED BY <1>1, <1>2, <1>3 DEF Alone

LEMMA RepairStaysDue ==
  ASSUME CInv, ApartInv, NEW w \in Workers, StepOf(w), ~mixed'
  PROVE  RepairDue'
<1>0. /\ TypeOK /\ FieldsSpellId /\ Local(w) /\ ~mixed /\ RepairDue /\ ApartLocal(w)
      /\ UNCHANGED payload
  BY AloneStays, StepGrows DEF CInv, ApartInv, ApartLocal, Grows
<1>1. \A d \in Docs : ProductOf(d) \in Ids
  BY <1>0, DocOfProduct
<1>2. CASE UNCHANGED <<store, index, fields, row>>
  BY <1>0, <1>2 DEF RepairDue, Agrees, ProductOf
<1>3. CASE Upsert(w)
  <2>1. /\ job[w] \in Updates /\ row[job[w]] # "done" /\ UNCHANGED <<row, index, fields>>
        /\ store' = [store EXCEPT ![payload[job[w]].id] = payload[job[w]].price]
    BY <1>0, <1>3 DEF Local, JobOfKind, ApartLocal, UpdateRepairs, Upsert
  <2>2. \A d \in Docs : ProductOf(d) # payload[job[w]].id => store'[ProductOf(d)] = store[ProductOf(d)]
    BY <1>0, <1>1, <2>1 DEF TypeOK
  <2>3. \A d \in Docs : ProductOf(d)' = ProductOf(d)
    BY <2>1 DEF ProductOf
  <2> QED BY <1>0, <2>1, <2>2, <2>3 DEF RepairDue, Agrees
<1>4. CASE RefreshDoc(w)
  <2>1. PICK d \in docs[w] :
          /\ pc[w] = "refresh" /\ d \in Docs /\ UNCHANGED <<store, fields, row>>
          /\ index'[d] = IF index[d] # None /\ ProductOf(d) = payload[job[w]].id
                         THEN payload[job[w]].price ELSE index[d]
          /\ \A e \in Docs : e # d => index'[e] = index[e]
    BY <1>4, RefreshDocWrites
  <2>2. store[payload[job[w]].id] = payload[job[w]].price
    BY <1>0, <2>1 DEF ApartLocal, UpdateRepairs
  <2>3. \A e \in Docs : ProductOf(e)' = ProductOf(e)
    BY <2>1 DEF ProductOf
  <2> QED BY <1>0, <2>1, <2>2, <2>3 DEF RepairDue, Agrees
<1>5. CASE UpsertDoc(w)
  <2>1. PICK i \in Ids :
          /\ pc[w] = "write" /\ page[w][i] # None /\ Doc(w, i) \in Docs
          /\ index'[Doc(w, i)] = page[w][i] /\ fields'[Doc(w, i)] = <<job[w], i>>
          /\ \A e \in Docs : e # Doc(w, i) => index'[e] = index[e] /\ fields'[e] = fields[e]
          /\ UNCHANGED <<store, row>>
    BY <1>5, UpsertDocWrites
  <2>2. page[w][i] = store[i]
    BY <1>0, <2>1 DEF ApartLocal, WalkedAgrees
  <2> QED BY <1>0, <2>1, <2>2 DEF RepairDue, Agrees, ProductOf
<1>6. CASE Flip(w)
  <2>1. /\ job[w] \in Rows /\ pc[w] = "flip" /\ UNCHANGED <<store, index, fields>>
        /\ \A u \in Updates : u # job[w] => row'[u] = row[u]
    BY <1>0, <1>6 DEF Local, JobOfKind, Flip, TypeOK, Rows
  <2>2. \A d \in Docs : job[w] \in Updates /\ ProductOf(d) = payload[job[w]].id => Agrees(d)
    BY <1>0, <2>1 DEF ApartLocal, UpdateRepairs
  <2> QED BY <1>0, <2>1, <2>2 DEF RepairDue, Agrees, ProductOf
<1>7. CASE Throws(w)
  <2>1. /\ UNCHANGED <<store, index, fields>>
        /\ \A u \in Updates : row'[u] = row[u] \/ row'[u] # "done"
    <3>1. CASE row[job[w]] = "pending"
      BY <1>0, <1>7, <3>1 DEF Throws, TypeOK, Rows
    <3>2. CASE row[job[w]] # "pending"
      BY <1>7, <3>2 DEF Throws
    <3> QED BY <1>7, <3>1, <3>2 DEF Throws
  <2> QED BY <1>0, <2>1 DEF RepairDue, Agrees, ProductOf
<1> QED
  BY <1>2, <1>3, <1>4, <1>5, <1>6, <1>7 DEF StepOf, Start, Refreshed, ReadPage, PageWritten,
     Stops

LEMMA ApartOfIdle ==
  ASSUME NEW v \in Workers, pc'[v] = "idle"
  PROVE  ApartLocal(v)'
  BY DEF ApartLocal, UpdateRepairs, WalkedAgrees

LEMMA ApartOfStart ==
  ASSUME CInv, NEW w \in Workers, NEW r \in Rows, Start(w, r)
  PROVE  ApartLocal(w)'
<1>1. /\ pc'[w] = (IF r \in Updates THEN "upsert" ELSE "page") /\ job'[w] = r
      /\ cursor'[w] = EmptyId /\ row'[r] = "pending" /\ Products' \subseteq Nat
  BY CatalogueAssumption DEF CInv, Local, RestsClean, TypeOK, Start, GoTo, Products, Ids
<1>2. \A i \in Products' : ~(EmptyId < i /\ i <= EmptyId)
  BY <1>1 DEF EmptyId
<1> QED BY <1>1, <1>2 DEF ApartLocal, UpdateRepairs, WalkedAgrees

LEMMA ApartOfUpdate ==
  ASSUME CInv, NEW w \in Workers, ApartLocal(w), Upsert(w) \/ RefreshDoc(w) \/ Refreshed(w)
  PROVE  ApartLocal(w)'
<1>0. TypeOK /\ FieldsSpellId /\ Local(w)
  BY DEF CInv
<1>1. job[w] \in Updates /\ job[w] \notin Catalogues /\ pc[w] \in {"upsert", "refresh"}
  BY <1>0, CatalogueAssumption DEF Local, JobOfKind, Upsert, RefreshDoc, Refreshed
<1>2. payload[job[w]].id \in Ids
  BY <1>0, <1>1 DEF TypeOK
<1>3. /\ pc'[w] \in {"refresh", "flip"} /\ UNCHANGED <<job, payload, row, fields>>
      /\ pc'[w] = "flip" => Refreshed(w)
  BY <1>0 DEF TypeOK, Upsert, RefreshDoc, Refreshed, GoTo
<1>4. WalkedAgrees(w)'
  BY <1>1, <1>3 DEF WalkedAgrees
<1>5. row'[job'[w]] # "done"
  BY <1>1, <1>3 DEF ApartLocal, UpdateRepairs
<1>6. CASE Upsert(w)
  <2>1. /\ store'[payload[job[w]].id] = payload[job[w]].price
        /\ docs'[w] = DocsOf(payload[job[w]].id) /\ pc'[w] = "refresh"
    BY <1>0, <1>2, <1>6 DEF TypeOK, Upsert, GoTo
  <2>2. \A d \in Docs : ProductOf(d)' = payload[job[w]].id => d \in docs'[w]
    BY <1>0, <1>3, <2>1, DocOfProduct DEF ProductOf
  <2> QED BY <1>3, <1>4, <1>5, <2>1, <2>2 DEF ApartLocal, UpdateRepairs
<1>7. CASE RefreshDoc(w)
  <2>1. PICK d \in docs[w] :
          /\ d \in Docs
          /\ index'[d] = IF index[d] # None /\ ProductOf(d) = payload[job[w]].id
                         THEN payload[job[w]].price ELSE index[d]
          /\ \A e \in Docs : e # d => index'[e] = index[e]
          /\ docs'[w] = docs[w] \ {d} /\ pc[w] = "refresh"
          /\ UNCHANGED <<store, pc>>
    BY <1>7, RefreshDocWrites
  <2>2. store[payload[job[w]].id] = payload[job[w]].price
    BY <2>1 DEF ApartLocal, UpdateRepairs
  <2>3. \A e \in Docs : ProductOf(e)' = payload[job[w]].id /\ e \notin docs'[w] => Agrees(e)'
    <3> SUFFICES ASSUME NEW e \in Docs, ProductOf(e) = payload[job[w]].id, e \notin docs'[w]
                 PROVE  Agrees(e)'
      BY <1>3 DEF ProductOf
    <3>0. ProductOf(e)' = ProductOf(e)
      BY <1>3 DEF ProductOf
    <3>1. CASE e = d
      BY <2>1, <2>2, <3>0, <3>1 DEF Agrees
    <3>2. CASE e # d
      BY <2>1, <3>0, <3>2 DEF ApartLocal, UpdateRepairs, Agrees
    <3> QED BY <3>1, <3>2
  <2> QED BY <1>3, <1>4, <1>5, <2>1, <2>2, <2>3 DEF ApartLocal, UpdateRepairs
<1>8. CASE Refreshed(w)
  <2>1. /\ pc[w] = "refresh" /\ docs[w] = {} /\ UNCHANGED <<store, index>> /\ pc'[w] = "flip"
    BY <1>0, <1>8 DEF TypeOK, Refreshed, GoTo
  <2> QED BY <1>3, <1>4, <1>5, <2>1 DEF ApartLocal, UpdateRepairs, Agrees, ProductOf
<1> QED BY <1>6, <1>7, <1>8

LEMMA ApartOfReadPage ==
  ASSUME CInv, NEW w \in Workers, ApartLocal(w), ReadPage(w)
  PROVE  ApartLocal(w)'
<1> DEFINE ids == PageAfter(cursor[w])
<1>0. TypeOK /\ Local(w)
  BY DEF CInv
<1>1. job[w] \in Catalogues /\ job[w] \notin Updates /\ cursor[w] \in Ids /\ pc[w] = "page"
  BY <1>0, CatalogueAssumption DEF TypeOK, Local, JobOfKind, ReadPage
<1>2. /\ docs'[w] = {Doc(w, i) : i \in ids}
      /\ page'[w] = [i \in Ids |-> IF i \in ids THEN store[i] ELSE None]
      /\ pc'[w] = IF ids = {} THEN "flip" ELSE "write"
      /\ UNCHANGED <<store, index, fields, payload, row, job, cursor>>
  BY <1>0 DEF TypeOK, ReadPage, GoTo
<1>3. /\ ids \subseteq {i \in Products : i > cursor[w]}
      /\ ids = {} => {i \in Products : i > cursor[w]} = {}
      /\ \A j \in ids, i \in Products : cursor[w] < i /\ i <= j => i \in ids
  BY <1>0, <1>1, PageIsPrefix
<1>4. Products' = Products /\ Products \subseteq Ids /\ Ids \subseteq Nat
  BY <1>2, CatalogueAssumption DEF Products, Ids
<1> HIDE DEF ids
<1>5. \A i \in Ids : /\ page'[w][i] # None <=> i \in ids
                     /\ i \in ids => page'[w][i] = store[i]
  BY <1>2, <1>3 DEF Products
<1>6. UpdateRepairs(w)'
  BY <1>1, <1>2 DEF ApartLocal, UpdateRepairs
<1>7. \A i \in Products : EmptyId < i /\ i <= cursor[w] => UpToDate(w, i)
  BY <1>1 DEF ApartLocal, WalkedAgrees
<1>8. PageIsDense(w, Products)'
  BY <1>1, <1>2, <1>3, <1>4, <1>5 DEF PageIsDense
<1>9. \A i \in Ids : page'[w][i] # None => page'[w][i] = store'[i] /\ Doc(w, i)' \in docs'[w]
  BY <1>2, <1>5 DEF Doc
<1>10. ids = {} => \A i \in Products \ {EmptyId} : EmptyId < i /\ i <= cursor[w]
  <2> SUFFICES ASSUME ids = {}, NEW i \in Products, i # EmptyId
               PROVE  EmptyId < i /\ i <= cursor[w]
    OBVIOUS
  <2>1. i \in Nat /\ cursor[w] \in Nat /\ ~(i > cursor[w])
    BY <1>1, <1>3, <1>4
  <2> QED BY <2>1 DEF EmptyId
<1>11. WalkedAgrees(w)'
  BY <1>2, <1>4, <1>7, <1>8, <1>9, <1>10 DEF WalkedAgrees, UpToDate, Doc
<1> QED BY <1>6, <1>11 DEF ApartLocal

LEMMA ApartOfUpsertDoc ==
  ASSUME CInv, NEW w \in Workers, ApartLocal(w), UpsertDoc(w)
  PROVE  ApartLocal(w)'
<1>0. TypeOK /\ WalkedAgrees(w)
  BY DEF CInv, ApartLocal
<1>1. PICK i \in Ids :
        /\ pc[w] = "write" /\ job[w] \in Catalogues /\ Doc(w, i) \in docs[w]
        /\ page[w][i] # None
        /\ index'[Doc(w, i)] = page[w][i] /\ fields'[Doc(w, i)] = <<job[w], i>>
        /\ \A e \in Docs : e # Doc(w, i) => index'[e] = index[e] /\ fields'[e] = fields[e]
        /\ docs'[w] = docs[w] \ {Doc(w, i)}
        /\ UNCHANGED <<store, payload, row, job, pc, page, cursor>>
  BY UpsertDocWrites
<1>2. /\ Products' = Products /\ Products \subseteq Ids
      /\ \A j \in Ids : Doc(w, j) \in Docs /\ Doc(w, j)' = Doc(w, j)
      /\ \A j \in Ids : j # i => Doc(w, j) # Doc(w, i)
      /\ page[w][i] = store[i]
  BY <1>0, <1>1, DocIds DEF Products, Doc, WalkedAgrees
<1>3. \A j \in Ids : UpToDate(w, j) => UpToDate(w, j)'
  <2> TAKE j \in Ids
  <2>1. CASE j = i
    BY <1>1, <1>2, <2>1 DEF UpToDate
  <2>2. CASE j # i
    BY <1>1, <1>2, <2>2 DEF UpToDate
  <2> QED BY <2>1, <2>2
<1>4. \A j \in Ids : page[w][j] # None => Doc(w, j) \in docs'[w] \/ UpToDate(w, j)'
  <2> SUFFICES ASSUME NEW j \in Ids, page[w][j] # None, Doc(w, j) \notin docs'[w]
               PROVE  UpToDate(w, j)'
    OBVIOUS
  <2>1. CASE j = i
    BY <1>1, <1>2, <2>1 DEF UpToDate
  <2>2. CASE j # i
    <3>1. UpToDate(w, j)
      BY <1>0, <1>1, <1>2, <2>2 DEF WalkedAgrees
    <3> QED BY <1>3, <3>1
  <2> QED BY <2>1, <2>2
<1>5. PageIsDense(w, Products)'
  BY <1>0, <1>1, <1>2 DEF WalkedAgrees, PageIsDense
<1>6. WalkedAgrees(w)'
  <2>1. \A j \in Products : EmptyId < j /\ j <= cursor[w] => UpToDate(w, j)'
    BY <1>0, <1>1, <1>2, <1>3 DEF WalkedAgrees
  <2>2. \A j \in Ids : page[w][j] # None => page[w][j] = store[j]
    BY <1>0, <1>1 DEF WalkedAgrees
  <2> QED BY <1>1, <1>2, <1>4, <1>5, <2>1, <2>2 DEF WalkedAgrees
<1>7. UpdateRepairs(w)'
  BY <1>1 DEF ApartLocal, UpdateRepairs
<1> QED BY <1>6, <1>7 DEF ApartLocal

LEMMA ApartOfPageWritten ==
  ASSUME CInv, NEW w \in Workers, ApartLocal(w), PageWritten(w)
  PROVE  ApartLocal(w)'
<1>0. TypeOK /\ WalkedAgrees(w)
  BY DEF CInv, ApartLocal
<1>1. PICK i \in Ids : /\ page[w][i] # None /\ cursor' = [cursor EXCEPT ![w] = i]
  BY DEF PageWritten
<1>2. /\ pc[w] = "write" /\ docs[w] = {} /\ pc'[w] = "page" /\ cursor'[w] = i
      /\ UNCHANGED <<store, index, fields, payload, row, job, page>>
  BY <1>0, <1>1 DEF TypeOK, PageWritten, GoTo
<1>3. Products' = Products /\ Products \subseteq Ids /\ Ids \subseteq Nat
  BY <1>2, CatalogueAssumption DEF Products, Ids
<1>4. \A j \in Products : EmptyId < j /\ j <= i => UpToDate(w, j)
  <2> SUFFICES ASSUME NEW j \in Products, EmptyId < j, j <= i
               PROVE  UpToDate(w, j)
    OBVIOUS
  <2>1. CASE j <= cursor[w]
    BY <1>0, <1>2, <2>1 DEF WalkedAgrees
  <2>2. CASE cursor[w] < j
    <3>1. page[w][j] # None
      BY <1>0, <1>1, <1>2, <2>2 DEF WalkedAgrees, PageIsDense
    <3> QED BY <1>0, <1>2, <1>3, <3>1 DEF WalkedAgrees
  <2>3. j \in Nat /\ cursor[w] \in Nat
    BY <1>0, <1>3 DEF TypeOK
  <2> QED BY <2>1, <2>2, <2>3
<1>5. WalkedAgrees(w)'
  BY <1>2, <1>3, <1>4 DEF WalkedAgrees, UpToDate, Doc
<1>6. UpdateRepairs(w)'
  BY <1>2 DEF ApartLocal, UpdateRepairs
<1> QED BY <1>5, <1>6 DEF ApartLocal

LEMMA ApartInit == Init => ApartInv
  BY DEF Init, ApartInv, Alone, RepairDue, Agrees, UpdateRepairs, WalkedAgrees

LEMMA ApartNext == CInv /\ ApartInv /\ [Next]_vars => ApartInv'
<1> SUFFICES ASSUME CInv, ApartInv, [Next]_vars PROVE ApartInv'
  OBVIOUS
<1>1. CASE UNCHANGED vars
  <2>1. /\ UNCHANGED <<store, index, fields, payload, row>>
        /\ UNCHANGED <<job, pc, docs, page, cursor, mixed>>
    BY <1>1 DEF vars, work, past
  <2>2. (\A d \in Docs : Agrees(d) <=> Agrees(d)') /\ (RepairDue => RepairDue')
    BY <2>1 DEF RepairDue, Agrees, ProductOf
  <2>3. \A w \in Workers : UpdateRepairs(w) => UpdateRepairs(w)'
    BY <2>1, <2>2 DEF UpdateRepairs, ProductOf
  <2>4. \A w \in Workers : WalkedAgrees(w) => WalkedAgrees(w)'
    BY <2>1 DEF WalkedAgrees, UpToDate, Doc, PageIsDense, Products
  <2>5. Alone => Alone'
    BY <2>1 DEF Alone
  <2> QED BY <2>1, <2>2, <2>3, <2>4, <2>5 DEF ApartInv
<1>2. ASSUME NEW w \in Workers, StepOf(w) PROVE ApartInv'
  <2> SUFFICES ASSUME ~mixed'
               PROVE  Alone' /\ RepairDue' /\ \A v \in Workers : ApartLocal(v)'
    BY DEF ApartInv, ApartLocal
  <2>1. ~mixed => Alone
    BY DEF ApartInv
  <2>2. ~mixed /\ Alone' /\ \A v \in Workers : v # w => pc'[v] = "idle"
    BY <1>2, <2>1, AloneStays
  <2>3. RepairDue'
    BY <1>2, RepairStaysDue
  <2>4. ApartLocal(w)
    BY <2>2 DEF ApartInv, ApartLocal
  <2>5. ApartLocal(w)'
    <3>1. CASE Flip(w) \/ Throws(w) \/ Stops(w)
      <4>1. pc'[w] = "idle"
        BY <3>1 DEF Flip, Throws, Stops, Rest, GoTo, CInv, TypeOK
      <4> QED BY <4>1, ApartOfIdle
    <3> QED
      BY <1>2, <2>4, <3>1, ApartOfStart, ApartOfUpdate, ApartOfReadPage, ApartOfUpsertDoc,
         ApartOfPageWritten DEF StepOf
  <2> QED BY <2>2, <2>3, <2>5, ApartOfIdle
<1> QED BY <1>1, <1>2, NextIsStep

(* A re-index that nothing overlapped leaves each product its own doc in    *)
(* the catalogue, with its price, whatever updates died half-way before and *)
(* whatever other catalogue had taken the id.                               *)
THEOREM ReindexIsCatchUp == Spec => []ReindexCatchesUp
<1>1. ApartInv => ReindexCatchesUp
  BY DEF ApartInv, WalkedAgrees, ReindexCatchesUp
<1> QED BY <1>1, CInvInit, CInvNext, ApartInit, ApartNext, PTL DEF Spec

(* And what a crash left between the two writes of an update, the replay of *)
(* its row repairs.                                                         *)
THEOREM ReplayRepairs == Spec => []IndexAgreesWhenDone
<1>1. ApartInv => IndexAgreesWhenDone
  <2> SUFFICES ASSUME ApartInv, ~mixed, Quiet, NEW d \in Docs
               PROVE  index[d] \in {None, store[ProductOf(d)]}
    BY DEF IndexAgreesWhenDone, IndexAgrees
  <2>1. \A u \in Updates : row[u] = "done"
    BY DEF Quiet, Rows
  <2> QED BY <2>1 DEF ApartInv, RepairDue, Agrees
<1> QED BY <1>1, CInvInit, CInvNext, ApartInit, ApartNext, PTL DEF Spec
=============================================================================
