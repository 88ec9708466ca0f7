---------------------------- MODULE CatalogProofs ----------------------------
(* What the item endpoints and the importer, which use no transactions,     *)
(* still keep true of the tables and of their answers.                      *)
EXTENDS Catalog, ColumnsProofs, FiniteSetTheorems

-----------------------------------------------------------------------------
(* The inductive invariant.  First the processes: what a process has in     *)
(* hand, and, unless another one has come between, what it has stored.      *)

\* The bodies that pass validate, as the handlers and the importer get them.
ValidBodies == {v \in Bodies \cup UNION {Range(f) : f \in Files} : v # Malformed /\ Valid(v)}

CategoriesIn(links, i) == {c \in Category : <<c, i>> \in links}

\* A process at place, with locals l and result r.
HandlerOK(place, l, r) ==
    /\ place \in {"insert", "update", "clear", "link"} \/ r = "ok" => l.body \in ValidBodies
    /\ place \in {"update", "clear", "link"} \/ r = "ok" => l.id \in ItemId
    /\ place \in {"insert", "update", "clear"} => l.k = 1
    /\ place = "link" => l.k \in DOMAIN l.body.categories
    /\ place # "respond" => r = "none"

\* The item it works on, in the tables items and links; a is alone of it.
StoredOK(place, l, r, a, items, links) ==
    /\ place \in {"clear", "link"} => items[l.id] # NULL
    /\ a = TRUE =>
         /\ place \in {"clear", "link"} \/ r = "ok" => items[l.id] = Row(l.body)
         /\ place = "link" =>
              CategoriesIn(links, l.id) = {l.body.categories[n] : n \in 1 .. (l.k - 1)}
         /\ r = "ok" =>
              CategoriesIn(links, l.id) = {l.body.categories[n] : n \in DOMAIN l.body.categories}

ProcessesOK ==
    \A p \in Process :
      /\ HandlerOK(pc[p], loc[p], reply[p])
      /\ StoredOK(pc[p], loc[p], reply[p], alone[p], item, categoryItem)

(* Then the ids.  They stay within MaxItem because each insertion uses up a *)
(* valid post, or a well-formed row of the file: the ids given out and the  *)
(* posts still to be inserted never exceed the posts and the rows begun.    *)

Inserting == {w \in Worker : pc[w] = "insert"}

\* The rows of the importer's file that have had their insertion.
Begun(im, place) ==
    {n \in DOMAIN im.file :
       /\ im.file[n] # Malformed
       /\ \/ n < im.line
          \/ im.state = "killed"
          \/ n = im.line /\ place \in {"clear", "link", "respond"}}

IdsOK ==
    /\ \A i \in ItemId : maker[i] # NULL => i < nextItem
    /\ IsFiniteSet(Inserting)
    /\ nextItem + Cardinality(Inserting) <= 1 + posts + Cardinality(Begun(import, pc[Importer]))

(* And the importer's counts: between two rows they account for the lines   *)
(* read, and during a row for all but that one.                             *)

\* The importer at place, with result r, when it has made m items.
ImporterOK(im, place, r, m) ==
    LET counted == im.imported + im.failed IN
    /\ im.line = counted + 1
    /\ im.line <= Len(im.file) + 1
    /\ im.state = "not_started" => im.file = << >>
    /\ im.state # "running" => place = "idle"
    /\ place # "update"
    /\ place # "idle" => im.line <= Len(im.file) /\ im.file[im.line] # Malformed
    /\ im.state \in {"done", "no_rows"} => im.line > Len(im.file)
    /\ im.imported + (IF place \in {"clear", "link"} \/ r = "ok" THEN 1 ELSE 0) <= m
    /\ m <= counted + (IF place \in {"clear", "link", "respond"} \/ im.state = "killed"
                       THEN 1 ELSE 0)

ImportInv == ImporterOK(import, pc[Importer], reply[Importer], Cardinality(Made))

CatalogInv == CatalogTypeOK /\ ProcessesOK /\ IdsOK /\ ImportInv

-----------------------------------------------------------------------------
(* Values *)

LEMMA RowType == ASSUME NEW b \in Body PROVE Row(b) \in ItemRow /\ Row(b) # NULL
<1>1. b.price \in Int /\ b.stock \in Int
  BY DEF Body
<1>2. Row(b) \in ItemRow
  BY <1>1, ToInt32Type DEF Row, ItemRow
<1> QED
  BY <1>2, NullAssumption

\* A line of a file that is not malformed is a body.
LEMMA LineOfFile ==
  ASSUME NEW f \in Files, NEW n \in DOMAIN f, f[n] # Malformed
  PROVE  f[n] \in Body /\ (Valid(f[n]) => f[n] \in ValidBodies)
<1>1. f \in Seq(Body \cup {Malformed})
  BY FilesAssumption
<1>2. f[n] \in Body
  BY <1>1
<1>3. f[n] \in UNION {Range(g) : g \in Files}
  BY DEF Range
<1> QED
  BY <1>2, <1>3 DEF ValidBodies

LEMMA ValidBodyType ==
  ASSUME NEW b \in ValidBodies
  PROVE  b \in Body /\ Row(b) \in ItemRow /\ Row(b) # NULL /\ Row(b) \in ValidRows
<1>1. Row(b) \in ValidRows
  BY DEF ValidRows, ValidBodies
<1>2. b \in Body
  <2>1. CASE b \in Bodies
    BY <2>1, BodiesAssumption
  <2>2. CASE b \notin Bodies
    <3>1. PICK f \in Files : b \in Range(f)
      BY <2>2 DEF ValidBodies
    <3>2. PICK n \in DOMAIN f : f[n] = b
      BY <3>1 DEF Range
    <3>3. b # Malformed
      BY DEF ValidBodies
    <3> QED BY <3>2, <3>3, LineOfFile
  <2> QED BY <2>1, <2>2
<1> QED
  BY <1>1, <1>2, RowType

LEMMA NoLocalType == NoLocal \in Local
BY DEF NoLocal, Local, Opt

-----------------------------------------------------------------------------
(* The statements: what they leave typed, and what they leave alone.        *)

TablesTypeOK ==
    /\ item \in [ItemId -> Opt(ItemRow)]
    /\ nextItem \in 1 .. MaxItem + 1
    /\ categoryItem \subseteq Category \X {i \in ItemId : item[i] # NULL}
    /\ alone \in [Process -> BOOLEAN]
    /\ maker \in [ItemId -> Opt(Process)]

\* A step of p leaves every item there is, and the items of the processes that
\* are alone after it as they were.
Untouched(p) ==
    /\ \A i \in ItemId : item[i] # NULL => item'[i] # NULL
    /\ \A q \in Process \ {p} : alone'[q] = TRUE =>
         /\ alone[q] = TRUE
         /\ loc[q].id \in ItemId =>
              /\ item'[loc[q].id] = item[loc[q].id]
              /\ CategoriesIn(categoryItem', loc[q].id) = CategoriesIn(categoryItem, loc[q].id)

LEMMA NothingWritten ==
  ASSUME CatalogTypeOK, NEW p \in Process, UNCHANGED <<tables, alone, maker>>
  PROVE  TablesTypeOK' /\ Untouched(p)
BY DEF CatalogTypeOK, TablesTypeOK, Untouched, tables

\* Whoever is still alone after a write of item i does not work on i.
LEMMA WroteOthers ==
  ASSUME CatalogTypeOK, NEW p \in Process, NEW i \in ItemId, Wrote(p, i)
  PROVE  /\ alone' \in [Process -> BOOLEAN]
         /\ alone'[p] = alone[p]
         /\ \A q \in Process \ {p} : alone'[q] = TRUE => alone[q] = TRUE /\ loc[q].id # i
<1>1. alone \in [Process -> BOOLEAN]
  BY DEF CatalogTypeOK
<1>2. alone' = [q \in Process |-> alone[q] /\ (q # p => loc[q].id # i)]
  BY DEF Wrote
<1>3. \A q \in Process : alone'[q] = (alone[q] /\ (q # p => loc[q].id # i))
  BY <1>2
<1>4. alone[p] \in BOOLEAN
  BY <1>1
<1>5. alone'[p] = alone[p]
  BY <1>3, <1>4
<1> QED
  BY <1>2, <1>3, <1>5

LEMMA InsertWrites ==
  ASSUME CatalogTypeOK, NEW p \in Process, InsertItem(p), nextItem \in ItemId,
         loc[p].body \in ValidBodies
  PROVE  /\ TablesTypeOK' /\ Untouched(p) /\ alone'[p] = alone[p]
         /\ item'[nextItem] = Row(loc[p].body) /\ item'[nextItem] # NULL
<1>1. Row(loc[p].body) \in ItemRow /\ Row(loc[p].body) # NULL
  BY ValidBodyType
<1>2. /\ item \in [ItemId -> Opt(ItemRow)] /\ nextItem \in Nat /\ MaxItem \in Nat
      /\ categoryItem \subseteq Category \X {i \in ItemId : item[i] # NULL}
      /\ maker \in [ItemId -> Opt(Process)]
  BY ItemAssumption DEF CatalogTypeOK
<1>3. /\ item' = [item EXCEPT ![nextItem] = Row(loc[p].body)] /\ nextItem' = nextItem + 1
      /\ maker' = [maker EXCEPT ![nextItem] = p] /\ categoryItem' = categoryItem
      /\ Wrote(p, nextItem)
  BY DEF InsertItem
<1>4. /\ item' \in [ItemId -> Opt(ItemRow)] /\ item'[nextItem] = Row(loc[p].body)
      /\ \A i \in ItemId \ {nextItem} : item'[i] = item[i]
  BY <1>1, <1>2, <1>3 DEF Opt
<1>5. \A i \in ItemId : item[i] # NULL => item'[i] # NULL
  BY <1>1, <1>4
<1>6. categoryItem' \subseteq Category \X {i \in ItemId : item'[i] # NULL}
  BY <1>2, <1>3, <1>5
<1>7. nextItem' \in 1 .. MaxItem + 1 /\ maker' \in [ItemId -> Opt(Process)]
  BY <1>2, <1>3 DEF ItemId, Opt
<1>8. /\ alone' \in [Process -> BOOLEAN] /\ alone'[p] = alone[p]
      /\ \A q \in Process \ {p} : alone'[q] = TRUE => alone[q] = TRUE /\ loc[q].id # nextItem
  BY <1>3, WroteOthers
<1>9. Untouched(p)
  BY <1>3, <1>4, <1>5, <1>8 DEF Untouched
<1> QED
  BY <1>1, <1>4, <1>6, <1>7, <1>8, <1>9 DEF TablesTypeOK

\* repo.Update changes the row, or finds nothing to change.
LEMMA UpdateWrites ==
  ASSUME CatalogTypeOK, NEW p \in Process, UpdateItem(p), loc[p].id \in ItemId,
         loc[p].body \in ValidBodies
  PROVE  /\ TablesTypeOK' /\ Untouched(p) /\ alone'[p] = alone[p]
         /\ UNCHANGED <<nextItem, maker>>
         /\ RowsAffected(p) # 0 =>
              /\ item[loc[p].id] # NULL
              /\ item'[loc[p].id] = Row(loc[p].body) /\ item'[loc[p].id] # NULL
<1> DEFINE i   == loc[p].id
           row == Row(loc[p].body)
<1>1. row \in ItemRow /\ row # NULL
  BY ValidBodyType
<1>2. UNCHANGED <<nextItem, categoryItem, maker>>
  BY DEF UpdateItem
<1>3. CASE RowsAffected(p) = 0
  <2>1. UNCHANGED <<item, alone>>
    BY <1>3 DEF UpdateItem
  <2> QED BY <1>2, <1>3, <2>1, NothingWritten DEF tables
<1>4. CASE RowsAffected(p) # 0
  <2>1. item[i] # NULL
    BY <1>4 DEF RowsAffected
  <2>2. item' = [item EXCEPT ![i] = row] /\ Wrote(p, i)
    BY <1>4 DEF UpdateItem
  <2> HIDE DEF row
  <2>3. /\ item' \in [ItemId -> Opt(ItemRow)] /\ item'[i] = row
        /\ \A j \in ItemId \ {i} : item'[j] = item[j]
    BY <1>1, <2>2 DEF CatalogTypeOK, Opt
  <2>4. \A j \in ItemId : item[j] # NULL => item'[j] # NULL
    BY <1>1, <2>3
  <2>5. categoryItem' \subseteq Category \X {j \in ItemId : item'[j] # NULL}
    BY <1>2, <2>4 DEF CatalogTypeOK
  <2>6. /\ alone' \in [Process -> BOOLEAN] /\ alone'[p] = alone[p]
        /\ \A q \in Process \ {p} : alone'[q] = TRUE => alone[q] = TRUE /\ loc[q].id # i
    BY <2>2, WroteOthers
  <2>7. Untouched(p)
    BY <1>2, <2>3, <2>4, <2>6 DEF Untouched
  <2>8. TablesTypeOK'
    BY <1>2, <2>3, <2>5, <2>6 DEF TablesTypeOK, CatalogTypeOK
  <2> QED BY <1>1, <1>2, <2>1, <2>3, <2>6, <2>7, <2>8 DEF row
<1> QED
  BY <1>3, <1>4

LEMMA ClearWrites ==
  ASSUME CatalogTypeOK, NEW p \in Process, DeleteItemCategories(p), loc[p].id \in ItemId
  PROVE  /\ TablesTypeOK' /\ Untouched(p) /\ alone'[p] = alone[p]
         /\ UNCHANGED <<item, nextItem, maker>>
         /\ CategoriesIn(categoryItem', loc[p].id) = {}
<1>1. /\ categoryItem' = {ci \in categoryItem : ci[2] # loc[p].id} /\ Wrote(p, loc[p].id)
      /\ UNCHANGED <<item, nextItem, maker>>
  BY DEF DeleteItemCategories
<1>2. \A i \in ItemId \ {loc[p].id} : CategoriesIn(categoryItem', i) = CategoriesIn(categoryItem, i)
  BY <1>1 DEF CategoriesIn
<1>3. CategoriesIn(categoryItem', loc[p].id) = {}
  BY <1>1 DEF CategoriesIn
<1>4. /\ alone' \in [Process -> BOOLEAN] /\ alone'[p] = alone[p]
      /\ \A q \in Process \ {p} : alone'[q] = TRUE => alone[q] = TRUE /\ loc[q].id # loc[p].id
  BY <1>1, WroteOthers
<1>5. Untouched(p)
  BY <1>1, <1>2, <1>4 DEF Untouched
<1>6. TablesTypeOK'
  <2>1. categoryItem' \subseteq Category \X {j \in ItemId : item'[j] # NULL}
    BY <1>1 DEF CatalogTypeOK
  <2> QED BY <1>1, <1>4, <2>1 DEF TablesTypeOK, CatalogTypeOK
<1> QED
  BY <1>1, <1>3, <1>4, <1>5, <1>6

LEMMA LinkWrites ==
  ASSUME CatalogTypeOK, NEW p \in Process, CanLink(p), AddItemCategory(p), loc[p].id \in ItemId,
         item[loc[p].id] # NULL
  PROVE  /\ TablesTypeOK' /\ Untouched(p) /\ alone'[p] = alone[p]
         /\ UNCHANGED <<item, nextItem, maker>>
         /\ CategoriesIn(categoryItem', loc[p].id) =
              CategoriesIn(categoryItem, loc[p].id) \cup {loc[p].body.categories[loc[p].k]}
<1> DEFINE i == loc[p].id
           c == loc[p].body.categories[loc[p].k]
<1>1. /\ categoryItem' = categoryItem \cup {<<c, i>>} /\ Wrote(p, i)
      /\ UNCHANGED <<item, nextItem, maker>> /\ c \in Category
  BY DEF AddItemCategory, CanLink, Linked
<1> HIDE DEF c
<1>2. \A j \in ItemId \ {i} : CategoriesIn(categoryItem', j) = CategoriesIn(categoryItem, j)
  BY <1>1 DEF CategoriesIn
<1>3. CategoriesIn(categoryItem', i) = CategoriesIn(categoryItem, i) \cup {c}
  BY <1>1 DEF CategoriesIn
<1>4. /\ alone' \in [Process -> BOOLEAN] /\ alone'[p] = alone[p]
      /\ \A q \in Process \ {p} : alone'[q] = TRUE => alone[q] = TRUE /\ loc[q].id # loc[p].id
  BY <1>1, WroteOthers
<1>5. Untouched(p)
  BY <1>1, <1>2, <1>4 DEF Untouched
<1>6. TablesTypeOK'
  <2>1. categoryItem' \subseteq Category \X {j \in ItemId : item'[j] # NULL}
    BY <1>1 DEF CatalogTypeOK
  <2> QED BY <1>1, <1>4, <2>1 DEF TablesTypeOK, CatalogTypeOK
<1> QED
  BY <1>1, <1>3, <1>4, <1>5, <1>6 DEF c

-----------------------------------------------------------------------------
(* The processes: a step of one leaves the others right, if it leaves right *)
(* itself what it has in hand and what it has stored.                       *)

LEMMA ProcessStep ==
  ASSUME CatalogInv, NEW p \in Process, NEW place \in Places, NEW l \in Local, NEW r \in Reply,
         pc' = [pc EXCEPT ![p] = place], loc' = [loc EXCEPT ![p] = l],
         reply' = [reply EXCEPT ![p] = r],
         TablesTypeOK', Untouched(p), import' \in Import, posts' \in 0 .. MaxPosts,
         HandlerOK(place, l, r), StoredOK(place, l, r, alone'[p], item', categoryItem')
  PROVE  CatalogTypeOK' /\ ProcessesOK'
<1>1. CatalogTypeOK
  BY DEF CatalogInv
<1>2. /\ pc'[p] = place /\ loc'[p] = l /\ reply'[p] = r
      /\ \A q \in Process \ {p} : pc'[q] = pc[q] /\ loc'[q] = loc[q] /\ reply'[q] = reply[q]
  BY <1>1 DEF CatalogTypeOK
<1>3. CatalogTypeOK'
  BY <1>1 DEF CatalogTypeOK, TablesTypeOK
<1>4. ASSUME NEW q \in Process
      PROVE  /\ HandlerOK(pc'[q], loc'[q], reply'[q])
             /\ StoredOK(pc'[q], loc'[q], reply'[q], alone'[q], item', categoryItem')
  <2>1. CASE q = p
    BY <2>1, <1>2
  <2>2. CASE q # p
    <3>1. /\ HandlerOK(pc[q], loc[q], reply[q])
          /\ StoredOK(pc[q], loc[q], reply[q], alone[q], item, categoryItem)
      BY DEF CatalogInv, ProcessesOK
    <3>2. pc'[q] = pc[q] /\ loc'[q] = loc[q] /\ reply'[q] = reply[q]
      BY <2>2, <1>2
    <3>3. /\ \A i \in ItemId : item[i] # NULL => item'[i] # NULL
          /\ alone'[q] = TRUE =>
               /\ alone[q] = TRUE
               /\ loc[q].id \in ItemId =>
                    /\ item'[loc[q].id] = item[loc[q].id]
                    /\ CategoriesIn(categoryItem', loc[q].id) = CategoriesIn(categoryItem, loc[q].id)
      BY <2>2 DEF Untouched
    <3>4. StoredOK(pc[q], loc[q], reply[q], alone'[q], item', categoryItem')
      <4>1. pc[q] \in {"clear", "link"} \/ reply[q] = "ok" => loc[q].id \in ItemId
        BY <3>1 DEF HandlerOK
      <4> QED BY <3>1, <3>3, <4>1 DEF StoredOK
    <3> QED BY <3>1, <3>2, <3>4
  <2> QED BY <2>1, <2>2
<1> QED
  BY <1>3, <1>4 DEF ProcessesOK

\* A process that returns without success, or is done, owes nothing.
LEMMA OwesNothing ==
  ASSUME NEW place \in {"idle", "insert", "update", "respond"}, NEW l,
         NEW r \in Reply \ {"ok"}, NEW a, NEW items, NEW links
  PROVE  StoredOK(place, l, r, a, items, links)
BY DEF StoredOK

-----------------------------------------------------------------------------
(* The ids *)

LEMMA FileType ==
  ASSUME NEW im \in Import
  PROVE  im.file \in Seq(Body \cup {Malformed}) /\ Len(im.file) \in Nat
         /\ DOMAIN im.file = 1 .. Len(im.file)
<1>1. im.file \in Files \/ im.file = << >>
  BY DEF Import
<1>2. im.file \in Seq(Body \cup {Malformed})
  <2>1. CASE im.file \in Files
    BY <2>1, FilesAssumption
  <2>2. CASE im.file = << >>
    BY <2>2
  <2> QED BY <1>1, <2>1, <2>2
<1> QED
  BY <1>2

LEMMA BegunFinite ==
  ASSUME NEW im \in Import, NEW place
  PROVE  IsFiniteSet(DOMAIN im.file) /\ IsFiniteSet(Begun(im, place))
         /\ Cardinality(Begun(im, place)) \in Nat
<1>2. DOMAIN im.file = 1 .. Len(im.file) /\ Len(im.file) \in Nat
  BY FileType
<1>3. IsFiniteSet(DOMAIN im.file)
  BY <1>2, FS_Interval
<1>4. Begun(im, place) \in SUBSET DOMAIN im.file
  BY DEF Begun
<1> QED
  BY <1>3, <1>4, FS_Subset, FS_CardinalityType

\* All insertions there will be fit the ids.
LEMMA RowsFit ==
  ASSUME NEW im \in Import
  PROVE  LET rows == {n \in DOMAIN im.file : im.file[n] # Malformed} IN
         /\ IsFiniteSet(rows) /\ Cardinality(rows) \in Nat
         /\ MaxPosts + Cardinality(rows) <= MaxItem
<1> DEFINE rows == {n \in DOMAIN im.file : im.file[n] # Malformed}
<1>1. IsFiniteSet(rows) /\ Cardinality(rows) \in Nat
  <2>1. rows \in SUBSET DOMAIN im.file
    OBVIOUS
  <2> HIDE DEF rows
  <2> QED BY <2>1, BegunFinite, FS_Subset, FS_CardinalityType
<1>2. MaxPosts + Cardinality(rows) <= MaxItem
  <2>1. CASE im.file \in Files
    BY <2>1, ItemAssumption
  <2>2. CASE im.file = << >>
    <3>1. rows = {}
      BY <2>2
    <3> HIDE DEF rows
    <3>2. Cardinality(rows) = 0
      BY <3>1, FS_EmptySet
    <3> QED BY <3>2, ItemAssumption, PostsAssumption
  <2> QED BY <2>1, <2>2 DEF Import
<1> QED
  BY <1>1, <1>2

\* A process about to insert has an id left.
LEMMA ItemIdLeft ==
  ASSUME CatalogInv, NEW p \in Process, pc[p] = "insert"
  PROVE  nextItem \in ItemId
<1> DEFINE rows  == {n \in DOMAIN import.file : import.file[n] # Malformed}
           begun == Begun(import, pc[Importer])
<1>1. /\ import \in Import /\ nextItem \in Nat \ {0} /\ posts \in Nat /\ posts <= MaxPosts
      /\ MaxPosts \in Nat /\ MaxItem \in Nat
  BY ItemAssumption, PostsAssumption DEF CatalogInv, CatalogTypeOK
<1>2. /\ IsFiniteSet(rows) /\ Cardinality(rows) \in Nat
      /\ MaxPosts + Cardinality(rows) <= MaxItem
  BY <1>1, RowsFit
<1>3. begun \in SUBSET rows /\ IsFiniteSet(begun) /\ Cardinality(begun) \in Nat
  BY <1>1, BegunFinite DEF Begun
<1>4. /\ IsFiniteSet(Inserting) /\ Cardinality(Inserting) \in Nat
      /\ nextItem + Cardinality(Inserting) <= 1 + posts + Cardinality(begun)
  BY FS_CardinalityType DEF CatalogInv, IdsOK
<1> HIDE DEF rows
<1>5. CASE p \in Worker
  <2>1. p \in Inserting
    BY <1>5 DEF Inserting
  <2>2. Cardinality(Inserting) # 0
    BY <1>4, <2>1, FS_EmptySet
  <2>3. Cardinality(begun) <= Cardinality(rows)
    BY <1>2, <1>3, FS_Subset
  <2> HIDE DEF begun
  <2> QED BY <1>1, <1>2, <1>3, <1>4, <2>2, <2>3 DEF ItemId
<1>6. CASE p = Importer
  <2> DEFINE n == import.line
  <2>1. /\ import.line <= Len(import.file) /\ import.file[n] # Malformed
        /\ import.state = "running" /\ n \in Nat \ {0}
    BY <1>1, <1>6 DEF CatalogInv, ImportInv, ImporterOK, Import
  <2>2. n \in DOMAIN import.file
    <3>1. DOMAIN import.file = 1 .. Len(import.file) /\ Len(import.file) \in Nat
      BY <1>1, FileType
    <3> QED BY <2>1, <3>1
  <2>3. n \in rows /\ n \notin begun
    BY <1>6, <2>1, <2>2 DEF Begun, rows
  <2>4. (begun \cup {n}) \in SUBSET rows /\ Cardinality(begun \cup {n}) = Cardinality(begun) + 1
    BY <1>3, <2>3, FS_AddElement
  <2>5. Cardinality(begun) + 1 <= Cardinality(rows)
    BY <1>2, <2>4, FS_Subset
  <2> HIDE DEF begun, n
  <2> QED BY <1>1, <1>2, <1>3, <1>4, <2>5 DEF ItemId
<1> QED
  BY <1>5, <1>6 DEF Process

\* A step that inserts nothing, and sends nobody to insert but the importer.
LEMMA IdsMove ==
  ASSUME CatalogInv, CatalogTypeOK', UNCHANGED <<nextItem, maker, posts>>,
         \A w \in Worker : pc'[w] = "insert" => pc[w] = "insert",
         Begun(import, pc[Importer]) \subseteq Begun(import', pc'[Importer])
  PROVE  IdsOK'
<1> DEFINE b0 == Begun(import, pc[Importer])
           b1 == Begun(import', pc'[Importer])
<1>1. /\ nextItem \in Nat /\ posts \in Nat /\ import \in Import /\ import' \in Import
      /\ MaxItem \in Nat /\ MaxPosts \in Nat
  BY ItemAssumption, PostsAssumption DEF CatalogInv, CatalogTypeOK
<1>2. /\ Cardinality(b0) \in Nat /\ Cardinality(b1) \in Nat /\ Cardinality(b0) <= Cardinality(b1)
  BY <1>1, BegunFinite, FS_Subset
<1>3. Inserting' \in SUBSET Inserting
  BY DEF Inserting
<1>4. /\ IsFiniteSet(Inserting) /\ Cardinality(Inserting) \in Nat
      /\ nextItem + Cardinality(Inserting) <= 1 + posts + Cardinality(b0)
      /\ \A i \in ItemId : maker[i] # NULL => i < nextItem
  BY FS_CardinalityType DEF CatalogInv, IdsOK
<1>5. /\ IsFiniteSet(Inserting') /\ Cardinality(Inserting') \in Nat
      /\ Cardinality(Inserting') <= Cardinality(Inserting)
  BY <1>3, <1>4, FS_Subset, FS_CardinalityType
<1> HIDE DEF b0
<1>6. nextItem' + Cardinality(Inserting') <= 1 + posts' + Cardinality(b1)
  <2> HIDE DEF b1
  <2> QED BY <1>1, <1>2, <1>4, <1>5
<1> QED
  BY <1>4, <1>5, <1>6 DEF IdsOK

\* An insertion by a worker takes it out of those still to insert; one by the
\* importer begins its row.
LEMMA InsertIds ==
  ASSUME CatalogInv, CatalogTypeOK', NEW p \in Process, pc[p] = "insert",
         NEW place \in {"clear", "respond"}, pc' = [pc EXCEPT ![p] = place],
         nextItem' = nextItem + 1, maker' = [maker EXCEPT ![nextItem] = p],
         UNCHANGED <<import, posts>>
  PROVE  IdsOK'
<1> DEFINE b0 == Begun(import, pc[Importer])
           b1 == Begun(import', pc'[Importer])
<1>1. /\ nextItem \in Nat \ {0} /\ posts \in Nat /\ import \in Import /\ MaxItem \in Nat
      /\ pc \in [Process -> Places] /\ maker \in [ItemId -> Opt(Process)]
  BY PostsAssumption, ItemAssumption DEF CatalogInv, CatalogTypeOK
<1>2. /\ IsFiniteSet(Inserting) /\ Cardinality(Inserting) \in Nat
      /\ nextItem + Cardinality(Inserting) <= 1 + posts + Cardinality(b0)
      /\ \A i \in ItemId : maker[i] # NULL => i < nextItem
  BY FS_CardinalityType DEF CatalogInv, IdsOK
<1>3. \A i \in ItemId : maker'[i] # NULL => i < nextItem'
  BY <1>1, <1>2 DEF ItemId
<1>4. pc'[p] = place /\ \A q \in Process \ {p} : pc'[q] = pc[q]
  BY <1>1
<1>5. IsFiniteSet(b0) /\ Cardinality(b0) \in Nat
  BY <1>1, BegunFinite
<1>6. CASE p \in Worker
  <2>1. Inserting' = Inserting \ {p} /\ p \in Inserting
    BY <1>4, <1>6 DEF Inserting, Process
  <2>2. IsFiniteSet(Inserting') /\ Cardinality(Inserting') = Cardinality(Inserting) - 1
    BY <1>2, <2>1, FS_RemoveElement
  <2>3. pc'[Importer] = pc[Importer]
    BY <1>4, <1>6, ImporterAssumption DEF Process
  <2>4. b1 = b0
    BY <2>3
  <2> HIDE DEF b0, b1
  <2>5. nextItem' + Cardinality(Inserting') <= 1 + posts' + Cardinality(b1)
    BY <1>1, <1>2, <1>5, <2>2, <2>4
  <2> QED BY <1>3, <2>2, <2>5 DEF IdsOK, b1
<1>7. CASE p = Importer
  <2> DEFINE n == import.line
  <2>1. Inserting' = Inserting
    BY <1>4, <1>7, ImporterAssumption DEF Inserting, Process
  <2>2. /\ n <= Len(import.file) /\ import.file[n] # Malformed
        /\ import.state = "running" /\ n \in Nat \ {0}
    BY <1>1, <1>7 DEF CatalogInv, ImportInv, ImporterOK, Import
  <2>3. n \in DOMAIN import.file
    <3>1. DOMAIN import.file = 1 .. Len(import.file) /\ Len(import.file) \in Nat
      BY <1>1, FileType
    <3> QED BY <2>2, <3>1
  <2>4. n \notin b0
    BY <1>7, <2>2 DEF Begun
  <2>5. b1 = b0 \cup {n}
    BY <1>4, <1>7, <2>2, <2>3 DEF Begun
  <2> HIDE DEF b0, b1, n
  <2>6. Cardinality(b1) = Cardinality(b0) + 1
    BY <1>5, <2>4, <2>5, FS_AddElement
  <2>7. nextItem' + Cardinality(Inserting') <= 1 + posts' + Cardinality(b1)
    BY <1>1, <1>2, <1>5, <2>1, <2>6
  <2> QED BY <1>2, <1>3, <2>1, <2>7 DEF IdsOK, b1
<1> QED
  BY <1>6, <1>7 DEF Process

-----------------------------------------------------------------------------
(* The importer *)

LEMMA MadeFinite ==
  ASSUME CatalogTypeOK
  PROVE  IsFiniteSet(Made) /\ Cardinality(Made) \in Nat
<1>1. MaxItem \in Int /\ Made \in SUBSET (1 .. MaxItem)
  BY ItemAssumption DEF Made, ItemId
<1>2. IsFiniteSet(1 .. MaxItem)
  BY <1>1, FS_Interval
<1> HIDE DEF Made
<1> QED
  BY <1>1, <1>2, FS_Subset, FS_CardinalityType

\* What an insertion adds to the importer's items.
LEMMA InsertMade ==
  ASSUME CatalogInv, NEW p \in Process, nextItem \in ItemId,
         maker' = [maker EXCEPT ![nextItem] = p]
  PROVE  /\ p = Importer => Cardinality(Made)' = Cardinality(Made) + 1
         /\ p # Importer => Cardinality(Made)' = Cardinality(Made)
<1>1. /\ maker \in [ItemId -> Opt(Process)] /\ NULL \notin Process /\ nextItem \in Nat
      /\ MaxItem \in Nat
  BY NullAssumption, ItemAssumption DEF CatalogInv, CatalogTypeOK
<1>2. maker[nextItem] = NULL
  BY <1>1 DEF CatalogInv, IdsOK
<1>3. nextItem \notin Made
  BY <1>1, <1>2 DEF Made, Process
<1>4. CASE p = Importer
  <2>1. Made' = Made \cup {nextItem}
    BY <1>1, <1>4 DEF Made
  <2> QED BY <1>3, <1>4, <2>1, MadeFinite, FS_AddElement DEF CatalogInv
<1>5. CASE p # Importer
  <2>1. Made' = Made
    BY <1>1, <1>3, <1>5 DEF Made
  <2> QED BY <1>5, <2>1
<1> QED
  BY <1>4, <1>5

\* A step of a process that neither inserts nor touches the importer's run.
LEMMA ImportMove ==
  ASSUME CatalogInv, NEW p \in Process, NEW place, NEW r,
         pc' = [pc EXCEPT ![p] = place], reply' = [reply EXCEPT ![p] = r],
         UNCHANGED <<import, maker>>,
         p = Importer => ImporterOK(import, place, r, Cardinality(Made))
  PROVE  ImportInv'
<1>1. pc \in [Process -> Places] /\ reply \in [Process -> Reply] /\ Importer \in Process
  BY DEF CatalogInv, CatalogTypeOK, Process
<1>2. Made' = Made
  BY DEF Made
<1>3. CASE p = Importer
  BY <1>1, <1>2, <1>3 DEF ImportInv
<1>4. CASE p # Importer
  <2>1. pc'[Importer] = pc[Importer] /\ reply'[Importer] = reply[Importer]
    BY <1>1, <1>4
  <2> QED BY <1>2, <2>1 DEF ImportInv, CatalogInv
<1> QED
  BY <1>3, <1>4

LEMMA InsertImport ==
  ASSUME CatalogInv, NEW p \in Process, pc[p] = "insert", nextItem \in ItemId,
         maker' = [maker EXCEPT ![nextItem] = p],
         NEW place \in {"clear", "respond"}, NEW r \in {"none", "internal"},
         pc' = [pc EXCEPT ![p] = place], reply' = [reply EXCEPT ![p] = r],
         UNCHANGED import
  PROVE  ImportInv'
<1> DEFINE m == Cardinality(Made)
<1>1. /\ pc \in [Process -> Places] /\ reply \in [Process -> Reply] /\ Importer \in Process
      /\ import \in Import /\ m \in Nat
  BY MadeFinite DEF CatalogInv, CatalogTypeOK, Process
<1>2. ImporterOK(import, pc[Importer], reply[Importer], m)
  BY DEF CatalogInv, ImportInv
<1>3. (p = Importer => m' = m + 1) /\ (p # Importer => m' = m)
  BY InsertMade
<1> HIDE DEF m
<1>4. CASE p = Importer
  <2>1. pc'[Importer] = place /\ reply'[Importer] = r
    BY <1>1, <1>4
  <2>2. import.imported \in Nat /\ import.failed \in Nat /\ import.line \in Nat
    BY <1>1 DEF Import
  <2>3. ImporterOK(import, place, r, m + 1)
    BY <1>1, <1>2, <1>4, <2>2 DEF ImporterOK
  <2> QED BY <1>3, <1>4, <2>1, <2>3 DEF ImportInv, m
<1>5. CASE p # Importer
  <2>1. pc'[Importer] = pc[Importer] /\ reply'[Importer] = reply[Importer]
    BY <1>1, <1>5
  <2> QED BY <1>2, <1>3, <1>5, <2>1 DEF ImportInv, m
<1> QED
  BY <1>4, <1>5

-----------------------------------------------------------------------------
(* One lemma for each action *)

LEMMA ProcessFacts ==
  ASSUME CatalogInv, NEW p \in Process
  PROVE  /\ pc[p] \in Places /\ loc[p] \in Local /\ reply[p] \in Reply
         /\ pc = [pc EXCEPT ![p] = pc[p]] /\ loc = [loc EXCEPT ![p] = loc[p]]
         /\ reply = [reply EXCEPT ![p] = reply[p]]
         /\ import \in Import /\ posts \in 0 .. MaxPosts
         /\ HandlerOK(pc[p], loc[p], reply[p])
         /\ StoredOK(pc[p], loc[p], reply[p], alone[p], item, categoryItem)
<1>1. /\ pc \in [Process -> Places] /\ loc \in [Process -> Local] /\ reply \in [Process -> Reply]
      /\ import \in Import /\ posts \in 0 .. MaxPosts
  BY DEF CatalogInv, CatalogTypeOK
<1>2. /\ pc = [pc EXCEPT ![p] = pc[p]] /\ loc = [loc EXCEPT ![p] = loc[p]]
      /\ reply = [reply EXCEPT ![p] = reply[p]]
  BY <1>1
<1> QED
  BY <1>1, <1>2 DEF CatalogInv, ProcessesOK

\* The ids and the counts after a statement that inserts nothing.
LEMMA StatementKeeps ==
  ASSUME CatalogInv, CatalogTypeOK', NEW p \in Process,
         pc[p] \in {"insert", "update", "clear", "link"},
         NEW place \in {"clear", "link", "respond"}, NEW r \in Reply,
         pc' = [pc EXCEPT ![p] = place], reply' = [reply EXCEPT ![p] = r],
         UNCHANGED <<nextItem, maker, import, posts>>,
         place = "clear" => pc[p] = "update",
         place = "link" \/ r = "ok" => pc[p] # "insert"
  PROVE  IdsOK' /\ ImportInv'
<1>1. pc \in [Process -> Places] /\ import \in Import
  BY DEF CatalogInv, CatalogTypeOK
<1>2. \A q \in Process : pc'[q] = IF q = p THEN place ELSE pc[q]
  BY <1>1
<1>3. IdsOK'
  <2>1. \A w \in Worker : pc'[w] = "insert" => pc[w] = "insert"
    BY <1>2 DEF Process
  <2>2. Begun(import, pc[Importer]) \subseteq Begun(import', pc'[Importer])
    BY <1>2 DEF Begun, Process
  <2> QED BY <2>1, <2>2, IdsMove
<1>4. p = Importer => ImporterOK(import, place, r, Cardinality(Made))
  <2> SUFFICES ASSUME p = Importer PROVE ImporterOK(import, place, r, Cardinality(Made))
    OBVIOUS
  <2> DEFINE m == Cardinality(Made)
  <2>1. ImporterOK(import, pc[p], reply[p], m) /\ m \in Nat
    BY MadeFinite DEF CatalogInv, ImportInv
  <2>2. import.imported \in Nat /\ import.failed \in Nat /\ import.line \in Nat
    BY <1>1 DEF Import
  <2> HIDE DEF m
  <2>3. ImporterOK(import, place, r, m)
    BY <2>1, <2>2 DEF ImporterOK
  <2> QED BY <2>3 DEF m
<1> QED
  BY <1>3, <1>4, ImportMove

LEMMA CreateItemInv == ASSUME CatalogInv, NEW p \in Process, CreateItem(p) PROVE CatalogInv'
<1> DEFINE l == [loc[p] EXCEPT !.id = nextItem]
<1>1. /\ pc[p] = "insert" /\ InsertItem(p) /\ loc' = [loc EXCEPT ![p] = l]
      /\ pc' = [pc EXCEPT ![p] = "clear"] /\ UNCHANGED <<reply, import, posts>>
  BY DEF CreateItem, Set, Goto
<1>2. nextItem \in ItemId
  BY <1>1, ItemIdLeft
<1>3. loc[p].body \in ValidBodies /\ loc[p].k = 1 /\ reply[p] = "none"
  BY <1>1, ProcessFacts DEF HandlerOK
<1>4. /\ TablesTypeOK' /\ Untouched(p)
      /\ item'[nextItem] = Row(loc[p].body) /\ item'[nextItem] # NULL
  BY <1>1, <1>2, <1>3, InsertWrites DEF CatalogInv
<1>5. /\ l \in Local /\ l.body = loc[p].body /\ l.id = nextItem /\ l.k = loc[p].k
  BY <1>2, ProcessFacts DEF Local
<1>6. reply' = [reply EXCEPT ![p] = "none"]
  BY <1>1, <1>3, ProcessFacts
<1> HIDE DEF l
<1>7. /\ HandlerOK("clear", l, "none")
      /\ StoredOK("clear", l, "none", alone'[p], item', categoryItem')
  BY <1>2, <1>3, <1>4, <1>5 DEF HandlerOK, StoredOK
<1>8. "clear" \in Places /\ "none" \in Reply /\ import' \in Import /\ posts' \in 0 .. MaxPosts
  BY <1>1, ProcessFacts DEF Places, Reply
<1>9. CatalogTypeOK' /\ ProcessesOK'
  BY <1>1, <1>4, <1>5, <1>6, <1>7, <1>8, ProcessStep
<1>10. nextItem' = nextItem + 1 /\ maker' = [maker EXCEPT ![nextItem] = p]
  BY <1>1 DEF InsertItem
<1>11. IdsOK'
  BY <1>1, <1>2, <1>9, <1>10, InsertIds
<1>12. ImportInv'
  <2>1. "clear" \in {"clear", "respond"} /\ "none" \in {"none", "internal"}
    OBVIOUS
  <2> QED BY <1>1, <1>2, <1>6, <1>10, <2>1, InsertImport
<1> QED
  BY <1>9, <1>11, <1>12 DEF CatalogInv

LEMMA ReplaceItemInv == ASSUME CatalogInv, NEW p \in Process, ReplaceItem(p) PROVE CatalogInv'
<1>1. /\ pc[p] = "update" /\ UpdateItem(p) /\ UNCHANGED <<loc, import, posts>>
      /\ IF RowsAffected(p) = 0
         THEN /\ reply' = [reply EXCEPT ![p] = "not_found"]
              /\ pc' = [pc EXCEPT ![p] = "respond"]
         ELSE pc' = [pc EXCEPT ![p] = "clear"] /\ UNCHANGED reply
  BY DEF ReplaceItem, Goto, Return
<1>2. /\ loc[p].body \in ValidBodies /\ loc[p].id \in ItemId /\ loc[p].k = 1
      /\ reply[p] = "none"
  BY <1>1, ProcessFacts DEF HandlerOK
<1>3. /\ TablesTypeOK' /\ Untouched(p) /\ UNCHANGED <<nextItem, maker>>
      /\ RowsAffected(p) # 0 =>
           item'[loc[p].id] = Row(loc[p].body) /\ item'[loc[p].id] # NULL
  BY <1>1, <1>2, UpdateWrites DEF CatalogInv
<1>4. PICK place \in {"clear", "respond"}, r \in {"none", "not_found"} :
        /\ pc' = [pc EXCEPT ![p] = place] /\ reply' = [reply EXCEPT ![p] = r]
        /\ place = "clear" => r = "none" /\ RowsAffected(p) # 0
        /\ place = "respond" => r = "not_found"
  BY <1>1, <1>2, ProcessFacts
<1>5. /\ place \in Places /\ r \in Reply /\ loc[p] \in Local /\ loc' = [loc EXCEPT ![p] = loc[p]]
      /\ import' \in Import /\ posts' \in 0 .. MaxPosts
  BY <1>1, ProcessFacts DEF Places, Reply
<1>6. /\ HandlerOK(place, loc[p], r)
      /\ StoredOK(place, loc[p], r, alone'[p], item', categoryItem')
  BY <1>2, <1>3, <1>4 DEF HandlerOK, StoredOK
<1>7. CatalogTypeOK' /\ ProcessesOK'
  BY <1>3, <1>4, <1>5, <1>6, ProcessStep
<1>8. IdsOK' /\ ImportInv'
  BY <1>1, <1>3, <1>4, <1>5, <1>7, StatementKeeps
<1> QED
  BY <1>7, <1>8 DEF CatalogInv

LEMMA ClearCategoriesInv ==
  ASSUME CatalogInv, NEW p \in Process, ClearCategories(p) PROVE CatalogInv'
<1> DEFINE cs == loc[p].body.categories
<1>1. /\ pc[p] = "clear" /\ DeleteItemCategories(p) /\ UNCHANGED <<loc, import, posts>>
      /\ IF cs = << >>
         THEN /\ reply' = [reply EXCEPT ![p] = "ok"]
              /\ pc' = [pc EXCEPT ![p] = "respond"]
         ELSE pc' = [pc EXCEPT ![p] = "link"] /\ UNCHANGED reply
  BY DEF ClearCategories, Goto, Return
<1>2. loc[p].body \in ValidBodies /\ loc[p].id \in ItemId /\ reply[p] = "none"
  BY <1>1, ProcessFacts DEF HandlerOK
<1>3. /\ TablesTypeOK' /\ Untouched(p) /\ alone'[p] = alone[p]
      /\ UNCHANGED <<item, nextItem, maker>> /\ CategoriesIn(categoryItem', loc[p].id) = {}
  BY <1>1, <1>2, ClearWrites DEF CatalogInv
<1>4. PICK place \in {"link", "respond"}, r \in {"none", "ok"} :
        /\ pc' = [pc EXCEPT ![p] = place] /\ reply' = [reply EXCEPT ![p] = r]
        /\ place = "link" => r = "none" /\ cs # << >>
        /\ place = "respond" => r = "ok" /\ cs = << >>
  BY <1>1, <1>2, ProcessFacts
<1>5. /\ place \in Places /\ r \in Reply /\ loc[p] \in Local /\ loc' = [loc EXCEPT ![p] = loc[p]]
      /\ import' \in Import /\ posts' \in 0 .. MaxPosts
  BY <1>1, ProcessFacts DEF Places, Reply
<1>6. /\ item[loc[p].id] # NULL
      /\ alone[p] = TRUE => item[loc[p].id] = Row(loc[p].body)
  BY <1>1, ProcessFacts DEF StoredOK
<1>7. cs \in Seq(CategoryRef)
  BY <1>2, ValidBodyType DEF Body
<1>8. HandlerOK(place, loc[p], r)
  <2>1. loc[p].k = 1
    BY <1>1, ProcessFacts DEF HandlerOK
  <2>2. place = "link" => loc[p].k \in DOMAIN cs
    BY <1>4, <1>7, <2>1
  <2> QED BY <1>2, <1>4, <2>2 DEF HandlerOK
<1>9. StoredOK(place, loc[p], r, alone'[p], item', categoryItem')
  <2>1. place = "link" => {cs[n] : n \in 1 .. (loc[p].k - 1)} = {}
    BY <1>1, ProcessFacts DEF HandlerOK
  <2>2. r = "ok" => {cs[n] : n \in DOMAIN cs} = {}
    BY <1>4
  <2> QED BY <1>3, <1>4, <1>6, <2>1, <2>2 DEF StoredOK
<1>10. CatalogTypeOK' /\ ProcessesOK'
  BY <1>3, <1>4, <1>5, <1>8, <1>9, ProcessStep
<1>11. IdsOK' /\ ImportInv'
  BY <1>1, <1>3, <1>4, <1>5, <1>10, StatementKeeps
<1> QED
  BY <1>10, <1>11 DEF CatalogInv

\* A failure after a statement that left the tables typed and the others alone.
LEMMA FailureKeeps ==
  ASSUME CatalogInv, NEW p \in Process, pc[p] \in {"insert", "update", "clear", "link"},
         Return(p, "internal"), UNCHANGED <<loc, import, posts>>, TablesTypeOK', Untouched(p)
  PROVE  /\ CatalogTypeOK' /\ ProcessesOK'
         /\ UNCHANGED <<nextItem, maker>> => CatalogInv'
<1>1. /\ pc' = [pc EXCEPT ![p] = "respond"] /\ reply' = [reply EXCEPT ![p] = "internal"]
      /\ loc' = [loc EXCEPT ![p] = loc[p]]
  BY ProcessFacts DEF Return, Goto
<1>2. /\ "respond" \in Places /\ "internal" \in Reply /\ loc[p] \in Local
      /\ import' \in Import /\ posts' \in 0 .. MaxPosts
  BY ProcessFacts DEF Places, Reply
<1>3. HandlerOK("respond", loc[p], "internal")
  BY DEF HandlerOK
<1>4. StoredOK("respond", loc[p], "internal", alone'[p], item', categoryItem')
  BY DEF StoredOK
<1>5. CatalogTypeOK' /\ ProcessesOK'
  BY <1>1, <1>2, <1>3, <1>4, ProcessStep
<1>6. UNCHANGED <<nextItem, maker>> => IdsOK' /\ ImportInv'
  <2>1. "respond" \in {"clear", "link", "respond"}
    OBVIOUS
  <2> QED BY <1>1, <1>2, <1>5, <2>1, StatementKeeps
<1> QED
  BY <1>5, <1>6 DEF CatalogInv

LEMMA LinkCategoryInv == ASSUME CatalogInv, NEW p \in Process, LinkCategory(p) PROVE CatalogInv'
<1> DEFINE cs == loc[p].body.categories
           k  == loc[p].k
           l  == [loc[p] EXCEPT !.k = @ + 1]
<1>1. pc[p] = "link" /\ UNCHANGED <<import, posts>>
  BY DEF LinkCategory
<1>2. /\ loc[p].body \in ValidBodies /\ loc[p].id \in ItemId /\ k \in DOMAIN cs
      /\ reply[p] = "none"
  BY <1>1, ProcessFacts DEF HandlerOK
<1>3. cs \in Seq(CategoryRef)
  BY <1>2, ValidBodyType DEF Body
<1>4. k \in 1 .. Len(cs) /\ Len(cs) \in Nat /\ DOMAIN cs = 1 .. Len(cs)
  BY <1>2, <1>3
<1>5. CASE CanLink(p) /\ AddItemCategory(p)
  <2>1. /\ item[loc[p].id] # NULL
        /\ alone[p] = TRUE =>
             /\ item[loc[p].id] = Row(loc[p].body)
             /\ CategoriesIn(categoryItem, loc[p].id) = {cs[n] : n \in 1 .. (k - 1)}
    BY <1>1, ProcessFacts DEF StoredOK
  <2>2. /\ TablesTypeOK' /\ Untouched(p) /\ alone'[p] = alone[p]
        /\ UNCHANGED <<item, nextItem, maker>>
        /\ CategoriesIn(categoryItem', loc[p].id) = CategoriesIn(categoryItem, loc[p].id) \cup {cs[k]}
    BY <1>2, <1>5, <2>1, LinkWrites DEF CatalogInv
  <2>3. /\ loc' = [loc EXCEPT ![p] = l]
        /\ IF k = Len(cs)
           THEN /\ reply' = [reply EXCEPT ![p] = "ok"]
                /\ pc' = [pc EXCEPT ![p] = "respond"]
           ELSE UNCHANGED <<pc, reply>>
    BY <1>5 DEF LinkCategory, Set, Return, Goto
  <2>4. PICK place \in {"link", "respond"}, r \in {"none", "ok"} :
          /\ pc' = [pc EXCEPT ![p] = place] /\ reply' = [reply EXCEPT ![p] = r]
          /\ place = "link" => r = "none" /\ k # Len(cs)
          /\ place = "respond" => r = "ok" /\ k = Len(cs)
    BY <1>1, <1>2, <2>3, ProcessFacts
  <2>5. /\ place \in Places /\ r \in Reply /\ import' \in Import /\ posts' \in 0 .. MaxPosts
    BY <1>1, ProcessFacts DEF Places, Reply
  <2>6. /\ l \in Local /\ l.body = loc[p].body /\ l.id = loc[p].id /\ l.k = k + 1
    BY ProcessFacts DEF Local
  <2>7. HandlerOK(place, l, r)
    <3>1. place = "link" => l.k \in DOMAIN cs
      BY <1>4, <2>4, <2>6
    <3> HIDE DEF l
    <3> QED BY <1>2, <2>4, <2>6, <3>1 DEF HandlerOK
  <2>8. {cs[n] : n \in 1 .. (k - 1)} \cup {cs[k]} = {cs[n] : n \in 1 .. k}
    <3>1. 1 .. k = (1 .. (k - 1)) \cup {k}
      BY <1>4
    <3> HIDE DEF k, cs
    <3> QED BY <3>1
  <2>9. StoredOK(place, l, r, alone'[p], item', categoryItem')
    <3>1. l.k - 1 = k
      BY <1>4, <2>6
    <3>2. r = "ok" => DOMAIN cs = 1 .. k
      BY <1>4, <2>4
    <3> DEFINE links == CategoriesIn(categoryItem', l.id)
    <3>3. alone'[p] = TRUE => links = {cs[n] : n \in 1 .. k} /\ item'[l.id] = Row(l.body)
      BY <2>1, <2>2, <2>6, <2>8
    <3>4. l.body.categories = cs /\ item'[l.id] # NULL
      BY <2>1, <2>2, <2>6
    <3> HIDE DEF l, k, cs
    <3> QED BY <2>4, <3>1, <3>2, <3>3, <3>4 DEF StoredOK
  <2> HIDE DEF l
  <2>10. CatalogTypeOK' /\ ProcessesOK'
    BY <2>2, <2>3, <2>4, <2>5, <2>6, <2>7, <2>9, ProcessStep
  <2>11. /\ pc[p] \in {"insert", "update", "clear", "link"} /\ place \in {"clear", "link", "respond"}
         /\ place # "clear" /\ pc[p] # "insert" /\ UNCHANGED <<nextItem, maker, import, posts>>
    BY <1>1, <2>2
  <2>12. IdsOK' /\ ImportInv'
    BY <2>4, <2>5, <2>10, <2>11, StatementKeeps
  <2> QED BY <2>10, <2>12 DEF CatalogInv
<1>6. CASE Return(p, "internal") /\ UNCHANGED <<tables, loc, alone, maker>>
  <2>1. TablesTypeOK' /\ Untouched(p)
    BY <1>6, NothingWritten DEF CatalogInv
  <2>2. UNCHANGED <<nextItem, maker, loc>>
    BY <1>6 DEF tables
  <2> QED BY <1>1, <1>6, <2>1, <2>2, FailureKeeps
<1> QED
  BY <1>5, <1>6 DEF LinkCategory

LEMMA StatementFailsInv ==
  ASSUME CatalogInv, NEW p \in Process, StatementFails(p) PROVE CatalogInv'
<1>1. /\ Return(p, "internal") /\ UNCHANGED <<loc, import, posts>>
      /\ pc[p] \in {"insert", "update", "clear", "link"}
  BY DEF StatementFails
<1>2. /\ pc[p] \in {"insert", "update"} => loc[p].body \in ValidBodies
      /\ pc[p] # "insert" => loc[p].id \in ItemId
      /\ pc[p] = "link" => item[loc[p].id] # NULL
  BY <1>1, ProcessFacts DEF HandlerOK, StoredOK
<1>3. ASSUME TablesTypeOK', Untouched(p), UNCHANGED <<nextItem, maker>> PROVE CatalogInv'
  BY <1>1, <1>3, FailureKeeps
<1>4. CASE UNCHANGED <<tables, alone, maker>>
  <2>1. TablesTypeOK' /\ Untouched(p)
    BY <1>4, NothingWritten DEF CatalogInv
  <2> QED BY <1>3, <1>4, <2>1 DEF tables
<1>5. CASE pc[p] = "insert" /\ InsertItem(p)
  <2>1. nextItem \in ItemId
    BY <1>5, ItemIdLeft
  <2>2. TablesTypeOK' /\ Untouched(p)
    BY <1>2, <1>5, <2>1, InsertWrites DEF CatalogInv
  <2>3. CatalogTypeOK' /\ ProcessesOK'
    BY <1>1, <2>2, FailureKeeps
  <2>4. nextItem' = nextItem + 1 /\ maker' = [maker EXCEPT ![nextItem] = p]
    BY <1>5 DEF InsertItem
  <2>5. pc' = [pc EXCEPT ![p] = "respond"] /\ reply' = [reply EXCEPT ![p] = "internal"]
    BY <1>1 DEF Return, Goto
  <2>6. "respond" \in {"clear", "respond"} /\ "internal" \in {"none", "internal"}
    OBVIOUS
  <2>7. IdsOK'
    BY <1>1, <1>5, <2>1, <2>3, <2>4, <2>5, <2>6, InsertIds
  <2>8. ImportInv'
    BY <1>1, <1>5, <2>1, <2>4, <2>5, <2>6, InsertImport
  <2> QED BY <2>3, <2>7, <2>8 DEF CatalogInv
<1>6. CASE pc[p] = "update" /\ UpdateItem(p)
  <2>1. TablesTypeOK' /\ Untouched(p) /\ UNCHANGED <<nextItem, maker>>
    BY <1>2, <1>6, UpdateWrites DEF CatalogInv
  <2> QED BY <1>3, <2>1
<1>7. CASE pc[p] = "clear" /\ DeleteItemCategories(p)
  <2>1. TablesTypeOK' /\ Untouched(p) /\ UNCHANGED <<nextItem, maker>>
    BY <1>2, <1>7, ClearWrites DEF CatalogInv
  <2> QED BY <1>3, <2>1
<1>8. CASE pc[p] = "link" /\ CanLink(p) /\ AddItemCategory(p)
  <2>1. TablesTypeOK' /\ Untouched(p) /\ UNCHANGED <<nextItem, maker>>
    BY <1>2, <1>8, LinkWrites DEF CatalogInv
  <2> QED BY <1>3, <2>1
<1> QED
  BY <1>4, <1>5, <1>6, <1>7, <1>8 DEF StatementFails

\* A process that is done, and has nothing left.
LEMMA ProcessEnds ==
  ASSUME CatalogInv, NEW p \in Process, UNCHANGED <<tables, posts, maker>>, import' \in Import,
         pc' = [pc EXCEPT ![p] = "idle"], loc' = [loc EXCEPT ![p] = NoLocal],
         reply' = [reply EXCEPT ![p] = "none"], alone' = [alone EXCEPT ![p] = TRUE],
         Begun(import, pc[Importer]) \subseteq Begun(import', pc'[Importer])
  PROVE  CatalogTypeOK' /\ ProcessesOK' /\ IdsOK'
<1>1. CatalogTypeOK /\ UNCHANGED <<item, nextItem, categoryItem>>
  BY DEF CatalogInv, tables
<1>2. TablesTypeOK'
  BY <1>1 DEF CatalogTypeOK, TablesTypeOK
<1>3. Untouched(p)
  BY <1>1 DEF CatalogTypeOK, Untouched
<1>4. /\ "idle" \in Places /\ "none" \in Reply /\ posts' \in 0 .. MaxPosts
      /\ NoLocal \in Local /\ NoLocal.k = 1
  BY ProcessFacts, NoLocalType DEF Places, Reply, NoLocal
<1>5. HandlerOK("idle", NoLocal, "none") /\ StoredOK("idle", NoLocal, "none", alone'[p], item', categoryItem')
  BY DEF HandlerOK, StoredOK
<1>6. CatalogTypeOK' /\ ProcessesOK'
  BY <1>2, <1>3, <1>4, <1>5, ProcessStep
<1>7. \A w \in Worker : pc'[w] = "insert" => pc[w] = "insert"
  BY <1>1 DEF CatalogTypeOK, Process
<1>8. IdsOK'
  BY <1>1, <1>6, <1>7, IdsMove
<1> QED
  BY <1>6, <1>8

LEMMA RespondInv == ASSUME CatalogInv, NEW w \in Worker, Respond(w) PROVE CatalogInv'
<1>1. /\ pc' = [pc EXCEPT ![w] = "idle"] /\ loc' = [loc EXCEPT ![w] = NoLocal]
      /\ reply' = [reply EXCEPT ![w] = "none"] /\ alone' = [alone EXCEPT ![w] = TRUE]
      /\ UNCHANGED <<tables, import, posts, maker>> /\ w \in Process /\ w # Importer
  BY ImporterAssumption DEF Respond, Finish, Goto, Set, Process
<1>2. pc'[Importer] = pc[Importer]
  BY <1>1 DEF CatalogInv, CatalogTypeOK, Process
<1>3. Begun(import, pc[Importer]) \subseteq Begun(import', pc'[Importer])
  BY <1>1, <1>2
<1>4. import' \in Import
  BY <1>1 DEF CatalogInv, CatalogTypeOK
<1>5. CatalogTypeOK' /\ ProcessesOK' /\ IdsOK'
  BY <1>1, <1>3, <1>4, ProcessEnds
<1>6. ImportInv'
  BY <1>1, ImportMove
<1> QED
  BY <1>5, <1>6 DEF CatalogInv

\* A use-case that begins, or refuses its input.
LEMMA BeginKeeps ==
  ASSUME CatalogInv, NEW p \in Process, NEW place \in {"insert", "update"}, NEW l \in Local,
         NEW accepted \in BOOLEAN, pc[p] = "idle", Begin(p, place, accepted, l),
         accepted => l.body \in ValidBodies /\ l.k = 1 /\ (place = "update" => l.id \in ItemId),
         UNCHANGED <<tables, alone, maker, import>>, posts' \in 0 .. MaxPosts
  PROVE  /\ CatalogTypeOK' /\ ProcessesOK'
         /\ \/ /\ accepted
               /\ pc' = [pc EXCEPT ![p] = place] /\ reply' = [reply EXCEPT ![p] = "none"]
            \/ /\ ~accepted
               /\ pc' = [pc EXCEPT ![p] = "respond"] /\ reply' = [reply EXCEPT ![p] = "bad_param"]
<1>1. CatalogTypeOK /\ TablesTypeOK' /\ Untouched(p)
  BY NothingWritten DEF CatalogInv
<1>2. reply[p] = "none"
  BY ProcessFacts DEF HandlerOK
<1>3. /\ {"insert", "update", "respond"} \subseteq Places /\ {"none", "bad_param"} \subseteq Reply
      /\ import' \in Import /\ loc[p] \in Local
  BY ProcessFacts DEF Places, Reply
<1>4. CASE accepted
  <2>1. /\ loc' = [loc EXCEPT ![p] = l] /\ pc' = [pc EXCEPT ![p] = place]
        /\ reply' = [reply EXCEPT ![p] = "none"]
    BY <1>2, <1>4, ProcessFacts DEF Begin, Set, Goto
  <2>2. HandlerOK(place, l, "none") /\ StoredOK(place, l, "none", alone'[p], item', categoryItem')
    BY <1>4 DEF HandlerOK, StoredOK
  <2>3. place \in Places /\ "none" \in Reply
    BY <1>3
  <2> QED BY <1>1, <1>3, <1>4, <2>1, <2>2, <2>3, ProcessStep
<1>5. CASE ~accepted
  <2>1. /\ loc' = [loc EXCEPT ![p] = loc[p]] /\ pc' = [pc EXCEPT ![p] = "respond"]
        /\ reply' = [reply EXCEPT ![p] = "bad_param"]
    BY <1>5, ProcessFacts DEF Begin, Return, Goto
  <2>2. /\ HandlerOK("respond", loc[p], "bad_param")
        /\ StoredOK("respond", loc[p], "bad_param", alone'[p], item', categoryItem')
    BY DEF HandlerOK, StoredOK
  <2>3. "respond" \in Places /\ "bad_param" \in Reply
    BY <1>3
  <2> QED BY <1>1, <1>3, <1>5, <2>1, <2>2, <2>3, ProcessStep
<1> QED
  BY <1>4, <1>5

LEMMA SubmitCreateInv ==
  ASSUME CatalogInv, NEW w \in Worker, NEW b \in Bodies, SubmitCreate(w, b) PROVE CatalogInv'
<1> DEFINE l == [NoLocal EXCEPT !.body = b]
<1>1. /\ pc[w] = "idle" /\ (Valid(b) => posts < MaxPosts)
      /\ posts' = IF Valid(b) THEN posts + 1 ELSE posts
      /\ UNCHANGED <<tables, import, alone, maker>>
  BY DEF SubmitCreate
<1>2. l \in Local /\ l.body = b /\ l.k = 1
  BY BodiesAssumption DEF NoLocal, Local, Opt
<1>3. Valid(b) \in BOOLEAN /\ Begin(w, "insert", Valid(b), l)
  BY DEF SubmitCreate, Valid
<1>4. Valid(b) => b \in ValidBodies
  BY BodiesAssumption, MalformedAssumption DEF ValidBodies
<1>5. /\ posts \in Nat /\ posts <= MaxPosts /\ MaxPosts \in Nat /\ nextItem \in Nat
      /\ posts' \in 0 .. MaxPosts /\ import \in Import /\ pc \in [Process -> Places]
      /\ w \in Process /\ w # Importer
  BY <1>1, PostsAssumption, ImporterAssumption, ItemAssumption
  DEF CatalogInv, CatalogTypeOK, Process
<1> HIDE DEF l
<1>6. "insert" \in {"insert", "update"}
  OBVIOUS
<1>7. /\ CatalogTypeOK' /\ ProcessesOK'
      /\ \/ /\ Valid(b)
            /\ pc' = [pc EXCEPT ![w] = "insert"] /\ reply' = [reply EXCEPT ![w] = "none"]
         \/ /\ ~Valid(b)
            /\ pc' = [pc EXCEPT ![w] = "respond"] /\ reply' = [reply EXCEPT ![w] = "bad_param"]
  BY <1>1, <1>2, <1>3, <1>4, <1>5, <1>6, BeginKeeps
<1>8. pc'[Importer] = pc[Importer] /\ \A q \in Worker \ {w} : pc'[q] = pc[q]
  BY <1>5, <1>7 DEF Process
<1>9. UNCHANGED <<import, maker, nextItem>>
  BY <1>1 DEF tables
<1>10. ImportInv'
  BY <1>5, <1>7, <1>9, ImportMove
<1>11. CASE Valid(b)
  <2> DEFINE n == Cardinality(Begun(import, pc[Importer]))
  <2>1. pc'[w] = "insert" /\ posts' = posts + 1
    BY <1>1, <1>5, <1>7, <1>11
  <2>2. Inserting' = Inserting \cup {w} /\ w \notin Inserting
    BY <1>1, <1>8, <2>1 DEF Inserting
  <2>3. /\ IsFiniteSet(Inserting) /\ Cardinality(Inserting) \in Nat
        /\ nextItem + Cardinality(Inserting) <= 1 + posts + n
        /\ \A i \in ItemId : maker[i] # NULL => i < nextItem
    BY FS_CardinalityType DEF CatalogInv, IdsOK
  <2>4. IsFiniteSet(Inserting') /\ Cardinality(Inserting') = Cardinality(Inserting) + 1
    BY <2>2, <2>3, FS_AddElement
  <2>5. n \in Nat /\ n' = n
    BY <1>5, <1>8, <1>9, BegunFinite
  <2> HIDE DEF n
  <2>6. nextItem' + Cardinality(Inserting') <= 1 + posts' + n'
    BY <1>5, <1>9, <2>1, <2>3, <2>4, <2>5
  <2>7. IdsOK'
    BY <1>9, <2>3, <2>4, <2>6 DEF IdsOK, n
  <2> QED BY <1>7, <1>10, <2>7 DEF CatalogInv
<1>12. CASE ~Valid(b)
  <2>1. pc'[w] = "respond" /\ posts' = posts
    BY <1>1, <1>5, <1>7, <1>12
  <2>2. \A q \in Worker : pc'[q] = "insert" => pc[q] = "insert"
    BY <1>8, <2>1
  <2>3. Begun(import, pc[Importer]) \subseteq Begun(import', pc'[Importer])
    BY <1>8, <1>9
  <2>4. IdsOK'
    BY <1>7, <1>9, <2>1, <2>2, <2>3, IdsMove
  <2> QED BY <1>7, <1>10, <2>4 DEF CatalogInv
<1> QED
  BY <1>3, <1>11, <1>12

LEMMA SubmitUpdateInv ==
  ASSUME CatalogInv, NEW w \in Worker, NEW b \in Bodies, NEW i \in ItemId \cup {0},
         SubmitUpdate(w, i, b)
  PROVE  CatalogInv'
<1> DEFINE l  == [body |-> b, id |-> i, k |-> 1]
           ok == i # 0 /\ Valid(b)
<1>1. /\ pc[w] = "idle" /\ UNCHANGED <<tables, import, posts, alone, maker>>
      /\ Begin(w, "update", ok, l)
  BY DEF SubmitUpdate
<1>2. l \in Local /\ l.body = b /\ l.k = 1 /\ l.id = i
  <2>1. b \in Opt(Body)
    BY BodiesAssumption DEF Opt
  <2> QED BY <2>1 DEF Local
<1>3. ok \in BOOLEAN
  BY DEF Valid
<1>4. ok => l.body \in ValidBodies /\ l.k = 1 /\ l.id \in ItemId
  BY <1>2, BodiesAssumption, MalformedAssumption DEF ValidBodies
<1>5. /\ posts' \in 0 .. MaxPosts /\ pc \in [Process -> Places] /\ w \in Process /\ w # Importer
      /\ UNCHANGED <<nextItem, maker, posts, import>> /\ "update" \in {"insert", "update"}
  BY <1>1, ImporterAssumption DEF CatalogInv, CatalogTypeOK, Process, tables
<1> HIDE DEF l, ok
<1>6. /\ CatalogTypeOK' /\ ProcessesOK'
      /\ \E place \in {"update", "respond"}, r \in {"none", "bad_param"} :
           pc' = [pc EXCEPT ![w] = place] /\ reply' = [reply EXCEPT ![w] = r]
  BY <1>1, <1>2, <1>3, <1>4, <1>5, BeginKeeps
<1>7. PICK place \in {"update", "respond"}, r \in {"none", "bad_param"} :
        pc' = [pc EXCEPT ![w] = place] /\ reply' = [reply EXCEPT ![w] = r]
  BY <1>6
<1>8. pc'[Importer] = pc[Importer] /\ \A q \in Worker : pc'[q] = "insert" => pc[q] = "insert"
  BY <1>5, <1>7 DEF Process
<1>9. IdsOK'
  BY <1>5, <1>6, <1>8, IdsMove
<1>10. ImportInv'
  BY <1>5, <1>7, ImportMove
<1> QED
  BY <1>6, <1>9, <1>10 DEF CatalogInv

\* A step of the importer between two rows: no process moves.
LEMMA ImportOnly ==
  ASSUME CatalogInv, UNCHANGED <<tables, pc, loc, reply, posts, alone, maker>>, import' \in Import,
         Begun(import, pc[Importer]) \subseteq Begun(import', pc[Importer]),
         ImporterOK(import', pc[Importer], reply[Importer], Cardinality(Made))
  PROVE  CatalogInv'
<1>1. CatalogTypeOK' /\ ProcessesOK'
  BY DEF CatalogInv, CatalogTypeOK, ProcessesOK, tables
<1>2. IdsOK'
  BY <1>1, IdsMove DEF tables
<1>3. Made' = Made
  BY DEF Made
<1>4. ImportInv'
  BY <1>3 DEF ImportInv
<1> QED
  BY <1>1, <1>2, <1>4 DEF CatalogInv

LEMMA ImporterFacts ==
  ASSUME CatalogInv
  PROVE  /\ Importer \in Process /\ import \in Import
         /\ import.file \in Files \cup {<< >>} /\ Len(import.file) \in Nat
         /\ import.line \in Nat \ {0} /\ import.imported \in Nat /\ import.failed \in Nat
         /\ Cardinality(Made) \in Nat
         /\ pc[Importer] = "idle" => reply[Importer] = "none"
         /\ ImporterOK(import, pc[Importer], reply[Importer], Cardinality(Made))
<1>1. Importer \in Process /\ import \in Import /\ Cardinality(Made) \in Nat
  BY MadeFinite DEF CatalogInv, CatalogTypeOK, Process
<1>2. pc[Importer] = "idle" => reply[Importer] = "none"
  BY <1>1, ProcessFacts DEF HandlerOK
<1>3. Len(import.file) \in Nat
  BY <1>1, FileType
<1> QED
  BY <1>1, <1>2, <1>3 DEF CatalogInv, ImportInv, Import

\* What is begun at one line is begun at the next.
LEMMA BegunEarlier ==
  ASSUME NEW im \in Import, NEW next, next.file = im.file, next.line = im.line + 1,
         next.state = im.state, NEW place, NEW after
  PROVE  Begun(im, place) \subseteq Begun(next, after)
<1> SUFFICES ASSUME NEW n \in Begun(im, place) PROVE n \in Begun(next, after)
  OBVIOUS
<1>1. n \in DOMAIN im.file /\ im.file[n] # Malformed
  BY DEF Begun
<1>2. n \in Nat /\ im.line \in Nat
  BY <1>1, FileType DEF Import
<1>3. n < im.line + 1 \/ im.state = "killed"
  BY <1>2 DEF Begun
<1> QED
  BY <1>1, <1>3 DEF Begun

LEMMA StartImportInv == ASSUME CatalogInv, NEW f \in Files, StartImport(f) PROVE CatalogInv'
<1> DEFINE im == [import EXCEPT !.file = f, !.state = "running"]
           m  == Cardinality(Made)
<1>1. /\ import.state = "not_started" /\ import' = im
      /\ UNCHANGED <<tables, pc, loc, reply, posts, alone, maker>>
  BY DEF StartImport
<1>2. /\ im \in Import /\ im.file = f /\ im.line = import.line /\ im.imported = import.imported
      /\ im.failed = import.failed /\ im.state = "running"
  BY ImporterFacts DEF Import
<1>3. pc[Importer] = "idle" /\ import.file = << >>
  BY <1>1, ImporterFacts DEF ImporterOK
<1> HIDE DEF im, m
<1>4. Begun(import, pc[Importer]) = {}
  BY <1>3 DEF Begun
<1>5. Len(im.file) \in Nat
  BY <1>2, FileType
<1>6. ImporterOK(im, pc[Importer], reply[Importer], m)
  <2>1. /\ ImporterOK(import, "idle", "none", m) /\ reply[Importer] = "none"
    BY <1>3, ImporterFacts DEF m
  <2>2. Len(import.file) = 0
    BY <1>3
  <2> QED BY <1>1, <1>2, <1>3, <1>5, <2>1, <2>2, ImporterFacts DEF ImporterOK, m
<1> QED
  BY <1>1, <1>2, <1>4, <1>6, ImportOnly DEF m

LEMMA EndImportInv == ASSUME CatalogInv, EndImport PROVE CatalogInv'
<1> DEFINE m == Cardinality(Made)
<1>1. /\ import.state = "running" /\ pc[Importer] = "idle" /\ import.line > Len(import.file)
      /\ UNCHANGED <<tables, pc, loc, reply, posts, alone, maker>>
  BY DEF EndImport, Reading
<1>2. PICK s \in {"no_rows", "done"} : import' = [import EXCEPT !.state = s]
  BY DEF EndImport
<1>3. /\ import' \in Import /\ import'.file = import.file /\ import'.line = import.line
      /\ import'.imported = import.imported /\ import'.failed = import.failed /\ import'.state = s
  BY <1>2, ImporterFacts DEF Import
<1>4. Begun(import, pc[Importer]) \subseteq Begun(import', pc[Importer])
  BY <1>1, <1>3 DEF Begun
<1>5. ImporterOK(import', pc[Importer], reply[Importer], m)
  BY <1>1, <1>3, ImporterFacts DEF ImporterOK
<1> QED
  BY <1>1, <1>3, <1>4, <1>5, ImportOnly

LEMMA ReadRowInv == ASSUME CatalogInv, ReadRow PROVE CatalogInv'
<1> DEFINE m   == Cardinality(Made)
           row == import.file[import.line]
           l   == [NoLocal EXCEPT !.body = row]
<1>1. /\ import.state = "running" /\ pc[Importer] = "idle" /\ import.line <= Len(import.file)
      /\ UNCHANGED <<tables, posts, alone, maker>>
  BY DEF ReadRow, Reading
<1>2. CASE row = Malformed /\ UNCHANGED <<pc, loc, reply>>
           /\ import' = [import EXCEPT !.line = @ + 1, !.failed = @ + 1]
  <2>1. /\ import' \in Import /\ import'.file = import.file /\ import'.line = import.line + 1
        /\ import'.imported = import.imported /\ import'.failed = import.failed + 1
        /\ import'.state = import.state
    <3>1. /\ import \in Import /\ import.line + 1 \in Nat \ {0} /\ import.failed + 1 \in Nat
          /\ import' = [import EXCEPT !.line = import.line + 1, !.failed = import.failed + 1]
      BY <1>2, ImporterFacts
    <3> QED BY <3>1 DEF Import
  <2>2. Begun(import, pc[Importer]) \subseteq Begun(import', pc[Importer])
    <3>1. import \in Import
      BY ImporterFacts
    <3> QED BY <2>1, <3>1, BegunEarlier
  <2>3. ImporterOK(import', pc[Importer], reply[Importer], m)
    <3>1. /\ import.line \in Nat /\ import.imported \in Nat /\ import.failed \in Nat
          /\ Len(import.file) \in Nat /\ m \in Nat /\ reply[Importer] = "none"
          /\ ImporterOK(import, "idle", "none", m)
      BY <1>1, ImporterFacts
    <3> HIDE DEF m
    <3> QED BY <1>1, <2>1, <3>1 DEF ImporterOK
  <2> QED BY <1>1, <1>2, <2>1, <2>2, <2>3, ImportOnly
<1>3. CASE row # Malformed /\ Begin(Importer, "insert", Valid(row), l) /\ UNCHANGED import
  <2>1. import.file \in Files /\ import.line \in DOMAIN import.file
    BY <1>1, FileType, ImporterFacts
  <2>2. row \in Body /\ (Valid(row) => row \in ValidBodies)
    BY <1>3, <2>1, LineOfFile
  <2>3. l \in Local /\ l.body = row /\ l.k = 1
    BY <2>2 DEF NoLocal, Local, Opt
  <2>4. Valid(row) \in BOOLEAN /\ "insert" \in {"insert", "update"} /\ posts' \in 0 .. MaxPosts
    BY <1>1 DEF Valid, CatalogInv, CatalogTypeOK
  <2> HIDE DEF l, row, m
  <2>5. /\ CatalogTypeOK' /\ ProcessesOK'
        /\ \E place \in {"insert", "respond"}, r \in {"none", "bad_param"} :
             pc' = [pc EXCEPT ![Importer] = place] /\ reply' = [reply EXCEPT ![Importer] = r]
    BY <1>1, <1>3, <2>2, <2>3, <2>4, BeginKeeps, ImporterFacts
  <2>6. PICK place \in {"insert", "respond"}, r \in {"none", "bad_param"} :
          pc' = [pc EXCEPT ![Importer] = place] /\ reply' = [reply EXCEPT ![Importer] = r]
    BY <2>5
  <2>7. pc'[Importer] = place /\ \A w \in Worker : pc'[w] = "insert" => pc[w] = "insert"
    BY <2>6, ImporterAssumption DEF CatalogInv, CatalogTypeOK, Process
  <2>8. Begun(import, pc[Importer]) \subseteq Begun(import', pc'[Importer])
    BY <1>1, <1>3, <2>7 DEF Begun
  <2>9. IdsOK'
    BY <1>1, <2>5, <2>7, <2>8, IdsMove DEF tables
  <2>10. ImporterOK(import, place, r, m)
    BY <1>1, <1>3, ImporterFacts DEF ImporterOK, m, row
  <2>11. ImportInv'
    BY <1>1, <1>3, <2>6, <2>10, ImportMove, ImporterFacts DEF m
  <2> QED BY <2>5, <2>9, <2>11 DEF CatalogInv
<1> QED
  BY <1>2, <1>3 DEF ReadRow

LEMMA CountRowInv == ASSUME CatalogInv, CountRow PROVE CatalogInv'
<1> DEFINE m == Cardinality(Made)
<1>1. /\ pc[Importer] = "respond" /\ pc' = [pc EXCEPT ![Importer] = "idle"]
      /\ loc' = [loc EXCEPT ![Importer] = NoLocal] /\ reply' = [reply EXCEPT ![Importer] = "none"]
      /\ alone' = [alone EXCEPT ![Importer] = TRUE] /\ UNCHANGED <<tables, posts, maker>>
  BY DEF CountRow, Finish, Goto, Set
<1>2. /\ import' \in Import /\ import'.file = import.file /\ import'.line = import.line + 1
      /\ import'.state = import.state
      /\ \/ /\ reply[Importer] = "ok"
            /\ import'.imported = import.imported + 1 /\ import'.failed = import.failed
         \/ /\ reply[Importer] # "ok"
            /\ import'.imported = import.imported /\ import'.failed = import.failed + 1
  <2>1. /\ import \in Import /\ import.line + 1 \in Nat \ {0} /\ import.failed + 1 \in Nat
        /\ import.imported + 1 \in Nat
    BY ImporterFacts
  <2>2. \/ /\ reply[Importer] = "ok"
           /\ import' = [import EXCEPT !.line = import.line + 1, !.imported = import.imported + 1]
        \/ /\ reply[Importer] # "ok"
           /\ import' = [import EXCEPT !.line = import.line + 1, !.failed = import.failed + 1]
    BY DEF CountRow
  <2> QED BY <2>1, <2>2 DEF Import
<1>3. pc'[Importer] = "idle" /\ reply'[Importer] = "none"
  BY <1>1, ImporterFacts DEF CatalogInv, CatalogTypeOK
<1>4. Begun(import, pc[Importer]) \subseteq Begun(import', pc'[Importer])
  <2>1. import \in Import
    BY ImporterFacts
  <2> QED BY <1>2, <2>1, BegunEarlier
<1>5. CatalogTypeOK' /\ ProcessesOK' /\ IdsOK'
  BY <1>1, <1>2, <1>4, ProcessEnds, ImporterFacts
<1>6. ImporterOK(import', "idle", "none", m)
  <2>1. /\ import.line \in Nat /\ import.imported \in Nat /\ import.failed \in Nat
        /\ Len(import.file) \in Nat /\ m \in Nat
        /\ ImporterOK(import, "respond", reply[Importer], m)
    BY <1>1, ImporterFacts
  <2> HIDE DEF m
  <2>2. /\ import.line = import.imported + import.failed + 1 /\ import.line <= Len(import.file)
        /\ import.state = "running"
        /\ reply[Importer] = "ok" => import.imported + 1 <= m
        /\ import.imported <= m /\ m <= import.imported + import.failed + 1
    BY <2>1 DEF ImporterOK
  <2>3. /\ import'.line = import'.imported + import'.failed + 1
        /\ import'.line <= Len(import'.file) + 1
        /\ import'.imported <= m /\ m <= import'.imported + import'.failed
    BY <1>2, <2>1, <2>2
  <2>4. import'.imported \in Nat /\ import'.failed \in Nat
    BY <1>2, <2>1
  <2> QED BY <1>2, <2>1, <2>2, <2>3, <2>4 DEF ImporterOK
<1>7. Made' = Made
  BY <1>1 DEF Made
<1> QED
  BY <1>3, <1>5, <1>6, <1>7 DEF CatalogInv, ImportInv

LEMMA KillImportInv == ASSUME CatalogInv, KillImport PROVE CatalogInv'
<1> DEFINE m == Cardinality(Made)
<1>1. /\ import.state = "running" /\ pc' = [pc EXCEPT ![Importer] = "idle"]
      /\ loc' = [loc EXCEPT ![Importer] = NoLocal] /\ reply' = [reply EXCEPT ![Importer] = "none"]
      /\ alone' = [alone EXCEPT ![Importer] = TRUE] /\ UNCHANGED <<tables, posts, maker>>
  BY DEF KillImport, Goto, Set
<1>2. /\ import' \in Import /\ import'.file = import.file /\ import'.line = import.line
      /\ import'.imported = import.imported /\ import'.failed = import.failed
      /\ import'.state = "killed"
  BY ImporterFacts DEF KillImport, Import
<1>3. pc'[Importer] = "idle" /\ reply'[Importer] = "none"
  BY <1>1, ImporterFacts DEF CatalogInv, CatalogTypeOK
<1>4. Begun(import, pc[Importer]) \subseteq Begun(import', pc'[Importer])
  BY <1>2 DEF Begun
<1>5. CatalogTypeOK' /\ ProcessesOK' /\ IdsOK'
  BY <1>1, <1>2, <1>4, ProcessEnds, ImporterFacts
<1>6. ImporterOK(import', "idle", "none", m)
  BY <1>1, <1>2, ImporterFacts DEF ImporterOK
<1>7. Made' = Made
  BY <1>1 DEF Made
<1> QED
  BY <1>3, <1>5, <1>6, <1>7 DEF CatalogInv, ImportInv

\* The server dies: its requests are gone, the importer and the tables stay.
LEMMA CrashInv == ASSUME CatalogInv, Crash PROVE CatalogInv'
<1>1. /\ pc' = [p \in Process |-> IF p \in Worker THEN "idle" ELSE pc[p]]
      /\ loc' = [p \in Process |-> IF p \in Worker THEN NoLocal ELSE loc[p]]
      /\ reply' = [p \in Process |-> IF p \in Worker THEN "none" ELSE reply[p]]
      /\ alone' = [p \in Process |-> p \in Worker \/ alone[p]]
      /\ UNCHANGED <<tables, import, posts, maker>>
  BY DEF Crash
<1>2. UNCHANGED <<item, nextItem, categoryItem, import, posts, maker>>
  BY <1>1 DEF tables
<1>3. alone' \in [Process -> BOOLEAN]
  BY <1>1
<1>4. CatalogTypeOK'
  <2>1. pc' \in [Process -> Places] /\ loc' \in [Process -> Local] /\ reply' \in [Process -> Reply]
    BY <1>1, NoLocalType DEF CatalogInv, CatalogTypeOK, Places, Reply
  <2> QED BY <1>2, <1>3, <2>1 DEF CatalogInv, CatalogTypeOK
<1>5. /\ Importer \in Process /\ Importer \notin Worker /\ pc'[Importer] = pc[Importer]
      /\ loc'[Importer] = loc[Importer] /\ reply'[Importer] = reply[Importer]
  BY <1>1, ImporterAssumption DEF Process
<1>6. alone'[Importer] = alone[Importer]
  <2>1. alone[Importer] \in BOOLEAN
    BY <1>5 DEF CatalogInv, CatalogTypeOK
  <2>2. alone'[Importer] = (Importer \in Worker \/ alone[Importer])
    BY <1>1, <1>5
  <2> QED BY <1>5, <2>1, <2>2
<1>7. ProcessesOK'
  <2>1. ASSUME NEW p \in Process
        PROVE  /\ HandlerOK(pc'[p], loc'[p], reply'[p])
               /\ StoredOK(pc'[p], loc'[p], reply'[p], alone'[p], item', categoryItem')
    <3>1. CASE p \in Worker
      <4>1. pc'[p] = "idle" /\ reply'[p] = "none"
        BY <1>1, <3>1
      <4> QED BY <4>1 DEF HandlerOK, StoredOK
    <3>2. CASE p = Importer
      BY <1>2, <1>5, <1>6, <3>2, ProcessFacts
    <3> QED BY <3>1, <3>2 DEF Process
  <2> QED BY <2>1 DEF ProcessesOK
<1>8. IdsOK'
  <2>1. \A w \in Worker : pc'[w] = "insert" => pc[w] = "insert"
    BY <1>1 DEF Process
  <2>2. Begun(import, pc[Importer]) \subseteq Begun(import', pc'[Importer])
    BY <1>2, <1>5
  <2> QED BY <1>2, <1>4, <2>1, <2>2, IdsMove
<1>9. ImportInv'
  <2>1. Made' = Made
    BY <1>2 DEF Made
  <2> QED BY <1>2, <1>5, <2>1 DEF CatalogInv, ImportInv
<1> QED
  BY <1>4, <1>7, <1>8, <1>9 DEF CatalogInv

LEMMA CatalogInit == Init => CatalogInv
<1> SUFFICES ASSUME Init PROVE CatalogInv
  OBVIOUS
<1>1. /\ import = [file |-> << >>, line |-> 1, imported |-> 0, failed |-> 0,
                   state |-> "not_started"]
      /\ pc[Importer] = "idle" /\ reply[Importer] = "none"
  BY DEF Init, Process
<1>2. MaxItem \in Nat /\ MaxPosts \in Nat
  BY ItemAssumption, PostsAssumption
<1>3. CatalogTypeOK
  <2>1. import \in Import
    BY <1>1 DEF Import
  <2>2. /\ item \in [ItemId -> Opt(ItemRow)] /\ maker \in [ItemId -> Opt(Process)]
        /\ alone \in [Process -> BOOLEAN]
    BY DEF Init, Opt
  <2>3. /\ pc \in [Process -> Places] /\ loc \in [Process -> Local] /\ reply \in [Process -> Reply]
    BY NoLocalType DEF Init, Places, Reply
  <2>4. nextItem \in 1 .. MaxItem + 1 /\ posts \in 0 .. MaxPosts /\ categoryItem = {}
    BY <1>2 DEF Init
  <2> QED BY <2>1, <2>2, <2>3, <2>4 DEF CatalogTypeOK
<1>4. ProcessesOK
  BY DEF Init, ProcessesOK, HandlerOK, StoredOK
<1>5. IdsOK
  <2>1. Inserting = {} /\ Begun(import, pc[Importer]) = {}
    BY <1>1 DEF Init, Inserting, Begun, Process
  <2>2. IsFiniteSet(Inserting) /\ Cardinality(Inserting) = 0
    BY <2>1, FS_EmptySet
  <2>3. Cardinality(Begun(import, pc[Importer])) = 0
    BY <2>1, FS_EmptySet
  <2>4. nextItem = 1 /\ posts = 0 /\ \A i \in ItemId : maker[i] = NULL
    BY DEF Init
  <2> QED BY <2>2, <2>3, <2>4 DEF IdsOK
<1>6. ImportInv
  <2>1. Made = {}
    BY NullAssumption DEF Init, Made, Process
  <2>2. Cardinality(Made) = 0
    BY <2>1, FS_EmptySet
  <2>3. Len(import.file) = 0
    BY <1>1
  <2> QED BY <1>1, <2>2, <2>3 DEF ImportInv, ImporterOK
<1> QED
  BY <1>3, <1>4, <1>5, <1>6 DEF CatalogInv

LEMMA CatalogNext == CatalogInv /\ [Next]_catalogVars => CatalogInv'
<1> SUFFICES ASSUME CatalogInv, [Next]_catalogVars PROVE CatalogInv'
  OBVIOUS
<1>1. ASSUME NEW p \in Process, Statement(p) \/ StatementFails(p) PROVE CatalogInv'
  BY <1>1, CreateItemInv, ReplaceItemInv, ClearCategoriesInv, LinkCategoryInv, StatementFailsInv
  DEF Statement
<1>2. CASE Handlers
  <2>1. PICK w \in Worker :
          \/ \E b \in Bodies : SubmitCreate(w, b) \/ \E i \in ItemId \cup {0} : SubmitUpdate(w, i, b)
          \/ Respond(w)
          \/ Statement(w)
          \/ StatementFails(w)
    BY <1>2 DEF Handlers
  <2>2. w \in Process
    BY DEF Process
  <2> QED BY <1>1, <2>1, <2>2, SubmitCreateInv, SubmitUpdateInv, RespondInv
<1>3. CASE ImportProcess
  <2>1. Importer \in Process
    BY DEF Process
  <2> QED BY <1>1, <1>3, <2>1, StartImportInv, ReadRowInv, CountRowInv, EndImportInv, KillImportInv
          DEF ImportProcess
<1>4. CASE Crash
  BY <1>4, CrashInv
<1>5. CASE UNCHANGED catalogVars
  <2>1. Made' = Made /\ Inserting' = Inserting
    BY <1>5 DEF catalogVars, Made, Inserting
  <2> QED BY <1>5, <2>1 DEF catalogVars, CatalogInv, CatalogTypeOK, ProcessesOK, IdsOK, ImportInv
<1> QED
  BY <1>2, <1>3, <1>4, <1>5 DEF Next

\* The invariant holds in every state.
LEMMA CatalogAlways == Spec => []CatalogInv
BY CatalogInit, CatalogNext, PTL DEF Spec

-----------------------------------------------------------------------------
(* What the invariant says of the runs' properties *)

\* The stored row is the body's with each amount cut to its column: an amount that
\* fits is there as it was sent.
LEMMA RowKeepsWhatFits ==
  ASSUME NEW b \in Body
  PROVE  /\ b.price \in Int32 => Row(b).price = b.price
         /\ b.stock \in Int32 => Row(b).stock = b.stock
BY ToInt32Fits DEF Row

LEMMA StoredAnswers == CatalogInv => AnswerIsStored
<1> SUFFICES ASSUME CatalogInv, NEW p \in Process, reply[p] = "ok", alone[p]
             PROVE  /\ item[loc[p].id] # NULL
                    /\ loc[p].body.price \in Int32 => item[loc[p].id].price = loc[p].body.price
                    /\ loc[p].body.stock \in Int32 => item[loc[p].id].stock = loc[p].body.stock
                    /\ CategoriesOf(loc[p].id) =
                         {loc[p].body.categories[n] : n \in DOMAIN loc[p].body.categories}
  BY DEF AnswerIsStored
<1>1. alone[p] \in BOOLEAN
  BY DEF CatalogInv, CatalogTypeOK
<1>2. alone[p] = TRUE
  BY <1>1
<1>3. /\ HandlerOK(pc[p], loc[p], reply[p])
      /\ StoredOK(pc[p], loc[p], reply[p], alone[p], item, categoryItem)
  BY ProcessFacts
<1>4. CategoriesOf(loc[p].id) = CategoriesIn(categoryItem, loc[p].id)
  BY DEF CategoriesOf, CategoriesIn
<1>5. item[loc[p].id] = Row(loc[p].body)
  BY <1>2, <1>3 DEF StoredOK
<1>6. loc[p].body \in ValidBodies
  BY <1>3 DEF HandlerOK
<1>7. /\ Row(loc[p].body) # NULL
      /\ loc[p].body.price \in Int32 => Row(loc[p].body).price = loc[p].body.price
      /\ loc[p].body.stock \in Int32 => Row(loc[p].body).stock = loc[p].body.stock
  BY <1>6, ValidBodyType, RowKeepsWhatFits
<1> QED
  BY <1>2, <1>3, <1>4, <1>5, <1>7 DEF StoredOK

LEMMA CountsAddUp == CatalogInv => ImportCountsAddUp
<1> SUFFICES ASSUME CatalogInv PROVE ImportCountsAddUp
  OBVIOUS
<1> DEFINE m == Cardinality(Made)
<1>1. /\ import.line \in Nat /\ import.imported \in Nat /\ import.failed \in Nat
      /\ Len(import.file) \in Nat /\ m \in Nat
      /\ ImporterOK(import, pc[Importer], reply[Importer], m)
  BY ImporterFacts
<1> HIDE DEF m
<1>2. /\ import.imported <= m /\ m <= import.imported + import.failed + 1
      /\ import.imported + import.failed = import.line - 1
  BY <1>1 DEF ImporterOK
<1>3. import.state \in {"done", "no_rows"} =>
        /\ import.imported + import.failed = Len(import.file)
        /\ m <= import.imported + import.failed
  BY <1>1 DEF ImporterOK
<1> QED
  BY <1>2, <1>3 DEF ImportCountsAddUp, m

-----------------------------------------------------------------------------
(* The abstract tables: every step is one of its statements, or leaves the  *)
(* tables as they are.                                                      *)

LEMMA InsertsRow ==
  ASSUME CatalogInv, NEW p \in Process, pc[p] = "insert", InsertItem(p)
  PROVE  Stored!WriteItem
<1>1. nextItem \in ItemId
  BY ItemIdLeft
<1>2. Row(loc[p].body) \in ValidRows
  BY ProcessFacts, ValidBodyType DEF HandlerOK
<1>3. Stored!InsertRow(Row(loc[p].body))
  BY <1>1 DEF InsertItem, Stored!InsertRow, Stored!ItemId, ItemId
<1> QED
  BY <1>2, <1>3 DEF Stored!WriteItem

LEMMA ReplacesRow ==
  ASSUME CatalogInv, NEW p \in Process, pc[p] = "update", UpdateItem(p)
  PROVE  Stored!WriteItem \/ UNCHANGED tables
<1>1. loc[p].id \in ItemId /\ loc[p].body \in ValidBodies
  BY ProcessFacts DEF HandlerOK
<1>2. CASE RowsAffected(p) = 0
  BY <1>2 DEF UpdateItem, tables
<1>3. CASE RowsAffected(p) # 0
  <2>1. loc[p].id \in Stored!Items
    BY <1>1, <1>3 DEF RowsAffected, Stored!Items, Stored!ItemId, ItemId
  <2>2. Row(loc[p].body) \in ValidRows
    BY <1>1, ValidBodyType
  <2>3. Stored!ReplaceRow(loc[p].id, Row(loc[p].body))
    BY <1>3 DEF UpdateItem, Stored!ReplaceRow
  <2> QED BY <2>1, <2>2, <2>3 DEF Stored!WriteItem
<1> QED
  BY <1>2, <1>3

LEMMA UnlinksAll ==
  ASSUME CatalogInv, NEW p \in Process, pc[p] = "clear", DeleteItemCategories(p)
  PROVE  Stored!WriteItem
<1>1. loc[p].id \in Stored!Items
  BY ProcessFacts DEF HandlerOK, StoredOK, Stored!Items, Stored!ItemId, ItemId
<1>2. Stored!Unlink(loc[p].id)
  BY DEF DeleteItemCategories, Stored!Unlink
<1> QED
  BY <1>1, <1>2 DEF Stored!WriteItem

LEMMA LinksOne ==
  ASSUME CatalogInv, NEW p \in Process, pc[p] = "link", CanLink(p), AddItemCategory(p)
  PROVE  Stored!WriteItem
<1> DEFINE c == loc[p].body.categories[loc[p].k]
<1>1. loc[p].id \in Stored!Items
  BY ProcessFacts DEF HandlerOK, StoredOK, Stored!Items, Stored!ItemId, ItemId
<1>2. c \in Category /\ Stored!Link(c, loc[p].id)
  BY DEF CanLink, AddItemCategory, Linked, Stored!Link
<1> QED
  BY <1>1, <1>2 DEF Stored!WriteItem

LEMMA StatementImplements ==
  ASSUME CatalogInv, NEW p \in Process, Statement(p) \/ StatementFails(p)
  PROVE  Stored!WriteItem \/ UNCHANGED tables
<1>1. CASE CreateItem(p)
  BY <1>1, InsertsRow DEF CreateItem
<1>2. CASE ReplaceItem(p)
  BY <1>2, ReplacesRow DEF ReplaceItem
<1>3. CASE ClearCategories(p)
  BY <1>3, UnlinksAll DEF ClearCategories
<1>4. CASE LinkCategory(p)
  BY <1>4, LinksOne DEF LinkCategory
<1>5. CASE StatementFails(p)
  BY <1>5, InsertsRow, ReplacesRow, UnlinksAll, LinksOne DEF StatementFails
<1> QED
  BY <1>1, <1>2, <1>3, <1>4, <1>5 DEF Statement

LEMMA StepImplements ==
  CatalogInv /\ [Next]_catalogVars => [Stored!WriteItem]_(Stored!itemTables)
<1> SUFFICES ASSUME CatalogInv, [Next]_catalogVars
             PROVE  Stored!WriteItem \/ UNCHANGED tables
  BY DEF Stored!itemTables, tables
<1>1. CASE Handlers
  <2>1. PICK w \in Worker :
          \/ \E b \in Bodies : SubmitCreate(w, b) \/ \E i \in ItemId \cup {0} : SubmitUpdate(w, i, b)
          \/ Respond(w)
          \/ Statement(w)
          \/ StatementFails(w)
    BY <1>1 DEF Handlers
  <2>2. w \in Process
    BY DEF Process
  <2>3. CASE Statement(w) \/ StatementFails(w)
    BY <2>2, <2>3, StatementImplements
  <2> QED BY <2>1, <2>3 DEF SubmitCreate, SubmitUpdate, Respond
<1>2. CASE ImportProcess
  <2>1. Importer \in Process
    BY DEF Process
  <2>2. CASE Statement(Importer) \/ StatementFails(Importer)
    BY <2>1, <2>2, StatementImplements
  <2> QED BY <1>2, <2>2 DEF ImportProcess, StartImport, ReadRow, CountRow, EndImport, KillImport
<1>3. CASE Crash
  BY <1>3 DEF Crash
<1>4. CASE UNCHANGED catalogVars
  BY <1>4 DEF catalogVars, tables
<1> QED
  BY <1>1, <1>2, <1>3, <1>4 DEF Next

-----------------------------------------------------------------------------
(* Theorems *)

\* The state stays typed, whatever the handlers and the importer do and fail at:
\* ids never run past the bound, no category is linked to an item there is not.
THEOREM CatalogTypeCorrect == Spec => []CatalogTypeOK
<1>1. CatalogInv => CatalogTypeOK
  BY DEF CatalogInv
<1> QED
  BY <1>1, CatalogAlways, PTL

\* A POST or PUT answered with success, and every row the importer counts as
\* imported, is in the tables as it was sent, each amount that fits its column and
\* exactly the categories, if no other request wrote to the item meanwhile: the
\* statements of replaceCategories leave nothing out and nothing over.
THEOREM AnswersStored == Spec => []AnswerIsStored
BY StoredAnswers, CatalogAlways, PTL

\* The importer's two counts account for each line of its file exactly once, and
\* bound the items it made from below and above, killed or not.
THEOREM ImportCountsTrue == Spec => []ImportCountsAddUp
BY CountsAddUp, CatalogAlways, PTL

\* The handlers and the importer implement the abstract tables that readers see.
THEOREM CatalogImplementsItemTables == Spec => ImplementsItemTables
<1>1. Init => Stored!TablesInit
  BY DEF Init, Stored!TablesInit, Stored!ItemId, ItemId
<1> QED
  BY <1>1, StepImplements, CatalogAlways, PTL
  DEF Spec, ImplementsItemTables, Stored!TablesSpec
=============================================================================
