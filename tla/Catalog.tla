------------------------------ MODULE Catalog -------------------------------
(***************************************************************************)
(* The item endpoints, POST /items and PUT /items/{id}, and the CSV        *)
(* importer (cmd/import), which creates items through the same use-case.   *)
(*                                                                         *)
(* Nothing here runs in a transaction: the item row, the DELETE of its     *)
(* categories and each INSERT of a category are statements of their own,   *)
(* committed at once, so writers of one item interleave between them and   *)
(* a failure leaves what was done before it.  Orders, which lock and       *)
(* change stock, are left out: a PUT writes an absolute stock either way.  *)
(*                                                                         *)
(* A definition whose name ends in an underscore and a suffix is the one   *)
(* after it with a mistake in it; the runs show which property it breaks.  *)
(***************************************************************************)
EXTENDS Columns, Sequences, FiniteSets, Functions

CONSTANTS
    Worker,       \* requests in flight
    Importer,     \* the import process
    Category,     \* the seeded categories
    CategoryRef,  \* the category ids clients write
    Bodies,       \* the bodies of POST and PUT
    Files,        \* the data rows of the CSV files
    MaxPosts,     \* bound: valid items clients ever post
    MaxItem,      \* bound: item ids ever allocated
    Malformed,    \* a CSV row the reader or parseItem refuses
    NULL

Body == [wellFormed : BOOLEAN,      \* the name is not blank and the type valid
         price : Int, stock : Int,
         categories : Seq(CategoryRef)]

ASSUME CategoryAssumption == Category \subseteq CategoryRef
ASSUME BodiesAssumption == Bodies \subseteq Body
ASSUME MalformedAssumption == Malformed \notin Body
ASSUME FilesAssumption == \A f \in Files : f \in Seq(Body \cup {Malformed})
ASSUME ImporterAssumption == Importer \notin Worker
ASSUME PostsAssumption == MaxPosts \in Nat
ASSUME ItemAssumption ==
    /\ MaxItem \in Nat
    /\ MaxPosts <= MaxItem
    /\ \A f \in Files : MaxPosts + Cardinality({n \in DOMAIN f : f[n] # Malformed}) <= MaxItem

ItemId == 1 .. MaxItem
Process == Worker \cup {Importer}

\* The columns of an item the module tells apart; a PUT sets all of them.
ItemRow == [price : Int32, stock : Int32]

Opt(S) == S \cup {NULL}

ASSUME NullAssumption == NULL \notin ItemRow \cup Body \cup Process

VARIABLES
    item,          \* table item
    nextItem,      \* its AUTO_INCREMENT
    categoryItem,  \* table category_item: <<category, item>>
    pc,            \* the next statement of each process
    loc,           \* its locals
    reply,         \* the answer, or CreateItem's result, it has
    import,        \* the importer's run
    posts,         \* bound: valid items posted so far
    alone,         \* auxiliary: nobody else wrote the process's item since it began
    maker          \* auxiliary: who inserted each item

tables == <<item, nextItem, categoryItem>>
catalogVars == <<item, nextItem, categoryItem, pc, loc, reply, import, posts, alone, maker>>

Local == [body : Opt(Body), id : ItemId \cup {0}, k : Nat \ {0}]
NoLocal == [body |-> NULL, id |-> 0, k |-> 1]

Places == {"idle", "insert", "update", "clear", "link", "respond"}
Reply == {"none", "ok", "bad_param", "not_found", "internal"}

Import ==
    [file     : Files \cup {<< >>},
     line     : Nat \ {0},
     imported : Nat,
     failed   : Nat,
     state    : {"not_started", "running", "done", "no_rows", "killed"}]

Init ==
    /\ item = [i \in ItemId |-> NULL]
    /\ nextItem = 1
    /\ categoryItem = {}
    /\ pc = [p \in Process |-> "idle"]
    /\ loc = [p \in Process |-> NoLocal]
    /\ reply = [p \in Process |-> "none"]
    /\ import = [file |-> << >>, line |-> 1, imported |-> 0, failed |-> 0,
                 state |-> "not_started"]
    /\ posts = 0
    /\ alone = [p \in Process |-> TRUE]
    /\ maker = [i \in ItemId |-> NULL]

-----------------------------------------------------------------------------
(* Statements *)

\* service.validate.
Valid(b) == b.wellFormed /\ b.price >= 0 /\ b.stock >= 0

Row(b) == [price |-> ToInt32(b.price), stock |-> ToInt32(b.stock)]

CategoriesOf(i) == {c \in Category : <<c, i>> \in categoryItem}

\* Process p writes a row of item i: whoever else works on i is not alone.
Wrote(p, i) ==
    alone' = [q \in Process |-> alone[q] /\ (q # p => loc[q].id # i)]

InsertItem(p) ==
    /\ item' = [item EXCEPT ![nextItem] = Row(loc[p].body)]
    /\ nextItem' = nextItem + 1
    /\ maker' = [maker EXCEPT ![nextItem] = p]
    /\ Wrote(p, nextItem)
    /\ UNCHANGED categoryItem

\* MySQL reports the rows an UPDATE changed, not those it matched.
RowsAffected(p) ==
    LET row == item[loc[p].id]
    IN  IF row = NULL \/ row = Row(loc[p].body) THEN 0 ELSE 1

UpdateItem_Upsert(p) ==
    /\ item' = [item EXCEPT ![loc[p].id] = Row(loc[p].body)]
    /\ Wrote(p, loc[p].id)
    /\ UNCHANGED <<nextItem, categoryItem, maker>>

UpdateItem(p) ==
    /\ IF RowsAffected(p) = 0
       THEN UNCHANGED <<item, alone>>
       ELSE /\ item' = [item EXCEPT ![loc[p].id] = Row(loc[p].body)]
            /\ Wrote(p, loc[p].id)
    /\ UNCHANGED <<nextItem, categoryItem, maker>>

DeleteItemCategories_Skipped(p) ==
    /\ Wrote(p, loc[p].id)
    /\ UNCHANGED <<item, nextItem, maker, categoryItem>>

DeleteItemCategories(p) ==
    /\ categoryItem' = {ci \in categoryItem : ci[2] # loc[p].id}
    /\ Wrote(p, loc[p].id)
    /\ UNCHANGED <<item, nextItem, maker>>

\* The category the next INSERT links.
Linked(p) == <<loc[p].body.categories[loc[p].k], loc[p].id>>

CanLink_NoForeignKey(p) == Linked(p) \notin categoryItem

\* Both columns are foreign keys and together the primary key.
CanLink(p) == Linked(p)[1] \in Category /\ Linked(p) \notin categoryItem

AddItemCategory(p) ==
    /\ categoryItem' = categoryItem \cup {Linked(p)}
    /\ Wrote(p, loc[p].id)
    /\ UNCHANGED <<item, nextItem, maker>>

-----------------------------------------------------------------------------
(* The handlers *)

Set(p, locals) == loc' = [loc EXCEPT ![p] = locals]
Goto(p, place) == pc' = [pc EXCEPT ![p] = place]

\* The use-case returns: reply is its result.
Return(p, result) ==
    /\ reply' = [reply EXCEPT ![p] = result]
    /\ Goto(p, "respond")

\* A use-case begins with these locals, or refuses them.
Begin(p, place, accepted, locals) ==
    \/ accepted /\ Set(p, locals) /\ Goto(p, place) /\ UNCHANGED reply
    \/ ~accepted /\ Return(p, "bad_param") /\ UNCHANGED loc

\* The process is done with its use-case.
Finish(p) ==
    /\ pc[p] = "respond"
    /\ Goto(p, "idle")
    /\ Set(p, NoLocal)
    /\ reply' = [reply EXCEPT ![p] = "none"]
    /\ alone' = [alone EXCEPT ![p] = TRUE]

SubmitCreate(w, b) ==
    /\ pc[w] = "idle"
    /\ Valid(b) => posts < MaxPosts
    /\ posts' = IF Valid(b) THEN posts + 1 ELSE posts
    /\ Begin(w, "insert", Valid(b), [NoLocal EXCEPT !.body = b])
    /\ UNCHANGED <<tables, import, alone, maker>>

SubmitUpdate(w, i, b) ==
    /\ pc[w] = "idle"
    /\ Begin(w, "update", i # 0 /\ Valid(b), [body |-> b, id |-> i, k |-> 1])
    /\ UNCHANGED <<tables, import, posts, alone, maker>>

\* ItemRepository.Create: the item row and its id.
CreateItem(p) ==
    /\ pc[p] = "insert"
    /\ InsertItem(p)
    /\ Set(p, [loc[p] EXCEPT !.id = nextItem])
    /\ Goto(p, "clear")
    /\ UNCHANGED <<reply, import, posts>>

\* ItemRepository.Update: the item row, if there is a change to make.
ReplaceItem(p) ==
    /\ pc[p] = "update"
    /\ UpdateItem(p)
    /\ IF RowsAffected(p) = 0
       THEN Return(p, "not_found")
       ELSE Goto(p, "clear") /\ UNCHANGED reply
    /\ UNCHANGED <<loc, import, posts>>

\* replaceCategories: DELETE ...
ClearCategories(p) ==
    /\ pc[p] = "clear"
    /\ DeleteItemCategories(p)
    /\ IF loc[p].body.categories = << >>
       THEN Return(p, "ok")
       ELSE Goto(p, "link") /\ UNCHANGED reply
    /\ UNCHANGED <<loc, import, posts>>

\* ... and an INSERT for each id of the request.
LinkCategory(p) ==
    /\ pc[p] = "link"
    /\ \/ /\ CanLink(p)
          /\ AddItemCategory(p)
          /\ Set(p, [loc[p] EXCEPT !.k = @ + 1])
          /\ IF loc[p].k = Len(loc[p].body.categories)
             THEN Return(p, "ok")
             ELSE UNCHANGED <<pc, reply>>
       \/ /\ ~CanLink(p)
          /\ Return(p, "internal")
          /\ UNCHANGED <<tables, loc, alone, maker>>
    /\ UNCHANGED <<import, posts>>

\* A statement fails: the deadline passed or the connection broke.  It was
\* executed, or it was not.
StatementFails(p) ==
    /\ \/ pc[p] \in {"insert", "update", "clear", "link"} /\ UNCHANGED <<tables, alone, maker>>
       \/ pc[p] = "insert" /\ InsertItem(p)
       \/ pc[p] = "update" /\ UpdateItem(p)
       \/ pc[p] = "clear" /\ DeleteItemCategories(p)
       \/ pc[p] = "link" /\ CanLink(p) /\ AddItemCategory(p)
    /\ Return(p, "internal")
    /\ UNCHANGED <<loc, import, posts>>

Respond(w) ==
    /\ Finish(w)
    /\ UNCHANGED <<tables, import, posts, maker>>

-----------------------------------------------------------------------------
(* cmd/import *)

StartImport(f) ==
    /\ import.state = "not_started"
    /\ import' = [import EXCEPT !.file = f, !.state = "running"]
    /\ UNCHANGED <<tables, pc, loc, reply, posts, alone, maker>>

Reading == import.state = "running" /\ pc[Importer] = "idle"

\* reader.Read and parseItem, and CreateItem up to its first statement.
ReadRow ==
    /\ Reading
    /\ import.line <= Len(import.file)
    /\ LET row == import.file[import.line]
       IN  \/ /\ row = Malformed
              /\ import' = [import EXCEPT !.line = @ + 1, !.failed = @ + 1]
              /\ UNCHANGED <<pc, loc, reply>>
           \/ /\ row # Malformed
              /\ Begin(Importer, "insert", Valid(row), [NoLocal EXCEPT !.body = row])
              /\ UNCHANGED import
    /\ UNCHANGED <<tables, posts, alone, maker>>

CountRow_AllImported ==
    /\ Finish(Importer)
    /\ import' = [import EXCEPT !.line = @ + 1, !.imported = @ + 1]
    /\ UNCHANGED <<tables, posts, maker>>

\* CreateItem returned: the row counts as imported or as failed.
CountRow ==
    /\ Finish(Importer)
    /\ import' = IF reply[Importer] = "ok"
                 THEN [import EXCEPT !.line = @ + 1, !.imported = @ + 1]
                 ELSE [import EXCEPT !.line = @ + 1, !.failed = @ + 1]
    /\ UNCHANGED <<tables, posts, maker>>

\* End of file: the exit status.
EndImport ==
    /\ Reading
    /\ import.line > Len(import.file)
    /\ import' = [import EXCEPT !.state =
                    IF import.imported = 0 /\ import.failed > 0 THEN "no_rows" ELSE "done"]
    /\ UNCHANGED <<tables, pc, loc, reply, posts, alone, maker>>

KillImport ==
    /\ import.state = "running"
    /\ import' = [import EXCEPT !.state = "killed"]
    /\ Goto(Importer, "idle")
    /\ Set(Importer, NoLocal)
    /\ reply' = [reply EXCEPT ![Importer] = "none"]
    /\ alone' = [alone EXCEPT ![Importer] = TRUE]
    /\ UNCHANGED <<tables, posts, maker>>

\* The server dies.
Crash ==
    /\ \E w \in Worker : pc[w] # "idle"
    /\ pc' = [p \in Process |-> IF p \in Worker THEN "idle" ELSE pc[p]]
    /\ loc' = [p \in Process |-> IF p \in Worker THEN NoLocal ELSE loc[p]]
    /\ reply' = [p \in Process |-> IF p \in Worker THEN "none" ELSE reply[p]]
    /\ alone' = [p \in Process |-> p \in Worker \/ alone[p]]
    /\ UNCHANGED <<tables, import, posts, maker>>

-----------------------------------------------------------------------------

Statement(p) == CreateItem(p) \/ ReplaceItem(p) \/ ClearCategories(p) \/ LinkCategory(p)

Handlers ==
    \E w \in Worker :
      \/ \E b \in Bodies : SubmitCreate(w, b) \/ \E i \in ItemId \cup {0} : SubmitUpdate(w, i, b)
      \/ Respond(w)
      \/ Statement(w)
      \/ StatementFails(w)

ImportProcess ==
    \/ \E f \in Files : StartImport(f)
    \/ ReadRow \/ CountRow \/ EndImport \/ KillImport
    \/ Statement(Importer) \/ StatementFails(Importer)

Next == Handlers \/ ImportProcess \/ Crash

Spec == Init /\ [][Next]_catalogVars

-----------------------------------------------------------------------------
(* Properties *)

\* The type invariant; what category_item refers to exists.
CatalogTypeOK ==
    /\ item \in [ItemId -> Opt(ItemRow)]
    /\ nextItem \in 1 .. MaxItem + 1
    /\ categoryItem \subseteq Category \X {i \in ItemId : item[i] # NULL}
    /\ pc \in [Process -> Places]
    /\ loc \in [Process -> Local]
    /\ reply \in [Process -> Reply]
    /\ import \in Import
    /\ posts \in 0 .. MaxPosts
    /\ alone \in [Process -> BOOLEAN]
    /\ maker \in [ItemId -> Opt(Process)]

\* Whoever is told that an item was stored finds the amounts and exactly the
\* categories of the request in the tables, unless another writer of the item came
\* between.  (Two PUTs that overlap may both succeed and leave a mix of categories.)
\* An amount beyond its column is the exception: the answer shows it as it was
\* sent, the table as int32 has cut it.
AnswerIsStored ==
    \A p \in Process : (reply[p] = "ok" /\ alone[p]) =>
      LET b   == loc[p].body
          row == item[loc[p].id]
      IN
      /\ row # NULL
      /\ b.price \in Int32 => row.price = b.price
      /\ b.stock \in Int32 => row.stock = b.stock
      /\ CategoriesOf(loc[p].id) = {b.categories[n] : n \in DOMAIN b.categories}

\* The items the importer has inserted.
Made == {i \in ItemId : maker[i] = Importer}

\* The importer's counts account for the file and bound what it stored: each
\* imported row is an item, and no row is two; a failed row may be one.
ImportCountsAddUp ==
    LET counted == import.imported + import.failed IN
    /\ import.imported <= Cardinality(Made)
    /\ Cardinality(Made) <= counted + 1
    /\ import.state = "running" => counted = import.line - 1
    /\ import.state \in {"done", "no_rows"} =>
         /\ counted = Len(import.file)
         /\ Cardinality(Made) <= counted

\* The rows that pass validate.
ValidRows == {Row(b) : b \in {v \in Bodies \cup UNION {Range(f) : f \in Files} : v # Malformed /\ Valid(v)}}

Stored == INSTANCE ItemTables WITH Rows <- ValidRows

\* Whatever the handlers and the importer do, fail at or die in, other readers of
\* the tables only ever see one of these statements at a time: a whole row of a
\* request that passed validate, ids in order and never reused, categories
\* linked to and unlinked from items that exist.
ImplementsItemTables == Stored!TablesSpec

\* "requested resource is not found" (shared.go): a PUT answers so only if there
\* is no such item.
NotFoundMeansAbsent ==
    [][\A p \in Process : (reply'[p] = "not_found" /\ reply[p] # "not_found") =>
         item[loc[p].id] = NULL]_catalogVars

\* "no rows imported" (cmd/import): the importer stored nothing.
NoRowsMeansNothingStored == import.state = "no_rows" => Made = {}
=============================================================================
