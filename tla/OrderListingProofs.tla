------------------------- MODULE OrderListingProofs -------------------------
(* What GET /members/{id}/orders tells is whole and stays true, although    *)
(* its three queries see three moments.                                     *)
EXTENDS OrderListing, OrderingAtomicityProofs

OrdersInv == TypeInv /\ LockInv /\ HandlersInv /\ AtomInv

\* What was listed of an order o is still so in the tables d.
HoldsIn(d, o) ==
    /\ d.orders[o.id] # NULL
    /\ d.orders[o.id].member = o.member
    /\ d.orders[o.id].delivery = o.delivery
    /\ o.status = "CANCEL" => d.orders[o.id].status = "CANCEL"

\* A listing n of an order listed before as o.
Advances(o, n) ==
    /\ n.id = o.id /\ n.member = o.member /\ n.delivery = o.delivery
    /\ o.status = "CANCEL" => n.status = "CANCEL"

(* The inductive invariant behind ListedOrdersAreWhole and ListingsAdvance: *)
(* the reader holds orders that are in the tables; once it has their lines  *)
(* it has all of them, and so with the deliveries; and it holds every order *)
(* it told the member of before.                                            *)
ReaderOK(r, d) ==
    /\ r \in Reader
    /\ \A o \in r.orders \cup r.told : HoldsIn(d, o)
    /\ r.place # "idle" =>
         /\ \A o \in r.orders : o.member = r.member
         /\ \A o \in r.told : o.member = r.member => \E n \in r.orders : Advances(o, n)
    /\ r.place \in {"deliveries", "answer"} =>
         \A o \in r.orders : {l \in r.lines : l.order = o.id} = LinesIn(d, o.id)
    /\ r.place = "answer" => \A o \in r.orders : o.delivery \in r.deliveries

ListingInv == OrdersInv /\ ReaderOK(reader, db)

-----------------------------------------------------------------------------

LEMMA ListingSteps == [ListingNext]_listingVars => [Next]_vars
BY DEF ListingNext, Next, listingVars, vars

LEMMA OrdersInvNext == OrdersInv /\ [Next]_vars => OrdersInv' /\ OrdersKept(db, db')
BY TypeNext, LockNext, HandlersNext, AtomNext, OrdersKeptNext DEF OrdersInv

LEMMA IdleReaderOK ==
  ASSUME NEW d, NEW told \in SUBSET ListedOrder, \A o \in told : HoldsIn(d, o)
  PROVE  ReaderOK(IdleReader(told), d)
BY DEF ReaderOK, IdleReader, Reader, Opt

\* Whatever the other handlers commit, the reader is still right.
LEMMA ReaderKept ==
  ASSUME NEW r, NEW d, NEW e, ReaderOK(r, d), OrdersKept(d, e)
  PROVE  ReaderOK(r, e)
<1>1. r \in Reader
  BY DEF ReaderOK
<1>2. \A o \in r.orders \cup r.told : o.id \in OrderId
  BY <1>1 DEF Reader, ListedOrder
<1>3. \A o \in r.orders \cup r.told :
        HoldsIn(e, o) /\ LinesIn(e, o.id) = LinesIn(d, o.id)
  BY <1>2 DEF ReaderOK, OrdersKept, HoldsIn
<1> QED
  BY <1>1, <1>3 DEF ReaderOK

LEMMA ReaderListOrders ==
  ASSUME ListingInv, NEW m \in MemberId, ListOrders(m)
  PROVE  ReaderOK(reader', db)
<1> DEFINE p == IF OrdersOf(m) = {} THEN "answer" ELSE "items"
           r == [reader EXCEPT !.place = p, !.member = m, !.orders = OrdersOf(m)]
<1>1. reader' = r /\ reader \in Reader /\ db \in Tables
  BY DEF ListOrders, ListingInv, ReaderOK, OrdersInv, TypeInv, TypeOK, DatabaseTypeOK
<1>2. \A o \in OrderId : db.orders[o] # NULL => db.orders[o] \in OrderRow
  BY <1>1 DEF Tables, Opt
<1>3. OrdersOf(m) \in SUBSET ListedOrder
  BY <1>2 DEF OrdersOf, ListedOrder, OrderRow
<1>4. \A n \in OrdersOf(m) : HoldsIn(db, n) /\ n.member = m
  BY DEF OrdersOf, HoldsIn
<1>5. \A o \in reader.told : HoldsIn(db, o) /\ o.id \in OrderId
  BY <1>1 DEF ListingInv, ReaderOK, Reader, ListedOrder
<1>6. ASSUME NEW o \in reader.told, o.member = m
      PROVE  \E n \in OrdersOf(m) : Advances(o, n)
  <2> DEFINE n == [id |-> o.id, member |-> m, status |-> db.orders[o.id].status,
                   delivery |-> db.orders[o.id].delivery]
  <2>1. n \in OrdersOf(m)
    BY <1>5, <1>6 DEF OrdersOf, HoldsIn
  <2>2. Advances(o, n)
    BY <1>5, <1>6 DEF Advances, HoldsIn
  <2> QED BY <2>1, <2>2
<1>7. /\ r \in Reader /\ r.place = p /\ r.member = m /\ r.orders = OrdersOf(m)
      /\ r.told = reader.told
  <2>1. p \in {"idle", "items", "deliveries", "answer"} /\ m \in Opt(MemberId)
    BY DEF Opt
  <2> HIDE DEF p
  <2> QED BY <1>1, <1>3, <2>1 DEF Reader
<1>8. p \in {"items", "answer"} /\ (p = "answer" => OrdersOf(m) = {})
  OBVIOUS
<1> HIDE DEF r, p
<1> QED
  BY <1>1, <1>4, <1>5, <1>6, <1>7, <1>8 DEF ReaderOK

LEMMA ReaderLoadItems ==
  ASSUME ListingInv, LoadItems
  PROVE  ReaderOK(reader', db)
<1> DEFINE lines == UNION {LinesOf(o.id) : o \in reader.orders}
           r     == [reader EXCEPT !.place = "deliveries", !.lines = lines]
<1>1. reader' = r /\ reader.place = "items"
  BY DEF LoadItems, Batch
<1>2. ReaderOK(reader, db) /\ reader \in Reader /\ db \in Tables
  BY DEF ListingInv, ReaderOK, OrdersInv, TypeInv, TypeOK, DatabaseTypeOK
<1>3. lines \in SUBSET LineRow
  BY <1>2 DEF LinesOf, Tables
<1>4. \A o \in reader.orders : {l \in lines : l.order = o.id} = LinesIn(db, o.id)
  BY DEF LinesOf, LinesIn
<1> HIDE DEF lines
<1>5. /\ r \in Reader /\ r.place = "deliveries" /\ r.lines = lines
      /\ r.orders = reader.orders /\ r.told = reader.told /\ r.member = reader.member
  BY <1>2, <1>3 DEF Reader
<1> HIDE DEF r
<1> QED
  BY <1>1, <1>2, <1>4, <1>5 DEF ReaderOK

LEMMA ReaderLoadDeliveries ==
  ASSUME ListingInv, LoadDeliveries
  PROVE  ReaderOK(reader', db)
<1> DEFINE ids == db.delivery \cap {o.delivery : o \in reader.orders}
           r   == [reader EXCEPT !.place = "answer", !.deliveries = ids]
<1>1. reader' = r /\ reader.place = "deliveries"
  BY DEF LoadDeliveries
<1>2. ReaderOK(reader, db) /\ reader \in Reader /\ db \in Tables
  BY DEF ListingInv, ReaderOK, OrdersInv, TypeInv, TypeOK, DatabaseTypeOK
<1>3. \A o \in reader.orders : o.delivery \in ids
  <2>1. TAKE o \in reader.orders
  <2>2. o.id \in OrderId /\ HoldsIn(db, o)
    BY <1>2 DEF ReaderOK, Reader, ListedOrder
  <2>3. db.orders[o.id].delivery \in db.delivery
    BY <2>2 DEF ListingInv, OrdersInv, AtomInv, TablesWhole, HoldsIn
  <2> QED BY <2>2, <2>3 DEF HoldsIn
<1>4. ids \in SUBSET DeliveryId
  BY <1>2 DEF Tables
<1> HIDE DEF ids
<1>5. /\ r \in Reader /\ r.place = "answer" /\ r.lines = reader.lines /\ r.deliveries = ids
      /\ r.orders = reader.orders /\ r.told = reader.told /\ r.member = reader.member
  BY <1>2, <1>4 DEF Reader
<1> HIDE DEF r
<1> QED
  BY <1>1, <1>2, <1>3, <1>5 DEF ReaderOK

LEMMA ReaderAnswerListing ==
  ASSUME ListingInv, AnswerListing
  PROVE  ReaderOK(reader', db)
<1> DEFINE told == {o \in reader.told : o.member # reader.member} \cup reader.orders
<1>1. reader' = IdleReader(told) /\ ReaderOK(reader, db)
  BY DEF AnswerListing, ListingInv
<1>2. told \in SUBSET ListedOrder /\ \A o \in told : HoldsIn(db, o)
  BY <1>1 DEF ReaderOK, Reader
<1> HIDE DEF told
<1> QED
  BY <1>1, <1>2, IdleReaderOK

\* No list, after all: what was told before is all there is.
LEMMA ReaderGivesUp ==
  ASSUME NEW d, ReaderOK(reader, d), reader' = IdleReader(reader.told)
  PROVE  ReaderOK(reader', d)
<1>1. reader.told \in SUBSET ListedOrder /\ \A o \in reader.told : HoldsIn(d, o)
  BY DEF ReaderOK, Reader
<1> QED
  BY <1>1, IdleReaderOK

LEMMA ListingInvInit == ListingInit => ListingInv
<1> SUFFICES ASSUME ListingInit PROVE ListingInv
  OBVIOUS
<1>1. OrdersInv
  BY TypeInit, LockInit, HandlersInit, AtomInit DEF ListingInit, OrdersInv
<1> QED
  BY <1>1, IdleReaderOK DEF ListingInit, ListingInv

LEMMA ListingInvNext == ListingInv /\ [ListingNext]_listingVars => ListingInv'
<1> SUFFICES ASSUME ListingInv, [ListingNext]_listingVars PROVE ListingInv'
  OBVIOUS
<1>1. OrdersInv' /\ OrdersKept(db, db')
  BY ListingSteps, OrdersInvNext DEF ListingInv
<1>2. ReaderOK(reader, db')
  BY <1>1, ReaderKept DEF ListingInv
<1>3. CASE UNCHANGED reader
  BY <1>1, <1>2, <1>3 DEF ListingInv
<1>4. CASE reader' = IdleReader(reader.told)
  BY <1>1, <1>2, <1>4, ReaderGivesUp DEF ListingInv
<1>5. CASE Listing /\ UNCHANGED vars
  <2>1. ReaderOK(reader', db)
    BY <1>5, ReaderListOrders, ReaderLoadItems, ReaderLoadDeliveries, ReaderAnswerListing,
       ReaderGivesUp DEF Listing, ListingFails, ListingInv
  <2>2. db' = db
    BY <1>5 DEF vars
  <2> QED BY <1>1, <2>1, <2>2 DEF ListingInv
<1> QED
  BY <1>3, <1>4, <1>5 DEF ListingNext, listingVars

LEMMA ListingAlways == ListingSpec => []ListingInv
BY ListingInvInit, ListingInvNext, PTL DEF ListingSpec

-----------------------------------------------------------------------------

\* Every variable of the listing and of the requests beside it has its type.
THEOREM ListingTypeCorrect == ListingSpec => []ListingTypeOK
<1>1. ListingInv => ListingTypeOK
  BY DEF ListingInv, OrdersInv, TypeInv, ReaderOK, ListingTypeOK
<1> QED
  BY <1>1, ListingAlways, PTL

\* FindByMember needs no transaction: an order in the answer comes with all its
\* lines and its delivery, whatever is placed or canceled between the queries.
THEOREM ListedOrdersWhole == ListingSpec => []ListedOrdersAreWhole
<1>1. ASSUME ListingInv PROVE ListedOrdersAreWhole
  <2> SUFFICES ASSUME reader.place = "answer", NEW o \in reader.orders
               PROVE  /\ db.orders[o.id] # NULL
                      /\ o.delivery = db.orders[o.id].delivery
                      /\ o.delivery \in reader.deliveries
                      /\ {l \in reader.lines : l.order = o.id} = LinesOf(o.id)
                      /\ LinesOf(o.id) # {}
    BY DEF ListedOrdersAreWhole
  <2>1. o.id \in OrderId /\ HoldsIn(db, o) /\ ReaderOK(reader, db)
    BY <1>1 DEF ListingInv, ReaderOK, Reader, ListedOrder
  <2>2. LinesOf(o.id) = LinesIn(db, o.id)
    BY DEF LinesOf, LinesIn
  <2>3. LinesIn(db, o.id) # {}
    BY <1>1, <2>1 DEF ListingInv, OrdersInv, AtomInv, TablesWhole, HoldsIn
  <2> QED BY <2>1, <2>2, <2>3 DEF ReaderOK, HoldsIn
<1> QED
  BY <1>1, ListingAlways, PTL

\* No later answer takes back what an earlier one told the member: an order
\* once listed is listed again, with its delivery, and a canceled one stays
\* canceled, whatever fails or crashes in between.
THEOREM ListingsOnlyAdvance == ListingSpec => ListingsAdvance
<1> DEFINE Step == \A o \in reader.told : \E n \in reader'.told :
                     /\ n.id = o.id /\ n.member = o.member /\ n.delivery = o.delivery
                     /\ o.status = "CANCEL" => n.status = "CANCEL"
<1>1. ListingInv /\ [ListingNext]_listingVars => [Step]_listingVars
  <2> SUFFICES ASSUME ListingInv, ListingNext, NEW o \in reader.told
               PROVE  \E n \in reader'.told : Advances(o, n)
    BY DEF Advances
  <2>1. Advances(o, o)
    BY DEF Advances
  <2>2. CASE reader'.told = reader.told
    BY <2>1, <2>2
  <2>3. CASE AnswerListing
    <3>1. reader'.told = {p \in reader.told : p.member # reader.member} \cup reader.orders
      BY <2>3 DEF AnswerListing, IdleReader
    <3>2. o.member = reader.member => \E n \in reader.orders : Advances(o, n)
      BY <2>3 DEF AnswerListing, ListingInv, ReaderOK
    <3> QED BY <2>1, <3>1, <3>2
  <2>4. ASSUME Listing, ~AnswerListing PROVE reader'.told = reader.told
    <3>1. reader \in Reader
      BY DEF ListingInv, ReaderOK
    <3>2. ASSUME NEW m \in MemberId, ListOrders(m) PROVE reader'.told = reader.told
      BY <3>1, <3>2 DEF ListOrders, Reader
    <3>3. CASE LoadItems
      BY <3>1, <3>3 DEF LoadItems, Reader
    <3>4. CASE LoadDeliveries
      BY <3>1, <3>4 DEF LoadDeliveries, Reader
    <3>5. CASE ListingFails
      BY <3>5 DEF ListingFails, IdleReader
    <3> QED BY <2>4, <3>2, <3>3, <3>4, <3>5 DEF Listing
  <2>5. CASE Crash /\ reader' = IdleReader(reader.told)
    BY <2>2, <2>5 DEF IdleReader
  <2> QED BY <2>2, <2>3, <2>4, <2>5 DEF ListingNext
<1>2. ListingSpec => [][Step]_listingVars
  <2> HIDE DEF Step
  <2> QED BY <1>1, ListingAlways, PTL DEF ListingSpec
<1> QED
  BY <1>2 DEF ListingsAdvance
=============================================================================
