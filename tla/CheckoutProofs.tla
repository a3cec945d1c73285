---------------------------- MODULE CheckoutProofs -----------------------------
(***************************************************************************)
(* Proofs about Checkout, for any number of checkouts, items, orders and   *)
(* canteens.  What the lines of an order sum up to is left opaque: the     *)
(* proofs only need that it is a function of prices and quantities.        *)
(***************************************************************************)
EXTENDS Checkout, TLAPS

(* Ids of orders in the making are given to one request. *)
NamesApart ==
  \A s \in Slots : req[s].pc # "idle" =>
    /\ req[s].order # None /\ req[s].canteenId # None
    /\ req[s].pc = "order.create" => ~ Exists(req[s].order)
    /\ \A t \in Slots : t # s => req[t].order # req[s].order

(* What a request is about to do rests on what it has read: its items were *)
(* on the menu of its canteen, where they stay until they are deleted; and *)
(* the order for which it will clear the cart is there.                    *)
Backed(s) ==
  /\ req[s].pc = "order.create" =>
       \A i \in Lines(req[s]) :
         menu[i].state # "new" /\ menu[i].canteenId = req[s].canteenId
  /\ req[s].pc = "order.clear" =>
       Exists(req[s].order) /\ orders[req[s].order].quantity = req[s].quantity

IInv == TypeOK /\ NamesApart /\ (\A s \in Slots : Backed(s)) /\ OrdersAddUp

------------------------------------------------------------------------------
LEMMA EmptyCartIsCart == EmptyCart \in Cart
<1> QED
  BY DEF EmptyCart, Cart

LEMMA IdleIsRequest == Idle \in Request
<1> QED
  BY EmptyCartIsCart DEF Idle, Request, EmptyCart, Cart

LEMMA SavedIsOrder ==
  ASSUME NEW r \in Request, Representable(r)
  PROVE  Saved(r) \in OrderRow
<1> QED
  BY DEF Saved, OrderRow, Request, Representable, Lines

LEMMA NoOrderIsOrder == NoOrder \in OrderRow
<1> QED
  BY EmptyCartIsCart, CheckoutAssumption DEF NoOrder, OrderRow, EmptyCart

(* The sum depends on prices and quantities alone. *)
LEMMA SameLines ==
  ASSUME NEW r, NEW q, r.quantity = q.quantity, r.unitPriceInPaise = q.unitPriceInPaise
  PROVE  Subtotal(r) = Subtotal(q) /\ Lines(r) = Lines(q)
<1>1. LineTotal(r) = LineTotal(q)
  BY DEF LineTotal
<1> QED
  BY <1>1 DEF Subtotal, Lines

LEMMA SavedAddsUp ==
  ASSUME NEW r
  PROVE  Saved(r).totalInPaise = Subtotal(Saved(r)) /\ Lines(Saved(r)) = Lines(r)
<1>1. Subtotal(Saved(r)) = Subtotal(r) /\ Lines(Saved(r)) = Lines(r)
  BY SameLines DEF Saved
<1> QED
  BY <1>1 DEF Saved

LEMMA MenuTypes ==
  ASSUME menu \in [Items -> MenuItemRow], createMenuItem \/ updateMenuItem \/ deleteMenuItem
  PROVE  menu' \in [Items -> MenuItemRow]
<1>1. CASE createMenuItem
  BY <1>1 DEF createMenuItem, MenuItemRow
<1>2. CASE updateMenuItem
  BY <1>2 DEF updateMenuItem, MenuItemRow
<1>3. CASE deleteMenuItem
  BY <1>3 DEF deleteMenuItem, MenuItemRow
<1> QED
  BY <1>1, <1>2, <1>3

LEMMA ReadingIsRequest ==
  ASSUME menu \in [Items -> MenuItemRow], NEW o \in Orders, NEW c \in Canteens, NEW q \in Cart
  PROVE  Reading(o, c, q) \in Request
<1> QED
  BY DEF Reading, Request, MenuItemRow, Cart

LEMMA TypeInit == Init => TypeOK
<1> SUFFICES ASSUME Init PROVE TypeOK
  OBVIOUS
<1>1. menu \in [Items -> MenuItemRow]
  BY DEF Init, MenuItemRow
<1>2. cart \in Cart /\ orders \in [Orders -> OrderRow] /\ req \in [Slots -> Request]
  BY EmptyCartIsCart, IdleIsRequest, NoOrderIsOrder DEF Init
<1>3. edits \in 0..MaxEdits /\ aborts \in 0..MaxAborts
  BY CheckoutAssumption DEF Init
<1>4. shown \in [Slots -> SUBSET [Items -> MenuItemRow]]
  BY DEF Init
<1> QED
  BY <1>1, <1>2, <1>3, <1>4 DEF TypeOK

(* Rows and requests without the counters and the history.                 *)
Rows == /\ menu \in [Items -> MenuItemRow]
        /\ cart \in Cart
        /\ orders \in [Orders -> OrderRow]
        /\ req \in [Slots -> Request]

LEMMA RowsStep == Rows /\ Step => Rows'
<1> SUFFICES ASSUME Rows, Step PROVE Rows'
  OBVIOUS
<1> USE DEF Rows
<1>1. CASE createMenuItem \/ updateMenuItem
  BY <1>1, MenuTypes DEF createMenuItem, updateMenuItem
<1>2. CASE deleteMenuItem
  <2>1. PICK i \in Items : orders' = [o \in Orders |-> [orders[o] EXCEPT !.menuItemId = @ \ {i}]]
    BY <1>2 DEF deleteMenuItem
  <2>2. orders' \in [Orders -> OrderRow]
    BY <2>1 DEF OrderRow
  <2> QED
    BY <1>2, <2>2, MenuTypes DEF deleteMenuItem
<1>3. CASE setCart \/ clearCart
  BY <1>3, EmptyCartIsCart DEF setCart, clearCart
<1>4. ASSUME NEW s \in Slots, MenuRead(s) PROVE Rows'
  <2>1. PICK r \in Request : req' = [req EXCEPT ![s] = r]
    BY <1>4, ReadingIsRequest DEF MenuRead, Become, FreshOrders
  <2> QED
    BY <1>4, <2>1 DEF MenuRead
<1>5. ASSUME NEW s \in Slots, OrderCreated(s) PROVE Rows'
  <2>1. req[s] \in Request /\ Saved(req[s]) \in OrderRow
    BY <1>5, SavedIsOrder DEF OrderCreated
  <2>2. [req[s] EXCEPT !.pc = "order.clear"] \in Request
    BY <2>1 DEF Request
  <2> QED
    BY <1>5, <2>1, <2>2 DEF OrderCreated, Become
<1>6. ASSUME NEW s \in Slots, OrderRefused(s) \/ CartCleared(s) \/ Abort(s) PROVE Rows'
  BY <1>6, IdleIsRequest, EmptyCartIsCart DEF OrderRefused, CartCleared, Abort, Respond, Become
<1> QED
  BY <1>1, <1>2, <1>3, <1>4, <1>5, <1>6 DEF Step, createOrder

LEMMA CountersStep ==
  edits \in 0..MaxEdits /\ aborts \in 0..MaxAborts /\ Step
    => edits' \in 0..MaxEdits /\ aborts' \in 0..MaxAborts
<1>1. Step => edits' = edits \/ Edit
  BY DEF Step, createMenuItem, updateMenuItem, deleteMenuItem, setCart,
     clearCart, createOrder, MenuRead, OrderCreated, OrderRefused, CartCleared, Abort
<1>2. Step => aborts' = aborts \/ (aborts < MaxAborts /\ aborts' = aborts + 1)
  BY DEF Step, createMenuItem, updateMenuItem, deleteMenuItem, setCart,
     clearCart, createOrder, MenuRead, OrderCreated, OrderRefused, CartCleared, Abort
<1> QED
  BY <1>1, <1>2, CheckoutAssumption DEF Edit

LEMMA TypeStep == TypeOK /\ [Next]_vars => TypeOK'
<1>1. ASSUME TypeOK, Step, Observe PROVE TypeOK'
  <2>1. Rows' /\ edits' \in 0..MaxEdits /\ aborts' \in 0..MaxAborts
    BY <1>1, RowsStep, CountersStep DEF TypeOK, Rows
  <2>2. shown' \in [Slots -> SUBSET [Items -> MenuItemRow]]
    BY <1>1, <2>1 DEF Observe, TypeOK, Rows
  <2> QED
    BY <2>1, <2>2 DEF TypeOK, Rows
<1>2. ASSUME TypeOK, UNCHANGED vars PROVE TypeOK'
  BY <1>2 DEF TypeOK, vars
<1> QED
  BY <1>1, <1>2 DEF Next

(* Totals fit their columns; menu, cart, orders and requests keep their    *)
(* domains.                                                                *)
THEOREM TypeCorrect == Spec => []TypeOK
<1> QED
  BY TypeInit, TypeStep, PTL DEF Spec

------------------------------------------------------------------------------
(* The inductive invariant.                                                *)

LEMMA InvInit == Init => IInv
<1> SUFFICES ASSUME Init PROVE IInv
  OBVIOUS
<1>1. \A s \in Slots : req[s].pc = "idle"
  BY DEF Init, Idle
<1>2. \A o \in Orders : ~ Exists(o)
  BY DEF Init, Exists, NoOrder
<1> QED
  BY <1>1, <1>2, TypeInit DEF IInv, NamesApart, Backed, OrdersAddUp

(* The managers: an item stays on the menu of its canteen until it is deleted. *)
LEMMA MenuKept ==
  ASSUME Rows, createMenuItem \/ updateMenuItem \/ deleteMenuItem, NEW i \in Items
  PROVE  menu[i].state # "new" =>
           menu'[i].state # "new" /\ menu'[i].canteenId = menu[i].canteenId
<1>1. CASE createMenuItem
  BY <1>1 DEF Rows, createMenuItem
<1>2. CASE updateMenuItem
  BY <1>2 DEF Rows, MenuItemRow, updateMenuItem
<1>3. CASE deleteMenuItem
  BY <1>3 DEF Rows, MenuItemRow, deleteMenuItem
<1> QED
  BY <1>1, <1>2, <1>3

LEMMA LiveKept ==
  ASSUME Rows, createMenuItem \/ updateMenuItem, NEW i \in Items
  PROVE  menu[i].state = "live" => menu'[i].state = "live"
<1> QED
  BY DEF Rows, MenuItemRow, createMenuItem, updateMenuItem

LEMMA EditKeepsInv ==
  ASSUME IInv, Rows', createMenuItem \/ updateMenuItem
  PROVE  NamesApart' /\ (\A s \in Slots : Backed(s)') /\ OrdersAddUp'
<1>1. req' = req /\ orders' = orders /\ Rows
  BY DEF createMenuItem, updateMenuItem, IInv, TypeOK, Rows
<1>2. NamesApart'
  BY <1>1 DEF IInv, NamesApart, Exists
<1>3. ASSUME NEW s \in Slots PROVE Backed(s)'
  <2>1. Lines(req[s]) \subseteq Items
    BY DEF Lines
  <2> QED
    BY <1>1, <2>1, MenuKept DEF IInv, Backed, Exists, Lines
<1>4. OrdersAddUp'
  <2>1. \A o \in Orders : orders[o].menuItemId \subseteq Items
    BY <1>1 DEF Rows, OrderRow
  <2> QED
    BY <1>1, <2>1, MenuKept, LiveKept DEF IInv, OrdersAddUp, Exists, Rows, MenuItemRow
<1> QED
  BY <1>2, <1>3, <1>4

LEMMA DeleteKeepsInv ==
  ASSUME IInv, Rows', deleteMenuItem
  PROVE  NamesApart' /\ (\A s \in Slots : Backed(s)') /\ OrdersAddUp'
<1>1. PICK i \in Items :
        /\ menu' = [menu EXCEPT ![i].state = "deleted"]
        /\ orders' = [o \in Orders |-> [orders[o] EXCEPT !.menuItemId = @ \ {i}]]
  BY DEF deleteMenuItem
<1>2. req' = req /\ Rows
  BY DEF deleteMenuItem, IInv, TypeOK, Rows
<1>3. ASSUME NEW o \in Orders
      PROVE  /\ orders'[o].quantity = orders[o].quantity
             /\ orders'[o].unitPriceInPaise = orders[o].unitPriceInPaise
             /\ orders'[o].totalInPaise = orders[o].totalInPaise
             /\ orders'[o].canteenId = orders[o].canteenId
             /\ orders'[o].menuItemId = orders[o].menuItemId \ {i}
             /\ Exists(o)' = Exists(o)
  BY <1>1, <1>2 DEF Rows, OrderRow, Exists
<1>4. \A s \in Slots : req[s].pc # "idle" => req[s].order \in Orders
  BY <1>2 DEF Rows, Request, IInv, NamesApart
<1>5. NamesApart'
  BY <1>2, <1>3, <1>4 DEF IInv, NamesApart
<1>6. ASSUME NEW s \in Slots PROVE Backed(s)'
  <2>1. Lines(req[s]) \subseteq Items
    BY DEF Lines
  <2> QED
    BY <1>2, <1>3, <1>4, <2>1, MenuKept DEF IInv, Backed, Lines
<1>7. ASSUME NEW o \in Orders, Exists(o)'
      PROVE  /\ orders'[o].totalInPaise = Subtotal(orders'[o])
             /\ orders'[o].menuItemId \subseteq Lines(orders'[o])
             /\ \A j \in orders'[o].menuItemId :
                  menu'[j].state = "live" /\ menu'[j].canteenId = orders'[o].canteenId
  <2>1. Subtotal(orders'[o]) = Subtotal(orders[o]) /\ Lines(orders'[o]) = Lines(orders[o])
    BY <1>3, SameLines
  <2>2. /\ orders[o].totalInPaise = Subtotal(orders[o])
        /\ orders[o].menuItemId \subseteq Lines(orders[o])
        /\ \A j \in orders[o].menuItemId :
             menu[j].state = "live" /\ menu[j].canteenId = orders[o].canteenId
    BY <1>3, <1>7 DEF IInv, OrdersAddUp
  <2>3. ASSUME NEW j \in orders'[o].menuItemId
        PROVE  menu'[j].state = "live" /\ menu'[j].canteenId = orders'[o].canteenId
    <3>1. j \in Items /\ j # i /\ j \in orders[o].menuItemId
      BY <1>2, <1>3 DEF Rows, OrderRow
    <3>2. menu'[j] = menu[j]
      BY <1>1, <1>2, <3>1 DEF Rows
    <3> QED
      BY <1>3, <2>2, <3>1, <3>2
  <2> QED
    BY <1>3, <2>1, <2>2, <2>3
<1>8. OrdersAddUp'
  BY <1>7 DEF OrdersAddUp
<1> QED
  BY <1>5, <1>6, <1>8

(* A request moves: the others keep what they rest on if their orders do.  *)
LEMMA OneMoves ==
  ASSUME IInv, Rows', NEW s \in Slots, menu' = menu,
         req' = [req EXCEPT ![s] = req'[s]],
         \A o \in Orders : o # req[s].order => orders'[o] = orders[o],
         \A o \in Orders : Exists(o) => orders'[o] = orders[o],
         req'[s].pc # "idle" =>
           /\ req'[s].order # None /\ req'[s].canteenId # None
           /\ req'[s].pc = "order.create" => orders'[req'[s].order].canteenId = None
           /\ \A t \in Slots : t # s => req[t].order # req'[s].order,
         req[s].pc = "idle" => orders' = orders,
         req'[s].pc = "idle" => req'[s].order = None,
         Backed(s)'
  PROVE  NamesApart' /\ \A t \in Slots : Backed(t)'
<1>1. Rows
  BY DEF IInv, TypeOK, Rows
<1>2. \A t \in Slots : t # s => req'[t] = req[t]
  BY <1>1 DEF Rows
<1>3. ASSUME NEW t \in Slots, t # s, req[t].pc # "idle"
      PROVE  /\ req[t].order \in Orders
             /\ orders'[req[t].order] = orders[req[t].order]
             /\ orders'[req'[t].order].canteenId = orders[req[t].order].canteenId
  <2>1. req[t].order \in Orders
    BY <1>1, <1>3 DEF Rows, Request, IInv, NamesApart
  <2>2. orders'[req[t].order] = orders[req[t].order]
    BY <1>3, <2>1 DEF IInv, NamesApart
  <2> QED
    BY <1>2, <1>3, <2>1, <2>2
<1>4. ASSUME NEW t \in Slots, t # s PROVE Backed(t)'
  BY <1>2, <1>3, <1>4 DEF IInv, Backed, Exists, Lines
<1>5. ASSUME NEW t \in Slots, t # s, req'[t].pc # "idle"
      PROVE  /\ req'[t].order # None /\ req'[t].canteenId # None
             /\ req'[t].pc = "order.create" => ~ (orders'[req'[t].order].canteenId # None)
             /\ \A u \in Slots : u # t => req'[u].order # req'[t].order
  <2>1. req'[t] = req[t] /\ req[t].pc # "idle"
    BY <1>2, <1>5
  <2>2. \A u \in Slots : u # t /\ u # s => req'[u].order # req'[t].order
    BY <1>2, <2>1 DEF IInv, NamesApart
  <2>3. req'[s].order # req'[t].order
    <3>1. CASE req'[s].pc = "idle"
      BY <2>1, <3>1 DEF IInv, NamesApart
    <3>2. CASE req'[s].pc # "idle"
      BY <1>5, <2>1, <3>2
    <3> QED
      BY <3>1, <3>2
  <2> QED
    BY <1>3, <1>5, <2>1, <2>2, <2>3 DEF IInv, NamesApart, Exists
<1>6. req'[s].pc # "idle" =>
        /\ req'[s].order # None /\ req'[s].canteenId # None
        /\ req'[s].pc = "order.create" => ~ (orders'[req'[s].order].canteenId # None)
        /\ \A u \in Slots : u # s => req'[u].order # req'[s].order
  BY <1>2
<1>7. NamesApart'
  BY <1>5, <1>6 DEF NamesApart, Exists
<1> QED
  BY <1>4, <1>7

LEMMA MenuReadKeepsInv ==
  ASSUME IInv, Rows', NEW s \in Slots, MenuRead(s)
  PROVE  NamesApart' /\ (\A t \in Slots : Backed(t)') /\ OrdersAddUp'
<1>1. PICK o \in FreshOrders, c \in Canteens, q \in Cart \ {EmptyCart} :
        /\ \A i \in Items : q[i] > 0 => Orderable(menu[i], c)
        /\ req' = [req EXCEPT ![s] = Reading(o, c, q)]
  BY DEF MenuRead, Become
<1>2. /\ menu' = menu /\ orders' = orders /\ Rows /\ req[s].pc = "idle"
      /\ o \in Orders /\ ~ Exists(o) /\ \A t \in Slots : req[t].order # o
  BY <1>1 DEF MenuRead, At, IInv, TypeOK, Rows, FreshOrders
<1>3. /\ req'[s] = Reading(o, c, q) /\ req'[s].pc = "order.create" /\ req'[s].order = o
      /\ req'[s].canteenId = c /\ req'[s].quantity = q
  BY <1>1, <1>2 DEF Rows, Reading
<1>4. Backed(s)'
  BY <1>1, <1>2, <1>3 DEF Backed, Lines, Orderable
<1>5. o # None /\ c # None
  BY <1>2, CheckoutAssumption
<1>6. NamesApart' /\ \A t \in Slots : Backed(t)'
  <2>1. orders'[o].canteenId = None
    BY <1>2 DEF Exists
  <2>2. req' = [req EXCEPT ![s] = req'[s]]
    BY <1>1, <1>3
  <2> QED
    BY <1>1, <1>2, <1>3, <1>4, <1>5, <2>1, <2>2, OneMoves
<1>7. OrdersAddUp'
  BY <1>2 DEF IInv, OrdersAddUp, Exists
<1> QED
  BY <1>6, <1>7

LEMMA OrderCreatedKeepsInv ==
  ASSUME IInv, Rows', NEW s \in Slots, OrderCreated(s)
  PROVE  NamesApart' /\ (\A t \in Slots : Backed(t)') /\ OrdersAddUp'
<1> DEFINE n == req[s].order
<1>1. /\ menu' = menu /\ Rows /\ req[s].pc = "order.create" /\ Referable(req[s])
      /\ orders' = [orders EXCEPT ![n] = Saved(req[s])]
      /\ req' = [req EXCEPT ![s] = [req[s] EXCEPT !.pc = "order.clear"]]
  BY DEF OrderCreated, At, Become, IInv, TypeOK, Rows
<1>2. n \in Orders /\ ~ Exists(n) /\ req[s].canteenId # None /\ n # None
      /\ \A t \in Slots : t # s => req[t].order # n
  BY <1>1 DEF Rows, Request, IInv, NamesApart
<1>3. orders'[n] = Saved(req[s]) /\ \A o \in Orders : o # n => orders'[o] = orders[o]
  BY <1>1, <1>2 DEF Rows
<1>4. /\ req'[s].pc = "order.clear" /\ req'[s].order = n
      /\ req'[s].canteenId = req[s].canteenId /\ req'[s].quantity = req[s].quantity
  BY <1>1 DEF Rows, Request
<1>5. Backed(s)'
  BY <1>2, <1>3, <1>4 DEF Backed, Exists, Saved
<1>6. NamesApart' /\ \A t \in Slots : Backed(t)'
  <2>1. req' = [req EXCEPT ![s] = req'[s]]
    BY <1>1 DEF Rows
  <2> QED
    BY <1>1, <1>2, <1>3, <1>4, <1>5, <2>1, OneMoves
<1>7. OrdersAddUp'
  <2>1. /\ orders'[n].totalInPaise = Subtotal(orders'[n])
        /\ orders'[n].menuItemId \subseteq Lines(orders'[n])
    BY <1>3, SavedAddsUp DEF Saved
  <2>2. \A i \in Lines(req[s]) : menu[i].state = "live" /\ menu[i].canteenId = req[s].canteenId
    BY <1>1 DEF Referable, IInv, Backed
  <2>3. \A i \in orders'[n].menuItemId :
          menu'[i].state = "live" /\ menu'[i].canteenId = orders'[n].canteenId
    BY <1>1, <1>3, <2>2 DEF Saved
  <2>4. \A o \in Orders : o # n /\ Exists(o)' => Exists(o)
    BY <1>3 DEF Exists
  <2> QED
    BY <1>1, <1>3, <2>1, <2>3, <2>4 DEF IInv, OrdersAddUp
<1> QED
  BY <1>6, <1>7

LEMMA ResponseKeepsInv ==
  ASSUME IInv, Rows', NEW s \in Slots, OrderRefused(s) \/ CartCleared(s) \/ Abort(s)
  PROVE  NamesApart' /\ (\A t \in Slots : Backed(t)') /\ OrdersAddUp'
<1>1. menu' = menu /\ orders' = orders /\ Rows /\ req' = [req EXCEPT ![s] = Idle]
  BY DEF OrderRefused, CartCleared, Abort, Respond, Become, IInv, TypeOK, Rows
<1>2. req'[s] = Idle /\ req'[s].pc = "idle" /\ req'[s].order = None
  BY <1>1 DEF Rows, Idle
<1>3. Backed(s)'
  BY <1>2 DEF Backed
<1>4. NamesApart' /\ \A t \in Slots : Backed(t)'
  BY <1>1, <1>2, <1>3, OneMoves
<1>5. OrdersAddUp'
  BY <1>1 DEF IInv, OrdersAddUp, Exists
<1> QED
  BY <1>4, <1>5

LEMMA InvStep == IInv /\ [Next]_vars => IInv'
<1>1. ASSUME IInv, Step, Observe PROVE IInv'
  <2>1. TypeOK' /\ Rows'
    BY <1>1, TypeStep DEF IInv, Next, TypeOK, Rows
  <2>2. CASE createMenuItem \/ updateMenuItem
    BY <1>1, <2>1, <2>2, EditKeepsInv DEF IInv
  <2>3. CASE deleteMenuItem
    BY <1>1, <2>1, <2>3, DeleteKeepsInv DEF IInv
  <2>4. CASE setCart \/ clearCart
    BY <1>1, <2>1, <2>4 DEF setCart, clearCart, IInv, NamesApart, Backed, OrdersAddUp, Exists
  <2>5. CASE \E s \in Slots : createOrder(s) \/ Abort(s)
    BY <1>1, <2>1, <2>5, MenuReadKeepsInv, OrderCreatedKeepsInv, ResponseKeepsInv
    DEF IInv, createOrder
  <2> QED
    BY <1>1, <2>2, <2>3, <2>4, <2>5 DEF Step
<1>2. ASSUME IInv, UNCHANGED vars PROVE IInv'
  <2>1. TypeOK'
    BY <1>2, TypeStep DEF IInv
  <2> QED
    BY <1>2, <2>1 DEF IInv, vars, NamesApart, Backed, OrdersAddUp, Exists
<1> QED
  BY <1>1, <1>2 DEF Next

(* The inductive invariant holds in every reachable state.                 *)
THEOREM InvariantHolds == Spec => []IInv
<1> QED
  BY InvInit, InvStep, PTL DEF Spec

(* The total of every order is that of its lines, and what a line still    *)
(* names is on the menu of the order's canteen, whatever managers do.      *)
THEOREM OrdersAlwaysAddUp == Spec => []OrdersAddUp
<1> QED
  BY InvariantHolds, PTL DEF IInv

------------------------------------------------------------------------------
(* An order is a snapshot: after it was created only references to deleted *)
(* items change.                                                           *)
THEOREM SnapshotStays == Spec => SnapshotIsImmutable
<1>1. ASSUME IInv, IInv', [Next]_vars, NEW o \in Orders, Exists(o)
      PROVE  orders'[o] = [orders[o] EXCEPT !.menuItemId = {i \in @ : menu'[i].state = "live"}]
  <2>1. /\ Rows /\ Rows' /\ orders[o] \in OrderRow /\ orders[o].menuItemId \subseteq Items
        /\ \A i \in orders[o].menuItemId : menu[i].state = "live"
    BY <1>1 DEF IInv, TypeOK, Rows, OrderRow, OrdersAddUp
  <2>2. CASE deleteMenuItem
    <3>1. PICK i \in Items :
            /\ menu' = [menu EXCEPT ![i].state = "deleted"]
            /\ orders'[o] = [orders[o] EXCEPT !.menuItemId = @ \ {i}]
      BY <2>2 DEF deleteMenuItem
    <3>2. \A j \in Items : menu'[j].state = "live" <=> j # i /\ menu[j].state = "live"
      BY <2>1, <3>1 DEF Rows, MenuItemRow
    <3>3. {j \in orders[o].menuItemId : menu'[j].state = "live"} = orders[o].menuItemId \ {i}
      BY <2>1, <3>2
    <3> QED
      BY <3>1, <3>3
  <2>3. CASE orders'[o] = orders[o] /\ \A i \in Items : menu[i].state = "live" => menu'[i].state = "live"
    <3>1. {j \in orders[o].menuItemId : menu'[j].state = "live"} = orders[o].menuItemId
      BY <2>1, <2>3
    <3> QED
      BY <2>1, <2>3, <3>1 DEF OrderRow
  <2>4. CASE createMenuItem \/ updateMenuItem
    <3>1. orders' = orders
      BY <2>4 DEF createMenuItem, updateMenuItem
    <3> QED
      BY <2>1, <2>3, <2>4, <3>1, LiveKept
  <2>5. ASSUME NEW s \in Slots, OrderCreated(s)
        PROVE  orders'[o] = orders[o] /\ menu' = menu
    <3>1. ~ Exists(req[s].order)
      BY <1>1, <2>5 DEF OrderCreated, At, IInv, NamesApart
    <3> QED
      BY <1>1, <2>1, <2>5, <3>1 DEF OrderCreated, Rows
  <2>6. CASE menu' = menu /\ orders' = orders
    BY <2>3, <2>6
  <2> QED
    BY <1>1, <2>2, <2>3, <2>4, <2>5, <2>6
    DEF Next, Step, createOrder, vars, setCart, clearCart, MenuRead, OrderRefused, CartCleared, Abort
<1>2. IInv /\ IInv' /\ [Next]_vars =>
        \A o \in Orders : Exists(o) =>
          orders'[o] = [orders[o] EXCEPT !.menuItemId = {i \in @ : menu'[i].state = "live"}]
  BY <1>1
<1> QED
  BY <1>2, InvariantHolds, PTL DEF Spec, SnapshotIsImmutable

(* The cart is cleared for orders that are there.                          *)
THEOREM ClearedAfterOrder == Spec => ClearedOnceOrdered
<1>1. IInv => \A s \in Slots :
        CartCleared(s) => /\ Exists(req[s].order)
                          /\ orders[req[s].order].quantity = req[s].quantity
  BY DEF IInv, Backed, CartCleared, At
<1> QED
  BY <1>1, InvariantHolds, PTL DEF ClearedOnceOrdered

------------------------------------------------------------------------------
(* What a request carries was shown to it. *)

ShowsLines(m, r) ==
  \A i \in Lines(r) :
    Orderable(m[i], r.canteenId) /\ m[i].priceInPaise = r.unitPriceInPaise[i]

Shown == \A s \in Slots : req[s].pc = "order.create" => \E m \in shown[s] : ShowsLines(m, req[s])

LEMMA ShownInit == Init => Shown
<1> QED
  BY DEF Init, Shown, Idle

LEMMA ShownStep == TypeOK /\ Shown /\ [Next]_vars => Shown'
<1>1. ASSUME TypeOK, Shown, Step, Observe, NEW s \in Slots, req'[s].pc = "order.create"
      PROVE  \E m \in shown'[s] : ShowsLines(m, req'[s])
  <2>1. shown'[s] = shown[s] \cup {menu'}
    BY <1>1 DEF Observe
  <2>2. CASE req'[s] = req[s]
    BY <1>1, <2>1, <2>2 DEF Shown
  <2>3. CASE MenuRead(s)
    <3>1. PICK o \in FreshOrders, c \in Canteens, q \in Cart \ {EmptyCart} :
            /\ \A i \in Items : q[i] > 0 => Orderable(menu[i], c)
            /\ req'[s] = Reading(o, c, q)
      BY <1>1, <2>3 DEF MenuRead, Become, TypeOK
    <3>2. menu' = menu
      BY <2>3 DEF MenuRead
    <3>3. ShowsLines(menu', req'[s])
      BY <3>1, <3>2 DEF ShowsLines, Reading, Lines
    <3> QED
      BY <2>1, <3>3
  <2>4. ASSUME NEW t \in Slots, createOrder(t) \/ Abort(t), t # s
        PROVE  req'[s] = req[s]
    BY <1>1, <2>4 DEF createOrder, MenuRead, OrderCreated, OrderRefused, CartCleared, Abort,
       Respond, Become, TypeOK
  <2>5. CASE OrderCreated(s) \/ OrderRefused(s) \/ CartCleared(s) \/ Abort(s)
    BY <1>1, <2>5 DEF OrderCreated, OrderRefused, CartCleared, Abort, Respond, Become, Idle, TypeOK, Request
  <2>6. CASE createMenuItem \/ updateMenuItem \/ deleteMenuItem \/ setCart \/ clearCart
    BY <2>2, <2>6 DEF createMenuItem, updateMenuItem, deleteMenuItem, setCart, clearCart
  <2> QED
    BY <1>1, <2>2, <2>3, <2>4, <2>5, <2>6 DEF Step, createOrder
<1>2. ASSUME Shown, UNCHANGED vars PROVE Shown'
  BY <1>2 DEF vars, Shown
<1> QED
  BY <1>1, <1>2 DEF Next, Shown

(* All lines of a new order stem from one menu that there was while its    *)
(* request was under way.                                                  *)
THEOREM SnapshotIsOfOneMenu == Spec => SnapshotOfOneMenu
<1>1. ASSUME TypeOK, Shown, NEW s \in Slots, NEW o \in Orders, OrderCreated(s), ~ Exists(o), Exists(o)'
      PROVE  \E m \in shown[s] : \A i \in Lines(orders'[o]) :
               /\ Orderable(m[i], orders'[o].canteenId)
               /\ m[i].priceInPaise = orders'[o].unitPriceInPaise[i]
  <2>1. orders'[o] = Saved(req[s])
    BY <1>1 DEF OrderCreated, Exists, TypeOK
  <2>2. PICK m \in shown[s] : ShowsLines(m, req[s])
    BY <1>1 DEF OrderCreated, At, Shown
  <2>3. /\ Lines(orders'[o]) = Lines(req[s])
        /\ orders'[o].canteenId = req[s].canteenId
        /\ orders'[o].unitPriceInPaise = req[s].unitPriceInPaise
    BY <2>1, SavedAddsUp DEF Saved
  <2> QED
    BY <2>2, <2>3 DEF ShowsLines
<1>2. TypeOK /\ Shown =>
        \A s \in Slots, o \in Orders :
          OrderCreated(s) /\ ~ Exists(o) /\ Exists(o)' =>
            \E m \in shown[s] : \A i \in Lines(orders'[o]) :
              /\ Orderable(m[i], orders'[o].canteenId)
              /\ m[i].priceInPaise = orders'[o].unitPriceInPaise[i]
  BY <1>1
<1>3. Spec => []Shown
  BY ShownInit, ShownStep, TypeCorrect, PTL DEF Spec
<1> QED
  BY <1>2, <1>3, TypeCorrect, PTL DEF SnapshotOfOneMenu

==============================================================================
