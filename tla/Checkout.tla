-------------------------------- MODULE Checkout --------------------------------
(***************************************************************************)
(* From the menu to an order: the customer's cart and createOrder          *)
(* (services/customer/customer.service.ts) next to the menu operations of  *)
(* the managers (services/manager/manager.service.ts).  createOrder reads  *)
(* the menu, creates the order and clears the cart in three awaits, with   *)
(* no transaction around them; the menu and the cart, which another device *)
(* may be writing, change in between.                                      *)
(***************************************************************************)
EXTENDS Naturals, Functions

CONSTANTS
  Slots,       \* checkouts that can be in progress at the same time
  Items,       \* ids of menu items
  Canteens,    \* canteens of the college
  Orders,      \* ids of orders
  Prices,      \* priceInPaise
  Quantities,  \* quantities of a line
  MaxInt,      \* the largest value of an INTEGER column
  None,        \* a null
  MaxEdits,    \* bound on changes of the menu
  MaxAborts    \* bound on checkouts cut short by a crash or an I/O error

ASSUME CheckoutAssumption ==
  /\ None \notin Canteens \cup Orders
  /\ Prices \subseteq Nat /\ Quantities \subseteq Nat \ {0}
  /\ MaxInt \in Nat /\ MaxEdits \in Nat /\ MaxAborts \in Nat

VARIABLES
  menu,    \* the MenuItem rows
  cart,    \* the customer's cart in Redis
  orders,  \* the Order rows with their OrderItem rows
  req,     \* what each checkout in progress has read, and where it waits
  edits,   \* changes of the menu so far
  aborts,  \* checkouts cut short so far
  shown    \* history: the menus there have been since a checkout read one

vars == <<menu, cart, orders, req, edits, aborts, shown>>

MenuItemRow ==
  [state : {"new", "live", "deleted"},
   canteenId : Canteens \cup {None},
   priceInPaise : Prices \cup {0},
   isAvailable : BOOLEAN]

Cart == [Items -> Quantities \cup {0}]
EmptyCart == [i \in Items |-> 0]

OrderRow ==
  [canteenId : Canteens \cup {None},
   quantity : Cart,
   unitPriceInPaise : [Items -> Prices \cup {0}],
   menuItemId : SUBSET Items,          \* lines that still name their menu item
   totalInPaise : 0..MaxInt]

NoOrder ==
  [canteenId |-> None, quantity |-> EmptyCart, unitPriceInPaise |-> EmptyCart,
   menuItemId |-> {}, totalInPaise |-> 0]

Exists(o) == orders[o].canteenId # None

Request ==
  [pc : {"idle", "order.create", "order.clear"},
   order : Orders \cup {None},
   canteenId : Canteens \cup {None},
   quantity : Cart,
   unitPriceInPaise : [Items -> Prices \cup {0}]]

Idle ==
  [pc |-> "idle", order |-> None, canteenId |-> None,
   quantity |-> EmptyCart, unitPriceInPaise |-> EmptyCart]

TypeOK ==
  /\ menu \in [Items -> MenuItemRow]
  /\ cart \in Cart
  /\ orders \in [Orders -> OrderRow]
  /\ req \in [Slots -> Request]
  /\ edits \in 0..MaxEdits
  /\ aborts \in 0..MaxAborts
  /\ shown \in [Slots -> SUBSET [Items -> MenuItemRow]]

Init ==
  /\ menu = [i \in Items |-> [state |-> "new", canteenId |-> None,
                              priceInPaise |-> 0, isAvailable |-> FALSE]]
  /\ cart = EmptyCart
  /\ orders = [o \in Orders |-> NoOrder]
  /\ req = [s \in Slots |-> Idle]
  /\ edits = 0 /\ aborts = 0
  /\ shown = [s \in Slots |-> {}]

At(s, pc) == req[s].pc = pc
Become(s, r) == req' = [req EXCEPT ![s] = r]
Respond(s) == Become(s, Idle)

------------------------------------------------------------------------------
(* ManagerService: the menu.  A manager without access to the canteen is   *)
(* refused before anything is written and left out; a call that is not     *)
(* refused takes effect in its one statement.                              *)

Edit == edits < MaxEdits /\ edits' = edits + 1

createMenuItem ==
  /\ Edit
  /\ \E i \in Items, c \in Canteens, p \in Prices, a \in BOOLEAN :
       /\ menu[i].state = "new"
       /\ menu' = [menu EXCEPT ![i] = [state |-> "live", canteenId |-> c,
                                       priceInPaise |-> p, isAvailable |-> a]]
  /\ UNCHANGED <<cart, orders, req, aborts>>

updateMenuItem ==
  /\ Edit
  /\ \E i \in Items, p \in Prices, a \in BOOLEAN :
       /\ menu[i].state = "live"
       /\ menu' = [menu EXCEPT ![i].priceInPaise = p, ![i].isAvailable = a]
  /\ UNCHANGED <<cart, orders, req, aborts>>

(* Mutant of deleteMenuItem: lines go with their item (onDelete: Cascade). *)
deleteMenuItemAndLines ==
  /\ Edit
  /\ \E i \in Items :
       /\ menu[i].state = "live"
       /\ menu' = [menu EXCEPT ![i].state = "deleted"]
       /\ orders' = [o \in Orders |-> [orders[o] EXCEPT !.menuItemId = @ \ {i},
                                                        !.quantity[i] = 0]]
  /\ UNCHANGED <<cart, req, aborts>>

(* Lines of the item keep what they say and lose the reference. *)
deleteMenuItem ==
  /\ Edit
  /\ \E i \in Items :
       /\ menu[i].state = "live"
       /\ menu' = [menu EXCEPT ![i].state = "deleted"]
       /\ orders' = [o \in Orders |-> [orders[o] EXCEPT !.menuItemId = @ \ {i}]]
  /\ UNCHANGED <<cart, req, aborts>>

------------------------------------------------------------------------------
(* CustomerService: the cart, one Redis command each. *)

setCart ==
  /\ cart' \in Cart
  /\ UNCHANGED <<menu, orders, req, edits, aborts>>

(* clearCart, and the 24 hours after which Redis drops the key. *)
clearCart ==
  /\ cart' = EmptyCart
  /\ UNCHANGED <<menu, orders, req, edits, aborts>>

------------------------------------------------------------------------------
(* createOrder.  The lines are those of the request, whatever the cart     *)
(* holds.  A request that the menu refuses writes nothing and is left out. *)

Orderable(row, c) == row.state = "live" /\ row.isAvailable /\ row.canteenId = c

FreshOrders == {o \in Orders : ~ Exists(o) /\ \A s \in Slots : req[s].order # o}

Reading(o, c, q) ==
  [pc |-> "order.create", order |-> o, canteenId |-> c, quantity |-> q,
   unitPriceInPaise |-> [i \in Items |-> IF q[i] > 0 THEN menu[i].priceInPaise ELSE 0]]

(* Mutant of MenuRead: the cart is cleared before the order is created. *)
MenuReadCartFirst(s) ==
  /\ At(s, "idle")
  /\ \E o \in FreshOrders, c \in Canteens, q \in Cart \ {EmptyCart} :
       /\ \A i \in Items : q[i] > 0 => Orderable(menu[i], c)
       /\ Become(s, [Reading(o, c, q) EXCEPT !.pc = "order.clear"])
  /\ UNCHANGED <<menu, cart, orders, edits, aborts>>

(* findByIds is one statement: all lines are read from one menu. *)
MenuRead(s) ==
  /\ At(s, "idle")
  /\ \E o \in FreshOrders, c \in Canteens, q \in Cart \ {EmptyCart} :
       /\ \A i \in Items : q[i] > 0 => Orderable(menu[i], c)
       /\ Become(s, Reading(o, c, q))
  /\ UNCHANGED <<menu, cart, orders, edits, aborts>>

LineTotal(r) == [i \in Items |-> r.unitPriceInPaise[i] * r.quantity[i]]
Subtotal(r) == SumFunction(LineTotal(r))

(* Mutant of Representable: the width of the column is not minded. *)
RepresentableAlways(r) == TRUE

(* The sums are numbers of JavaScript; a column takes none above MaxInt.   *)
Representable(r) ==
  /\ \A i \in Items : LineTotal(r)[i] \in 0..MaxInt
  /\ Subtotal(r) \in 0..MaxInt

Lines(r) == {i \in Items : r.quantity[i] > 0}

(* Mutant of Referable: no foreign key. *)
ReferableAlways(r) == TRUE

(* The foreign key of a line: its menu item has not been deleted. *)
Referable(r) == \A i \in Lines(r) : menu[i].state = "live"

Saved(r) ==
  [canteenId |-> r.canteenId, quantity |-> r.quantity,
   unitPriceInPaise |-> r.unitPriceInPaise, menuItemId |-> Lines(r),
   totalInPaise |-> Subtotal(r)]

(* Mutant of OrderCreated: prices are those of the menu as it is now. *)
OrderCreatedAtCurrentPrices(s) ==
  /\ At(s, "order.create")
  /\ LET r == Reading(req[s].order, req[s].canteenId, req[s].quantity)
     IN  /\ Representable(r) /\ Referable(r)
         /\ orders' = [orders EXCEPT ![r.order] = Saved(r)]
         /\ Become(s, [r EXCEPT !.pc = "order.clear"])
  /\ UNCHANGED <<menu, cart, edits, aborts>>

OrderCreated(s) ==
  /\ At(s, "order.create")
  /\ Representable(req[s]) /\ Referable(req[s])
  /\ orders' = [orders EXCEPT ![req[s].order] = Saved(req[s])]
  /\ Become(s, [req[s] EXCEPT !.pc = "order.clear"])
  /\ UNCHANGED <<menu, cart, edits, aborts>>

OrderRefused(s) ==
  /\ At(s, "order.create")
  /\ ~ (Representable(req[s]) /\ Referable(req[s]))
  /\ Respond(s)
  /\ UNCHANGED <<menu, cart, orders, edits, aborts>>

CartCleared(s) ==
  /\ At(s, "order.clear")
  /\ cart' = EmptyCart
  /\ Respond(s)
  /\ UNCHANGED <<menu, orders, edits, aborts>>

createOrder(s) == MenuRead(s) \/ OrderCreated(s) \/ OrderRefused(s) \/ CartCleared(s)

(* A crash of the replica, or an await that rejects. *)
Abort(s) ==
  /\ ~ At(s, "idle")
  /\ aborts < MaxAborts
  /\ aborts' = aborts + 1
  /\ Respond(s)
  /\ UNCHANGED <<menu, cart, orders, edits>>

Step ==
  \/ createMenuItem \/ updateMenuItem \/ deleteMenuItem
  \/ setCart \/ clearCart
  \/ \E s \in Slots : createOrder(s) \/ Abort(s)

(* The history follows and restricts nothing. *)
Observe ==
  shown' = [s \in Slots |-> IF req'[s].pc = "order.create" THEN shown[s] \cup {menu'} ELSE {}]

Next == Step /\ Observe

Spec == Init /\ [][Next]_vars

------------------------------------------------------------------------------
(* An order adds up and belongs together, while prices change and items    *)
(* are deleted under it: its total is that of its lines and fits the       *)
(* column, and an item a line still names is on the menu of the order's    *)
(* canteen, so the kitchen that gets the order can make it.                *)
OrdersAddUp ==
  \A o \in Orders : Exists(o) =>
    /\ orders[o].totalInPaise = Subtotal(orders[o])
    /\ orders[o].menuItemId \subseteq Lines(orders[o])
    /\ \A i \in orders[o].menuItemId :
         menu[i].state = "live" /\ menu[i].canteenId = orders[o].canteenId

(* order_items is an immutable menu snapshot (README.md:63): whatever the  *)
(* managers do to the menu, an order keeps its lines, prices and total; a  *)
(* line only loses the reference to an item that is deleted.               *)
SnapshotIsImmutable ==
  [][\A o \in Orders :
       Exists(o) => orders'[o] = [orders[o] EXCEPT
                      !.menuItemId = {i \in @ : menu'[i].state = "live"}]]_vars

(* What the customer is charged is what some menu showed: there has been a *)
(* moment in the course of the request at which all lines of the order     *)
(* were available in its canteen, at their prices (the menu may have       *)
(* changed again by the time the order is created).                        *)
SnapshotOfOneMenu ==
  [][\A s \in Slots, o \in Orders :
       OrderCreated(s) /\ ~ Exists(o) /\ Exists(o)' =>
         \E m \in shown[s] : \A i \in Lines(orders'[o]) :
           /\ Orderable(m[i], orders'[o].canteenId)
           /\ m[i].priceInPaise = orders'[o].unitPriceInPaise[i]]_vars

(* A checkout takes the cart away only once its order exists with the      *)
(* lines that were asked for: one that is refused, crashes or fails leaves *)
(* the cart for another attempt.                                           *)
ClearedOnceOrdered ==
  [][\A s \in Slots :
       CartCleared(s) => /\ Exists(req[s].order)
                         /\ orders[req[s].order].quantity = req[s].quantity]_vars

==============================================================================
