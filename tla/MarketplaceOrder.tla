-------------------------- MODULE MarketplaceOrder --------------------------
(***************************************************************************)
(* Orders of the marketplace and the stock they sell:                      *)
(* marketplace/order.service.ts and inventory.service.ts, with the job     *)
(* that ends old reservations.                                             *)
(*                                                                         *)
(* createOrder reserves every line of the cart, creates the order, and     *)
(* confirms the reservations one by one.  The counters of an Inventory row *)
(* change by findOneAndUpdate, the reservations by save(), and nothing is  *)
(* a transaction: what a handler leaves half way is for the job, 15        *)
(* minutes later.                                                          *)
(***************************************************************************)
EXTENDS Integers, FiniteSets, Sequences, SequencesExt

CONSTANTS
  Proc,         \* handlers and runs of the job that may be in flight together
  Order,        \* calls of createOrder, each with the order it may create
  NoOrder,
  Variant,      \* product variants, each sold by one partner
  Carts,        \* the lines of a cart: variants, one piece of each
  Key, NoKey,   \* idempotency keys of the client, and none
  InitialStock, \* availableQuantity at first
  MaxFails,     \* exceptions and process ends in a behaviour
  MaxRestocks   \* updates of the stock by the partner in a behaviour

ASSUME OrderAssumption == NoOrder \notin Order /\ IsFiniteSet(Order)
ASSUME VariantAssumption == IsFiniteSet(Variant)
\* addToCart raises the quantity of the line a variant has already.
ASSUME CartAssumption ==
  Carts \subseteq Seq(Variant) \ {<< >>} /\ \A cart \in Carts : IsInjective(cart)
ASSUME KeyAssumption == NoKey \notin Key
ASSUME StockAssumption == InitialStock \in Nat
ASSUME BoundAssumption == MaxFails \in Nat /\ MaxRestocks \in Nat

VARIABLES
  stock,   \* the Inventory rows
  res,     \* the InventoryReservation documents
  order,   \* the MarketplaceOrder documents with their OrderItems
  proc,    \* the handlers in flight
  history

marketVars == <<stock, res, order, proc, history>>

Reservation == Order \X Variant
NoReservation == <<NoOrder, NoOrder>>

ResStatus == {"NONE", "ACTIVE", "CONFIRMED", "RELEASED", "EXPIRED"}
Stocks == [available : Int, reserved : Nat]
\* old: it is active and expiresAt has passed
Reservations == [status : ResStatus, old : BOOLEAN]
\* items: the variants of its OrderItems
Orders == [status : {"NONE", "PENDING", "CONFIRMED"}, key : Key \cup {NoKey},
           items : SUBSET Variant]

OrderPc == {"reserve", "hold", "create", "item", "loadConfirm", "take", "saveConfirmed", "finish"}
ReleasePc == {"next", "lower", "saveReleased", "mark"}
OrderHandlers ==
  [pc   : {"idle"} \cup OrderPc \cup ReleasePc,
   id   : Order \cup {NoOrder},              \* NoOrder: a run of the job
   key  : Key \cup {NoKey},
   todo : Seq(Variant),                      \* lines not reserved yet
   own  : Seq(Reservation),                  \* reservations it still works on
   cur  : Reservation \cup {NoReservation}]

\* late: the job found a reservation that another handler still worked on.
\* cut: a handler stopped between two writes that belong together.
\* lowered: the partner stored fewer units than were reserved.
Histories == [late : BOOLEAN, cut : BOOLEAN, lowered : BOOLEAN, fails : 0 .. MaxFails,
              restocks : 0 .. MaxRestocks]

NoHandler == [pc |-> "idle", id |-> NoOrder, key |-> NoKey, todo |-> << >>, own |-> << >>,
         cur |-> NoReservation]
At(p, pc) == proc[p].pc = pc
Proceed(p, pc) == proc' = [proc EXCEPT ![p].pc = pc]
Return(p) == proc' = [proc EXCEPT ![p] = NoHandler]
Cur(p) == proc[p].cur
Stock(p) == stock[Cur(p)[2]]
SetStock(p, row) == stock' = [stock EXCEPT ![Cur(p)[2]] = row]
SetStatus(r, s) == res' = [res EXCEPT ![r] = [status |-> s, old |-> FALSE]]

MarketInit ==
  /\ stock = [v \in Variant |-> [available |-> InitialStock, reserved |-> 0]]
  /\ res = [r \in Reservation |-> [status |-> "NONE", old |-> FALSE]]
  /\ order = [o \in Order |-> [status |-> "NONE", key |-> NoKey, items |-> {}]]
  /\ proc = [p \in Proc |-> NoHandler]
  /\ history = [late |-> FALSE, cut |-> FALSE, lowered |-> FALSE, fails |-> 0, restocks |-> 0]

(* createOrder --------------------------------------------------------------*)

\* No other call has this order: it was not created and nothing reserved for it.
Unused(o) ==
  /\ order[o].status = "NONE" /\ \A v \in Variant : res[<<o, v>>].status = "NONE"
  /\ \A p \in Proc : proc[p].id # o

KeyUsed(k) == k # NoKey /\ \E o \in Order : order[o].status # "NONE" /\ order[o].key = k

\* An order with the key is returned as it is.
BeginOrder(p, o, cart, k) ==
  /\ At(p, "idle") /\ Unused(o) /\ ~KeyUsed(k)
  /\ proc' = [proc EXCEPT ![p] = [pc |-> "reserve", id |-> o, key |-> k, todo |-> cart,
                                  own |-> << >>, cur |-> NoReservation]]
  /\ UNCHANGED <<stock, res, order, history>>

\* Mutant: what is reserved already is not taken off.
ReserveByAvailable(p) ==
  LET v == Head(proc[p].todo) IN
  /\ At(p, "reserve")
  /\ stock[v].available >= 1
  /\ stock' = [stock EXCEPT ![v].reserved = @ + 1]
  /\ proc' = [proc EXCEPT ![p].pc = "hold", ![p].todo = Tail(@),
                          ![p].cur = <<proc[p].id, v>>]
  /\ UNCHANGED <<res, order, history>>

\* reserveInventory: the conditional $inc of a line.
Reserve(p) ==
  LET v == Head(proc[p].todo) IN
  /\ At(p, "reserve")
  /\ stock[v].available - stock[v].reserved >= 1
  /\ stock' = [stock EXCEPT ![v].reserved = @ + 1]
  /\ proc' = [proc EXCEPT ![p].pc = "hold", ![p].todo = Tail(@),
                          ![p].cur = <<proc[p].id, v>>]
  /\ UNCHANGED <<res, order, history>>

\* Insufficient: the catch releases what this call has reserved.
Refuse(p) ==
  LET v == Head(proc[p].todo) IN
  /\ At(p, "reserve")
  /\ stock[v].available - stock[v].reserved < 1
  /\ Proceed(p, "next")
  /\ UNCHANGED <<stock, res, order, history>>

CreateReservation(p) ==
  /\ At(p, "hold")
  /\ SetStatus(Cur(p), "ACTIVE")
  /\ proc' = [proc EXCEPT ![p].pc = IF proc[p].todo = << >> THEN "create" ELSE "reserve",
                          ![p].own = Append(@, Cur(p)), ![p].cur = NoReservation]
  /\ UNCHANGED <<stock, order, history>>

\* reserveInventory throws: the lines reserved before are released; after the
\* $inc the counter stays up.
ReservationFails(p) ==
  /\ proc[p].pc \in {"reserve", "hold"} /\ history.fails < MaxFails
  /\ Proceed(p, "next")
  /\ history' = [history EXCEPT !.cut = @ \/ At(p, "hold"), !.fails = @ + 1]
  /\ UNCHANGED <<stock, res, order>>

\* The key is unique: of two calls that both found none, the second throws.
CreateOrder(p) ==
  /\ At(p, "create")
  /\ IF KeyUsed(proc[p].key)
       THEN Return(p) /\ UNCHANGED order
       ELSE /\ order' = [order EXCEPT ![proc[p].id] =
                          [status |-> "PENDING", key |-> proc[p].key, items |-> {}]]
            /\ Proceed(p, "item")
  /\ UNCHANGED <<stock, res, history>>

\* OrderItem.create
AddItem(p) ==
  LET r == Head(proc[p].own) IN
  /\ At(p, "item")
  /\ order' = [order EXCEPT ![proc[p].id].items = @ \cup {r[2]}]
  /\ proc' = [proc EXCEPT ![p].pc = "loadConfirm", ![p].cur = r]
  /\ UNCHANGED <<stock, res, history>>

\* confirmReservation throws unless the reservation is active.
LoadConfirm(p) ==
  /\ At(p, "loadConfirm")
  /\ IF res[Cur(p)].status = "ACTIVE" THEN Proceed(p, "take") ELSE Return(p)
  /\ UNCHANGED <<stock, res, order, history>>

\* Both counters by $inc; nobody looks at whether the filter matched.
Take(p) ==
  /\ At(p, "take")
  /\ IF Stock(p).reserved >= 1
       THEN SetStock(p, [available |-> Stock(p).available - 1, reserved |-> Stock(p).reserved - 1])
       ELSE UNCHANGED stock
  /\ Proceed(p, "saveConfirmed")
  /\ UNCHANGED <<res, order, history>>

\* Mutant: the loop over the lines ends after the first.
SaveFirstConfirmed(p) ==
  /\ At(p, "saveConfirmed")
  /\ SetStatus(Cur(p), "CONFIRMED")
  /\ proc' = [proc EXCEPT ![p].pc = "finish", ![p].own = Tail(@), ![p].cur = NoReservation]
  /\ UNCHANGED <<stock, order, history>>

SaveConfirmed(p) ==
  /\ At(p, "saveConfirmed")
  /\ SetStatus(Cur(p), "CONFIRMED")
  /\ proc' = [proc EXCEPT ![p].pc = IF proc[p].own = <<Cur(p)>> THEN "finish" ELSE "item",
                          ![p].own = Tail(@), ![p].cur = NoReservation]
  /\ UNCHANGED <<stock, order, history>>

\* Paid on delivery the order is confirmed; online it stays pending, with a
\* payment at the gateway.
FinishOrder(p) ==
  /\ At(p, "finish")
  /\ \E s \in {"CONFIRMED", "PENDING"} : order' = [order EXCEPT ![proc[p].id].status = s]
  /\ Return(p)
  /\ UNCHANGED <<stock, res, history>>

(* releaseReservation, by the catch and by the job --------------------------*)

InHand(q) == Range(proc[q].own) \cup {Cur(q)}

\* expireStaleReservations loads what has expired.
JobFind(p) ==
  LET found == {r \in Reservation : res[r].status = "ACTIVE" /\ res[r].old} IN
  /\ At(p, "idle") /\ found # {}
  /\ \E s \in SetToSeqs(found) : proc' = [proc EXCEPT ![p].pc = "next", ![p].own = s]
  /\ history' = [history EXCEPT !.late = @ \/ \E q \in Proc : found \cap InHand(q) # {}]
  /\ UNCHANGED <<stock, res, order>>

\* Afterwards the job marks the document it found.
AfterRelease(p) == IF proc[p].id = NoOrder THEN "mark" ELSE "next"

\* The next one is loaded; nothing is done to it unless it is active.
LoadRelease(p) ==
  LET r == Head(proc[p].own) IN
  /\ At(p, "next")
  /\ IF proc[p].own = << >> THEN Return(p)
     ELSE proc' = [proc EXCEPT ![p].pc = IF res[r].status = "ACTIVE" THEN "lower" ELSE AfterRelease(p),
                               ![p].own = Tail(@), ![p].cur = r]
  /\ UNCHANGED <<stock, res, order, history>>

\* Mutant: the released unit is taken off the shelf too.
LowerBoth(p) ==
  /\ At(p, "lower")
  /\ IF Stock(p).reserved >= 1
       THEN SetStock(p, [available |-> Stock(p).available - 1, reserved |-> Stock(p).reserved - 1])
       ELSE UNCHANGED stock
  /\ Proceed(p, "saveReleased")
  /\ UNCHANGED <<res, order, history>>

\* Mutant: the filter does not ask for reservedQuantity.
LowerUnguarded(p) ==
  /\ At(p, "lower")
  /\ SetStock(p, [available |-> Stock(p).available, reserved |-> Stock(p).reserved - 1])
  /\ Proceed(p, "saveReleased")
  /\ UNCHANGED <<res, order, history>>

\* $inc of -1, unless nothing is reserved.
Lower(p) ==
  /\ At(p, "lower")
  /\ IF Stock(p).reserved >= 1
       THEN SetStock(p, [available |-> Stock(p).available, reserved |-> Stock(p).reserved - 1])
       ELSE UNCHANGED stock
  /\ Proceed(p, "saveReleased")
  /\ UNCHANGED <<res, order, history>>

SaveRelease(p) ==
  /\ At(p, "saveReleased")
  /\ SetStatus(Cur(p), "RELEASED")
  /\ Proceed(p, AfterRelease(p))
  /\ UNCHANGED <<stock, order, history>>

\* The job's own document is saved over whatever the stored one is now.
Mark(p) ==
  /\ At(p, "mark")
  /\ SetStatus(Cur(p), "EXPIRED")
  /\ Proceed(p, "next")
  /\ UNCHANGED <<stock, order, history>>

(* the environment ----------------------------------------------------------*)

\* upsertInventory by the partner
Restock(v, n) ==
  /\ history.restocks < MaxRestocks
  /\ stock' = [stock EXCEPT ![v].available = n]
  /\ history' = [history EXCEPT !.restocks = @ + 1, !.lowered = @ \/ n < stock[v].reserved]
  /\ UNCHANGED <<res, order, proc>>

\* 15 minutes pass.
Age(r) ==
  /\ res[r].status = "ACTIVE" /\ ~res[r].old
  /\ res' = [res EXCEPT ![r].old = TRUE]
  /\ UNCHANGED <<stock, order, proc, history>>

\* Between an item and its unit, or between a counter and the status that
\* accounts for it.
HalfWay(p) == proc[p].pc \in {"hold", "loadConfirm", "take", "saveConfirmed", "saveReleased"}

\* The database or the gateway throws, or the process ends.
Stop(p) ==
  /\ ~At(p, "idle") /\ history.fails < MaxFails
  /\ Return(p)
  /\ history' = [history EXCEPT !.fails = @ + 1, !.cut = @ \/ HalfWay(p)]
  /\ UNCHANGED <<stock, res, order>>

Step(p) ==
  \/ Reserve(p) \/ Refuse(p) \/ CreateReservation(p) \/ CreateOrder(p)
  \/ AddItem(p) \/ LoadConfirm(p) \/ Take(p) \/ SaveConfirmed(p) \/ FinishOrder(p)
  \/ LoadRelease(p) \/ Lower(p) \/ SaveRelease(p) \/ Mark(p)

MarketNext ==
  \/ \E p \in Proc :
       \/ \E o \in Order, cart \in Carts, k \in Key \cup {NoKey} : BeginOrder(p, o, cart, k)
       \/ JobFind(p) \/ Step(p) \/ ReservationFails(p) \/ Stop(p)
  \/ \E v \in Variant, n \in 0 .. InitialStock : Restock(v, n)
  \/ \E r \in Reservation : Age(r)

MarketSpec == MarketInit /\ [][MarketNext]_marketVars

(* properties ---------------------------------------------------------------*)

\* The documents, handlers and counters have the shapes of their schemas.
MarketTypeOK ==
  /\ stock \in [Variant -> Stocks]
  /\ res \in [Reservation -> Reservations]
  /\ order \in [Order -> Orders]
  /\ proc \in [Proc -> OrderHandlers]
  /\ history \in Histories

Having(v, s) == {r \in Reservation : r[2] = v /\ res[r].status = s}
Quiet == \A p \in Proc : At(p, "idle")

\* When nobody is at work, reservedQuantity counts the active reservations,
\* and until the partner counts again, availableQuantity and the confirmed
\* ones make up the stock there was, after carts refused at their second line,
\* second calls with a key and exceptions at any line: a hold that one of them
\* leaves ACTIVE is counted, until the job ends it.
CountersMatch ==
  Quiet /\ ~history.late /\ ~history.cut =>
    \A v \in Variant :
      /\ stock[v].reserved = Cardinality(Having(v, "ACTIVE"))
      /\ history.restocks = 0 =>
           stock[v].available + Cardinality(Having(v, "CONFIRMED")) = InitialStock

\* Reservations whose unit is still to be taken or given back.
Owed(v) ==
  {r \in Having(v, "ACTIVE") :
     ~\E p \in Proc : proc[p].pc \in {"saveConfirmed", "saveReleased"} /\ Cur(p) = r}

\* Every live reservation has a unit on the shelf that no other one has, while
\* orders, the job and the partner's updates interleave.
HeldIsOnShelf ==
  ~history.late /\ ~history.cut /\ ~history.lowered =>
    \A v \in Variant : Cardinality(Owed(v)) <= stock[v].available

\* A confirmed order has all its reservations confirmed, and an item for each.
SoldIsConfirmed ==
  ~history.late =>
    \A o \in Order : order[o].status = "CONFIRMED" =>
      \A v \in Variant :
        res[<<o, v>>].status = IF v \in order[o].items THEN "CONFIRMED" ELSE "NONE"
=============================================================================
