---------------------- MODULE SlotReservation_proofs ----------------------
(***************************************************************************)
(* Type correctness of SlotReservation, and that a reservation is consumed *)
(* by one handler only, for any number of handlers, reservations and slots *)
(* and with Redis on or off; that two holds overlap only when both their   *)
(* handlers passed their checks before either wrote, and two bookings only *)
(* then or when one was put over the other unchecked.                      *)
(***************************************************************************)
EXTENDS SlotReservation, TLAPS

\* A handler past its first read of a reservation remembers its id.
RidKnown ==
  \A p \in Request :
    req[p].pc \in {"consume", "delConsumed", "eligible", "createBooking", "saveReleased",
                   "delReleased", "saveExpired", "moveBooking"}
      => req[p].rid \in Reservation

\* Neither offered nor yet to be created.
Spent(r) == res[r].status \notin {"ABSENT", "HELD"}

\* Consuming a reservation spends it, it stays spent, and nothing booked is held.
ConsumedIsSpent ==
  /\ \A p \in Request : HasConsumed(p) => Spent(req[p].rid)
  /\ \A r \in Reservation : booking[r].state # "NONE" => res[r].status # "HELD"
  /\ \A p \in Request :
       req[p].pc = "moveBooking" => booking[req[p].rid].state # "NONE"

IInv == TypeOK /\ RidKnown /\ ConsumedIsSpent /\ SingleConsumer

LEMMA IdleType == Idle \in Handlers /\ Idle.pc = "idle" /\ AnySlot \in Slot
  BY SlotAssumption DEF Idle, Handlers, Pc, AnySlot

LEMMA InitIInv == Init => IInv
<1> SUFFICES ASSUME Init PROVE IInv
  OBVIOUS
<1>1. TypeOK
  BY IdleType DEF Init, TypeOK, Reservations, ResStatus, Bookings
<1>2. RidKnown /\ ConsumedIsSpent /\ SingleConsumer
  BY IdleType DEF Init, RidKnown, ConsumedIsSpent, SingleConsumer, HasConsumed
<1>3. QED BY <1>1, <1>2 DEF IInv

\* A write goes unseen by a well-typed handler, and moves it nowhere.
LEMMA MissedTyped ==
  ASSUME TypeOK, NEW q \in Request, NEW window, NEW r \in Reservation, NEW s \in Slot
  PROVE  /\ Missed(q, window, r, s) \in Handlers
         /\ Missed(q, window, r, s).pc = req[q].pc
         /\ Missed(q, window, r, s).rid = req[q].rid
         /\ Missed(q, window, r, s).slot = req[q].slot
         /\ req[q].unseen \subseteq Missed(q, window, r, s).unseen
         /\ req[q].pc \in window /\ Overlaps(req[q].slot, s)
              => r \in Missed(q, window, r, s).unseen
<1> USE DEF TypeOK, Handlers
<1>1. CASE req[q].pc \in window /\ Overlaps(req[q].slot, s)
  <2>1. Missed(q, window, r, s) = [req[q] EXCEPT !.unseen = @ \cup {r}] BY <1>1 DEF Missed
  <2>2. QED BY <2>1
<1>2. CASE ~(req[q].pc \in window /\ Overlaps(req[q].slot, s))
  <2>1. Missed(q, window, r, s) = req[q] BY <1>2, Zenon DEF Missed
  <2>2. QED BY <1>2, <2>1
<1>3. QED BY <1>1, <1>2

\* A booking that comes to the provider fits its schema.
LEMMA PlacedTyped ==
  ASSUME TypeOK, NEW r \in Reservation, NEW s \in Slot, Placed(r, s)
  PROVE  /\ booking' \in [Reservation -> Bookings]
         /\ booking'[r].state = "LIVE" /\ booking'[r].slot = s
         /\ \A q \in Reservation \ {r} : booking'[q] = booking[q]
  BY DEF Placed, TypeOK, Bookings

\* A write is published to well-typed handlers, and moves none of them.
LEMMA PublishTyped ==
  ASSUME TypeOK, NEW p \in Request, NEW window, NEW r \in Reservation, NEW s \in Slot,
         Publish(p, window, r, s)
  PROVE  /\ req' \in [Request -> Handlers]
         /\ req'[p] = Idle
         /\ \A q \in Request \ {p} :
              /\ req'[q].pc = req[q].pc /\ req'[q].rid = req[q].rid
              /\ req'[q].slot = req[q].slot
              /\ req[q].unseen \subseteq req'[q].unseen
              /\ req[q].pc \in window /\ Overlaps(req[q].slot, s) => r \in req'[q].unseen
<1>1. ASSUME NEW q \in Request \ {p} PROVE req'[q] = Missed(q, window, r, s)
  BY DEF Publish
<1>2. req'[p] = Idle
  BY DEF Publish
<1>3. req' = [q \in Request |-> req'[q]]
  BY DEF Publish
<1>4. \A q \in Request : req'[q] \in Handlers
  BY <1>1, <1>2, IdleType, MissedTyped
<1>5. req' \in [Request -> Handlers]
  BY <1>3, <1>4
<1>6. ASSUME NEW q \in Request \ {p}
      PROVE  /\ req'[q].pc = req[q].pc /\ req'[q].rid = req[q].rid
             /\ req'[q].slot = req[q].slot
             /\ req[q].unseen \subseteq req'[q].unseen
             /\ req[q].pc \in window /\ Overlaps(req[q].slot, s) => r \in req'[q].unseen
  <2>1. req'[q] = Missed(q, window, r, s) BY <1>1
  <2>2. QED BY <2>1, MissedTyped
<1>7. QED BY <1>2, <1>5, <1>6

\* So is a booking that nobody checked.
LEMMA PutTyped ==
  ASSUME TypeOK, NEW r \in Reservation, NEW s \in Slot, PutUnchecked(r, s)
  PROVE  /\ req' \in [Request -> Handlers]
         /\ \A q \in Request :
              /\ req'[q].pc = req[q].pc /\ req'[q].rid = req[q].rid
              /\ req'[q].slot = req[q].slot
              /\ req[q].unseen \subseteq req'[q].unseen
              /\ req[q].pc \in Booking /\ Overlaps(req[q].slot, s) => r \in req'[q].unseen
<1>1. \A q \in Request : req'[q] = Missed(q, Booking, r, s)
  BY DEF PutUnchecked
<1>2. req' = [q \in Request |-> req'[q]]
  BY DEF PutUnchecked
<1>3. \A q \in Request : req'[q] \in Handlers
  BY <1>1, MissedTyped
<1>4. req' \in [Request -> Handlers]
  BY <1>2, <1>3
<1>5. ASSUME NEW q \in Request
      PROVE  /\ req'[q].pc = req[q].pc /\ req'[q].rid = req[q].rid
             /\ req'[q].slot = req[q].slot
             /\ req[q].unseen \subseteq req'[q].unseen
             /\ req[q].pc \in Booking /\ Overlaps(req[q].slot, s) => r \in req'[q].unseen
  <2>1. req'[q] = Missed(q, Booking, r, s) BY <1>1
  <2>2. QED BY <2>1, MissedTyped
<1>6. QED BY <1>4, <1>5

LEMMA GotoTyped ==
  ASSUME TypeOK, NEW p \in Request, NEW pc \in Pc, Goto(p, pc)
  PROVE  /\ req' \in [Request -> Handlers]
         /\ req'[p].pc = pc /\ req'[p].rid = req[p].rid /\ req'[p].slot = req[p].slot
         /\ req'[p].unseen = req[p].unseen
         /\ \A q \in Request \ {p} : req'[q] = req[q]
<1> USE DEF Goto, TypeOK, Handlers
<1>1. req'[p] = [req[p] EXCEPT !.pc = pc] /\ req'[p] \in Handlers
  OBVIOUS
<1>2. \A q \in Request \ {p} : req'[q] = req[q]
  OBVIOUS
<1>3. req' \in [Request -> Handlers]
  BY <1>1, <1>2
<1>4. QED BY <1>1, <1>2, <1>3

LEMMA RidPublished ==
  ASSUME TypeOK, RidKnown, NEW p \in Request, NEW window, NEW r \in Reservation,
         NEW s \in Slot, Publish(p, window, r, s)
  PROVE  RidKnown'
<1>1. req'[p].pc = "idle"
  BY PublishTyped, IdleType
<1>2. \A q \in Request \ {p} : req'[q].pc = req[q].pc /\ req'[q].rid = req[q].rid
  BY PublishTyped
<1>3. QED BY <1>1, <1>2 DEF RidKnown

LEMMA RacesTyped ==
  ASSUME TypeOK, NEW p \in Request, NEW r \in Reservation
  PROVE  /\ Races(p, r) \subseteq SUBSET Reservation
         /\ \A q \in req[p].unseen : {r, q} \in Races(p, r)
  BY DEF TypeOK, Handlers, Races

\* A booking that is written clears its earlier races and adds those it lost.
LEMMA WrittenTyped ==
  ASSUME TypeOK, NEW p \in Request, NEW r \in Reservation, BookingWritten(p, r)
  PROVE  /\ raced' \in [holds : SUBSET SUBSET Reservation,
                         bookings : SUBSET SUBSET Reservation,
                         blind : SUBSET SUBSET Reservation]
         /\ raced'.holds = raced.holds
         /\ Races(p, r) \subseteq raced'.bookings
         /\ \A pair \in raced.bookings : r \notin pair => pair \in raced'.bookings
         /\ \A pair \in raced.blind : r \notin pair => pair \in raced'.blind
  BY RacesTyped DEF BookingWritten, Without, TypeOK

\* An unchecked booking is paired with all that is in its way.
LEMMA ClashesTyped ==
  ASSUME TypeOK, NEW r \in Reservation, NEW s \in Slot
  PROVE  /\ Clashes(r, s) \subseteq SUBSET Reservation
         /\ \A q \in Reservation \ {r} :
              booking[q].state = "LIVE" /\ Overlaps(s, booking[q].slot)
                => {r, q} \in Clashes(r, s)
  BY DEF Clashes

\* The type invariant and the known ids: every step of every handler keeps
\* the collections and the handlers within their types.
LEMMA TypeStep == TypeOK /\ RidKnown /\ [Next]_vars => TypeOK' /\ RidKnown'
<1> SUFFICES ASSUME TypeOK, RidKnown, [Next]_vars
             PROVE  TypeOK' /\ RidKnown'
  OBVIOUS
<1> USE IdleType, HoldAssumption
    DEF TypeOK, RidKnown, Reservations, ResStatus, Bookings, Handlers, Pc
<1>1. ASSUME NEW p \in Request, Handler(p) PROVE TypeOK' /\ RidKnown'
  <2>1. ASSUME NEW s \in Slot, BeginReserve(p, s) PROVE TypeOK' /\ RidKnown'
    BY <2>1 DEF BeginReserve, Await
  <2>2. CASE CheckBlocks(p)
    <3>1. Goto(p, "checkHolds") \/ Finish(p) BY <2>2 DEF CheckBlocks, GotoIf
    <3>2. CASE Goto(p, "checkHolds") BY <2>2, <3>2, GotoTyped DEF CheckBlocks
    <3>3. CASE Finish(p) BY <2>2, <3>3 DEF CheckBlocks, Finish
    <3>4. QED BY <3>1, <3>2, <3>3
  <2>3. CASE CheckHolds(p)
    <3>1. Goto(p, "acquire") \/ Finish(p) BY <2>3 DEF CheckHolds, GotoIf
    <3>2. CASE Goto(p, "acquire") BY <2>3, <3>2, GotoTyped DEF CheckHolds
    <3>3. CASE Finish(p) BY <2>3, <3>3 DEF CheckHolds, Finish
    <3>4. QED BY <3>1, <3>2, <3>3
  <2>4. CASE AcquireSlotHold(p)
    <3>1. holdKey' \in [Slot -> Nat]
      BY <2>4 DEF AcquireSlotHold
    <3>2. Goto(p, "insert") \/ Finish(p) BY <2>4 DEF AcquireSlotHold
    <3>3. CASE Goto(p, "insert") BY <2>4, <3>1, <3>3, GotoTyped DEF AcquireSlotHold
    <3>4. CASE Finish(p) BY <2>4, <3>1, <3>4 DEF AcquireSlotHold, Finish
    <3>5. QED BY <3>2, <3>3, <3>4
  <2>5. ASSUME NEW r \in Reservation, InsertReservation(p, r) PROVE TypeOK' /\ RidKnown'
    <3>1. Publish(p, Holding, r, req[p].slot) /\ req[p].slot \in Slot
      BY <2>5 DEF InsertReservation
    <3>2. raced' \in [holds : SUBSET SUBSET Reservation, bookings : SUBSET SUBSET Reservation,
                      blind : SUBSET SUBSET Reservation]
      BY <2>5, RacesTyped DEF InsertReservation
    <3>3. res' \in [Reservation -> Reservations] /\ UNCHANGED <<now, holdKey, booking>>
      BY <2>5 DEF InsertReservation
    <3>4. TypeOK' BY <3>1, <3>2, <3>3, PublishTyped
    <3>5. RidKnown' BY <3>1, RidPublished
    <3>6. QED BY <3>4, <3>5
  <2>6. CASE InsertFails(p) BY <2>6 DEF InsertFails, DropKey, Finish
  <2>7. ASSUME NEW r \in Reservation, BeginBooking(p, r) PROVE TypeOK' /\ RidKnown'
    BY <2>7 DEF BeginBooking, Await
  <2>8. CASE ConsumeReservation(p)
    <3> DEFINE r == req[p].rid
    <3>1. CASE LiveHold(r)
      <4>1. /\ res' = [res EXCEPT ![r].status = "CONSUMED"]
            /\ Await(p, "delConsumed", r, res[r].slot, 0)
            /\ r \in Reservation
        BY <2>8, <3>1 DEF ConsumeReservation
      <4>2. QED BY <2>8, <4>1 DEF ConsumeReservation, Await
    <3>2. CASE ~LiveHold(r)
      <4>1. Finish(p) /\ UNCHANGED res BY <2>8, <3>2 DEF ConsumeReservation
      <4>2. QED BY <2>8, <4>1 DEF ConsumeReservation, Finish
    <3>3. QED BY <3>1, <3>2
  <2>9. CASE DelConsumed(p) BY <2>9, GotoTyped DEF DelConsumed, DropKey
  <2>10. CASE CheckEligible(p)
    <3>1. Goto(p, "createBooking") \/ Finish(p) BY <2>10 DEF CheckEligible, GotoIf
    <3>2. CASE Goto(p, "createBooking") BY <2>10, <3>2, GotoTyped DEF CheckEligible
    <3>3. CASE Finish(p) BY <2>10, <3>3 DEF CheckEligible, Finish
    <3>4. QED BY <3>1, <3>2, <3>3
  <2>11. CASE CreateBooking(p)
    <3> DEFINE r == req[p].rid
    <3>1. r \in Reservation /\ req[p].slot \in Slot
      BY <2>11 DEF CreateBooking
    <3>2. booking' \in [Reservation -> Bookings] /\ UNCHANGED <<now, res, holdKey>>
      <4>1. booking' = booking \/ Placed(r, req[p].slot)
        BY <2>11 DEF CreateBooking
      <4>2. QED BY <2>11, <3>1, <4>1, PlacedTyped DEF CreateBooking
    <3>3. CASE BookingWritten(p, r)
      <4>1. RidKnown' BY <3>1, <3>3, RidPublished DEF BookingWritten
      <4>2. req' \in [Request -> Handlers]
        BY <3>1, <3>3, PublishTyped DEF BookingWritten
      <4>3. TypeOK'
        BY <3>1, <3>2, <3>3, <4>2, WrittenTyped
      <4>4. QED BY <4>1, <4>3
    <3>4. CASE Finish(p) /\ UNCHANGED raced
      BY <3>2, <3>4 DEF Finish
    <3>5. QED BY <2>11, <3>3, <3>4 DEF CreateBooking
  <2>12. ASSUME NEW r \in Reservation, BeginRelease(p, r) PROVE TypeOK' /\ RidKnown'
    BY <2>12 DEF BeginRelease, Await
  <2>13. ASSUME NEW r \in Reservation, BeginGet(p, r) PROVE TypeOK' /\ RidKnown'
    BY <2>13 DEF BeginGet, Await
  <2>14. CASE SaveReleased(p)
    <3> DEFINE r == req[p].rid
    <3>1. CASE res[r].status = "REMOVED"
      <4>1. Finish(p) /\ UNCHANGED <<now, res, holdKey, booking, raced>>
        BY <2>14, <3>1 DEF SaveReleased
      <4>2. QED BY <4>1 DEF Finish
    <3>2. CASE res[r].status # "REMOVED"
      <4>1. Goto(p, "delReleased") /\ res' = [res EXCEPT ![r].status = "RELEASED"]
            /\ UNCHANGED <<now, holdKey, booking, raced>> /\ r \in Reservation
        BY <2>14, <3>2 DEF SaveReleased
      <4>2. res' \in [Reservation -> Reservations] BY <4>1
      <4>3. TypeOK' BY <4>1, <4>2, GotoTyped
      <4>4. RidKnown' BY <4>1, GotoTyped
      <4>5. QED BY <4>3, <4>4
    <3>3. QED BY <3>1, <3>2
  <2>15. CASE DelReleased(p) BY <2>15 DEF DelReleased, DropKey, Finish
  <2>16. CASE SaveExpired(p) BY <2>16 DEF SaveExpired, Finish
  <2>17. ASSUME NEW r \in Reservation, NEW s \in Slot, BeginMove(p, r, s)
         PROVE  TypeOK' /\ RidKnown'
    BY <2>17 DEF BeginMove, Await
  <2>18. CASE MoveBooking(p)
    <3> DEFINE r == req[p].rid
    <3>1. r \in Reservation /\ req[p].slot \in Slot
      BY <2>18 DEF MoveBooking
    <3>2. booking' \in [Reservation -> Bookings] /\ UNCHANGED <<now, res, holdKey>>
      BY <2>18, <3>1 DEF MoveBooking
    <3>3. BookingWritten(p, r) BY <2>18 DEF MoveBooking
    <3>4. RidKnown' BY <3>1, <3>3, RidPublished DEF BookingWritten
    <3>5. req' \in [Request -> Handlers]
      BY <3>1, <3>3, PublishTyped DEF BookingWritten
    <3>6. TypeOK'
      BY <3>1, <3>2, <3>3, <3>5, WrittenTyped
    <3>7. QED BY <3>4, <3>6
  <2>19. CASE Fail(p) BY <2>19 DEF Fail, Finish
  <2>20. ASSUME NEW s \in Slot, BeginTakeOver(p, s) PROVE TypeOK' /\ RidKnown'
    BY <2>20 DEF BeginTakeOver, Await
  <2>21. ASSUME NEW r \in Reservation, TakeOver(p, r) PROVE TypeOK' /\ RidKnown'
    <3>1. req[p].slot \in Slot
      BY <2>21
    <3>2. booking' \in [Reservation -> Bookings] /\ UNCHANGED <<now, res, holdKey>>
      BY <2>21, <3>1, PlacedTyped DEF TakeOver
    <3>3. BookingWritten(p, r) BY <2>21 DEF TakeOver
    <3>4. RidKnown' BY <3>1, <3>3, RidPublished DEF BookingWritten
    <3>5. req' \in [Request -> Handlers]
      BY <3>1, <3>3, PublishTyped DEF BookingWritten
    <3>6. TypeOK'
      BY <3>1, <3>2, <3>3, <3>5, WrittenTyped
    <3>7. QED BY <3>4, <3>6
  <2>22. QED
    BY <1>1, <2>1, <2>2, <2>3, <2>4, <2>5, <2>6, <2>7, <2>8, <2>9, <2>10, <2>11, <2>12,
       <2>13, <2>14, <2>15, <2>16, <2>17, <2>18, <2>19, <2>20, <2>21 DEF Handler
<1>2. ASSUME NEW r \in Reservation, EndBooking(r) PROVE TypeOK' /\ RidKnown'
  BY <1>2 DEF EndBooking
<1>3. ASSUME NEW r \in Reservation, TtlRemove(r) PROVE TypeOK' /\ RidKnown'
  BY <1>3 DEF TtlRemove
<1>4. CASE Tick BY <1>4 DEF Tick
<1>5. CASE UNCHANGED vars BY <1>5 DEF vars
<1>6. ASSUME NEW r \in Reservation, NEW s \in Slot, PutUnchecked(r, s)
      PROVE  TypeOK' /\ RidKnown'
  <2>1. booking' \in [Reservation -> Bookings] /\ UNCHANGED <<now, res, holdKey>>
    BY <1>6, PlacedTyped DEF PutUnchecked
  <2>2. raced' \in [holds : SUBSET SUBSET Reservation, bookings : SUBSET SUBSET Reservation,
                    blind : SUBSET SUBSET Reservation]
    <3>1. raced' = [raced EXCEPT !.bookings = Without(r, @),
                                 !.blind = Without(r, @) \cup Clashes(r, s)]
      BY <1>6 DEF PutUnchecked
    <3>2. Without(r, raced.bookings) \subseteq SUBSET Reservation
          /\ Without(r, raced.blind) \cup Clashes(r, s) \subseteq SUBSET Reservation
      BY ClashesTyped DEF Without
    <3>3. QED BY <3>1, <3>2
  <2>3. TypeOK' BY <1>6, <2>1, <2>2, PutTyped
  <2>4. RidKnown' BY <1>6, PutTyped
  <2>5. QED BY <2>3, <2>4
<1>7. QED BY <1>1, <1>2, <1>3, <1>4, <1>5, <1>6 DEF Next

\* A write that ends its handler, spends nothing less, holds nothing booked, and
\* books nothing that another handler has consumed.
LEMMA PublishedConsumer ==
  ASSUME IInv, RidKnown', NEW p \in Request, NEW window, NEW r \in Reservation,
         NEW s \in Slot, Publish(p, window, r, s),
         \A q \in Reservation : Spent(q) => Spent(q)',
         \A q \in Reservation : booking[q].state # "NONE" => booking'[q].state # "NONE",
         \A q \in Reservation : booking'[q].state # "NONE" => res'[q].status # "HELD",
         \A q \in Reservation :
           \/ booking'[q].state = booking[q].state
           \/ \A h \in Request : HasConsumed(h) /\ h # p => req[h].rid # q
  PROVE  ConsumedIsSpent' /\ SingleConsumer'
<1> USE DEF IInv
<1>1. req'[p].pc = "idle"
  BY PublishTyped, IdleType
<1>2. \A q \in Request \ {p} : req'[q].pc = req[q].pc /\ req'[q].rid = req[q].rid
  BY PublishTyped
<1>3. \A q \in Request : HasConsumed(q)' => q # p /\ HasConsumed(q)
  BY <1>1, <1>2 DEF HasConsumed
<1>4. \A q \in Request : HasConsumed(q) => req[q].rid \in Reservation
  BY DEF HasConsumed, RidKnown
<1>5. ConsumedIsSpent'
  <2>1. \A q \in Request : HasConsumed(q)' => Spent(req[q].rid)' /\ req'[q].rid = req[q].rid
    BY <1>2, <1>3, <1>4 DEF ConsumedIsSpent, Spent
  <2>3. \A q \in Request : req'[q].pc = "moveBooking" => booking'[req'[q].rid].state # "NONE"
    BY <1>1, <1>2 DEF ConsumedIsSpent, RidKnown
  <2>4. QED BY <2>1, <2>3 DEF ConsumedIsSpent, Spent
<1>6. SingleConsumer'
  BY <1>2, <1>3, <1>4 DEF SingleConsumer
<1>7. QED BY <1>5, <1>6

\* Steps that leave the reservations' and the bookings' lifecycle alone and
\* put no handler past its consuming update.
LEMMA QuietStep ==
  ASSUME IInv, RidKnown', UNCHANGED <<res, booking>>, NEW p \in Request,
         \A q \in Request \ {p} : req'[q] = req[q],
         HasConsumed(p)' => HasConsumed(p) /\ req'[p].rid = req[p].rid,
         req'[p].pc = "moveBooking" => booking[req'[p].rid].state # "NONE"
  PROVE  ConsumedIsSpent' /\ SingleConsumer'
  BY DEF IInv, ConsumedIsSpent, SingleConsumer, HasConsumed, Spent

LEMMA ConsumerStep == IInv /\ TypeOK' /\ RidKnown' /\ [Next]_vars
                        => ConsumedIsSpent' /\ SingleConsumer'
<1> SUFFICES ASSUME IInv, TypeOK', RidKnown', [Next]_vars
             PROVE  ConsumedIsSpent' /\ SingleConsumer'
  OBVIOUS
<1> USE DEF IInv, TypeOK, Handlers
<1>1. ASSUME NEW p \in Request, Handler(p) PROVE ConsumedIsSpent' /\ SingleConsumer'
  <2> USE IdleType DEF HasConsumed, Begins
  <2>1. ASSUME NEW s \in Slot, BeginReserve(p, s) PROVE ConsumedIsSpent' /\ SingleConsumer'
    BY <2>1, QuietStep DEF BeginReserve, Await
  <2>2. CASE CheckBlocks(p) BY <2>2, QuietStep DEF CheckBlocks, GotoIf, Goto, Finish
  <2>3. CASE CheckHolds(p) BY <2>3, QuietStep DEF CheckHolds, GotoIf, Goto, Finish
  <2>4. CASE AcquireSlotHold(p) BY <2>4, QuietStep DEF AcquireSlotHold, Goto, Finish
  <2>5. ASSUME NEW r \in Reservation, InsertReservation(p, r)
        PROVE  ConsumedIsSpent' /\ SingleConsumer'
    <3>1. Publish(p, Holding, r, req[p].slot) /\ res[r].status = "ABSENT"
          /\ UNCHANGED booking /\ \A q \in Reservation \ {r} : res'[q] = res[q]
      BY <2>5 DEF InsertReservation
    <3>2. \A q \in Reservation : Spent(q) => Spent(q)'
      BY <3>1 DEF Spent
    <3>3. \A q \in Reservation : booking'[q].state # "NONE" => res'[q].status # "HELD"
      BY <2>5, <3>1 DEF InsertReservation, ConsumedIsSpent
    <3>4. QED BY <3>1, <3>2, <3>3, PublishedConsumer
  <2>6. CASE InsertFails(p) BY <2>6, QuietStep DEF InsertFails, Finish
  <2>7. ASSUME NEW r \in Reservation, BeginBooking(p, r)
        PROVE  ConsumedIsSpent' /\ SingleConsumer'
    BY <2>7, QuietStep DEF BeginBooking, Await
  <2>8. CASE ConsumeReservation(p)
    <3>1. CASE LiveHold(req[p].rid)
      <4> DEFINE r == req[p].rid
      <4>1. /\ res' = [res EXCEPT ![r].status = "CONSUMED"]
            /\ Await(p, "delConsumed", r, res[r].slot, 0)
            /\ r \in Reservation /\ ~Spent(r) /\ UNCHANGED booking
        BY <2>8, <3>1 DEF ConsumeReservation, LiveHold, RidKnown, Spent
      <4>2. booking[r].state = "NONE" /\ \A q \in Request : HasConsumed(q) => req[q].rid # r
        BY <2>8, <3>1, <4>1 DEF ConsumedIsSpent, LiveHold
      <4>3. QED
        BY <4>1, <4>2 DEF Await, ConsumedIsSpent, SingleConsumer, Spent, RidKnown,
           Reservations, ResStatus
    <3>2. CASE ~LiveHold(req[p].rid)
      BY <2>8, <3>2, QuietStep DEF ConsumeReservation, Await, Finish
    <3>3. QED BY <3>1, <3>2
  <2>9. CASE DelConsumed(p) BY <2>9, QuietStep DEF DelConsumed, Goto
  <2>10. CASE CheckEligible(p) BY <2>10, QuietStep DEF CheckEligible, GotoIf, Goto, Finish
  <2>11. CASE CreateBooking(p)
    <3> DEFINE r == req[p].rid
    <3>1. r \in Reservation /\ Spent(r) /\ booking[r].state = "NONE"
          /\ UNCHANGED res /\ BookingWritten(p, r) /\ Placed(r, req[p].slot)
      BY <2>11 DEF CreateBooking, ConsumedIsSpent, SingleConsumer, RidKnown
    <3>2. /\ \A q \in Reservation \ {r} : booking'[q] = booking[q]
          /\ booking'[r].state # "NONE" /\ req[p].slot \in Slot
      BY <3>1, PlacedTyped
    <3>3. \A q \in Request : HasConsumed(q) /\ q # p => req[q].rid # r
      BY <2>11 DEF CreateBooking, SingleConsumer
    <3>4. \A q \in Reservation : booking'[q].state # "NONE" => res'[q].status # "HELD"
      BY <3>1, <3>2 DEF ConsumedIsSpent, Spent
    <3>5. Publish(p, Booking, r, req[p].slot) BY <3>1 DEF BookingWritten
    <3>6. \A q \in Reservation : Spent(q) => Spent(q)' BY <3>1 DEF Spent
    <3>7. \A q \in Reservation : booking[q].state # "NONE" => booking'[q].state # "NONE"
      BY <3>2
    <3>8. \A q \in Reservation :
            \/ booking'[q].state = booking[q].state
            \/ \A h \in Request : HasConsumed(h) /\ h # p => req[h].rid # q
      BY <3>2, <3>3
    <3>9. QED BY <3>1, <3>2, <3>4, <3>5, <3>6, <3>7, <3>8, PublishedConsumer
  <2>12. ASSUME NEW r \in Reservation, BeginRelease(p, r)
         PROVE  ConsumedIsSpent' /\ SingleConsumer'
    BY <2>12, QuietStep DEF BeginRelease, Await
  <2>13. ASSUME NEW r \in Reservation, BeginGet(p, r)
         PROVE  ConsumedIsSpent' /\ SingleConsumer'
    BY <2>13, QuietStep DEF BeginGet, Await
  <2>14. CASE SaveReleased(p)
    <3> DEFINE r == req[p].rid
    <3>1. CASE res[r].status = "REMOVED" BY <2>14, <3>1, QuietStep DEF SaveReleased, Finish
    <3>2. CASE res[r].status # "REMOVED"
      <4>1. Goto(p, "delReleased") /\ res' = [res EXCEPT ![r].status = "RELEASED"]
        BY <2>14, <3>2 DEF SaveReleased
      <4>2. QED
        BY <2>14, <4>1 DEF SaveReleased, Goto, ConsumedIsSpent, SingleConsumer, Spent,
           RidKnown
    <3>3. QED BY <3>1, <3>2
  <2>15. CASE DelReleased(p) BY <2>15, QuietStep DEF DelReleased, Finish
  <2>16. CASE SaveExpired(p)
    BY <2>16 DEF SaveExpired, Finish, ConsumedIsSpent, SingleConsumer, Spent, RidKnown
  <2>17. ASSUME NEW r \in Reservation, NEW s \in Slot, BeginMove(p, r, s)
         PROVE  ConsumedIsSpent' /\ SingleConsumer'
    BY <2>17, QuietStep DEF BeginMove, Await
  <2>18. CASE MoveBooking(p)
    <3> DEFINE r == req[p].rid
    <3>1. r \in Reservation /\ req[p].slot \in Slot /\ booking[r].state # "NONE"
          /\ UNCHANGED res /\ Publish(p, Booking, r, req[p].slot)
          /\ \A q \in Reservation \ {r} : booking'[q] = booking[q]
      BY <2>18 DEF MoveBooking, BookingWritten, ConsumedIsSpent, RidKnown
    <3>2. booking'[r].state = "LIVE"
      BY <2>18, <3>1 DEF MoveBooking, Bookings
    <3>3. \A q \in Request : HasConsumed(q) => req[q].rid # r
      BY <3>1 DEF SingleConsumer
    <3>4. \A q \in Reservation : booking'[q].state # "NONE" => res'[q].status # "HELD"
      BY <3>1 DEF ConsumedIsSpent
    <3>5. QED BY <3>1, <3>2, <3>3, <3>4, PublishedConsumer DEF Spent
  <2>19. CASE Fail(p) BY <2>19, QuietStep DEF Fail, Finish
  <2>20. ASSUME NEW s \in Slot, BeginTakeOver(p, s)
         PROVE  ConsumedIsSpent' /\ SingleConsumer'
    BY <2>20, QuietStep DEF BeginTakeOver, Await
  <2>21. ASSUME NEW r \in Reservation, TakeOver(p, r)
         PROVE  ConsumedIsSpent' /\ SingleConsumer'
    <3>1. /\ req[p].slot \in Slot /\ res[r].status = "ABSENT" /\ booking[r].state = "NONE"
          /\ UNCHANGED res /\ Publish(p, Booking, r, req[p].slot)
          /\ \A q \in Reservation \ {r} : booking'[q] = booking[q]
      BY <2>21, PlacedTyped DEF TakeOver, Elsewhere, BookingWritten
    <3>2. \A q \in Request : HasConsumed(q) => req[q].rid # r
      BY <3>1 DEF ConsumedIsSpent, Spent
    <3>3. \A q \in Reservation : booking'[q].state # "NONE" => res'[q].status # "HELD"
      BY <3>1 DEF ConsumedIsSpent
    <3>4. QED BY <3>1, <3>2, <3>3, PublishedConsumer DEF Spent
  <2>22. QED
    BY <1>1, <2>1, <2>2, <2>3, <2>4, <2>5, <2>6, <2>7, <2>8, <2>9, <2>10, <2>11, <2>12,
       <2>13, <2>14, <2>15, <2>16, <2>17, <2>18, <2>19, <2>20, <2>21 DEF Handler
<1>2. ASSUME NEW r \in Reservation, EndBooking(r) PROVE ConsumedIsSpent' /\ SingleConsumer'
  BY <1>2 DEF EndBooking, ConsumedIsSpent, SingleConsumer, Spent, HasConsumed, RidKnown, Bookings
<1>3. ASSUME NEW r \in Reservation, TtlRemove(r) PROVE ConsumedIsSpent' /\ SingleConsumer'
  BY <1>3 DEF TtlRemove, ConsumedIsSpent, SingleConsumer, Spent, HasConsumed, RidKnown
<1>4. CASE Tick
  BY <1>4 DEF Tick, ConsumedIsSpent, SingleConsumer, Spent, HasConsumed
<1>5. CASE UNCHANGED vars
  BY <1>5 DEF vars, ConsumedIsSpent, SingleConsumer, Spent, HasConsumed
<1>6. ASSUME NEW r \in Reservation, NEW s \in Slot, PutUnchecked(r, s)
      PROVE  ConsumedIsSpent' /\ SingleConsumer'
  <2>1. /\ res[r].status = "ABSENT" /\ booking[r].state = "NONE" /\ UNCHANGED res
        /\ \A q \in Reservation \ {r} : booking'[q] = booking[q]
        /\ booking'[r].state = "LIVE"
    BY <1>6, PlacedTyped DEF PutUnchecked, Elsewhere
  <2>2. \A q \in Request : req'[q].pc = req[q].pc /\ req'[q].rid = req[q].rid
    BY <1>6, PutTyped
  <2>3. \A q \in Request : (HasConsumed(q)' <=> HasConsumed(q))
                          /\ (HasConsumed(q) => req[q].rid \in Reservation \ {r})
    BY <2>1, <2>2 DEF HasConsumed, ConsumedIsSpent, Spent, RidKnown
  <2>4. ConsumedIsSpent'
    <3>1. \A q \in Request : HasConsumed(q)' => Spent(req[q].rid)' /\ req'[q].rid = req[q].rid
      BY <2>1, <2>2, <2>3 DEF ConsumedIsSpent, Spent
    <3>2. \A q \in Reservation : booking'[q].state # "NONE" => res'[q].status # "HELD"
      BY <2>1 DEF ConsumedIsSpent
    <3>3. \A q \in Request : req'[q].pc = "moveBooking" => booking'[req'[q].rid].state # "NONE"
      BY <2>1, <2>2 DEF ConsumedIsSpent, RidKnown
    <3>4. QED BY <3>1, <3>2, <3>3 DEF ConsumedIsSpent, Spent
  <2>5. SingleConsumer'
    BY <2>1, <2>2, <2>3 DEF SingleConsumer
  <2>6. QED BY <2>4, <2>5
<1>7. QED BY <1>1, <1>2, <1>3, <1>4, <1>5, <1>6 DEF Next

LEMMA Inductive == Spec => []IInv
<1>1. IInv /\ [Next]_vars => IInv'
  BY TypeStep, ConsumerStep DEF IInv
<1>2. QED BY InitIInv, <1>1, PTL DEF Spec

\* Every reachable state of the collections and of the handlers is well typed.
THEOREM TypeCorrect == Spec => []TypeOK
<1>1. IInv => TypeOK BY DEF IInv
<1>2. QED BY Inductive, <1>1, PTL

\* Whatever createBookingFromReservation races with, one handler at most is
\* past the consuming update of a reservation, and none once it is booked.
THEOREM OneConsumer == Spec => []SingleConsumer
<1>1. IInv => SingleConsumer BY DEF IInv
<1>2. QED BY Inductive, <1>1, PTL

-----------------------------------------------------------------------------
(* What a handler has checked is still so when it writes, save for what it    *)
(* has not seen.                                                              *)

\* Past the two queries of createSlotReservation the only holds in the way are
\* those inserted since.
FreeToHold ==
  \A p \in Request, r \in Reservation :
    req[p].pc \in Holding /\ LiveHold(r) /\ Overlaps(req[p].slot, res[r].slot)
      => r \in req[p].unseen

\* Past the last check of a handler that books or moves, the only bookings in
\* the way are those written since.
FreeToBook ==
  \A p \in Request, r \in Reservation :
    req[p].pc \in Booking /\ booking[r].state = "LIVE"
        /\ Overlaps(req[p].slot, booking[r].slot)
      => r \in req[p].unseen

Apart == FreeToHold /\ FreeToBook /\ NoOverlappingHolds /\ NoDoubleBooking

LEMMA OverlapsSym ==
  ASSUME NEW s \in Slot, NEW t \in Slot
  PROVE  Overlaps(s, t) <=> Overlaps(t, s)
  BY DEF Overlaps

LEMMA InitApart == Init => Apart
  BY IdleType DEF Init, Apart, FreeToHold, FreeToBook, NoOverlappingHolds, NoDoubleBooking,
     LiveHold, Holding, Booking

\* Neither hold nor booking is new or elsewhere than it was.
Settled ==
  /\ \A r \in Reservation : LiveHold(r)' => LiveHold(r) /\ res'[r].slot = res[r].slot
  /\ \A r \in Reservation : booking'[r].state = "LIVE" =>
       booking[r].state = "LIVE" /\ booking'[r].slot = booking[r].slot

\* The handler keeps its slot and what it has not seen, or has found its slot
\* free, or is not about to write.
Careful(p) ==
  \/ req'[p].pc = req[p].pc /\ req'[p].slot = req[p].slot /\ req'[p].unseen = req[p].unseen
  \/ /\ req[p].pc \in Holding /\ req'[p].pc \in Holding
     /\ req'[p].slot = req[p].slot /\ req'[p].unseen = req[p].unseen
  \/ req'[p].pc \in Holding /\ ~HeldAt(req'[p].slot)
  \/ req'[p].pc \in Booking /\ ~BookedAt(req'[p].slot)
  \/ req'[p].pc \notin Holding \cup Booking

\* A step that gives nobody a hold or a booking, of handlers that check first.
LEMMA CalmStep ==
  ASSUME TypeOK, TypeOK', Apart, Settled, UNCHANGED raced, \A p \in Request : Careful(p)
  PROVE  Apart'
<1> USE DEF Settled, Apart
<1> SUFFICES FreeToHold' /\ FreeToBook' /\ NoOverlappingHolds' /\ NoDoubleBooking'
  OBVIOUS
<1> USE DEF TypeOK, Reservations, Bookings, Handlers
<1>1. FreeToHold'
  <2> SUFFICES ASSUME NEW p \in Request, NEW r \in Reservation, req'[p].pc \in Holding,
                      LiveHold(r)', Overlaps(req'[p].slot, res'[r].slot)
               PROVE  r \in req'[p].unseen
    BY Zenon DEF FreeToHold, Overlaps
  <2>1. LiveHold(r) /\ res'[r].slot = res[r].slot
    OBVIOUS
  <2>2. HeldAt(req'[p].slot)
    BY <2>1, OverlapsSym DEF HeldAt
  <2>3. QED BY <2>1, <2>2 DEF Careful, FreeToHold, Holding, Booking
<1>2. FreeToBook'
  <2> SUFFICES ASSUME NEW p \in Request, NEW r \in Reservation, req'[p].pc \in Booking,
                      booking'[r].state = "LIVE", Overlaps(req'[p].slot, booking'[r].slot)
               PROVE  r \in req'[p].unseen
    BY Zenon DEF FreeToBook, Overlaps
  <2>1. booking[r].state = "LIVE" /\ booking'[r].slot = booking[r].slot
    OBVIOUS
  <2>2. BookedAt(req'[p].slot)
    BY <2>1, OverlapsSym DEF BookedAt
  <2>3. QED BY <2>1, <2>2 DEF Careful, FreeToBook, Holding, Booking
<1>3. NoOverlappingHolds'
  BY DEF NoOverlappingHolds
<1>4. NoDoubleBooking'
  BY DEF NoDoubleBooking
<1>5. QED BY <1>1, <1>2, <1>3, <1>4

\* A step of one handler that is no write of a hold or a booking.
LEMMA OwnStep ==
  ASSUME TypeOK, TypeOK', Apart, UNCHANGED <<now, booking, raced>>, NEW p \in Request,
         \A r \in Reservation : res'[r].status = "HELD" => res'[r] = res[r],
         \A q \in Request \ {p} : req'[q] = req[q], Careful(p)
  PROVE  Apart'
<1>1. Settled
  BY DEF Settled, LiveHold
<1>2. \A q \in Request : Careful(q)
  BY DEF Careful
<1>3. QED BY <1>1, <1>2, CalmStep

\* The insert of a hold: its handler has seen every hold that overlaps it, but
\* for those that then make a pair of the history.
LEMMA InsertApart ==
  ASSUME TypeOK, TypeOK', Apart, NEW p \in Request, NEW r \in Reservation,
         InsertReservation(p, r)
  PROVE  Apart'
<1> DEFINE s == req[p].slot
<1> USE DEF TypeOK, Reservations, Bookings, Handlers
<1>1. /\ req[p].pc \in Holding /\ s \in Slot /\ res'[r].slot = s
      /\ \A q \in Reservation \ {r} : res'[q] = res[q]
      /\ UNCHANGED <<now, booking>> /\ Publish(p, Holding, r, s)
  BY DEF InsertReservation, Holding
<1>2. /\ Races(p, r) \subseteq raced'.holds
      /\ raced.holds \subseteq raced'.holds /\ raced'.bookings = raced.bookings
      /\ raced'.blind = raced.blind
  BY DEF InsertReservation
<1>3. \A q \in Reservation \ {r} : LiveHold(q)' => LiveHold(q)
  BY <1>1 DEF LiveHold
<1>4. /\ req'[p].pc = "idle"
      /\ \A q \in Request \ {p} :
           /\ req'[q].pc = req[q].pc /\ req'[q].slot = req[q].slot
           /\ req[q].unseen \subseteq req'[q].unseen
           /\ req[q].pc \in Holding /\ Overlaps(req[q].slot, s) => r \in req'[q].unseen
  BY <1>1, PublishTyped, IdleType
<1>5. FreeToHold'
  <2> SUFFICES ASSUME NEW q \in Request, NEW x \in Reservation, req'[q].pc \in Holding,
                      LiveHold(x)', Overlaps(req'[q].slot, res'[x].slot)
               PROVE  x \in req'[q].unseen
    BY Zenon DEF FreeToHold, Overlaps
  <2>1. q # p BY <1>4 DEF Holding
  <2>2. CASE x = r BY <2>1, <2>2, <1>1, <1>4
  <2>3. CASE x # r BY <2>1, <2>3, <1>1, <1>3, <1>4 DEF Apart, FreeToHold
  <2>4. QED BY <2>2, <2>3
<1>6. FreeToBook'
  BY <1>1, <1>4 DEF Apart, FreeToBook, Booking
<1>7. NoOverlappingHolds'
  <2> SUFFICES ASSUME NEW x \in Reservation, NEW y \in Reservation, x # y,
                      LiveHold(x)', LiveHold(y)', Overlaps(res'[x].slot, res'[y].slot)
               PROVE  {x, y} \in raced'.holds
    BY Zenon DEF NoOverlappingHolds, Overlaps
  <2>1. CASE x # r /\ y # r
    BY <2>1, <1>1, <1>2, <1>3 DEF Apart, NoOverlappingHolds
  <2>2. CASE x = r
    <3>1. y \in req[p].unseen
      BY <2>2, <1>1, <1>3 DEF Apart, FreeToHold
    <3>2. QED BY <2>2, <3>1, <1>2, RacesTyped
  <2>3. CASE y = r
    <3>1. x \in req[p].unseen
      BY <2>3, <1>1, <1>3, OverlapsSym DEF Apart, FreeToHold
    <3>2. {x, y} = {y, x} OBVIOUS
    <3>3. QED BY <2>3, <3>1, <3>2, <1>2, RacesTyped
  <2>4. QED BY <2>1, <2>2, <2>3
<1>8. NoDoubleBooking'
  BY <1>1, <1>2 DEF Apart, NoDoubleBooking
<1>9. QED BY <1>5, <1>6, <1>7, <1>8 DEF Apart

\* The write of a booking, new, moved or taken over.
LEMMA BookApart ==
  ASSUME TypeOK, TypeOK', Apart, NEW p \in Request, req[p].pc \in Booking,
         NEW r \in Reservation, BookingWritten(p, r), UNCHANGED <<now, res>>,
         booking'[r].slot = req[p].slot,
         \A q \in Reservation \ {r} : booking'[q] = booking[q]
  PROVE  Apart'
<1> DEFINE s == req[p].slot
<1> USE DEF TypeOK, Reservations, Bookings, Handlers
<1>1. s \in Slot /\ Publish(p, Booking, r, s)
  BY DEF BookingWritten
<1>2. /\ Races(p, r) \subseteq raced'.bookings /\ raced'.holds = raced.holds
      /\ \A pair \in raced.bookings : r \notin pair => pair \in raced'.bookings
      /\ \A pair \in raced.blind : r \notin pair => pair \in raced'.blind
  BY WrittenTyped
<1>3. /\ req'[p].pc = "idle"
      /\ \A q \in Request \ {p} :
           /\ req'[q].pc = req[q].pc /\ req'[q].slot = req[q].slot
           /\ req[q].unseen \subseteq req'[q].unseen
           /\ req[q].pc \in Booking /\ Overlaps(req[q].slot, s) => r \in req'[q].unseen
  BY <1>1, PublishTyped, IdleType
<1>4. FreeToHold'
  BY <1>3 DEF Apart, FreeToHold, Holding, LiveHold
<1>5. FreeToBook'
  <2> SUFFICES ASSUME NEW q \in Request, NEW x \in Reservation, req'[q].pc \in Booking,
                      booking'[x].state = "LIVE", Overlaps(req'[q].slot, booking'[x].slot)
               PROVE  x \in req'[q].unseen
    BY Zenon DEF FreeToBook, Overlaps
  <2>1. q # p BY <1>3 DEF Booking
  <2>2. CASE x = r BY <2>1, <2>2, <1>3
  <2>3. CASE x # r BY <2>1, <2>3, <1>3 DEF Apart, FreeToBook
  <2>4. QED BY <2>2, <2>3
<1>6. NoOverlappingHolds'
  BY <1>2 DEF Apart, NoOverlappingHolds, LiveHold
<1>7. NoDoubleBooking'
  <2> SUFFICES ASSUME NEW x \in Reservation, NEW y \in Reservation, x # y,
                      booking'[x].state = "LIVE", booking'[y].state = "LIVE",
                      Overlaps(booking'[x].slot, booking'[y].slot)
               PROVE  {x, y} \in raced'.bookings \cup raced'.blind
    BY Zenon DEF NoDoubleBooking, Overlaps
  <2>1. CASE x # r /\ y # r
    BY <2>1, <1>2 DEF Apart, NoDoubleBooking
  <2>2. CASE x = r
    <3>1. y \in req[p].unseen
      BY <2>2 DEF Apart, FreeToBook
    <3>2. QED BY <2>2, <3>1, <1>2, RacesTyped
  <2>3. CASE y = r
    <3>1. x \in req[p].unseen
      BY <2>3, OverlapsSym DEF Apart, FreeToBook
    <3>2. {x, y} = {y, x} OBVIOUS
    <3>3. QED BY <2>3, <3>1, <3>2, <1>2, RacesTyped
  <2>4. QED BY <2>1, <2>2, <2>3
<1>8. QED BY <1>4, <1>5, <1>6, <1>7 DEF Apart

\* A booking that nobody checked is paired with every booking in its way, and
\* goes unseen by those that have checked.
LEMMA PutApart ==
  ASSUME TypeOK, TypeOK', Apart, NEW r \in Reservation, NEW s \in Slot, PutUnchecked(r, s)
  PROVE  Apart'
<1> USE DEF TypeOK, Reservations, Bookings, Handlers
<1>1. /\ booking'[r].slot = s /\ \A q \in Reservation \ {r} : booking'[q] = booking[q]
      /\ UNCHANGED <<now, res>>
  BY PlacedTyped DEF PutUnchecked
<1>2. /\ raced'.holds = raced.holds /\ raced'.bookings = Without(r, raced.bookings)
      /\ raced'.blind = Without(r, raced.blind) \cup Clashes(r, s)
  BY DEF PutUnchecked
<1>3. \A q \in Request :
        /\ req'[q].pc = req[q].pc /\ req'[q].slot = req[q].slot
        /\ req[q].unseen \subseteq req'[q].unseen
        /\ req[q].pc \in Booking /\ Overlaps(req[q].slot, s) => r \in req'[q].unseen
  BY PutTyped
<1>4. FreeToHold'
  BY <1>1, <1>3 DEF Apart, FreeToHold, LiveHold
<1>5. FreeToBook'
  <2> SUFFICES ASSUME NEW q \in Request, NEW x \in Reservation, req'[q].pc \in Booking,
                      booking'[x].state = "LIVE", Overlaps(req'[q].slot, booking'[x].slot)
               PROVE  x \in req'[q].unseen
    BY Zenon DEF FreeToBook, Overlaps
  <2>1. CASE x = r BY <2>1, <1>1, <1>3
  <2>2. CASE x # r BY <2>2, <1>1, <1>3 DEF Apart, FreeToBook
  <2>3. QED BY <2>1, <2>2
<1>6. NoOverlappingHolds'
  BY <1>1, <1>2 DEF Apart, NoOverlappingHolds, LiveHold
<1>7. NoDoubleBooking'
  <2> SUFFICES ASSUME NEW x \in Reservation, NEW y \in Reservation, x # y,
                      booking'[x].state = "LIVE", booking'[y].state = "LIVE",
                      Overlaps(booking'[x].slot, booking'[y].slot)
               PROVE  {x, y} \in raced'.bookings \cup raced'.blind
    BY Zenon DEF NoDoubleBooking, Overlaps
  <2>1. CASE x # r /\ y # r
    BY <2>1, <1>1, <1>2 DEF Apart, NoDoubleBooking, Without
  <2>2. CASE x = r
    BY <2>2, <1>1, <1>2, ClashesTyped
  <2>3. CASE y = r
    <3>1. {r, x} \in Clashes(r, s)
      BY <2>3, <1>1, ClashesTyped, OverlapsSym
    <3>2. {x, y} = {r, x} BY <2>3
    <3>3. QED BY <3>1, <3>2, <1>2
  <2>4. QED BY <2>1, <2>2, <2>3
<1>8. QED BY <1>4, <1>5, <1>6, <1>7 DEF Apart

LEMMA ApartStep ==
  ASSUME TypeOK, TypeOK', RidKnown, Apart, [Next]_vars
  PROVE  Apart'
<1> USE IdleType
<1>1. ASSUME NEW p \in Request, Handler(p) PROVE Apart'
  <2> USE DEF TypeOK, Handlers, Holding, Booking, Careful
  <2>1. ASSUME NEW s \in Slot, BeginReserve(p, s) PROVE Apart'
    BY <2>1, OwnStep DEF BeginReserve, Await
  <2>2. CASE CheckBlocks(p)
    BY <2>2, OwnStep DEF CheckBlocks, GotoIf, Goto, Finish
  <2>3. CASE CheckHolds(p)
    BY <2>3, OwnStep DEF CheckHolds, GotoIf, Goto, Finish
  <2>4. CASE AcquireSlotHold(p)
    BY <2>4, OwnStep DEF AcquireSlotHold, Goto, Finish
  <2>5. ASSUME NEW r \in Reservation, InsertReservation(p, r) PROVE Apart'
    BY <2>5, InsertApart
  <2>6. CASE InsertFails(p)
    BY <2>6, OwnStep DEF InsertFails, Finish
  <2>7. ASSUME NEW r \in Reservation, BeginBooking(p, r) PROVE Apart'
    BY <2>7, OwnStep DEF BeginBooking, Await
  <2>8. CASE ConsumeReservation(p)
    <3>1. req'[p].pc \in {"idle", "delConsumed"} /\ \A q \in Request \ {p} : req'[q] = req[q]
      BY <2>8 DEF ConsumeReservation, Await, Finish
    <3>2. res' = res \/ res' = [res EXCEPT ![req[p].rid].status = "CONSUMED"]
      BY <2>8 DEF ConsumeReservation
    <3>3. \A r \in Reservation : res'[r].status = "HELD" => res'[r] = res[r]
      BY <3>2 DEF Reservations
    <3>4. QED BY <2>8, <3>1, <3>3, OwnStep DEF ConsumeReservation
  <2>9. CASE DelConsumed(p)
    BY <2>9, OwnStep DEF DelConsumed, Goto
  <2>10. CASE CheckEligible(p)
    BY <2>10, OwnStep DEF CheckEligible, GotoIf, Goto, Finish, Blocked
  <2>11. CASE CreateBooking(p)
    <3> DEFINE r == req[p].rid
    <3>1. r \in Reservation
      BY <2>11 DEF CreateBooking, RidKnown
    <3>2. CASE booking[r].state = "NONE"
      <4>1. Placed(r, req[p].slot) /\ BookingWritten(p, r) /\ UNCHANGED <<now, res>>
        BY <2>11, <3>2 DEF CreateBooking, Placed
      <4>2. QED BY <2>11, <3>1, <4>1, PlacedTyped, BookApart DEF CreateBooking
    <3>3. CASE booking[r].state # "NONE"
      BY <2>11, <3>3, OwnStep DEF CreateBooking, Finish
    <3>4. QED BY <3>2, <3>3
  <2>12. ASSUME NEW r \in Reservation, BeginRelease(p, r) PROVE Apart'
    BY <2>12, OwnStep DEF BeginRelease, Await
  <2>13. ASSUME NEW r \in Reservation, BeginGet(p, r) PROVE Apart'
    BY <2>13, OwnStep DEF BeginGet, Await
  <2>14. CASE SaveReleased(p)
    BY <2>14, OwnStep DEF SaveReleased, Goto, Finish, Reservations
  <2>15. CASE DelReleased(p)
    BY <2>15, OwnStep DEF DelReleased, Finish
  <2>16. CASE SaveExpired(p)
    <3>1. req'[p].pc = "idle" /\ \A q \in Request \ {p} : req'[q] = req[q]
      BY <2>16 DEF SaveExpired, Finish
    <3>2. res' = res \/ res' = [res EXCEPT ![req[p].rid].status = "EXPIRED"]
      BY <2>16 DEF SaveExpired
    <3>3. \A r \in Reservation : res'[r].status = "HELD" => res'[r] = res[r]
      BY <3>2 DEF Reservations
    <3>4. QED BY <2>16, <3>1, <3>3, OwnStep DEF SaveExpired
  <2>17. ASSUME NEW r \in Reservation, NEW s \in Slot, BeginMove(p, r, s) PROVE Apart'
    BY <2>17, OwnStep DEF BeginMove, Await, Blocked
  <2>18. CASE MoveBooking(p)
    <3>1. req[p].rid \in Reservation
      BY <2>18 DEF MoveBooking, RidKnown
    <3>2. QED BY <2>18, <3>1, BookApart DEF MoveBooking, Bookings
  <2>19. CASE Fail(p)
    BY <2>19, OwnStep DEF Fail, Finish
  <2>20. ASSUME NEW s \in Slot, BeginTakeOver(p, s) PROVE Apart'
    BY <2>20, OwnStep DEF BeginTakeOver, Await, Blocked
  <2>21. ASSUME NEW r \in Reservation, TakeOver(p, r) PROVE Apart'
    BY <2>21, PlacedTyped, BookApart DEF TakeOver
  <2>22. QED
    BY <1>1, <2>1, <2>2, <2>3, <2>4, <2>5, <2>6, <2>7, <2>8, <2>9, <2>10, <2>11, <2>12,
       <2>13, <2>14, <2>15, <2>16, <2>17, <2>18, <2>19, <2>20, <2>21 DEF Handler
<1>2. ASSUME UNCHANGED <<req, raced>>, Settled PROVE Apart'
  BY <1>2, CalmStep DEF Careful
<1> USE DEF TypeOK, Reservations, Bookings, LiveHold, Settled
<1>3. ASSUME NEW r \in Reservation, EndBooking(r) PROVE Apart'
  BY <1>2, <1>3 DEF EndBooking
<1>4. ASSUME NEW r \in Reservation, TtlRemove(r) PROVE Apart'
  BY <1>2, <1>4 DEF TtlRemove
<1>5. CASE Tick BY <1>2, <1>5 DEF Tick
<1>6. CASE UNCHANGED vars BY <1>2, <1>6 DEF vars
<1>7. ASSUME NEW r \in Reservation, NEW s \in Slot, PutUnchecked(r, s) PROVE Apart'
  BY <1>7, PutApart
<1>8. QED BY <1>1, <1>3, <1>4, <1>5, <1>6, <1>7 DEF Next

LEMMA ApartAlways == Spec => []Apart
<1>1. IInv /\ Apart /\ IInv' /\ [Next]_vars => Apart'
  BY ApartStep DEF IInv
<1>2. QED BY InitApart, Inductive, <1>1, PTL DEF Spec

\* Two live holds overlap only as the result of a race for them, the one the
\* queries and the key of createSlotReservation leave open.
THEOREM HoldsNeverOverlap == Spec => []NoOverlappingHolds
<1>1. Apart => NoOverlappingHolds BY DEF Apart
<1>2. QED BY ApartAlways, <1>1, PTL

\* A provider is booked twice for one time only as the result of a race between
\* the last checks of two handlers that book, move or take over, or of an
\* operation that puts a booking there without a check.
THEOREM NeverBookedTwice == Spec => []NoDoubleBooking
<1>1. Apart => NoDoubleBooking BY DEF Apart
<1>2. QED BY ApartAlways, <1>1, PTL
=============================================================================
