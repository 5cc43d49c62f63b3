-------------------------- MODULE SlotReservation --------------------------
(***************************************************************************)
(* Slot holds of one provider and the bookings made from them:             *)
(* provider-availability/reservation.service.ts (hold, consume, release,   *)
(* read) with the parts of bookings/ that check or move slots              *)
(* (createBookingFromReservation, respondToReschedule, the reassignment),  *)
(* and the ways a booking comes to the provider with no check at all.      *)
(*                                                                         *)
(* A handler is a request that walks from one await to the next; between   *)
(* two steps of a handler any other handler may run.  Mongo operations are *)
(* atomic one by one; there are no transactions.                           *)
(***************************************************************************)
EXTENDS Integers, FiniteSets

CONSTANTS
  Request,        \* handler invocations that may be in flight together
  Reservation,    \* ids of SlotReservation documents
  NoReservation,  \* a request that has loaded no reservation
  Slot,           \* start times a customer can ask for
  Duration,       \* length of a slot (service minutes plus buffer)
  HoldTicks,      \* env.availability.slotReservationMinutes
  MaxTime,        \* bound on the clock
  RedisEnabled    \* infra/redis.ts: Redis is optional

ASSUME SlotAssumption == Slot \subseteq Int /\ Slot # {} /\ Duration \in Int
ASSUME HoldAssumption == HoldTicks \in Nat \ {0}
ASSUME TimeAssumption == MaxTime \in Nat
ASSUME RedisAssumption == RedisEnabled \in BOOLEAN

VARIABLES
  now,       \* Date.now()
  res,       \* the slotreservations collection
  holdKey,   \* Redis keys slot:<provider>:<start>, as the time they expire
  booking,   \* bookings of the provider, by the reservation they came from; one
             \* that came without a reservation of the provider has its own id
  req,       \* the handlers in flight
  raced      \* history: the pairs of holds and of bookings written in a race,
             \* and of bookings one of which was put over the other unchecked

vars == <<now, res, holdKey, booking, req, raced>>

ResStatus == {"ABSENT", "HELD", "CONSUMED", "RELEASED", "EXPIRED", "REMOVED"}
Reservations == [status : ResStatus, slot : Slot, expiresAt : Nat]
Bookings == [state : {"NONE", "LIVE", "ENDED"}, slot : Slot, moved : BOOLEAN]
Pc == {"idle", "checkBlocks", "checkHolds", "acquire", "insert",
       "consume", "delConsumed", "eligible", "createBooking",
       "saveReleased", "delReleased", "saveExpired", "moveBooking", "takeOver"}
\* What a request has read, and as history what overlapping it was written
\* since its last check and so went unseen.
Handlers == [pc : Pc, rid : Reservation \cup {NoReservation}, slot : Slot, expiresAt : Nat,
             unseen : SUBSET Reservation]

AnySlot == CHOOSE s \in Slot : TRUE
Idle == [pc |-> "idle", rid |-> NoReservation, slot |-> AnySlot, expiresAt |-> 0,
         unseen |-> {}]

\* Between the last query for what is in the way and the write that takes the slot.
Holding == {"acquire", "insert"}
Booking == {"createBooking", "moveBooking", "takeOver"}

-----------------------------------------------------------------------------
(* What the queries of the code return.                                    *)

\* intervalsOverlap on two slots of the same length.
Overlaps(s, t) == s < t + Duration /\ t < s + Duration

\* A HELD reservation whose expiresAt is in the future.
LiveHold(r) == res[r].status = "HELD" /\ res[r].expiresAt > now

\* Mutant: only a hold with the same start counts.
HeldAtStart(s) == \E r \in Reservation : LiveHold(r) /\ res[r].slot = s

HeldAt(s) == \E r \in Reservation : LiveHold(r) /\ Overlaps(res[r].slot, s)

\* Mutant: only a booking with the same start counts.
BookedAtStart(s) ==
  \E r \in Reservation : booking[r].state = "LIVE" /\ booking[r].slot = s

BookedAt(s) ==
  \E r \in Reservation : booking[r].state = "LIVE" /\ Overlaps(booking[r].slot, s)

\* getBlockingIntervals overlaps the slot.
Blocked(s) == HeldAt(s) \/ BookedAt(s)

KeyLive(s) == holdKey[s] > now

\* DEL of the hold key; a no-op when Redis is off.
DropKey(s) ==
  holdKey' = IF RedisEnabled THEN [holdKey EXCEPT ![s] = 0] ELSE holdKey

Begins(p) == req[p].pc = "idle"

\* The handler reaches an await, remembering what it has read.
Await(p, pc, r, s, e) ==
  req' = [req EXCEPT ![p] = [pc |-> pc, rid |-> r, slot |-> s, expiresAt |-> e,
                             unseen |-> {}]]
Goto(p, pc) == req' = [req EXCEPT ![p].pc = pc]
Finish(p) == req' = [req EXCEPT ![p] = Idle]   \* the handler returns or throws

\* A hold or a booking r written at s goes unseen by a handler q that is past
\* its checks for an overlapping slot.
Missed(q, window, r, s) ==
  IF req[q].pc \in window /\ Overlaps(req[q].slot, s)
    THEN [req[q] EXCEPT !.unseen = @ \cup {r}] ELSE req[q]

\* The handler returns having written r at s.
Publish(p, window, r, s) ==
  req' = [q \in Request |-> IF q = p THEN Idle ELSE Missed(q, window, r, s)]

\* The races a write of r loses: with all that its handler p did not see.
Races(p, r) == {{r, q} : q \in req[p].unseen}
GotoIf(p, ok, pc) == IF ok THEN Goto(p, pc) ELSE Finish(p)

-----------------------------------------------------------------------------
Init ==
  /\ now = 0
  /\ res = [r \in Reservation |-> [status |-> "ABSENT", slot |-> AnySlot, expiresAt |-> 0]]
  /\ holdKey = [s \in Slot |-> 0]
  /\ booking = [r \in Reservation |-> [state |-> "NONE", slot |-> AnySlot, moved |-> FALSE]]
  /\ req = [p \in Request |-> Idle]
  /\ raced = [holds |-> {}, bookings |-> {}, blind |-> {}]

(* createSlotReservation ---------------------------------------------------*)

\* Mutant: the hold time is subtracted.
BeginReserveInPast(p, s) ==
  /\ Begins(p)
  /\ Await(p, "checkBlocks", NoReservation, s, now - HoldTicks)
  /\ UNCHANGED <<now, res, holdKey, booking, raced>>

\* The handler fixes expiresAt before its first availability query.  (With
\* Redis it first takes one unit of the slot's inventory, where there is one;
\* a handler refused there ends as in Fail.)
BeginReserve(p, s) ==
  /\ Begins(p)
  /\ Await(p, "checkBlocks", NoReservation, s, now + HoldTicks)
  /\ UNCHANGED <<now, res, holdKey, booking, raced>>

\* getAvailableSlots and getBlockingIntervals; 409 when the slot is blocked.
CheckBlocks(p) ==
  /\ req[p].pc = "checkBlocks"
  /\ GotoIf(p, ~Blocked(req[p].slot), "checkHolds")
  /\ UNCHANGED <<now, res, holdKey, booking, raced>>

\* The query for an overlapping HELD reservation.
CheckHolds(p) ==
  /\ req[p].pc = "checkHolds"
  /\ GotoIf(p, ~HeldAt(req[p].slot), "acquire")
  /\ UNCHANGED <<now, res, holdKey, booking, raced>>

\* acquireSlotHold: SET NX EX, always granted without Redis.
AcquireSlotHold(p) ==
  /\ req[p].pc = "acquire"
  /\ IF RedisEnabled /\ KeyLive(req[p].slot)
       THEN Finish(p) /\ UNCHANGED holdKey
       ELSE /\ Goto(p, "insert")
            /\ holdKey' = IF RedisEnabled
                            THEN [holdKey EXCEPT ![req[p].slot] = now + HoldTicks]
                            ELSE holdKey
  /\ UNCHANGED <<now, res, booking, raced>>

InsertReservation(p, r) ==
  /\ req[p].pc = "insert"
  /\ res[r].status = "ABSENT" /\ booking[r].state = "NONE"
  /\ res' = [res EXCEPT ![r] = [status |-> "HELD", slot |-> req[p].slot,
                                expiresAt |-> req[p].expiresAt]]
  /\ Publish(p, Holding, r, req[p].slot)
  /\ raced' = [raced EXCEPT !.holds = @ \cup Races(p, r)]
  /\ UNCHANGED <<now, holdKey, booking>>

\* The insert is refused: the catch handler gives the hold key back.
InsertFails(p) ==
  /\ req[p].pc = "insert"
  /\ DropKey(req[p].slot)
  /\ Finish(p)
  /\ UNCHANGED <<now, res, booking, raced>>

(* createBookingFromReservation --------------------------------------------*)

\* The lookup by reservationId; an existing booking is returned as it is.
BeginBooking(p, r) ==
  /\ Begins(p)
  /\ res[r].status # "ABSENT"
  /\ booking[r].state = "NONE"
  /\ Await(p, "consume", r, AnySlot, 0)
  /\ UNCHANGED <<now, res, holdKey, booking, raced>>

\* Mutant: the update does not ask for HELD.
ConsumeAnyStatus(p) ==
  LET r == req[p].rid IN
  /\ req[p].pc = "consume"
  /\ res' = [res EXCEPT ![r].status = "CONSUMED"]
  /\ Await(p, "delConsumed", r, res[r].slot, 0)
  /\ UNCHANGED <<now, holdKey, booking, raced>>

\* consumeSlotReservation: compare-and-set HELD and unexpired to CONSUMED.
ConsumeReservation(p) ==
  LET r == req[p].rid IN
  /\ req[p].pc = "consume"
  /\ IF LiveHold(r)
       THEN /\ res' = [res EXCEPT ![r].status = "CONSUMED"]
            /\ Await(p, "delConsumed", r, res[r].slot, 0)
       ELSE Finish(p) /\ UNCHANGED res
  /\ UNCHANGED <<now, holdKey, booking, raced>>

DelConsumed(p) ==
  /\ req[p].pc = "delConsumed"
  /\ DropKey(req[p].slot)
  /\ Goto(p, "eligible")
  /\ UNCHANGED <<now, res, booking, raced>>

\* validateBookingEligibility: the slot must still be free; a 409 here leaves
\* the reservation CONSUMED.
CheckEligible(p) ==
  /\ req[p].pc = "eligible"
  /\ GotoIf(p, ~Blocked(req[p].slot), "createBooking")
  /\ UNCHANGED <<now, res, holdKey, booking, raced>>

\* The pairs that r is not of.
Without(r, pairs) == {pair \in pairs : r \notin pair}

\* A booking of r is written: its earlier races are over.
BookingWritten(p, r) ==
  /\ Publish(p, Booking, r, req[p].slot)
  /\ raced' = [raced EXCEPT !.bookings = Without(r, @) \cup Races(p, r),
                            !.blind = Without(r, @)]

\* The provider is booked at s from now on.
Placed(r, s) ==
  booking' = [booking EXCEPT ![r] = [state |-> "LIVE", slot |-> s, moved |-> @.moved]]

\* Booking.create under the unique index on reservationId.
CreateBooking(p) ==
  LET r == req[p].rid IN
  /\ req[p].pc = "createBooking"
  /\ IF booking[r].state = "NONE"
       THEN Placed(r, req[p].slot) /\ BookingWritten(p, r)
       ELSE Finish(p) /\ UNCHANGED <<booking, raced>>
  /\ UNCHANGED <<now, res, holdKey>>

(* releaseSlotReservation and getSlotReservation ---------------------------*)

BeginRelease(p, r) ==
  /\ Begins(p)
  /\ res[r].status = "HELD"
  /\ Await(p, "saveReleased", r, res[r].slot, 0)
  /\ UNCHANGED <<now, res, holdKey, booking, raced>>

\* save() writes the status whatever it has become; it fails on a document
\* the TTL index removed.
SaveReleased(p) ==
  LET r == req[p].rid IN
  /\ req[p].pc = "saveReleased"
  /\ IF res[r].status = "REMOVED"
       THEN Finish(p) /\ UNCHANGED res
       ELSE Goto(p, "delReleased") /\ res' = [res EXCEPT ![r].status = "RELEASED"]
  /\ UNCHANGED <<now, holdKey, booking, raced>>

DelReleased(p) ==
  /\ req[p].pc = "delReleased"
  /\ DropKey(req[p].slot)
  /\ Finish(p)
  /\ UNCHANGED <<now, res, booking, raced>>

BeginGet(p, r) ==
  /\ Begins(p)
  /\ res[r].status = "HELD" /\ res[r].expiresAt <= now
  /\ Await(p, "saveExpired", r, AnySlot, 0)
  /\ UNCHANGED <<now, res, holdKey, booking, raced>>

SaveExpired(p) ==
  LET r == req[p].rid IN
  /\ req[p].pc = "saveExpired"
  /\ res' = IF res[r].status = "REMOVED" THEN res
            ELSE [res EXCEPT ![r].status = "EXPIRED"]
  /\ Finish(p)
  /\ UNCHANGED <<now, holdKey, booking, raced>>

(* respondToReschedule(accept): the proposed slot is checked, then saved ----*)

BeginMove(p, r, s) ==
  /\ Begins(p)
  /\ booking[r].state = "LIVE" /\ ~booking[r].moved
  /\ ~Blocked(s)
  /\ Await(p, "moveBooking", r, s, 0)
  /\ UNCHANGED <<now, res, holdKey, booking, raced>>

\* The save writes CONFIRMED and the new interval over whatever is stored.
MoveBooking(p) ==
  /\ req[p].pc = "moveBooking"
  /\ booking' = [booking EXCEPT ![req[p].rid] =
                   [state |-> "LIVE", slot |-> req[p].slot, moved |-> TRUE]]
  /\ BookingWritten(p, req[p].rid)
  /\ UNCHANGED <<now, res, holdKey>>

(* Bookings that come from elsewhere -----------------------------------------*)

\* Neither a booking of the provider nor a reservation of it.  A booking that
\* ended here and comes back is one more of these, under another id.
Elsewhere(r) == booking[r].state = "NONE" /\ res[r].status = "ABSENT"

\* findAvailableProviderForBooking finds the provider free for another one's
\* booking, which reassignPendingBookingProvider and
\* assignBackupProviderForConfirmedBooking save later.
BeginTakeOver(p, s) ==
  /\ Begins(p)
  /\ ~Blocked(s)
  /\ Await(p, "takeOver", NoReservation, s, 0)
  /\ UNCHANGED <<now, res, holdKey, booking, raced>>

TakeOver(p, r) ==
  /\ req[p].pc = "takeOver"
  /\ Elsewhere(r)
  /\ Placed(r, req[p].slot)
  /\ BookingWritten(p, r)
  /\ UNCHANGED <<now, res, holdKey>>

\* The live bookings in the way of r at s.
Clashes(r, s) ==
  {{r, q} : q \in {x \in Reservation \ {r} :
                     booking[x].state = "LIVE" /\ Overlaps(s, booking[x].slot)}}

\* A booking is the provider's from now on and nobody looks at the slot: the
\* customer named the provider (findAnotherProviderForBooking), it accepted an
\* urgent request (convertUrgentToBooking), a revisit falls to it
\* (requestRevisit), or the late save of another handler takes a cancelled
\* booking back (updateBookingStatusAction).
PutUnchecked(r, s) ==
  /\ Elsewhere(r)
  /\ Placed(r, s)
  /\ req' = [q \in Request |-> Missed(q, Booking, r, s)]
  /\ raced' = [raced EXCEPT !.bookings = Without(r, @),
                            !.blind = Without(r, @) \cup Clashes(r, s)]
  /\ UNCHANGED <<now, res, holdKey>>

(* The environment ----------------------------------------------------------*)

\* A cancellation, a completion or another provider's taking over takes the
\* booking out of the blocking set.
EndBooking(r) ==
  /\ booking[r].state = "LIVE"
  /\ booking' = [booking EXCEPT ![r].state = "ENDED"]
  /\ UNCHANGED <<now, res, holdKey, req, raced>>

\* Mongo's TTL monitor removes documents whose expiresAt has passed, CONSUMED
\* ones too.
TtlRemove(r) ==
  /\ res[r].status \notin {"ABSENT", "REMOVED"}
  /\ res[r].expiresAt <= now
  /\ res' = [res EXCEPT ![r] = [status |-> "REMOVED", slot |-> AnySlot, expiresAt |-> 0]]
  /\ UNCHANGED <<now, holdKey, booking, req, raced>>

\* A handler dies with its process, or a call it awaits throws.
Fail(p) ==
  /\ req[p].pc # "idle"
  /\ Finish(p)
  /\ UNCHANGED <<now, res, holdKey, booking, raced>>

Tick ==
  /\ now < MaxTime
  /\ now' = now + 1
  /\ UNCHANGED <<res, holdKey, booking, req, raced>>

Handler(p) ==
  \/ \E s \in Slot : BeginReserve(p, s)
  \/ CheckBlocks(p) \/ CheckHolds(p) \/ AcquireSlotHold(p)
  \/ \E r \in Reservation : InsertReservation(p, r)
  \/ InsertFails(p)
  \/ \E r \in Reservation : BeginBooking(p, r)
  \/ ConsumeReservation(p) \/ DelConsumed(p) \/ CheckEligible(p) \/ CreateBooking(p)
  \/ \E r \in Reservation : BeginRelease(p, r) \/ BeginGet(p, r)
  \/ SaveReleased(p) \/ DelReleased(p) \/ SaveExpired(p)
  \/ \E r \in Reservation, s \in Slot : BeginMove(p, r, s)
  \/ MoveBooking(p)
  \/ \E s \in Slot : BeginTakeOver(p, s)
  \/ \E r \in Reservation : TakeOver(p, r)
  \/ Fail(p)

Next ==
  \/ \E p \in Request : Handler(p)
  \/ \E r \in Reservation : EndBooking(r) \/ TtlRemove(r)
  \/ \E r \in Reservation, s \in Slot : PutUnchecked(r, s)
  \/ Tick

Spec == Init /\ [][Next]_vars

-----------------------------------------------------------------------------
(* Properties                                                               *)

\* Every collection holds documents of its schema and every handler is at
\* one of its awaits.
TypeOK ==
  /\ now \in Nat
  /\ res \in [Reservation -> Reservations]
  /\ holdKey \in [Slot -> Nat]
  /\ booking \in [Reservation -> Bookings]
  /\ req \in [Request -> Handlers]
  /\ raced \in [holds : SUBSET SUBSET Reservation, bookings : SUBSET SUBSET Reservation,
                blind : SUBSET SUBSET Reservation]

\* The steps of createBookingFromReservation after its compare-and-set.
HasConsumed(p) == req[p].pc \in {"delConsumed", "eligible", "createBooking"}

\* A reservation is turned into a booking by one handler only: of all the
\* retries and duplicates of createBookingFromReservation, releases and
\* expiries that run together, at most one handler is past the consuming
\* update, and none is once the booking exists, so the unique index on
\* reservationId is never what stops a second booking.
SingleConsumer ==
  \A p \in Request : HasConsumed(p) =>
    /\ booking[req[p].rid].state = "NONE"
    /\ \A q \in Request \ {p} : HasConsumed(q) => req[q].rid # req[p].rid

\* Two unexpired holds overlap only when one was inserted after the other's
\* handler had run its last query: createSlotReservation inserts a reservation
\* "only when no overlap exists", but its queries and its Redis key, which is one
\* start time's, come before the insert.  No expiry, failed insert, release or
\* dead handler adds another way.
NoOverlappingHolds ==
  \A r, q \in Reservation :
    r # q /\ LiveHold(r) /\ LiveHold(q) /\ Overlaps(res[r].slot, res[q].slot)
      => {r, q} \in raced.holds

\* The provider is booked twice for the same time only when one booking was
\* written after the other's handler had checked its slot, or was put over the
\* other by an operation that checks no slot: what holds did, and in what order
\* they expired, were consumed or overlapped, is no way to it, and a handler
\* that checks books over nothing that was there, checked or not.
NoDoubleBooking ==
  \A r, q \in Reservation :
    r # q /\ booking[r].state = "LIVE" /\ booking[q].state = "LIVE"
          /\ Overlaps(booking[r].slot, booking[q].slot)
      => {r, q} \in raced.bookings \cup raced.blind
=============================================================================
