------------------------- MODULE EntitlementLedger -------------------------
(***************************************************************************)
(* The counters of one care-plan entitlement and the usages bookings make  *)
(* of it: care-plans/entitlement.service.ts with the expiry and clean-up   *)
(* jobs of phase12-jobs.ts.  BookingLifecycle sees one usage and takes     *)
(* each operation in one step; here the operations of several bookings are *)
(* interleaved await by await.                                             *)
(*                                                                         *)
(* The counters change by findOneAndUpdate with $inc, the usages and the   *)
(* status by save(), and no two of these writes are one transaction.       *)
(***************************************************************************)
EXTENDS Integers, FiniteSets

CONSTANTS
  Request,    \* handlers that may be in flight together
  Booking,    \* bookings priced with this entitlement
  NoBooking,  \* a handler that works for none
  Total,      \* totalQuantity
  Ops         \* operations called in this instance

ASSUME BookingAssumption == NoBooking \notin Booking /\ IsFiniteSet(Booking)
ASSUME TotalAssumption == Total \in Nat \ {0}

VARIABLES
  ent,    \* the Entitlement document
  usage,  \* status of its EntitlementUsage documents, by booking (unique)
  taken,  \* bookings whose acceptance has called consumeEntitlement
  req,    \* the handlers in flight
  corrected  \* history: an administrator has begun to correct the counters

vars == <<ent, usage, taken, req, corrected>>

EntStatus == {"ACTIVE", "EXHAUSTED", "SUSPENDED", "EXPIRED"}
UsageStatus == {"NONE", "RESERVED", "CONSUMED", "RELEASED"}

Pc == {"idle", "findUsage", "increment", "createUsage", "compensate",
       "spend", "saveExhausted", "saveConsumed", "unreserve", "saveReleased", "adjustSave"}
Handlers ==
  [pc      : Pc,
   booking : Booking \cup {NoBooking},
   used    : Nat,         \* usedQuantity as loaded by adminAdjustEntitlement
   next    : Nat,         \* the usedQuantity it will save
   loaded  : EntStatus,   \* the status it loaded
   status  : EntStatus]   \* the status it will save

Idle == [pc |-> "idle", booking |-> NoBooking, used |-> 0, next |-> 0,
         loaded |-> "ACTIVE", status |-> "ACTIVE"]
Begins(p, op) == req[p].pc = "idle" /\ op \in Ops
Await(p, pc, b) ==
  req' = [req EXCEPT ![p] = [pc |-> pc, booking |-> b, used |-> 0, next |-> 0,
                             loaded |-> "ACTIVE", status |-> "ACTIVE"]]
Goto(p, pc) == Await(p, pc, req[p].booking)
Finish(p) == req' = [req EXCEPT ![p] = Idle]   \* the handler returns or throws
GotoIf(p, ok, pc) == IF ok THEN Goto(p, pc) ELSE Finish(p)

\* save() sends only the fields the handler changed.
Saved(loaded, new, stored) == IF loaded = new THEN stored ELSE new

\* availableQuantity > 0
Available == ent.used + ent.reserved < Total

Init ==
  /\ ent = [used |-> 0, reserved |-> 0, status |-> "ACTIVE"]
  /\ usage = [b \in Booking |-> "NONE"]
  /\ taken = {}
  /\ req = [p \in Request |-> Idle]
  /\ corrected = FALSE

(* reserveEntitlement, when a booking is created or by the customer's call --*)

LoadReserve(p, b) ==
  /\ Begins(p, "RESERVE")
  /\ ent.status = "ACTIVE" /\ Available
  /\ Await(p, "findUsage", b)
  /\ UNCHANGED <<ent, usage, taken, corrected>>

\* A usage that is reserved or consumed is returned as it is.
FindUsage(p) ==
  /\ req[p].pc = "findUsage"
  /\ GotoIf(p, usage[req[p].booking] \in {"NONE", "RELEASED"}, "increment")
  /\ UNCHANGED <<ent, usage, taken, corrected>>

\* Mutant: what was loaded before is trusted.
IncrementUnguarded(p) ==
  /\ req[p].pc = "increment"
  /\ ent' = [ent EXCEPT !.reserved = @ + 1]
  /\ Goto(p, "createUsage")
  /\ UNCHANGED <<usage, taken, corrected>>

\* Mutant: the filter leaves out what is used.
IncrementOverUsed(p) ==
  /\ req[p].pc = "increment"
  /\ IF ent.status = "ACTIVE" /\ ent.reserved < Total
       THEN ent' = [ent EXCEPT !.reserved = @ + 1] /\ Goto(p, "createUsage")
       ELSE UNCHANGED ent /\ Finish(p)
  /\ UNCHANGED <<usage, taken, corrected>>

\* findOneAndUpdate: active with quantity left, or 409.
Increment(p) ==
  /\ req[p].pc = "increment"
  /\ IF ent.status = "ACTIVE" /\ Available
       THEN ent' = [ent EXCEPT !.reserved = @ + 1] /\ Goto(p, "createUsage")
       ELSE UNCHANGED ent /\ Finish(p)
  /\ UNCHANGED <<usage, taken, corrected>>

\* The insert is refused when the booking has a usage, a RELEASED one too,
\* or for any other reason.
CreateUsage(p) ==
  LET b == req[p].booking IN
  /\ req[p].pc = "createUsage"
  /\ \/ usage[b] = "NONE" /\ usage' = [usage EXCEPT ![b] = "RESERVED"] /\ Finish(p)
     \/ UNCHANGED usage /\ Goto(p, "compensate")
  /\ UNCHANGED <<ent, taken, corrected>>

\* $inc of -1 while the counter is positive.
OneBack == [ent EXCEPT !.reserved = IF @ >= 1 THEN @ - 1 ELSE @]

Compensate(p) ==
  /\ req[p].pc = "compensate"
  /\ ent' = OneBack
  /\ Finish(p)
  /\ UNCHANGED <<usage, taken, corrected>>

(* consumeEntitlement, by the one acceptance of the booking -----------------*)

FindForConsume(p, b) ==
  /\ Begins(p, "CONSUME")
  /\ b \notin taken
  /\ taken' = taken \cup {b}
  /\ IF usage[b] \in {"RESERVED", "RELEASED"} THEN Await(p, "spend", b) ELSE UNCHANGED req
  /\ UNCHANGED <<ent, usage, corrected>>

\* $inc of both counters; the returned document says whether to exhaust.
OneSpent == [used |-> ent.used + 1, reserved |-> ent.reserved - 1, status |-> ent.status]
Afterwards ==
  IF ent.used + 1 >= Total /\ ent.status # "EXHAUSTED" THEN "saveExhausted" ELSE "saveConsumed"

\* Mutant: the handler does not look at the update's result.
SpendAnyway(p) ==
  /\ req[p].pc = "spend"
  /\ ent' = IF ent.reserved >= 1 THEN OneSpent ELSE ent
  /\ Goto(p, "saveConsumed")
  /\ UNCHANGED <<usage, taken, corrected>>

\* Mutant: exhausted when nothing is available, reservations included.
SpendExhaustingEarly(p) ==
  /\ req[p].pc = "spend"
  /\ IF ent.reserved >= 1
       THEN /\ ent' = OneSpent
            /\ Goto(p, IF ~Available THEN "saveExhausted" ELSE "saveConsumed")
       ELSE UNCHANGED ent /\ Finish(p)
  /\ UNCHANGED <<usage, taken, corrected>>

\* findOneAndUpdate of both counters; 409 without a reservation.
Spend(p) ==
  /\ req[p].pc = "spend"
  /\ IF ent.reserved >= 1
       THEN ent' = OneSpent /\ Goto(p, Afterwards)
       ELSE UNCHANGED ent /\ Finish(p)
  /\ UNCHANGED <<usage, taken, corrected>>

\* The document the update returned is saved with the new status.
SaveExhausted(p) ==
  /\ req[p].pc = "saveExhausted"
  /\ ent' = [ent EXCEPT !.status = "EXHAUSTED"]
  /\ Goto(p, "saveConsumed")
  /\ UNCHANGED <<usage, taken, corrected>>

SaveConsumed(p) ==
  /\ req[p].pc = "saveConsumed"
  /\ usage' = [usage EXCEPT ![req[p].booking] = "CONSUMED"]
  /\ Finish(p)
  /\ UNCHANGED <<ent, taken, corrected>>

(* releaseEntitlementReservation: a rejection, a cancellation, the customer, *)
(* or expireStaleReservations a quarter of an hour later                     *)

FindForRelease(p, b) ==
  /\ Begins(p, "RELEASE")
  /\ usage[b] = "RESERVED"
  /\ Await(p, "unreserve", b)
  /\ UNCHANGED <<ent, usage, taken, corrected>>

\* The result of the update is not looked at.
Unreserve(p) ==
  /\ req[p].pc = "unreserve"
  /\ ent' = OneBack
  /\ Goto(p, "saveReleased")
  /\ UNCHANGED <<usage, taken, corrected>>

SaveReleased(p) ==
  /\ req[p].pc = "saveReleased"
  /\ usage' = [usage EXCEPT ![req[p].booking] = "RELEASED"]
  /\ Finish(p)
  /\ UNCHANGED <<ent, taken, corrected>>

(* adminAdjustEntitlement and the changes of status -------------------------*)

\* The administrator's correction is cut to 0..Total.
LoadAdjust(p) ==
  /\ Begins(p, "ADJUST")
  /\ \E n \in 0..Total :
       req' = [req EXCEPT ![p] = [pc |-> "adjustSave", booking |-> NoBooking,
                 used |-> ent.used, next |-> n, loaded |-> ent.status,
                 status |-> IF n + ent.reserved >= Total THEN "EXHAUSTED"
                            ELSE IF ent.status = "EXHAUSTED" THEN "ACTIVE" ELSE ent.status]]
  /\ corrected' = TRUE
  /\ UNCHANGED <<ent, usage, taken>>

SaveAdjust(p) ==
  /\ req[p].pc = "adjustSave"
  /\ ent' = [ent EXCEPT !.used = Saved(req[p].used, req[p].next, @),
                        !.status = Saved(req[p].loaded, req[p].status, @)]
  /\ Finish(p)
  /\ UNCHANGED <<usage, taken, corrected>>

\* updateMany from one status to another: suspendEntitlements and
\* reactivateEntitlements, the expiry job.
Change(from, to) ==
  /\ ent.status = from
  /\ ent' = [ent EXCEPT !.status = to]
  /\ UNCHANGED <<usage, taken, req, corrected>>

Suspend == Change("ACTIVE", "SUSPENDED")
Reactivate == Change("SUSPENDED", "ACTIVE")
ExpiryJob == Change("ACTIVE", "EXPIRED")

\* A handler dies with its process, or a call it awaits throws.
Fail(p) ==
  /\ req[p].pc # "idle"
  /\ Finish(p)
  /\ UNCHANGED <<ent, usage, taken, corrected>>

Handler(p) ==
  \/ \E b \in Booking : LoadReserve(p, b) \/ FindForConsume(p, b) \/ FindForRelease(p, b)
  \/ FindUsage(p) \/ Increment(p) \/ CreateUsage(p) \/ Compensate(p)
  \/ Spend(p) \/ SaveExhausted(p) \/ SaveConsumed(p)
  \/ Unreserve(p) \/ SaveReleased(p)
  \/ LoadAdjust(p) \/ SaveAdjust(p)
  \/ Fail(p)

Next ==
  \/ \E p \in Request : Handler(p)
  \/ Suspend \/ Reactivate \/ ExpiryJob

Spec == Init /\ [][Next]_vars

-----------------------------------------------------------------------------
(* Properties                                                               *)

\* The documents fit their schemas; in particular reservedQuantity stays
\* between 0 (its min, which $inc does not check) and totalQuantity, with
\* every operation, an administrator's corrections included.
TypeOK ==
  /\ ent \in [used : Nat, reserved : 0..Total, status : EntStatus]
  /\ usage \in [Booking -> UsageStatus]
  /\ taken \subseteq Booking
  /\ req \in [Request -> Handlers]
  /\ corrected \in BOOLEAN

\* Until an administrator corrects the counters: bookings that reserve, are
\* accepted, rejected, cancelled, swept and retried in any order, with handlers
\* that die half way, never get more than the plan's quantity together.
NeverOversold == corrected \/ ent.used + ent.reserved <= Total

\* Nor is an entitlement declared exhausted while quantity is left, even when
\* what was left was only reserved.
ExhaustedWhenSpent == corrected \/ (ent.status = "EXHAUSTED" => ent.used >= Total)

\* A usage that is shown as consumed has been counted.
ConsumedIsCounted ==
  corrected \/ Cardinality({b \in Booking : usage[b] = "CONSUMED"}) <= ent.used
=============================================================================
