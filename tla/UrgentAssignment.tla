-------------------------- MODULE UrgentAssignment --------------------------
(***************************************************************************)
(* Who gets an urgent request: urgent/urgent-provider.service.ts (accept,  *)
(* reject), urgent.service.ts (cancel, expire, convert to a booking,       *)
(* dispatch again), urgent-redispatch.service.ts, the no-show redispatch   *)
(* of bookings/booking.service.ts and expireNoProviders of                 *)
(* urgent-wave.service.ts.                                                 *)
(*                                                                         *)
(* The search itself (waves, batches, timers) is the environment here: it  *)
(* invites providers and lets invitations lapse.                           *)
(***************************************************************************)
EXTENDS Integers, FiniteSets

CONSTANTS
  Request,    \* handlers that may be in flight together
  Provider,   \* providers in reach
  Nobody,     \* no provider
  Ops,        \* operations called in this instance
  MaxRounds   \* bound on dispatches of the request

ASSUME ProviderAssumption == Nobody \notin Provider
ASSUME RoundsAssumption == MaxRounds \in Nat \ {0}

VARIABLES
  ur,       \* the UrgentRequest document
  target,   \* its UrgentDispatchTarget documents
  booking,  \* the booking with its urgentRequestId (unique, so at most one)
  req,      \* the handlers in flight
  winners,  \* history: providers whose claim succeeded in this round
  round,    \* history: the dispatch round
  revived   \* history: a status saved late brought a cancelled booking back

vars == <<ur, target, booking, req, winners, round, revived>>

\* OPEN is PENDING, NOTIFIED or VIEWED: an invitation not answered.
TargetStatus == {"NONE", "OPEN", "ACCEPTED", "REJECTED", "LOST", "EXPIRED"}
RequestStatus == {"SEARCHING", "ASSIGNED", "CONVERTED_TO_BOOKING", "EXPIRED", "CANCELLED"}
RequestDocs ==
  [status   : RequestStatus,
   provider : Provider \cup {Nobody},
   overdue  : BOOLEAN]                 \* expiresAt has passed
BookingStatus == {"NONE", "CONFIRMED", "RESCHEDULE_REQUESTED", "PROVIDER_EN_ROUTE",
                  "PROVIDER_ARRIVED", "IN_PROGRESS", "COMPLETED", "CANCELLED"}
BookingDocs ==
  [state    : BookingStatus,
   provider : Provider \cup {Nobody}]
Pc == {"idle", "findTarget", "claim", "busySave", "markAccepted", "markLost", "convert",
       "convertSave", "closeTargets", "closeAll", "expireSave", "exhaustCount", "exhaustSave",
       "rejectSave", "noticeSave", "findRequest", "noShowFind", "cancelBooking", "noShowClaim",
       "rejectTarget", "reset", "visitClaim", "statusSave"}
Handlers ==
  [pc     : Pc,
   by     : Provider \cup {Nobody},     \* who calls, or who failed to come
   status : RequestStatus,              \* the request as a redispatch loaded it
   given  : Provider \cup {Nobody},
   seen   : TargetStatus,               \* the target as an acceptance loaded it
   was    : BookingStatus,              \* the booking's status as loaded,
   to     : BookingStatus]              \* and the one to be written

Handler(pc, P, seen) ==
  [pc |-> pc, by |-> P, status |-> "SEARCHING", given |-> Nobody, seen |-> seen,
   was |-> "NONE", to |-> "NONE"]
Idle == Handler("idle", Nobody, "NONE")
Begins(p, op) == req[p].pc = "idle" /\ op \in Ops
Await(p, pc, P) == req' = [req EXCEPT ![p] = Handler(pc, P, "NONE")]
Change(p, pc, P, was, to) ==
  req' = [req EXCEPT ![p] = [pc |-> pc, by |-> P, status |-> "SEARCHING", given |-> Nobody,
                             seen |-> "NONE", was |-> was, to |-> to]]
Goto(p, pc) == req' = [req EXCEPT ![p].pc = pc]
Recall(p, pc) ==
  req' = [req EXCEPT ![p] = [pc |-> pc, by |-> req[p].by, status |-> ur.status,
                             given |-> ur.provider, seen |-> "NONE",
                             was |-> req[p].was, to |-> req[p].to]]
Finish(p) == req' = [req EXCEPT ![p] = Idle]   \* the handler returns or throws

\* save() sends only the fields the handler changed.
Saved(loaded, new, stored) == IF loaded = new THEN stored ELSE new
GotoIf(p, ok, pc) == IF ok THEN Goto(p, pc) ELSE Finish(p)

Init ==
  /\ ur = [status |-> "SEARCHING", provider |-> Nobody, overdue |-> FALSE]
  /\ target = [P \in Provider |-> "NONE"]
  /\ booking = [state |-> "NONE", provider |-> Nobody]
  /\ req = [p \in Request |-> Idle]
  /\ winners = {}
  /\ round = 1
  /\ revived = FALSE

(* acceptUrgentRequest ------------------------------------------------------*)

\* The idempotency record of an earlier round makes the code return here;
\* that call changes nothing, as one that fails.
LoadAccept(p, P) ==
  /\ Begins(p, "ACCEPT")
  /\ ur.status = "SEARCHING"
  /\ Await(p, "findTarget", P)
  /\ UNCHANGED <<ur, target, booking, winners, round, revived>>

\* The provider's target, unless it was rejected, lost or expired; a busy
\* provider goes on to reject it.
FindTarget(p) ==
  /\ req[p].pc = "findTarget"
  /\ IF target[req[p].by] \in {"OPEN", "ACCEPTED"}
       THEN \E pc \in {"claim", "busySave"} :
              req' = [req EXCEPT ![p] = Handler(pc, req[p].by, target[req[p].by])]
       ELSE Finish(p)
  /\ UNCHANGED <<ur, target, booking, winners, round, revived>>

\* Mutant: the filter has lost its expiresAt.
ClaimLate(p) ==
  /\ req[p].pc = "claim"
  /\ IF ur.status = "SEARCHING" /\ ur.provider = Nobody
       THEN /\ ur' = [ur EXCEPT !.status = "ASSIGNED", !.provider = req[p].by]
            /\ winners' = winners \cup {req[p].by}
            /\ Goto(p, "markAccepted")
       ELSE Finish(p) /\ UNCHANGED <<ur, winners>>
  /\ UNCHANGED <<target, booking, round, revived>>

\* Mutant: the filter asks only that the request has not expired.
ClaimTwice(p) ==
  /\ req[p].pc = "claim"
  /\ IF ~ur.overdue
       THEN /\ ur' = [ur EXCEPT !.status = "ASSIGNED", !.provider = req[p].by]
            /\ winners' = winners \cup {req[p].by}
            /\ Goto(p, "markAccepted")
       ELSE Finish(p) /\ UNCHANGED <<ur, winners>>
  /\ UNCHANGED <<target, booking, round, revived>>

\* findOneAndUpdate: still searching, without a provider, not expired.
Claim(p) ==
  /\ req[p].pc = "claim"
  /\ IF ur.status = "SEARCHING" /\ ur.provider = Nobody /\ ~ur.overdue
       THEN /\ ur' = [ur EXCEPT !.status = "ASSIGNED", !.provider = req[p].by]
            /\ winners' = winners \cup {req[p].by}
            /\ Goto(p, "markAccepted")
       ELSE Finish(p) /\ UNCHANGED <<ur, winners>>
  /\ UNCHANGED <<target, booking, round, revived>>

MarkAccepted(p) ==
  /\ req[p].pc = "markAccepted"
  /\ target' = [target EXCEPT ![req[p].by] = Saved(req[p].seen, "ACCEPTED", @)]
  /\ Goto(p, "markLost")
  /\ UNCHANGED <<ur, booking, winners, round, revived>>

\* updateMany on the targets of the others that are not REJECTED.
MarkLost(p) ==
  /\ req[p].pc = "markLost"
  /\ target' = [P \in Provider |->
                  IF P = req[p].by \/ target[P] \in {"NONE", "REJECTED"} THEN target[P]
                  ELSE "LOST"]
  /\ Goto(p, "convert")
  /\ UNCHANGED <<ur, booking, winners, round, revived>>

\* convertUrgentToBooking: a booking of this request that exists is returned
\* as it is, whatever its status and provider.
Convert(p) ==
  /\ req[p].pc = "convert"
  /\ IF booking.state = "NONE"
       THEN /\ booking' = [state |-> "CONFIRMED", provider |-> req[p].by]
            /\ Goto(p, "convertSave")
       ELSE UNCHANGED booking /\ Finish(p)
  /\ UNCHANGED <<ur, target, winners, round, revived>>

ConvertSave(p) ==
  /\ req[p].pc = "convertSave"
  /\ ur' = [ur EXCEPT !.status = "CONVERTED_TO_BOOKING"]
  /\ Finish(p)
  /\ UNCHANGED <<target, booking, winners, round, revived>>

\* rejectUrgentRequest, and the rejection of a busy provider's accept: a
\* target loaded earlier is saved.
LoadReject(p, P) ==
  /\ Begins(p, "REJECT")
  /\ target[P] \notin {"NONE", "REJECTED"}
  /\ Await(p, "rejectSave", P)
  /\ UNCHANGED <<ur, target, booking, winners, round, revived>>

SaveReject(p) ==
  /\ req[p].pc \in {"rejectSave", "busySave"}
  /\ target' = [target EXCEPT ![req[p].by] = "REJECTED"]
  /\ Finish(p)
  /\ UNCHANGED <<ur, booking, winners, round, revived>>

\* notifySingleTarget and a provider's look at the request: an invitation
\* loaded open is saved as NOTIFIED or VIEWED, whatever it has become.
LoadNotice(p, P) ==
  /\ Begins(p, "NOTICE")
  /\ ur.status = "SEARCHING" /\ ~ur.overdue
  /\ target[P] = "OPEN"
  /\ Await(p, "noticeSave", P)
  /\ UNCHANGED <<ur, target, booking, winners, round, revived>>

SaveNotice(p) ==
  /\ req[p].pc = "noticeSave"
  /\ target' = [target EXCEPT ![req[p].by] = "OPEN"]
  /\ Finish(p)
  /\ UNCHANGED <<ur, booking, winners, round, revived>>

(* The search ends without a provider ---------------------------------------*)

\* cancelUrgentRequest and adminCancelUrgentRequest: SEARCHING to CANCELLED,
\* then the targets; the customer's leaves the REJECTED ones.
CancelRequest(p) ==
  /\ Begins(p, "CANCEL")
  /\ ur.status = "SEARCHING"
  /\ ur' = [ur EXCEPT !.status = "CANCELLED"]
  /\ Await(p, "closeTargets", Nobody) \/ Await(p, "closeAll", Nobody)
  /\ UNCHANGED <<target, booking, winners, round, revived>>

\* Mutant: the targets get the request's status, which they do not have.
CloseTargetsAsCancelled(p) ==
  /\ req[p].pc \in {"closeTargets", "closeAll"}
  /\ target' = [P \in Provider |-> IF target[P] = "NONE" THEN "NONE" ELSE "CANCELLED"]
  /\ Finish(p)
  /\ UNCHANGED <<ur, booking, winners, round, revived>>

CloseTargets(p) ==
  /\ req[p].pc \in {"closeTargets", "closeAll"}
  /\ target' = [P \in Provider |->
                  IF target[P] = "NONE" \/ (req[p].pc = "closeTargets" /\ target[P] = "REJECTED")
                    THEN target[P] ELSE "EXPIRED"]
  /\ Finish(p)
  /\ UNCHANGED <<ur, booking, winners, round, revived>>

\* expireUrgentRequests: the query, the save, the targets.
JobFind(p) ==
  /\ Begins(p, "EXPIRE")
  /\ ur.status = "SEARCHING" /\ ur.overdue
  /\ Await(p, "expireSave", Nobody)
  /\ UNCHANGED <<ur, target, booking, winners, round, revived>>

JobSave(p) ==
  /\ req[p].pc = "expireSave"
  /\ ur' = [ur EXCEPT !.status = "EXPIRED"]
  /\ Goto(p, "closeAll")
  /\ UNCHANGED <<target, booking, winners, round, revived>>

\* runRingNextProvider when it finds nobody new to invite: it loaded the
\* request searching and unexpired, counts the open targets, and saves.
RingFindsNobody(p) ==
  /\ Begins(p, "EXHAUST")
  /\ ur.status = "SEARCHING" /\ ~ur.overdue
  /\ Await(p, "exhaustCount", Nobody)
  /\ UNCHANGED <<ur, target, booking, winners, round, revived>>

CountOpen(p) ==
  /\ req[p].pc = "exhaustCount"
  /\ GotoIf(p, \A P \in Provider : target[P] # "OPEN", "exhaustSave")
  /\ UNCHANGED <<ur, target, booking, winners, round, revived>>

ExpireNoProviders(p) ==
  /\ req[p].pc = "exhaustSave"
  /\ ur' = [ur EXCEPT !.status = "EXPIRED", !.overdue = TRUE]
  /\ Finish(p)
  /\ UNCHANGED <<target, booking, winners, round, revived>>

(* The request is dispatched again ------------------------------------------*)

\* restartUrgentDispatchAfterProviderCancel, called by the provider.
LoadGiveUp(p, P) ==
  /\ Begins(p, "GIVE_UP") /\ round < MaxRounds
  /\ booking.state \in {"CONFIRMED", "PROVIDER_EN_ROUTE"} /\ booking.provider = P
  /\ Await(p, "findRequest", P)
  /\ UNCHANGED <<ur, target, booking, winners, round, revived>>

FindRequest(p) ==
  /\ req[p].pc = "findRequest"
  /\ Recall(p, "cancelBooking")
  /\ UNCHANGED <<ur, target, booking, winners, round, revived>>

CancelBooking(p) ==
  /\ req[p].pc = "cancelBooking"
  /\ booking' = [booking EXCEPT !.state = "CANCELLED"]
  /\ Goto(p, "rejectTarget")
  /\ UNCHANGED <<ur, target, winners, round, revived>>

\* redispatchAfterNoShow, called by the customer.
LoadNoShow(p) ==
  /\ Begins(p, "NO_SHOW") /\ round < MaxRounds
  /\ booking.state \in {"CONFIRMED", "PROVIDER_EN_ROUTE", "PROVIDER_ARRIVED"}
  /\ Change(p, "noShowFind", booking.provider, booking.state, "CANCELLED")
  /\ UNCHANGED <<ur, target, booking, winners, round, revived>>

NoShowFind(p) ==
  /\ req[p].pc = "noShowFind"
  /\ IF ur.status \in {"ASSIGNED", "CONVERTED_TO_BOOKING"}
       THEN Recall(p, "noShowClaim") ELSE Finish(p)
  /\ UNCHANGED <<ur, target, booking, winners, round, revived>>

\* Mutant: the request is dispatched again whether or not the claim succeeded.
NoShowGoingOn(p) ==
  /\ req[p].pc = "noShowClaim"
  /\ booking' = [booking EXCEPT !.state = IF @ = req[p].was THEN req[p].to ELSE @]
  /\ Goto(p, "rejectTarget")
  /\ UNCHANGED <<ur, target, winners, round, revived>>

\* findOneAndUpdate on the status as loaded; otherwise 409.
NoShowClaim(p) ==
  /\ req[p].pc = "noShowClaim"
  /\ IF booking.state = req[p].was
       THEN booking' = [booking EXCEPT !.state = req[p].to] /\ Goto(p, "rejectTarget")
       ELSE UNCHANGED booking /\ Finish(p)
  /\ UNCHANGED <<ur, target, winners, round, revived>>

\* markUrgentProviderRejected.
RejectTarget(p) ==
  /\ req[p].pc = "rejectTarget"
  /\ target' = [target EXCEPT ![req[p].by] = "REJECTED"]
  /\ Goto(p, "reset")
  /\ UNCHANGED <<ur, booking, winners, round, revived>>

\* resetUrgentRequestForRedispatch saves the request it was given, with a new
\* expiresAt.
ResetRequest(p) ==
  /\ req[p].pc = "reset"
  /\ ur' = [status   |-> Saved(req[p].status, "SEARCHING", ur.status),
            provider |-> Saved(req[p].given, Nobody, ur.provider),
            overdue  |-> FALSE]
  /\ winners' = IF ur'.provider = Nobody THEN {} ELSE winners
  /\ round' = IF round < MaxRounds THEN round + 1 ELSE round
  /\ Finish(p)
  /\ UNCHANGED <<target, booking, revived>>

(* The booking goes its way ------------------------------------------------*)

\* The steps of the visit, and what the customer (withdrawing, answering) and
\* the provider (proposing another time) may do to its status besides; with which
\* codes and how often is the matter of BookingLifecycle.
Visit == {<<"CONFIRMED", "PROVIDER_EN_ROUTE">>, <<"PROVIDER_EN_ROUTE", "PROVIDER_ARRIVED">>,
          <<"PROVIDER_ARRIVED", "IN_PROGRESS">>, <<"IN_PROGRESS", "COMPLETED">>}
Changes == {<<"CONFIRMED", "CANCELLED">>, <<"PROVIDER_EN_ROUTE", "CANCELLED">>,
            <<"RESCHEDULE_REQUESTED", "CANCELLED">>, <<"CONFIRMED", "RESCHEDULE_REQUESTED">>,
            <<"RESCHEDULE_REQUESTED", "CONFIRMED">>}

\* updateBookingStatusAction: a claim on the loaded status, and a save.
LoadVisit(p) ==
  /\ Begins(p, "VISIT")
  /\ \E m \in Visit : booking.state = m[1] /\ Change(p, "visitClaim", Nobody, m[1], m[2])
  /\ UNCHANGED <<ur, target, booking, winners, round, revived>>

ClaimVisit(p) ==
  /\ req[p].pc = "visitClaim"
  /\ IF booking.state = req[p].was
       THEN booking' = [booking EXCEPT !.state = req[p].to] /\ Goto(p, "statusSave")
       ELSE UNCHANGED booking /\ Finish(p)
  /\ UNCHANGED <<ur, target, winners, round, revived>>

\* cancelCustomerBooking, requestReschedule and respondToReschedule only save.
LoadChange(p) ==
  /\ Begins(p, "CHANGE")
  /\ \E m \in Changes : booking.state = m[1] /\ Change(p, "statusSave", Nobody, m[1], m[2])
  /\ UNCHANGED <<ur, target, booking, winners, round, revived>>

\* The status once more, whatever the booking has become.
SaveStatus(p) ==
  /\ req[p].pc = "statusSave"
  /\ booking' = [booking EXCEPT !.state = req[p].to]
  /\ revived' = (revived \/ (booking.state = "CANCELLED" /\ req[p].to # "CANCELLED"))
  /\ Finish(p)
  /\ UNCHANGED <<ur, target, winners, round>>

(* The search and the rest of the world -------------------------------------*)

\* The search rings a provider it has not rung.
Invite(P) ==
  /\ ur.status = "SEARCHING" /\ ~ur.overdue
  /\ target[P] = "NONE"
  /\ target' = [target EXCEPT ![P] = "OPEN"]
  /\ UNCHANGED <<ur, booking, req, winners, round, revived>>

\* An invitation lapses with its batch.
Lapse(P) ==
  /\ ur.status = "SEARCHING"
  /\ target[P] = "OPEN"
  /\ target' = [target EXCEPT ![P] = "EXPIRED"]
  /\ UNCHANGED <<ur, booking, req, winners, round, revived>>

TimePasses ==
  /\ ~ur.overdue
  /\ ur' = [ur EXCEPT !.overdue = TRUE]
  /\ UNCHANGED <<target, booking, req, winners, round, revived>>

\* A handler dies with its process, or a call it awaits throws.
Fail(p) ==
  /\ req[p].pc # "idle"
  /\ Finish(p)
  /\ UNCHANGED <<ur, target, booking, winners, round, revived>>

Accepting(p) ==
  \/ \E P \in Provider : LoadAccept(p, P) \/ LoadReject(p, P) \/ LoadNotice(p, P)
  \/ FindTarget(p) \/ Claim(p) \/ MarkAccepted(p) \/ MarkLost(p) \/ Convert(p)
  \/ ConvertSave(p) \/ SaveReject(p)
  \/ SaveNotice(p)

Ending(p) ==
  \/ CancelRequest(p) \/ CloseTargets(p) \/ JobFind(p) \/ JobSave(p)
  \/ RingFindsNobody(p) \/ CountOpen(p) \/ ExpireNoProviders(p)

Redispatching(p) ==
  \/ \E P \in Provider : LoadGiveUp(p, P)
  \/ FindRequest(p) \/ CancelBooking(p) \/ LoadNoShow(p) \/ NoShowFind(p)
  \/ NoShowClaim(p) \/ RejectTarget(p) \/ ResetRequest(p)

Serving(p) == LoadVisit(p) \/ ClaimVisit(p) \/ LoadChange(p) \/ SaveStatus(p)

Next ==
  \/ \E p \in Request : Accepting(p) \/ Ending(p) \/ Redispatching(p) \/ Serving(p) \/ Fail(p)
  \/ \E P \in Provider : Invite(P) \/ Lapse(P)
  \/ TimePasses

Spec == Init /\ [][Next]_vars

-----------------------------------------------------------------------------
(* Properties                                                               *)

\* The documents, the handlers and the history keep their types.
TypeOK ==
  /\ ur \in RequestDocs
  /\ target \in [Provider -> TargetStatus]
  /\ booking \in BookingDocs
  /\ req \in [Request -> Handlers]
  /\ winners \subseteq Provider
  /\ round \in 1..MaxRounds
  /\ revived \in BOOLEAN

\* Of all the providers who accept at the same time, while the customer
\* cancels, the request expires or is dispatched again, one at most is told
\* it won in each round.
OneWinner == \A P, Q \in winners : P = Q

\* Whoever dispatches the request again - the customer after a no-show, the
\* provider who gives up - while the visit, a cancellation or another dispatch
\* goes on leaves no booking behind that is still on with a provider the request
\* has been taken from.  The exception: a status saved late (a step of the visit
\* or of a reschedule) brings a cancelled booking back.  No second booking is ever
\* made for the request, so later rounds are about the first one only.
HolderWon ==
  \/ revived \/ booking.state \in {"NONE", "CANCELLED"}
  \/ booking.provider = ur.provider

Won == ur.status \in {"ASSIGNED", "CONVERTED_TO_BOOKING"}

\* A request a provider has won stays won until it is dispatched again: neither
\* a cancellation nor the expiry job, which saves what it loaded before, takes
\* it away.  The exception is a ring that found nobody to invite.
WonStays ==
  [][round = 1 /\ Won =>
       Won' \/ round' # round \/ \E p \in Request : ExpireNoProviders(p)]_vars
=============================================================================
