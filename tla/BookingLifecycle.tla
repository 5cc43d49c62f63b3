-------------------------- MODULE BookingLifecycle --------------------------
(***************************************************************************)
(* The life of one scheduled booking: bookings/booking-provider.service.ts, *)
(* booking.service.ts, booking-status.service.ts, the reassignment, and the *)
(* two service codes.                                                      *)
(*                                                                         *)
(* Every HTTP handler loads the document, decides on what it loaded, and   *)
(* writes later.  Two kinds of write exist: findOneAndUpdate with the seen *)
(* status in its filter (a claim), and save(), which sets the modified     *)
(* fields whatever the document has become.  Between the load and the      *)
(* writes of a handler any other handler may run.                          *)
(***************************************************************************)
EXTENDS Integers, FiniteSets

CONSTANTS
  Request,      \* handlers that may be in flight together
  Provider,     \* providers that offer the service
  Nobody,       \* not a provider
  Ops,          \* what the clients call, and whether the WINDOW to answer passes
  Benefits,     \* what the price of a booking may use
  MaxAttempts,  \* service-start-otp.service.ts MAX_ATTEMPTS
  MaxWaits      \* extensions waitForProviderResponse grants

ASSUME ProviderAssumption == Provider # {} /\ Nobody \notin Provider
ASSUME BenefitsAssumption == Benefits \subseteq {"ENTITLEMENT", "COINS"}
ASSUME AttemptsAssumption == MaxAttempts \in Nat \ {0}
ASSUME WaitsAssumption == MaxWaits \in Nat \ {0}

VARIABLES
  bk,        \* the booking document
  proposal,  \* its RescheduleRequest documents, by the handler that made them
  usage,     \* status of its EntitlementUsage
  coins,     \* reward coins of its price: wanted, debited
  refunded,  \* the reward ledger holds the reversal of the debit
  creation,  \* createBookingFromReservation after the insert
  job,       \* the expirePendingProviderRequests job
  req,       \* the handlers in flight
  done       \* history: claims that succeeded, and who accepted

money == <<usage, coins, refunded>>
vars == <<bk, proposal, usage, coins, refunded, creation, job, req, done>>

Status == {"PENDING_PROVIDER", "CONFIRMED", "PROVIDER_EN_ROUTE", "PROVIDER_ARRIVED",
           "IN_PROGRESS", "COMPLETED", "CANCELLED", "RESCHEDULE_REQUESTED"}
RequestStatus == {"PENDING", "ACCEPTED", "REJECTED", "EXPIRED"}
Code == {"NONE", "LIVE", "EXPIRED"}

Documents ==
  [status    : Status,
   request   : RequestStatus,    \* providerRequestStatus
   provider  : Provider,
   overdue   : BOOLEAN,          \* providerResponseExpiresAt has passed
   expired   : BOOLEAN,          \* providerRequestExpiredAt is set
   waits     : 0..MaxWaits,      \* providerResponseWaitCount
   moves     : 0..1,             \* reschedule.providerRescheduleCount
   startCode : Code,
   tries     : 0..MaxAttempts,   \* serviceStartOtpAttempts
   endCode   : Code]

-----------------------------------------------------------------------------
(* TRANSITIONS: from which statuses an action is allowed, and where it leads *)

Sources ==
  [PROVIDER_ACCEPT    |-> {"PENDING_PROVIDER"},
   PROVIDER_REJECT    |-> {"PENDING_PROVIDER"},
   PROVIDER_EN_ROUTE  |-> {"CONFIRMED"},
   PROVIDER_ARRIVE    |-> {"PROVIDER_EN_ROUTE"},
   START_SERVICE      |-> {"PROVIDER_ARRIVED"},
   COMPLETE_SERVICE   |-> {"IN_PROGRESS"},
   CUSTOMER_CANCEL    |-> {"PENDING_PROVIDER", "CONFIRMED", "RESCHEDULE_REQUESTED",
                           "PROVIDER_EN_ROUTE"},
   PROVIDER_CANCEL    |-> {"CONFIRMED"},
   RESCHEDULE_REQUEST |-> {"CONFIRMED"},
   RESCHEDULE_ACCEPT  |-> {"RESCHEDULE_REQUESTED"},
   RESCHEDULE_REJECT  |-> {"RESCHEDULE_REQUESTED"}]

Target ==
  [PROVIDER_ACCEPT    |-> "CONFIRMED",
   PROVIDER_REJECT    |-> "CANCELLED",
   PROVIDER_EN_ROUTE  |-> "PROVIDER_EN_ROUTE",
   PROVIDER_ARRIVE    |-> "PROVIDER_ARRIVED",
   START_SERVICE      |-> "IN_PROGRESS",
   COMPLETE_SERVICE   |-> "COMPLETED",
   CUSTOMER_CANCEL    |-> "CANCELLED",
   PROVIDER_CANCEL    |-> "CANCELLED",
   RESCHEDULE_REQUEST |-> "RESCHEDULE_REQUESTED",
   RESCHEDULE_ACCEPT  |-> "CONFIRMED",
   RESCHEDULE_REJECT  |-> "CONFIRMED"]

ServiceActions == {"PROVIDER_EN_ROUTE", "PROVIDER_ARRIVE", "START_SERVICE", "COMPLETE_SERVICE"}

\* Mutant: a provider may set out before the request was accepted.
CanEarly(action) ==
  \/ bk.status \in Sources[action]
  \/ action = "PROVIDER_EN_ROUTE" /\ bk.status = "PENDING_PROVIDER"

\* The status allows the action (transitionBookingStatus does not throw).
Can(action) == bk.status \in Sources[action]

-----------------------------------------------------------------------------
(* Handlers                                                                 *)

Pc == {"idle", "acceptClaim", "consume", "rejectClaim", "release", "releaseRefund", "refund",
       "wrongCodeSave", "serviceClaim", "serviceSave", "rescheduleSave", "rescheduleCreate",
       "answerFind", "answerProposal", "answerSave", "cancelSave", "providerCancelSave",
       "waitSave", "reassignSave", "backupSave"}

Handlers ==
  [pc     : Pc,
   by     : Provider \cup {Nobody},         \* who calls, or is to be assigned
   action : ServiceActions \cup {"NONE"},
   seen   : RequestStatus \cup {"NONE"},    \* providerRequestStatus as loaded
   count  : Nat,                            \* tries or waits as loaded
   flag   : BOOLEAN,                        \* expired as loaded; the customer agrees
   ref    : Request \cup {Nobody}]          \* the proposal loaded

Idle == [pc |-> "idle", by |-> Nobody, action |-> "NONE", seen |-> "NONE",
         count |-> 0, flag |-> FALSE, ref |-> Nobody]

Begins(p, op) == req[p].pc = "idle" /\ op \in Ops
Await(p, pc, P, a, n) ==
  req' = [req EXCEPT ![p] = [pc |-> pc, by |-> P, action |-> a, seen |-> "NONE",
                             count |-> n, flag |-> FALSE, ref |-> Nobody]]
Recall(p, pc, P, s, f, q) ==
  req' = [req EXCEPT ![p] = [pc |-> pc, by |-> P, action |-> "NONE", seen |-> s,
                             count |-> 0, flag |-> f, ref |-> q]]
Finish(p) == req' = [req EXCEPT ![p] = Idle]   \* the handler returns or throws

\* save() sends only the fields the handler changed.
Saved(loaded, new, stored) == IF loaded = new THEN stored ELSE new

\* History counters stop at 2.
Count(n) == IF n < 2 THEN n + 1 ELSE n

Init ==
  /\ \E P \in Provider :
       bk = [status |-> "PENDING_PROVIDER", request |-> "PENDING", provider |-> P,
             overdue |-> FALSE, expired |-> FALSE, waits |-> 0, moves |-> 0,
             startCode |-> "NONE", tries |-> 0, endCode |-> "NONE"]
  /\ proposal = [p \in Request |-> "NONE"]
  /\ usage = IF "ENTITLEMENT" \in Benefits THEN "WANTED" ELSE "NONE"
  /\ coins = IF "COINS" \in Benefits THEN "WANTED" ELSE "NONE"
  /\ refunded = FALSE
  /\ creation = "reserve"
  /\ job = "idle"
  /\ req = [p \in Request |-> Idle]
  /\ done = [answers |-> 0, starts |-> 0, acceptedBy |-> Nobody]

(* acceptBooking and rejectBooking -----------------------------------------*)

\* The provider finds the request pending with it.
Offered(P) == bk.provider = P /\ bk.request = "PENDING"

LoadAccept(p, P) ==
  /\ Begins(p, "PROVIDER_ACCEPT")
  /\ Offered(P) /\ Can("PROVIDER_ACCEPT")
  /\ Await(p, "acceptClaim", P, "NONE", 0)
  /\ UNCHANGED <<bk, proposal, money, creation, job, done>>

\* Mutant: the claim asks for the provider only.
ClaimAcceptUnguarded(p) ==
  /\ req[p].pc = "acceptClaim"
  /\ bk.provider = req[p].by
  /\ bk' = [bk EXCEPT !.status = "CONFIRMED", !.request = "ACCEPTED"]
  /\ done' = [done EXCEPT !.answers = Count(@), !.acceptedBy = req[p].by]
  /\ Await(p, "consume", req[p].by, "NONE", 0)
  /\ UNCHANGED <<proposal, money, creation, job>>

\* Mutant: the handler goes on after a lost claim.
ClaimAcceptGoingOn(p) ==
  /\ req[p].pc = "acceptClaim"
  /\ IF Offered(req[p].by) /\ Can("PROVIDER_ACCEPT")
       THEN /\ bk' = [bk EXCEPT !.status = Target["PROVIDER_ACCEPT"], !.request = "ACCEPTED"]
            /\ done' = [done EXCEPT !.answers = Count(@), !.acceptedBy = req[p].by]
       ELSE UNCHANGED <<bk, done>>
  /\ Await(p, "consume", req[p].by, "NONE", 0)
  /\ UNCHANGED <<proposal, money, creation, job>>

\* findOneAndUpdate on provider, request and status; otherwise 409.
ClaimAccept(p) ==
  /\ req[p].pc = "acceptClaim"
  /\ IF Offered(req[p].by) /\ Can("PROVIDER_ACCEPT")
       THEN /\ bk' = [bk EXCEPT !.status = Target["PROVIDER_ACCEPT"], !.request = "ACCEPTED"]
            /\ done' = [done EXCEPT !.answers = Count(@), !.acceptedBy = req[p].by]
            /\ Await(p, "consume", req[p].by, "NONE", 0)
       ELSE Finish(p) /\ UNCHANGED <<bk, done>>
  /\ UNCHANGED <<proposal, money, creation, job>>

\* consumeEntitlement.  A released usage is consumed as well when the
\* entitlement still has a reservation, which is then another booking's;
\* without one it throws and leaves the usage.
ConsumeUsage(p) ==
  /\ req[p].pc = "consume"
  /\ \/ usage \in {"RESERVED", "RELEASED"} /\ usage' = "CONSUMED"
     \/ usage # "RESERVED" /\ UNCHANGED usage
  /\ Finish(p)
  /\ UNCHANGED <<bk, proposal, coins, refunded, creation, job, done>>

LoadReject(p, P) ==
  /\ Begins(p, "PROVIDER_REJECT")
  /\ Offered(P) /\ Can("PROVIDER_REJECT")
  /\ Await(p, "rejectClaim", P, "NONE", 0)
  /\ UNCHANGED <<bk, proposal, money, creation, job, done>>

ClaimReject(p) ==
  /\ req[p].pc = "rejectClaim"
  /\ IF Offered(req[p].by) /\ Can("PROVIDER_REJECT")
       THEN /\ bk' = [bk EXCEPT !.status = Target["PROVIDER_REJECT"], !.request = "REJECTED"]
            /\ done' = [done EXCEPT !.answers = Count(@)]
            /\ Await(p, "release", Nobody, "NONE", 0)
       ELSE Finish(p) /\ UNCHANGED <<bk, done>>
  /\ UNCHANGED <<proposal, money, creation, job>>

(* Cancellations ------------------------------------------------------------*)

LoadCancel(p) ==
  /\ Begins(p, "CUSTOMER_CANCEL")
  /\ Can("CUSTOMER_CANCEL")
  /\ Recall(p, "cancelSave", Nobody, bk.request, FALSE, Nobody)
  /\ UNCHANGED <<bk, proposal, money, creation, job, done>>

SaveCancel(p) ==
  /\ req[p].pc = "cancelSave"
  /\ bk' = [bk EXCEPT !.status  = Target["CUSTOMER_CANCEL"],
                      !.request = IF req[p].seen = "PENDING" THEN "EXPIRED" ELSE @]
  /\ Await(p, "releaseRefund", Nobody, "NONE", 0)
  /\ UNCHANGED <<proposal, money, creation, job, done>>

\* Mutant: a provider may cancel whatever the status.
LoadProviderCancelAlways(p, P) ==
  /\ Begins(p, "PROVIDER_CANCEL")
  /\ bk.provider = P
  /\ Await(p, "providerCancelSave", P, "NONE", 0)
  /\ UNCHANGED <<bk, proposal, money, creation, job, done>>

LoadProviderCancel(p, P) ==
  /\ Begins(p, "PROVIDER_CANCEL")
  /\ bk.provider = P /\ Can("PROVIDER_CANCEL")
  /\ Await(p, "providerCancelSave", P, "NONE", 0)
  /\ UNCHANGED <<bk, proposal, money, creation, job, done>>

SaveProviderCancel(p) ==
  /\ req[p].pc = "providerCancelSave"
  /\ bk' = [bk EXCEPT !.status = Target["PROVIDER_CANCEL"]]
  /\ Await(p, "release", Nobody, "NONE", 0)
  /\ UNCHANGED <<proposal, money, creation, job, done>>

\* releaseEntitlementReservation; only the customer's cancellation then
\* gives the reward coins back.
ReleaseUsage(p) ==
  /\ req[p].pc \in {"release", "releaseRefund"}
  /\ usage' = IF usage = "RESERVED" THEN "RELEASED" ELSE usage
  /\ IF req[p].pc = "releaseRefund" /\ coins # "NONE"
       THEN Await(p, "refund", Nobody, "NONE", 0) ELSE Finish(p)
  /\ UNCHANGED <<bk, proposal, coins, refunded, creation, job, done>>

RefundCoins(p) ==
  /\ req[p].pc = "refund"
  /\ refunded' = TRUE
  /\ Finish(p)
  /\ UNCHANGED <<bk, proposal, usage, coins, creation, job, done>>

(* updateBookingStatusAction -------------------------------------------------*)

\* Mutant: one attempt too many.
CodeAcceptedOnceMore(a) ==
  /\ a = "START_SERVICE" => bk.startCode = "LIVE" /\ bk.tries <= MaxAttempts
  /\ a = "COMPLETE_SERVICE" => bk.endCode = "LIVE"

\* verifyServiceStartOtp and verifyServiceCompletionOtp with the right code.
CodeAccepted(a) ==
  /\ a = "START_SERVICE" => bk.startCode = "LIVE" /\ bk.tries < MaxAttempts
  /\ a = "COMPLETE_SERVICE" => bk.endCode = "LIVE"

LoadService(p, P, a) ==
  /\ Begins(p, a)
  /\ bk.provider = P /\ CodeAccepted(a) /\ Can(a)
  /\ Await(p, "serviceClaim", P, a, bk.tries)
  /\ UNCHANGED <<bk, proposal, money, creation, job, done>>

\* A wrong start code, judged before the status is.
LoadWrongCode(p, P) ==
  /\ Begins(p, "START_SERVICE")
  /\ bk.provider = P /\ CodeAccepted("START_SERVICE")
  /\ Await(p, "wrongCodeSave", P, "NONE", bk.tries)
  /\ UNCHANGED <<bk, proposal, money, creation, job, done>>

SaveWrongCode(p) ==
  /\ req[p].pc = "wrongCodeSave"
  /\ bk' = [bk EXCEPT !.tries = req[p].count + 1]
  /\ Finish(p)
  /\ UNCHANGED <<proposal, money, creation, job, done>>

\* findOneAndUpdate on the loaded status, the only one that allows the action.
ClaimService(p) ==
  LET a == req[p].action IN
  /\ req[p].pc = "serviceClaim"
  /\ IF Can(a)
       THEN /\ bk' = [bk EXCEPT !.status = Target[a]]
            /\ done' = IF a = "START_SERVICE" THEN [done EXCEPT !.starts = Count(@)] ELSE done
            /\ Await(p, "serviceSave", req[p].by, a, req[p].count)
       ELSE Finish(p) /\ UNCHANGED <<bk, done>>
  /\ UNCHANGED <<proposal, money, creation, job>>

\* The save after the claim: the status once more, and the codes.
SaveService(p) ==
  LET a == req[p].action
      tries == Saved(req[p].count, 0, bk.tries) IN
  /\ req[p].pc = "serviceSave"
  /\ bk' = CASE a = "PROVIDER_EN_ROUTE" -> [bk EXCEPT !.status = Target[a]]
             [] a = "PROVIDER_ARRIVE" ->
                  [bk EXCEPT !.status = Target[a], !.startCode = "LIVE", !.tries = tries]
             [] a = "START_SERVICE" ->
                  [bk EXCEPT !.status = Target[a], !.startCode = "NONE", !.tries = tries,
                             !.endCode = "LIVE"]
             [] a = "COMPLETE_SERVICE" ->
                  [bk EXCEPT !.status = Target[a], !.endCode = "NONE"]
  /\ Finish(p)
  /\ UNCHANGED <<proposal, money, creation, job, done>>

(* requestReschedule and respondToReschedule --------------------------------*)

\* The provider proposes another time, once per booking.
LoadReschedule(p, P) ==
  /\ Begins(p, "RESCHEDULE_REQUEST")
  /\ bk.provider = P /\ bk.moves < 1 /\ Can("RESCHEDULE_REQUEST")
  /\ Await(p, "rescheduleSave", P, "NONE", 0)
  /\ UNCHANGED <<bk, proposal, money, creation, job, done>>

SaveReschedule(p) ==
  /\ req[p].pc = "rescheduleSave"
  /\ bk' = [bk EXCEPT !.status = Target["RESCHEDULE_REQUEST"], !.moves = 1]
  /\ Await(p, "rescheduleCreate", Nobody, "NONE", 0)
  /\ UNCHANGED <<proposal, money, creation, job, done>>

CreateProposal(p) ==
  /\ req[p].pc = "rescheduleCreate"
  /\ proposal' = [proposal EXCEPT ![p] = "PENDING"]
  /\ Finish(p)
  /\ UNCHANGED <<bk, money, creation, job, done>>

\* Loads the booking; a status that allows no answer throws further on.
LoadAnswer(p) ==
  /\ Begins(p, "RESCHEDULE_ACCEPT")
  /\ Can("RESCHEDULE_ACCEPT")
  /\ \E agrees \in BOOLEAN : Recall(p, "answerFind", Nobody, "NONE", agrees, Nobody)
  /\ UNCHANGED <<bk, proposal, money, creation, job, done>>

\* A pending proposal, or 404.
FindProposal(p) ==
  /\ req[p].pc = "answerFind"
  /\ \/ \E q \in Request :
          /\ proposal[q] = "PENDING"
          /\ Recall(p, "answerProposal", Nobody, "NONE", req[p].flag, q)
     \/ (\A q \in Request : proposal[q] # "PENDING") /\ Finish(p)
  /\ UNCHANGED <<bk, proposal, money, creation, job, done>>

SaveProposal(p) ==
  /\ req[p].pc = "answerProposal"
  /\ proposal' = [proposal EXCEPT ![req[p].ref] =
                    IF req[p].flag THEN "ACCEPTED" ELSE "REJECTED"]
  /\ Recall(p, "answerSave", Nobody, "NONE", req[p].flag, Nobody)
  /\ UNCHANGED <<bk, money, creation, job, done>>

SaveAnswer(p) ==
  /\ req[p].pc = "answerSave"
  /\ bk' = [bk EXCEPT !.status = Target["RESCHEDULE_ACCEPT"]]
  /\ Finish(p)
  /\ UNCHANGED <<proposal, money, creation, job, done>>

(* A provider that does not answer ------------------------------------------*)

\* Mutant: a request is reported once only, not again after an extension.
JobFindOnce ==
  /\ job = "idle"
  /\ bk.status = "PENDING_PROVIDER" /\ bk.request = "PENDING" /\ bk.overdue /\ ~bk.expired
  /\ bk.waits = 0
  /\ job' = "save"
  /\ UNCHANGED <<bk, proposal, money, creation, req, done>>

\* expirePendingProviderRequests: the query, then a save per booking found.
JobFind ==
  /\ job = "idle"
  /\ bk.status = "PENDING_PROVIDER" /\ bk.request = "PENDING" /\ bk.overdue /\ ~bk.expired
  /\ job' = "save"
  /\ UNCHANGED <<bk, proposal, money, creation, req, done>>

JobSave ==
  /\ job = "save"
  /\ bk' = [bk EXCEPT !.expired = TRUE]
  /\ job' = "idle"
  /\ UNCHANGED <<proposal, money, creation, req, done>>

\* waitForProviderResponse.
LoadWait(p) ==
  /\ Begins(p, "WAIT")
  /\ bk.status = "PENDING_PROVIDER" /\ bk.expired /\ bk.waits < MaxWaits
  /\ Await(p, "waitSave", Nobody, "NONE", bk.waits)
  /\ UNCHANGED <<bk, proposal, money, creation, job, done>>

SaveWait(p) ==
  /\ req[p].pc = "waitSave"
  /\ bk' = [bk EXCEPT !.overdue = FALSE, !.expired = FALSE, !.waits = req[p].count + 1]
  /\ Finish(p)
  /\ UNCHANGED <<proposal, money, creation, job, done>>

\* The provider to be written: none when the document names P already.
NewProvider(P) == IF P = bk.provider THEN Nobody ELSE P

\* findAnotherProviderForBooking: a provider the customer names or discovery
\* finds.
LoadReassign(p, P) ==
  /\ Begins(p, "FIND_ANOTHER")
  /\ bk.status = "PENDING_PROVIDER"
  /\ Recall(p, "reassignSave", NewProvider(P), bk.request, bk.expired, Nobody)
  /\ UNCHANGED <<bk, proposal, money, creation, job, done>>

Written(p) == IF req[p].by = Nobody THEN bk.provider ELSE req[p].by

\* Mutant: the whole document is written back.
SaveReassignWhole(p) ==
  /\ req[p].pc = "reassignSave"
  /\ bk' = [bk EXCEPT !.status = "PENDING_PROVIDER", !.provider = Written(p),
                      !.overdue = FALSE, !.request = "PENDING", !.expired = FALSE]
  /\ Finish(p)
  /\ UNCHANGED <<proposal, money, creation, job, done>>

\* reassignPendingBookingProvider: a request that was loaded pending is not
\* written again.
SaveReassign(p) ==
  /\ req[p].pc = "reassignSave"
  /\ bk' = [bk EXCEPT !.provider = Written(p), !.overdue = FALSE,
                      !.request  = Saved(req[p].seen, "PENDING", @),
                      !.expired  = Saved(req[p].flag, FALSE, @)]
  /\ Finish(p)
  /\ UNCHANGED <<proposal, money, creation, job, done>>

\* findAvailableProviderForBooking for a booking whose provider did not confirm
\* again: the job or the customer calls once the confirmation was found missed
\* (ProviderConfirmation), whatever the status is by then.
LoadBackup(p, P) ==
  /\ Begins(p, "BACKUP")
  /\ done.acceptedBy # Nobody
  /\ P # bk.provider
  /\ Await(p, "backupSave", P, "NONE", 0)
  /\ UNCHANGED <<bk, proposal, money, creation, job, done>>

\* assignBackupProviderForConfirmedBooking.
SaveBackup(p) ==
  /\ req[p].pc = "backupSave"
  /\ bk' = [bk EXCEPT !.provider = req[p].by]
  /\ Finish(p)
  /\ UNCHANGED <<proposal, money, creation, job, done>>

(* createBookingFromReservation after the insert, and the environment -------*)

ReserveUsage ==
  /\ creation = "reserve"
  /\ usage' = IF usage = "WANTED" THEN "RESERVED" ELSE usage
  /\ creation' = "debit"
  /\ UNCHANGED <<bk, proposal, coins, refunded, job, req, done>>

DebitCoins ==
  /\ creation = "debit"
  /\ coins' = IF coins = "WANTED" THEN "DEBITED" ELSE coins
  /\ creation' = "done"
  /\ UNCHANGED <<bk, proposal, usage, refunded, job, req, done>>

\* reserveEntitlement or the debit throws, or the process dies: the booking
\* stays.
CreationFails ==
  /\ creation # "done"
  /\ creation' = "done"
  /\ UNCHANGED <<bk, proposal, money, job, req, done>>

\* entitlement expireStaleReservations, 15 minutes after the reservation.
SweepUsage ==
  /\ usage = "RESERVED"
  /\ usage' = "RELEASED"
  /\ UNCHANGED <<bk, proposal, coins, refunded, creation, job, req, done>>

\* providerResponseExpiresAt passes; only a pending request looks at it.
WindowPasses ==
  /\ "WINDOW" \in Ops
  /\ bk.status = "PENDING_PROVIDER" /\ ~bk.overdue
  /\ bk' = [bk EXCEPT !.overdue = TRUE]
  /\ UNCHANGED <<proposal, money, creation, job, req, done>>

StartCodeExpires ==
  /\ bk.startCode = "LIVE"
  /\ bk' = [bk EXCEPT !.startCode = "EXPIRED"]
  /\ UNCHANGED <<proposal, money, creation, job, req, done>>

EndCodeExpires ==
  /\ bk.endCode = "LIVE"
  /\ bk' = [bk EXCEPT !.endCode = "EXPIRED"]
  /\ UNCHANGED <<proposal, money, creation, job, req, done>>

\* A handler dies with its process, or a call it awaits throws.
Fail(p) ==
  /\ req[p].pc # "idle"
  /\ Finish(p)
  /\ UNCHANGED <<bk, proposal, money, creation, job, done>>

JobFails ==
  /\ job = "save"
  /\ job' = "idle"
  /\ UNCHANGED <<bk, proposal, money, creation, req, done>>

-----------------------------------------------------------------------------
Arrives(p) ==
  \/ \E P \in Provider : \/ LoadAccept(p, P) \/ LoadReject(p, P) \/ LoadProviderCancel(p, P)
                         \/ LoadWrongCode(p, P) \/ LoadReschedule(p, P) \/ LoadReassign(p, P)
                         \/ LoadBackup(p, P)
  \/ \E P \in Provider, a \in ServiceActions : LoadService(p, P, a)
  \/ LoadCancel(p) \/ LoadAnswer(p) \/ LoadWait(p)

Continues(p) ==
  \/ ClaimAccept(p) \/ ConsumeUsage(p) \/ ClaimReject(p)
  \/ SaveCancel(p) \/ SaveProviderCancel(p) \/ ReleaseUsage(p) \/ RefundCoins(p)
  \/ SaveWrongCode(p) \/ ClaimService(p) \/ SaveService(p)
  \/ SaveReschedule(p) \/ CreateProposal(p)
  \/ FindProposal(p) \/ SaveProposal(p) \/ SaveAnswer(p)
  \/ SaveWait(p) \/ SaveReassign(p) \/ SaveBackup(p)

Creation == ReserveUsage \/ DebitCoins \/ CreationFails
Clock == WindowPasses \/ StartCodeExpires \/ EndCodeExpires
Job == JobFind \/ JobSave

Next ==
  \/ \E p \in Request : Arrives(p) \/ Continues(p) \/ Fail(p)
  \/ Creation \/ Clock \/ Job \/ JobFails \/ SweepUsage

Spec == Init /\ [][Next]_vars

\* setInterval runs the jobs again and again; a handler that was not killed
\* goes on, and time passes.  Nothing obliges a client to call.
Fairness ==
  /\ WF_vars(JobFind) /\ SF_vars(JobSave) /\ WF_vars(Clock)
  /\ \A p \in Request : WF_vars(Continues(p))

FairSpec == Spec /\ Fairness

-----------------------------------------------------------------------------
(* Properties                                                               *)

Proposals == {"NONE", "PENDING", "ACCEPTED", "REJECTED"}

\* Every document fits its schema (providerResponseWaitCount never passes the
\* limit of waitForProviderResponse, the attempts never pass MAX_ATTEMPTS)
\* and every handler is at one of its awaits.
TypeOK ==
  /\ bk \in Documents
  /\ proposal \in [Request -> Proposals]
  /\ usage \in {"NONE", "WANTED", "RESERVED", "CONSUMED", "RELEASED"}
  /\ coins \in {"NONE", "WANTED", "DEBITED"}
  /\ refunded \in BOOLEAN
  /\ creation \in {"reserve", "debit", "done"}
  /\ job \in {"idle", "save"}
  /\ req \in [Request -> Handlers]
  /\ done \in [answers : 0..2, starts : 0..2, acceptedBy : Provider \cup {Nobody}]

\* The provider's answer is taken once: no interleaving of accept, reject,
\* reassignment, cancellation and the expiry job lets two claims succeed, and
\* a booking still pending has had none.
AnsweredOnce ==
  /\ done.answers <= 1
  /\ bk.status = "PENDING_PROVIDER" => done.answers = 0

\* A booking that left PENDING_PROVIDER never returns to it, whatever stale
\* document a handler saves.
NeverPendingAgain ==
  [][bk.status # "PENDING_PROVIDER" => bk'.status # "PENDING_PROVIDER"]_vars

Served == {"CONFIRMED", "RESCHEDULE_REQUESTED", "PROVIDER_EN_ROUTE", "PROVIDER_ARRIVED",
           "IN_PROGRESS", "COMPLETED"}

\* No blind save can put a booking on its way, in progress or completed that
\* no provider ever accepted, or start or complete one without the
\* customer's start code.
ServedOnlyWhenAgreed ==
  /\ bk.status \in Served => done.acceptedBy # Nobody
  /\ bk.status \in {"IN_PROGRESS", "COMPLETED"} => done.starts > 0

\* The entitlement is spent only on an accepted booking.
SpentOnlyWhenAccepted == usage = "CONSUMED" => done.acceptedBy # Nobody

\* What a handler at pc has decided and not yet written.
Late(pc, action) ==
  CASE pc = "cancelSave" -> "CUSTOMER_CANCEL"
    [] pc = "providerCancelSave" -> "PROVIDER_CANCEL"
    [] pc = "rescheduleSave" -> "PROPOSE_TIME"
    [] pc \in {"answerFind", "answerProposal", "answerSave"} -> "ANSWER_TIME"
    [] pc = "reassignSave" -> "ASK_ANOTHER"
    [] pc = "backupSave" -> "TAKE_OVER"
    [] pc = "serviceSave" -> Target[action]
    [] pc \in {"releaseRefund", "refund"} -> "REFUND"
    [] OTHER -> "NONE"
Lates == [p \in Request |-> Late(req[p].pc, req[p].action)]

\* However the handlers overlap, the booking does nothing but what BookingPromise
\* allows: claims follow the transition table on the status of the moment, every
\* other change was decided where the table allows it and lands once, whoever is
\* asked to serve was asked before the agreement or takes over after it, and
\* coins come back only once a customer's cancellation has landed.
Promise == INSTANCE BookingPromise
             WITH Call <- Request, status <- bk.status, provider <- bk.provider,
                  agreed <- done.acceptedBy, late <- Lates
KeepsPromise == Promise!Spec

\* START_SERVICE succeeds once.
StartedOnce == done.starts <= 1

\* An overdue request is reported to the customer, unless it is answered,
\* cancelled or given another window first.
OverdueIsReported ==
  (bk.status = "PENDING_PROVIDER" /\ bk.overdue)
    ~> (bk.expired \/ bk.status # "PENDING_PROVIDER" \/ ~bk.overdue)
=============================================================================
