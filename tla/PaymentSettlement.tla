------------------------ MODULE PaymentSettlement ------------------------
(***************************************************************************)
(* The money of one booking: the order at the gateway, the customer's      *)
(* confirmation, the cash confirmation and the webhook                     *)
(* (payments/payment.service.ts), and the settlement with the provider     *)
(* (settlements/).  The booking has a provider, something is to settle, and*)
(* finance BI is enabled; the gateway is Razorpay with its secrets.  The   *)
(* finance outbox, which copies a payment for the reports, is left out.    *)
(*                                                                         *)
(* An await ends an action.  Mongoose sends the fields of a document that  *)
(* changed since it was loaded, so a save can overwrite a later one.       *)
(***************************************************************************)
EXTENDS Integers, FiniteSets

CONSTANTS
  Proc,         \* handlers that may be in flight together
  MaxOrders     \* bound on orders created at the gateway

ASSUME OrdersAssumption == MaxOrders \in Nat \ {0}

VARIABLES
  method,      \* the payment method the booking was made with
  free,        \* its final amount is below 1
  booking,     \* the Booking document
  payment,     \* its Payment document
  settlement,  \* its ProviderSettlementRecord
  payouts,     \* FinancialEvents with the key provider-payout of the record
  orders,      \* orders created at the gateway
  captured,    \* those the customer has paid
  proc,        \* the handlers in flight
  history      \* what the properties ask about the past

docs == <<booking, payment, settlement>>
gateway == <<orders, captured>>
vars == <<method, free, docs, payouts, gateway, proc, history>>

None == 0
Order == 1..MaxOrders
PayStatus == {"PENDING", "PAY_ON_SERVICE", "PAID", "FAILED"}
\* metadata.confirmation: none, {method: 'CASH'}, {waived: true}, or what came with
\* a payment id: the gateway's signature, its webhook or the client's dev flag.
Confirmation == {"none", "cash", "online", "waived"}
Bookings == [completed : BOOLEAN, pay : PayStatus]
\* gateway: the provider is razorpay, or there is a providerPaymentId.
Payments == [status : PayStatus, order : {None} \cup Order, conf : Confirmation,
             gateway : BOOLEAN]
Loads == [status : PayStatus, conf : Confirmation]   \* what a handler uses of it
Settlements == [kind : {"NONE", "PAYOUT", "COMMISSION"}, settled : BOOLEAN]
Pc == {"idle", "loadPayment", "loadBooking", "saveOrder", "savePending",
       "payPayment", "payBooking", "failPayment", "failBooking",
       "claim", "try", "tryPayment", "tryCreate", "settle", "payout"}
Procs ==
  [pc   : Pc,
   pay  : PayStatus,                              \* of the booking it loaded
   doc  : Loads,                                  \* the payment it loaded
   what : Confirmation \cup {"invalid"},          \* what it confirms
   kind : {"PAYOUT", "COMMISSION"}]               \* of the settlement it creates
Histories ==
  [confirmed : SUBSET Confirmation,  \* the ways the payment was confirmed
   lost    : BOOLEAN,   \* a save dropped the confirmation of a payment
   due     : BOOLEAN,   \* paid, and the handler that came last found it completed
   stopped : BOOLEAN]   \* an exception or the end of the process cut a handler off

NoDoc == [status |-> "PENDING", conf |-> "none"]
Idle == [pc |-> "idle", pay |-> "PENDING", doc |-> NoDoc, what |-> "none", kind |-> "PAYOUT"]

Begins(p) == proc[p].pc = "idle"
At(p, pc) == proc[p].pc = pc
Goto(p, pc) == proc' = [proc EXCEPT ![p].pc = pc]
Forget(p, pc) == proc' = [proc EXCEPT ![p] = [Idle EXCEPT !.pc = pc]]   \* what it loaded
\* The payment is saved, the booking is next.
Keep(p, pc) == proc' = [proc EXCEPT ![p] = [Idle EXCEPT !.pc = pc, !.pay = proc[p].pay]]
Finish(p) == proc' = [proc EXCEPT ![p] = Idle]
Load == [status |-> payment.status, conf |-> payment.conf]
Spawn(p, fields) == proc' = [proc EXCEPT ![p] = fields]

\* initialPaymentStatus.  An online booking is made with its first order, unless
\* the handler ended before that; an urgent one without, and always at the gateway.
Init ==
  /\ method \in {"ONLINE", "PAY_ON_SERVICE"}
  /\ free \in BOOLEAN
  /\ booking = [completed |-> FALSE,
                pay |-> IF method = "ONLINE" THEN "PENDING" ELSE "PAY_ON_SERVICE"]
  /\ orders \in {0, 1}
  /\ \E online \in BOOLEAN :
       /\ IF method = "ONLINE" THEN online ELSE orders = 0
       /\ payment = [status |-> booking.pay, order |-> orders, conf |-> "none", gateway |-> online]
  /\ captured = {}
  /\ settlement = [kind |-> "NONE", settled |-> FALSE]
  /\ payouts = 0
  /\ proc = [p \in Proc |-> Idle]
  /\ history = [confirmed |-> {}, lost |-> FALSE, due |-> FALSE, stopped |-> FALSE]

(* The gateway --------------------------------------------------------------*)

\* The customer pays an order.
Capture ==
  /\ \E o \in 1..orders : captured' = captured \cup {o}
  /\ UNCHANGED <<method, free, docs, payouts, orders, proc, history>>

(* Handlers of payment.service.ts -------------------------------------------*)

\* initiateBookingPayment ("none", or "waived" when there is nothing to pay),
\* confirmBookingPayment ("online" with the gateway's signature of any payment, or
\* the dev flag, which every environment takes; "invalid" with a wrong signature),
\* confirmCashPayment and confirmCashReceivedByProvider ("cash") load the booking
\* and reject a paid one.
LoadUnpaid(p, what) ==
  /\ Begins(p) /\ booking.pay # "PAID"
  /\ what \in {"none", "waived"} => what = IF free THEN "waived" ELSE "none"
  /\ Spawn(p, [Idle EXCEPT !.pc = "loadPayment", !.pay = booking.pay, !.what = what])
  /\ UNCHANGED <<method, free, docs, payouts, gateway, history>>

LoadPayment(p) ==
  /\ At(p, "loadPayment")
  /\ LET next == [none |-> "saveOrder", invalid |-> "failPayment",
                  online |-> "payPayment", cash |-> "payPayment", waived |-> "payPayment"] IN
       proc' = [proc EXCEPT ![p].pc = next[proc[p].what], ![p].doc = Load]
  /\ UNCHANGED <<method, free, docs, payouts, gateway, history>>

\* handlePaymentWebhook, as often as the gateway delivers it.
Webhook(p) ==
  /\ Begins(p) /\ payment.order \in captured /\ payment.status # "PAID"
  /\ Spawn(p, [Idle EXCEPT !.pc = "loadBooking", !.doc = Load, !.what = "online"])
  /\ UNCHANGED <<method, free, docs, payouts, gateway, history>>

LoadBooking(p) ==
  /\ At(p, "loadBooking")
  /\ proc' = [proc EXCEPT ![p].pc = "payPayment", ![p].pay = booking.pay]
  /\ UNCHANGED <<method, free, docs, payouts, gateway, history>>

\* The gateway has created the order; the metadata are the loaded ones.
SaveOrder(p) ==
  /\ At(p, "saveOrder") /\ orders < MaxOrders
  /\ orders' = orders + 1
  /\ payment' = [status |-> IF proc[p].doc.status = "PENDING" THEN payment.status ELSE "PENDING",
                 order |-> orders + 1, conf |-> proc[p].doc.conf, gateway |-> TRUE]
  /\ history' = [history EXCEPT !.lost = @ \/ payment.conf # proc[p].doc.conf]
  /\ IF proc[p].pay = "PAY_ON_SERVICE" THEN Forget(p, "savePending") ELSE Finish(p)
  /\ UNCHANGED <<method, free, booking, settlement, payouts, captured>>

\* initiateBookingPayment and COMPLETE_SERVICE, the booking they loaded being
\* PAY_ON_SERVICE.
SavePending(p) ==
  /\ At(p, "savePending")
  /\ booking' = [booking EXCEPT !.pay = "PENDING"]
  /\ history' = [history EXCEPT !.due = FALSE]
  /\ Finish(p)
  /\ UNCHANGED <<method, free, payment, settlement, payouts, gateway>>

\* Mutant: a status the schema does not know.
FailPaymentAsRejected(p) ==
  /\ At(p, "failPayment")
  /\ payment' = [payment EXCEPT !.status = "REJECTED"]
  /\ Keep(p, "failBooking")
  /\ UNCHANGED <<method, free, booking, settlement, payouts, gateway, history>>

\* The signature is invalid.
FailPayment(p) ==
  /\ At(p, "failPayment")
  /\ payment' = [payment EXCEPT !.status = IF proc[p].doc.status = "FAILED" THEN @ ELSE "FAILED"]
  /\ Keep(p, "failBooking")
  /\ UNCHANGED <<method, free, booking, settlement, payouts, gateway, history>>

FailBooking(p) ==
  /\ At(p, "failBooking")
  /\ booking' = [booking EXCEPT !.pay = IF proc[p].pay = "FAILED" THEN @ ELSE "FAILED"]
  /\ history' = [history EXCEPT !.due = @ /\ booking'.pay = "PAID"]
  /\ Finish(p)
  /\ UNCHANGED <<method, free, payment, settlement, payouts, gateway>>

(* markBookingPaidForSettlement ---------------------------------------------*)

PayPayment(p) ==
  /\ At(p, "payPayment")
  /\ payment' = [payment EXCEPT !.status = IF proc[p].doc.status = "PAID" THEN @ ELSE "PAID",
                                !.conf = proc[p].what,
                                !.gateway = @ \/ proc[p].what = "online"]
  /\ history' = [history EXCEPT !.confirmed = @ \cup {proc[p].what}]
  /\ Keep(p, "payBooking")
  /\ UNCHANGED <<method, free, booking, settlement, payouts, gateway>>

\* Mutant: the settlement is left to the completion of the booking.
PayBookingOnly(p) ==
  /\ At(p, "payBooking")
  /\ booking' = [booking EXCEPT !.pay = IF proc[p].pay = "PAID" THEN @ ELSE "PAID"]
  /\ history' = [history EXCEPT !.due = @ \/ (booking'.pay = "PAID" /\ booking.completed)]
  /\ Finish(p)
  /\ UNCHANGED <<method, free, payment, settlement, payouts, gateway>>

\* Then the event goes to the outbox in the background, and the settlement is
\* tried.
PayBooking(p) ==
  /\ At(p, "payBooking")
  /\ booking' = [booking EXCEPT !.pay = IF proc[p].pay = "PAID" THEN @ ELSE "PAID"]
  /\ history' = [history EXCEPT !.due = @ \/ (booking'.pay = "PAID" /\ booking.completed)]
  /\ Forget(p, "try")
  /\ UNCHANGED <<method, free, payment, settlement, payouts, gateway>>

(* COMPLETE_SERVICE, as far as it is about money -----------------------------*)

LoadStarted(p) ==
  /\ Begins(p) /\ ~booking.completed
  /\ Spawn(p, [Idle EXCEPT !.pc = "claim", !.pay = booking.pay])
  /\ UNCHANGED <<method, free, docs, payouts, gateway, history>>

\* findOneAndUpdate on the status; what follows goes by the loaded payment.
Complete(p) ==
  /\ At(p, "claim")
  /\ booking' = [booking EXCEPT !.completed = TRUE]
  /\ IF booking.completed THEN Finish(p) /\ UNCHANGED history
     ELSE /\ CASE proc[p].pay = "PAY_ON_SERVICE" -> Forget(p, "savePending")
               [] proc[p].pay = "PAID" -> Forget(p, "try")
               [] OTHER -> Finish(p)
          /\ history' = [history EXCEPT !.due =
               @ \/ (proc[p].pay = "PAID" /\ booking.pay = "PAID")]
  /\ UNCHANGED <<method, free, payment, settlement, payouts, gateway>>

(* provider-settlement.service.ts -------------------------------------------*)

TryBooking(p) ==
  /\ At(p, "try")
  /\ IF booking.completed /\ booking.pay = "PAID" THEN Goto(p, "tryPayment") ELSE Finish(p)
  /\ UNCHANGED <<method, free, docs, payouts, gateway, history>>

\* Mutant: the booking's payment method decides.
ChannelOfMethod == IF method = "ONLINE" THEN "ONLINE" ELSE "CASH"
\* With neither, the method is PAY_ON_SERVICE.
resolvePaymentChannel ==
  IF payment.conf = "cash" \/ ~payment.gateway THEN "CASH" ELSE "ONLINE"

TryPayment(p) ==
  /\ At(p, "tryPayment")
  /\ proc' = [proc EXCEPT ![p].pc = "tryCreate",
        ![p].kind = IF resolvePaymentChannel = "CASH" THEN "COMMISSION" ELSE "PAYOUT"]
  /\ UNCHANGED <<method, free, docs, payouts, gateway, history>>

\* bookingId is unique: the second one finds the first.
TryCreate(p) ==
  /\ At(p, "tryCreate")
  /\ settlement' = IF settlement.kind = "NONE" THEN [settlement EXCEPT !.kind = proc[p].kind]
                   ELSE settlement
  /\ Finish(p)
  /\ UNCHANGED <<method, free, booking, payment, payouts, gateway, history>>

\* settleProviderRecord.
LoadPending(p) ==
  /\ Begins(p) /\ settlement.kind # "NONE" /\ ~settlement.settled
  /\ Spawn(p, [Idle EXCEPT !.pc = "settle", !.kind = settlement.kind])
  /\ UNCHANGED <<method, free, docs, payouts, gateway, history>>

SettleSave(p) ==
  /\ At(p, "settle")
  /\ settlement' = [settlement EXCEPT !.settled = TRUE]
  /\ IF proc[p].kind = "PAYOUT" THEN Goto(p, "payout") ELSE Finish(p)
  /\ UNCHANGED <<method, free, booking, payment, payouts, gateway, history>>

\* Mutant: every call posts.
PostAnyway(p) ==
  /\ At(p, "payout")
  /\ payouts' = payouts + 1
  /\ Finish(p)
  /\ UNCHANGED <<method, free, docs, gateway, history>>

\* createFinancialEvent: the idempotency key is looked up, and unique.
Payout(p) ==
  /\ At(p, "payout")
  /\ payouts' = IF payouts = 0 THEN 1 ELSE payouts
  /\ Finish(p)
  /\ UNCHANGED <<method, free, docs, gateway, history>>

(* Failures -----------------------------------------------------------------*)

\* A call that a handler awaits throws, or the process ends.
Stops(p) ==
  /\ ~Begins(p)
  /\ history' = [history EXCEPT !.stopped = TRUE]
  /\ Finish(p)
  /\ UNCHANGED <<method, free, docs, payouts, gateway>>

Begin(p) ==
  \/ \E what \in (Confirmation \cup {"invalid"}) : LoadUnpaid(p, what)
  \/ Webhook(p) \/ LoadStarted(p) \/ LoadPending(p)
Pay(p) ==
  \/ LoadPayment(p) \/ LoadBooking(p) \/ SaveOrder(p) \/ SavePending(p)
  \/ FailPayment(p) \/ FailBooking(p) \/ PayPayment(p) \/ PayBooking(p) \/ Complete(p)
Settle(p) ==
  \/ TryBooking(p) \/ TryPayment(p) \/ TryCreate(p) \/ SettleSave(p) \/ Payout(p)

Next ==
  \/ \E p \in Proc : Begin(p) \/ Pay(p) \/ Settle(p) \/ Stops(p)
  \/ Capture

Spec == Init /\ [][Next]_vars

-----------------------------------------------------------------------------
\* The documents, the gateway, the handlers and the history keep their types.
TypeOK ==
  /\ method \in {"ONLINE", "PAY_ON_SERVICE"} /\ free \in BOOLEAN
  /\ booking \in Bookings
  /\ payment \in Payments
  /\ settlement \in Settlements
  /\ payouts \in Nat
  /\ orders \in 0..MaxOrders
  /\ captured \subseteq 1..orders
  /\ proc \in [Proc -> Procs]
  /\ history \in Histories

\* Whatever handlers overlap: the platform owes the provider a payout only of a
\* booking that was confirmed otherwise than in cash, and asks a commission only of
\* one that was confirmed in cash or waived. It says nothing of the money itself:
\* the dev flag, or a signature of another payment, confirms one as well. The
\* exception is an initiateBookingPayment that saved the metadata it had loaded
\* before the confirmation.
KindFitsConfirmation ==
  /\ settlement.kind = "PAYOUT" => history.confirmed \ {"cash"} # {} \/ history.lost
  /\ settlement.kind = "COMMISSION" => history.confirmed \cap {"cash", "waived"} # {}

\* Two admins, or one after an exception, settle a record: one payout at most is
\* posted, and of a record that is a payout and settled.
PaidOutOnce ==
  /\ payouts <= 1
  /\ payouts = 1 => settlement = [kind |-> "PAYOUT", settled |-> TRUE]

\* A booking that was completed first and paid then, or was known as paid when
\* it was completed, has its settlement, or a handler is about to create it;
\* unless a stale save took the payment back or a handler was cut off.
DueIsSettled ==
  history.due => \/ settlement.kind # "NONE" \/ history.stopped
                 \/ \E p \in Proc : proc[p].pc \in {"try", "tryPayment", "tryCreate"}
=============================================================================
