--------------------- MODULE PaymentSettlement_proofs ---------------------
(***************************************************************************)
(* Type correctness of PaymentSettlement, and its three invariants, for    *)
(* any number of handlers and orders: the kind of a settlement fits a      *)
(* confirmation, a payout is posted once, and what is due is settled.      *)
(***************************************************************************)
EXTENDS PaymentSettlement, TLAPS

\* The payment was confirmed, one way or another.
Confirmed == history.confirmed # {}

\* A kind of settlement that one of the confirmations asks for.
Fits(kind) ==
  /\ kind = "PAYOUT" => history.confirmed \ {"cash"} # {} \/ history.lost
  /\ kind = "COMMISSION" => history.confirmed \cap {"cash", "waived"} # {}

\* Paid means confirmed: in the booking, and in what a handler loaded or is about
\* to save.
PaidIsConfirmed ==
  /\ booking.pay = "PAID" => Confirmed
  /\ \A p \in Proc : proc[p].pay = "PAID" => Confirmed
  /\ \A p \in Proc : proc[p].pc \in {"loadBooking", "payPayment"} =>
       proc[p].what \in {"cash", "online", "waived"}
  /\ \A p \in Proc : proc[p].pc \in {"payBooking", "try", "tryPayment"} => Confirmed

\* The payment document knows of an online confirmation and, when there is no
\* other, of cash, unless a stale save dropped it.
ConfirmationKnown ==
  /\ payment.conf = "cash" => "cash" \in history.confirmed
  /\ \A p \in Proc : proc[p].doc.conf = "cash" => "cash" \in history.confirmed
  /\ "online" \in history.confirmed => payment.gateway
  /\ history.confirmed = {"cash"} => payment.conf = "cash" \/ history.lost
  /\ history.confirmed \subseteq {"cash", "online", "waived"}

\* The kind of the settlement that is about to be created.
KindDue == \A p \in Proc : proc[p].pc = "tryCreate" => Fits(proc[p].kind)

MoneyInv == PaidIsConfirmed /\ ConfirmationKnown /\ KindDue /\ KindFitsConfirmation

\* A handler that settles has the kind of the record; one that posts a payout
\* has saved the record of one.
KindLoaded ==
  /\ \A p \in Proc : proc[p].pc = "settle" => settlement.kind = proc[p].kind
  /\ \A p \in Proc : proc[p].pc = "payout" =>
       settlement = [kind |-> "PAYOUT", settled |-> TRUE]

\* What is due is about a booking that is completed and paid.
DueIsPaid == history.due => booking.completed /\ booking.pay = "PAID"

IInv == TypeOK /\ MoneyInv /\ KindLoaded /\ PaidOutOnce /\ DueIsPaid /\ DueIsSettled

LEMMA IdleType ==
  /\ NoDoc \in Loads /\ Idle \in Procs /\ Idle.pc = "idle" /\ Idle.doc = NoDoc
  /\ NoDoc.conf = "none" /\ Idle.what = "none" /\ Idle.pay = "PENDING"
<1>1. NoDoc \in Loads /\ NoDoc.conf = "none"
  BY DEF NoDoc, Loads, PayStatus, Confirmation
<1>2. QED BY <1>1 DEF Idle, Procs, Pc, PayStatus, Confirmation

LEMMA InitIInv == Init => IInv
<1> SUFFICES ASSUME Init PROVE IInv
  OBVIOUS
<1>1. booking \in Bookings /\ booking.pay # "PAID" /\ booking.pay \in PayStatus
  BY DEF Init, Bookings, PayStatus
<1>2. orders \in {0, 1} /\ orders \in {None} \cup Order /\ orders \in 0..MaxOrders
  BY OrdersAssumption DEF Init, Order, None
<1>3. PICK online \in BOOLEAN :
        payment = [status |-> booking.pay, order |-> orders, conf |-> "none", gateway |-> online]
  BY DEF Init
<1>4. payment \in Payments /\ payment.conf = "none"
  BY <1>1, <1>2, <1>3 DEF Payments, Confirmation
<1>5. captured \subseteq 1..orders BY DEF Init
<1>6. settlement \in Settlements /\ settlement.kind = "NONE" /\ payouts = 0
  BY DEF Init, Settlements
<1>7. proc \in [Proc -> Procs] /\ \A p \in Proc : proc[p] = Idle BY IdleType DEF Init
<1>8. history \in Histories /\ history.confirmed = {} /\ ~history.due BY DEF Init, Histories
<1>9. method \in {"ONLINE", "PAY_ON_SERVICE"} /\ free \in BOOLEAN BY DEF Init
<1>10. TypeOK BY <1>1, <1>2, <1>4, <1>5, <1>6, <1>7, <1>8, <1>9 DEF TypeOK
<1>11. MoneyInv
  BY <1>1, <1>4, <1>6, <1>7, <1>8, IdleType
     DEF MoneyInv, PaidIsConfirmed, ConfirmationKnown, KindDue, KindFitsConfirmation
<1>12. KindLoaded /\ PaidOutOnce /\ DueIsPaid /\ DueIsSettled
  BY <1>6, <1>7, <1>8, IdleType DEF KindLoaded, PaidOutOnce, DueIsPaid, DueIsSettled
<1>13. QED BY <1>10, <1>11, <1>12 DEF IInv

\* The ways a handler moves keep its type, and the others where they are.
LEMMA Moves ==
  ASSUME TypeOK, NEW p \in Proc, NEW w \in Procs, proc' = [proc EXCEPT ![p] = w]
  PROVE  proc' \in [Proc -> Procs] /\ proc'[p] = w
         /\ \A q \in Proc \ {p} : proc'[q] = proc[q]
  BY DEF TypeOK

LEMMA GotoMoves ==
  ASSUME TypeOK, NEW p \in Proc, NEW pc \in Pc, Goto(p, pc)
  PROVE  /\ proc' \in [Proc -> Procs] /\ \A q \in Proc \ {p} : proc'[q] = proc[q]
         /\ proc'[p].pc = pc /\ proc'[p].pay = proc[p].pay /\ proc'[p].doc = proc[p].doc
         /\ proc'[p].what = proc[p].what /\ proc'[p].kind = proc[p].kind
<1> DEFINE w == [proc[p] EXCEPT !.pc = pc]
<1>1. proc[p] \in Procs BY DEF TypeOK
<1>2. w \in Procs BY <1>1 DEF Procs
<1>3. proc' = [proc EXCEPT ![p] = w] BY DEF Goto
<1>4. QED BY <1>1, <1>2, <1>3, Moves DEF Procs

LEMMA ForgetMoves ==
  ASSUME TypeOK, NEW p \in Proc, NEW pc \in Pc, Forget(p, pc)
  PROVE  /\ proc' \in [Proc -> Procs] /\ \A q \in Proc \ {p} : proc'[q] = proc[q]
         /\ proc'[p].pc = pc /\ proc'[p].pay = "PENDING" /\ proc'[p].doc.conf = "none"
         /\ proc'[p].what = "none"
<1> DEFINE w == [Idle EXCEPT !.pc = pc]
<1>1. w \in Procs BY IdleType DEF Procs
<1>2. w.pc = pc /\ w.pay = "PENDING" /\ w.doc.conf = "none" /\ w.what = "none"
  BY IdleType DEF Procs
<1>3. proc' = [proc EXCEPT ![p] = w] BY DEF Forget
<1>4. QED BY <1>1, <1>2, <1>3, Moves

LEMMA KeepMoves ==
  ASSUME TypeOK, NEW p \in Proc, NEW pc \in Pc, Keep(p, pc)
  PROVE  /\ proc' \in [Proc -> Procs] /\ \A q \in Proc \ {p} : proc'[q] = proc[q]
         /\ proc'[p].pc = pc /\ proc'[p].pay = proc[p].pay /\ proc'[p].doc.conf = "none"
         /\ proc'[p].what = "none"
<1> DEFINE w == [Idle EXCEPT !.pc = pc, !.pay = proc[p].pay]
<1>1. proc[p] \in Procs BY DEF TypeOK
<1>2. w \in Procs BY <1>1, IdleType DEF Procs
<1>3. w.pc = pc /\ w.pay = proc[p].pay /\ w.doc.conf = "none" /\ w.what = "none"
  BY IdleType DEF Procs
<1>4. proc' = [proc EXCEPT ![p] = w] BY DEF Keep
<1>5. QED BY <1>2, <1>3, <1>4, Moves

LEMMA FinishMoves ==
  ASSUME TypeOK, NEW p \in Proc, Finish(p)
  PROVE  /\ proc' \in [Proc -> Procs] /\ \A q \in Proc \ {p} : proc'[q] = proc[q]
         /\ proc'[p].pc = "idle" /\ proc'[p].pay = "PENDING" /\ proc'[p].doc.conf = "none"
         /\ proc'[p].what = "none"
  BY IdleType, Moves DEF Finish

LEMMA Typed ==
  ASSUME TypeOK
  PROVE  /\ booking \in Bookings /\ payment \in Payments /\ settlement \in Settlements
         /\ history \in Histories /\ orders \in 0..MaxOrders /\ payouts \in Nat
         /\ proc \in [Proc -> Procs] /\ captured \subseteq 1..orders
         /\ booking.pay \in PayStatus /\ booking.completed \in BOOLEAN
         /\ payment.status \in PayStatus /\ payment.conf \in Confirmation
         /\ payment.order \in {None} \cup Order /\ payment.gateway \in BOOLEAN
         /\ Load \in Loads /\ Load.conf = payment.conf
         /\ \A p \in Proc : /\ proc[p] \in Procs /\ proc[p].doc \in Loads
                            /\ proc[p].doc.conf \in Confirmation
                            /\ proc[p].pay \in PayStatus
                            /\ proc[p].kind \in {"PAYOUT", "COMMISSION"}
  BY DEF TypeOK, Bookings, Payments, Settlements, Procs, Loads, Load

-----------------------------------------------------------------------------
\* Every step keeps the documents, the handlers and the history in their types.
LEMMA BeginTyped == ASSUME TypeOK, NEW p \in Proc, Begin(p) PROVE TypeOK'
<1> USE Typed, IdleType
<1>1. ASSUME NEW what \in (Confirmation \cup {"invalid"}), LoadUnpaid(p, what)
      PROVE  TypeOK'
  <2> DEFINE w == [Idle EXCEPT !.pc = "loadPayment", !.pay = booking.pay, !.what = what]
  <2>1. w \in Procs BY DEF Procs, Pc, Confirmation
  <2>2. QED BY <1>1, <2>1, Moves DEF LoadUnpaid, Spawn, TypeOK, docs, gateway
<1>2. CASE Webhook(p)
  <2> DEFINE w == [Idle EXCEPT !.pc = "loadBooking", !.doc = Load, !.what = "online"]
  <2>1. w \in Procs BY DEF Procs, Pc, Confirmation
  <2>2. QED BY <1>2, <2>1, Moves DEF Webhook, Spawn, TypeOK, docs, gateway
<1>3. CASE LoadStarted(p)
  <2> DEFINE w == [Idle EXCEPT !.pc = "claim", !.pay = booking.pay]
  <2>1. w \in Procs BY DEF Procs, Pc
  <2>2. QED BY <1>3, <2>1, Moves DEF LoadStarted, Spawn, TypeOK, docs, gateway
<1>4. CASE LoadPending(p)
  <2> DEFINE w == [Idle EXCEPT !.pc = "settle", !.kind = settlement.kind]
  <2>1. settlement.kind \in {"PAYOUT", "COMMISSION"} BY <1>4 DEF LoadPending, Settlements
  <2>2. w \in Procs BY <2>1 DEF Procs, Pc
  <2>3. QED BY <1>4, <2>2, Moves DEF LoadPending, Spawn, TypeOK, docs, gateway
<1>5. QED BY <1>1, <1>2, <1>3, <1>4 DEF Begin

LEMMA PayTyped == ASSUME TypeOK, PaidIsConfirmed, NEW p \in Proc, Pay(p) PROVE TypeOK'
<1> USE Typed, IdleType
<1>1. CASE LoadPayment(p)
  <2> DEFINE next == [none |-> "saveOrder", invalid |-> "failPayment",
                      online |-> "payPayment", cash |-> "payPayment",
                      waived |-> "payPayment"]
             w == [proc[p] EXCEPT !.pc = next[proc[p].what], !.doc = Load]
  <2>1. next[proc[p].what] \in Pc BY DEF Procs, Pc, Confirmation
  <2>2. w \in Procs BY <2>1 DEF Procs
  <2>3. proc' = [proc EXCEPT ![p] = w] BY <1>1 DEF LoadPayment
  <2>4. QED BY <1>1, <2>2, <2>3, Moves DEF LoadPayment, TypeOK, docs, gateway
<1>2. CASE LoadBooking(p)
  <2> DEFINE w == [proc[p] EXCEPT !.pc = "payPayment", !.pay = booking.pay]
  <2>1. w \in Procs BY DEF Procs, Pc
  <2>2. proc' = [proc EXCEPT ![p] = w] BY <1>2 DEF LoadBooking
  <2>3. QED BY <1>2, <2>1, <2>2, Moves DEF LoadBooking, TypeOK, docs, gateway
<1>3. CASE SaveOrder(p)
  <2>1. orders + 1 \in Order /\ orders' \in 0..MaxOrders /\ 1..orders \subseteq 1..orders'
    BY <1>3, OrdersAssumption DEF SaveOrder, Order
  <2>2. payment' \in Payments BY <1>3, <2>1 DEF SaveOrder, Payments, PayStatus
  <2>3. (history.lost \/ payment.conf # proc[p].doc.conf) \in BOOLEAN BY Zenon
  <2>4. history' \in Histories BY <1>3, <2>3 DEF SaveOrder, Histories
  <2>5. Forget(p, "savePending") \/ Finish(p) BY <1>3 DEF SaveOrder
  <2>6. proc' \in [Proc -> Procs] BY <2>5, ForgetMoves, FinishMoves DEF Pc
  <2>7. QED BY <1>3, <2>1, <2>2, <2>4, <2>6 DEF SaveOrder, TypeOK
<1>4. CASE SavePending(p)
  BY <1>4, FinishMoves DEF SavePending, TypeOK, Bookings, PayStatus, Histories, gateway
<1>5. CASE FailPayment(p)
  <2>1. payment' \in Payments BY <1>5 DEF FailPayment, Payments, PayStatus
  <2>2. QED BY <1>5, <2>1, KeepMoves DEF FailPayment, TypeOK, Pc, gateway
<1>6. CASE FailBooking(p)
  <2>1. booking' \in Bookings BY <1>6 DEF FailBooking, Bookings, PayStatus
  <2>2. (history.due /\ booking'.pay = "PAID") \in BOOLEAN BY DEF Histories
  <2>3. history' \in Histories BY <1>6, <2>2 DEF FailBooking, Histories
  <2>4. QED BY <1>6, <2>1, <2>3, FinishMoves DEF FailBooking, TypeOK, gateway
<1>7. CASE PayPayment(p)
  <2>1. proc[p].what \in Confirmation
    BY <1>7 DEF PayPayment, At, PaidIsConfirmed, Confirmation
  <2>2. payment' \in Payments BY <1>7, <2>1 DEF PayPayment, Payments, PayStatus
  <2>3. history.confirmed \cup {proc[p].what} \in SUBSET Confirmation
    BY <2>1 DEF Histories
  <2>4. history' \in Histories BY <1>7, <2>3 DEF PayPayment, Histories
  <2>5. QED BY <1>7, <2>2, <2>4, KeepMoves DEF PayPayment, TypeOK, Pc, gateway
<1>8. CASE PayBooking(p)
  <2>1. booking' \in Bookings BY <1>8 DEF PayBooking, Bookings, PayStatus
  <2>2. (history.due \/ (booking'.pay = "PAID" /\ booking.completed)) \in BOOLEAN BY Zenon
  <2>3. history' \in Histories BY <1>8, <2>2 DEF PayBooking, Histories
  <2>4. QED BY <1>8, <2>1, <2>3, ForgetMoves DEF PayBooking, TypeOK, Pc, gateway
<1>9. CASE Complete(p)
  <2>1. booking' \in Bookings BY <1>9 DEF Complete, Bookings
  <2>2. (history.due \/ (proc[p].pay = "PAID" /\ booking.pay = "PAID")) \in BOOLEAN BY Zenon
  <2>3. history' \in Histories BY <1>9, <2>2 DEF Complete, Histories
  <2>4. Forget(p, "savePending") \/ Forget(p, "try") \/ Finish(p) BY <1>9 DEF Complete
  <2>5. proc' \in [Proc -> Procs] BY <2>4, ForgetMoves, FinishMoves DEF Pc
  <2>6. QED BY <1>9, <2>1, <2>3, <2>5 DEF Complete, TypeOK, gateway
<1>10. QED BY <1>1, <1>2, <1>3, <1>4, <1>5, <1>6, <1>7, <1>8, <1>9 DEF Pay

LEMMA SettleTyped == ASSUME TypeOK, NEW p \in Proc, Settle(p) \/ Stops(p) PROVE TypeOK'
<1> USE Typed, IdleType DEF docs, gateway
<1>1. CASE TryBooking(p)
  <2>1. Goto(p, "tryPayment") \/ Finish(p) BY <1>1 DEF TryBooking
  <2>2. proc' \in [Proc -> Procs] BY <2>1, GotoMoves, FinishMoves DEF Pc
  <2>3. QED BY <1>1, <2>2 DEF TryBooking, TypeOK
<1>2. CASE TryPayment(p)
  <2> DEFINE w == [proc[p] EXCEPT !.pc = "tryCreate",
        !.kind = IF resolvePaymentChannel = "CASH" THEN "COMMISSION" ELSE "PAYOUT"]
  <2>1. w \in Procs BY DEF Procs, Pc
  <2>2. proc' = [proc EXCEPT ![p] = w] BY <1>2 DEF TryPayment
  <2>3. QED BY <1>2, <2>1, <2>2, Moves DEF TryPayment, TypeOK
<1>3. CASE TryCreate(p)
  <2>1. settlement' \in Settlements BY <1>3 DEF TryCreate, Settlements
  <2>2. QED BY <1>3, <2>1, FinishMoves DEF TryCreate, TypeOK
<1>4. CASE SettleSave(p)
  <2>1. settlement' \in Settlements BY <1>4 DEF SettleSave, Settlements
  <2>2. Goto(p, "payout") \/ Finish(p) BY <1>4 DEF SettleSave
  <2>3. proc' \in [Proc -> Procs] BY <2>2, GotoMoves, FinishMoves DEF Pc
  <2>4. QED BY <1>4, <2>1, <2>3 DEF SettleSave, TypeOK
<1>5. CASE Payout(p) BY <1>5, FinishMoves DEF Payout, TypeOK
<1>6. CASE Stops(p)
  <2>1. history' \in Histories BY <1>6 DEF Stops, Histories
  <2>2. QED BY <1>6, <2>1, FinishMoves DEF Stops, TypeOK
<1>7. QED BY <1>1, <1>2, <1>3, <1>4, <1>5, <1>6 DEF Settle

LEMMA TypeStep == TypeOK /\ PaidIsConfirmed /\ [Next]_vars => TypeOK'
<1> SUFFICES ASSUME TypeOK, PaidIsConfirmed, [Next]_vars PROVE TypeOK'
  OBVIOUS
<1>1. ASSUME NEW p \in Proc, Begin(p) PROVE TypeOK' BY <1>1, BeginTyped
<1>2. ASSUME NEW p \in Proc, Pay(p) PROVE TypeOK' BY <1>2, PayTyped
<1>3. ASSUME NEW p \in Proc, Settle(p) \/ Stops(p) PROVE TypeOK' BY <1>3, SettleTyped
<1>4. CASE Capture BY <1>4 DEF Capture, TypeOK, docs
<1>5. CASE UNCHANGED vars BY <1>5 DEF vars, docs, gateway, TypeOK
<1>6. QED BY <1>1, <1>2, <1>3, <1>4, <1>5 DEF Next

-----------------------------------------------------------------------------
(* The money.                                                                 *)

\* A step whose handler knows of a payment only what was confirmed.
LEMMA MoneyOwn ==
  ASSUME TypeOK, TypeOK', MoneyInv, NEW p \in Proc,
         \A q \in Proc \ {p} : proc'[q] = proc[q],
         history.confirmed \subseteq history'.confirmed,
         history.lost => history'.lost,
         booking'.pay = "PAID" => booking.pay = "PAID" \/ Confirmed',
         ConfirmationKnown',
         proc'[p].pay = "PAID" => Confirmed',
         proc'[p].pc \in {"loadBooking", "payPayment"} =>
           proc'[p].what \in {"cash", "online", "waived"},
         proc'[p].pc \in {"payBooking", "try", "tryPayment"} => Confirmed',
         proc'[p].pc = "tryCreate" =>
           /\ proc'[p].kind = "PAYOUT" => history'.confirmed \ {"cash"} # {} \/ history'.lost
           /\ proc'[p].kind = "COMMISSION" => history'.confirmed \cap {"cash", "waived"} # {},
         settlement'.kind = settlement.kind \/ KindFitsConfirmation'
  PROVE  MoneyInv'
<1> USE DEF MoneyInv, Confirmed, Fits
<1>1. PaidIsConfirmed' BY DEF PaidIsConfirmed
<1>2. KindDue' BY DEF KindDue
<1>3. KindFitsConfirmation' BY DEF KindFitsConfirmation
<1>4. QED BY <1>1, <1>2, <1>3

\* A step that leaves what was confirmed and what the payment knows of it.
LEMMA KnownStays ==
  ASSUME MoneyInv, NEW p \in Proc, \A q \in Proc \ {p} : proc'[q] = proc[q],
         history'.confirmed = history.confirmed, history'.lost = history.lost,
         payment'.conf = payment.conf, payment'.gateway = payment.gateway,
         proc'[p].doc.conf \in {"none", payment.conf, proc[p].doc.conf}
  PROVE  ConfirmationKnown'
  BY DEF MoneyInv, ConfirmationKnown

LEMMA MoneyBegin ==
  ASSUME TypeOK, TypeOK', MoneyInv, NEW p \in Proc, Begin(p) PROVE MoneyInv'
<1> USE Typed, IdleType DEF docs, gateway
<1>1. UNCHANGED <<docs, history>>
  BY DEF Begin, LoadUnpaid, Webhook, LoadStarted, LoadPending
<1>2. booking.pay = "PAID" => Confirmed' BY <1>1 DEF MoneyInv, PaidIsConfirmed, Confirmed
<1>3. ASSUME NEW w \in Procs, proc' = [proc EXCEPT ![p] = w],
             w.pc \in {"loadPayment", "loadBooking", "claim", "settle"},
             w.pay \in {"PENDING", booking.pay}, w.doc.conf \in {"none", payment.conf},
             w.pc = "loadBooking" => w.what = "online"
      PROVE  MoneyInv'
  <2>1. proc'[p] = w /\ \A q \in Proc \ {p} : proc'[q] = proc[q] BY <1>3, Moves
  <2>2. ConfirmationKnown' BY <1>1, <1>3, <2>1, KnownStays
  <2>3. proc'[p].pay = "PAID" => Confirmed' BY <1>2, <1>3, <2>1
  <2>4. QED BY <1>1, <1>3, <2>1, <2>2, <2>3, MoneyOwn
<1>4. ASSUME NEW what \in (Confirmation \cup {"invalid"}), LoadUnpaid(p, what) PROVE MoneyInv'
  <2> DEFINE w == [Idle EXCEPT !.pc = "loadPayment", !.pay = booking.pay, !.what = what]
  <2>1. w \in Procs /\ w.pc = "loadPayment" /\ w.pay = booking.pay /\ w.doc.conf = "none"
    BY DEF Procs, Pc, Confirmation
  <2>2. proc' = [proc EXCEPT ![p] = w] BY <1>4 DEF LoadUnpaid, Spawn
  <2>3. QED BY <1>3, <2>1, <2>2
<1>5. CASE Webhook(p)
  <2> DEFINE w == [Idle EXCEPT !.pc = "loadBooking", !.doc = Load, !.what = "online"]
  <2>1. w \in Procs /\ w.pc = "loadBooking" /\ w.pay = "PENDING" /\ w.what = "online"
        /\ w.doc.conf = payment.conf
    BY DEF Procs, Pc, Confirmation
  <2>2. proc' = [proc EXCEPT ![p] = w] BY <1>5 DEF Webhook, Spawn
  <2>3. QED BY <1>3, <2>1, <2>2
<1>6. CASE LoadStarted(p)
  <2> DEFINE w == [Idle EXCEPT !.pc = "claim", !.pay = booking.pay]
  <2>1. w \in Procs /\ w.pc = "claim" /\ w.pay = booking.pay /\ w.doc.conf = "none"
    BY DEF Procs, Pc
  <2>2. proc' = [proc EXCEPT ![p] = w] BY <1>6 DEF LoadStarted, Spawn
  <2>3. QED BY <1>3, <2>1, <2>2
<1>7. CASE LoadPending(p)
  <2> DEFINE w == [Idle EXCEPT !.pc = "settle", !.kind = settlement.kind]
  <2>1. settlement.kind \in {"PAYOUT", "COMMISSION"} BY <1>7 DEF LoadPending, Settlements
  <2>2. w \in Procs /\ w.pc = "settle" /\ w.pay = "PENDING" /\ w.doc.conf = "none"
    BY <2>1 DEF Procs, Pc
  <2>3. proc' = [proc EXCEPT ![p] = w] BY <1>7 DEF LoadPending, Spawn
  <2>4. QED BY <1>3, <2>2, <2>3
<1>8. QED BY <1>4, <1>5, <1>6, <1>7 DEF Begin

\* A handler that has nothing left to remember.
LEMMA MoneyEnds ==
  ASSUME TypeOK, TypeOK', MoneyInv, NEW p \in Proc,
         Finish(p) \/ Forget(p, "savePending") \/ (Forget(p, "try") /\ Confirmed'),
         history'.confirmed = history.confirmed, history'.lost = history.lost,
         payment'.conf = payment.conf, payment'.gateway = payment.gateway,
         booking'.pay = "PAID" => booking.pay = "PAID" \/ Confirmed',
         settlement'.kind = settlement.kind \/ KindFitsConfirmation'
  PROVE  MoneyInv'
<1>1. /\ \A q \in Proc \ {p} : proc'[q] = proc[q]
      /\ proc'[p].pay = "PENDING" /\ proc'[p].doc.conf = "none" /\ proc'[p].what = "none"
      /\ proc'[p].pc \in {"idle", "savePending", "try"}
      /\ proc'[p].pc = "try" => Confirmed'
  BY FinishMoves, ForgetMoves DEF Pc
<1>2. ConfirmationKnown' BY <1>1, KnownStays
<1>3. QED BY <1>1, <1>2, MoneyOwn

LEMMA MoneyPay ==
  ASSUME TypeOK, TypeOK', MoneyInv, NEW p \in Proc, Pay(p) PROVE MoneyInv'
<1> USE Typed DEF gateway
<1>1. /\ booking.pay = "PAID" => Confirmed
      /\ proc[p].pay = "PAID" => Confirmed
      /\ proc[p].pc \in {"loadBooking", "payPayment"} =>
           proc[p].what \in {"cash", "online", "waived"}
      /\ proc[p].pc = "payBooking" => Confirmed
  BY DEF MoneyInv, PaidIsConfirmed
<1>2. CASE LoadPayment(p)
  <2> DEFINE next == [none |-> "saveOrder", invalid |-> "failPayment",
                      online |-> "payPayment", cash |-> "payPayment",
                      waived |-> "payPayment"]
             w == [proc[p] EXCEPT !.pc = next[proc[p].what], !.doc = Load]
  <2>1. /\ w.pc = next[proc[p].what] /\ w.pay = proc[p].pay /\ w.what = proc[p].what
        /\ w.doc = Load
    BY DEF Procs
  <2>2. w.pc \in {"saveOrder", "failPayment", "payPayment"}
        /\ (w.pc = "payPayment" => w.what \in {"cash", "online", "waived"})
    BY <2>1 DEF Procs, Confirmation
  <2>3. proc'[p] = w /\ \A q \in Proc \ {p} : proc'[q] = proc[q]
    BY <1>2 DEF LoadPayment
  <2>4. UNCHANGED <<booking, payment, settlement, history>> BY <1>2 DEF LoadPayment, docs
  <2>5. ConfirmationKnown'
    <3>1. proc'[p].doc.conf = payment.conf BY <2>1, <2>3
    <3>2. /\ history'.confirmed = history.confirmed /\ history'.lost = history.lost
          /\ payment'.conf = payment.conf /\ payment'.gateway = payment.gateway
      BY <2>4
    <3>3. QED BY ONLY MoneyInv, <2>3, <3>1, <3>2, KnownStays
  <2>6. /\ proc'[p].pay = "PAID" => Confirmed'
        /\ proc'[p].pc \in {"saveOrder", "failPayment", "payPayment"}
        /\ proc'[p].pc = "payPayment" => proc'[p].what \in {"cash", "online", "waived"}
    BY <1>1, <2>1, <2>2, <2>3, <2>4 DEF Confirmed
  <2>7. QED BY <1>1, <2>3, <2>4, <2>5, <2>6, MoneyOwn
<1>3. CASE LoadBooking(p)
  <2> DEFINE w == [proc[p] EXCEPT !.pc = "payPayment", !.pay = booking.pay]
  <2>1. /\ w.pc = "payPayment" /\ w.pay = booking.pay /\ w.what = proc[p].what
        /\ w.doc = proc[p].doc
    BY DEF Procs
  <2>2. proc'[p] = w /\ \A q \in Proc \ {p} : proc'[q] = proc[q]
    BY <1>3 DEF LoadBooking
  <2>3. UNCHANGED <<booking, payment, settlement, history>> /\ proc[p].pc = "loadBooking"
    BY <1>3 DEF LoadBooking, docs, At
  <2>4. ConfirmationKnown' BY <2>1, <2>2, <2>3, KnownStays
  <2>5. /\ proc'[p].pay = "PAID" => Confirmed'
        /\ proc'[p].pc = "payPayment" /\ proc'[p].what \in {"cash", "online", "waived"}
    BY <1>1, <2>1, <2>2, <2>3 DEF Confirmed
  <2>6. QED BY <1>1, <2>2, <2>3, <2>4, <2>5, MoneyOwn
<1>4. CASE SaveOrder(p)
  <2>1. payment'.conf = proc[p].doc.conf /\ payment'.gateway /\ UNCHANGED <<booking, settlement>>
    BY <1>4 DEF SaveOrder
  <2>2. history'.lost = (history.lost \/ payment.conf # proc[p].doc.conf)
        /\ history'.confirmed = history.confirmed
    BY <1>4 DEF SaveOrder, Histories
  <2>3. Forget(p, "savePending") \/ Finish(p) BY <1>4 DEF SaveOrder
  <2>4. /\ \A q \in Proc \ {p} : proc'[q] = proc[q]
        /\ proc'[p].pay = "PENDING" /\ proc'[p].doc.conf = "none" /\ proc'[p].what = "none"
        /\ proc'[p].pc \in {"idle", "savePending"}
    BY <2>3, FinishMoves, ForgetMoves DEF Pc
  <2>5. ConfirmationKnown' BY <2>1, <2>2, <2>4 DEF MoneyInv, ConfirmationKnown
  <2>6. QED BY <1>1, <2>1, <2>2, <2>4, <2>5, MoneyOwn
<1>5. CASE SavePending(p)
  <2>1. booking'.pay = "PENDING" /\ history'.confirmed = history.confirmed
        /\ history'.lost = history.lost
    BY <1>5 DEF SavePending, Bookings, Histories
  <2>2. QED BY <1>5, <2>1, MoneyEnds DEF SavePending
<1>6. CASE FailPayment(p)
  <2>1. payment'.conf = payment.conf /\ payment'.gateway = payment.gateway
    BY <1>6 DEF FailPayment, Payments
  <2>2. UNCHANGED <<booking, settlement, history>> BY <1>6 DEF FailPayment
  <2>3. Keep(p, "failBooking") BY <1>6 DEF FailPayment
  <2>4. /\ \A q \in Proc \ {p} : proc'[q] = proc[q]
        /\ proc'[p].pc = "failBooking" /\ proc'[p].pay = proc[p].pay
        /\ proc'[p].doc.conf = "none"
    BY <2>3, KeepMoves DEF Pc
  <2>5. ConfirmationKnown' BY <2>1, <2>2, <2>4, KnownStays
  <2>6. proc'[p].pay = "PAID" => Confirmed' BY <1>1, <2>2, <2>4 DEF Confirmed
  <2>7. QED BY <2>2, <2>4, <2>5, <2>6, MoneyOwn
<1>7. CASE FailBooking(p)
  <2>1. /\ booking'.pay = "PAID" => booking.pay = "PAID"
        /\ history'.confirmed = history.confirmed /\ history'.lost = history.lost
    BY <1>7 DEF FailBooking, Bookings, Histories
  <2>2. QED BY <1>7, <2>1, MoneyEnds DEF FailBooking
<1>8. CASE PayPayment(p)
  <2>1. /\ payment'.conf = proc[p].what
        /\ payment'.gateway = (payment.gateway \/ proc[p].what = "online")
    BY <1>8 DEF PayPayment, Payments
  <2>2. history'.confirmed = history.confirmed \cup {proc[p].what}
        /\ history'.lost = history.lost
    BY <1>8 DEF PayPayment, Histories
  <2>3. UNCHANGED <<booking, settlement>> BY <1>8 DEF PayPayment
  <2>4. proc[p].what \in {"cash", "online", "waived"} BY <1>1, <1>8 DEF PayPayment, At
  <2>5. Confirmed' BY <2>2 DEF Confirmed
  <2>6. Keep(p, "payBooking") BY <1>8 DEF PayPayment
  <2>7. /\ \A q \in Proc \ {p} : proc'[q] = proc[q]
        /\ proc'[p].pc = "payBooking" /\ proc'[p].doc.conf = "none"
    BY <2>6, KeepMoves DEF Pc
  <2>8. ConfirmationKnown'
    <3>1. "online" \in history'.confirmed => payment'.gateway
      BY <2>1, <2>2 DEF MoneyInv, ConfirmationKnown
    <3>2. \A q \in Proc : proc'[q].doc.conf = "cash" => "cash" \in history'.confirmed
      BY <2>2, <2>7 DEF MoneyInv, ConfirmationKnown
    <3>3. history'.confirmed = {"cash"} => payment'.conf = "cash" BY <2>1, <2>2
    <3>4. payment'.conf = "cash" => "cash" \in history'.confirmed BY <2>1, <2>2
    <3>5. history'.confirmed \subseteq {"cash", "online", "waived"}
      BY <2>2, <2>4 DEF MoneyInv, ConfirmationKnown
    <3>6. QED BY <3>1, <3>2, <3>3, <3>4, <3>5 DEF ConfirmationKnown
  <2>9. QED BY <2>2, <2>3, <2>5, <2>7, <2>8, MoneyOwn
<1>9. CASE PayBooking(p)
  <2>1. history'.confirmed = history.confirmed /\ history'.lost = history.lost
    BY <1>9 DEF PayBooking, Histories
  <2>2. Confirmed' BY <1>1, <1>9, <2>1 DEF PayBooking, At, Confirmed
  <2>3. QED BY <1>9, <2>1, <2>2, MoneyEnds DEF PayBooking
<1>10. CASE Complete(p)
  <2>1. history'.confirmed = history.confirmed /\ history'.lost = history.lost
        /\ booking'.pay = booking.pay
    BY <1>10 DEF Complete, Histories, Bookings
  <2>2. UNCHANGED <<payment, settlement>> BY <1>10 DEF Complete
  <2>3. Finish(p) \/ Forget(p, "savePending") \/ (Forget(p, "try") /\ proc[p].pay = "PAID")
    BY <1>10 DEF Complete
  <2>4. proc[p].pay = "PAID" => Confirmed' BY <1>1, <2>1 DEF Confirmed
  <2>5. QED BY <2>1, <2>2, <2>3, <2>4, MoneyEnds
<1>11. QED BY <1>2, <1>3, <1>4, <1>5, <1>6, <1>7, <1>8, <1>9, <1>10 DEF Pay

\* The kind that resolvePaymentChannel gives a confirmed payment fits.
LEMMA ChannelFits ==
  ASSUME TypeOK, MoneyInv, Confirmed
  PROVE  /\ resolvePaymentChannel = "ONLINE" =>
              history.confirmed \ {"cash"} # {} \/ history.lost
         /\ resolvePaymentChannel = "CASH" => history.confirmed \cap {"cash", "waived"} # {}
<1>1. CASE resolvePaymentChannel = "ONLINE"
  <2>1. payment.conf # "cash" BY <1>1 DEF resolvePaymentChannel
  <2>2. history.confirmed # {"cash"} \/ history.lost
    BY <2>1 DEF MoneyInv, ConfirmationKnown
  <2>3. QED BY <1>1, <2>2 DEF Confirmed
<1>2. CASE resolvePaymentChannel # "ONLINE"
  <2>1. payment.conf = "cash" \/ ~payment.gateway BY <1>2 DEF resolvePaymentChannel
  <2>2. "cash" \in history.confirmed \/ "online" \notin history.confirmed
    BY <2>1 DEF MoneyInv, ConfirmationKnown
  <2>3. history.confirmed \subseteq {"cash", "online", "waived"}
    BY DEF MoneyInv, ConfirmationKnown
  <2>4. QED BY <1>2, <2>2, <2>3 DEF Confirmed
<1>3. QED BY <1>1, <1>2

LEMMA MoneySettle ==
  ASSUME TypeOK, TypeOK', MoneyInv, NEW p \in Proc, Settle(p) \/ Stops(p) PROVE MoneyInv'
<1> USE Typed DEF gateway, docs
<1>1. /\ proc[p].pay = "PAID" => Confirmed
      /\ proc[p].pc \in {"try", "tryPayment"} => Confirmed
  BY DEF MoneyInv, PaidIsConfirmed
\* The handler goes on; what was confirmed is left.
<1>2. ASSUME NEW pc \in {"tryPayment", "payout"}, Goto(p, pc),
             UNCHANGED <<booking, payment, history>>, settlement'.kind = settlement.kind,
             pc = "tryPayment" => Confirmed
      PROVE  MoneyInv'
  <2>1. /\ \A q \in Proc \ {p} : proc'[q] = proc[q]
        /\ proc'[p].pc = pc /\ proc'[p].pay = proc[p].pay
        /\ proc'[p].doc = proc[p].doc
    BY <1>2, GotoMoves DEF Pc
  <2>2. ConfirmationKnown' BY <1>2, <2>1, KnownStays
  <2>3. Confirmed => Confirmed' BY <1>2 DEF Confirmed
  <2>4. QED BY <1>1, <1>2, <2>1, <2>2, <2>3, MoneyOwn
<1>3. CASE TryBooking(p)
  <2>1. UNCHANGED <<booking, payment, settlement, history>> /\ Confirmed
    BY <1>1, <1>3 DEF TryBooking, At
  <2>2. CASE Goto(p, "tryPayment") BY <1>2, <2>1, <2>2
  <2>3. CASE Finish(p) BY <2>1, <2>3, MoneyEnds
  <2>4. QED BY <1>3, <2>2, <2>3 DEF TryBooking
<1>4. CASE TryPayment(p)
  <2> DEFINE kind == IF resolvePaymentChannel = "CASH" THEN "COMMISSION" ELSE "PAYOUT"
             w == [proc[p] EXCEPT !.pc = "tryCreate", !.kind = kind]
  <2>1. /\ w.pc = "tryCreate" /\ w.pay = proc[p].pay /\ w.doc = proc[p].doc /\ w.kind = kind
    BY DEF Procs
  <2>2. proc'[p] = w /\ \A q \in Proc \ {p} : proc'[q] = proc[q]
    BY <1>4 DEF TryPayment
  <2>3. UNCHANGED <<booking, payment, settlement, history>> /\ Confirmed
    BY <1>1, <1>4 DEF TryPayment, At
  <2>4. /\ kind = "PAYOUT" => history.confirmed \ {"cash"} # {} \/ history.lost
        /\ kind = "COMMISSION" => history.confirmed \cap {"cash", "waived"} # {}
    BY <2>3, ChannelFits DEF resolvePaymentChannel
  <2>5. /\ proc'[p].pc = "tryCreate" /\ proc'[p].kind = kind /\ Confirmed'
        /\ proc'[p].doc = proc[p].doc
    BY <2>1, <2>2, <2>3 DEF Confirmed
  <2>6. ConfirmationKnown' BY <2>2, <2>3, <2>5, KnownStays
  <2>7. QED BY <2>2, <2>3, <2>4, <2>5, <2>6, MoneyOwn
<1>5. CASE TryCreate(p)
  <2>1. UNCHANGED <<booking, payment, history>> /\ Finish(p)
    BY <1>5 DEF TryCreate
  <2>2. settlement'.kind = settlement.kind \/ settlement'.kind = proc[p].kind
    BY <1>5 DEF TryCreate, Settlements
  <2>3. settlement'.kind = proc[p].kind => KindFitsConfirmation'
    BY <1>5, <2>1 DEF TryCreate, At, MoneyInv, KindDue, Fits, KindFitsConfirmation
  <2>4. QED BY <2>1, <2>2, <2>3, MoneyEnds
<1>6. CASE SettleSave(p)
  <2>1. UNCHANGED <<booking, payment, history>> /\ settlement'.kind = settlement.kind
    BY <1>6 DEF SettleSave, Settlements
  <2>2. CASE Goto(p, "payout") BY <1>2, <2>1, <2>2
  <2>3. CASE Finish(p) BY <2>1, <2>3, MoneyEnds
  <2>4. QED BY <1>6, <2>2, <2>3 DEF SettleSave
<1>7. CASE Payout(p) BY <1>7, MoneyEnds DEF Payout
<1>8. CASE Stops(p)
  <2>1. history'.confirmed = history.confirmed /\ history'.lost = history.lost
    BY <1>8 DEF Stops, Histories
  <2>2. QED BY <1>8, <2>1, MoneyEnds DEF Stops
<1>9. QED BY <1>3, <1>4, <1>5, <1>6, <1>7, <1>8 DEF Settle

LEMMA MoneyStep == TypeOK /\ TypeOK' /\ MoneyInv /\ [Next]_vars => MoneyInv'
<1> SUFFICES ASSUME TypeOK, TypeOK', MoneyInv, [Next]_vars PROVE MoneyInv'
  OBVIOUS
<1>1. ASSUME NEW p \in Proc, Begin(p) PROVE MoneyInv' BY <1>1, MoneyBegin
<1>2. ASSUME NEW p \in Proc, Pay(p) PROVE MoneyInv' BY <1>2, MoneyPay
<1>3. ASSUME NEW p \in Proc, Settle(p) \/ Stops(p) PROVE MoneyInv' BY <1>3, MoneySettle
<1>4. CASE Capture \/ UNCHANGED vars
  <2>1. UNCHANGED <<booking, payment, settlement, proc, history>>
    BY <1>4 DEF Capture, vars, docs
  <2>2. QED
    BY <2>1 DEF MoneyInv, PaidIsConfirmed, ConfirmationKnown, KindDue, KindFitsConfirmation,
                Confirmed, Fits
<1>5. QED BY <1>1, <1>2, <1>3, <1>4 DEF Next

-----------------------------------------------------------------------------
(* The payout.                                                                *)

\* A handler that leaves the record and the payouts alone, and does not begin
\* to settle.
LEMMA PayoutOwn ==
  ASSUME KindLoaded, PaidOutOnce, NEW p \in Proc,
         \A q \in Proc \ {p} : proc'[q] = proc[q],
         UNCHANGED <<settlement, payouts>>, proc'[p].pc \notin {"settle", "payout"}
  PROVE  KindLoaded' /\ PaidOutOnce'
  BY DEF KindLoaded, PaidOutOnce

LEMMA PayoutStep ==
  ASSUME TypeOK, TypeOK', KindLoaded, PaidOutOnce, [Next]_vars
  PROVE  KindLoaded' /\ PaidOutOnce'
<1> USE Typed, IdleType DEF docs, gateway
<1>1. ASSUME NEW p \in Proc, Begin(p), ~LoadPending(p) PROVE KindLoaded' /\ PaidOutOnce'
  <2>1. ASSUME NEW what \in (Confirmation \cup {"invalid"}), LoadUnpaid(p, what)
        PROVE  KindLoaded' /\ PaidOutOnce'
    <3>1. [Idle EXCEPT !.pc = "loadPayment", !.pay = booking.pay, !.what = what].pc
            = "loadPayment" BY DEF Procs
    <3>2. QED BY <2>1, <3>1, PayoutOwn DEF LoadUnpaid, Spawn
  <2>2. CASE Webhook(p)
    <3>1. [Idle EXCEPT !.pc = "loadBooking", !.doc = Load, !.what = "online"].pc
            = "loadBooking" BY DEF Procs
    <3>2. QED BY <2>2, <3>1, PayoutOwn DEF Webhook, Spawn
  <2>3. CASE LoadStarted(p)
    <3>1. [Idle EXCEPT !.pc = "claim", !.pay = booking.pay].pc = "claim" BY DEF Procs
    <3>2. QED BY <2>3, <3>1, PayoutOwn DEF LoadStarted, Spawn
  <2>4. QED BY <1>1, <2>1, <2>2, <2>3 DEF Begin
<1>2. ASSUME NEW p \in Proc, LoadPending(p) PROVE KindLoaded' /\ PaidOutOnce'
  <2> DEFINE w == [Idle EXCEPT !.pc = "settle", !.kind = settlement.kind]
  <2>1. w.pc = "settle" /\ w.kind = settlement.kind BY DEF Idle
  <2>2. proc' = [proc EXCEPT ![p] = w] /\ UNCHANGED <<settlement, payouts>>
    BY <1>2 DEF LoadPending, Spawn
  <2>3. QED BY <2>1, <2>2 DEF KindLoaded, PaidOutOnce
<1>3. ASSUME NEW p \in Proc, Pay(p) PROVE KindLoaded' /\ PaidOutOnce'
  <2>1. UNCHANGED <<settlement, payouts>>
    BY <1>3 DEF Pay, LoadPayment, LoadBooking, SaveOrder, SavePending, FailPayment,
       FailBooking, PayPayment, PayBooking, Complete
  <2>2. CASE LoadPayment(p)
    <3>1. proc[p].what \in {"none", "cash", "online", "waived", "invalid"}
      BY DEF Procs, Confirmation
    <3>2. proc'[p].pc \in {"saveOrder", "failPayment", "payPayment"}
      BY <2>2, <3>1 DEF LoadPayment, Procs
    <3>3. \A q \in Proc \ {p} : proc'[q] = proc[q] BY <2>2 DEF LoadPayment
    <3>4. QED BY <2>1, <3>2, <3>3, PayoutOwn
  <2>3. CASE LoadBooking(p)
    BY <2>1, <2>3, PayoutOwn DEF LoadBooking, Procs
  <2>4. CASE FailPayment(p) \/ PayPayment(p)
    BY <2>1, <2>4, KeepMoves, PayoutOwn DEF FailPayment, PayPayment, Pc
  <2>5. CASE SaveOrder(p) \/ SavePending(p) \/ FailBooking(p) \/ PayBooking(p)
             \/ Complete(p)
    <3>1. Forget(p, "savePending") \/ Forget(p, "try") \/ Finish(p)
      BY <2>5 DEF SaveOrder, SavePending, FailBooking, PayBooking, Complete
    <3>2. QED BY <2>1, <3>1, ForgetMoves, FinishMoves, PayoutOwn DEF Pc
  <2>6. QED BY <1>3, <2>2, <2>3, <2>4, <2>5 DEF Pay
<1>4. ASSUME NEW p \in Proc, TryBooking(p) \/ Stops(p)
      PROVE  KindLoaded' /\ PaidOutOnce'
  <2>1. Goto(p, "tryPayment") \/ Finish(p) BY <1>4 DEF TryBooking, Stops
  <2>2. UNCHANGED <<settlement, payouts>> BY <1>4 DEF TryBooking, Stops
  <2>3. QED BY <2>1, <2>2, GotoMoves, FinishMoves, PayoutOwn DEF Pc
<1>5. ASSUME NEW p \in Proc, TryPayment(p) PROVE KindLoaded' /\ PaidOutOnce'
  BY <1>5, PayoutOwn DEF TryPayment, Procs
<1>6. ASSUME NEW p \in Proc, TryCreate(p) PROVE KindLoaded' /\ PaidOutOnce'
  <2>1. settlement.kind # "NONE" => settlement' = settlement
    BY <1>6 DEF TryCreate
  <2>2. /\ \A q \in Proc : proc'[q].pc \in {"settle", "payout"} => proc'[q] = proc[q]
        /\ UNCHANGED payouts
    BY <1>6, FinishMoves DEF TryCreate
  <2>3. \A q \in Proc : proc[q].pc \in {"settle", "payout"} => settlement.kind # "NONE"
    BY DEF KindLoaded
  <2>4. KindLoaded' BY <2>1, <2>2, <2>3 DEF KindLoaded
  <2>5. PaidOutOnce' BY <2>1, <2>2 DEF PaidOutOnce
  <2>6. QED BY <2>4, <2>5
<1>7. ASSUME NEW p \in Proc, SettleSave(p) PROVE KindLoaded' /\ PaidOutOnce'
  <2>1. settlement' = [kind |-> settlement.kind, settled |-> TRUE] /\ UNCHANGED payouts
        /\ proc[p].pc = "settle"
    BY <1>7 DEF SettleSave, Settlements, At
  <2>2. settlement.kind = proc[p].kind BY <2>1 DEF KindLoaded
  <2>3. settlement'.kind = settlement.kind BY <2>1
  <2>4. settlement = [kind |-> "PAYOUT", settled |-> TRUE] => settlement' = settlement
    <3>1. settlement = [kind |-> "PAYOUT", settled |-> TRUE] => settlement.kind = "PAYOUT"
      OBVIOUS
    <3>2. QED BY <2>1, <3>1
  <2>5. PaidOutOnce' BY <2>1, <2>4 DEF PaidOutOnce
  <2>6. \A q \in Proc \ {p} : proc'[q] = proc[q]
    BY <1>7, GotoMoves, FinishMoves DEF SettleSave, Pc
  <2>7. proc'[p].pc = "idle" \/ (proc'[p].pc = "payout" /\ settlement.kind = "PAYOUT")
    BY <1>7, <2>2, GotoMoves, FinishMoves DEF SettleSave, Pc
  <2>8. \A q \in Proc : proc'[q].pc = "settle" => settlement'.kind = proc'[q].kind
    BY <2>3, <2>6, <2>7 DEF KindLoaded
  <2>9. \A q \in Proc : proc'[q].pc = "payout" =>
          settlement' = [kind |-> "PAYOUT", settled |-> TRUE]
    <3>1. CASE settlement.kind = "PAYOUT" BY <2>1, <3>1
    <3>2. CASE settlement.kind # "PAYOUT"
      <4>1. \A q \in Proc : proc[q].pc # "payout"
        BY <3>2 DEF KindLoaded
      <4>2. QED BY <2>6, <2>7, <3>2, <4>1
    <3>3. QED BY <3>1, <3>2
  <2>10. QED BY <2>5, <2>8, <2>9 DEF KindLoaded
<1>8. ASSUME NEW p \in Proc, Payout(p) PROVE KindLoaded' /\ PaidOutOnce'
  <2>1. settlement = [kind |-> "PAYOUT", settled |-> TRUE] /\ UNCHANGED settlement
    BY <1>8 DEF Payout, At, KindLoaded
  <2>2. payouts' <= 1 BY <1>8 DEF Payout, PaidOutOnce
  <2>3. proc'[p].pc = "idle" /\ \A q \in Proc \ {p} : proc'[q] = proc[q]
    BY <1>8, FinishMoves DEF Payout
  <2>4. QED BY <2>1, <2>2, <2>3 DEF KindLoaded, PaidOutOnce
<1>9. CASE Capture BY <1>9 DEF Capture, KindLoaded, PaidOutOnce
<1>10. CASE UNCHANGED vars BY <1>10 DEF vars, KindLoaded, PaidOutOnce
<1>11. QED
  BY <1>1, <1>2, <1>3, <1>4, <1>5, <1>6, <1>7, <1>8, <1>9, <1>10 DEF Next, Settle

-----------------------------------------------------------------------------
(* What is due.                                                               *)

Trying(p) == proc[p].pc \in {"try", "tryPayment", "tryCreate"}

\* A handler that is not trying leaves those that do where they are.
LEMMA DueOwn ==
  ASSUME DueIsPaid, DueIsSettled, NEW p \in Proc, ~Trying(p),
         \A q \in Proc \ {p} : proc'[q] = proc[q],
         UNCHANGED settlement, history.stopped => history'.stopped,
         history'.due => (history.due \/ Trying(p)') /\ booking'.completed
                           /\ booking'.pay = "PAID"
  PROVE  DueIsPaid' /\ DueIsSettled'
  BY DEF DueIsPaid, DueIsSettled, Trying

LEMMA DueStep ==
  ASSUME TypeOK, TypeOK', DueIsPaid, DueIsSettled, [Next]_vars
  PROVE  DueIsPaid' /\ DueIsSettled'
<1> USE Typed, IdleType DEF docs, gateway
<1>1. ASSUME NEW p \in Proc, Begin(p) PROVE DueIsPaid' /\ DueIsSettled'
  <2>1. ~Trying(p) BY <1>1 DEF Begin, LoadUnpaid, Webhook, LoadStarted, LoadPending,
       Begins, Trying
  <2>2. UNCHANGED <<booking, settlement, history>>
        /\ \A q \in Proc \ {p} : proc'[q] = proc[q]
    BY <1>1 DEF Begin, LoadUnpaid, Webhook, LoadStarted, LoadPending, Spawn
  <2>3. QED BY <2>1, <2>2, DueOwn DEF DueIsPaid
<1>2. ASSUME NEW p \in Proc, LoadPayment(p) \/ LoadBooking(p) \/ FailPayment(p)
      PROVE  DueIsPaid' /\ DueIsSettled'
  <2>1. ~Trying(p) BY <1>2 DEF LoadPayment, LoadBooking, FailPayment, At, Trying
  <2>2. UNCHANGED <<booking, settlement, history>>
        /\ \A q \in Proc \ {p} : proc'[q] = proc[q]
    BY <1>2 DEF LoadPayment, LoadBooking, FailPayment, Keep
  <2>3. QED BY <2>1, <2>2, DueOwn DEF DueIsPaid
<1>3. ASSUME NEW p \in Proc, SaveOrder(p) \/ PayPayment(p)
      PROVE  DueIsPaid' /\ DueIsSettled'
  <2>1. ~Trying(p) BY <1>3 DEF SaveOrder, PayPayment, At, Trying
  <2>2. UNCHANGED <<booking, settlement>>
        /\ \A q \in Proc \ {p} : proc'[q] = proc[q]
    BY <1>3 DEF SaveOrder, PayPayment, Keep, Forget, Finish
  <2>3. history'.due = history.due /\ history'.stopped = history.stopped
    BY <1>3 DEF SaveOrder, PayPayment, Histories
  <2>4. QED BY <2>1, <2>2, <2>3, DueOwn DEF DueIsPaid
<1>4. ASSUME NEW p \in Proc, SavePending(p) \/ FailBooking(p)
      PROVE  DueIsPaid' /\ DueIsSettled'
  <2>1. ~Trying(p) BY <1>4 DEF SavePending, FailBooking, At, Trying
  <2>2. UNCHANGED settlement /\ \A q \in Proc \ {p} : proc'[q] = proc[q]
    BY <1>4 DEF SavePending, FailBooking, Finish
  <2>3. /\ history'.stopped = history.stopped /\ booking'.completed = booking.completed
        /\ history'.due => history.due /\ booking'.pay = "PAID"
    BY <1>4 DEF SavePending, FailBooking, Histories, Bookings
  <2>4. QED BY <2>1, <2>2, <2>3, DueOwn DEF DueIsPaid
<1>5. ASSUME NEW p \in Proc, PayBooking(p) PROVE DueIsPaid' /\ DueIsSettled'
  <2>1. ~Trying(p) BY <1>5 DEF PayBooking, At, Trying
  <2>2. UNCHANGED settlement /\ Forget(p, "try") BY <1>5 DEF PayBooking
  <2>3. Trying(p)' /\ \A q \in Proc \ {p} : proc'[q] = proc[q]
    BY <2>2, ForgetMoves DEF Trying, Pc
  <2>4. /\ history'.stopped = history.stopped /\ booking'.completed = booking.completed
        /\ history'.due = (history.due \/ (booking'.pay = "PAID" /\ booking.completed))
        /\ booking'.pay = booking.pay \/ booking'.pay = "PAID"
    BY <1>5 DEF PayBooking, Histories, Bookings
  <2>5. QED BY <2>1, <2>2, <2>3, <2>4, DueOwn DEF DueIsPaid
<1>6. ASSUME NEW p \in Proc, Complete(p) PROVE DueIsPaid' /\ DueIsSettled'
  <2>1. ~Trying(p) BY <1>6 DEF Complete, At, Trying
  <2>2. UNCHANGED settlement /\ booking'.completed /\ booking'.pay = booking.pay
    BY <1>6 DEF Complete, Bookings
  <2>3. CASE Forget(p, "try") /\ proc[p].pay = "PAID" /\ ~booking.completed
    <3>1. Trying(p)' /\ \A q \in Proc \ {p} : proc'[q] = proc[q]
      BY <2>3, ForgetMoves DEF Trying, Pc
    <3>2. /\ history'.stopped = history.stopped
          /\ history'.due = (history.due \/ (proc[p].pay = "PAID" /\ booking.pay = "PAID"))
      BY <1>6, <2>3 DEF Complete, Histories
    <3>3. QED BY <2>1, <2>2, <3>1, <3>2, DueOwn DEF DueIsPaid
  <2>4. CASE (Forget(p, "savePending") \/ Finish(p)) /\ (proc[p].pay # "PAID" \/ booking.completed)
    <3>1. \A q \in Proc \ {p} : proc'[q] = proc[q]
      BY <2>4, ForgetMoves, FinishMoves DEF Pc
    <3>2. history'.stopped = history.stopped /\ history'.due = history.due
      BY <1>6, <2>4 DEF Complete, Histories
    <3>3. QED BY <2>1, <2>2, <3>1, <3>2, DueOwn DEF DueIsPaid
  <2>5. QED BY <1>6, <2>3, <2>4 DEF Complete
<1>7. ASSUME NEW p \in Proc, TryBooking(p) PROVE DueIsPaid' /\ DueIsSettled'
  <2>1. UNCHANGED <<booking, settlement, history>> BY <1>7 DEF TryBooking
  <2>2. DueIsPaid' BY <2>1 DEF DueIsPaid
  <2>3. CASE history.due
    <3>1. Goto(p, "tryPayment") BY <1>7, <2>3 DEF TryBooking, DueIsPaid
    <3>2. Trying(p)' BY <3>1, GotoMoves DEF Trying, Pc
    <3>3. QED BY <2>2, <3>2 DEF DueIsSettled, Trying
  <2>4. CASE ~history.due BY <2>1, <2>2, <2>4 DEF DueIsSettled
  <2>5. QED BY <2>3, <2>4
<1>8. ASSUME NEW p \in Proc, TryPayment(p) PROVE DueIsPaid' /\ DueIsSettled'
  <2>1. UNCHANGED <<booking, settlement, history>> BY <1>8 DEF TryPayment
  <2>2. proc'[p].pc = "tryCreate" BY <1>8 DEF TryPayment, Procs
  <2>3. QED BY <2>1, <2>2 DEF DueIsPaid, DueIsSettled
<1>9. ASSUME NEW p \in Proc, TryCreate(p) PROVE DueIsPaid' /\ DueIsSettled'
  <2>1. UNCHANGED <<booking, history>> BY <1>9 DEF TryCreate
  <2>2. settlement'.kind # "NONE" BY <1>9 DEF TryCreate, Settlements
  <2>3. QED BY <2>1, <2>2 DEF DueIsPaid, DueIsSettled
<1>10. ASSUME NEW p \in Proc, SettleSave(p) \/ Payout(p)
       PROVE  DueIsPaid' /\ DueIsSettled'
  <2>1. /\ settlement'.kind = settlement.kind /\ UNCHANGED <<booking, history>>
        /\ ~Trying(p) /\ \A q \in Proc \ {p} : proc'[q] = proc[q]
    BY <1>10 DEF SettleSave, Payout, Settlements, Goto, Finish, Trying, At
  <2>2. QED BY <2>1 DEF DueIsPaid, DueIsSettled, Trying
<1>11. ASSUME NEW p \in Proc, Stops(p) PROVE DueIsPaid' /\ DueIsSettled'
  <2>1. history'.stopped /\ history'.due = history.due /\ UNCHANGED booking
    BY <1>11 DEF Stops, Histories
  <2>2. QED BY <2>1 DEF DueIsPaid, DueIsSettled
<1>12. CASE Capture BY <1>12 DEF Capture, DueIsPaid, DueIsSettled
<1>13. CASE UNCHANGED vars BY <1>13 DEF vars, DueIsPaid, DueIsSettled
<1>14. QED
  BY <1>1, <1>2, <1>3, <1>4, <1>5, <1>6, <1>7, <1>8, <1>9, <1>10, <1>11, <1>12, <1>13
     DEF Next, Pay, Settle

-----------------------------------------------------------------------------
LEMMA Invariance == Spec => []IInv
<1>1. IInv /\ [Next]_vars => IInv'
  <2> SUFFICES ASSUME IInv, [Next]_vars PROVE IInv'
    OBVIOUS
  <2>1. TypeOK' BY TypeStep DEF IInv, MoneyInv
  <2>2. MoneyInv' BY <2>1, MoneyStep DEF IInv
  <2>3. KindLoaded' /\ PaidOutOnce' BY <2>1, PayoutStep DEF IInv
  <2>4. DueIsPaid' /\ DueIsSettled' BY <2>1, DueStep DEF IInv
  <2>5. QED BY <2>1, <2>2, <2>3, <2>4 DEF IInv
<1>2. QED BY InitIInv, <1>1, PTL DEF Spec

\* Booking, payment, settlement record and handlers keep the statuses and the
\* fields of their schemas, for any handlers and orders.
THEOREM TypeCorrect == Spec => []TypeOK
<1>1. IInv => TypeOK BY DEF IInv
<1>2. QED BY Invariance, <1>1, PTL

\* tryCreateProviderSettlement makes a payout only of a booking that was confirmed
\* otherwise than in cash, and a commission only of one confirmed in cash or waived,
\* but for the save that drops a confirmation.
THEOREM KindIsConfirmed == Spec => []KindFitsConfirmation
<1>1. IInv => KindFitsConfirmation BY DEF IInv, MoneyInv
<1>2. QED BY Invariance, <1>1, PTL

\* However many settleProviderRecord overlap, one payout event is posted.
THEOREM OnePayout == Spec => []PaidOutOnce
<1>1. IInv => PaidOutOnce BY DEF IInv
<1>2. QED BY Invariance, <1>1, PTL

\* What markBookingPaidForSettlement or COMPLETE_SERVICE found paid and
\* completed has its settlement, or a handler is creating it.
THEOREM DueGetsSettled == Spec => []DueIsSettled
<1>1. IInv => DueIsSettled BY DEF IInv
<1>2. QED BY Invariance, <1>1, PTL
=============================================================================
