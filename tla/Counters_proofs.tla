--------------------------- MODULE Counters_proofs ---------------------------
(***************************************************************************)
(* The two components whose counters are reserved, spent and given back    *)
(* while other documents say for whom: the entitlement EntitlementLedger   *)
(* keeps, and the stock of MarketplaceOrder.                               *)
(*                                                                         *)
(* EntitlementLedger, for any number of handlers in flight, any bookings   *)
(* and any quantity: the documents keep their types, and, until an         *)
(* administrator corrects the counters, the quantity is never oversold,    *)
(* exhausted means spent, and a consumed usage has been counted.           *)
(*                                                                         *)
(* MarketplaceOrder, for any handlers and runs of the job, any carts and   *)
(* any stock: the documents keep their types, the counters agree with the  *)
(* reservations, what is held is on the shelf, and what a confirmed order  *)
(* sold is confirmed, except as the properties say.                        *)
(***************************************************************************)
EXTENDS EntitlementLedger, MarketplaceOrder, FiniteSetTheorems, SequenceTheorems, TLAPS

-----------------------------------------------------------------------------
(* Types                                                                    *)

EntType == [used : Nat, reserved : 0..Total, status : EntStatus]

LEMMA IdleType == Idle \in Handlers
  BY DEF Idle, Handlers, Pc, EntStatus

\* A handler that reaches an await, or ends, is typed.
LEMMA AwaitTyped ==
  ASSUME req \in [Request -> Handlers], NEW p \in Request, NEW pc \in Pc,
         NEW b \in Booking \cup {NoBooking}, Await(p, pc, b)
  PROVE  req' \in [Request -> Handlers]
<1> DEFINE h == [pc |-> pc, booking |-> b, used |-> 0, next |-> 0,
                 loaded |-> "ACTIVE", status |-> "ACTIVE"]
<1>1. h \in Handlers BY DEF Handlers, EntStatus
<1>2. req' = [req EXCEPT ![p] = h] BY DEF Await
<1>3. QED BY <1>1, <1>2

LEMMA GotoTyped ==
  ASSUME req \in [Request -> Handlers], NEW p \in Request, NEW pc \in Pc, Goto(p, pc)
  PROVE  req' \in [Request -> Handlers]
<1>1. req[p].booking \in Booking \cup {NoBooking} BY DEF Handlers
<1>2. QED BY <1>1, AwaitTyped DEF Goto

LEMMA FinishTyped ==
  ASSUME req \in [Request -> Handlers], NEW p \in Request, Finish(p)
  PROVE  req' \in [Request -> Handlers]
  BY IdleType DEF Finish

LEMMA GotoIfTyped ==
  ASSUME req \in [Request -> Handlers], NEW p \in Request, NEW ok, NEW pc \in Pc,
         GotoIf(p, ok, pc)
  PROVE  req' \in [Request -> Handlers]
  BY GotoTyped, FinishTyped DEF GotoIf

\* What the counters become.
LEMMA OneBackTyped ==
  ASSUME ent \in EntType
  PROVE  /\ OneBack \in EntType
         /\ OneBack.used = ent.used /\ OneBack.status = ent.status
         /\ OneBack.reserved <= ent.reserved
<1>1. CASE ent.reserved >= 1
  <2>1. OneBack = [ent EXCEPT !.reserved = ent.reserved - 1] BY <1>1 DEF OneBack, EntType
  <2>2. QED BY <1>1, <2>1, TotalAssumption DEF EntType
<1>2. CASE ~(ent.reserved >= 1)
  <2>1. OneBack = [ent EXCEPT !.reserved = ent.reserved] BY <1>2 DEF OneBack, EntType
  <2>2. QED BY <2>1, TotalAssumption DEF EntType
<1>3. QED BY <1>1, <1>2

LEMMA OneSpentTyped ==
  ASSUME ent \in EntType, ent.reserved >= 1
  PROVE  /\ OneSpent \in EntType
         /\ OneSpent.used = ent.used + 1 /\ OneSpent.reserved = ent.reserved - 1
         /\ OneSpent.status = ent.status
<1>1. ent.reserved - 1 \in 0..Total /\ ent.used + 1 \in Nat BY TotalAssumption DEF EntType
<1>2. ent.status \in EntStatus BY DEF EntType
<1>3. QED BY <1>1, <1>2 DEF EntType, OneSpent

LEMMA AfterwardsPc == Afterwards \in {"saveExhausted", "saveConsumed"}
  BY DEF Afterwards

LEMMA TypeStep ==
  ASSUME TypeOK, [Next]_vars
  PROVE  TypeOK'
<1> USE DEF TypeOK, EntType
<1>1. CASE UNCHANGED vars BY <1>1 DEF vars
<1>2. ASSUME NEW p \in Request, NEW b \in Booking, LoadReserve(p, b) PROVE TypeOK'
  BY <1>2, AwaitTyped DEF LoadReserve, Pc
<1>3. ASSUME NEW p \in Request, NEW b \in Booking, FindForConsume(p, b) PROVE TypeOK'
  BY <1>3, AwaitTyped DEF FindForConsume, Pc
<1>4. ASSUME NEW p \in Request, NEW b \in Booking, FindForRelease(p, b) PROVE TypeOK'
  BY <1>4, AwaitTyped DEF FindForRelease, Pc
<1>5. ASSUME NEW p \in Request, FindUsage(p) PROVE TypeOK'
  BY <1>5, GotoIfTyped DEF FindUsage, Pc
<1>6. ASSUME NEW p \in Request, Increment(p) PROVE TypeOK'
  <2>1. req' \in [Request -> Handlers] BY <1>6, GotoTyped, FinishTyped DEF Increment, Pc
  <2>2. CASE Available
    <3>1. ent.reserved + 1 \in 0..Total BY <2>2, TotalAssumption DEF Available
    <3>2. ent' = ent \/ ent' = [ent EXCEPT !.reserved = ent.reserved + 1]
      BY <1>6 DEF Increment
    <3>3. ent' \in EntType BY <3>1, <3>2
    <3>4. QED BY <1>6, <2>1, <3>3 DEF Increment
  <2>3. CASE ~Available BY <1>6, <2>1, <2>3 DEF Increment
  <2>4. QED BY <2>2, <2>3
<1>7. ASSUME NEW p \in Request, CreateUsage(p) PROVE TypeOK'
  <2>1. req' \in [Request -> Handlers] BY <1>7, GotoTyped, FinishTyped DEF CreateUsage, Pc
  <2>2. usage' \in [Booking -> UsageStatus] BY <1>7 DEF CreateUsage, UsageStatus
  <2>3. QED BY <1>7, <2>1, <2>2 DEF CreateUsage
<1>8. ASSUME NEW p \in Request, Compensate(p) PROVE TypeOK'
  BY <1>8, OneBackTyped, FinishTyped DEF Compensate
<1>9. ASSUME NEW p \in Request, Spend(p) PROVE TypeOK'
  <2>1. Afterwards \in Pc BY AfterwardsPc DEF Pc
  <2>2. req' \in [Request -> Handlers] BY <1>9, <2>1, GotoTyped, FinishTyped DEF Spend
  <2>3. ent' \in EntType BY <1>9, OneSpentTyped DEF Spend
  <2>4. QED BY <1>9, <2>2, <2>3 DEF Spend
<1>10. ASSUME NEW p \in Request, SaveExhausted(p) PROVE TypeOK'
  <2>1. req' \in [Request -> Handlers] BY <1>10, GotoTyped DEF SaveExhausted, Pc
  <2>2. QED BY <1>10, <2>1 DEF SaveExhausted, EntStatus
<1>11. ASSUME NEW p \in Request, SaveConsumed(p) PROVE TypeOK'
  BY <1>11, FinishTyped DEF SaveConsumed, UsageStatus
<1>12. ASSUME NEW p \in Request, Unreserve(p) PROVE TypeOK'
  <2>1. req' \in [Request -> Handlers] BY <1>12, GotoTyped DEF Unreserve, Pc
  <2>2. QED BY <1>12, <2>1, OneBackTyped DEF Unreserve
<1>13. ASSUME NEW p \in Request, SaveReleased(p) PROVE TypeOK'
  BY <1>13, FinishTyped DEF SaveReleased, UsageStatus
<1>14. ASSUME NEW p \in Request, LoadAdjust(p) PROVE TypeOK'
  <2>1. PICK n \in 0..Total :
          req' = [req EXCEPT ![p] = [pc |-> "adjustSave", booking |-> NoBooking,
                   used |-> ent.used, next |-> n, loaded |-> ent.status,
                   status |-> IF n + ent.reserved >= Total THEN "EXHAUSTED"
                              ELSE IF ent.status = "EXHAUSTED" THEN "ACTIVE" ELSE ent.status]]
    BY <1>14 DEF LoadAdjust
  <2> DEFINE s == IF n + ent.reserved >= Total THEN "EXHAUSTED"
                  ELSE IF ent.status = "EXHAUSTED" THEN "ACTIVE" ELSE ent.status
             h == [pc |-> "adjustSave", booking |-> NoBooking, used |-> ent.used,
                   next |-> n, loaded |-> ent.status, status |-> s]
  <2>2. s \in EntStatus BY DEF EntStatus
  <2> HIDE DEF s
  <2>3. n \in Nat BY TotalAssumption
  <2>4. h \in Handlers BY <2>2, <2>3 DEF Handlers, Pc
  <2>5. req' = [req EXCEPT ![p] = h] BY <2>1 DEF s
  <2> HIDE DEF h
  <2>6. req' \in [Request -> Handlers] BY <2>4, <2>5
  <2>7. QED BY <1>14, <2>6 DEF LoadAdjust
<1>15. ASSUME NEW p \in Request, SaveAdjust(p) PROVE TypeOK'
  <2>1. req[p] \in Handlers OBVIOUS
  <2>2. Saved(req[p].used, req[p].next, ent.used) \in Nat BY <2>1 DEF Saved, Handlers
  <2>3. Saved(req[p].loaded, req[p].status, ent.status) \in EntStatus
    BY <2>1 DEF Saved, Handlers
  <2>4. ent' \in EntType BY <1>15, <2>2, <2>3 DEF SaveAdjust
  <2>5. QED BY <1>15, <2>4, FinishTyped DEF SaveAdjust
<1>16. ASSUME NEW p \in Request, Fail(p) PROVE TypeOK'
  BY <1>16, FinishTyped DEF Fail
<1>17. ASSUME NEW f \in EntStatus, NEW t \in EntStatus, Change(f, t) PROVE TypeOK'
  BY <1>17 DEF Change
<1>18. CASE Suspend \/ Reactivate \/ ExpiryJob
  BY <1>17, <1>18 DEF Suspend, Reactivate, ExpiryJob, EntStatus
<1> HIDE DEF TypeOK
<1>19. QED
  BY <1>1, <1>2, <1>3, <1>4, <1>5, <1>6, <1>7, <1>8, <1>9, <1>10, <1>11, <1>12, <1>13,
     <1>14, <1>15, <1>16, <1>18 DEF Next, Handler

LEMMA InitTyped == ASSUME Init PROVE TypeOK
<1>1. req \in [Request -> Handlers] BY IdleType DEF Init
<1>2. ent \in [used : Nat, reserved : 0..Total, status : EntStatus]
  BY TotalAssumption DEF Init, EntStatus
<1>3. usage \in [Booking -> UsageStatus] /\ taken \subseteq Booking /\ corrected \in BOOLEAN
  BY DEF Init, UsageStatus
<1>4. QED BY <1>1, <1>2, <1>3 DEF TypeOK

\* The documents keep their types, with every operation: reservedQuantity
\* never leaves 0..totalQuantity.
THEOREM TypeCorrect == Spec => []TypeOK
<1>1. Init => TypeOK BY InitTyped
<1>2. TypeOK /\ [Next]_vars => TypeOK' BY TypeStep
<1>3. QED BY <1>1, <1>2, PTL DEF Spec

-----------------------------------------------------------------------------
(* Without an administrator's corrections                                   *)

Within == ent.used + ent.reserved <= Total
SpentOut == ent.status = "EXHAUSTED" => ent.used >= Total

\* Whoever is about to exhaust the entitlement saw it spent, and nobody holds
\* a correction.
Exhausting ==
  \A p \in Request : /\ req[p].pc = "saveExhausted" => ent.used >= Total
                     /\ req[p].pc # "adjustSave"

\* The bookings whose usage is consumed or about to be.
Paid ==
  {b \in Booking : \/ usage[b] = "CONSUMED"
                  \/ \E p \in Request : /\ req[p].pc \in {"saveExhausted", "saveConsumed"}
                                         /\ req[p].booking = b}
PaidIsCounted == Cardinality(Paid) <= ent.used

IInv == TypeOK /\ Within /\ SpentOut /\ Exhausting /\ PaidIsCounted

\* A step after which the counters stand for at least as much as before, and
\* no handler is nearer to exhausting or consuming.
Harmless ==
  /\ ent'.used = ent.used
  /\ ent'.used + ent'.reserved <= Total
  /\ ent'.status = "EXHAUSTED" => ent.status = "EXHAUSTED"
  /\ \A b \in Booking : usage'[b] = "CONSUMED" => b \in Paid
  /\ \A p \in Request : req'[p] = req[p] \/
        /\ req'[p].pc \notin {"saveExhausted", "adjustSave"}
        /\ req'[p].pc = "saveConsumed" => req'[p].booking \in Paid

LEMMA PaidFinite == IsFiniteSet(Paid)
<1>1. Paid \in SUBSET Booking BY DEF Paid
<1>2. QED BY <1>1, FS_Subset, BookingAssumption

LEMMA HarmlessStep ==
  ASSUME IInv, TypeOK', Harmless
  PROVE  IInv'
<1>1. Within' BY DEF Harmless, Within
<1>2. SpentOut' BY DEF IInv, Harmless, SpentOut
<1>3. Exhausting' BY DEF IInv, Harmless, Exhausting
<1>4. Paid' \in SUBSET Paid
  <2>1. ASSUME NEW b \in Booking, NEW p \in Request, req'[p].booking = b,
               req'[p].pc \in {"saveExhausted", "saveConsumed"}
        PROVE  b \in Paid
    <3>1. CASE req'[p] = req[p] BY <2>1, <3>1 DEF Paid
    <3>2. CASE req'[p] # req[p] BY <2>1, <3>2 DEF Harmless
    <3>3. QED BY <3>1, <3>2
  <2>2. QED BY <2>1 DEF Paid, Harmless
<1>5. Cardinality(Paid') <= Cardinality(Paid) BY <1>4, PaidFinite, FS_Subset
<1>6. Cardinality(Paid) \in Nat /\ Cardinality(Paid') \in Nat
  BY <1>4, PaidFinite, FS_Subset, FS_CardinalityType
<1>7. PaidIsCounted' BY <1>5, <1>6 DEF IInv, TypeOK, PaidIsCounted, Harmless
<1>8. QED BY <1>1, <1>2, <1>3, <1>7 DEF IInv

\* One unit is spent: at most one booking more is to be shown as consumed.
LEMMA SpendStep ==
  ASSUME IInv, TypeOK', NEW p \in Request, Spend(p), ent.reserved >= 1
  PROVE  IInv'
<1> DEFINE b == req[p].booking
           h == [pc |-> Afterwards, booking |-> b, used |-> 0, next |-> 0,
                 loaded |-> "ACTIVE", status |-> "ACTIVE"]
<1>1. ent \in EntType BY DEF IInv, TypeOK, EntType
<1>2. /\ ent' = OneSpent
      /\ OneSpent.used = ent.used + 1 /\ OneSpent.reserved = ent.reserved - 1
      /\ OneSpent.status = ent.status
  BY <1>1, OneSpentTyped DEF Spend
<1>3. req' = [req EXCEPT ![p] = h] BY DEF Spend, Goto, Await
<1>4. req \in [Request -> Handlers] /\ usage' = usage BY DEF IInv, TypeOK, Spend
<1>5. ent.used \in Nat /\ ent.reserved \in Nat /\ Total \in Nat
  BY <1>1, TotalAssumption DEF EntType
<1>6. Within' BY <1>2, <1>5 DEF IInv, Within
<1>7. SpentOut' BY <1>2, <1>5 DEF IInv, SpentOut
<1>8. Exhausting'
  <2>1. ASSUME NEW q \in Request
        PROVE  /\ req'[q].pc = "saveExhausted" => ent'.used >= Total
               /\ req'[q].pc # "adjustSave"
    <3>1. CASE q = p
      <4>1. req'[q].pc = Afterwards BY <1>3, <1>4, <3>1
      <4>2. Afterwards = "saveExhausted" => ent.used + 1 >= Total BY DEF Afterwards
      <4>3. QED BY <4>1, <4>2, <1>2, AfterwardsPc
    <3>2. CASE q # p
      <4>1. req'[q] = req[q] BY <1>3, <1>4, <3>2
      <4>2. QED BY <4>1, <1>2, <1>5, TotalAssumption DEF IInv, Exhausting
    <3>3. QED BY <3>1, <3>2
  <2>2. QED BY <2>1 DEF Exhausting
<1>9. Paid' \in SUBSET (Paid \cup {b})
  <2>1. ASSUME NEW c \in Booking, NEW q \in Request, req'[q].booking = c,
               req'[q].pc \in {"saveExhausted", "saveConsumed"}
        PROVE  c \in Paid \cup {b}
    <3>1. CASE q = p BY <1>3, <1>4, <2>1, <3>1
    <3>2. CASE q # p
      <4>1. req'[q] = req[q] BY <1>3, <1>4, <3>2
      <4>2. QED BY <4>1, <2>1 DEF Paid
    <3>3. QED BY <3>1, <3>2
  <2>2. QED BY <2>1, <1>4 DEF Paid
<1>10. /\ IsFiniteSet(Paid \cup {b})
       /\ Cardinality(Paid \cup {b}) <= Cardinality(Paid) + 1
       /\ Cardinality(Paid) \in Nat /\ Cardinality(Paid \cup {b}) \in Nat
  <2>1. IsFiniteSet(Paid \cup {b}) BY PaidFinite, FS_AddElement
  <2>2. Cardinality(Paid) \in Nat /\ Cardinality(Paid \cup {b}) \in Nat
    BY <2>1, PaidFinite, FS_CardinalityType
  <2>3. Cardinality(Paid \cup {b}) = IF b \in Paid THEN Cardinality(Paid) ELSE Cardinality(Paid) + 1
    BY PaidFinite, FS_AddElement
  <2> HIDE DEF b
  <2>4. Cardinality(Paid \cup {b}) <= Cardinality(Paid) + 1 BY <2>2, <2>3
  <2>5. QED BY <2>1, <2>2, <2>4
<1>11. /\ Cardinality(Paid') <= Cardinality(Paid \cup {b})
       /\ Cardinality(Paid') \in Nat
  BY <1>9, <1>10, FS_Subset, FS_CardinalityType
<1>12. PaidIsCounted'
  <2>1. Cardinality(Paid) <= ent.used BY DEF IInv, PaidIsCounted
  <2>2. Cardinality(Paid') <= ent.used + 1 BY <1>5, <1>10, <1>11, <2>1
  <2>3. ent'.used = ent.used + 1 BY <1>2
  <2>4. QED BY <2>2, <2>3 DEF PaidIsCounted
<1>13. QED BY <1>6, <1>7, <1>8, <1>12 DEF IInv

LEMMA Move ==
  ASSUME req \in [Request -> Handlers], NEW p \in Request, NEW pc \in Pc,
         NEW b \in Booking \cup {NoBooking},
         pc \notin {"saveExhausted", "adjustSave"}, pc = "saveConsumed" => b \in Paid,
         Await(p, pc, b)
  PROVE  \A q \in Request : req'[q] = req[q] \/
           /\ req'[q].pc \notin {"saveExhausted", "adjustSave"}
           /\ req'[q].pc = "saveConsumed" => req'[q].booking \in Paid
<1> DEFINE h == [pc |-> pc, booking |-> b, used |-> 0, next |-> 0,
                 loaded |-> "ACTIVE", status |-> "ACTIVE"]
<1>1. req' = [req EXCEPT ![p] = h] BY DEF Await
<1>2. QED BY <1>1

LEMMA End ==
  ASSUME req \in [Request -> Handlers], NEW p \in Request, Finish(p)
  PROVE  \A q \in Request : req'[q] = req[q] \/
           /\ req'[q].pc \notin {"saveExhausted", "adjustSave"}
           /\ req'[q].pc = "saveConsumed" => req'[q].booking \in Paid
  BY DEF Finish, Idle

LEMMA LedgerStep ==
  ASSUME IInv, [Next]_vars, ~corrected'
  PROVE  IInv'
<1> DEFINE Calm == \A q \in Request : req'[q] = req[q] \/
                     /\ req'[q].pc \notin {"saveExhausted", "adjustSave"}
                     /\ req'[q].pc = "saveConsumed" => req'[q].booking \in Paid
           Same == ent' = ent
           Shown == \A b \in Booking : usage[b] = "CONSUMED" => b \in Paid
<1>1. TypeOK' BY TypeStep DEF IInv
<1>2. /\ req \in [Request -> Handlers] /\ ent \in EntType /\ usage \in [Booking -> UsageStatus]
      /\ ent.used \in Nat /\ ent.reserved \in Nat /\ Total \in Nat
      /\ ent.used + ent.reserved <= Total
  BY TotalAssumption DEF IInv, TypeOK, EntType, Within
<1>3. Shown BY DEF Paid
<1>4. ASSUME Same, UNCHANGED usage, Calm PROVE IInv'
  <2>1. Harmless BY <1>2, <1>3, <1>4 DEF Harmless
  <2>2. QED BY <1>1, <2>1, HarmlessStep
<1>5. ASSUME ent' = OneBack, UNCHANGED usage, Calm PROVE IInv'
  <2>1. /\ OneBack \in EntType
        /\ OneBack.used = ent.used /\ OneBack.status = ent.status
        /\ OneBack.reserved <= ent.reserved
    BY <1>2, OneBackTyped
  <2>2. OneBack.reserved \in Int BY <2>1 DEF EntType
  <2>3. ent'.used + ent'.reserved <= Total BY <1>2, <1>5, <2>1, <2>2
  <2>4. Harmless BY <1>3, <1>5, <2>1, <2>3 DEF Harmless
  <2>5. QED BY <1>1, <2>4, HarmlessStep
<1>6. ASSUME NEW p \in Request, NEW pc \in Pc, Goto(p, pc),
             pc \notin {"saveExhausted", "saveConsumed", "adjustSave"}
      PROVE  Calm
  <2>1. req[p].booking \in Booking \cup {NoBooking} BY <1>2 DEF Handlers
  <2>2. QED BY <1>2, <1>6, <2>1, Move DEF Goto
<1>7. CASE UNCHANGED vars BY <1>4, <1>7 DEF vars
<1>8. ASSUME NEW p \in Request, NEW b \in Booking,
             LoadReserve(p, b) \/ FindForRelease(p, b) \/ FindForConsume(p, b)
      PROVE  IInv'
  <2>1. CASE LoadReserve(p, b)
    <3>1. Calm BY <1>2, <2>1, Move DEF LoadReserve, Pc
    <3>2. QED BY <1>4, <2>1, <3>1 DEF LoadReserve
  <2>2. CASE FindForRelease(p, b)
    <3>1. Calm BY <1>2, <2>2, Move DEF FindForRelease, Pc
    <3>2. QED BY <1>4, <2>2, <3>1 DEF FindForRelease
  <2>3. CASE FindForConsume(p, b)
    <3>1. Calm BY <1>2, <2>3, Move DEF FindForConsume, Pc
    <3>2. QED BY <1>4, <2>3, <3>1 DEF FindForConsume
  <2>4. QED BY <1>8, <2>1, <2>2, <2>3
<1>9. ASSUME NEW p \in Request, FindUsage(p) PROVE IInv'
  <2>1. Calm BY <1>2, <1>6, <1>9, End DEF FindUsage, GotoIf, Pc
  <2>2. QED BY <1>4, <1>9, <2>1 DEF FindUsage
<1>10. ASSUME NEW p \in Request, Increment(p) PROVE IInv'
  <2>1. Calm BY <1>2, <1>6, <1>10, End DEF Increment, Pc
  <2>2. CASE ent.status = "ACTIVE" /\ Available
    <3>1. ent' = [ent EXCEPT !.reserved = ent.reserved + 1] BY <1>10, <2>2 DEF Increment
    <3>2. /\ ent'.used = ent.used /\ ent'.reserved = ent.reserved + 1
          /\ ent'.status = ent.status
      BY <1>2, <3>1 DEF EntType
    <3>3. ent'.used + ent'.reserved <= Total BY <1>2, <2>2, <3>2 DEF Available
    <3>4. Harmless BY <1>3, <1>10, <2>1, <3>2, <3>3 DEF Harmless, Increment
    <3>5. QED BY <1>1, <3>4, HarmlessStep
  <2>3. CASE ~(ent.status = "ACTIVE" /\ Available)
    BY <1>4, <1>10, <2>1, <2>3 DEF Increment
  <2>4. QED BY <2>2, <2>3
<1>11. ASSUME NEW p \in Request, CreateUsage(p) PROVE IInv'
  <2>1. Calm BY <1>2, <1>6, <1>11, End DEF CreateUsage, Pc
  <2>2. \A b \in Booking : usage'[b] = "CONSUMED" => usage[b] = "CONSUMED"
    BY <1>2, <1>11 DEF CreateUsage
  <2>3. ent' = ent BY <1>11 DEF CreateUsage
  <2>4. Harmless BY <1>2, <1>3, <2>1, <2>2, <2>3 DEF Harmless
  <2>5. QED BY <1>1, <2>4, HarmlessStep
<1>12. ASSUME NEW p \in Request, Compensate(p) PROVE IInv'
  <2>1. Calm BY <1>2, <1>12, End DEF Compensate
  <2>2. QED BY <1>5, <1>12, <2>1 DEF Compensate
<1>13. ASSUME NEW p \in Request, Spend(p) PROVE IInv'
  <2>1. CASE ent.reserved >= 1 BY <1>1, <1>13, <2>1, SpendStep
  <2>2. CASE ~(ent.reserved >= 1)
    <3>1. Same /\ UNCHANGED usage /\ Finish(p) BY <1>13, <2>2 DEF Spend
    <3>2. Calm BY <1>2, <3>1, End
    <3>3. QED BY <1>4, <3>1, <3>2
  <2>3. QED BY <2>1, <2>2
<1>14. ASSUME NEW p \in Request, SaveExhausted(p) PROVE IInv'
  <2>1. req[p].pc = "saveExhausted" /\ ent' = [ent EXCEPT !.status = "EXHAUSTED"]
        /\ UNCHANGED usage /\ Await(p, "saveConsumed", req[p].booking)
    BY <1>14 DEF SaveExhausted, Goto
  <2>2. ent.used >= Total BY <2>1 DEF IInv, Exhausting
  <2>3. ent'.used = ent.used /\ ent'.reserved = ent.reserved BY <1>2, <2>1 DEF EntType
  <2> DEFINE b == req[p].booking
             h == [pc |-> "saveConsumed", booking |-> b, used |-> 0, next |-> 0,
                   loaded |-> "ACTIVE", status |-> "ACTIVE"]
  <2>4. req' = [req EXCEPT ![p] = h] BY <2>1 DEF Await
  <2>5. \A q \in Request : req'[q] = req[q] \/
            (q = p /\ req'[q].pc = "saveConsumed" /\ req'[q].booking = req[q].booking)
    BY <1>2, <2>4
  <2>6. Within' /\ SpentOut'
    BY <1>2, <2>2, <2>3 DEF Within, SpentOut
  <2>7. Exhausting' BY <2>3, <2>5 DEF IInv, Exhausting
  <2>8. Paid' \in SUBSET Paid BY <2>1, <2>5 DEF Paid
  <2>9. Cardinality(Paid') <= Cardinality(Paid) BY <2>8, PaidFinite, FS_Subset
  <2>10. Cardinality(Paid) \in Nat /\ Cardinality(Paid') \in Nat
    BY <2>8, PaidFinite, FS_Subset, FS_CardinalityType
  <2>11. PaidIsCounted' BY <1>2, <2>3, <2>9, <2>10 DEF IInv, PaidIsCounted
  <2>12. QED BY <1>1, <2>6, <2>7, <2>11 DEF IInv
<1>15. ASSUME NEW p \in Request, SaveConsumed(p) PROVE IInv'
  <2>1. Calm BY <1>2, <1>15, End DEF SaveConsumed
  <2>2. req[p].pc = "saveConsumed" BY <1>15 DEF SaveConsumed
  <2>3. ASSUME NEW b \in Booking, usage'[b] = "CONSUMED" PROVE b \in Paid
    <3>1. CASE b = req[p].booking BY <2>2, <3>1 DEF Paid
    <3>2. CASE b # req[p].booking
      <4>1. usage'[b] = usage[b] BY <1>2, <1>15, <3>2 DEF SaveConsumed
      <4>2. QED BY <1>3, <2>3, <4>1
    <3>3. QED BY <3>1, <3>2
  <2>4. ent' = ent BY <1>15 DEF SaveConsumed
  <2>5. Harmless BY <1>2, <2>1, <2>3, <2>4 DEF Harmless
  <2>6. QED BY <1>1, <2>5, HarmlessStep
<1>16. ASSUME NEW p \in Request, Unreserve(p) PROVE IInv'
  <2>1. Calm BY <1>2, <1>6, <1>16 DEF Unreserve, Pc
  <2>2. QED BY <1>5, <1>16, <2>1 DEF Unreserve
<1>17. ASSUME NEW p \in Request, SaveReleased(p) PROVE IInv'
  <2>1. Calm BY <1>2, <1>17, End DEF SaveReleased
  <2>2. \A b \in Booking : usage'[b] = "CONSUMED" => usage[b] = "CONSUMED"
    BY <1>2, <1>17 DEF SaveReleased
  <2>3. ent' = ent BY <1>17 DEF SaveReleased
  <2>4. Harmless BY <1>2, <1>3, <2>1, <2>2, <2>3 DEF Harmless
  <2>5. QED BY <1>1, <2>4, HarmlessStep
<1>18. ASSUME NEW p \in Request, LoadAdjust(p) PROVE IInv'
  BY <1>18 DEF LoadAdjust
<1>19. ASSUME NEW p \in Request, SaveAdjust(p) PROVE IInv'
  BY <1>19 DEF SaveAdjust, IInv, Exhausting
<1>20. ASSUME NEW p \in Request, Fail(p) PROVE IInv'
  <2>1. Calm BY <1>2, <1>20, End DEF Fail
  <2>2. QED BY <1>4, <1>20, <2>1 DEF Fail
<1>21. ASSUME NEW f, NEW t, t # "EXHAUSTED", Change(f, t) PROVE IInv'
  <2>1. /\ ent'.used = ent.used /\ ent'.reserved = ent.reserved /\ ent'.status = t
        /\ UNCHANGED <<usage, req>>
    BY <1>2, <1>21 DEF Change, EntType
  <2>2. Harmless BY <1>2, <1>3, <1>21, <2>1 DEF Harmless
  <2>3. QED BY <1>1, <2>2, HarmlessStep
<1>22. CASE Suspend \/ Reactivate \/ ExpiryJob
  BY <1>21, <1>22 DEF Suspend, Reactivate, ExpiryJob
<1>23. QED
  BY <1>7, <1>8, <1>9, <1>10, <1>11, <1>12, <1>13, <1>14, <1>15, <1>16, <1>17, <1>18,
     <1>19, <1>20, <1>22 DEF Next, Handler

\* A correction is not forgotten.
LEMMA Sticks == ASSUME [Next]_vars, corrected PROVE corrected'
<1>1. CASE UNCHANGED vars BY <1>1 DEF vars
<1>2. ASSUME NEW p \in Request, Handler(p) PROVE corrected'
  <2>1. CASE \E b \in Booking : LoadReserve(p, b) \/ FindForConsume(p, b) \/ FindForRelease(p, b)
    BY <2>1 DEF LoadReserve, FindForConsume, FindForRelease
  <2>2. CASE FindUsage(p) \/ Increment(p) \/ CreateUsage(p) \/ Compensate(p)
    BY <2>2 DEF FindUsage, Increment, CreateUsage, Compensate
  <2>3. CASE Spend(p) \/ SaveExhausted(p) \/ SaveConsumed(p) \/ Unreserve(p) \/ SaveReleased(p)
    BY <2>3 DEF Spend, SaveExhausted, SaveConsumed, Unreserve, SaveReleased
  <2>4. CASE LoadAdjust(p) \/ SaveAdjust(p) \/ Fail(p)
    BY <2>4 DEF LoadAdjust, SaveAdjust, Fail
  <2>5. QED BY <1>2, <2>1, <2>2, <2>3, <2>4 DEF Handler
<1>3. CASE Suspend \/ Reactivate \/ ExpiryJob
  BY <1>3 DEF Suspend, Reactivate, ExpiryJob, Change
<1>4. QED BY <1>1, <1>2, <1>3 DEF Next

Uncorrected == TypeOK /\ (corrected \/ IInv)

LEMMA LedgerHolds == Spec => []Uncorrected
<1>1. ASSUME Init PROVE Uncorrected
  <2>1. TypeOK BY <1>1, InitTyped
  <2>2. Paid = {} BY <1>1 DEF Init, Paid, Idle
  <2>3. PaidIsCounted BY <1>1, <2>2, FS_EmptySet DEF Init, PaidIsCounted
  <2>4. QED BY <1>1, <2>1, <2>3, TotalAssumption
            DEF Uncorrected, IInv, Init, Within, SpentOut, Exhausting, Idle
<1>2. ASSUME Uncorrected, [Next]_vars PROVE Uncorrected'
  <2>1. TypeOK' BY <1>2, TypeStep DEF Uncorrected
  <2>2. CASE corrected' BY <2>1, <2>2 DEF Uncorrected
  <2>3. CASE ~corrected'
    <3>1. IInv BY <1>2, <2>3, Sticks DEF Uncorrected
    <3>2. IInv' BY <1>2, <2>3, <3>1, LedgerStep
    <3>3. QED BY <2>1, <3>2 DEF Uncorrected
  <2>4. QED BY <2>2, <2>3
<1>3. QED BY <1>1, <1>2, PTL DEF Spec

\* Bookings never get more than the plan's quantity together.
THEOREM Sold == Spec => []NeverOversold
<1>1. Uncorrected => NeverOversold BY DEF Uncorrected, IInv, Within, NeverOversold
<1>2. QED BY <1>1, LedgerHolds, PTL

\* An exhausted entitlement is spent.
THEOREM Exhausted == Spec => []ExhaustedWhenSpent
<1>1. Uncorrected => ExhaustedWhenSpent
  BY DEF Uncorrected, IInv, SpentOut, ExhaustedWhenSpent
<1>2. QED BY <1>1, LedgerHolds, PTL

\* Every usage shown as consumed has been counted.
THEOREM CountedOnce == Spec => []ConsumedIsCounted
<1>1. Uncorrected => ConsumedIsCounted
  <2> SUFFICES ASSUME IInv PROVE ConsumedIsCounted BY DEF Uncorrected, ConsumedIsCounted
  <2> DEFINE C == {b \in Booking : usage[b] = "CONSUMED"}
  <2>1. C \in SUBSET Paid BY DEF Paid
  <2>2. Cardinality(C) <= Cardinality(Paid) BY <2>1, PaidFinite, FS_Subset
  <2>3. Cardinality(C) \in Nat /\ Cardinality(Paid) \in Nat
    BY <2>1, PaidFinite, FS_Subset, FS_CardinalityType
  <2>4. ent.used \in Nat /\ Cardinality(Paid) <= ent.used BY DEF IInv, TypeOK, PaidIsCounted
  <2>5. QED BY <2>2, <2>3, <2>4 DEF ConsumedIsCounted
<1>2. QED BY <1>1, LedgerHolds, PTL

(***************************************************************************)
(* MarketplaceOrder                                                        *)
(***************************************************************************)

-----------------------------------------------------------------------------
(* Sequences and sets of reservations                                        *)

\* The rest of a sequence, and the elements that are left.
LEMMA TailOfSeq ==
  ASSUME NEW S, NEW s \in Seq(S), s # << >>
  PROVE  /\ Head(s) \in S /\ Tail(s) \in Seq(S)
         /\ Range(s) = {Head(s)} \cup Range(Tail(s))
         /\ IsInjective(s) => IsInjective(Tail(s)) /\ Head(s) \notin Range(Tail(s))
<1>1. Len(s) \in Nat \ {0} /\ DOMAIN s = 1 .. Len(s) /\ \A i \in 1 .. Len(s) : s[i] \in S
  OBVIOUS
<1>2. Head(s) = s[1] /\ Head(s) \in S BY <1>1
<1>3. /\ Tail(s) \in Seq(S) /\ DOMAIN Tail(s) = 1 .. Len(s) - 1
      /\ \A i \in 1 .. Len(s) - 1 : Tail(s)[i] = s[i + 1]
  BY <1>1
<1>4. Range(s) = {Head(s)} \cup Range(Tail(s))
  <2>1. ASSUME NEW i \in 1 .. Len(s) PROVE s[i] \in {Head(s)} \cup Range(Tail(s))
    <3>1. CASE i = 1 BY <1>2, <3>1
    <3>2. CASE i # 1
      <4>1. i - 1 \in 1 .. Len(s) - 1 /\ Tail(s)[i - 1] = s[i] BY <1>1, <1>3, <3>2
      <4>2. QED BY <1>3, <4>1 DEF Range
    <3>3. QED BY <3>1, <3>2
  <2>2. ASSUME NEW i \in 1 .. Len(s) - 1 PROVE Tail(s)[i] \in Range(s)
    <3>1. i + 1 \in 1 .. Len(s) BY <1>1
    <3>2. QED BY <1>1, <1>3, <3>1 DEF Range
  <2>3. Head(s) \in Range(s) BY <1>1, <1>2 DEF Range
  <2>4. Range(s) \subseteq {Head(s)} \cup Range(Tail(s)) BY <1>1, <2>1 DEF Range
  <2>5. Range(Tail(s)) \subseteq Range(s) BY <1>3, <2>2 DEF Range
  <2>6. QED BY <2>3, <2>4, <2>5
<1>5. ASSUME IsInjective(s) PROVE IsInjective(Tail(s)) /\ Head(s) \notin Range(Tail(s))
  <2>1. \A i, j \in 1 .. Len(s) : s[i] = s[j] => i = j BY <1>1, <1>5 DEF IsInjective
  <2>2. \A i \in 1 .. Len(s) - 1 : i + 1 \in 1 .. Len(s) /\ i + 1 # 1 BY <1>1
  <2>3. IsInjective(Tail(s))
    <3> SUFFICES ASSUME NEW i \in 1 .. Len(s) - 1, NEW j \in 1 .. Len(s) - 1,
                        Tail(s)[i] = Tail(s)[j]
                 PROVE  i = j
      BY <1>3 DEF IsInjective
    <3>1. s[i + 1] = s[j + 1] BY <1>3
    <3>2. i + 1 = j + 1 BY <2>1, <2>2, <3>1
    <3>3. QED BY <3>2
  <2>4. Head(s) \notin Range(Tail(s))
    <3>1. ASSUME NEW i \in 1 .. Len(s) - 1 PROVE Tail(s)[i] # Head(s)
      BY <1>1, <1>2, <1>3, <2>1, <2>2
    <3>2. QED BY <1>3, <3>1 DEF Range
  <2>5. QED BY <2>3, <2>4
<1>6. QED BY <1>2, <1>3, <1>4, <1>5

\* A sequence with nothing after its head.
LEMMA OneLeft ==
  ASSUME NEW S, NEW s \in Seq(S), s # << >>
  PROVE  s = <<Head(s)>> <=> Tail(s) = << >>
<1>1. Len(s) \in Nat \ {0} /\ s \in [1 .. Len(s) -> S] /\ Head(s) = s[1]
  OBVIOUS
<1>2. Tail(s) \in Seq(S) /\ Len(Tail(s)) = Len(s) - 1 BY <1>1
<1>3. ASSUME s = <<Head(s)>> PROVE Tail(s) = << >>
  <2>1. Len(s) = 1 BY <1>3
  <2>2. Len(Tail(s)) = 0 BY <1>2, <2>1
  <2>3. QED BY <1>2, <2>2, EmptySeq
<1>4. ASSUME Tail(s) = << >> PROVE s = <<Head(s)>>
  <2>1. Len(s) = 1
    <3>1. Len(<< >>) = 0 OBVIOUS
    <3>2. Len(Tail(s)) = 0 BY <1>4, <3>1
    <3>3. \A n \in Nat : n - 1 = 0 => n = 1 OBVIOUS
    <3>4. QED BY <1>1, <1>2, <3>2, <3>3
  <2>2. \A i \in 1 .. 1 : i = 1 OBVIOUS
  <2>3. DOMAIN s = 1 .. 1 /\ s[1] = Head(s) BY <1>1, <2>1
  <2>4. s = [i \in 1 .. 1 |-> Head(s)] BY <1>1, <2>1, <2>2, <2>3
  <2>5. <<Head(s)>> = [i \in 1 .. 1 |-> Head(s)] OBVIOUS
  <2>6. QED BY <2>4, <2>5
<1>5. QED BY <1>3, <1>4

\* One more element at the end of a sequence.
LEMMA AppendToSeq ==
  ASSUME NEW S, NEW s \in Seq(S), NEW e \in S
  PROVE  /\ Append(s, e) \in Seq(S) /\ Append(s, e) # << >>
         /\ Range(Append(s, e)) = Range(s) \cup {e}
         /\ IsInjective(s) /\ e \notin Range(s) => IsInjective(Append(s, e))
<1> DEFINE t == Append(s, e)
<1>1. /\ Len(s) \in Nat /\ DOMAIN s = 1 .. Len(s)
      /\ t \in Seq(S) /\ DOMAIN t = 1 .. Len(s) + 1
      /\ t[Len(s) + 1] = e /\ \A i \in 1 .. Len(s) : t[i] = s[i]
  OBVIOUS
<1>2. Len(s) + 1 \in DOMAIN t /\ \A i \in DOMAIN t : i \in 1 .. Len(s) \/ i = Len(s) + 1
  BY <1>1
<1>3. t # << >> BY <1>1, <1>2
<1>4. Range(t) = Range(s) \cup {e}
  <2>1. \A i \in DOMAIN s : i \in DOMAIN t BY <1>1
  <2>2. Range(t) \subseteq Range(s) \cup {e} BY <1>1, <1>2 DEF Range
  <2>3. Range(s) \subseteq Range(t) BY <1>1, <2>1 DEF Range
  <2>4. e \in Range(t) BY <1>1, <1>2 DEF Range
  <2>5. QED BY <2>2, <2>3, <2>4
<1>5. ASSUME IsInjective(s), e \notin Range(s) PROVE IsInjective(t)
  <2> SUFFICES ASSUME NEW i \in DOMAIN t, NEW j \in DOMAIN t, t[i] = t[j] PROVE i = j
    BY DEF IsInjective
  <2>1. \A k \in 1 .. Len(s) : s[k] # e BY <1>1, <1>5 DEF Range
  <2>2. CASE i \in 1 .. Len(s) /\ j \in 1 .. Len(s) BY <1>1, <1>5, <2>2 DEF IsInjective
  <2>3. QED BY <1>1, <1>2, <2>1, <2>2
<1>6. QED BY <1>1, <1>3, <1>4, <1>5

\* SetToSeqs orders a finite set.
LEMMA SeqOfSet ==
  ASSUME NEW S, IsFiniteSet(S), NEW s \in SetToSeqs(S)
  PROVE  s \in Seq(S) /\ IsInjective(s) /\ Range(s) \subseteq S
<1>1. Cardinality(S) \in Nat BY FS_CardinalityType
<1>2. /\ s \in [1 .. Cardinality(S) -> S]
      /\ \A i, j \in 1 .. Cardinality(S) : i # j => s[i] # s[j]
  BY DEF SetToSeqs
<1>3. s \in Seq(S) BY <1>1, <1>2
<1>4. QED BY <1>2, <1>3 DEF IsInjective, Range

\* Nothing is in an empty sequence.
LEMMA EmptySeqHasNone == Range(<< >>) = {} /\ IsInjective(<< >>)
  BY DEF Range, IsInjective

LEMMA FiniteReservations == IsFiniteSet(Reservation)
  BY OrderAssumption, VariantAssumption, FS_Product DEF Reservation

LEMMA NotReservation == NoReservation \notin Reservation /\ \A r \in Reservation : r # NoReservation
  BY OrderAssumption DEF NoReservation, Reservation

Reserving == {"reserve", "hold", "create"}
Confirming == {"item", "loadConfirm", "take", "saveConfirmed", "finish"}
\* Places where the handler has a reservation it is about to write.
AtOne == {"loadConfirm", "take", "saveConfirmed"}
HasCur == AtOne \cup {"hold", "lower", "saveReleased", "mark"}
NoCur == {"idle", "reserve", "create", "item", "finish"}

\* What a handler is at each place.
Shape(h) ==
  /\ h.pc = "idle" => h = NoHandler
  /\ h.pc \in OrderPc => h.id \in Order
  /\ h.pc = "mark" => h.id = NoOrder
  /\ h.pc \in HasCur => h.cur \in Reservation
  /\ h.pc \in NoCur => h.cur = NoReservation
  /\ h.pc = "reserve" => h.todo # << >>
  /\ h.pc \in {"create", "item"} \cup AtOne => h.own # << >>
  /\ h.pc = "finish" => h.own = << >>
  /\ h.pc \in AtOne => h.cur = Head(h.own)
  /\ h.id # NoOrder => /\ \A r \in Range(h.own) : r[1] = h.id
                       /\ h.cur # NoReservation => h.cur[1] = h.id

Shapes == \A p \in Proc : Shape(proc[p])

\* An order is worked on by one call, which knows how far it has come.
OneCall == \A p, q \in Proc : proc[p].id = proc[q].id /\ proc[p].id # NoOrder => p = q

Progress ==
  /\ \A o \in Order : order[o].status = "NONE" => order[o].items = {}
  /\ \A p \in Proc : proc[p].id # NoOrder /\ proc[p].pc \in Reserving \cup ReleasePc =>
       order[proc[p].id].status = "NONE"
  /\ \A p \in Proc : proc[p].pc \in Confirming => order[proc[p].id].status = "PENDING"

\* Until the partner goes below it, what is reserved is on the shelf.
Covered == history.lowered \/ \A v \in Variant : stock[v].reserved <= stock[v].available

MInv == MarketTypeOK /\ Shapes /\ OneCall /\ Progress /\ Covered

\* Nobody works on a reservation of another.
Apart == \A p, q \in Proc : p # q => InHand(p) \cap InHand(q) \subseteq {NoReservation}

\* What a handler h works on is as it found it; s are the reservations.
Held(h, s) ==
  /\ IsInjective(h.own)
  /\ \A r \in Range(h.own) : s[r].status = "ACTIVE"
  /\ h.pc \in {"lower", "saveReleased"} => h.cur \notin Range(h.own) /\ s[h.cur].status = "ACTIVE"
  /\ h.pc = "mark" => h.cur \notin Range(h.own) /\ s[h.cur].status = "RELEASED"
  /\ h.id = NoOrder /\ h.cur # NoReservation => s[h.cur].status # "NONE"

\* The lines still to be reserved are different ones.
Ahead(h, s) ==
  h.pc \in {"reserve", "hold"} =>
    /\ IsInjective(h.todo)
    /\ \A v \in Range(h.todo) : s[<<h.id, v>>].status = "NONE"
    /\ h.pc = "hold" => s[h.cur].status = "NONE" /\ h.cur[2] \notin Range(h.todo)

\* What became of the lines of an order o that are done with, or not begun.
Settled(o, v, s, d) == s[<<o, v>>].status = IF v \in d[o].items THEN "CONFIRMED" ELSE "NONE"

\* The lines a handler has left behind are confirmed, the others are untouched.
Behind(h, s, d) ==
  /\ h.pc \in OrderPc =>
       \A v \in Variant : <<h.id, v>> \notin Range(h.own) => Settled(h.id, v, s, d)
  /\ h.pc \in AtOne => h.cur[2] \in d[h.id].items

Orderly ==
  /\ Apart /\ SoldIsConfirmed
  /\ \A p \in Proc : Held(proc[p], res) /\ Ahead(proc[p], res) /\ Behind(proc[p], res, order)

OInv == history.late \/ Orderly

\* Reservations with a unit in reservedQuantity, and with one taken from the stock.
Counts(r) ==
  \/ /\ res[r].status = "ACTIVE"
     /\ ~\E p \in Proc : proc[p].pc \in {"saveConfirmed", "saveReleased"} /\ Cur(p) = r
  \/ \E p \in Proc : At(p, "hold") /\ Cur(p) = r
Taken(r) == res[r].status = "CONFIRMED" \/ \E p \in Proc : At(p, "saveConfirmed") /\ Cur(p) = r
Counted(v) == {r \in Reservation : r[2] = v /\ Counts(r)}
Gone(v) == {r \in Reservation : r[2] = v /\ Taken(r)}

Tally ==
  \A v \in Variant :
    /\ stock[v].reserved = Cardinality(Counted(v))
    /\ history.restocks = 0 => stock[v].available + Cardinality(Gone(v)) = InitialStock

CInv == history.late \/ history.cut \/ Tally

\* Places where a handler's reservation is not counted as its status says.
Between == {"hold", "saveConfirmed", "saveReleased"}
-----------------------------------------------------------------------------
(* Types, and what a handler has at each place                                *)

\* One handler moves on to h; it stays with its order, or is done with it.
Moves(p, h) ==
  /\ proc' = [proc EXCEPT ![p] = h]
  /\ h \in OrderHandlers /\ Shape(h)
  /\ h.id \in {proc[p].id, NoOrder}

LEMMA OneMoves ==
  ASSUME MInv, NEW p \in Proc, NEW h, Moves(p, h)
  PROVE  /\ proc' \in [Proc -> OrderHandlers] /\ Shapes' /\ OneCall'
         /\ proc'[p] = h /\ \A q \in Proc \ {p} : proc'[q] = proc[q]
<1>1. proc \in [Proc -> OrderHandlers] BY DEF MInv, MarketTypeOK
<1>2. /\ proc' \in [Proc -> OrderHandlers]
      /\ proc'[p] = h /\ \A q \in Proc \ {p} : proc'[q] = proc[q]
  BY <1>1 DEF Moves
<1>3. Shapes' BY <1>2 DEF MInv, Moves, Shapes
<1>4. OneCall' BY <1>2 DEF MInv, Moves, OneCall
<1>5. QED BY <1>2, <1>3, <1>4

LEMMA NoHandlerMoves ==
  ASSUME NEW p \in Proc, Return(p)
  PROVE  Moves(p, NoHandler)
<1>1. NoHandler \in OrderHandlers BY DEF NoHandler, OrderHandlers
<1>2. Shape(NoHandler)
  BY DEF Shape, NoHandler, OrderPc, HasCur, NoCur, AtOne
<1>3. NoHandler.id = NoOrder BY DEF NoHandler
<1>4. QED BY <1>1, <1>2, <1>3 DEF Moves, Return

\* A handler that keeps all it has moves to another place.
LEMMA ProceedMoves ==
  ASSUME MInv, NEW p \in Proc, NEW pc \in OrderPc \cup ReleasePc, Proceed(p, pc),
         Shape([proc[p] EXCEPT !.pc = pc])
  PROVE  Moves(p, [proc[p] EXCEPT !.pc = pc])
<1>1. proc[p] \in OrderHandlers BY DEF MInv, MarketTypeOK
<1>2. [proc[p] EXCEPT !.pc = pc] \in OrderHandlers BY <1>1 DEF OrderHandlers
<1>3. [proc[p] EXCEPT !.pc = pc].id = proc[p].id BY <1>1 DEF OrderHandlers
<1>4. QED BY <1>2, <1>3 DEF Moves, Proceed

\* The places of a handler, one of an order or of the job.
LEMMA PlaceTypes ==
  /\ OrderPc = Reserving \cup Confirming
  /\ AtOne \subseteq Confirming
  /\ "idle" \notin OrderPc \cup ReleasePc
  BY DEF OrderPc, Reserving, Confirming, AtOne, ReleasePc

\* Where each step of a handler takes it.
LEMMA BeginMoves ==
  ASSUME MInv, NEW p \in Proc, NEW o \in Order, NEW cart \in Carts,
         NEW k \in Key \cup {NoKey}, BeginOrder(p, o, cart, k)
  PROVE  /\ proc' \in [Proc -> OrderHandlers] /\ Shapes' /\ OneCall'
         /\ proc'[p] = [pc |-> "reserve", id |-> o, key |-> k, todo |-> cart,
                        own |-> << >>, cur |-> NoReservation]
         /\ \A q \in Proc \ {p} : proc'[q] = proc[q]
<1> DEFINE h == [pc |-> "reserve", id |-> o, key |-> k, todo |-> cart,
                 own |-> << >>, cur |-> NoReservation]
<1>1. proc \in [Proc -> OrderHandlers] BY DEF MInv, MarketTypeOK
<1>2. cart \in Seq(Variant) /\ cart # << >> BY CartAssumption
<1>3. h \in OrderHandlers BY <1>2 DEF OrderHandlers, OrderPc
<1>4. Shape(h)
  BY <1>2, EmptySeqHasNone DEF Shape, OrderPc, HasCur, NoCur, AtOne
<1>5. proc' = [proc EXCEPT ![p] = h] BY DEF BeginOrder
<1>6. \A q \in Proc : proc[q].id # o BY DEF BeginOrder, Unused
<1>7. /\ proc' \in [Proc -> OrderHandlers]
      /\ proc'[p] = h /\ \A q \in Proc \ {p} : proc'[q] = proc[q]
  BY <1>1, <1>3, <1>5
<1>8. Shapes' BY <1>4, <1>7 DEF MInv, Shapes
<1>9. OneCall' BY <1>6, <1>7 DEF MInv, OneCall
<1>10. QED BY <1>7, <1>8, <1>9

LEMMA ReserveMoves ==
  ASSUME MInv, NEW p \in Proc, Reserve(p)
  PROVE  /\ Head(proc[p].todo) \in Variant
         /\ Moves(p, [proc[p] EXCEPT !.pc = "hold", !.todo = Tail(proc[p].todo),
                        !.cur = <<proc[p].id, Head(proc[p].todo)>>])
<1> DEFINE v == Head(proc[p].todo)
           h == [proc[p] EXCEPT !.pc = "hold", !.todo = Tail(proc[p].todo),
                                !.cur = <<proc[p].id, v>>]
<1>1. proc[p] \in OrderHandlers /\ Shape(proc[p]) /\ proc[p].pc = "reserve"
  BY DEF MInv, MarketTypeOK, Shapes, Reserve, At
<1>2. proc[p].id \in Order /\ proc[p].todo # << >> /\ proc[p].todo \in Seq(Variant)
  BY <1>1 DEF Shape, OrderPc, OrderHandlers
<1>3. v \in Variant /\ Tail(proc[p].todo) \in Seq(Variant) BY <1>2, TailOfSeq
<1>4. <<proc[p].id, v>> \in Reservation BY <1>2, <1>3 DEF Reservation
<1>5. h \in OrderHandlers BY <1>1, <1>3, <1>4 DEF OrderHandlers, OrderPc
<1>6. /\ h.pc = "hold" /\ h.id = proc[p].id /\ h.own = proc[p].own
      /\ h.cur = <<proc[p].id, v>>
  BY <1>1 DEF OrderHandlers
<1>7. Shape(h) BY <1>1, <1>2, <1>4, <1>6 DEF Shape, OrderPc, HasCur, NoCur, AtOne
<1>8. proc' = [proc EXCEPT ![p] = h] BY DEF Reserve
<1>9. QED BY <1>3, <1>5, <1>6, <1>7, <1>8 DEF Moves

LEMMA CreateReservationMoves ==
  ASSUME MInv, NEW p \in Proc, CreateReservation(p)
  PROVE  Moves(p, [proc[p] EXCEPT !.pc = IF proc[p].todo = << >> THEN "create" ELSE "reserve",
                     !.own = Append(proc[p].own, proc[p].cur), !.cur = NoReservation])
<1> DEFINE pc == IF proc[p].todo = << >> THEN "create" ELSE "reserve"
           own == Append(proc[p].own, proc[p].cur)
           h == [proc[p] EXCEPT !.pc = pc, !.own = own, !.cur = NoReservation]
<1>1. proc[p] \in OrderHandlers /\ Shape(proc[p]) /\ proc[p].pc = "hold"
  BY DEF MInv, MarketTypeOK, Shapes, CreateReservation, At
<1>2. proc[p].id \in Order /\ proc[p].cur \in Reservation /\ proc[p].own \in Seq(Reservation)
  BY <1>1 DEF Shape, OrderPc, HasCur, OrderHandlers
<1>3. own \in Seq(Reservation) /\ own # << >> /\ Range(own) = Range(proc[p].own) \cup {proc[p].cur}
  BY <1>2, AppendToSeq
<1>4. h \in OrderHandlers BY <1>1, <1>3 DEF OrderHandlers, OrderPc
<1>5. /\ h.pc = pc /\ h.id = proc[p].id /\ h.own = own /\ h.todo = proc[p].todo
      /\ h.cur = NoReservation
  BY <1>1 DEF OrderHandlers
<1>6. proc[p].id # NoOrder /\ proc[p].cur # NoReservation
  BY <1>2, OrderAssumption, NotReservation
<1>7. \A r \in Range(own) : r[1] = proc[p].id BY <1>1, <1>3, <1>6 DEF Shape
<1>8. Shape(h)
  BY <1>2, <1>3, <1>5, <1>7 DEF Shape, OrderPc, HasCur, NoCur, AtOne
<1>9. proc' = [proc EXCEPT ![p] = h] BY DEF CreateReservation, Cur
<1>10. QED BY <1>4, <1>5, <1>8, <1>9 DEF Moves

LEMMA AddItemMoves ==
  ASSUME MInv, NEW p \in Proc, AddItem(p)
  PROVE  /\ Head(proc[p].own) \in Reservation
         /\ Moves(p, [proc[p] EXCEPT !.pc = "loadConfirm", !.cur = Head(proc[p].own)])
<1> DEFINE r == Head(proc[p].own)
           h == [proc[p] EXCEPT !.pc = "loadConfirm", !.cur = r]
<1>1. proc[p] \in OrderHandlers /\ Shape(proc[p]) /\ proc[p].pc = "item"
  BY DEF MInv, MarketTypeOK, Shapes, AddItem, At
<1>2. proc[p].id \in Order /\ proc[p].own # << >> /\ proc[p].own \in Seq(Reservation)
  BY <1>1 DEF Shape, OrderPc, OrderHandlers
<1>3. r \in Reservation /\ r \in Range(proc[p].own) BY <1>2, TailOfSeq
<1>4. h \in OrderHandlers BY <1>1, <1>3 DEF OrderHandlers, OrderPc
<1>5. h.pc = "loadConfirm" /\ h.id = proc[p].id /\ h.own = proc[p].own /\ h.cur = r
  BY <1>1 DEF OrderHandlers
<1>6. Shape(h)
  BY <1>1, <1>2, <1>3, <1>5 DEF Shape, OrderPc, HasCur, NoCur, AtOne
<1>7. proc' = [proc EXCEPT ![p] = h] BY DEF AddItem
<1>8. QED BY <1>3, <1>4, <1>5, <1>6, <1>7 DEF Moves

LEMMA SaveConfirmedMoves ==
  ASSUME MInv, NEW p \in Proc, SaveConfirmed(p)
  PROVE  /\ proc[p].cur \in Reservation
         /\ Moves(p, [proc[p] EXCEPT
              !.pc = IF proc[p].own = <<proc[p].cur>> THEN "finish" ELSE "item",
              !.own = Tail(proc[p].own), !.cur = NoReservation])
<1> DEFINE own == proc[p].own
           pc == IF own = <<proc[p].cur>> THEN "finish" ELSE "item"
           h == [proc[p] EXCEPT !.pc = pc, !.own = Tail(own), !.cur = NoReservation]
<1>1. proc[p] \in OrderHandlers /\ Shape(proc[p]) /\ proc[p].pc = "saveConfirmed"
  BY DEF MInv, MarketTypeOK, Shapes, SaveConfirmed, At
<1>2. /\ proc[p].id \in Order /\ own # << >> /\ own \in Seq(Reservation)
      /\ proc[p].cur = Head(own) /\ proc[p].cur \in Reservation
  BY <1>1 DEF Shape, OrderPc, OrderHandlers, AtOne, HasCur
<1>3. Tail(own) \in Seq(Reservation) /\ Range(Tail(own)) \subseteq Range(own)
  BY <1>2, TailOfSeq
<1>4. own = <<proc[p].cur>> <=> Tail(own) = << >> BY <1>2, OneLeft
<1>5. h \in OrderHandlers BY <1>1, <1>3 DEF OrderHandlers, OrderPc
<1>6. h.pc = pc /\ h.id = proc[p].id /\ h.own = Tail(own) /\ h.cur = NoReservation
  BY <1>1 DEF OrderHandlers
<1>7. \A r \in Range(Tail(own)) : proc[p].id # NoOrder => r[1] = proc[p].id
  BY <1>1, <1>3 DEF Shape
<1>8. Shape(h)
  BY <1>2, <1>4, <1>6, <1>7 DEF Shape, OrderPc, HasCur, NoCur, AtOne
<1>9. proc' = [proc EXCEPT ![p] = h] BY DEF SaveConfirmed, Cur
<1>10. QED BY <1>2, <1>5, <1>6, <1>8, <1>9 DEF Moves

LEMMA LoadReleaseMoves ==
  ASSUME MInv, NEW p \in Proc, LoadRelease(p), proc[p].own # << >>
  PROVE  Moves(p, [proc[p] EXCEPT
           !.pc = IF res[Head(proc[p].own)].status = "ACTIVE" THEN "lower" ELSE AfterRelease(p),
           !.own = Tail(proc[p].own), !.cur = Head(proc[p].own)])
<1> DEFINE own == proc[p].own
           pc == IF res[Head(own)].status = "ACTIVE" THEN "lower" ELSE AfterRelease(p)
           h == [proc[p] EXCEPT !.pc = pc, !.own = Tail(own), !.cur = Head(own)]
<1>1. proc[p] \in OrderHandlers /\ Shape(proc[p]) /\ proc[p].pc = "next"
  BY DEF MInv, MarketTypeOK, Shapes, LoadRelease, At
<1>2. own \in Seq(Reservation) BY <1>1 DEF OrderHandlers
<1>3. /\ Tail(own) \in Seq(Reservation) /\ Head(own) \in Reservation
      /\ Range(own) = {Head(own)} \cup Range(Tail(own))
  BY <1>2, TailOfSeq
<1>4. pc \in {"lower", "mark", "next"} /\ (pc = "mark" => proc[p].id = NoOrder)
  BY DEF AfterRelease
<1>5. h \in OrderHandlers BY <1>1, <1>3, <1>4 DEF OrderHandlers, ReleasePc
<1>6. h.pc = pc /\ h.id = proc[p].id /\ h.own = Tail(own) /\ h.cur = Head(own)
  BY <1>1 DEF OrderHandlers
<1>7. Shape(h)
  BY <1>1, <1>3, <1>4, <1>6 DEF Shape, OrderPc, HasCur, NoCur, AtOne
<1>8. proc' = [proc EXCEPT ![p] = h] BY DEF LoadRelease
<1>9. QED BY <1>5, <1>6, <1>7, <1>8 DEF Moves

\* The reservations the job may find.
Stale == {r \in Reservation : res[r].status = "ACTIVE" /\ res[r].old}

LEMMA JobFindMoves ==
  ASSUME MInv, NEW p \in Proc, JobFind(p)
  PROVE  \E s \in Seq(Reservation) :
           /\ IsInjective(s) /\ Range(s) \subseteq Stale
           /\ Moves(p, [proc[p] EXCEPT !.pc = "next", !.own = s])
<1>1. proc[p] \in OrderHandlers /\ proc[p] = NoHandler
  BY DEF MInv, MarketTypeOK, Shapes, Shape, JobFind, At
<1>2. PICK s \in SetToSeqs(Stale) : proc' = [proc EXCEPT ![p].pc = "next", ![p].own = s]
  BY DEF JobFind, Stale
<1>3. IsFiniteSet(Stale) BY FiniteReservations, FS_Subset DEF Stale
<1>4. s \in Seq(Stale) /\ IsInjective(s) /\ Range(s) \subseteq Stale BY <1>3, SeqOfSet
<1>5. s \in Seq(Reservation) BY <1>4 DEF Stale
<1> DEFINE h == [proc[p] EXCEPT !.pc = "next", !.own = s]
<1>6. h \in OrderHandlers BY <1>1, <1>5 DEF OrderHandlers, ReleasePc
<1>7. h.pc = "next" /\ h.id = NoOrder /\ h.own = s /\ proc[p].id = NoOrder
  BY <1>1 DEF NoHandler
<1>8. Shape(h) BY <1>7 DEF Shape, OrderPc, HasCur, NoCur, AtOne
<1>9. proc' = [proc EXCEPT ![p] = h] BY <1>2
<1>10. QED BY <1>4, <1>5, <1>6, <1>7, <1>8, <1>9 DEF Moves

-----------------------------------------------------------------------------
(* MInv is inductive                                                        *)

\* A step of p that writes no order.
LEMMA StepKeeps ==
  ASSUME MInv, NEW p \in Proc, NEW h, Moves(p, h), UNCHANGED order,
         stock' \in [Variant -> Stocks], res' \in [Reservation -> Reservations],
         history' \in Histories, Covered',
         h.pc \in Confirming => order[h.id].status = "PENDING",
         h.id # NoOrder /\ h.pc \in Reserving \cup ReleasePc => order[h.id].status = "NONE"
  PROVE  MInv'
<1>1. /\ proc' \in [Proc -> OrderHandlers] /\ Shapes' /\ OneCall'
      /\ proc'[p] = h /\ \A q \in Proc \ {p} : proc'[q] = proc[q]
  BY OneMoves
<1>2. MarketTypeOK' BY <1>1 DEF MInv, MarketTypeOK
<1>3. Progress' BY <1>1 DEF MInv, Progress
<1>4. QED BY <1>1, <1>2, <1>3 DEF MInv

\* A step of p that writes its own order.
LEMMA OrderKeeps ==
  ASSUME MInv, NEW p \in Proc, NEW h, Moves(p, h), NEW doc \in Orders,
         proc[p].id \in Order, order' = [order EXCEPT ![proc[p].id] = doc],
         UNCHANGED <<stock, res, history>>, doc.status # "NONE",
         h.pc \in {"item", "loadConfirm", "idle"},
         h.pc # "idle" => h.id = proc[p].id /\ doc.status = "PENDING"
  PROVE  MInv'
<1>1. /\ proc' \in [Proc -> OrderHandlers] /\ Shapes' /\ OneCall'
      /\ proc'[p] = h /\ \A q \in Proc \ {p} : proc'[q] = proc[q]
  BY OneMoves
<1>2. order \in [Order -> Orders] BY DEF MInv, MarketTypeOK
<1>3. order' \in [Order -> Orders] /\ order'[proc[p].id] = doc
      /\ \A o \in Order \ {proc[p].id} : order'[o] = order[o]
  BY <1>2
<1>4. MarketTypeOK' BY <1>1, <1>3 DEF MInv, MarketTypeOK
<1>5. Covered' BY DEF MInv, Covered
<1>6. \A q \in Proc \ {p} : proc[q].id # NoOrder => proc[q].id # proc[p].id
  BY DEF MInv, OneCall
<1>7. \A q \in Proc : /\ proc[q].id \in Order \cup {NoOrder}
                      /\ proc[q].pc \in Confirming => proc[q].id \in Order
  BY PlaceTypes DEF MInv, MarketTypeOK, OrderHandlers, Shapes, Shape
<1>8. Progress'
  <2>1. \A o \in Order : order'[o].status = "NONE" => order'[o].items = {}
    BY <1>3 DEF MInv, Progress
  <2>2. ASSUME NEW q \in Proc, proc'[q].id # NoOrder, proc'[q].pc \in Reserving \cup ReleasePc
        PROVE  order'[proc'[q].id].status = "NONE"
    <3>1. q # p BY <1>1, <2>2 DEF Reserving, ReleasePc
    <3>2. QED BY <1>1, <1>3, <1>6, <1>7, <2>2, <3>1 DEF MInv, Progress
  <2>3. ASSUME NEW q \in Proc, proc'[q].pc \in Confirming
        PROVE  order'[proc'[q].id].status = "PENDING"
    <3>1. CASE q = p BY <1>1, <1>3, <2>3, <3>1 DEF Confirming
    <3>2. CASE q # p
      <4>1. proc[q].id \in Order /\ proc[q].id # NoOrder
        BY <1>1, <1>7, <2>3, <3>2, OrderAssumption
      <4>2. QED BY <1>1, <1>3, <1>6, <2>3, <3>2, <4>1 DEF MInv, Progress
    <3>3. QED BY <3>1, <3>2
  <2>4. QED BY <2>1, <2>2, <2>3 DEF Progress
<1>9. QED BY <1>1, <1>4, <1>5, <1>8 DEF MInv

LEMMA StatusTyped ==
  ASSUME MInv, NEW r, NEW s \in ResStatus, SetStatus(r, s)
  PROVE  /\ res' \in [Reservation -> Reservations]
         /\ r \in Reservation => res'[r].status = s
         /\ \A x \in Reservation \ {r} : res'[x] = res[x]
  BY DEF MInv, MarketTypeOK, SetStatus, Reservations

\* A counter of one row.
LEMMA RowTyped ==
  ASSUME MInv, NEW v \in Variant, NEW row \in Stocks, stock' = [stock EXCEPT ![v] = row],
         UNCHANGED history, history.lowered \/ row.reserved <= row.available
  PROVE  /\ stock' \in [Variant -> Stocks] /\ Covered'
         /\ stock'[v] = row /\ \A w \in Variant \ {v} : stock'[w] = stock[w]
<1>1. /\ stock' \in [Variant -> Stocks]
      /\ stock'[v] = row /\ \A w \in Variant \ {v} : stock'[w] = stock[w]
  BY DEF MInv, MarketTypeOK
<1>2. QED BY <1>1 DEF MInv, Covered

\* What a handler in place knows.
LEMMA InPlace ==
  ASSUME MInv, NEW p \in Proc
  PROVE  /\ proc[p] \in OrderHandlers /\ Shape(proc[p])
         /\ proc[p].pc \in Confirming =>
              /\ proc[p].id \in Order /\ proc[p].id # NoOrder
              /\ order[proc[p].id].status = "PENDING"
         /\ proc[p].pc \in Reserving => proc[p].id \in Order /\ proc[p].id # NoOrder
         /\ proc[p].pc \in Reserving \cup ReleasePc /\ proc[p].id # NoOrder =>
              order[proc[p].id].status = "NONE"
         /\ proc[p].pc \in HasCur => proc[p].cur \in Reservation /\ proc[p].cur[2] \in Variant
<1>1. proc[p] \in OrderHandlers /\ Shape(proc[p]) BY DEF MInv, MarketTypeOK, Shapes
<1>2. proc[p].pc \in Confirming \cup Reserving => proc[p].id \in Order /\ proc[p].id # NoOrder
  BY <1>1, PlaceTypes, OrderAssumption DEF Shape
<1>3. proc[p].pc \in HasCur => proc[p].cur \in Reservation /\ proc[p].cur[2] \in Variant
  BY <1>1 DEF Shape, Reservation
<1>4. QED BY <1>1, <1>2, <1>3 DEF MInv, Progress

LEMMA ReturnKeeps ==
  ASSUME MInv, NEW p \in Proc, Return(p), UNCHANGED <<stock, res, order>>,
         history' \in Histories, history'.lowered = history.lowered
  PROVE  MInv'
<1>1. Moves(p, NoHandler) BY NoHandlerMoves
<1>2. NoHandler.id = NoOrder /\ NoHandler.pc \notin Confirming
  BY DEF NoHandler, Confirming
<1>3. Covered' BY DEF MInv, Covered
<1>4. QED BY <1>1, <1>2, <1>3, StepKeeps DEF MInv, MarketTypeOK

\* p goes on, and nothing but its place, and one reservation or row, changes.
LEMMA ProceedKeeps ==
  ASSUME MInv, NEW p \in Proc, NEW pc \in OrderPc \cup ReleasePc, Proceed(p, pc),
         Shape([proc[p] EXCEPT !.pc = pc]), UNCHANGED order,
         stock' \in [Variant -> Stocks], res' \in [Reservation -> Reservations],
         history' \in Histories, Covered',
         \/ proc[p].pc \in Confirming /\ pc \in Confirming
         \/ proc[p].pc \in Reserving \cup ReleasePc /\ pc \in ReleasePc
  PROVE  MInv'
<1> DEFINE h == [proc[p] EXCEPT !.pc = pc]
<1>1. Moves(p, h) BY ProceedMoves
<1>2. h.pc = pc /\ h.id = proc[p].id BY InPlace DEF OrderHandlers
<1>3. h.pc \in Confirming => order[h.id].status = "PENDING"
  BY <1>2, InPlace DEF Confirming, ReleasePc
<1>4. h.id # NoOrder /\ h.pc \in Reserving \cup ReleasePc => order[h.id].status = "NONE"
  BY <1>2, InPlace DEF Confirming, Reserving, ReleasePc
<1>5. QED BY <1>1, <1>3, <1>4, StepKeeps

LEMMA InitMInv == MarketInit => MInv
<1> SUFFICES ASSUME MarketInit PROVE MInv
  OBVIOUS
<1>1. NoHandler \in OrderHandlers /\ Shape(NoHandler) /\ NoHandler.id = NoOrder
      /\ NoHandler.pc = "idle"
  BY DEF NoHandler, OrderHandlers, Shape, OrderPc, HasCur, NoCur, AtOne
<1>2. stock \in [Variant -> Stocks] BY StockAssumption DEF MarketInit, Stocks
<1>3. res \in [Reservation -> Reservations] BY DEF MarketInit, Reservations, ResStatus
<1>4. order \in [Order -> Orders] BY DEF MarketInit, Orders
<1>5. proc \in [Proc -> OrderHandlers] /\ Shapes /\ OneCall
  BY <1>1 DEF MarketInit, Shapes, OneCall
<1>6. history \in Histories BY BoundAssumption DEF MarketInit, Histories
<1>7. Progress BY <1>1 DEF MarketInit, Progress, Confirming
<1>8. Covered BY StockAssumption DEF MarketInit, Covered
<1>9. QED BY <1>2, <1>3, <1>4, <1>5, <1>6, <1>7, <1>8 DEF MInv, MarketTypeOK

LEMMA BeginKeeps ==
  ASSUME MInv, NEW p \in Proc, NEW o \in Order, NEW cart \in Carts,
         NEW k \in Key \cup {NoKey}, BeginOrder(p, o, cart, k)
  PROVE  MInv'
<1> DEFINE h == [pc |-> "reserve", id |-> o, key |-> k, todo |-> cart,
                 own |-> << >>, cur |-> NoReservation]
<1>1. /\ proc' \in [Proc -> OrderHandlers] /\ Shapes' /\ OneCall'
      /\ proc'[p] = h /\ \A q \in Proc \ {p} : proc'[q] = proc[q]
  BY BeginMoves
<1>2. order[o].status = "NONE" /\ UNCHANGED <<stock, res, order, history>>
  BY DEF BeginOrder, Unused
<1>3. MarketTypeOK' /\ Covered' BY <1>1, <1>2 DEF MInv, MarketTypeOK, Covered
<1>4. Progress' BY <1>1, <1>2 DEF MInv, Progress, Confirming
<1>5. QED BY <1>1, <1>3, <1>4 DEF MInv

\* A handler that failed, or stopped, is remembered.
LEMMA FailureKnown ==
  ASSUME MInv, NEW c \in BOOLEAN, history.fails < MaxFails,
         history' = [history EXCEPT !.fails = history.fails + 1, !.cut = c]
  PROVE  /\ history' \in Histories
         /\ history'.cut = c /\ history'.late = history.late
         /\ history'.lowered = history.lowered /\ history'.restocks = history.restocks
<1>1. history \in Histories BY DEF MInv, MarketTypeOK
<1>2. history.fails + 1 \in 0 .. MaxFails BY <1>1, BoundAssumption DEF Histories
<1>3. QED BY <1>1, <1>2 DEF Histories

LEMMA FailsKnown ==
  ASSUME MInv, NEW p \in Proc, ReservationFails(p)
  PROVE  /\ history' \in Histories
         /\ history'.cut = (history.cut \/ At(p, "hold")) /\ history'.late = history.late
         /\ history'.lowered = history.lowered /\ history'.restocks = history.restocks
<1> DEFINE c == history.cut \/ At(p, "hold")
<1>1. c \in BOOLEAN BY Zenon
<1>2. history.fails < MaxFails /\ history' = [history EXCEPT !.fails = history.fails + 1, !.cut = c]
  BY DEF ReservationFails
<1> HIDE DEF c
<1>3. /\ history' \in Histories /\ history'.cut = c /\ history'.late = history.late
      /\ history'.lowered = history.lowered /\ history'.restocks = history.restocks
  BY <1>1, <1>2, FailureKnown
<1>4. QED BY <1>3 DEF c

LEMMA StopKnown ==
  ASSUME MInv, NEW p \in Proc, Stop(p)
  PROVE  /\ history' \in Histories
         /\ history'.cut = (history.cut \/ HalfWay(p)) /\ history'.late = history.late
         /\ history'.lowered = history.lowered /\ history'.restocks = history.restocks
<1> DEFINE c == history.cut \/ HalfWay(p)
<1>1. c \in BOOLEAN BY Zenon
<1>2. history.fails < MaxFails /\ history' = [history EXCEPT !.fails = history.fails + 1, !.cut = c]
  BY DEF Stop
<1> HIDE DEF c
<1>3. /\ history' \in Histories /\ history'.cut = c /\ history'.late = history.late
      /\ history'.lowered = history.lowered /\ history'.restocks = history.restocks
  BY <1>1, <1>2, FailureKnown
<1>4. QED BY <1>3 DEF c

\* Handlers that only move on, or come to an end.
LEMMA MovingKeeps ==
  ASSUME MInv, NEW p \in Proc,
         Refuse(p) \/ ReservationFails(p) \/ LoadConfirm(p) \/ LoadRelease(p) \/ JobFind(p)
           \/ Stop(p)
  PROVE  MInv'
<1>1. /\ MarketTypeOK /\ history \in Histories
      /\ stock \in [Variant -> Stocks] /\ res \in [Reservation -> Reservations]
  BY DEF MInv, MarketTypeOK
<1>2. ASSUME history' \in Histories, history'.lowered = history.lowered, UNCHANGED stock
      PROVE  Covered'
  BY <1>2 DEF MInv, Covered
<1>3. CASE Refuse(p) \/ ReservationFails(p)
  <2>1. /\ proc[p].pc \in {"reserve", "hold"} /\ Proceed(p, "next")
        /\ UNCHANGED <<stock, res, order>>
    BY <1>3 DEF Refuse, ReservationFails, At
  <2>2. history' \in Histories /\ history'.lowered = history.lowered
    BY <1>1, <1>3, FailsKnown DEF Refuse
  <2>3. Shape([proc[p] EXCEPT !.pc = "next"])
    BY <2>1, InPlace DEF Shape, OrderHandlers, OrderPc, HasCur, NoCur, AtOne
  <2>4. "next" \in ReleasePc /\ proc[p].pc \in Reserving BY <2>1 DEF ReleasePc, Reserving
  <2>5. QED BY <1>1, <1>2, <2>1, <2>2, <2>3, <2>4, ProceedKeeps
<1>4. CASE LoadConfirm(p)
  <2>1. proc[p].pc = "loadConfirm" /\ UNCHANGED <<stock, res, order, history>>
    BY <1>4 DEF LoadConfirm, At
  <2>2. CASE Return(p) BY <1>1, <2>1, <2>2, ReturnKeeps
  <2>3. CASE Proceed(p, "take")
    <3>1. Shape([proc[p] EXCEPT !.pc = "take"])
      BY <2>1, InPlace DEF Shape, OrderHandlers, OrderPc, HasCur, NoCur, AtOne
    <3>2. "take" \in Confirming \cap OrderPc /\ proc[p].pc \in Confirming
      BY <2>1 DEF Confirming, OrderPc
    <3>3. QED BY <1>1, <1>2, <2>1, <2>3, <3>1, <3>2, ProceedKeeps
  <2>4. QED BY <1>4, <2>2, <2>3 DEF LoadConfirm
<1>5. CASE LoadRelease(p)
  <2>1. proc[p].pc = "next" /\ UNCHANGED <<stock, res, order, history>>
    BY <1>5 DEF LoadRelease, At
  <2>2. CASE Return(p) BY <1>1, <2>1, <2>2, ReturnKeeps
  <2>3. CASE proc[p].own # << >>
    <3> DEFINE pc == IF res[Head(proc[p].own)].status = "ACTIVE" THEN "lower" ELSE AfterRelease(p)
               h == [proc[p] EXCEPT !.pc = pc, !.own = Tail(proc[p].own),
                                    !.cur = Head(proc[p].own)]
    <3>1. Moves(p, h) BY <1>5, <2>3, LoadReleaseMoves
    <3>2. h.pc \in ReleasePc /\ h.id = proc[p].id /\ proc[p].pc \in ReleasePc
      BY <2>1, InPlace DEF OrderHandlers, ReleasePc, AfterRelease
    <3>3. h.pc \notin Confirming BY <3>2 DEF ReleasePc, Confirming
    <3>4. h.id # NoOrder => order[h.id].status = "NONE" BY <3>2, InPlace
    <3>5. QED BY <1>1, <1>2, <2>1, <3>1, <3>3, <3>4, StepKeeps
  <2>4. QED BY <1>5, <2>2, <2>3 DEF LoadRelease
<1>6. CASE JobFind(p)
  <2>1. PICK s \in Seq(Reservation) : Moves(p, [proc[p] EXCEPT !.pc = "next", !.own = s])
    BY <1>6, JobFindMoves
  <2>2. proc[p] = NoHandler /\ UNCHANGED <<stock, res, order>>
    BY <1>6, InPlace DEF JobFind, At, Shape
  <2> DEFINE h == [proc[p] EXCEPT !.pc = "next", !.own = s]
             found == {r \in Reservation : res[r].status = "ACTIVE" /\ res[r].old}
             late == history.late \/ \E q \in Proc : found \cap InHand(q) # {}
  <2>3. h.pc = "next" /\ h.id = NoOrder BY <2>2 DEF NoHandler
  <2>4. late \in BOOLEAN BY <1>1, Zenon
  <2>5. history' = [history EXCEPT !.late = late] BY <1>6 DEF JobFind
  <2>6. history' \in Histories /\ history'.lowered = history.lowered
    <3> HIDE DEF late
    <3>1. QED BY <1>1, <2>4, <2>5 DEF Histories
  <2>7. QED BY <1>1, <1>2, <2>1, <2>2, <2>3, <2>6, StepKeeps DEF Confirming
<1>7. CASE Stop(p)
  <2>1. Return(p) /\ UNCHANGED <<stock, res, order>> BY <1>7 DEF Stop
  <2>2. history' \in Histories /\ history'.lowered = history.lowered
    BY <1>7, StopKnown
  <2>3. QED BY <2>1, <2>2, ReturnKeeps
<1>8. QED BY <1>3, <1>4, <1>5, <1>6, <1>7

\* Handlers that write an order.
LEMMA OrderingKeeps ==
  ASSUME MInv, NEW p \in Proc, CreateOrder(p) \/ AddItem(p) \/ FinishOrder(p)
  PROVE  MInv'
<1>1. /\ proc[p].id \in Order /\ proc[p] \in OrderHandlers /\ Shape(proc[p])
      /\ order[proc[p].id] \in Orders /\ history \in Histories
      /\ UNCHANGED <<stock, res, history>>
  BY InPlace DEF CreateOrder, AddItem, FinishOrder, At, Confirming, Reserving, MInv, MarketTypeOK
<1>2. CASE CreateOrder(p) /\ KeyUsed(proc[p].key)
  BY <1>1, <1>2, ReturnKeeps DEF CreateOrder
<1>3. CASE CreateOrder(p) /\ ~KeyUsed(proc[p].key)
  <2> DEFINE h == [proc[p] EXCEPT !.pc = "item"]
             doc == [status |-> "PENDING", key |-> proc[p].key, items |-> {}]
  <2>1. proc[p].pc = "create" /\ Proceed(p, "item") /\ order' = [order EXCEPT ![proc[p].id] = doc]
    BY <1>3 DEF CreateOrder, At
  <2>2. Shape(h)
    BY <1>1, <2>1 DEF Shape, OrderHandlers, OrderPc, HasCur, NoCur, AtOne
  <2>3. Moves(p, h) BY <2>1, <2>2, ProceedMoves DEF OrderPc
  <2>4. h.pc = "item" /\ h.id = proc[p].id BY <1>1 DEF OrderHandlers
  <2>5. doc \in Orders /\ doc.status = "PENDING" BY <1>1 DEF Orders, OrderHandlers
  <2>6. QED BY <1>1, <2>1, <2>3, <2>4, <2>5, OrderKeeps
<1>4. CASE AddItem(p)
  <2> DEFINE r == Head(proc[p].own)
             h == [proc[p] EXCEPT !.pc = "loadConfirm", !.cur = r]
             doc == [order[proc[p].id] EXCEPT !.items = order[proc[p].id].items \cup {r[2]}]
  <2>1. proc[p].pc = "item" /\ order' = [order EXCEPT ![proc[p].id] = doc]
    BY <1>4 DEF AddItem, At
  <2>2. r \in Reservation /\ Moves(p, h) BY <1>4, AddItemMoves
  <2>3. h.pc = "loadConfirm" /\ h.id = proc[p].id BY <1>1 DEF OrderHandlers
  <2>4. order[proc[p].id].status = "PENDING" BY <2>1, InPlace DEF Confirming
  <2>5. doc \in Orders /\ doc.status = "PENDING" BY <1>1, <2>2, <2>4 DEF Orders, Reservation
  <2>6. QED BY <1>1, <2>1, <2>2, <2>3, <2>5, OrderKeeps
<1>5. CASE FinishOrder(p)
  <2>1. PICK s \in {"CONFIRMED", "PENDING"} : order' = [order EXCEPT ![proc[p].id].status = s]
    BY <1>5 DEF FinishOrder
  <2> DEFINE doc == [order[proc[p].id] EXCEPT !.status = s]
  <2>2. order' = [order EXCEPT ![proc[p].id] = doc] BY <2>1
  <2>3. doc \in Orders /\ doc.status = s BY <1>1 DEF Orders
  <2>4. Moves(p, NoHandler) /\ NoHandler.pc = "idle"
    BY <1>5, NoHandlerMoves DEF FinishOrder, NoHandler
  <2>5. QED BY <1>1, <2>2, <2>3, <2>4, OrderKeeps
<1>6. QED BY <1>2, <1>3, <1>4, <1>5

\* Handlers that write a reservation.
LEMMA SavingKeeps ==
  ASSUME MInv, NEW p \in Proc,
         CreateReservation(p) \/ SaveConfirmed(p) \/ SaveRelease(p) \/ Mark(p)
  PROVE  MInv'
<1>1. /\ stock' \in [Variant -> Stocks] /\ history' \in Histories /\ Covered'
      /\ UNCHANGED <<stock, order, history>> /\ proc[p] \in OrderHandlers
  BY DEF CreateReservation, SaveConfirmed, SaveRelease, Mark, MInv, MarketTypeOK, Covered
<1>2. res' \in [Reservation -> Reservations]
  BY StatusTyped DEF CreateReservation, SaveConfirmed, SaveRelease, Mark, ResStatus
<1>3. CASE CreateReservation(p)
  <2> DEFINE pc == IF proc[p].todo = << >> THEN "create" ELSE "reserve"
             h == [proc[p] EXCEPT !.pc = pc, !.own = Append(proc[p].own, proc[p].cur),
                                  !.cur = NoReservation]
  <2>1. Moves(p, h) BY <1>3, CreateReservationMoves
  <2>2. h.pc = pc /\ h.id = proc[p].id BY <1>1 DEF OrderHandlers
  <2>3. order[proc[p].id].status = "NONE"
    BY <1>3, InPlace DEF CreateReservation, At, Reserving
  <2>4. h.pc \notin Confirming BY <2>2 DEF Confirming
  <2>5. QED BY <1>1, <1>2, <2>1, <2>2, <2>3, <2>4, StepKeeps
<1>4. CASE SaveConfirmed(p)
  <2> DEFINE pc == IF proc[p].own = <<proc[p].cur>> THEN "finish" ELSE "item"
             h == [proc[p] EXCEPT !.pc = pc, !.own = Tail(proc[p].own), !.cur = NoReservation]
  <2>1. Moves(p, h) BY <1>4, SaveConfirmedMoves
  <2>2. h.pc = pc /\ h.id = proc[p].id BY <1>1 DEF OrderHandlers
  <2>3. order[proc[p].id].status = "PENDING"
    BY <1>4, InPlace DEF SaveConfirmed, At, Confirming
  <2>4. h.pc \notin Reserving \cup ReleasePc BY <2>2 DEF Reserving, ReleasePc
  <2>5. QED BY <1>1, <1>2, <2>1, <2>2, <2>3, <2>4, StepKeeps
<1>5. CASE SaveRelease(p) \/ Mark(p)
  <2> DEFINE pc == IF At(p, "mark") THEN "next" ELSE AfterRelease(p)
  <2>1. proc[p].pc \in {"saveReleased", "mark"} /\ Proceed(p, pc)
    BY <1>5 DEF SaveRelease, Mark, At
  <2>2. pc \in {"next", "mark"} /\ (pc = "mark" => proc[p].id = NoOrder) BY DEF AfterRelease
  <2>3. Shape([proc[p] EXCEPT !.pc = pc])
    BY <2>1, <2>2, InPlace DEF Shape, OrderHandlers, OrderPc, HasCur, NoCur, AtOne
  <2>4. pc \in ReleasePc /\ proc[p].pc \in ReleasePc BY <2>1, <2>2 DEF ReleasePc
  <2>5. QED BY <1>1, <1>2, <2>1, <2>3, <2>4, ProceedKeeps
<1>6. QED BY <1>3, <1>4, <1>5

\* Handlers that change the counters of a row.
LEMMA CountingKeeps ==
  ASSUME MInv, NEW p \in Proc, Reserve(p) \/ Take(p) \/ Lower(p)
  PROVE  MInv'
<1>1. /\ UNCHANGED <<res, order, history>> /\ proc[p] \in OrderHandlers
      /\ history' \in Histories /\ res' \in [Reservation -> Reservations]
      /\ stock \in [Variant -> Stocks]
  BY DEF Reserve, Take, Lower, MInv, MarketTypeOK
<1>2. CASE Reserve(p)
  <2> DEFINE v == Head(proc[p].todo)
             row == [stock[v] EXCEPT !.reserved = stock[v].reserved + 1]
             h == [proc[p] EXCEPT !.pc = "hold", !.todo = Tail(proc[p].todo),
                                  !.cur = <<proc[p].id, v>>]
  <2>1. v \in Variant /\ Moves(p, h) BY <1>2, ReserveMoves
  <2>2. /\ row \in Stocks /\ row.reserved <= row.available
        /\ stock' = [stock EXCEPT ![v] = row]
    <3>1. stock[v] \in Stocks /\ stock[v].available - stock[v].reserved >= 1
      BY <1>1, <1>2, <2>1 DEF Reserve
    <3>2. row.available = stock[v].available /\ row.reserved = stock[v].reserved + 1
      BY <3>1 DEF Stocks
    <3>3. stock' = [stock EXCEPT ![v] = row] BY <1>2 DEF Reserve
    <3>4. row \in Stocks BY <3>1 DEF Stocks
    <3>5. QED BY <3>1, <3>2, <3>3, <3>4 DEF Stocks
  <2>3. stock' \in [Variant -> Stocks] /\ Covered' BY <1>1, <2>1, <2>2, RowTyped
  <2>4. h.pc = "hold" /\ h.id = proc[p].id BY <1>1 DEF OrderHandlers
  <2>5. order[proc[p].id].status = "NONE" BY <1>2, InPlace DEF Reserve, At, Reserving
  <2>6. QED BY <1>1, <2>1, <2>3, <2>4, <2>5, StepKeeps DEF Confirming
<1>3. CASE Take(p) \/ Lower(p)
  <2>1. proc[p].pc \in {"take", "lower"} BY <1>3 DEF Take, Lower, At
  <2> DEFINE v == Cur(p)[2]
             pc == IF At(p, "take") THEN "saveConfirmed" ELSE "saveReleased"
             n == IF At(p, "take") THEN stock[v].available - 1 ELSE stock[v].available
             row == [available |-> n, reserved |-> stock[v].reserved - 1]
  <2>2. v \in Variant /\ stock[v] \in Stocks BY <1>1, <2>1, InPlace DEF HasCur, AtOne, Cur
  <2>3. /\ Proceed(p, pc)
        /\ \/ UNCHANGED stock
           \/ stock[v].reserved >= 1 /\ stock' = [stock EXCEPT ![v] = row]
    BY <1>3 DEF Take, Lower, At, SetStock, Stock
  <2>4. stock' \in [Variant -> Stocks] /\ Covered'
    <3>1. CASE UNCHANGED stock BY <1>1, <3>1 DEF MInv, Covered
    <3>2. CASE stock[v].reserved >= 1 /\ stock' = [stock EXCEPT ![v] = row]
      <4>1. row \in Stocks BY <2>2, <3>2 DEF Stocks
      <4>2. history.lowered \/ row.reserved <= row.available
        BY <2>2, <3>2 DEF MInv, Covered, Stocks
      <4>3. QED BY <1>1, <2>2, <3>2, <4>1, <4>2, RowTyped
    <3>3. QED BY <2>3, <3>1, <3>2
  <2>5. Shape([proc[p] EXCEPT !.pc = pc])
    BY <2>1, InPlace DEF At, Shape, OrderHandlers, OrderPc, HasCur, NoCur, AtOne
  <2>6. \/ proc[p].pc \in Confirming /\ pc \in Confirming
        \/ proc[p].pc \in ReleasePc /\ pc \in ReleasePc
    BY <2>1 DEF At, Confirming, ReleasePc
  <2>7. pc \in OrderPc \cup ReleasePc BY <2>6, PlaceTypes
  <2>8. QED BY <1>1, <2>3, <2>4, <2>5, <2>6, <2>7, ProceedKeeps
<1>4. QED BY <1>2, <1>3

LEMMA NextMInv == MInv /\ [MarketNext]_marketVars => MInv'
<1> SUFFICES ASSUME MInv, [MarketNext]_marketVars PROVE MInv'
  OBVIOUS
<1>1. ASSUME NEW p \in Proc, Step(p) PROVE MInv'
  BY <1>1, MovingKeeps, OrderingKeeps, SavingKeeps, CountingKeeps DEF Step
<1>2. ASSUME NEW p \in Proc, JobFind(p) \/ ReservationFails(p) \/ Stop(p) PROVE MInv'
  BY <1>2, MovingKeeps
<1>3. CASE \E v \in Variant, n \in 0 .. InitialStock : Restock(v, n)
  <2>1. PICK v \in Variant, n \in 0 .. InitialStock : Restock(v, n) BY <1>3
  <2> DEFINE row == [stock[v] EXCEPT !.available = n]
  <2>2. /\ stock \in [Variant -> Stocks] /\ history \in Histories
        /\ UNCHANGED <<res, order, proc>> /\ stock' = [stock EXCEPT ![v] = row]
    BY <2>1 DEF MInv, MarketTypeOK, Restock
  <2>3. /\ history' \in Histories
        /\ history.lowered \/ n < stock[v].reserved => history'.lowered
    <3> DEFINE low == history.lowered \/ n < stock[v].reserved
    <3>1. low \in BOOLEAN BY Zenon
    <3>2. /\ history.restocks < MaxRestocks
          /\ history' = [history EXCEPT !.restocks = history.restocks + 1, !.lowered = low]
      BY <2>1 DEF Restock
    <3>3. history.restocks + 1 \in 0 .. MaxRestocks
      BY <2>2, <3>2, BoundAssumption DEF Histories
    <3> HIDE DEF low
    <3>4. history' \in Histories /\ history'.lowered = low
      BY <2>2, <3>1, <3>2, <3>3 DEF Histories
    <3>5. QED BY <3>4 DEF low
  <2>4. row \in Stocks /\ row.reserved = stock[v].reserved /\ row.available = n
    BY <2>2, StockAssumption DEF Stocks
  <2>5. stock' \in [Variant -> Stocks] BY <2>2, <2>4
  <2>6. Covered'
    <3> SUFFICES ASSUME ~history'.lowered, NEW w \in Variant
                 PROVE  stock'[w].reserved <= stock'[w].available
      BY DEF Covered
    <3>1. CASE w = v
      <4>1. stock'[w] = row BY <2>2, <3>1
      <4>2. stock[v].reserved \in Nat /\ n \in Int /\ ~(n < stock[v].reserved)
        BY <2>2, <2>3, StockAssumption DEF Stocks
      <4>3. stock[v].reserved <= n BY <4>2
      <4>4. QED BY <2>4, <4>1, <4>3
    <3>2. CASE w # v BY <2>2, <2>3, <3>2 DEF MInv, Covered
    <3>3. QED BY <3>1, <3>2
  <2>7. Shapes' /\ OneCall' /\ Progress'
    BY <2>2 DEF MInv, Shapes, OneCall, Progress
  <2>8. QED BY <2>2, <2>3, <2>5, <2>6, <2>7 DEF MInv, MarketTypeOK
<1>4. CASE \E r \in Reservation : Age(r)
  <2>1. res' \in [Reservation -> Reservations] /\ UNCHANGED <<stock, order, proc, history>>
    BY <1>4 DEF Age, MInv, MarketTypeOK, Reservations
  <2>2. QED BY <2>1 DEF MInv, MarketTypeOK, Shapes, OneCall, Progress, Covered
<1>5. CASE UNCHANGED marketVars
  BY <1>5 DEF marketVars, MInv, MarketTypeOK, Shapes, OneCall, Progress, Covered
<1>6. QED BY <1>1, <1>2, <1>3, <1>4, <1>5, BeginKeeps DEF MarketNext

-----------------------------------------------------------------------------
(* As long as the job takes nothing out of another's hands                    *)

\* The reservations a handler record has in hand; InHand(q) is Hand(proc[q]).
Hand(h) == Range(h.own) \cup {h.cur}

LEMMA HandTyped ==
  ASSUME NEW h \in OrderHandlers
  PROVE  /\ Range(h.own) \subseteq Reservation
         /\ Hand(h) \subseteq Reservation \cup {NoReservation}
<1>1. h.own \in Seq(Reservation) /\ h.cur \in Reservation \cup {NoReservation}
  BY DEF OrderHandlers
<1>2. Range(h.own) \subseteq Reservation BY <1>1 DEF Range
<1>3. QED BY <1>1, <1>2 DEF Hand

LEMMA PairOf ==
  ASSUME NEW r \in Reservation
  PROVE  r = <<r[1], r[2]>> /\ r[1] \in Order /\ r[2] \in Variant /\ r # NoReservation
  BY NotReservation DEF Reservation

\* A handler that lets go of some of what it has stays apart from the others.
LEMMA StaysApart ==
  ASSUME MInv, Apart, NEW p \in Proc, NEW h, Moves(p, h),
         Hand(h) \subseteq Hand(proc[p]) \cup {NoReservation}
  PROVE  Apart'
<1>1. proc'[p] = h /\ \A q \in Proc \ {p} : proc'[q] = proc[q] BY OneMoves
<1>2. QED BY <1>1 DEF Apart, InHand, Hand, Cur

\* p writes neither a reservation nor an order.
LEMMA MoveOrderly ==
  ASSUME MInv, Orderly, NEW p \in Proc, NEW h, Moves(p, h), UNCHANGED <<res, order>>,
         Hand(h) \subseteq Hand(proc[p]) \cup {NoReservation},
         Held(h, res), Ahead(h, res), Behind(h, res, order),
         history'.late = history.late
  PROVE  Orderly'
<1>1. proc'[p] = h /\ \A q \in Proc \ {p} : proc'[q] = proc[q] BY OneMoves
<1>2. Apart' BY StaysApart DEF Orderly
<1>3. SoldIsConfirmed' BY DEF Orderly, SoldIsConfirmed
<1>4. \A q \in Proc : Held(proc'[q], res') /\ Ahead(proc'[q], res') /\ Behind(proc'[q], res', order')
  BY <1>1 DEF Orderly
<1>5. QED BY <1>2, <1>3, <1>4 DEF Orderly

\* p writes its own order.
LEMMA OrderOrderly ==
  ASSUME MInv, Orderly, NEW p \in Proc, NEW h, Moves(p, h), UNCHANGED <<res, history>>,
         NEW doc, proc[p].id \in Order, order' = [order EXCEPT ![proc[p].id] = doc],
         Hand(h) \subseteq Hand(proc[p]) \cup {NoReservation},
         Held(h, res), Ahead(h, res), Behind(h, res, order'),
         doc.status = "CONFIRMED" => \A v \in Variant : Settled(proc[p].id, v, res, order')
  PROVE  Orderly'
<1>1. proc'[p] = h /\ \A q \in Proc \ {p} : proc'[q] = proc[q] BY OneMoves
<1>2. order'[proc[p].id] = doc /\ \A o \in Order \ {proc[p].id} : order'[o] = order[o]
  BY DEF MInv, MarketTypeOK
<1>3. Apart' BY StaysApart DEF Orderly
<1>4. SoldIsConfirmed'
  <2> SUFFICES ASSUME ~history'.late, NEW o \in Order, order'[o].status = "CONFIRMED",
                      NEW v \in Variant
               PROVE  Settled(o, v, res', order')
    BY DEF SoldIsConfirmed, Settled
  <2>1. CASE o = proc[p].id BY <1>2, <2>1
  <2>2. CASE o # proc[p].id BY <1>2, <2>2 DEF Orderly, SoldIsConfirmed, Settled
  <2>3. QED BY <2>1, <2>2
<1>5. ASSUME NEW q \in Proc
      PROVE  Held(proc'[q], res') /\ Ahead(proc'[q], res') /\ Behind(proc'[q], res', order')
  <2>1. CASE q = p BY <1>1, <2>1
  <2>2. CASE q # p
    <3>1. Held(proc[q], res) /\ Ahead(proc[q], res) /\ Behind(proc[q], res, order)
      BY DEF Orderly
    <3>2. proc[q].pc \in OrderPc => order'[proc[q].id] = order[proc[q].id]
      BY <1>2, <2>2, OrderAssumption, InPlace DEF MInv, OneCall, Shape
    <3>3. Behind(proc[q], res, order')
      BY <3>1, <3>2, PlaceTypes DEF Behind, Settled
    <3>4. QED BY <1>1, <2>2, <3>1, <3>3
  <2>3. QED BY <2>1, <2>2
<1>6. QED BY <1>3, <1>4, <1>5 DEF Orderly

\* p writes the status of the reservation it has: nobody else relies on it.
LEMMA SaveOrderly ==
  ASSUME MInv, Orderly, ~history.late, NEW p \in Proc, NEW h, Moves(p, h),
         proc[p].cur \in Reservation,
         NEW s \in ResStatus, SetStatus(proc[p].cur, s), UNCHANGED <<order, history>>,
         proc[p].id = NoOrder => res[proc[p].cur].status \in {"ACTIVE", "RELEASED"},
         Hand(h) \subseteq Hand(proc[p]) \cup {NoReservation},
         Held(h, res'), Ahead(h, res'), Behind(h, res', order)
  PROVE  Orderly'
<1> DEFINE r == proc[p].cur
<1>1. proc'[p] = h /\ \A q \in Proc \ {p} : proc'[q] = proc[q] BY OneMoves
<1>2. res'[r].status = s /\ \A x \in Reservation \ {r} : res'[x] = res[x] BY StatusTyped
<1>3. Apart' BY StaysApart DEF Orderly
\* A line of another's order is not r, unless the job has it.
<1>4. ASSUME NEW o \in Order, o # proc[p].id, NEW v \in Variant,
             res[<<o, v>>].status \in {"CONFIRMED", "NONE"}
      PROVE  res'[<<o, v>>] = res[<<o, v>>]
  <2>1. <<o, v>> \in Reservation BY DEF Reservation
  <2>2. CASE <<o, v>> # r BY <1>2, <2>1, <2>2
  <2>3. CASE <<o, v>> = r
    <3>1. r # NoReservation BY NotReservation
    <3>2. proc[p].id # NoOrder => r[1] = proc[p].id BY <3>1, InPlace DEF Shape
    <3>3. proc[p].id = NoOrder BY <1>4, <2>3, <3>2
    <3>4. QED BY <1>4, <2>3, <3>3
  <2>4. QED BY <2>2, <2>3
<1>5. SoldIsConfirmed'
  <2> SUFFICES ASSUME NEW o \in Order, order[o].status = "CONFIRMED", NEW v \in Variant
               PROVE  Settled(o, v, res', order)
    BY DEF SoldIsConfirmed, Settled
  <2>1. Settled(o, v, res, order) BY DEF Orderly, SoldIsConfirmed, Settled
  <2>2. o # proc[p].id
    <3>1. proc[p].pc \in {"idle"} \cup OrderPc \cup ReleasePc BY InPlace DEF OrderHandlers
    <3>2. CASE proc[p].pc = "idle" BY <3>2, InPlace, OrderAssumption DEF Shape, NoHandler
    <3>3. CASE proc[p].pc # "idle" BY <3>1, <3>3, InPlace, PlaceTypes, OrderAssumption
    <3>4. QED BY <3>2, <3>3
  <2>3. QED BY <1>4, <2>1, <2>2 DEF Settled
<1>6. ASSUME NEW q \in Proc
      PROVE  Held(proc'[q], res') /\ Ahead(proc'[q], res') /\ Behind(proc'[q], res', order')
  <2>1. CASE q = p BY <1>1, <2>1
  <2>2. CASE q # p
    <3>1. Held(proc[q], res) /\ Ahead(proc[q], res) /\ Behind(proc[q], res, order)
      BY DEF Orderly
    <3>2. proc[q] \in OrderHandlers /\ Shape(proc[q]) BY InPlace
    <3>3. r \notin Hand(proc[q])
      BY <2>2, NotReservation DEF Orderly, Apart, InHand, Hand, Cur
    <3>4. \A x \in Reservation : x \in Hand(proc[q]) => res'[x] = res[x] BY <1>2, <3>3
    <3>5. Range(proc[q].own) \subseteq Reservation
          /\ Hand(proc[q]) \subseteq Reservation \cup {NoReservation}
      BY <3>2, HandTyped
    <3>6. proc[q].pc \in HasCur => res'[proc[q].cur] = res[proc[q].cur]
      BY <3>2, <3>4 DEF Hand, Shape
    <3>7. Held(proc[q], res')
      <4>1. \A x \in Range(proc[q].own) : res'[x] = res[x] BY <3>4, <3>5 DEF Hand
      <4>2. proc[q].cur # NoReservation => res'[proc[q].cur] = res[proc[q].cur]
        BY <3>4, <3>5 DEF Hand
      <4>3. QED BY <3>1, <3>6, <4>1, <4>2 DEF Held, HasCur
    <3>8. proc[q].pc \in OrderPc => proc[q].id \in Order /\ proc[q].id # proc[p].id
      BY <2>2, <3>2, OrderAssumption DEF Shape, MInv, OneCall
    <3>9. Ahead(proc[q], res')
      <4> SUFFICES ASSUME proc[q].pc \in {"reserve", "hold"} PROVE Ahead(proc[q], res')
        BY DEF Ahead
      <4>1. proc[q].pc \in OrderPc BY DEF OrderPc
      <4>2. Range(proc[q].todo) \subseteq Variant BY <3>2 DEF OrderHandlers, Range
      <4>3. \A v \in Range(proc[q].todo) : res'[<<proc[q].id, v>>] = res[<<proc[q].id, v>>]
        BY <1>4, <3>1, <3>8, <4>1, <4>2 DEF Ahead
      <4>4. QED BY <3>1, <3>6, <4>3 DEF Ahead, HasCur
    <3>10. Behind(proc[q], res', order)
      <4>1. ASSUME proc[q].pc \in OrderPc, NEW v \in Variant,
                   <<proc[q].id, v>> \notin Range(proc[q].own)
            PROVE  Settled(proc[q].id, v, res', order)
        <5>1. Settled(proc[q].id, v, res, order) BY <3>1, <4>1 DEF Behind
        <5>2. res'[<<proc[q].id, v>>] = res[<<proc[q].id, v>>]
          BY <1>4, <3>8, <4>1, <5>1 DEF Settled
        <5>3. QED BY <5>1, <5>2 DEF Settled
      <4>2. QED BY <3>1, <4>1 DEF Behind
    <3>11. QED BY <1>1, <2>2, <3>7, <3>9, <3>10
  <2>3. QED BY <2>1, <2>2
<1>7. QED BY <1>3, <1>5, <1>6 DEF Orderly

LEMMA NoHandlerOrderly ==
  /\ Hand(NoHandler) = {NoReservation}
  /\ \A s, d : Held(NoHandler, s) /\ Ahead(NoHandler, s) /\ Behind(NoHandler, s, d)
  BY EmptySeqHasNone, OrderAssumption
     DEF NoHandler, Hand, Held, Ahead, Behind, OrderPc, AtOne, NoReservation

LEMMA ReturnOrderly ==
  ASSUME MInv, Orderly, NEW p \in Proc, Return(p), UNCHANGED <<res, order>>,
         history'.late = history.late
  PROVE  Orderly'
  BY NoHandlerMoves, NoHandlerOrderly, MoveOrderly

\* What Orderly says of one handler.
LEMMA OrderlyInPlace ==
  ASSUME MInv, Orderly, NEW p \in Proc
  PROVE  /\ Held(proc[p], res) /\ Ahead(proc[p], res) /\ Behind(proc[p], res, order)
         /\ proc[p] \in OrderHandlers /\ Shape(proc[p])
  BY InPlace DEF Orderly

LEMMA ProceedOrderly ==
  ASSUME MInv, Orderly, NEW p \in Proc, NEW pc \in OrderPc \cup ReleasePc, Proceed(p, pc),
         Shape([proc[p] EXCEPT !.pc = pc]), UNCHANGED <<res, order>>,
         history'.late = history.late,
         pc \notin {"mark", "reserve", "hold"},
         pc \in {"lower", "saveReleased"} => proc[p].pc \in {"lower", "saveReleased"},
         pc \in OrderPc => proc[p].pc \in OrderPc,
         pc \in AtOne => proc[p].pc \in AtOne
  PROVE  Orderly'
<1> DEFINE h == [proc[p] EXCEPT !.pc = pc]
<1>1. Moves(p, h) BY ProceedMoves
<1>2. Held(proc[p], res) /\ Ahead(proc[p], res) /\ Behind(proc[p], res, order)
  BY DEF Orderly
<1>3. h.pc = pc /\ h.id = proc[p].id /\ h.own = proc[p].own /\ h.cur = proc[p].cur
  BY InPlace DEF OrderHandlers
<1>4. Hand(h) = Hand(proc[p]) BY <1>3 DEF Hand
<1>5. Held(h, res) BY <1>2, <1>3 DEF Held
<1>6. Ahead(h, res) BY <1>3 DEF Ahead
<1>7. Behind(h, res, order) BY <1>2, <1>3 DEF Behind
<1>8. QED BY <1>1, <1>4, <1>5, <1>6, <1>7, MoveOrderly

LEMMA MovingOrderly ==
  ASSUME MInv, Orderly, ~history.late, NEW p \in Proc,
         Refuse(p) \/ ReservationFails(p) \/ LoadConfirm(p) \/ LoadRelease(p) \/ Stop(p)
           \/ Take(p) \/ Lower(p)
  PROVE  Orderly'
<1>1. UNCHANGED <<res, order>>
  BY DEF Refuse, ReservationFails, LoadConfirm, LoadRelease, Stop, Take, Lower
<1>2. history'.late = history.late
  BY FailsKnown, StopKnown DEF Refuse, LoadConfirm, LoadRelease, Take, Lower
<1>3. CASE Return(p) BY <1>1, <1>2, <1>3, ReturnOrderly
<1>4. CASE Refuse(p) \/ ReservationFails(p)
  <2>1. proc[p].pc \in {"reserve", "hold"} /\ Proceed(p, "next")
    BY <1>4 DEF Refuse, ReservationFails, At
  <2>2. Shape([proc[p] EXCEPT !.pc = "next"])
    BY <2>1, InPlace DEF Shape, OrderHandlers, OrderPc, HasCur, NoCur, AtOne
  <2>3. "next" \in ReleasePc /\ "next" \notin OrderPc \cup AtOne
    BY DEF ReleasePc, OrderPc, AtOne
  <2>4. QED BY <1>1, <1>2, <2>1, <2>2, <2>3, ProceedOrderly
<1>5. CASE LoadConfirm(p) /\ ~Return(p)
  <2>1. proc[p].pc = "loadConfirm" /\ Proceed(p, "take") BY <1>5 DEF LoadConfirm, At
  <2>2. Shape([proc[p] EXCEPT !.pc = "take"])
    BY <2>1, InPlace DEF Shape, OrderHandlers, OrderPc, HasCur, NoCur, AtOne
  <2>3. "take" \in OrderPc /\ {"loadConfirm", "take"} \subseteq OrderPc \cap AtOne
    BY DEF OrderPc, AtOne
  <2>4. QED BY <1>1, <1>2, <2>1, <2>2, <2>3, ProceedOrderly
<1>6. CASE Take(p)
  <2>1. proc[p].pc = "take" /\ Proceed(p, "saveConfirmed") BY <1>6 DEF Take, At
  <2>2. Shape([proc[p] EXCEPT !.pc = "saveConfirmed"])
    BY <2>1, InPlace DEF Shape, OrderHandlers, OrderPc, HasCur, NoCur, AtOne
  <2>3. {"take", "saveConfirmed"} \subseteq OrderPc \cap AtOne BY DEF OrderPc, AtOne
  <2>4. QED BY <1>1, <1>2, <2>1, <2>2, <2>3, ProceedOrderly
<1>7. CASE Lower(p)
  <2>1. proc[p].pc = "lower" /\ Proceed(p, "saveReleased") BY <1>7 DEF Lower, At
  <2>2. Shape([proc[p] EXCEPT !.pc = "saveReleased"])
    BY <2>1, InPlace DEF Shape, OrderHandlers, OrderPc, HasCur, NoCur, AtOne
  <2>3. "saveReleased" \in ReleasePc /\ "saveReleased" \notin OrderPc \cup AtOne
    BY DEF ReleasePc, OrderPc, AtOne
  <2>4. QED BY <1>1, <1>2, <2>1, <2>2, <2>3, ProceedOrderly
<1>8. CASE LoadRelease(p) /\ ~Return(p)
  <2> DEFINE own == proc[p].own
             pc == IF res[Head(own)].status = "ACTIVE" THEN "lower" ELSE AfterRelease(p)
             h == [proc[p] EXCEPT !.pc = pc, !.own = Tail(own), !.cur = Head(own)]
  <2>1. own # << >> BY <1>8 DEF LoadRelease
  <2>2. Moves(p, h) BY <1>8, <2>1, LoadReleaseMoves
  <2>3. own \in Seq(Reservation) /\ proc[p] \in OrderHandlers BY InPlace DEF OrderHandlers
  <2>4. Held(proc[p], res) BY DEF Orderly
  <2>5. /\ Range(own) = {Head(own)} \cup Range(Tail(own))
        /\ IsInjective(Tail(own)) /\ Head(own) \notin Range(Tail(own))
    BY <2>1, <2>3, <2>4, TailOfSeq DEF Held
  <2>6. res[Head(own)].status = "ACTIVE" BY <2>4, <2>5 DEF Held
  <2>7. h.pc = "lower" /\ h.own = Tail(own) /\ h.cur = Head(own) BY <2>3, <2>6 DEF OrderHandlers
  <2>8. Held(h, res) BY <2>4, <2>5, <2>6, <2>7 DEF Held
  <2>9. Ahead(h, res) /\ Behind(h, res, order) BY <2>7 DEF Ahead, Behind, OrderPc, AtOne
  <2>10. Hand(h) \subseteq Hand(proc[p]) BY <2>5, <2>7 DEF Hand
  <2>11. QED BY <1>1, <1>2, <2>2, <2>8, <2>9, <2>10, MoveOrderly
<1>9. QED BY <1>3, <1>4, <1>5, <1>6, <1>7, <1>8 DEF Stop

\* A handler that differs from all others in what it has in hand.
LEMMA OneApart ==
  ASSUME Orderly, NEW p \in Proc, NEW h, proc'[p] = h,
         \A q \in Proc \ {p} : proc'[q] = proc[q],
         \A q \in Proc \ {p} : Hand(h) \cap Hand(proc[q]) \subseteq {NoReservation}
  PROVE  Apart'
<1> SUFFICES ASSUME NEW q1 \in Proc, NEW q2 \in Proc, q1 # q2
             PROVE  Hand(proc'[q1]) \cap Hand(proc'[q2]) \subseteq {NoReservation}
  BY DEF Apart, InHand, Hand, Cur
<1>1. CASE q1 = p BY <1>1
<1>2. CASE q2 = p BY <1>2
<1>3. CASE q1 # p /\ q2 # p
  <2>1. Hand(proc[q1]) \cap Hand(proc[q2]) \subseteq {NoReservation}
    BY DEF Orderly, Apart, InHand, Hand, Cur
  <2>2. QED BY <1>3, <2>1
<1>4. QED BY <1>1, <1>2, <1>3

\* Nobody else has the reservation that will be.
LEMMA NobodyHas ==
  ASSUME MInv, Orderly, NEW p \in Proc, Reserve(p), NEW q \in Proc, q # p
  PROVE  <<proc[p].id, Head(proc[p].todo)>> \notin Hand(proc[q])
<1> DEFINE v == Head(proc[p].todo)
           r == <<proc[p].id, v>>
<1>1. v \in Variant BY ReserveMoves
<1>2. proc[p].pc = "reserve" BY DEF Reserve, At
<1>3. proc[p].id \in Order /\ proc[p].id # NoOrder /\ r \in Reservation
  BY <1>1, <1>2, InPlace DEF Reserving, Reservation
<1>4. proc[p].todo \in Seq(Variant) /\ proc[p].todo # << >>
  BY <1>2, InPlace DEF Shape, OrderHandlers
<1>5. v \in Range(proc[p].todo) BY <1>4, TailOfSeq
<1>6. res[r].status = "NONE" BY <1>2, <1>5, OrderlyInPlace DEF Ahead
<1>7. Held(proc[q], res) /\ proc[q] \in OrderHandlers /\ Shape(proc[q]) BY OrderlyInPlace
<1>8. r # NoReservation BY <1>3, NotReservation
<1>9. CASE proc[q].id = NoOrder BY <1>6, <1>7, <1>8, <1>9 DEF Held, Hand
<1>10. CASE proc[q].id # NoOrder
  <2>1. proc[q].id # proc[p].id BY <1>10 DEF MInv, OneCall
  <2>2. r[1] = proc[p].id OBVIOUS
  <2>3. QED BY <1>7, <1>8, <1>10, <2>1, <2>2 DEF Shape, Hand
<1>11. QED BY <1>9, <1>10

\* The first hold of a line.
LEMMA ReserveOrderly ==
  ASSUME MInv, Orderly, NEW p \in Proc, Reserve(p)
  PROVE  Orderly'
<1> DEFINE v == Head(proc[p].todo)
           r == <<proc[p].id, v>>
           h == [proc[p] EXCEPT !.pc = "hold", !.todo = Tail(proc[p].todo), !.cur = r]
<1>1. v \in Variant /\ Moves(p, h) BY ReserveMoves
<1>2. proc'[p] = h /\ \A q \in Proc \ {p} : proc'[q] = proc[q] BY <1>1, OneMoves
<1>3. UNCHANGED <<res, order, history>> /\ proc[p].pc = "reserve" BY DEF Reserve, At
<1>4. /\ proc[p] \in OrderHandlers /\ Shape(proc[p])
      /\ Held(proc[p], res) /\ Ahead(proc[p], res) /\ Behind(proc[p], res, order)
  BY OrderlyInPlace
<1>5. proc[p].id \in Order /\ proc[p].id # NoOrder /\ r \in Reservation
  BY <1>1, <1>3, InPlace DEF Reserving, Reservation
<1>6. proc[p].todo \in Seq(Variant) /\ proc[p].todo # << >>
  BY <1>3, <1>4 DEF Shape, OrderHandlers
<1>7. /\ Range(proc[p].todo) = {v} \cup Range(Tail(proc[p].todo))
      /\ IsInjective(Tail(proc[p].todo)) /\ v \notin Range(Tail(proc[p].todo))
  BY <1>3, <1>4, <1>6, TailOfSeq DEF Ahead
<1>8. res[r].status = "NONE" BY <1>3, <1>4, <1>7 DEF Ahead
<1>9. /\ h.pc = "hold" /\ h.id = proc[p].id /\ h.own = proc[p].own /\ h.cur = r
      /\ h.todo = Tail(proc[p].todo)
  BY <1>4 DEF OrderHandlers
<1>10. Held(h, res) BY <1>4, <1>5, <1>9 DEF Held
<1>11. Ahead(h, res) BY <1>3, <1>4, <1>7, <1>8, <1>9 DEF Ahead
<1>12. Behind(h, res, order) BY <1>3, <1>4, <1>9 DEF Behind, OrderPc, AtOne
<1>13. \A q \in Proc \ {p} : r \notin Hand(proc[q]) BY NobodyHas
<1>14. Apart'
  <2>1. Hand(h) = Range(proc[p].own) \cup {r} /\ Range(proc[p].own) \subseteq Hand(proc[p])
    BY <1>9 DEF Hand
  <2>2. ASSUME NEW q \in Proc, q # p PROVE Hand(h) \cap Hand(proc[q]) \subseteq {NoReservation}
    <3>1. Hand(proc[p]) \cap Hand(proc[q]) \subseteq {NoReservation}
      BY <2>2 DEF Orderly, Apart, InHand, Hand, Cur
    <3>2. QED BY <1>13, <2>1, <2>2, <3>1
  <2>3. QED BY <1>2, <2>2, OneApart
<1>15. SoldIsConfirmed' BY <1>3 DEF Orderly, SoldIsConfirmed
<1>16. \A q \in Proc : Held(proc'[q], res') /\ Ahead(proc'[q], res')
                       /\ Behind(proc'[q], res', order')
  BY <1>2, <1>3, <1>10, <1>11, <1>12 DEF Orderly
<1>17. QED BY <1>14, <1>15, <1>16 DEF Orderly

\* The job takes what nobody has.
LEMMA JobFindOrderly ==
  ASSUME MInv, Orderly, ~history.late, NEW p \in Proc, JobFind(p), ~history'.late
  PROVE  Orderly'
<1>1. PICK s \in Seq(Reservation) : /\ IsInjective(s) /\ Range(s) \subseteq Stale
                                    /\ Moves(p, [proc[p] EXCEPT !.pc = "next", !.own = s])
  BY JobFindMoves
<1> DEFINE h == [proc[p] EXCEPT !.pc = "next", !.own = s]
<1>2. proc'[p] = h /\ \A q \in Proc \ {p} : proc'[q] = proc[q] BY <1>1, OneMoves
<1>3. proc[p] = NoHandler /\ UNCHANGED <<res, order>>
  BY InPlace DEF JobFind, At, Shape
<1>4. h.pc = "next" /\ h.id = NoOrder /\ h.own = s /\ h.cur = NoReservation
  BY <1>3 DEF NoHandler
<1>5. \A q \in Proc : Stale \cap InHand(q) = {}
  <2> DEFINE late == history.late \/ \E q \in Proc : Stale \cap InHand(q) # {}
  <2>1. history' = [history EXCEPT !.late = late] BY DEF JobFind, Stale
  <2>2. history \in Histories BY DEF MInv, MarketTypeOK
  <2> HIDE DEF late
  <2>3. history'.late = late BY <2>1, <2>2 DEF Histories
  <2>4. ~late BY <2>3
  <2>5. QED BY <2>4 DEF late
<1>6. Held(h, res) BY <1>1, <1>4 DEF Held, Stale
<1>7. Ahead(h, res) /\ Behind(h, res, order) BY <1>4 DEF Ahead, Behind, OrderPc, AtOne
<1>8. Apart'
  <2>1. Hand(h) = Range(s) \cup {NoReservation} BY <1>4 DEF Hand
  <2>2. \A q \in Proc : Range(s) \cap Hand(proc[q]) = {} BY <1>1, <1>5 DEF InHand, Hand, Cur
  <2>3. QED BY <1>2, <2>1, <2>2 DEF Orderly, Apart, InHand, Hand, Cur
<1>9. SoldIsConfirmed' BY <1>3 DEF Orderly, SoldIsConfirmed
<1>10. \A q \in Proc : Held(proc'[q], res') /\ Ahead(proc'[q], res')
                       /\ Behind(proc'[q], res', order')
  BY <1>2, <1>3, <1>6, <1>7 DEF Orderly
<1>11. QED BY <1>8, <1>9, <1>10 DEF Orderly

LEMMA BeginOrderly ==
  ASSUME MInv, Orderly, NEW p \in Proc, NEW o \in Order, NEW cart \in Carts,
         NEW k \in Key \cup {NoKey}, BeginOrder(p, o, cart, k)
  PROVE  Orderly'
<1> DEFINE h == [pc |-> "reserve", id |-> o, key |-> k, todo |-> cart,
                 own |-> << >>, cur |-> NoReservation]
<1>1. proc'[p] = h /\ \A q \in Proc \ {p} : proc'[q] = proc[q] BY BeginMoves
<1>2. /\ order[o].status = "NONE" /\ \A v \in Variant : res[<<o, v>>].status = "NONE"
      /\ UNCHANGED <<res, order, history>>
  BY DEF BeginOrder, Unused
<1>3. cart \in Seq(Variant) /\ IsInjective(cart) /\ Range(cart) \subseteq Variant
  BY CartAssumption DEF Range
<1>4. o # NoOrder /\ order[o].items = {} BY <1>2, OrderAssumption DEF MInv, Progress
<1>5. Held(h, res) BY <1>4, EmptySeqHasNone DEF Held
<1>6. Ahead(h, res) BY <1>2, <1>3 DEF Ahead
<1>7. Behind(h, res, order) BY <1>2, <1>4 DEF Behind, Settled, AtOne
<1>8. Apart'
  <2>1. Hand(h) = {NoReservation} BY EmptySeqHasNone DEF Hand
  <2>2. QED BY <1>1, <2>1 DEF Orderly, Apart, InHand, Hand, Cur
<1>9. SoldIsConfirmed' BY <1>2 DEF Orderly, SoldIsConfirmed
<1>10. \A q \in Proc : Held(proc'[q], res') /\ Ahead(proc'[q], res')
                       /\ Behind(proc'[q], res', order')
  BY <1>1, <1>2, <1>5, <1>6, <1>7 DEF Orderly
<1>11. QED BY <1>8, <1>9, <1>10 DEF Orderly

\* Handlers that write an order.
LEMMA OrderingOrderly ==
  ASSUME MInv, Orderly, NEW p \in Proc, CreateOrder(p) \/ AddItem(p) \/ FinishOrder(p)
  PROVE  Orderly'
<1>1. /\ proc[p].id \in Order /\ proc[p] \in OrderHandlers /\ Shape(proc[p])
      /\ order[proc[p].id] \in Orders /\ order \in [Order -> Orders]
      /\ UNCHANGED <<stock, res, history>>
  BY InPlace DEF CreateOrder, AddItem, FinishOrder, At, Confirming, Reserving, MInv, MarketTypeOK
<1>2. Held(proc[p], res) /\ Ahead(proc[p], res) /\ Behind(proc[p], res, order)
  BY OrderlyInPlace
<1>3. CASE CreateOrder(p) /\ KeyUsed(proc[p].key)
  BY <1>1, <1>3, ReturnOrderly DEF CreateOrder
<1>4. CASE CreateOrder(p) /\ ~KeyUsed(proc[p].key)
  <2> DEFINE h == [proc[p] EXCEPT !.pc = "item"]
             doc == [status |-> "PENDING", key |-> proc[p].key, items |-> {}]
  <2>1. proc[p].pc = "create" /\ Proceed(p, "item") /\ order' = [order EXCEPT ![proc[p].id] = doc]
    BY <1>4 DEF CreateOrder, At
  <2>2. Shape(h)
    BY <1>1, <2>1 DEF Shape, OrderHandlers, OrderPc, HasCur, NoCur, AtOne
  <2>3. Moves(p, h) BY <2>1, <2>2, ProceedMoves DEF OrderPc
  <2>4. h.pc = "item" /\ h.id = proc[p].id /\ h.own = proc[p].own /\ h.cur = proc[p].cur
    BY <1>1 DEF OrderHandlers
  <2>5. order'[proc[p].id].items = {} /\ order[proc[p].id].items = {}
    BY <1>1, <2>1, InPlace DEF Reserving, MInv, Progress
  <2>6. Held(h, res) /\ Ahead(h, res) BY <1>2, <2>4 DEF Held, Ahead
  <2>7. Behind(h, res, order')
    BY <1>2, <2>1, <2>4, <2>5 DEF Behind, Settled, OrderPc, AtOne
  <2>8. Hand(h) = Hand(proc[p]) BY <2>4 DEF Hand
  <2>9. doc.status # "CONFIRMED" OBVIOUS
  <2> HIDE DEF doc, h
  <2>10. QED BY <1>1, <2>1, <2>3, <2>6, <2>7, <2>8, <2>9, OrderOrderly
<1>5. CASE AddItem(p)
  <2> DEFINE own == proc[p].own
             r == Head(own)
             h == [proc[p] EXCEPT !.pc = "loadConfirm", !.cur = r]
             doc == [order[proc[p].id] EXCEPT !.items = order[proc[p].id].items \cup {r[2]}]
  <2>1. proc[p].pc = "item" /\ order' = [order EXCEPT ![proc[p].id] = doc]
    BY <1>5 DEF AddItem, At
  <2>2. r \in Reservation /\ Moves(p, h) BY <1>5, AddItemMoves
  <2>3. h.pc = "loadConfirm" /\ h.id = proc[p].id /\ h.own = own /\ h.cur = r
    BY <1>1 DEF OrderHandlers
  <2>4. own # << >> /\ own \in Seq(Reservation) BY <1>1, <2>1 DEF Shape, OrderHandlers
  <2>5. r \in Range(own) BY <2>4, TailOfSeq
  <2>6. r = <<proc[p].id, r[2]>>
    BY <1>1, <2>2, <2>5, PairOf, OrderAssumption DEF Shape
  <2>7. order'[proc[p].id].items = order[proc[p].id].items \cup {r[2]}
        /\ doc.status = "PENDING"
    BY <1>1, <2>1, InPlace DEF Orders, Confirming
  <2>8. Held(h, res) /\ Ahead(h, res) BY <1>1, <1>2, <2>3, OrderAssumption DEF Held, Ahead
  <2>9. Behind(h, res, order')
    <3>1. ASSUME NEW v \in Variant, <<proc[p].id, v>> \notin Range(own)
          PROVE  Settled(proc[p].id, v, res, order')
      <4>1. Settled(proc[p].id, v, res, order) BY <1>2, <2>1, <3>1 DEF Behind, OrderPc
      <4>2. v # r[2] BY <2>5, <2>6, <3>1
      <4>3. QED BY <2>7, <4>1, <4>2 DEF Settled
    <3>2. QED BY <2>3, <2>7, <3>1 DEF Behind
  <2>10. Hand(h) \subseteq Hand(proc[p]) BY <2>3, <2>5 DEF Hand
  <2>11. QED BY <1>1, <2>1, <2>2, <2>7, <2>8, <2>9, <2>10, OrderOrderly
<1>6. CASE FinishOrder(p)
  <2>1. PICK s \in {"CONFIRMED", "PENDING"} : order' = [order EXCEPT ![proc[p].id].status = s]
    BY <1>6 DEF FinishOrder
  <2> DEFINE doc == [order[proc[p].id] EXCEPT !.status = s]
  <2>2. order' = [order EXCEPT ![proc[p].id] = doc] BY <2>1
  <2>3. order'[proc[p].id].items = order[proc[p].id].items BY <1>1, <2>2 DEF Orders
  <2>4. Moves(p, NoHandler) BY <1>6, NoHandlerMoves DEF FinishOrder
  <2>5. proc[p].own = << >> /\ proc[p].pc \in OrderPc
    BY <1>1, <1>6 DEF FinishOrder, At, Shape, OrderPc
  <2>6. \A v \in Variant : Settled(proc[p].id, v, res, order')
    BY <1>2, <2>3, <2>5, EmptySeqHasNone DEF Behind, Settled
  <2>7. QED BY <1>1, <2>2, <2>4, <2>6, NoHandlerOrderly, OrderOrderly
<1>7. QED BY <1>3, <1>4, <1>5, <1>6

\* Handlers that write a reservation.
LEMMA SavingOrderly ==
  ASSUME MInv, Orderly, ~history.late, NEW p \in Proc,
         CreateReservation(p) \/ SaveConfirmed(p) \/ SaveRelease(p) \/ Mark(p)
  PROVE  Orderly'
<1> DEFINE r == proc[p].cur
           own == proc[p].own
<1>1. /\ UNCHANGED <<order, history>> /\ proc[p] \in OrderHandlers /\ Shape(proc[p])
      /\ Held(proc[p], res) /\ Ahead(proc[p], res) /\ Behind(proc[p], res, order)
  BY OrderlyInPlace DEF CreateReservation, SaveConfirmed, SaveRelease, Mark
<1>2. r \in Reservation
  BY <1>1 DEF CreateReservation, SaveConfirmed, SaveRelease, Mark, At, Shape, HasCur, AtOne
<1>3. own \in Seq(Reservation) /\ Range(own) \subseteq Reservation
  BY <1>1, HandTyped DEF OrderHandlers
<1>4. r # NoReservation /\ r = <<r[1], r[2]>> BY <1>2, PairOf
<1>5. CASE CreateReservation(p)
  <2> DEFINE pc == IF proc[p].todo = << >> THEN "create" ELSE "reserve"
             h == [proc[p] EXCEPT !.pc = pc, !.own = Append(own, r), !.cur = NoReservation]
  <2>1. SetStatus(r, "ACTIVE") /\ proc[p].pc = "hold"
    BY <1>5 DEF CreateReservation, At, Cur
  <2>2. res'[r].status = "ACTIVE" /\ \A x \in Reservation \ {r} : res'[x] = res[x]
    BY <1>2, <2>1, StatusTyped DEF ResStatus
  <2>3. Moves(p, h) BY <1>5, CreateReservationMoves
  <2>4. h.pc = pc /\ h.id = proc[p].id /\ h.own = Append(own, r) /\ h.todo = proc[p].todo
        /\ h.cur = NoReservation
    BY <1>1 DEF OrderHandlers
  <2>5. proc[p].id \in Order /\ proc[p].id # NoOrder BY <2>1, InPlace DEF Reserving
  <2>6. r = <<proc[p].id, r[2]>> BY <1>1, <1>4, <2>5 DEF Shape
  <2>7. r \notin Range(own) BY <1>1, <2>1 DEF Held, Ahead
  <2>8. Range(h.own) = Range(own) \cup {r} /\ IsInjective(h.own)
    BY <1>1, <1>2, <1>3, <2>4, <2>7, AppendToSeq DEF Held
  <2>9. Held(h, res')
    <3>1. \A x \in Range(h.own) : res'[x].status = "ACTIVE"
      BY <1>1, <1>3, <2>2, <2>8 DEF Held
    <3>2. QED BY <2>4, <2>5, <2>8, <3>1 DEF Held
  <2>10. Ahead(h, res')
    <3>1. /\ IsInjective(proc[p].todo) /\ r[2] \notin Range(proc[p].todo)
          /\ \A v \in Range(proc[p].todo) : res[<<proc[p].id, v>>].status = "NONE"
      BY <1>1, <2>1 DEF Ahead
    <3>2. Range(proc[p].todo) \subseteq Variant BY <1>1 DEF OrderHandlers, Range
    <3>3. \A v \in Range(proc[p].todo) : res'[<<proc[p].id, v>>].status = "NONE"
      BY <2>2, <2>5, <2>6, <3>1, <3>2 DEF Reservation
    <3>4. QED BY <2>4, <3>1, <3>3 DEF Ahead
  <2>11. Behind(h, res', order)
    <3>1. ASSUME NEW v \in Variant, <<proc[p].id, v>> \notin Range(h.own)
          PROVE  Settled(proc[p].id, v, res', order)
      <4>1. Settled(proc[p].id, v, res, order) BY <1>1, <2>1, <2>8, <3>1 DEF Behind, OrderPc
      <4>2. res'[<<proc[p].id, v>>] = res[<<proc[p].id, v>>]
        BY <2>2, <2>5, <2>8, <3>1 DEF Reservation
      <4>3. QED BY <4>1, <4>2 DEF Settled
    <3>2. QED BY <2>4, <3>1 DEF Behind, AtOne
  <2>12. Hand(h) \subseteq Hand(proc[p]) \cup {NoReservation} BY <2>4, <2>8 DEF Hand
  <2>13. "ACTIVE" \in ResStatus BY DEF ResStatus
  <2>14. QED
    BY <1>1, <1>2, <2>1, <2>3, <2>5, <2>9, <2>10, <2>11, <2>12, <2>13, SaveOrderly
<1>6. CASE SaveConfirmed(p)
  <2> DEFINE pc == IF own = <<r>> THEN "finish" ELSE "item"
             h == [proc[p] EXCEPT !.pc = pc, !.own = Tail(own), !.cur = NoReservation]
  <2>1. SetStatus(r, "CONFIRMED") /\ proc[p].pc = "saveConfirmed"
    BY <1>6 DEF SaveConfirmed, At, Cur
  <2>2. res'[r].status = "CONFIRMED" /\ \A x \in Reservation \ {r} : res'[x] = res[x]
    BY <1>2, <2>1, StatusTyped DEF ResStatus
  <2>3. Moves(p, h) BY <1>6, SaveConfirmedMoves
  <2>4. h.pc = pc /\ h.id = proc[p].id /\ h.own = Tail(own) /\ h.cur = NoReservation
    BY <1>1 DEF OrderHandlers
  <2>5. /\ proc[p].id \in Order /\ proc[p].id # NoOrder
        /\ own # << >> /\ r = Head(own)
    BY <1>1, <2>1, InPlace DEF Confirming, Shape, AtOne
  <2>6. r = <<proc[p].id, r[2]>> BY <1>1, <1>4, <2>5 DEF Shape
  <2>7. /\ Range(own) = {r} \cup Range(Tail(own))
        /\ IsInjective(Tail(own)) /\ r \notin Range(Tail(own))
    BY <1>1, <1>3, <2>5, TailOfSeq DEF Held
  <2>8. Held(h, res')
    <3>1. \A x \in Range(Tail(own)) : res'[x].status = "ACTIVE"
      BY <1>1, <1>3, <2>2, <2>7 DEF Held
    <3>2. QED BY <2>4, <2>5, <2>7, <3>1 DEF Held
  <2>9. Ahead(h, res') BY <2>4 DEF Ahead
  <2>10. Behind(h, res', order)
    <3>1. ASSUME NEW v \in Variant, <<proc[p].id, v>> \notin Range(Tail(own))
          PROVE  Settled(proc[p].id, v, res', order)
      <4>1. CASE v = r[2]
        <5>1. v \in order[proc[p].id].items BY <1>1, <2>1, <4>1 DEF Behind, AtOne
        <5>2. QED BY <2>2, <2>6, <4>1, <5>1 DEF Settled
      <4>2. CASE v # r[2]
        <5>1. <<proc[p].id, v>> # r BY <2>6, <4>2
        <5>2. Settled(proc[p].id, v, res, order)
          BY <1>1, <2>1, <2>7, <3>1, <5>1 DEF Behind, OrderPc
        <5>3. res'[<<proc[p].id, v>>] = res[<<proc[p].id, v>>]
          BY <2>2, <2>5, <5>1 DEF Reservation
        <5>4. QED BY <5>2, <5>3 DEF Settled
      <4>3. QED BY <4>1, <4>2
    <3>2. QED BY <2>4, <3>1 DEF Behind, AtOne
  <2>11. Hand(h) \subseteq Hand(proc[p]) \cup {NoReservation} BY <2>4, <2>7 DEF Hand
  <2>12. "CONFIRMED" \in ResStatus BY DEF ResStatus
  <2>13. QED
    BY <1>1, <1>2, <2>1, <2>3, <2>5, <2>8, <2>9, <2>10, <2>11, <2>12, SaveOrderly
<1>7. CASE SaveRelease(p) \/ Mark(p)
  <2> DEFINE pc == IF At(p, "mark") THEN "next" ELSE AfterRelease(p)
             s == IF At(p, "mark") THEN "EXPIRED" ELSE "RELEASED"
             h == [proc[p] EXCEPT !.pc = pc]
  <2>1. proc[p].pc \in {"saveReleased", "mark"} /\ Proceed(p, pc) /\ SetStatus(r, s)
    BY <1>7 DEF SaveRelease, Mark, At, Cur
  <2>2. pc \in {"next", "mark"} /\ (pc = "mark" => proc[p].id = NoOrder /\ s = "RELEASED")
        /\ s \in ResStatus /\ s \notin {"NONE", "ACTIVE"}
    BY DEF AfterRelease, ResStatus
  <2>3. Shape(h)
    BY <1>1, <2>1, <2>2 DEF Shape, OrderHandlers, OrderPc, HasCur, NoCur, AtOne
  <2>4. pc \in ReleasePc /\ pc \notin OrderPc \cup AtOne BY <2>2 DEF ReleasePc, OrderPc, AtOne
  <2>5. Moves(p, h) BY <2>1, <2>3, <2>4, ProceedMoves
  <2>6. h.pc = pc /\ h.id = proc[p].id /\ h.own = own /\ h.cur = r
    BY <1>1 DEF OrderHandlers
  <2>7. r \notin Range(own) /\ res[r].status \in {"ACTIVE", "RELEASED"}
    BY <1>1, <2>1 DEF Held
  <2>8. res'[r].status = s /\ \A x \in Reservation \ {r} : res'[x] = res[x]
    BY <1>2, <2>1, <2>2, StatusTyped
  <2>9. Held(h, res')
    <3>1. \A x \in Range(own) : res'[x].status = "ACTIVE"
      BY <1>1, <1>3, <2>7, <2>8 DEF Held
    <3>2. IsInjective(own) BY <1>1 DEF Held
    <3> HIDE DEF pc, s, h
    <3>3. QED BY <2>2, <2>6, <2>7, <2>8, <3>1, <3>2 DEF Held
  <2>10. Ahead(h, res') /\ Behind(h, res', order)
    BY <2>2, <2>4, <2>6 DEF Ahead, Behind
  <2>11. Hand(h) = Hand(proc[p]) BY <2>6 DEF Hand
  <2> HIDE DEF pc, s, h
  <2>12. QED
    BY <1>1, <1>2, <2>1, <2>2, <2>5, <2>7, <2>9, <2>10, <2>11, SaveOrderly
<1>8. QED BY <1>5, <1>6, <1>7

LEMMA InitOrderly == MarketInit => Orderly
<1> SUFFICES ASSUME MarketInit PROVE Orderly
  OBVIOUS
<1>1. \A p \in Proc : proc[p] = NoHandler BY DEF MarketInit
<1>2. Apart BY <1>1, NoHandlerOrderly DEF Apart, InHand, Hand, Cur
<1>3. SoldIsConfirmed BY DEF MarketInit, SoldIsConfirmed
<1>4. QED BY <1>1, <1>2, <1>3, NoHandlerOrderly DEF Orderly

\* Time and the partner's updates change no status.
LEMMA StatusesStay ==
  ASSUME Orderly, UNCHANGED <<order, proc>>, ~history.late,
         \A r \in Reservation : res'[r].status = res[r].status, MInv
  PROVE  Orderly'
<1>1. Apart' BY DEF Orderly, Apart, InHand, Cur
<1>2. SoldIsConfirmed' BY DEF Orderly, SoldIsConfirmed, Reservation
<1>3. ASSUME NEW p \in Proc
      PROVE  Held(proc[p], res') /\ Ahead(proc[p], res') /\ Behind(proc[p], res', order)
  <2>1. /\ Held(proc[p], res) /\ Ahead(proc[p], res) /\ Behind(proc[p], res, order)
        /\ proc[p] \in OrderHandlers /\ Shape(proc[p])
    BY <1>3, OrderlyInPlace
  <2>2. Range(proc[p].own) \subseteq Reservation BY <2>1, HandTyped
  <2>3. proc[p].cur \in Reservation \cup {NoReservation} BY <2>1 DEF OrderHandlers
  <2>4. Held(proc[p], res') BY <2>1, <2>2, <2>3 DEF Held, Shape, HasCur
  <2>5. proc[p].pc \in OrderPc => proc[p].id \in Order BY <2>1 DEF Shape
  <2>6. Range(proc[p].todo) \subseteq Variant BY <2>1 DEF OrderHandlers, Range
  <2>7. Ahead(proc[p], res') BY <2>1, <2>5, <2>6 DEF Ahead, Shape, HasCur, OrderPc, Reservation
  <2>8. Behind(proc[p], res', order) BY <2>1, <2>5 DEF Behind, Settled, Reservation
  <2>9. QED BY <2>4, <2>7, <2>8
<1>4. QED BY <1>1, <1>2, <1>3 DEF Orderly

\* Once late, always late; once cut, always cut.
LEMMA FlagsStay ==
  MInv /\ [MarketNext]_marketVars =>
    (history.late => history'.late) /\ (history.cut => history'.cut)
<1> SUFFICES ASSUME MInv, [MarketNext]_marketVars
             PROVE  (history.late => history'.late) /\ (history.cut => history'.cut)
  OBVIOUS
<1>1. history \in Histories BY DEF MInv, MarketTypeOK
<1>2. ASSUME NEW p \in Proc, JobFind(p)
      PROVE  (history.late => history'.late) /\ history'.cut = history.cut
  <2> DEFINE found == {r \in Reservation : res[r].status = "ACTIVE" /\ res[r].old}
             late == history.late \/ \E q \in Proc : found \cap InHand(q) # {}
  <2>1. history.late => late BY Zenon
  <2>2. history' = [history EXCEPT !.late = late] BY <1>2 DEF JobFind
  <2> HIDE DEF late
  <2>3. QED BY <1>1, <2>1, <2>2 DEF Histories
<1>3. ASSUME NEW v \in Variant, NEW n \in 0 .. InitialStock, Restock(v, n)
      PROVE  history'.late = history.late /\ history'.cut = history.cut
  <2> DEFINE low == history.lowered \/ n < stock[v].reserved
  <2>1. history' = [history EXCEPT !.restocks = history.restocks + 1, !.lowered = low]
    BY <1>3 DEF Restock
  <2> HIDE DEF low
  <2>2. QED BY <1>1, <2>1 DEF Histories
<1>4. ASSUME NEW p \in Proc, Step(p) PROVE history' = history
  BY <1>4 DEF Step, Reserve, Refuse, CreateReservation, CreateOrder, AddItem, LoadConfirm, Take,
     SaveConfirmed, FinishOrder, LoadRelease, Lower, SaveRelease, Mark
<1>5. ASSUME NEW p \in Proc, ReservationFails(p) \/ Stop(p)
      PROVE  history'.late = history.late /\ (history.cut => history'.cut)
  BY <1>5, FailsKnown, StopKnown
<1>6. QED BY <1>2, <1>3, <1>4, <1>5 DEF MarketNext, BeginOrder, Age, marketVars

LEMMA NextOInv == MInv /\ OInv /\ [MarketNext]_marketVars => OInv'
<1> SUFFICES ASSUME MInv, OInv, [MarketNext]_marketVars, ~history'.late PROVE Orderly'
  BY DEF OInv
<1>1. ~history.late /\ Orderly BY FlagsStay DEF OInv
<1>2. ASSUME NEW p \in Proc, Step(p) \/ ReservationFails(p) \/ Stop(p) PROVE Orderly'
  BY <1>1, <1>2, ReserveOrderly, MovingOrderly, OrderingOrderly, SavingOrderly DEF Step
<1>3. ASSUME NEW v \in Variant, NEW n \in 0 .. InitialStock, Restock(v, n) PROVE Orderly'
  BY <1>1, <1>3, StatusesStay DEF Restock
<1>4. ASSUME NEW r \in Reservation, Age(r) PROVE Orderly'
  <2>1. \A x \in Reservation : res'[x].status = res[x].status
    BY <1>4 DEF Age, MInv, MarketTypeOK, Reservations
  <2>2. QED BY <1>1, <1>4, <2>1, StatusesStay DEF Age
<1>5. CASE UNCHANGED marketVars BY <1>1, <1>5, StatusesStay DEF marketVars
<1>6. QED BY <1>1, <1>2, <1>3, <1>4, <1>5, JobFindOrderly, BeginOrderly DEF MarketNext

-----------------------------------------------------------------------------
(* The counters                                                               *)

LEMMA FiniteCounts ==
  ASSUME NEW v
  PROVE  IsFiniteSet(Counted(v)) /\ IsFiniteSet(Gone(v))
  BY FiniteReservations, FS_Subset DEF Counted, Gone

\* A handler that does something with a reservation is the only one.
LEMMA Alone ==
  ASSUME Orderly, NEW p \in Proc, NEW r \in Reservation, r \in Hand(proc[p])
  PROVE  \A q \in Proc \ {p} : proc[q].cur # r
  BY NotReservation DEF Orderly, Apart, InHand, Hand, Cur

\* Where one handler has the reservation, its place says how it is counted.
LEMMA CountedAt ==
  ASSUME NEW p \in Proc, NEW r, \A q \in Proc \ {p} : proc[q].cur # r
  PROVE  /\ Counts(r) <=>
              \/ /\ res[r].status = "ACTIVE"
                 /\ ~(proc[p].pc \in {"saveConfirmed", "saveReleased"} /\ proc[p].cur = r)
              \/ proc[p].pc = "hold" /\ proc[p].cur = r
         /\ Taken(r) <=>
              \/ res[r].status = "CONFIRMED"
              \/ proc[p].pc = "saveConfirmed" /\ proc[p].cur = r
<1>1. \A q \in Proc : proc[q].cur = r => q = p OBVIOUS
<1>2. QED BY <1>1 DEF Counts, Taken, At, Cur

\* p deals with r only: all others count as before.
LEMMA OthersCount ==
  ASSUME NEW p \in Proc, NEW r, \A q \in Proc \ {p} : proc'[q] = proc[q],
         proc[p].pc \in Between => proc[p].cur = r,
         proc'[p].pc \in Between => proc'[p].cur = r,
         NEW x, x # r, res'[x].status = res[x].status
  PROVE  (Counts(x)' <=> Counts(x)) /\ (Taken(x)' <=> Taken(x))
<1>1. \A q \in Proc :
        /\ proc'[q].pc \in Between /\ proc'[q].cur = x <=> proc[q].pc \in Between /\ proc[q].cur = x
        /\ proc[q].pc \in Between /\ proc[q].cur = x => proc'[q] = proc[q]
  OBVIOUS
<1>2. \A q \in Proc :
        proc'[q].pc \in {"saveConfirmed", "saveReleased"} /\ proc'[q].cur = x <=>
        proc[q].pc \in {"saveConfirmed", "saveReleased"} /\ proc[q].cur = x
  BY <1>1 DEF Between
<1>3. \A q \in Proc : proc'[q].pc = "hold" /\ proc'[q].cur = x <=> proc[q].pc = "hold" /\ proc[q].cur = x
  BY <1>1 DEF Between
<1>4. \A q \in Proc : proc'[q].pc = "saveConfirmed" /\ proc'[q].cur = x <=>
                      proc[q].pc = "saveConfirmed" /\ proc[q].cur = x
  BY <1>1 DEF Between
<1>5. QED BY <1>2, <1>3, <1>4 DEF Counts, Taken, At, Cur

LEMMA TallyStays ==
  ASSUME Tally, UNCHANGED stock, history'.restocks = history.restocks,
         \A x \in Reservation : (Counts(x)' <=> Counts(x)) /\ (Taken(x)' <=> Taken(x))
  PROVE  Tally'
<1>1. \A v \in Variant : Counted(v)' = Counted(v) /\ Gone(v)' = Gone(v) BY DEF Counted, Gone
<1>2. QED BY <1>1 DEF Tally

\* p is at no place, before and after, where a reservation counts otherwise.
LEMMA ElsewhereTallies ==
  ASSUME Tally, UNCHANGED stock, history'.restocks = history.restocks, NEW p \in Proc,
         \A q \in Proc \ {p} : proc'[q] = proc[q],
         proc[p].pc \notin Between, proc'[p].pc \notin Between,
         \A x \in Reservation :
           \/ res'[x].status = res[x].status
           \/ {res[x].status, res'[x].status} \cap {"ACTIVE", "CONFIRMED"} = {}
  PROVE  Tally'
<1>1. \A q \in Proc :
        \/ proc'[q] = proc[q]
        \/ proc[q].pc \notin Between /\ proc'[q].pc \notin Between
  OBVIOUS
<1>2. ASSUME NEW x \in Reservation
      PROVE (Counts(x)' <=> Counts(x)) /\ (Taken(x)' <=> Taken(x))
  <2>1. \A q \in Proc :
          /\ proc'[q].pc \in {"saveConfirmed", "saveReleased"} /\ proc'[q].cur = x <=>
             proc[q].pc \in {"saveConfirmed", "saveReleased"} /\ proc[q].cur = x
          /\ proc'[q].pc = "hold" /\ proc'[q].cur = x <=> proc[q].pc = "hold" /\ proc[q].cur = x
          /\ proc'[q].pc = "saveConfirmed" /\ proc'[q].cur = x <=>
             proc[q].pc = "saveConfirmed" /\ proc[q].cur = x
    BY <1>1 DEF Between
  <2>2. /\ res'[x].status = "ACTIVE" <=> res[x].status = "ACTIVE"
        /\ res'[x].status = "CONFIRMED" <=> res[x].status = "CONFIRMED"
    OBVIOUS
  <2>3. QED BY <2>1, <2>2 DEF Counts, Taken, At, Cur
<1>3. QED BY <1>2, TallyStays

\* One more, or one less, of the reservations of v.
LEMMA OneMoreCounted ==
  ASSUME NEW r \in Reservation, ~Counts(r), Counts(r)',
         \A x \in Reservation \ {r} : Counts(x)' <=> Counts(x)
  PROVE  /\ Cardinality(Counted(r[2])') = Cardinality(Counted(r[2])) + 1
         /\ \A w \in Variant \ {r[2]} : Counted(w)' = Counted(w)
<1>1. Counted(r[2])' = Counted(r[2]) \cup {r} /\ r \notin Counted(r[2]) BY DEF Counted
<1>2. \A w \in Variant \ {r[2]} : Counted(w)' = Counted(w) BY DEF Counted
<1>3. QED BY <1>1, <1>2, FiniteCounts, FS_AddElement

LEMMA OneLessCounted ==
  ASSUME NEW r \in Reservation, Counts(r), ~Counts(r)',
         \A x \in Reservation \ {r} : Counts(x)' <=> Counts(x)
  PROVE  /\ Cardinality(Counted(r[2])') = Cardinality(Counted(r[2])) - 1
         /\ Cardinality(Counted(r[2])) \in Nat \ {0}
         /\ \A w \in Variant \ {r[2]} : Counted(w)' = Counted(w)
<1>1. Counted(r[2])' = Counted(r[2]) \ {r} /\ r \in Counted(r[2]) BY DEF Counted
<1>2. \A w \in Variant \ {r[2]} : Counted(w)' = Counted(w) BY DEF Counted
<1>3. Cardinality(Counted(r[2])') = Cardinality(Counted(r[2])) - 1
  BY <1>1, FiniteCounts, FS_RemoveElement
<1>4. Cardinality(Counted(r[2])) \in Nat /\ Cardinality(Counted(r[2])) # 0
  BY <1>1, FiniteCounts, FS_CardinalityType, FS_EmptySet
<1>5. QED BY <1>2, <1>3, <1>4

LEMMA OneMoreGone ==
  ASSUME NEW r \in Reservation, ~Taken(r), Taken(r)',
         \A x \in Reservation \ {r} : Taken(x)' <=> Taken(x)
  PROVE  /\ Cardinality(Gone(r[2])') = Cardinality(Gone(r[2])) + 1
         /\ \A w \in Variant \ {r[2]} : Gone(w)' = Gone(w)
<1>1. Gone(r[2])' = Gone(r[2]) \cup {r} /\ r \notin Gone(r[2]) BY DEF Gone
<1>2. \A w \in Variant \ {r[2]} : Gone(w)' = Gone(w) BY DEF Gone
<1>3. QED BY <1>1, <1>2, FiniteCounts, FS_AddElement

LEMMA GoneStays ==
  ASSUME \A x \in Reservation : Taken(x)' <=> Taken(x)
  PROVE  \A w \in Variant : Gone(w)' = Gone(w)
  BY DEF Gone

\* A unit is set aside for a line.
LEMMA ReserveTallies ==
  ASSUME MInv, Orderly, Tally, NEW p \in Proc, Reserve(p)
  PROVE  Tally'
<1>0. PICK v, r : v = Head(proc[p].todo) /\ r = <<proc[p].id, v>>
  OBVIOUS
<1> DEFINE h == [proc[p] EXCEPT !.pc = "hold", !.todo = Tail(proc[p].todo), !.cur = r]
<1>1. v \in Variant /\ Moves(p, h) BY <1>0, ReserveMoves
<1>2. proc'[p] = h /\ \A q \in Proc \ {p} : proc'[q] = proc[q] BY <1>1, OneMoves
<1>3. /\ UNCHANGED <<res, history>> /\ proc[p].pc = "reserve"
      /\ stock' = [stock EXCEPT ![v].reserved = stock[v].reserved + 1]
  BY <1>0 DEF Reserve, At
<1>4. /\ proc[p] \in OrderHandlers /\ Shape(proc[p]) /\ Ahead(proc[p], res)
  BY OrderlyInPlace
<1>5. proc[p].id \in Order /\ r \in Reservation
  BY <1>0, <1>1, <1>3, InPlace DEF Reserving, Reservation
<1>6. proc[p].todo \in Seq(Variant) /\ proc[p].todo # << >>
  BY <1>3, <1>4 DEF Shape, OrderHandlers
<1>7. v \in Range(proc[p].todo) BY <1>0, <1>6, TailOfSeq
<1>8. res[r].status = "NONE" BY <1>0, <1>3, <1>4, <1>7 DEF Ahead
<1>9. h.pc = "hold" /\ h.cur = r BY <1>4 DEF OrderHandlers
<1>10. \A q \in Proc \ {p} : proc[q].cur # r /\ proc'[q].cur # r
  BY <1>0, <1>2, NobodyHas DEF Hand
<1>11. ~Counts(r) /\ ~Taken(r) BY <1>3, <1>8, <1>10, CountedAt
<1>12. Counts(r)' /\ ~Taken(r)'
  BY <1>2, <1>3, <1>8, <1>9, <1>10 DEF Counts, Taken, At, Cur
<1>13. \A x \in Reservation \ {r} : (Counts(x)' <=> Counts(x)) /\ (Taken(x)' <=> Taken(x))
  BY <1>2, <1>3, <1>9, OthersCount DEF Between
<1>14. r[2] = v BY <1>0
<1>15. /\ Cardinality(Counted(v)') = Cardinality(Counted(v)) + 1
       /\ \A w \in Variant \ {v} : Counted(w)' = Counted(w)
  BY <1>5, <1>11, <1>12, <1>13, <1>14, OneMoreCounted
<1>16. \A w \in Variant : Gone(w)' = Gone(w) BY <1>11, <1>12, <1>13, GoneStays
<1>17. /\ stock'[v].reserved = stock[v].reserved + 1 /\ stock'[v].available = stock[v].available
       /\ \A w \in Variant \ {v} : stock'[w] = stock[w]
  BY <1>1, <1>3 DEF MInv, MarketTypeOK, Stocks
<1>18. QED BY <1>3, <1>15, <1>16, <1>17 DEF Tally

\* What is written of a reservation makes up for the counter that was changed.
LEMMA SavingTallies ==
  ASSUME MInv, Orderly, Tally, NEW p \in Proc,
         CreateReservation(p) \/ SaveConfirmed(p) \/ SaveRelease(p) \/ Mark(p)
  PROVE  Tally'
<1>0. PICK r : r = proc[p].cur
  OBVIOUS
<1> DEFINE s == IF At(p, "hold") THEN "ACTIVE"
                ELSE IF At(p, "saveConfirmed") THEN "CONFIRMED"
                ELSE IF At(p, "saveReleased") THEN "RELEASED" ELSE "EXPIRED"
<1>1. /\ proc[p] \in OrderHandlers /\ Shape(proc[p])
      /\ Held(proc[p], res) /\ Ahead(proc[p], res)
  BY OrderlyInPlace
<1>2. /\ UNCHANGED <<stock, history>> /\ SetStatus(r, s)
      /\ proc[p].pc \in Between \cup {"mark"}
  BY <1>0 DEF CreateReservation, SaveConfirmed, SaveRelease, Mark, At, Cur, Between
<1>3. r \in Reservation BY <1>0, <1>1, <1>2 DEF Shape, HasCur, AtOne, Between
<1>4. res'[r].status = s /\ \A x \in Reservation \ {r} : res'[x] = res[x]
  BY <1>2, <1>3, StatusTyped DEF ResStatus
<1>5. proc'[p].pc \notin Between /\ \A q \in Proc \ {p} : proc'[q] = proc[q]
  <2>1. proc \in [Proc -> OrderHandlers] BY DEF MInv, MarketTypeOK
  <2>2. CASE CreateReservation(p) BY <2>1, <2>2 DEF CreateReservation, Between, OrderHandlers
  <2>3. CASE SaveConfirmed(p) BY <2>1, <2>3 DEF SaveConfirmed, Between, OrderHandlers
  <2>4. CASE SaveRelease(p) \/ Mark(p)
    BY <2>1, <2>4 DEF SaveRelease, Mark, Proceed, AfterRelease, Between, OrderHandlers
  <2>5. QED BY <2>2, <2>3, <2>4
<1>6. \A q \in Proc \ {p} : proc[q].cur # r /\ proc'[q].cur # r
  BY <1>0, <1>3, <1>5, Alone DEF Hand
<1>7. /\ Counts(r) <=>
           \/ res[r].status = "ACTIVE" /\ proc[p].pc \notin {"saveConfirmed", "saveReleased"}
           \/ proc[p].pc = "hold"
      /\ Taken(r) <=> res[r].status = "CONFIRMED" \/ proc[p].pc = "saveConfirmed"
  BY <1>0, <1>6, CountedAt
<1>8. \A q \in Proc : proc'[q].pc \in Between => proc'[q].cur # r BY <1>5, <1>6
<1>9. (Counts(r)' <=> s = "ACTIVE") /\ (Taken(r)' <=> s = "CONFIRMED")
  BY <1>4, <1>8 DEF Counts, Taken, At, Cur, Between
<1>10. (Counts(r)' <=> Counts(r)) /\ (Taken(r)' <=> Taken(r))
  <2>1. CASE proc[p].pc = "hold" BY <1>0, <1>1, <1>7, <1>9, <2>1 DEF At, Ahead
  <2>2. CASE proc[p].pc = "saveConfirmed" BY <1>7, <1>9, <2>2 DEF At
  <2>3. CASE proc[p].pc = "saveReleased" BY <1>0, <1>1, <1>7, <1>9, <2>3 DEF At, Held
  <2>4. CASE proc[p].pc = "mark" BY <1>0, <1>1, <1>7, <1>9, <2>4 DEF At, Held
  <2>5. QED BY <1>2, <2>1, <2>2, <2>3, <2>4 DEF Between
<1>11. ASSUME NEW x \in Reservation \ {r}
       PROVE  (Counts(x)' <=> Counts(x)) /\ (Taken(x)' <=> Taken(x))
  BY <1>0, <1>4, <1>5, OthersCount
<1>12. QED BY <1>2, <1>10, <1>11, TallyStays

\* A unit leaves the shelf, or is free again.
LEMMA LoweringTallies ==
  ASSUME MInv, Orderly, Tally, NEW p \in Proc, Take(p) \/ Lower(p)
  PROVE  Tally'
<1>0. PICK r, v : r = proc[p].cur /\ v = r[2]
  OBVIOUS
<1> DEFINE pc == IF At(p, "take") THEN "saveConfirmed" ELSE "saveReleased"
           n == IF At(p, "take") THEN stock[v].available - 1 ELSE stock[v].available
           row == [available |-> n, reserved |-> stock[v].reserved - 1]
<1>1. /\ proc[p] \in OrderHandlers /\ Shape(proc[p]) /\ Held(proc[p], res)
      /\ stock \in [Variant -> Stocks]
  BY OrderlyInPlace DEF MInv, MarketTypeOK
<1>2. /\ UNCHANGED <<res, history>> /\ proc[p].pc \in {"take", "lower"} /\ Proceed(p, pc)
      /\ stock[v].reserved >= 1 => stock' = [stock EXCEPT ![v] = row]
  BY <1>0 DEF Take, Lower, At, Cur, SetStock, Stock
<1>3. r \in Reservation /\ v \in Variant BY <1>0, <1>2, InPlace DEF HasCur, AtOne
<1>4. res[r].status = "ACTIVE"
  <2>1. CASE proc[p].pc = "lower" BY <1>0, <1>1, <2>1 DEF Held
  <2>2. CASE proc[p].pc = "take"
    <3>1. proc[p].own \in Seq(Reservation) /\ proc[p].own # << >> /\ r = Head(proc[p].own)
      BY <1>0, <1>1, <2>2 DEF Shape, AtOne, OrderHandlers
    <3>2. r \in Range(proc[p].own) BY <3>1, TailOfSeq
    <3>3. QED BY <1>1, <3>2 DEF Held
  <2>3. QED BY <1>2, <2>1, <2>2
<1>5. proc'[p].pc = pc /\ proc'[p].cur = r /\ \A q \in Proc \ {p} : proc'[q] = proc[q]
  BY <1>0, <1>2 DEF Proceed, MInv, MarketTypeOK, OrderHandlers
<1>6. \A q \in Proc \ {p} : proc[q].cur # r /\ proc'[q].cur # r
  BY <1>0, <1>3, <1>5, Alone DEF Hand
<1>7. Counts(r) /\ ~Taken(r) BY <1>0, <1>2, <1>4, <1>6, CountedAt
<1>8. ~Counts(r)' /\ (Taken(r)' <=> proc[p].pc = "take")
  <2>1. proc'[p].pc \in {"saveConfirmed", "saveReleased"} /\ proc'[p].pc # "hold"
    BY <1>5
  <2>2. ~Counts(r)' BY <1>5, <1>6, <2>1 DEF Counts, At, Cur
  <2>3. proc'[p].pc = "saveConfirmed" <=> proc[p].pc = "take" BY <1>5 DEF At
  <2>4. Taken(r)' <=> proc[p].pc = "take"
    BY <1>2, <1>4, <1>5, <1>6, <2>3 DEF Taken, At, Cur
  <2>5. QED BY <2>2, <2>4
<1>9. ASSUME NEW x \in Reservation \ {r}
      PROVE  (Counts(x)' <=> Counts(x)) /\ (Taken(x)' <=> Taken(x))
  BY <1>0, <1>2, <1>5, OthersCount DEF Between
<1>10. /\ Cardinality(Counted(v)') = Cardinality(Counted(v)) - 1
       /\ Cardinality(Counted(v)) \in Nat \ {0}
       /\ \A w \in Variant \ {v} : Counted(w)' = Counted(w)
  BY <1>0, <1>3, <1>7, <1>8, <1>9, OneLessCounted
<1>11. stock[v].reserved >= 1 BY <1>3, <1>10 DEF Tally
<1>12. /\ stock'[v].reserved = stock[v].reserved - 1 /\ stock'[v].available = n
       /\ \A w \in Variant \ {v} : stock'[w] = stock[w]
  BY <1>1, <1>2, <1>3, <1>11
<1>13. CASE proc[p].pc = "take"
  <2>1. /\ Cardinality(Gone(v)') = Cardinality(Gone(v)) + 1
        /\ \A w \in Variant \ {v} : Gone(w)' = Gone(w)
    BY <1>0, <1>3, <1>7, <1>8, <1>9, <1>13, OneMoreGone
  <2>2. n = stock[v].available - 1 BY <1>13 DEF At
  <2>3. Cardinality(Gone(v)) \in Nat BY FiniteCounts, FS_CardinalityType
  <2>4. stock[v].available \in Int /\ InitialStock \in Nat
    BY <1>1, <1>3, StockAssumption DEF Stocks
  <2>5. history.restocks = 0 => stock'[v].available + Cardinality(Gone(v)') = InitialStock
    <3> HIDE DEF n
    <3>1. QED BY <1>3, <1>12, <2>1, <2>2, <2>3, <2>4 DEF Tally
  <2>6. QED BY <1>2, <1>10, <1>12, <2>1, <2>5 DEF Tally
<1>14. CASE proc[p].pc = "lower"
  <2>1. \A w \in Variant : Gone(w)' = Gone(w) BY <1>7, <1>8, <1>9, <1>14, GoneStays
  <2>2. n = stock[v].available BY <1>14 DEF At
  <2>3. QED BY <1>2, <1>10, <1>12, <2>1, <2>2 DEF Tally
<1>15. QED BY <1>2, <1>13, <1>14

\* Handlers that change no counter, and no status that is counted.
LEMMA MovingTallies ==
  ASSUME MInv, Tally, NEW p \in Proc,
         \/ Refuse(p) \/ CreateOrder(p) \/ AddItem(p) \/ LoadConfirm(p) \/ FinishOrder(p)
         \/ LoadRelease(p) \/ JobFind(p)
         \/ (ReservationFails(p) \/ Stop(p)) /\ ~history'.cut
  PROVE  Tally'
<1>1. proc \in [Proc -> OrderHandlers] /\ history \in Histories /\ UNCHANGED <<stock, res>>
  BY DEF MInv, MarketTypeOK, Refuse, CreateOrder, AddItem, LoadConfirm, FinishOrder, LoadRelease,
     JobFind, ReservationFails, Stop
<1>2. history'.restocks = history.restocks
  <2>1. CASE JobFind(p)
    <3> DEFINE found == {r \in Reservation : res[r].status = "ACTIVE" /\ res[r].old}
               late == history.late \/ \E q \in Proc : found \cap InHand(q) # {}
    <3>1. history' = [history EXCEPT !.late = late] BY <2>1 DEF JobFind
    <3> HIDE DEF late
    <3>2. QED BY <1>1, <3>1 DEF Histories
  <2>2. QED
    BY <2>1, FailsKnown, StopKnown
       DEF Refuse, CreateOrder, AddItem, LoadConfirm, FinishOrder, LoadRelease
<1>3. ASSUME Return(p), proc[p].pc \notin Between PROVE Tally'
  <2>1. proc'[p] = NoHandler /\ \A q \in Proc \ {p} : proc'[q] = proc[q]
    BY <1>1, <1>3 DEF Return
  <2>2. NoHandler.pc \notin Between BY DEF NoHandler, Between
  <2>3. QED BY <1>1, <1>2, <1>3, <2>1, <2>2, ElsewhereTallies
<1>4. ASSUME NEW pc \in {"next", "item", "take"}, Proceed(p, pc), proc[p].pc \notin Between
      PROVE  Tally'
  <2>1. proc'[p].pc = pc /\ \A q \in Proc \ {p} : proc'[q] = proc[q]
    BY <1>1, <1>4 DEF Proceed, OrderHandlers
  <2>2. QED BY <1>1, <1>2, <1>4, <2>1, ElsewhereTallies DEF Between
<1>5. CASE Refuse(p) BY <1>4, <1>5 DEF Refuse, At, Between
<1>6. CASE CreateOrder(p) BY <1>3, <1>4, <1>6 DEF CreateOrder, At, Between
<1>7. CASE AddItem(p)
  <2>1. proc'[p].pc = "loadConfirm" /\ \A q \in Proc \ {p} : proc'[q] = proc[q]
    BY <1>1, <1>7 DEF AddItem, OrderHandlers
  <2>2. proc[p].pc \notin Between BY <1>7 DEF AddItem, At, Between
  <2>3. QED BY <1>1, <1>2, <2>1, <2>2, ElsewhereTallies DEF Between
<1>8. CASE LoadConfirm(p) BY <1>3, <1>4, <1>8 DEF LoadConfirm, At, Between
<1>9. CASE FinishOrder(p) BY <1>3, <1>9 DEF FinishOrder, At, Between
<1>10. CASE LoadRelease(p)
  <2>1. proc[p].pc \notin Between BY <1>10 DEF LoadRelease, At, Between
  <2>2. CASE Return(p) BY <1>3, <2>1, <2>2
  <2>3. CASE ~Return(p)
    <3>1. proc'[p].pc \in {"lower", "mark", "next"} /\ \A q \in Proc \ {p} : proc'[q] = proc[q]
      BY <1>1, <1>10, <2>3 DEF LoadRelease, AfterRelease, OrderHandlers
    <3>2. QED BY <1>1, <1>2, <2>1, <3>1, ElsewhereTallies DEF Between
  <2>4. QED BY <2>2, <2>3
<1>11. CASE JobFind(p)
  <2>1. proc'[p].pc = "next" /\ \A q \in Proc \ {p} : proc'[q] = proc[q]
    <3>1. PICK s : proc' = [proc EXCEPT ![p].pc = "next", ![p].own = s] BY <1>11 DEF JobFind
    <3>2. QED BY <1>1, <3>1 DEF OrderHandlers
  <2>2. proc[p].pc \notin Between BY <1>11 DEF JobFind, At, Between
  <2>3. QED BY <1>1, <1>2, <2>1, <2>2, ElsewhereTallies DEF Between
<1>12. CASE ReservationFails(p) /\ ~history'.cut
  <2>1. proc[p].pc = "reserve" BY <1>12, FailsKnown DEF ReservationFails, At
  <2>2. QED BY <1>4, <1>12, <2>1 DEF ReservationFails, Between
<1>13. CASE Stop(p) /\ ~history'.cut
  <2>1. ~HalfWay(p) BY <1>13, StopKnown
  <2>2. QED BY <1>3, <1>13, <2>1 DEF Stop, HalfWay, Between
<1>14. QED BY <1>5, <1>6, <1>7, <1>8, <1>9, <1>10, <1>11, <1>12, <1>13

LEMMA InitCInv == MarketInit => Tally
<1> SUFFICES ASSUME MarketInit, NEW v \in Variant
             PROVE  /\ stock[v].reserved = Cardinality(Counted(v))
                    /\ stock[v].available + Cardinality(Gone(v)) = InitialStock
  BY DEF Tally
<1>1. Counted(v) = {} /\ Gone(v) = {}
  BY DEF MarketInit, Counted, Gone, Counts, Taken, At, Cur, NoHandler
<1>2. QED BY <1>1, FS_EmptySet, StockAssumption DEF MarketInit

LEMMA NextCInv == MInv /\ OInv /\ CInv /\ [MarketNext]_marketVars => CInv'
<1> SUFFICES ASSUME MInv, OInv, CInv, [MarketNext]_marketVars, ~history'.late, ~history'.cut
             PROVE  Tally'
  BY DEF CInv
<1>1. ~history.late /\ ~history.cut /\ Orderly /\ Tally BY FlagsStay DEF OInv, CInv
<1>2. ASSUME NEW p \in Proc, Step(p) \/ JobFind(p) \/ ReservationFails(p) \/ Stop(p)
      PROVE  Tally'
  BY <1>1, <1>2, ReserveTallies, SavingTallies, LoweringTallies, MovingTallies DEF Step
<1>3. ASSUME NEW p \in Proc, NEW o \in Order, NEW cart \in Carts, NEW k \in Key \cup {NoKey},
             BeginOrder(p, o, cart, k)
      PROVE  Tally'
  <2>1. proc'[p].pc = "reserve" /\ \A q \in Proc \ {p} : proc'[q] = proc[q]
    <3>1. proc \in [Proc -> OrderHandlers] BY DEF MInv, MarketTypeOK
    <3>2. QED BY <1>3, <3>1 DEF BeginOrder
  <2>2. /\ proc[p].pc \notin Between /\ proc'[p].pc \notin Between
        /\ UNCHANGED <<stock, res, history>>
    BY <1>3, <2>1 DEF BeginOrder, At, Between
  <2>3. QED BY <1>1, <2>1, <2>2, ElsewhereTallies
<1>4. ASSUME NEW v \in Variant, NEW n \in 0 .. InitialStock, Restock(v, n) PROVE Tally'
  <2> DEFINE low == history.lowered \/ n < stock[v].reserved
  <2>1. history' = [history EXCEPT !.restocks = history.restocks + 1, !.lowered = low]
    BY <1>4 DEF Restock
  <2>2. history \in Histories /\ stock \in [Variant -> Stocks] BY DEF MInv, MarketTypeOK
  <2> HIDE DEF low
  <2>3. history'.restocks # 0 BY <2>1, <2>2, BoundAssumption DEF Histories
  <2>4. UNCHANGED <<res, proc>> /\ \A w \in Variant : stock'[w].reserved = stock[w].reserved
    BY <1>4, <2>2 DEF Restock, Stocks
  <2>5. \A w \in Variant : Counted(w)' = Counted(w) BY <2>4 DEF Counted, Counts, At, Cur
  <2>6. QED BY <1>1, <2>3, <2>4, <2>5 DEF Tally
<1>5. ASSUME NEW r \in Reservation, Age(r) PROVE Tally'
  <2>1. UNCHANGED <<stock, proc, history>> /\ \A x \in Reservation : res'[x].status = res[x].status
    BY <1>5 DEF Age, MInv, MarketTypeOK, Reservations
  <2>2. \A x \in Reservation : (Counts(x)' <=> Counts(x)) /\ (Taken(x)' <=> Taken(x))
    BY <2>1 DEF Counts, Taken, At, Cur
  <2>3. QED BY <1>1, <2>1, <2>2, TallyStays
<1>6. CASE UNCHANGED marketVars
  <2>1. \A x \in Reservation : (Counts(x)' <=> Counts(x)) /\ (Taken(x)' <=> Taken(x))
    BY <1>6 DEF marketVars, Counts, Taken, At, Cur
  <2>2. QED BY <1>1, <1>6, <2>1, TallyStays DEF marketVars
<1>7. QED BY <1>2, <1>3, <1>4, <1>5, <1>6 DEF MarketNext

-----------------------------------------------------------------------------
(* The results                                                                *)

LEMMA OrdersInvariance == MarketSpec => [](MInv /\ OInv /\ CInv)
<1>1. MarketInit => MInv /\ OInv /\ CInv BY InitMInv, InitOrderly, InitCInv DEF OInv, CInv
<1>2. MInv /\ OInv /\ CInv /\ [MarketNext]_marketVars => (MInv /\ OInv /\ CInv)'
  BY NextMInv, NextOInv, NextCInv
<1>3. QED BY <1>1, <1>2, PTL DEF MarketSpec

\* The documents, handlers and counters of orders have the shapes of their
\* schemas: createOrder, the release of reservations and the job.
THEOREM MarketTypeCorrect == MarketSpec => []MarketTypeOK
<1>1. MInv => MarketTypeOK BY DEF MInv
<1>2. QED BY <1>1, OrdersInvariance, PTL

\* When nobody is at work reservedQuantity counts the active reservations, and
\* what is available makes up, with what was sold, the stock there was.
THEOREM CountersAreRight == MarketSpec => []CountersMatch
<1>1. MInv /\ CInv => CountersMatch
  <2> SUFFICES ASSUME CInv, Quiet, ~history.late, ~history.cut, NEW v \in Variant
               PROVE  /\ stock[v].reserved = Cardinality(Having(v, "ACTIVE"))
                      /\ history.restocks = 0 =>
                           stock[v].available + Cardinality(Having(v, "CONFIRMED")) = InitialStock
    BY DEF CountersMatch
  <2>1. \A p \in Proc : proc[p].pc = "idle" BY DEF Quiet, At
  <2>2. \A r \in Reservation : /\ Counts(r) <=> res[r].status = "ACTIVE"
                               /\ Taken(r) <=> res[r].status = "CONFIRMED"
    BY <2>1 DEF Counts, Taken, At, Cur
  <2>3. Counted(v) = Having(v, "ACTIVE") /\ Gone(v) = Having(v, "CONFIRMED")
    BY <2>2 DEF Counted, Gone, Having
  <2>4. QED BY <2>3 DEF CInv, Tally
<1>2. QED BY <1>1, OrdersInvariance, PTL

\* Every live reservation has a unit on the shelf that no other one has, while
\* orders, the job and the partner's updates interleave.
THEOREM HoldsAreOnShelf == MarketSpec => []HeldIsOnShelf
<1>1. MInv /\ CInv => HeldIsOnShelf
  <2> SUFFICES ASSUME MInv, CInv, ~history.late, ~history.cut, ~history.lowered,
                      NEW v \in Variant
               PROVE  Cardinality(Owed(v)) <= stock[v].available
    BY DEF HeldIsOnShelf
  <2>1. Owed(v) \subseteq Counted(v) BY DEF Owed, Having, Counted, Counts
  <2>2. Cardinality(Owed(v)) <= Cardinality(Counted(v))
    BY <2>1, FiniteCounts, FS_Subset
  <2>3. Cardinality(Owed(v)) \in Nat /\ Cardinality(Counted(v)) \in Nat
    BY <2>1, FiniteCounts, FS_Subset, FS_CardinalityType
  <2>4. stock[v].reserved <= stock[v].available /\ stock[v].reserved = Cardinality(Counted(v))
    BY DEF MInv, Covered, CInv, Tally
  <2>5. stock[v].available \in Int BY DEF MInv, MarketTypeOK, Stocks
  <2>6. QED BY <2>2, <2>3, <2>4, <2>5
<1>2. QED BY <1>1, OrdersInvariance, PTL

\* A confirmed order has all its reservations confirmed, and an item for each:
\* it is confirmed after the loop over the lines, and nothing releases them.
THEOREM SalesAreConfirmed == MarketSpec => []SoldIsConfirmed
<1>1. OInv => SoldIsConfirmed BY DEF OInv, Orderly, SoldIsConfirmed
<1>2. QED BY <1>1, OrdersInvariance, PTL
=============================================================================
