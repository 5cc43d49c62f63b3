----------------------- MODULE CarePlanSubscription -----------------------
(***************************************************************************)
(* The subscriptions of one customer to one care plan: subscribe, pay,     *)
(* activate, pause, resume, cancel and renew                               *)
(* (care-plans/subscription.service.ts, subscription-billing.service.ts)   *)
(* and what becomes of their entitlements (generate, suspend, reactivate,  *)
(* consume and adjust of entitlement.service.ts, the expiry of             *)
(* phase12-jobs.ts).  The units of an entitlement are counted in           *)
(* EntitlementLedger; here any use may be the last one.                    *)
(*                                                                         *)
(* Outside production a payment is confirmed as it is created, and the     *)
(* renewal job pays; in production the job leaves an invoice and an order  *)
(* that no payment attempt refers to.                                      *)
(***************************************************************************)
EXTENDS Integers, FiniteSets

CONSTANTS
  Proc,        \* handlers and job runs in flight together
  Sub,         \* ids of Subscription documents
  NoSub,       \* a handler that has no subscription yet
  MaxPeriods   \* bound on the billing periods of a subscription

ASSUME ProcAssumption == IsFiniteSet(Proc)
ASSUME SubAssumption == NoSub \notin Sub
ASSUME PeriodsAssumption == MaxPeriods \in Nat \ {0}

VARIABLES
  production,  \* env.isProd
  sub,         \* the Subscription documents
  attempt,     \* the payment attempt of each one's first invoice
  captured,    \* the gateway has the customer's money for it
  invoiced,    \* the periods a renewal invoice was made for
  ent,         \* the entitlements of each subscription, by billing period
  proc,        \* the handlers in flight
  history      \* what the properties ask about the past

vars == <<production, sub, attempt, captured, invoiced, ent, proc, history>>
docs == <<sub, attempt, invoiced, ent>>

Period == 1..MaxPeriods
Status == {"NONE", "PENDING", "ACTIVE", "PAUSED", "CANCELLED"}
\* period 0: never activated; due: nextBillingAt has passed; ending:
\* cancelAtPeriodEnd.
Subs == [status : Status, period : 0..MaxPeriods, due : BOOLEAN, pauses : 0..2,
         ending : BOOLEAN]
EntStatus == {"NONE", "ACTIVE", "SUSPENDED", "EXHAUSTED", "EXPIRED"}
Pc == {"idle", "create", "order", "claim", "loadActivate", "saveActivate", "generate",
       "createEnt", "saveCancel", "savePause", "saveResume", "suspend", "reactivate", "invoice",
       "renew", "saveAdjust"}
Procs ==
  [pc : Pc, id : Sub \cup {NoSub},
   status : Status, n : Nat]   \* the status it loaded; pauses or a period it goes on with
Histories ==
  [paid    : [Sub -> Nat],    \* payments taken for the subscription
   granted : [Sub -> Nat],    \* sets of entitlements created for it
   restored : SUBSET (Sub \X Period),  \* adjusted to ACTIVE since the last suspension
   crossed : SUBSET Sub,      \* its status was saved out of turn
   cut     : SUBSET Sub]      \* a handler of it was cut off

None == [status |-> "NONE", period |-> 0, due |-> FALSE, pauses |-> 0, ending |-> FALSE]
Idle == [pc |-> "idle", id |-> NoSub, status |-> "NONE", n |-> 0]

Init ==
  /\ production \in BOOLEAN
  /\ sub = [s \in Sub |-> None]
  /\ attempt = [s \in Sub |-> "NONE"]
  /\ captured = [s \in Sub |-> FALSE]
  /\ invoiced = [s \in Sub |-> {}]
  /\ ent = [s \in Sub |-> [k \in Period |-> "NONE"]]
  /\ proc = [p \in Proc |-> Idle]
  /\ history = [paid |-> [s \in Sub |-> 0], granted |-> [s \in Sub |-> 0],
                restored |-> {}, crossed |-> {}, cut |-> {}]

Begins(p, pc, s, status, n) ==
  /\ proc[p].pc = "idle"
  /\ proc' = [proc EXCEPT ![p] = [pc |-> pc, id |-> s, status |-> status, n |-> n]]
  /\ UNCHANGED <<production, docs, captured, history>>

Goto(p, pc) == proc' = [proc EXCEPT ![p].pc = pc]
Finish(p) == proc' = [proc EXCEPT ![p] = Idle]

\* The handlers that saved the status of s and are yet to bring its entitlements
\* in line with it.
Following(s) ==
  {p \in Proc : /\ proc[p].id = s
                /\ proc[p].pc \in {"suspend", "reactivate", "generate", "createEnt"}}

\* A status is saved out of turn: one of them is not done, or the handler itself
\* goes on as if it had another one.
Saves(s, astray) ==
  history' = [history EXCEPT !.crossed = IF astray \/ Following(s) # {} THEN @ \cup {s} ELSE @]

(* createSubscription -------------------------------------------------------*)

\* The check for another subscription of the plan; Sub bounds how many there
\* can be.
BeginCreate(p) ==
  /\ \E s \in Sub : sub[s].status = "NONE"
  /\ \A s \in Sub : sub[s].status \notin {"ACTIVE", "PENDING"}
  /\ Begins(p, "create", NoSub, "NONE", 0)

Create(p, s) ==
  /\ proc[p].pc = "create"
  /\ sub[s].status = "NONE"
  /\ sub' = [sub EXCEPT ![s].status = "PENDING"]
  /\ proc' = [proc EXCEPT ![p] = [@ EXCEPT !.pc = "order", !.id = s]]
  /\ UNCHANGED <<production, attempt, captured, invoiced, ent, history>>

\* createInitialInvoiceAndPayment: the order and its attempt; or, with the
\* idempotency key of an attempt there is for another subscription, of this plan
\* or any other, that one's order, and no attempt for this one.
Order(p) ==
  /\ proc[p].pc = "order"
  /\ \/ /\ attempt' = [attempt EXCEPT ![proc[p].id] = "PENDING"]
        /\ IF production THEN Finish(p) ELSE Goto(p, "claim")
     \/ Finish(p) /\ UNCHANGED attempt
  /\ UNCHANGED <<production, sub, captured, invoiced, ent, history>>

(* The payment is confirmed, the subscription activated ---------------------*)

\* confirmCustomerSubscriptionPayment: the gateway verifies the payment.
BeginConfirm(p, s) ==
  /\ sub[s].status \notin {"NONE", "ACTIVE"}
  /\ captured[s]
  /\ Begins(p, "claim", s, "NONE", 0)

Paid(s) == history' = [history EXCEPT !.paid[s] = @ + 1]

\* Mutant: the attempt is looked up by its order alone.
ClaimAgain(p) ==
  /\ proc[p].pc = "claim"
  /\ attempt' = [attempt EXCEPT ![proc[p].id] = "SUCCEEDED"]
  /\ IF attempt[proc[p].id] = "PENDING" THEN Paid(proc[p].id) ELSE UNCHANGED history
  /\ Goto(p, "loadActivate")
  /\ UNCHANGED <<production, sub, captured, invoiced, ent>>

\* confirmSubscriptionPayment: PENDING to SUCCEEDED, for one caller.
Claim(p) ==
  /\ proc[p].pc = "claim"
  /\ IF attempt[proc[p].id] = "PENDING"
       THEN /\ attempt' = [attempt EXCEPT ![proc[p].id] = "SUCCEEDED"]
            /\ Paid(proc[p].id)
            /\ Goto(p, "loadActivate")
       ELSE Finish(p) /\ UNCHANGED <<attempt, history>>
  /\ UNCHANGED <<production, sub, captured, invoiced, ent>>

\* activateSubscription returns when it finds the subscription active.
LoadActivate(p) ==
  /\ proc[p].pc = "loadActivate"
  /\ IF sub[proc[p].id].status = "ACTIVE" THEN Finish(p) ELSE Goto(p, "saveActivate")
  /\ UNCHANGED <<production, docs, captured, history>>

\* Mutant: the entitlements are forgotten.
SaveActivateOnly(p) ==
  LET s == proc[p].id IN
  /\ proc[p].pc = "saveActivate"
  /\ sub[s].period < MaxPeriods
  /\ sub' = [sub EXCEPT ![s] = [@ EXCEPT !.status = "ACTIVE", !.period = sub[s].period + 1,
                                     !.due = FALSE]]
  /\ Finish(p)
  /\ Saves(s, proc[p].n > 0)
  /\ UNCHANGED <<production, attempt, captured, invoiced, ent>>

\* The save: ACTIVE, with a period that starts now; also when a renewal (n > 0)
\* finds that the subscription was paused or cancelled since.
SaveActivate(p) ==
  LET s == proc[p].id IN
  /\ proc[p].pc = "saveActivate"
  /\ sub[s].period < MaxPeriods
  /\ sub' = [sub EXCEPT ![s] = [@ EXCEPT !.status = "ACTIVE", !.period = sub[s].period + 1,
                                     !.due = FALSE]]
  /\ Goto(p, "generate")
  /\ Saves(s, proc[p].n > 0)
  /\ UNCHANGED <<production, attempt, captured, invoiced, ent>>

\* generateEntitlementsForSubscription looks for those of the current period.
FindEnt(p) ==
  LET k == sub[proc[p].id].period IN
  /\ proc[p].pc = "generate"
  /\ IF ent[proc[p].id][k] = "NONE"
       THEN proc' = [proc EXCEPT ![p] = [@ EXCEPT !.pc = "createEnt", !.n = k]]
       ELSE Finish(p)
  /\ UNCHANGED <<production, docs, captured, history>>

CreateEnt(p) ==
  LET s == proc[p].id IN
  /\ proc[p].pc = "createEnt"
  /\ ent' = [ent EXCEPT ![s] = [@ EXCEPT ![proc[p].n] = "ACTIVE"]]
  /\ history' = [history EXCEPT !.granted[s] = @ + 1]
  /\ Finish(p)
  /\ UNCHANGED <<production, sub, attempt, captured, invoiced>>

(* cancelSubscription, pauseSubscription, resumeSubscription ----------------*)

BeginCancel(p, s) ==
  /\ sub[s].status # "NONE"
  /\ Begins(p, "saveCancel", s, sub[s].status, 0)

\* save() sends the status unless it was CANCELLED already.
SaveCancel(p) ==
  LET s == proc[p].id IN
  /\ proc[p].pc = "saveCancel"
  /\ sub' = [sub EXCEPT ![s].status = IF proc[p].status = "CANCELLED" THEN @ ELSE "CANCELLED"]
  /\ Goto(p, "suspend")
  /\ Saves(s, proc[p].status = "CANCELLED" /\ sub[s].status # "CANCELLED")
  /\ UNCHANGED <<production, attempt, captured, invoiced, ent>>

\* Not immediate: one flag, whatever the subscription has become.
CancelAtPeriodEnd(s) ==
  /\ sub[s].status # "NONE" /\ ~sub[s].ending
  /\ sub' = [sub EXCEPT ![s].ending = TRUE]
  /\ UNCHANGED <<production, attempt, captured, invoiced, ent, proc, history>>

\* Mutant: one pause too many.
BeginPauseAgain(p, s) ==
  /\ sub[s].status = "ACTIVE" /\ sub[s].pauses <= 2
  /\ Begins(p, "savePause", s, "ACTIVE", sub[s].pauses)

\* Two pauses in the life of a subscription.
BeginPause(p, s) ==
  /\ sub[s].status = "ACTIVE" /\ sub[s].pauses < 2
  /\ Begins(p, "savePause", s, "ACTIVE", sub[s].pauses)

\* Mutant: the entitlements go on.
SavePauseOnly(p) ==
  LET s == proc[p].id IN
  /\ proc[p].pc = "savePause"
  /\ sub' = [sub EXCEPT ![s] = [@ EXCEPT !.status = "PAUSED", !.pauses = proc[p].n + 1]]
  /\ Finish(p)
  /\ Saves(s, FALSE)
  /\ UNCHANGED <<production, attempt, captured, invoiced, ent>>

SavePause(p) ==
  LET s == proc[p].id IN
  /\ proc[p].pc = "savePause"
  /\ sub' = [sub EXCEPT ![s] = [@ EXCEPT !.status = "PAUSED", !.pauses = proc[p].n + 1]]
  /\ Goto(p, "suspend")
  /\ Saves(s, FALSE)
  /\ UNCHANGED <<production, attempt, captured, invoiced, ent>>

BeginResume(p, s) ==
  /\ sub[s].status = "PAUSED"
  /\ Begins(p, "saveResume", s, "PAUSED", 0)

SaveResume(p) ==
  /\ proc[p].pc = "saveResume"
  /\ sub' = [sub EXCEPT ![proc[p].id].status = "ACTIVE"]
  /\ Goto(p, "reactivate")
  /\ Saves(proc[p].id, FALSE)
  /\ UNCHANGED <<production, attempt, captured, invoiced, ent>>

\* Entitlement.updateMany: every document of the subscription with one status.
Turn(p, from, to) ==
  /\ ent' = [ent EXCEPT ![proc[p].id] = [k \in Period |-> IF @[k] = from THEN to ELSE @[k]]]
  /\ history' = [history EXCEPT !.restored = {x \in @ : x[1] # proc[p].id}]
  /\ Finish(p)
  /\ UNCHANGED <<production, sub, attempt, captured, invoiced>>

SuspendEntitlements(p) == proc[p].pc = "suspend" /\ Turn(p, "ACTIVE", "SUSPENDED")

ReactivateEntitlements(p) == proc[p].pc = "reactivate" /\ Turn(p, "SUSPENDED", "ACTIVE")

(* consumeEntitlement, adminAdjustEntitlement --------------------------------*)

\* The last unit is used, or an administrator takes it: one write of the status,
\* whatever the entitlement and its subscription have become.
Exhaust(s, k) ==
  /\ ent[s][k] \notin {"NONE", "EXHAUSTED"}
  /\ ent' = [ent EXCEPT ![s][k] = "EXHAUSTED"]
  /\ UNCHANGED <<production, sub, attempt, captured, invoiced, proc, history>>

\* An administrator gives units back: the load ...
BeginAdjust(p, s) ==
  \E k \in Period : ent[s][k] = "EXHAUSTED" /\ Begins(p, "saveAdjust", s, "NONE", k)

\* ... and the save, whatever the subscription's status is.
SaveAdjust(p) ==
  LET s == proc[p].id  k == proc[p].n IN
  /\ proc[p].pc = "saveAdjust"
  /\ ent' = [ent EXCEPT ![s] = [@ EXCEPT ![k] = "ACTIVE"]]
  /\ history' = [history EXCEPT !.restored = @ \cup {<<s, k>>}]
  /\ Finish(p)
  /\ UNCHANGED <<production, sub, attempt, captured, invoiced>>

(* The jobs ------------------------------------------------------------------*)

\* processRenewals: the query, and for each subscription it found ...
BeginRenew(p, s) ==
  /\ sub[s].status = "ACTIVE" /\ sub[s].due /\ ~sub[s].ending
  /\ sub[s].period < MaxPeriods
  /\ Begins(p, "invoice", s, "ACTIVE", sub[s].period + 1)

\* ... the invoice, one for a period: the unique index throws the second time,
\* which ends the run of the job; ...
Invoice(p) ==
  LET s == proc[p].id IN
  /\ proc[p].pc = "invoice"
  /\ invoiced' = [invoiced EXCEPT ![s] = @ \cup {proc[p].n}]
  /\ IF proc[p].n \in invoiced[s] \/ production THEN Finish(p) ELSE Goto(p, "renew")
  /\ UNCHANGED <<production, sub, attempt, captured, ent, history>>

\* ... outside production the save of the period, the paid invoice and the
\* activation.
Renew(p) ==
  LET s == proc[p].id IN
  /\ proc[p].pc = "renew"
  /\ sub' = [sub EXCEPT ![s] = [@ EXCEPT !.period = proc[p].n, !.due = FALSE]]
  /\ Paid(s)
  /\ Goto(p, "loadActivate")
  /\ UNCHANGED <<production, attempt, captured, invoiced, ent>>

\* runEntitlementExpiryJob, by the end of each one's period.
ExpireEntitlements(s) ==
  /\ ent' = [ent EXCEPT ![s] = [k \in Period |->
                IF @[k] = "ACTIVE" /\ (k < sub[s].period \/ sub[s].due) THEN "EXPIRED" ELSE @[k]]]
  /\ ent' # ent
  /\ UNCHANGED <<production, sub, attempt, captured, invoiced, proc, history>>

(* The environment ----------------------------------------------------------*)

\* The customer pays the order.
Capture(s) ==
  /\ attempt[s] = "PENDING" /\ ~captured[s]
  /\ captured' = [captured EXCEPT ![s] = TRUE]
  /\ UNCHANGED <<production, docs, proc, history>>

PeriodPasses(s) ==
  /\ sub[s].period > 0 /\ ~sub[s].due
  /\ sub' = [sub EXCEPT ![s].due = TRUE]
  /\ UNCHANGED <<production, attempt, captured, invoiced, ent, proc, history>>

\* The process ends, or a call it awaits throws.
Fail(p) ==
  /\ proc[p].pc # "idle"
  /\ Finish(p)
  /\ history' = [history EXCEPT !.cut = @ \cup ({proc[p].id} \ {NoSub})]
  /\ UNCHANGED <<production, docs, captured>>

\* The event loop runs what follows an await.
Continue(p) ==
  \/ \E s \in Sub : Create(p, s)
  \/ Order(p) \/ Claim(p) \/ LoadActivate(p) \/ SaveActivate(p) \/ FindEnt(p) \/ CreateEnt(p)
  \/ SaveCancel(p) \/ SavePause(p) \/ SaveResume(p)
  \/ SuspendEntitlements(p) \/ ReactivateEntitlements(p) \/ Invoice(p)
  \/ Renew(p) \/ SaveAdjust(p)

Begin(p) ==
  \/ BeginCreate(p)
  \/ \E s \in Sub :
       BeginConfirm(p, s) \/ BeginCancel(p, s) \/ BeginPause(p, s) \/ BeginResume(p, s)
         \/ BeginRenew(p, s) \/ BeginAdjust(p, s)

Next ==
  \/ \E p \in Proc : Begin(p) \/ Continue(p) \/ Fail(p)
  \/ \E s \in Sub :
       CancelAtPeriodEnd(s) \/ ExpireEntitlements(s) \/ Capture(s) \/ PeriodPasses(s)
         \/ \E k \in Period : Exhaust(s, k)

Spec == Init /\ [][Next]_vars
FairSpec == Spec /\ \A p \in Proc : WF_vars(Continue(p))

-----------------------------------------------------------------------------
(* Properties                                                               *)

\* The documents, the handlers and the history keep their types.
TypeOK ==
  /\ production \in BOOLEAN
  /\ sub \in [Sub -> Subs]
  /\ attempt \in [Sub -> {"NONE", "PENDING", "SUCCEEDED"}]
  /\ captured \in [Sub -> BOOLEAN]
  /\ invoiced \in [Sub -> SUBSET Period]
  /\ ent \in [Sub -> [Period -> EntStatus]]
  /\ proc \in [Proc -> Procs]
  /\ history \in Histories

\* Entitlements are created once for a payment, however many confirmations,
\* job runs, pauses and cancellations of the subscription are in flight: the
\* claim of the attempt and the unique index on the invoice decide.
PaidGrants == \A s \in Sub : history.granted[s] <= history.paid[s]

\* The entitlements follow the subscription once its handlers that saved a status
\* are done, unless one was cut off or a status was saved out of turn: none is on
\* offer while it is paused or cancelled but one that an administrator brought
\* back since, and none is left suspended when it is on. (A unit reserved before
\* is used all the same: consumeEntitlement looks at no status.)
BenefitsFollow ==
  \A s \in Sub \ (history.crossed \cup history.cut) :
    Following(s) = {} => \A k \in Period :
      /\ sub[s].status \in {"PAUSED", "CANCELLED"} /\ ent[s][k] = "ACTIVE"
           => <<s, k>> \in history.restored
      /\ sub[s].status = "ACTIVE" => ent[s][k] # "SUSPENDED"

\* A payment that was claimed is followed by its entitlements, unless a handler
\* of the subscription is cut off: a second confirmation finds nothing to claim and cannot help.
PaidIsServed ==
  \A s \in Sub : attempt[s] = "SUCCEEDED" ~> history.granted[s] > 0 \/ s \in history.cut

\* "You already have an active subscription for this plan": the plan is on once,
\* at least where one handler runs after the other.
OnePlanOnce ==
  \A s, t \in Sub : sub[s].status = "ACTIVE" /\ sub[t].status = "ACTIVE" => s = t
=============================================================================
