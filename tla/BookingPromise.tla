--------------------------- MODULE BookingPromise ---------------------------
(***************************************************************************)
(* What a booking promises its parties while their calls overlap.          *)
(*                                                                         *)
(* The provider's answer and each step of the visit are claims: they take  *)
(* effect at once, on the status the booking has at that moment.  All else *)
(* is decided on the status the booking has at one moment (TRANSITIONS in  *)
(* bookings/booking-status.service.ts) and lands later, once or never,     *)
(* whatever the booking has become meanwhile.  Nothing else ever happens   *)
(* to its status, its provider, the provider who agreed and its coins.     *)
(***************************************************************************)
CONSTANTS Call, Provider, Nobody

VARIABLES
  status,    \* the status the parties see
  provider,  \* who is to serve, or is asked to
  agreed,    \* who accepted
  refunded,  \* its coins were given back
  late       \* what each call has yet to land

vars == <<status, provider, agreed, refunded, late>>

Init ==
  /\ status = "PENDING_PROVIDER" /\ provider \in Provider /\ agreed = Nobody
  /\ refunded = FALSE
  /\ late = [c \in Call |-> "NONE"]

Leaves(c, l) == late' = [late EXCEPT ![c] = l]

\* A claim moves the status from one to the next, and may leave a repeat of it.
Claims(c, from, to, l) ==
  /\ late[c] = "NONE"
  /\ status = from /\ status' = to
  /\ Leaves(c, l)
  /\ UNCHANGED <<provider, refunded>>

\* The provider who was asked answers; nobody else can, and nobody later.
Accept(c) == Claims(c, "PENDING_PROVIDER", "CONFIRMED", "NONE") /\ agreed' = provider
Decline(c) == Claims(c, "PENDING_PROVIDER", "CANCELLED", "NONE") /\ UNCHANGED agreed

\* The visit, one step after the other.
Visit(c) ==
  /\ \/ Claims(c, "CONFIRMED", "PROVIDER_EN_ROUTE", "PROVIDER_EN_ROUTE")
     \/ Claims(c, "PROVIDER_EN_ROUTE", "PROVIDER_ARRIVED", "PROVIDER_ARRIVED")
     \/ Claims(c, "PROVIDER_ARRIVED", "IN_PROGRESS", "IN_PROGRESS")
     \/ Claims(c, "IN_PROGRESS", "COMPLETED", "COMPLETED")
  /\ UNCHANGED agreed

\* A party decides while the status allows it.
Decides(c, d, from) ==
  /\ late[c] = "NONE" /\ status \in from
  /\ Leaves(c, d)
  /\ UNCHANGED <<status, provider, agreed, refunded>>

\* The customer may withdraw until the provider is at the door, the provider
\* while the booking is confirmed; another provider is asked while nobody has
\* agreed, and takes over only afterwards.
Decision(c) ==
  \/ Decides(c, "CUSTOMER_CANCEL", {"PENDING_PROVIDER", "CONFIRMED", "RESCHEDULE_REQUESTED",
                                    "PROVIDER_EN_ROUTE"})
  \/ Decides(c, "PROVIDER_CANCEL", {"CONFIRMED"})
  \/ Decides(c, "PROPOSE_TIME", {"CONFIRMED"})
  \/ Decides(c, "ANSWER_TIME", {"RESCHEDULE_REQUESTED"})
  \/ Decides(c, "ASK_ANOTHER", {"PENDING_PROVIDER"})
  \/ agreed # Nobody /\ Decides(c, "TAKE_OVER", {status})

\* What was decided lands: a status ...
Lands(c, d, to, next) ==
  /\ late[c] = d
  /\ status' = to
  /\ Leaves(c, next)
  /\ UNCHANGED <<provider, agreed, refunded>>

Landing(c) ==
  \/ Lands(c, "CUSTOMER_CANCEL", "CANCELLED", "REFUND")
  \/ Lands(c, "PROVIDER_CANCEL", "CANCELLED", "NONE")
  \/ Lands(c, "PROPOSE_TIME", "RESCHEDULE_REQUESTED", "NONE")
  \/ Lands(c, "ANSWER_TIME", "CONFIRMED", "NONE")
  \/ \E s \in {"PROVIDER_EN_ROUTE", "PROVIDER_ARRIVED", "IN_PROGRESS", "COMPLETED"} :
       Lands(c, s, s, "NONE")

\* ... or a provider ...
ChangeProvider(c) ==
  /\ late[c] \in {"ASK_ANOTHER", "TAKE_OVER"}
  /\ provider' \in Provider
  /\ Leaves(c, "NONE")
  /\ UNCHANGED <<status, agreed, refunded>>

\* ... or the coins of a customer whose cancellation has landed.
GiveBack(c) ==
  /\ late[c] = "REFUND"
  /\ refunded' = TRUE
  /\ Leaves(c, "NONE")
  /\ UNCHANGED <<status, provider, agreed>>

\* Or it never lands.
Lapse(c) ==
  /\ Leaves(c, "NONE")
  /\ UNCHANGED <<status, provider, agreed, refunded>>

Next ==
  \E c \in Call :
    \/ Accept(c) \/ Decline(c) \/ Visit(c)
    \/ Decision(c) \/ Landing(c) \/ ChangeProvider(c) \/ GiveBack(c) \/ Lapse(c)

Spec == Init /\ [][Next]_vars
=============================================================================
