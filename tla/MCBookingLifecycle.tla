------------------------ MODULE MCBookingLifecycle -------------------------
(* Instances of BookingLifecycle for TLC. *)
EXTENDS BookingLifecycle, TLC

Symmetry == Permutations(Request) \cup Permutations(Provider)

\* The answer and the visit; what can happen to status, provider and money up to
\* the provider's departure; the visit up to its start.
AnswerOps == {"PROVIDER_ACCEPT", "PROVIDER_REJECT", "CUSTOMER_CANCEL", "WINDOW", "WAIT",
              "FIND_ANOTHER", "PROVIDER_EN_ROUTE", "PROVIDER_ARRIVE", "START_SERVICE",
              "COMPLETE_SERVICE"}
PromiseOps == (DOMAIN Sources \cup {"FIND_ANOTHER", "BACKUP"})
                \ {"PROVIDER_ARRIVE", "START_SERVICE", "COMPLETE_SERVICE"}
StartOps == {"PROVIDER_ACCEPT", "PROVIDER_EN_ROUTE", "PROVIDER_ARRIVE", "START_SERVICE"}
=============================================================================
