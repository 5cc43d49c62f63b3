----------------------- MODULE ProviderConfirmation -----------------------
(***************************************************************************)
(* A scheduled booking before its visit: the provider confirms it again,   *)
(* the job reminds, notices a missed confirmation and finds a backup, and  *)
(* the customer asks for one (bookings/provider-confirmation.service.ts    *)
(* with the search and the assignment of provider-reassignment.service.ts).*)
(*                                                                         *)
(* The job is started every minute whether or not the last one has ended,  *)
(* and works through bookings it queried at once: its saves write the      *)
(* whole providerConfirmation it loaded.  The hours of the configuration   *)
(* are ordered as their defaults: deadline < 2h reminder < 24h reminder.   *)
(***************************************************************************)
EXTENDS Integers

CONSTANTS
  Proc,       \* handlers and job runs in flight together
  Provider,
  Nobody,     \* no provider
  MaxMoves    \* bound on reschedules

ASSUME ProviderAssumption == Nobody \notin Provider
ASSUME MovesAssumption == MaxMoves \in Nat

VARIABLES
  booking,      \* the Booking document
  reservation,  \* its SlotReservation document is still there
  phase,        \* how long before scheduledStart it is
  proc,         \* the handlers in flight
  history       \* what the properties ask about the past

vars == <<booking, reservation, phase, proc, history>>

\* Hours before the start: Far is outside the job's query, Early reaches no
\* branch, Day is up to 2.1 h, Near up to 2 h, Close up to the deadline, which
\* is one instant; the query leaves out what is nearer.
Far == 0   Early == 1   Day == 2   Near == 3   Close == 4   Deadline == 5   Late == 6
Phase == Far..Late

Nobodies == Provider \cup {Nobody}
Confirmations ==
  [status : {"PENDING", "CONFIRMED", "MISSED"}, r24 : BOOLEAN, r2 : BOOLEAN,
   replacement : Nobodies]
\* active: CONFIRMED or PROVIDER_EN_ROUTE.
Bookings == [active : BOOLEAN, provider : Provider, conf : Confirmations]
Docs == [provider : Provider, conf : Confirmations]   \* a booking as a handler loads it
Pc == {"idle", "confirm", "job", "find", "assign"}
\* stale is history: another handler has written the booking since this one
\* loaded it or wrote it.
Procs == [pc : Pc, doc : Docs, at : Phase, to : Nobodies, stale : BOOLEAN]
Histories ==
  [said     : Nobodies,     \* the last provider that confirmed or was assigned
   missed   : BOOLEAN,      \* a confirmation was found missing
   replaced : 0..2,         \* assignments, up to 2
   sent24   : 0..2,         \* reminders sent, up to 2
   sent2    : 0..2,
   moves    : Nat,
   lost     : BOOLEAN]      \* a handler saved over a booking it had not seen

Once(n) == IF n = 2 THEN 2 ELSE n + 1

Fresh == [status |-> "PENDING", r24 |-> FALSE, r2 |-> FALSE, replacement |-> Nobody]
AnyDoc == [provider |-> CHOOSE P \in Provider : TRUE, conf |-> Fresh]
Idle == [pc |-> "idle", doc |-> AnyDoc, at |-> Far, to |-> Nobody, stale |-> FALSE]

\* acceptBooking has just made the booking CONFIRMED, its confirmation PENDING.
Init ==
  /\ \E P \in Provider : booking = [active |-> TRUE, provider |-> P, conf |-> Fresh]
  /\ reservation = TRUE
  /\ phase \in {Far, Day, Close, Late}
  /\ proc = [p \in Proc |-> Idle]
  /\ history = [said |-> Nobody, missed |-> FALSE, replaced |-> 0, sent24 |-> 0,
                sent2 |-> 0, moves |-> 0, lost |-> FALSE]

\* A handler loads the booking, and keeps what it goes on to use.
Begins(p, pc, conf, at) ==
  /\ proc[p].pc = "idle"
  /\ proc' = [proc EXCEPT ![p] =
       [pc |-> pc, doc |-> [provider |-> booking.provider, conf |-> conf],
        at |-> at, to |-> Nobody, stale |-> FALSE]]
  /\ UNCHANGED <<booking, reservation, phase, history>>

Finish(p) == proc' = [proc EXCEPT ![p] = Idle]

\* The handler has written the booking and goes on; the others in flight have
\* loaded another one.
Writes(p, next) ==
  proc' = [q \in Proc |->
             IF q = p THEN next ELSE [proc[q] EXCEPT !.stale = proc[q].pc # "idle"]]
Search(p) ==
  Writes(p, [Idle EXCEPT !.pc = "find", !.doc.provider = proc[p].doc.provider])
Save(conf) == booking' = [booking EXCEPT !.conf = conf]
\* The history of a write.
Lost(p) == history.lost \/ proc[p].stale

(* confirmProviderBooking ---------------------------------------------------*)

BeginConfirm(p) == booking.active /\ Begins(p, "confirm", booking.conf, Far)

SaveConfirm(p) ==
  /\ proc[p].pc = "confirm"
  /\ Save([proc[p].doc.conf EXCEPT !.status = "CONFIRMED"])
  /\ history' = [history EXCEPT !.said = proc[p].doc.provider, !.lost = Lost(p)]
  /\ Writes(p, Idle)
  /\ UNCHANGED <<reservation, phase>>

(* processProviderConfirmationReminders -------------------------------------*)

\* Mutant: a confirmed booking is not skipped.
BeginJobForAll(p) ==
  /\ booking.active
  /\ phase \in Early..Deadline
  /\ Begins(p, "job", booking.conf, phase)

\* The query, at one instant for all its bookings, and the skip of those that
\* are confirmed.
BeginJob(p) ==
  /\ booking.active
  /\ phase \in Early..Deadline
  /\ booking.conf.status # "CONFIRMED"
  /\ Begins(p, "job", booking.conf, phase)

Needs24(d, at) == at \in {Day, Near} /\ ~d.conf.r24
Needs2(d, at) == at \in {Near, Close} /\ ~d.conf.r2
IsMissed(d, at) == at = Deadline /\ d.conf.status # "MISSED"

\* Mutant: reminder24hSentAt is not recorded.
Remind24Unrecorded(p) ==
  /\ proc[p].pc = "job"
  /\ Needs24(proc[p].doc, proc[p].at)
  /\ Save([proc[p].doc.conf EXCEPT !.status = "PENDING"])
  /\ history' = [history EXCEPT !.sent24 = Once(@), !.lost = Lost(p)]
  /\ Writes(p, Idle)
  /\ UNCHANGED <<reservation, phase>>

Remind24(p) ==
  /\ proc[p].pc = "job"
  /\ Needs24(proc[p].doc, proc[p].at)
  /\ Save([proc[p].doc.conf EXCEPT !.status = "PENDING", !.r24 = TRUE])
  /\ history' = [history EXCEPT !.sent24 = Once(@), !.lost = Lost(p)]
  /\ Writes(p, Idle)
  /\ UNCHANGED <<reservation, phase>>

\* The second reminder stands in for a first that was not sent.
Remind2(p) ==
  /\ proc[p].pc = "job"
  /\ ~Needs24(proc[p].doc, proc[p].at) /\ Needs2(proc[p].doc, proc[p].at)
  /\ Save([proc[p].doc.conf EXCEPT !.status = "PENDING", !.r24 = TRUE, !.r2 = TRUE])
  /\ history' = [history EXCEPT !.sent2 = Once(@), !.lost = Lost(p)]
  /\ Writes(p, Idle)
  /\ UNCHANGED <<reservation, phase>>

\* Mutant: a status the schema does not know.
MissAsExpired(p) ==
  /\ proc[p].pc = "job"
  /\ IsMissed(proc[p].doc, proc[p].at)
  /\ Save([proc[p].doc.conf EXCEPT !.status = "EXPIRED"])
  /\ history' = [history EXCEPT !.missed = TRUE, !.lost = Lost(p)]
  /\ Search(p)
  /\ UNCHANGED <<reservation, phase>>

Miss(p) ==
  /\ proc[p].pc = "job"
  /\ IsMissed(proc[p].doc, proc[p].at)
  /\ Save([proc[p].doc.conf EXCEPT !.status = "MISSED"])
  /\ history' = [history EXCEPT !.missed = TRUE, !.lost = Lost(p)]
  /\ Search(p)
  /\ UNCHANGED <<reservation, phase>>

NothingToDo(p) ==
  /\ proc[p].pc = "job"
  /\ LET d == proc[p].doc  at == proc[p].at
     IN ~Needs24(d, at) /\ ~Needs2(d, at) /\ ~IsMissed(d, at)
  /\ Finish(p)
  /\ UNCHANGED <<booking, reservation, phase, history>>

(* The backup ---------------------------------------------------------------*)

\* Mutant: any booking can ask for another provider.
BeginReplaceAny(p) ==
  /\ booking.conf.replacement = Nobody
  /\ Begins(p, "find", Fresh, Far)

\* requestReplacementForMissedConfirmation; the booking's own status is not
\* looked at.
BeginReplace(p) ==
  /\ booking.conf.status = "MISSED"
  /\ booking.conf.replacement = Nobody
  /\ Begins(p, "find", Fresh, Far)

\* findAvailableProviderForBooking: another provider who is free then, or
\* nobody, which is the answer once the reservation is gone.
FindBackup(p) ==
  /\ proc[p].pc = "find"
  /\ \/ /\ reservation
        /\ \E P \in Provider \ {proc[p].doc.provider} :
             proc' = [proc EXCEPT ![p] = [@ EXCEPT !.pc = "assign", !.to = P]]
     \/ Finish(p)
  /\ UNCHANGED <<booking, reservation, phase, history>>

\* assignBackupProviderForConfirmedBooking saves the loaded booking with the
\* new provider, confirmed; a candidate no longer eligible ends the handler.
Assign(p) ==
  /\ proc[p].pc = "assign"
  /\ booking' = [booking EXCEPT !.provider = proc[p].to,
                                !.conf = [Fresh EXCEPT !.status = "CONFIRMED",
                                                       !.replacement = proc[p].to]]
  /\ history' = [history EXCEPT !.said = proc[p].to, !.replaced = Once(@), !.lost = Lost(p)]
  /\ Writes(p, Idle)
  /\ UNCHANGED <<reservation, phase>>

(* The environment ----------------------------------------------------------*)

\* The booking is started, finished or cancelled.
BookingEnds ==
  /\ booking.active
  /\ booking' = [booking EXCEPT !.active = FALSE]
  /\ UNCHANGED <<reservation, phase, proc, history>>

\* respondToReschedule accepts another start; the confirmation is not asked
\* for again.
Reschedule ==
  /\ booking.active /\ history.moves < MaxMoves
  /\ phase' \in Phase \ {phase}
  /\ history' = [history EXCEPT !.moves = @ + 1]
  /\ UNCHANGED <<booking, reservation, proc>>

\* The TTL index removes the consumed reservation at its expiresAt.
TtlRemove ==
  /\ reservation
  /\ reservation' = FALSE
  /\ UNCHANGED <<booking, phase, proc, history>>

\* The job looks at the clock once a minute: it may pass over any phase.
TimePasses ==
  /\ phase < Late
  /\ phase' \in (phase + 1)..Late
  /\ UNCHANGED <<booking, reservation, proc, history>>

\* The process ends, a call throws, or the candidate is not eligible.
Fail(p) ==
  /\ proc[p].pc # "idle"
  /\ Finish(p)
  /\ UNCHANGED <<booking, reservation, phase, history>>

Step(p) ==
  \/ BeginConfirm(p) \/ SaveConfirm(p)
  \/ BeginJob(p) \/ Remind24(p) \/ Remind2(p) \/ Miss(p) \/ NothingToDo(p)
  \/ BeginReplace(p) \/ FindBackup(p) \/ Assign(p)
  \/ Fail(p)

Next ==
  \/ \E p \in Proc : Step(p)
  \/ BookingEnds \/ Reschedule \/ TtlRemove \/ TimePasses

Spec == Init /\ [][Next]_vars

-----------------------------------------------------------------------------
(* Properties                                                               *)

\* The booking, the handlers and the history keep their types.
TypeOK ==
  /\ booking \in Bookings
  /\ reservation \in BOOLEAN
  /\ phase \in Phase
  /\ proc \in [Proc -> Procs]
  /\ history \in Histories

\* A provider is replaced only on a booking whose confirmation the job found
\* missing, whatever the job runs, the provider and the customer overwrite.
ReplacedAfterMiss == [][booking'.provider # booking.provider => history.missed]_vars

\* A provider's word counts: as long as who confirmed, or was assigned, has the
\* booking, it stays confirmed, through reminders, reschedules and job runs that
\* overlap or die half way, unless a handler saved over a booking that another
\* had written since it was loaded.
WordCounts ==
  history.lost \/ (history.said = booking.provider => booking.conf.status = "CONFIRMED")

\* With the same exception what is done once is done once: the customer's
\* request and the job do not both assign a backup, a backup is not replaced in
\* turn, and the booking is reminded of once a day and once two hours before,
\* also when it is moved or its reminders come late.
DoneOnce ==
  history.lost \/ (history.replaced <= 1 /\ history.sent24 <= 1 /\ history.sent2 <= 1)
=============================================================================
