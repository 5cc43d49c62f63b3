------------------- MODULE ProviderConfirmation_proofs -------------------
(***************************************************************************)
(* Type correctness of ProviderConfirmation; that a provider is replaced   *)
(* only after a missed confirmation, for any number of handlers and        *)
(* providers; and, as long as no handler saved over a booking it had not   *)
(* seen, that a confirmation counts, and that the booking is reminded of   *)
(* and changes hands once.                                                 *)
(***************************************************************************)
EXTENDS ProviderConfirmation, TLAPS

\* Who holds a missed confirmation, or looks for a backup, comes after a job
\* that found the confirmation missing.
MissedIsKnown ==
  /\ booking.conf.status = "MISSED" => history.missed
  /\ \A p \in Proc : proc[p].doc.conf.status = "MISSED" => history.missed
  /\ \A p \in Proc : proc[p].pc \in {"find", "assign"} => history.missed

\* Who assigns has found somebody.
BackupFound == \A p \in Proc : proc[p].pc = "assign" => proc[p].to \in Provider

IInv == TypeOK /\ MissedIsKnown /\ BackupFound

LEMMA IdleType ==
  ASSUME NEW P \in Provider
  PROVE  /\ Idle \in Procs /\ Fresh \in Confirmations
         /\ Idle.pc = "idle" /\ Idle.doc.conf.status = "PENDING"
<1>1. AnyDoc \in Docs /\ AnyDoc.conf = Fresh
  BY DEF AnyDoc, Docs, Fresh, Confirmations, Nobodies
<1>2. QED BY <1>1 DEF Idle, Procs, Pc, Phase, Nobodies, Docs, Fresh, Confirmations,
             Far, Late

LEMMA InitIInv == Init => IInv
<1> SUFFICES ASSUME Init PROVE IInv
  OBVIOUS
<1>1. PICK P \in Provider : booking = [active |-> TRUE, provider |-> P, conf |-> Fresh]
  BY DEF Init
<1>2. booking \in Bookings BY <1>1, IdleType DEF Bookings
<1>3. phase \in Phase BY DEF Init, Phase, Far, Day, Close, Late
<1>4. proc \in [Proc -> Procs] BY <1>1, IdleType DEF Init
<1>5. history \in Histories BY DEF Init, Histories, Nobodies
<1>6. MissedIsKnown /\ BackupFound
  BY <1>1, IdleType DEF Init, MissedIsKnown, BackupFound, Fresh
<1>7. reservation \in BOOLEAN BY DEF Init
<1>8. QED BY <1>2, <1>3, <1>4, <1>5, <1>6, <1>7 DEF IInv, TypeOK

\* The steps all handlers are built from.
LEMMA BeginsStep ==
  ASSUME IInv, NEW p \in Proc, NEW pc \in Pc, NEW conf \in Confirmations, NEW at \in Phase,
         Begins(p, pc, conf, at),
         conf.status = "MISSED" \/ pc = "find" => history.missed, pc # "assign"
  PROVE  IInv'
<1>1. booking.provider \in Provider BY DEF IInv, TypeOK, Bookings
<1> DEFINE new == [pc |-> pc, doc |-> [provider |-> booking.provider, conf |-> conf],
                   at |-> at, to |-> Nobody, stale |-> FALSE]
<1>2. new \in Procs BY <1>1 DEF Procs, Docs, Nobodies
<1>3. proc' = [proc EXCEPT ![p] = new] BY DEF Begins
<1>4. proc' \in [Proc -> Procs] BY <1>2, <1>3 DEF IInv, TypeOK
<1>5. UNCHANGED <<booking, reservation, phase, history>> BY DEF Begins
<1>6. TypeOK' BY <1>4, <1>5 DEF IInv, TypeOK
<1>7. MissedIsKnown' /\ BackupFound' BY <1>3, <1>5 DEF IInv, TypeOK, MissedIsKnown, BackupFound
<1>8. QED BY <1>6, <1>7 DEF IInv

LEMMA FinishStep ==
  ASSUME IInv, NEW p \in Proc, Finish(p)
  PROVE  /\ proc' \in [Proc -> Procs]
         /\ \A q \in Proc : proc'[q] = proc[q] \/ proc'[q] = Idle
         /\ Idle.pc = "idle" /\ Idle.doc.conf.status = "PENDING"
<1>1. PICK P \in Provider : booking.provider = P BY DEF IInv, TypeOK, Bookings
<1>2. QED BY <1>1, IdleType DEF IInv, TypeOK, Finish

LEMMA StaleType ==
  ASSUME NEW d \in Procs, NEW b \in BOOLEAN
  PROVE  /\ [d EXCEPT !.stale = b] \in Procs
         /\ [d EXCEPT !.stale = b].pc = d.pc /\ [d EXCEPT !.stale = b].doc = d.doc
         /\ [d EXCEPT !.stale = b].to = d.to /\ [d EXCEPT !.stale = b].stale = b
  BY DEF Procs

\* A write leaves the other handlers where they are, those in flight behind.
LEMMA WritesStep ==
  ASSUME IInv, NEW p \in Proc, NEW next \in Procs, Writes(p, next)
  PROVE  /\ proc' \in [Proc -> Procs]
         /\ proc'[p] = next
         /\ \A q \in Proc \ {p} :
              /\ proc'[q].pc = proc[q].pc /\ proc'[q].doc = proc[q].doc
              /\ proc'[q].to = proc[q].to
              /\ proc[q].pc # "idle" => proc'[q].stale
<1>1. ASSUME NEW q \in Proc \ {p}
      PROVE  /\ proc'[q] \in Procs
             /\ proc'[q].pc = proc[q].pc /\ proc'[q].doc = proc[q].doc
             /\ proc'[q].to = proc[q].to
             /\ proc[q].pc # "idle" => proc'[q].stale
  <2> DEFINE b == proc[q].pc # "idle"
  <2>1. proc[q] \in Procs /\ proc'[q] = [proc[q] EXCEPT !.stale = b]
    BY DEF Writes, IInv, TypeOK
  <2>2. b \in BOOLEAN OBVIOUS
  <2> HIDE DEF b
  <2>3. /\ proc'[q] \in Procs
        /\ proc'[q].pc = proc[q].pc /\ proc'[q].doc = proc[q].doc
        /\ proc'[q].to = proc[q].to /\ proc'[q].stale = b
    BY <2>1, <2>2, StaleType
  <2>4. QED BY <2>3 DEF b
<1>2. proc'[p] = next
  BY DEF Writes
<1>3. proc' \in [Proc -> Procs]
  BY <1>1, <1>2 DEF Writes
<1>4. QED BY <1>1, <1>2, <1>3

\* A write that does not lead on to the assignment leaves the backups found.
LEMMA WritesBackup ==
  ASSUME IInv, NEW p \in Proc, NEW next \in Procs, Writes(p, next), next.pc # "assign"
  PROVE  BackupFound'
<1>1. \A q \in Proc : proc'[q].pc = "assign" =>
        q # p /\ proc[q].pc = "assign" /\ proc'[q].to = proc[q].to
  BY WritesStep
<1>2. QED BY <1>1 DEF IInv, BackupFound

\* The history never forgets a lost write.
LEMMA LostStep ==
  ASSUME IInv, NEW p \in Proc
  PROVE  /\ Lost(p) \in BOOLEAN
         /\ ~Lost(p) => ~history.lost /\ ~proc[p].stale
  BY Zenon DEF Lost

LEMMA SaveStep ==
  ASSUME IInv, NEW p \in Proc, NEW conf \in Confirmations, Save(conf), Writes(p, Idle),
         history' \in Histories, history'.missed = history.missed,
         conf.status = "MISSED" => history.missed,
         UNCHANGED <<reservation, phase>>
  PROVE  IInv'
<1>1. booking' \in Bookings /\ booking'.conf = conf
  BY DEF IInv, TypeOK, Save, Bookings
<1>2. Idle \in Procs /\ Idle.pc = "idle" /\ Idle.doc.conf.status = "PENDING"
  BY IdleType DEF IInv, TypeOK, Bookings
<1>3. TypeOK' BY <1>1, <1>2, WritesStep DEF IInv, TypeOK
<1>4. MissedIsKnown'
  <2>1. proc'[p] = Idle BY <1>2, WritesStep
  <2>2. \A q \in Proc \ {p} : proc'[q].pc = proc[q].pc /\ proc'[q].doc = proc[q].doc
    BY <1>2, WritesStep
  <2>3. QED BY <1>1, <1>2, <2>1, <2>2 DEF IInv, MissedIsKnown
<1>5. BackupFound' BY <1>2, WritesBackup
<1>6. QED BY <1>3, <1>4, <1>5 DEF IInv

LEMMA QuietStep ==
  ASSUME IInv, NEW p \in Proc, Finish(p),
         UNCHANGED <<booking, reservation, phase, history>>
  PROVE  IInv'
<1>1. TypeOK' BY FinishStep DEF IInv, TypeOK
<1>2. MissedIsKnown' /\ BackupFound' BY FinishStep DEF IInv, MissedIsKnown, BackupFound
<1>3. QED BY <1>1, <1>2 DEF IInv

\* The job, the confirmation and the search for a backup, action by action.
LEMMA HandlerStep == ASSUME IInv, NEW p \in Proc, Step(p) PROVE IInv'
<1>1. /\ booking \in Bookings /\ booking.conf \in Confirmations
      /\ proc[p] \in Procs /\ proc[p].doc.conf \in Confirmations
      /\ proc[p].doc.provider \in Provider
      /\ phase \in Phase /\ Far \in Phase /\ history \in Histories
      /\ Fresh \in Confirmations /\ Fresh.status = "PENDING"
  BY DEF IInv, TypeOK, Bookings, Procs, Docs, Phase, Far, Late, Fresh, Confirmations, Nobodies
<1>2. CASE BeginConfirm(p) BY <1>1, <1>2, BeginsStep DEF BeginConfirm, IInv, MissedIsKnown, Pc
<1>3. CASE SaveConfirm(p)
  <2> DEFINE c == [proc[p].doc.conf EXCEPT !.status = "CONFIRMED"]
  <2>1. c \in Confirmations /\ c.status = "CONFIRMED" BY <1>1 DEF Confirmations
  <2>2. history' \in Histories /\ history'.missed = history.missed
    BY <1>1, LostStep, <1>3 DEF SaveConfirm, Histories, Nobodies
  <2>3. QED BY <1>3, <2>1, <2>2, SaveStep DEF SaveConfirm
<1>4. CASE BeginJob(p) BY <1>1, <1>4, BeginsStep DEF BeginJob, IInv, MissedIsKnown, Pc
<1>5. CASE Remind24(p)
  <2> DEFINE c == [proc[p].doc.conf EXCEPT !.status = "PENDING", !.r24 = TRUE]
  <2>1. c \in Confirmations /\ c.status = "PENDING" BY <1>1 DEF Confirmations
  <2>2. history' \in Histories /\ history'.missed = history.missed
    <3>1. /\ Lost(p) \in BOOLEAN
          /\ Once(history.sent24) \in 0..2 /\ Once(history.sent2) \in 0..2
      BY <1>1, LostStep DEF Histories, Once
    <3>2. QED BY <1>1, <1>5, <3>1 DEF Remind24, Histories
  <2>3. QED BY <1>5, <2>1, <2>2, SaveStep DEF Remind24
<1>6. CASE Remind2(p)
  <2> DEFINE c == [proc[p].doc.conf EXCEPT !.status = "PENDING", !.r24 = TRUE, !.r2 = TRUE]
  <2>1. c \in Confirmations /\ c.status = "PENDING" BY <1>1 DEF Confirmations
  <2>2. history' \in Histories /\ history'.missed = history.missed
    <3>1. /\ Lost(p) \in BOOLEAN
          /\ Once(history.sent24) \in 0..2 /\ Once(history.sent2) \in 0..2
      BY <1>1, LostStep DEF Histories, Once
    <3>2. QED BY <1>1, <1>6, <3>1 DEF Remind2, Histories
  <2>3. QED BY <1>6, <2>1, <2>2, SaveStep DEF Remind2
<1>7. CASE Miss(p)
  <2> DEFINE c == [proc[p].doc.conf EXCEPT !.status = "MISSED"]
             w == [Idle EXCEPT !.pc = "find", !.doc.provider = proc[p].doc.provider]
  <2>1. c \in Confirmations BY <1>1 DEF Confirmations
  <2>2. history' \in Histories /\ history'.missed
    BY <1>1, <1>7, LostStep DEF Miss, Histories
  <2>3. w \in Procs /\ Writes(p, w)
    BY <1>1, <1>7, IdleType DEF Miss, Search, Procs, Docs, Pc
  <2>4. booking' \in Bookings BY <1>1, <1>7, <2>1 DEF Miss, Save, Bookings
  <2>5. UNCHANGED <<reservation, phase>> BY <1>7 DEF Miss
  <2>6. TypeOK' BY <2>2, <2>3, <2>4, <2>5, WritesStep DEF IInv, TypeOK
  <2>7. MissedIsKnown' BY <2>2 DEF MissedIsKnown
  <2>8. w.pc # "assign" BY <1>1, IdleType DEF Procs
  <2> HIDE DEF w
  <2>9. BackupFound' BY <2>3, <2>8, WritesBackup
  <2>10. QED BY <2>6, <2>7, <2>9 DEF IInv
<1>8. CASE NothingToDo(p) BY <1>8, QuietStep DEF NothingToDo
<1>9. CASE BeginReplace(p)
  BY <1>1, <1>9, BeginsStep DEF BeginReplace, IInv, MissedIsKnown, Pc
<1>10. CASE FindBackup(p)
  <2>1. CASE Finish(p) BY <1>10, <2>1, QuietStep DEF FindBackup
  <2>2. ASSUME NEW P \in Provider,
               proc' = [proc EXCEPT ![p] = [proc[p] EXCEPT !.pc = "assign", !.to = P]]
        PROVE  IInv'
    <3>1. [proc[p] EXCEPT !.pc = "assign", !.to = P] \in Procs
      BY <1>1 DEF Procs, Pc, Nobodies
    <3>2. proc' \in [Proc -> Procs] BY <2>2, <3>1 DEF IInv, TypeOK
    <3>3. proc[p].pc = "find" /\ UNCHANGED <<booking, reservation, phase, history>>
      BY <1>10 DEF FindBackup
    <3>4. TypeOK' BY <3>2, <3>3 DEF IInv, TypeOK
    <3>5. history'.missed BY <3>3 DEF IInv, MissedIsKnown
    <3>6. MissedIsKnown' BY <3>5 DEF MissedIsKnown
    <3>7. BackupFound' BY <1>1, <2>2 DEF IInv, TypeOK, BackupFound, Procs
    <3>8. QED BY <3>4, <3>6, <3>7 DEF IInv
  <2>3. QED BY <1>10, <2>1, <2>2 DEF FindBackup
<1>11. CASE Assign(p)
  <2>1. Writes(p, Idle) /\ history.missed /\ UNCHANGED <<reservation, phase>>
    BY <1>11 DEF Assign, IInv, MissedIsKnown
  <2>2. proc[p].to \in Provider BY <1>11 DEF Assign, IInv, BackupFound
  <2>3. history' \in Histories /\ history'.missed
    <3>1. history' = [history EXCEPT !.said = proc[p].to, !.replaced = Once(history.replaced),
                                     !.lost = Lost(p)]
      BY <1>11 DEF Assign
    <3>2. proc[p].to \in Nobodies BY <2>2 DEF Nobodies
    <3>3. Once(history.replaced) \in 0..2 BY <1>1 DEF Once, Histories
    <3>4. QED BY <1>1, <2>1, <3>1, <3>2, <3>3, LostStep DEF Histories
  <2>4. booking' \in Bookings
    BY <1>1, <1>11, <2>2 DEF Assign, Bookings, Confirmations, Nobodies, Fresh
  <2>5. Idle \in Procs /\ Idle.pc = "idle" BY <1>1, IdleType
  <2>6. TypeOK' BY <2>1, <2>3, <2>4, <2>5, WritesStep DEF IInv, TypeOK
  <2>7. MissedIsKnown' BY <2>3 DEF MissedIsKnown
  <2>8. BackupFound' BY <2>1, <2>5, WritesBackup
  <2>9. QED BY <2>6, <2>7, <2>8 DEF IInv
<1>12. CASE Fail(p) BY <1>12, QuietStep DEF Fail
<1>13. QED
  BY <1>2, <1>3, <1>4, <1>5, <1>6, <1>7, <1>8, <1>9, <1>10, <1>11, <1>12 DEF Step

LEMMA NextIInv == IInv /\ [Next]_vars => IInv'
<1> SUFFICES ASSUME IInv, [Next]_vars PROVE IInv'
  OBVIOUS
<1>1. ASSUME NEW p \in Proc, Step(p) PROVE IInv' BY <1>1, HandlerStep
<1>2. CASE BookingEnds
  BY <1>2 DEF BookingEnds, IInv, TypeOK, Bookings, MissedIsKnown, BackupFound
<1>3. CASE Reschedule
  BY <1>3 DEF Reschedule, IInv, TypeOK, Histories, MissedIsKnown, BackupFound
<1>4. CASE TtlRemove BY <1>4 DEF TtlRemove, IInv, TypeOK, MissedIsKnown, BackupFound
<1>5. CASE TimePasses
  BY <1>5 DEF TimePasses, IInv, TypeOK, Phase, Far, Late, MissedIsKnown, BackupFound
<1>6. CASE UNCHANGED vars BY <1>6 DEF vars, IInv, TypeOK, MissedIsKnown, BackupFound
<1>7. QED BY <1>1, <1>2, <1>3, <1>4, <1>5, <1>6 DEF Next

LEMMA Invariance == Spec => []IInv
  BY InitIInv, NextIInv, PTL DEF Spec

-----------------------------------------------------------------------------
\* The booking and its confirmation keep the statuses of their schemas, and the
\* handlers their types, whatever job runs and requests overlap.
THEOREM TypeCorrect == Spec => []TypeOK
<1>1. IInv => TypeOK BY DEF IInv
<1>2. QED BY Invariance, <1>1, PTL

\* A confirmed booking keeps its provider unless processProviderConfirmationReminders
\* found the confirmation missing, whatever overlaps.
THEOREM ReplacedOnlyAfterMiss == Spec => ReplacedAfterMiss
<1> DEFINE Kept == booking'.provider # booking.provider => history.missed
<1>1. IInv /\ [Next]_vars => [Kept]_vars
  <2> SUFFICES ASSUME IInv, Next PROVE Kept
    BY DEF vars
  <2> USE DEF IInv, TypeOK, Bookings
  <2>1. ASSUME NEW p \in Proc, Assign(p) PROVE Kept
    BY <2>1 DEF Assign, MissedIsKnown
  <2>2. ASSUME NEW p \in Proc, Step(p), ~Assign(p) PROVE Kept
    BY <2>2 DEF Step, BeginConfirm, SaveConfirm, BeginJob, Remind24, Remind2, Miss,
       NothingToDo, BeginReplace, FindBackup, Fail, Begins, Save
  <2>3. CASE BookingEnds \/ Reschedule \/ TtlRemove \/ TimePasses
    BY <2>3 DEF BookingEnds, Reschedule, TtlRemove, TimePasses
  <2>4. QED BY <2>1, <2>2, <2>3 DEF Next
<1>2. QED BY Invariance, <1>1, PTL DEF Spec, ReplacedAfterMiss

-----------------------------------------------------------------------------
(* A handler that is not stale has the booking in hand as it is stored.       *)

Current ==
  \A p \in Proc : proc[p].pc \in {"confirm", "job"} /\ ~proc[p].stale =>
    proc[p].doc.conf = booking.conf /\ proc[p].doc.provider = booking.provider

\* The job has a booking that nobody confirmed; so has a search for a backup.
Unconfirmed ==
  \A p \in Proc : proc[p].pc \in {"job", "find", "assign"} /\ ~proc[p].stale =>
    booking.conf.status # "CONFIRMED"

\* A booking that was replaced is confirmed.
ReplacedOnce ==
  /\ history.replaced <= 1
  /\ history.replaced = 1 => booking.conf.status = "CONFIRMED"

\* A reminder that was sent is recorded, until the booking is confirmed.
Recorded ==
  /\ history.sent24 <= 1 /\ history.sent2 <= 1
  /\ booking.conf.status # "CONFIRMED" =>
       /\ history.sent24 = 1 => booking.conf.r24
       /\ history.sent2 = 1 => booking.conf.r2

Word == history.said = booking.provider => booking.conf.status = "CONFIRMED"

Timely == Current /\ Unconfirmed /\ ReplacedOnce /\ Recorded /\ Word

TInv == history.lost \/ Timely

LEMMA InitTInv == Init => TInv
<1> SUFFICES ASSUME Init PROVE Timely
  BY DEF TInv
<1>1. PICK P \in Provider : booking = [active |-> TRUE, provider |-> P, conf |-> Fresh]
  BY DEF Init
<1>2. \A p \in Proc : proc[p].pc = "idle" BY <1>1, IdleType DEF Init
<1>3. Current /\ Unconfirmed BY <1>2 DEF Current, Unconfirmed
<1>4. ReplacedOnce /\ Recorded BY DEF Init, ReplacedOnce, Recorded
<1>5. history.said # booking.provider BY <1>1, ProviderAssumption DEF Init
<1>6. QED BY <1>3, <1>4, <1>5 DEF Timely, Word

\* A handler that begins has just loaded the booking.
LEMMA TimelyBegin ==
  ASSUME IInv, Timely, NEW p \in Proc, NEW pc, NEW conf, NEW at,
         Begins(p, pc, conf, at),
         pc \in {"confirm", "job"} => conf = booking.conf,
         pc \in {"job", "find", "assign"} => booking.conf.status # "CONFIRMED"
  PROVE  Timely'
<1> DEFINE new == [pc |-> pc, doc |-> [provider |-> booking.provider, conf |-> conf],
                   at |-> at, to |-> Nobody, stale |-> FALSE]
<1>1. UNCHANGED <<booking, history>>
  BY DEF Begins
<1>2. proc'[p] = new /\ \A q \in Proc \ {p} : proc'[q] = proc[q]
  BY DEF Begins, IInv, TypeOK
<1>3. Current' /\ Unconfirmed'
  BY <1>1, <1>2 DEF Timely, Current, Unconfirmed
<1>4. ReplacedOnce' /\ Recorded' /\ Word'
  BY <1>1 DEF Timely, ReplacedOnce, Recorded, Word
<1>5. QED BY <1>3, <1>4 DEF Timely

\* A handler that ends, or stops before it has written, disturbs nothing.
LEMMA TimelyFinish ==
  ASSUME IInv, Timely, NEW p \in Proc, Finish(p), UNCHANGED <<booking, history>>
  PROVE  Timely'
<1>1. Current' /\ Unconfirmed'
  BY FinishStep DEF Timely, Current, Unconfirmed
<1>2. ReplacedOnce' /\ Recorded' /\ Word'
  BY DEF Timely, ReplacedOnce, Recorded, Word
<1>3. QED BY <1>1, <1>2 DEF Timely

\* After a write every other handler in flight is stale.
LEMMA TimelyWrite ==
  ASSUME IInv, NEW p \in Proc, NEW next \in Procs, Writes(p, next),
         next.pc \notin {"confirm", "job"},
         next.pc # "idle" => booking'.conf.status # "CONFIRMED"
  PROVE  Current' /\ Unconfirmed'
<1>1. \A q \in Proc \ {p} : proc'[q].pc # "idle" => proc'[q].stale
  BY WritesStep
<1>2. proc'[p] = next BY WritesStep
<1>3. QED BY <1>1, <1>2 DEF Current, Unconfirmed

LEMMA TimelyHandler ==
  ASSUME IInv, TInv, NEW p \in Proc, Step(p), ~history'.lost
  PROVE  Timely'
<1>1. /\ booking \in Bookings /\ booking.conf \in Confirmations
      /\ proc[p] \in Procs /\ proc[p].doc.conf \in Confirmations
      /\ history \in Histories /\ Idle \in Procs /\ Idle.pc = "idle"
  BY IdleType DEF IInv, TypeOK, Bookings, Procs, Docs
<1>2. ASSUME history'.lost = history.lost PROVE Timely
  BY <1>2 DEF TInv
<1>3. ASSUME history'.lost = Lost(p) PROVE Timely /\ ~proc[p].stale
  BY <1>3, LostStep DEF TInv
<1>4. CASE BeginConfirm(p)
  <2>1. Begins(p, "confirm", booking.conf, Far)
    BY <1>4 DEF BeginConfirm
  <2>2. Timely BY <1>2, <2>1 DEF Begins
  <2>3. QED BY <2>1, <2>2, TimelyBegin
<1>5. CASE BeginJob(p)
  <2>1. Begins(p, "job", booking.conf, phase) /\ booking.conf.status # "CONFIRMED"
    BY <1>5 DEF BeginJob
  <2>2. Timely BY <1>2, <2>1 DEF Begins
  <2>3. QED BY <2>1, <2>2, TimelyBegin
<1>6. CASE BeginReplace(p)
  <2>1. Begins(p, "find", Fresh, Far) /\ booking.conf.status = "MISSED"
    BY <1>6 DEF BeginReplace
  <2>2. Timely BY <1>2, <2>1 DEF Begins
  <2>3. QED BY <2>1, <2>2, TimelyBegin
<1>7. CASE SaveConfirm(p)
  <2>1. history' = [history EXCEPT !.said = proc[p].doc.provider, !.lost = Lost(p)]
        /\ booking' = [booking EXCEPT !.conf = [proc[p].doc.conf EXCEPT !.status = "CONFIRMED"]]
        /\ Writes(p, Idle)
    BY <1>7 DEF SaveConfirm, Save
  <2>2. /\ history'.lost = Lost(p) /\ booking'.conf.status = "CONFIRMED"
        /\ history'.replaced = history.replaced
        /\ history'.sent24 = history.sent24 /\ history'.sent2 = history.sent2
    BY <1>1, <2>1 DEF Histories, Bookings, Confirmations
  <2>3. Current' /\ Unconfirmed' BY <1>1, <2>1, TimelyWrite
  <2>4. ReplacedOnce' /\ Recorded' /\ Word'
    BY <1>3, <2>2 DEF Timely, ReplacedOnce, Recorded, Word
  <2>5. QED BY <2>3, <2>4 DEF Timely
<1>8. CASE Remind24(p)
  <2>1. history' = [history EXCEPT !.sent24 = Once(history.sent24), !.lost = Lost(p)]
        /\ booking' = [booking EXCEPT !.conf =
             [proc[p].doc.conf EXCEPT !.status = "PENDING", !.r24 = TRUE]]
        /\ Writes(p, Idle) /\ proc[p].pc = "job" /\ ~proc[p].doc.conf.r24
    BY <1>8 DEF Remind24, Save, Needs24
  <2>2. /\ history'.lost = Lost(p)
        /\ booking'.provider = booking.provider /\ history'.said = history.said
        /\ history'.replaced = history.replaced /\ history'.sent2 = history.sent2
    BY <1>1, <2>1 DEF Histories, Bookings
  <2>3. Timely /\ ~proc[p].stale BY <1>3, <2>2
  <2>4. /\ proc[p].doc.conf = booking.conf /\ booking.conf.status # "CONFIRMED"
        /\ history.sent24 = 0 /\ history.replaced # 1 /\ history.said # booking.provider
    BY <1>1, <2>1, <2>3
       DEF Timely, Current, Unconfirmed, ReplacedOnce, Recorded, Word, Histories
  <2>5. /\ booking'.conf.status = "PENDING" /\ booking'.conf.r24
        /\ booking'.conf.r2 = booking.conf.r2
    BY <1>1, <2>1, <2>4 DEF Bookings, Confirmations
  <2>6. history'.sent24 = 1 BY <1>1, <2>1, <2>4 DEF Histories, Once
  <2>7. Current' /\ Unconfirmed' BY <1>1, <2>1, TimelyWrite
  <2>8. ReplacedOnce' /\ Recorded' /\ Word'
    BY <2>2, <2>3, <2>4, <2>5, <2>6 DEF Timely, ReplacedOnce, Recorded, Word
  <2>9. QED BY <2>7, <2>8 DEF Timely
<1>9. CASE Remind2(p)
  <2>1. history' = [history EXCEPT !.sent2 = Once(history.sent2), !.lost = Lost(p)]
        /\ booking' = [booking EXCEPT !.conf =
             [proc[p].doc.conf EXCEPT !.status = "PENDING", !.r24 = TRUE, !.r2 = TRUE]]
        /\ Writes(p, Idle) /\ proc[p].pc = "job" /\ ~proc[p].doc.conf.r2
    BY <1>9 DEF Remind2, Save, Needs2
  <2>2. /\ history'.lost = Lost(p)
        /\ booking'.provider = booking.provider /\ history'.said = history.said
        /\ history'.replaced = history.replaced /\ history'.sent24 = history.sent24
    BY <1>1, <2>1 DEF Histories, Bookings
  <2>3. Timely /\ ~proc[p].stale BY <1>3, <2>2
  <2>4. /\ proc[p].doc.conf = booking.conf /\ booking.conf.status # "CONFIRMED"
        /\ history.sent2 = 0 /\ history.replaced # 1 /\ history.said # booking.provider
    BY <1>1, <2>1, <2>3
       DEF Timely, Current, Unconfirmed, ReplacedOnce, Recorded, Word, Histories
  <2>5. booking'.conf.status = "PENDING" /\ booking'.conf.r24 /\ booking'.conf.r2
    BY <1>1, <2>1, <2>4 DEF Bookings, Confirmations
  <2>6. history'.sent2 = 1 BY <1>1, <2>1, <2>4 DEF Histories, Once
  <2>7. Current' /\ Unconfirmed' BY <1>1, <2>1, TimelyWrite
  <2>8. ReplacedOnce' /\ Recorded' /\ Word'
    BY <2>2, <2>3, <2>4, <2>5, <2>6 DEF Timely, ReplacedOnce, Recorded, Word
  <2>9. QED BY <2>7, <2>8 DEF Timely
<1>10. CASE Miss(p)
  <2> DEFINE w == [Idle EXCEPT !.pc = "find", !.doc.provider = proc[p].doc.provider]
  <2>1. history' = [history EXCEPT !.missed = TRUE, !.lost = Lost(p)]
        /\ booking' = [booking EXCEPT !.conf = [proc[p].doc.conf EXCEPT !.status = "MISSED"]]
        /\ Writes(p, w) /\ proc[p].pc = "job"
    BY <1>10 DEF Miss, Save, Search
  <2>2. /\ history'.lost = Lost(p)
        /\ booking'.provider = booking.provider /\ history'.said = history.said
        /\ history'.replaced = history.replaced
        /\ history'.sent24 = history.sent24 /\ history'.sent2 = history.sent2
    BY <1>1, <2>1 DEF Histories, Bookings
  <2>3. Timely /\ ~proc[p].stale BY <1>3, <2>2
  <2>4. proc[p].doc.conf = booking.conf /\ booking.conf.status # "CONFIRMED"
    BY <2>1, <2>3 DEF Timely, Current, Unconfirmed
  <2>5. /\ booking'.conf.status = "MISSED" /\ booking'.conf.r24 = booking.conf.r24
        /\ booking'.conf.r2 = booking.conf.r2
    BY <1>1, <2>1, <2>4 DEF Bookings, Confirmations
  <2>6. w \in Procs /\ w.pc = "find"
    BY <1>1, IdleType DEF Procs, Docs, Pc
  <2>7. Current' /\ Unconfirmed' BY <2>1, <2>5, <2>6, TimelyWrite
  <2>8. ReplacedOnce' /\ Recorded' /\ Word'
    BY <2>2, <2>3, <2>4, <2>5 DEF Timely, ReplacedOnce, Recorded, Word
  <2>9. QED BY <2>7, <2>8 DEF Timely
<1>11. CASE NothingToDo(p) \/ Fail(p) \/ (FindBackup(p) /\ Finish(p))
  BY <1>2, <1>11, TimelyFinish DEF NothingToDo, Fail, FindBackup
<1>12. CASE FindBackup(p) /\ ~Finish(p)
  <2>1. PICK P \in Provider :
          proc' = [proc EXCEPT ![p] = [proc[p] EXCEPT !.pc = "assign", !.to = P]]
    BY <1>12 DEF FindBackup
  <2>2. proc[p].pc = "find" /\ UNCHANGED <<booking, history>>
    BY <1>12 DEF FindBackup
  <2>3. Timely BY <1>2, <2>2
  <2>4. proc'[p].pc = "assign" /\ proc'[p].stale = proc[p].stale
        /\ \A q \in Proc \ {p} : proc'[q] = proc[q]
    BY <1>1, <2>1 DEF IInv, TypeOK, Procs
  <2>5. Current' /\ Unconfirmed' BY <2>2, <2>3, <2>4 DEF Timely, Current, Unconfirmed
  <2>6. ReplacedOnce' /\ Recorded' /\ Word'
    BY <2>2, <2>3 DEF Timely, ReplacedOnce, Recorded, Word
  <2>7. QED BY <2>5, <2>6 DEF Timely
<1>13. CASE Assign(p)
  <2>1. /\ history' = [history EXCEPT !.said = proc[p].to, !.replaced = Once(history.replaced),
                                      !.lost = Lost(p)]
        /\ booking' = [booking EXCEPT !.provider = proc[p].to,
             !.conf = [Fresh EXCEPT !.status = "CONFIRMED", !.replacement = proc[p].to]]
        /\ Writes(p, Idle) /\ proc[p].pc = "assign"
    BY <1>13 DEF Assign
  <2>2. /\ history'.lost = Lost(p) /\ booking'.conf.status = "CONFIRMED"
        /\ history'.sent24 = history.sent24 /\ history'.sent2 = history.sent2
    BY <1>1, <2>1 DEF Histories, Bookings, Fresh
  <2>3. Timely /\ ~proc[p].stale BY <1>3, <2>2
  <2>4. history.replaced = 0
    BY <1>1, <2>1, <2>3 DEF Timely, Unconfirmed, ReplacedOnce, Histories
  <2>5. history'.replaced = 1 BY <1>1, <2>1, <2>4 DEF Histories, Once
  <2>6. Current' /\ Unconfirmed' BY <1>1, <2>1, TimelyWrite
  <2>7. ReplacedOnce' /\ Recorded' /\ Word'
    BY <2>2, <2>3, <2>5 DEF Timely, ReplacedOnce, Recorded, Word
  <2>8. QED BY <2>6, <2>7 DEF Timely
<1>14. QED
  BY <1>4, <1>5, <1>6, <1>7, <1>8, <1>9, <1>10, <1>11, <1>12, <1>13 DEF Step

LEMMA NextTInv == IInv /\ TInv /\ [Next]_vars => TInv'
<1> SUFFICES ASSUME IInv, TInv, [Next]_vars, ~history'.lost PROVE Timely'
  BY DEF TInv
<1>1. ASSUME NEW p \in Proc, Step(p) PROVE Timely' BY <1>1, TimelyHandler
<1> USE DEF TInv, Timely, Current, Unconfirmed, ReplacedOnce, Recorded, Word
<1>2. CASE BookingEnds BY <1>2 DEF BookingEnds, IInv, TypeOK, Bookings
<1>3. CASE Reschedule BY <1>3 DEF Reschedule, IInv, TypeOK, Histories
<1>4. CASE TtlRemove BY <1>4 DEF TtlRemove
<1>5. CASE TimePasses BY <1>5 DEF TimePasses
<1>6. CASE UNCHANGED vars BY <1>6 DEF vars
<1>7. QED BY <1>1, <1>2, <1>3, <1>4, <1>5, <1>6 DEF Next

LEMMA TimelyHolds == Spec => []TInv
<1>1. Spec => [](IInv /\ TInv)
  BY InitIInv, InitTInv, NextIInv, NextTInv, PTL DEF Spec
<1>2. QED BY <1>1, PTL

\* While no handler saves over a booking it has not seen, confirmProviderBooking
\* and assignBackupProviderForConfirmedBooking are not taken back by the job.
THEOREM ConfirmationCounts == Spec => []WordCounts
<1>1. TInv => WordCounts BY DEF TInv, Timely, Word, WordCounts
<1>2. QED BY TimelyHolds, <1>1, PTL

\* While no handler saves over a booking it has not seen, the booking is given
\* to one backup at most, and each of the two reminders goes out once.
THEOREM OneOfEach == Spec => []DoneOnce
<1>1. TInv => DoneOnce BY DEF TInv, Timely, ReplacedOnce, Recorded, DoneOnce
<1>2. QED BY TimelyHolds, <1>1, PTL
=============================================================================
