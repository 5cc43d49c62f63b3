----------------------- MODULE UrgentAssignment_proofs -----------------------
(***************************************************************************)
(* For any number of handlers in flight, any providers and any number of   *)
(* dispatch rounds: the documents of UrgentAssignment keep their types,    *)
(* one provider wins a round, the booking of the request is with the       *)
(* provider who won, and no cancellation or expiry job takes it away.      *)
(***************************************************************************)
EXTENDS UrgentAssignment, TLAPS

\* The winners of the round hold the request.
WinnersHold == \A P \in winners : P = ur.provider

\* A booking is somebody's.
BookingHeld == booking.state # "NONE" => booking.provider \in Provider

Winning == {"markAccepted", "markLost", "convert"}

\* What a handler h may rely on, u being the request, b the booking and r whether
\* a cancelled booking came back: until the first booking exists nobody dispatches
\* again, so a winner on the way to it still holds the request; whoever resets the
\* request has seen its booking cancelled; no claim starts from a cancelled one.
HandlerOK(h, u, b, r) ==
  /\ h.pc \in {"findTarget", "claim"} \cup Winning => h.by \in Provider
  /\ h.pc \in Winning /\ b.state = "NONE" => h.by = u.provider
  /\ h.pc \in {"findRequest", "cancelBooking", "noShowFind", "noShowClaim", "visitClaim",
               "statusSave", "rejectTarget", "reset"} => b.state # "NONE"
  /\ h.pc \in {"rejectTarget", "reset"} => r \/ b.state = "CANCELLED"
  /\ h.pc \in {"noShowFind", "noShowClaim"} => h.to = "CANCELLED"
  /\ h.pc \in {"visitClaim", "statusSave"} => h.to # "NONE"
  /\ h.pc = "visitClaim" => h.was # "CANCELLED"

HandlersOK == \A p \in Request : HandlerOK(req[p], ur, booking, revived)

IInv == TypeOK /\ WinnersHold /\ HolderWon /\ BookingHeld /\ HandlersOK

WorldOK ==
  /\ ur \in RequestDocs
  /\ target \in [Provider -> TargetStatus]
  /\ booking \in BookingDocs
  /\ winners \subseteq Provider
  /\ round \in 1..MaxRounds
  /\ revived \in BOOLEAN
  /\ WinnersHold
  /\ HolderWon
  /\ BookingHeld

ReqOK == req \in [Request -> Handlers] /\ HandlersOK

LEMMA Parts ==
  /\ IInv <=> WorldOK /\ ReqOK
  /\ IInv' <=> WorldOK' /\ ReqOK'
  BY DEF IInv, TypeOK, WorldOK, ReqOK

\* What every step leaves to the handlers it does not move.
Keeps(u, v, b, c, r, q) ==
  /\ c.state = "NONE" => b.state = "NONE" /\ (u.provider # Nobody => v.provider = u.provider)
  /\ b.state = "CANCELLED" => c.state = "CANCELLED" \/ q
  /\ r => q

LEMMA IdleType ==
  Idle \in Handlers /\ Idle.pc = "idle" /\ \A u, b, r : HandlerOK(Idle, u, b, r)
  BY DEF Idle, Handler, Handlers, Pc, RequestStatus, TargetStatus, BookingStatus, HandlerOK,
         Winning

LEMMA Kept ==
  ASSUME ReqOK, Keeps(ur, ur', booking, booking', revived, revived'), NEW q \in Request
  PROVE  HandlerOK(req[q], ur', booking', revived')
<1>1. HandlerOK(req[q], ur, booking, revived) BY DEF ReqOK, HandlersOK
<1>2. CASE req[q].pc \in Winning
  <2>1. req[q].by \in Provider BY <1>1, <1>2 DEF HandlerOK
  <2>2. QED BY <1>1, <1>2, <2>1, ProviderAssumption DEF HandlerOK, Keeps, Winning
<1>3. CASE req[q].pc \notin Winning BY <1>1, <1>3 DEF HandlerOK, Keeps
<1>4. QED BY <1>2, <1>3

\* One handler moves on to h, the others stay where they are.
LEMMA OneMoves ==
  ASSUME ReqOK, Keeps(ur, ur', booking, booking', revived, revived'), NEW p \in Request, NEW h \in Handlers,
         HandlerOK(h, ur', booking', revived'), req' = [req EXCEPT ![p] = h]
  PROVE  ReqOK'
<1>1. req' \in [Request -> Handlers] BY DEF ReqOK
<1>2. ASSUME NEW q \in Request PROVE HandlerOK(req'[q], ur', booking', revived')
  <2>1. CASE q = p BY <2>1 DEF ReqOK
  <2>2. CASE q # p BY <2>2, Kept DEF ReqOK
  <2>3. QED BY <2>1, <2>2
<1>3. QED BY <1>1, <1>2 DEF ReqOK, HandlersOK

LEMMA NoneMoves ==
  ASSUME ReqOK, Keeps(ur, ur', booking, booking', revived, revived'), UNCHANGED req
  PROVE  ReqOK'
  BY Kept DEF ReqOK, HandlersOK

LEMMA OneFinishes ==
  ASSUME ReqOK, Keeps(ur, ur', booking, booking', revived, revived'), NEW p \in Request, Finish(p)
  PROVE  ReqOK'
  BY IdleType, OneMoves DEF Finish

\* A handler that begins, or goes on, is typed and knows what its place asks.
LEMMA Loads ==
  ASSUME ReqOK, Keeps(ur, ur', booking, booking', revived, revived'), NEW p \in Request, NEW pc \in Pc,
         NEW P \in Provider \cup {Nobody}, NEW seen \in TargetStatus,
         req' = [req EXCEPT ![p] = Handler(pc, P, seen)],
         pc \in {"findTarget", "claim"} => P \in Provider,
         pc \notin Winning \cup {"rejectTarget", "reset", "noShowFind", "noShowClaim",
                               "visitClaim", "statusSave"},
         pc \in {"findRequest", "cancelBooking"} => booking'.state # "NONE"
  PROVE  ReqOK'
<1> DEFINE h == Handler(pc, P, seen)
<1>1. h \in Handlers BY DEF Handler, Handlers, RequestStatus, BookingStatus
<1>2. HandlerOK(h, ur', booking', revived') BY DEF Handler, HandlerOK
<1>3. QED BY <1>1, <1>2, OneMoves

LEMMA Awaits ==
  ASSUME ReqOK, Keeps(ur, ur', booking, booking', revived, revived'), NEW p \in Request, NEW pc \in Pc,
         NEW P \in Provider \cup {Nobody}, Await(p, pc, P),
         pc \in {"findTarget", "claim"} => P \in Provider,
         pc \notin Winning \cup {"rejectTarget", "reset", "noShowFind", "noShowClaim",
                               "visitClaim", "statusSave"},
         pc \in {"findRequest", "cancelBooking"} => booking'.state # "NONE"
  PROVE  ReqOK'
<1>1. "NONE" \in TargetStatus BY DEF TargetStatus
<1>2. QED BY <1>1, Loads DEF Await

LEMMA ChangesTo ==
  ASSUME ReqOK, Keeps(ur, ur', booking, booking', revived, revived'), NEW p \in Request,
         NEW pc \in {"noShowFind", "visitClaim", "statusSave"},
         NEW P \in Provider \cup {Nobody}, NEW was \in BookingStatus, NEW to \in BookingStatus,
         Change(p, pc, P, was, to), booking'.state # "NONE", to # "NONE",
         pc = "noShowFind" => to = "CANCELLED",
         pc = "visitClaim" => was # "CANCELLED"
  PROVE  ReqOK'
<1> DEFINE h == [pc |-> pc, by |-> P, status |-> "SEARCHING", given |-> Nobody,
                 seen |-> "NONE", was |-> was, to |-> to]
<1>1. h \in Handlers BY DEF Handlers, Pc, RequestStatus, TargetStatus
<1>2. HandlerOK(h, ur', booking', revived') BY DEF HandlerOK, Winning
<1>3. req' = [req EXCEPT ![p] = h] BY DEF Change
<1>4. QED BY <1>1, <1>2, <1>3, OneMoves

LEMMA Goes ==
  ASSUME ReqOK, Keeps(ur, ur', booking, booking', revived, revived'), NEW p \in Request, NEW pc \in Pc,
         Goto(p, pc), HandlerOK([req[p] EXCEPT !.pc = pc], ur', booking', revived')
  PROVE  ReqOK'
<1> DEFINE h == [req[p] EXCEPT !.pc = pc]
<1>1. req[p] \in Handlers BY DEF ReqOK
<1>2. h \in Handlers BY <1>1 DEF Handlers
<1>3. req' = [req EXCEPT ![p] = h] BY DEF Goto, ReqOK
<1>4. QED BY <1>2, <1>3, OneMoves

LEMMA Recalls ==
  ASSUME ReqOK, ur \in RequestDocs, Keeps(ur, ur', booking, booking', revived, revived'), NEW p \in Request,
         NEW pc \in {"cancelBooking", "noShowClaim"}, Recall(p, pc), booking'.state # "NONE",
         pc = "noShowClaim" => req[p].to = "CANCELLED"
  PROVE  ReqOK'
<1> DEFINE h == [pc |-> pc, by |-> req[p].by, status |-> ur.status,
                given |-> ur.provider, seen |-> "NONE", was |-> req[p].was, to |-> req[p].to]
<1>1. req[p] \in Handlers BY DEF ReqOK
<1>2. h \in Handlers BY <1>1 DEF Handlers, RequestDocs, TargetStatus, Pc
<1>3. HandlerOK(h, ur', booking', revived') BY DEF HandlerOK, Winning
<1>4. req' = [req EXCEPT ![p] = h] BY DEF Recall
<1>5. QED BY <1>2, <1>3, <1>4, OneMoves

LEMMA Unmoved ==
  ASSUME WorldOK, UNCHANGED <<ur, target, booking, winners, round, revived>>
  PROVE  WorldOK' /\ Keeps(ur, ur', booking, booking', revived, revived')
  BY DEF WorldOK, Keeps, WinnersHold, HolderWon, BookingHeld

LEMMA InitIInv == Init => IInv
<1> SUFFICES ASSUME Init PROVE IInv OBVIOUS
<1>1. WorldOK
  <2>1. /\ ur \in RequestDocs /\ booking \in BookingDocs
        /\ target \in [Provider -> TargetStatus]
    BY DEF Init, RequestDocs, RequestStatus, TargetStatus, BookingDocs, BookingStatus
  <2>2. winners \subseteq Provider /\ round \in 1..MaxRounds BY RoundsAssumption DEF Init
  <2>3. revived \in BOOLEAN /\ HolderWon BY DEF Init, HolderWon
  <2>4. WinnersHold /\ BookingHeld BY DEF Init, WinnersHold, BookingHeld
  <2>5. QED BY <2>1, <2>2, <2>3, <2>4 DEF WorldOK
<1>2. ReqOK BY IdleType DEF Init, ReqOK, HandlersOK
<1>3. QED BY <1>1, <1>2, Parts

-----------------------------------------------------------------------------
(* The steps, by what they touch. *)

\* Steps that only read.
LEMMA ReadStep ==
  ASSUME WorldOK, ReqOK, NEW p \in Request,
         \/ \E P \in Provider : LoadAccept(p, P) \/ LoadReject(p, P) \/ LoadNotice(p, P)
                                \/ LoadGiveUp(p, P)
         \/ FindTarget(p) \/ JobFind(p) \/ RingFindsNobody(p) \/ CountOpen(p)
         \/ FindRequest(p) \/ LoadNoShow(p) \/ NoShowFind(p) \/ LoadVisit(p) \/ LoadChange(p)
         \/ Fail(p)
  PROVE  WorldOK' /\ ReqOK'
<1>1. UNCHANGED <<ur, target, booking, winners, round, revived>>
  BY DEF LoadAccept, LoadReject, LoadNotice, LoadGiveUp, FindTarget, JobFind,
         RingFindsNobody, CountOpen, FindRequest, LoadNoShow, NoShowFind, LoadVisit, LoadChange,
         Fail
<1>2. WorldOK' /\ Keeps(ur, ur', booking, booking', revived, revived') BY <1>1, Unmoved
<1>3. req[p] \in Handlers /\ HandlerOK(req[p], ur, booking, revived) BY DEF ReqOK, HandlersOK
<1>4. ur \in RequestDocs /\ booking \in BookingDocs /\ booking.provider \in Provider \cup {Nobody}
  BY DEF WorldOK, BookingDocs
<1>5. ReqOK'
  <2>1. ASSUME NEW P \in Provider, LoadAccept(p, P) PROVE ReqOK'
    BY <1>2, <2>1, Awaits DEF LoadAccept, Pc, Winning
  <2>2. ASSUME NEW P \in Provider, LoadReject(p, P) PROVE ReqOK'
    BY <1>2, <2>2, Awaits DEF LoadReject, Pc, Winning
  <2>3. ASSUME NEW P \in Provider, LoadGiveUp(p, P) PROVE ReqOK'
    <3>1. Await(p, "findRequest", P) /\ booking'.state # "NONE" BY <1>1, <2>3 DEF LoadGiveUp
    <3>2. QED BY <1>2, <3>1, Awaits DEF Pc, Winning
  <2>4. CASE FindTarget(p)
    <3>1. req[p].by \in Provider BY <1>3, <2>4 DEF FindTarget, HandlerOK
    <3>2. target[req[p].by] \in TargetStatus BY <3>1 DEF WorldOK
    <3>3. ASSUME NEW pc \in {"claim", "busySave"},
                 req' = [req EXCEPT ![p] = Handler(pc, req[p].by, target[req[p].by])]
          PROVE  ReqOK'
      BY <1>2, <3>1, <3>2, <3>3, Loads DEF Pc, Winning
    <3>4. QED BY <1>2, <2>4, <3>3, OneFinishes DEF FindTarget
  <2>5. CASE JobFind(p) BY <1>2, <2>5, Awaits DEF JobFind, Pc, Winning
  <2>6. CASE RingFindsNobody(p) BY <1>2, <2>6, Awaits DEF RingFindsNobody, Pc, Winning
  <2>7. CASE CountOpen(p)
    <3>1. HandlerOK([req[p] EXCEPT !.pc = "exhaustSave"], ur', booking', revived')
      BY <1>3 DEF HandlerOK, Handlers, Winning
    <3>2. Goto(p, "exhaustSave") \/ Finish(p) BY <2>7 DEF CountOpen, GotoIf
    <3>3. QED BY <1>2, <3>1, <3>2, Goes, OneFinishes DEF Pc
  <2>8. CASE FindRequest(p)
    <3>1. booking'.state # "NONE" BY <1>1, <1>3, <2>8 DEF FindRequest, HandlerOK
    <3>2. QED BY <1>2, <1>4, <2>8, <3>1, Recalls DEF FindRequest
  <2>9. CASE LoadNoShow(p)
    <3>1. Change(p, "noShowFind", booking.provider, booking.state, "CANCELLED")
          /\ booking'.state # "NONE"
      BY <1>1, <2>9 DEF LoadNoShow
    <3>2. booking.state \in BookingStatus /\ "CANCELLED" \in BookingStatus
      BY <1>4 DEF BookingDocs, BookingStatus
    <3>3. QED BY <1>2, <1>4, <3>1, <3>2, ChangesTo
  <2>10. CASE NoShowFind(p)
    <3>1. booking'.state # "NONE" /\ req[p].to = "CANCELLED"
      BY <1>1, <1>3, <2>10 DEF NoShowFind, HandlerOK
    <3>2. Recall(p, "noShowClaim") \/ Finish(p) BY <2>10 DEF NoShowFind
    <3>3. QED BY <1>2, <1>4, <3>1, <3>2, Recalls, OneFinishes
  <2>11. ASSUME NEW P \in Provider, LoadNotice(p, P) PROVE ReqOK'
    BY <1>2, <2>11, Awaits DEF LoadNotice, Pc, Winning
  <2>12. CASE Fail(p) BY <1>2, <2>12, OneFinishes DEF Fail
  <2>13. CASE LoadVisit(p)
    <3>1. PICK m \in Visit : booking.state = m[1] /\ Change(p, "visitClaim", Nobody, m[1], m[2])
      BY <2>13 DEF LoadVisit
    <3>2. /\ m[1] \in BookingStatus \ {"NONE", "CANCELLED"}
          /\ m[2] \in BookingStatus \ {"NONE"}
      BY DEF Visit, BookingStatus
    <3>3. booking'.state # "NONE" BY <1>1, <3>1, <3>2
    <3>4. QED BY <1>2, <3>1, <3>2, <3>3, ChangesTo
  <2>14. CASE LoadChange(p)
    <3>1. PICK m \in Changes : booking.state = m[1] /\ Change(p, "statusSave", Nobody, m[1], m[2])
      BY <2>14 DEF LoadChange
    <3>2. m[1] \in BookingStatus \ {"NONE"} /\ m[2] \in BookingStatus \ {"NONE"}
      BY DEF Changes, BookingStatus
    <3>3. booking'.state # "NONE" BY <1>1, <3>1, <3>2
    <3>4. QED BY <1>2, <3>1, <3>2, <3>3, ChangesTo
  <2>15. QED BY ONLY <2>1, <2>2, <2>3, <2>4, <2>5, <2>6, <2>7, <2>8, <2>9, <2>10, <2>11, <2>12,
                  <2>13, <2>14,
                  \/ \E P \in Provider : LoadAccept(p, P) \/ LoadReject(p, P) \/ LoadNotice(p, P)
                                         \/ LoadGiveUp(p, P)
                  \/ FindTarget(p) \/ JobFind(p) \/ RingFindsNobody(p) \/ CountOpen(p)
                  \/ FindRequest(p) \/ LoadNoShow(p) \/ NoShowFind(p) \/ LoadVisit(p)
                  \/ LoadChange(p) \/ Fail(p)
<1>6. QED BY <1>2, <1>5

\* Steps that write targets only.
LEMMA TargetStep ==
  ASSUME WorldOK, ReqOK, NEW p \in Request,
         MarkAccepted(p) \/ MarkLost(p) \/ SaveReject(p) \/ SaveNotice(p) \/ CloseTargets(p)
           \/ RejectTarget(p)
  PROVE  WorldOK' /\ ReqOK'
<1>1. UNCHANGED <<ur, booking, winners, round, revived>>
  BY DEF MarkAccepted, MarkLost, SaveReject, SaveNotice, CloseTargets, RejectTarget
<1>2. target' \in [Provider -> TargetStatus]
  BY DEF WorldOK, TargetStatus, MarkAccepted, MarkLost, SaveReject, SaveNotice, CloseTargets,
         RejectTarget, Saved
<1>3. WorldOK' /\ Keeps(ur, ur', booking, booking', revived, revived')
  BY <1>1, <1>2 DEF WorldOK, Keeps, WinnersHold, HolderWon, BookingHeld
<1>4. req[p] \in Handlers /\ HandlerOK(req[p], ur, booking, revived) BY DEF ReqOK, HandlersOK
<1>5. ReqOK'
  <2>1. CASE MarkAccepted(p)
    <3>1. HandlerOK([req[p] EXCEPT !.pc = "markLost"], ur', booking', revived')
      BY <1>1, <1>4, <2>1 DEF MarkAccepted, HandlerOK, Handlers, Winning
    <3>2. QED BY <1>3, <2>1, <3>1, Goes DEF MarkAccepted, Pc
  <2>2. CASE MarkLost(p)
    <3>1. HandlerOK([req[p] EXCEPT !.pc = "convert"], ur', booking', revived')
      BY <1>1, <1>4, <2>2 DEF MarkLost, HandlerOK, Handlers, Winning
    <3>2. QED BY <1>3, <2>2, <3>1, Goes DEF MarkLost, Pc
  <2>3. CASE RejectTarget(p)
    <3>1. HandlerOK([req[p] EXCEPT !.pc = "reset"], ur', booking', revived')
      BY <1>1, <1>4, <2>3 DEF RejectTarget, HandlerOK, Handlers, Winning
    <3>2. QED BY <1>3, <2>3, <3>1, Goes DEF RejectTarget, Pc
  <2>4. CASE SaveReject(p) \/ SaveNotice(p) \/ CloseTargets(p)
    BY <1>3, <2>4, OneFinishes DEF SaveReject, SaveNotice, CloseTargets
  <2>5. QED BY <2>1, <2>2, <2>3, <2>4
<1>6. QED BY <1>3, <1>5

\* Steps that write the request's status, and leave it with its provider.
LEMMA StatusStep ==
  ASSUME WorldOK, ReqOK, NEW p \in Request,
         ConvertSave(p) \/ CancelRequest(p) \/ JobSave(p) \/ ExpireNoProviders(p)
  PROVE  WorldOK' /\ ReqOK'
<1>1. UNCHANGED <<target, booking, winners, round, revived>>
  BY DEF ConvertSave, CancelRequest, JobSave, ExpireNoProviders
<1>2. ur \in RequestDocs BY DEF WorldOK
<1>3. ur' \in RequestDocs /\ ur'.provider = ur.provider
  BY <1>2 DEF ConvertSave, CancelRequest, JobSave, ExpireNoProviders, RequestDocs, RequestStatus
<1>4. WorldOK' /\ Keeps(ur, ur', booking, booking', revived, revived')
  BY <1>1, <1>3 DEF WorldOK, Keeps, WinnersHold, HolderWon, BookingHeld
<1>5. req[p] \in Handlers BY DEF ReqOK
<1>6. ReqOK'
  <2>1. CASE ConvertSave(p) \/ ExpireNoProviders(p)
    BY <1>4, <2>1, OneFinishes DEF ConvertSave, ExpireNoProviders
  <2>2. CASE CancelRequest(p) BY <1>4, <2>2, Awaits DEF CancelRequest, Pc, Winning
  <2>3. CASE JobSave(p)
    <3>1. HandlerOK([req[p] EXCEPT !.pc = "closeAll"], ur', booking', revived')
      BY <1>5 DEF HandlerOK, Handlers, Winning
    <3>2. QED BY <1>4, <2>3, <3>1, Goes DEF JobSave, Pc
  <2>4. QED BY <2>1, <2>2, <2>3
<1>7. QED BY <1>4, <1>6

\* A claim succeeds on a request without a provider only, and there nobody
\* has won yet.
LEMMA ClaimStep ==
  ASSUME WorldOK, ReqOK, NEW p \in Request, Claim(p)
  PROVE  WorldOK' /\ ReqOK'
<1>1. req[p] \in Handlers /\ HandlerOK(req[p], ur, booking, revived) BY DEF ReqOK, HandlersOK
<1>2. req[p].by \in Provider BY <1>1 DEF Claim, HandlerOK
<1>3. CASE ~(ur.status = "SEARCHING" /\ ur.provider = Nobody /\ ~ur.overdue)
  <2>1. UNCHANGED <<ur, target, booking, winners, round, revived>> /\ Finish(p) BY <1>3 DEF Claim
  <2>2. QED BY <2>1, Unmoved, OneFinishes
<1>4. CASE ur.status = "SEARCHING" /\ ur.provider = Nobody /\ ~ur.overdue
  <2>1. /\ ur' = [ur EXCEPT !.status = "ASSIGNED", !.provider = req[p].by]
        /\ winners' = winners \cup {req[p].by}
        /\ Goto(p, "markAccepted")
        /\ UNCHANGED <<target, booking, round, revived>>
    BY <1>4 DEF Claim
  <2>2. ur \in RequestDocs BY DEF WorldOK
  <2>3. ur' \in RequestDocs /\ ur'.provider = req[p].by
    BY <1>2, <2>1, <2>2 DEF RequestDocs, RequestStatus
  <2>4. winners = {} BY <1>4, ProviderAssumption DEF WorldOK, WinnersHold
  <2>5. revived \/ booking.state \in {"NONE", "CANCELLED"}
    BY <1>4, ProviderAssumption DEF WorldOK, HolderWon, BookingHeld
  <2>6. WorldOK'
    BY <1>2, <2>1, <2>3, <2>4, <2>5 DEF WorldOK, WinnersHold, HolderWon, BookingHeld
  <2>7. Keeps(ur, ur', booking, booking', revived, revived') BY <1>4, <2>1 DEF Keeps
  <2>8. HandlerOK([req[p] EXCEPT !.pc = "markAccepted"], ur', booking', revived')
    BY <1>1, <1>2, <2>3 DEF HandlerOK, Handlers, Winning
  <2>9. ReqOK' BY <2>1, <2>7, <2>8, Goes DEF Pc
  <2>10. QED BY <2>6, <2>9
<1>5. QED BY <1>3, <1>4

\* The booking is made once, for the provider that holds the request.
LEMMA ConvertStep ==
  ASSUME WorldOK, ReqOK, NEW p \in Request, Convert(p)
  PROVE  WorldOK' /\ ReqOK'
<1>1. req[p] \in Handlers /\ HandlerOK(req[p], ur, booking, revived) BY DEF ReqOK, HandlersOK
<1>2. CASE booking.state # "NONE"
  <2>1. UNCHANGED <<ur, target, booking, winners, round, revived>> /\ Finish(p) BY <1>2 DEF Convert
  <2>2. QED BY <2>1, Unmoved, OneFinishes
<1>3. CASE booking.state = "NONE"
  <2>1. /\ booking' = [state |-> "CONFIRMED", provider |-> req[p].by]
        /\ Goto(p, "convertSave")
        /\ UNCHANGED <<ur, target, winners, round, revived>>
    BY <1>3 DEF Convert
  <2>2. req[p].by \in Provider /\ req[p].by = ur.provider
    BY <1>1, <1>3 DEF Convert, HandlerOK, Winning
  <2>3. booking' \in BookingDocs BY <2>1, <2>2 DEF BookingDocs, BookingStatus
  <2>4. WorldOK' BY <2>1, <2>2, <2>3 DEF WorldOK, WinnersHold, HolderWon, BookingHeld
  <2>5. Keeps(ur, ur', booking, booking', revived, revived') BY <1>3, <2>1 DEF Keeps
  <2>6. HandlerOK([req[p] EXCEPT !.pc = "convertSave"], ur', booking', revived')
    BY <1>1 DEF HandlerOK, Handlers, Winning
  <2>7. ReqOK' BY <2>1, <2>5, <2>6, Goes DEF Pc
  <2>8. QED BY <2>4, <2>7
<1>4. QED BY <1>2, <1>3

\* A redispatch cancels the booking before it resets the request.
LEMMA CancelStep ==
  ASSUME WorldOK, ReqOK, NEW p \in Request, CancelBooking(p) \/ NoShowClaim(p)
  PROVE  WorldOK' /\ ReqOK'
<1>1. req[p] \in Handlers /\ HandlerOK(req[p], ur, booking, revived) BY DEF ReqOK, HandlersOK
<1>2. CASE UNCHANGED booking /\ Finish(p)
  <2>1. UNCHANGED <<ur, target, booking, winners, round, revived>>
    BY <1>2 DEF CancelBooking, NoShowClaim
  <2>2. QED BY <1>2, <2>1, Unmoved, OneFinishes
<1>3. CASE booking' = [booking EXCEPT !.state = "CANCELLED"] /\ Goto(p, "rejectTarget")
  <2>1. UNCHANGED <<ur, target, winners, round, revived>> BY DEF CancelBooking, NoShowClaim
  <2>2. booking.state # "NONE" BY <1>1 DEF CancelBooking, NoShowClaim, HandlerOK
  <2>3. booking \in BookingDocs BY DEF WorldOK
  <2>4. /\ booking' \in BookingDocs
        /\ booking'.state = "CANCELLED" /\ booking'.provider = booking.provider
    BY <1>3, <2>3 DEF BookingDocs, BookingStatus
  <2>5. WorldOK' BY <2>1, <2>2, <2>4 DEF WorldOK, WinnersHold, HolderWon, BookingHeld
  <2>6. Keeps(ur, ur', booking, booking', revived, revived') BY <2>1, <2>4 DEF Keeps
  <2>7. HandlerOK([req[p] EXCEPT !.pc = "rejectTarget"], ur', booking', revived')
    BY <1>1, <2>4 DEF HandlerOK, Handlers, Winning
  <2>8. ReqOK' BY <1>3, <2>6, <2>7, Goes DEF Pc
  <2>9. QED BY <2>5, <2>8
<1>4. CancelBooking(p) \/ req[p].to = "CANCELLED" BY <1>1 DEF NoShowClaim, HandlerOK
<1>5. QED BY <1>2, <1>3, <1>4 DEF CancelBooking, NoShowClaim

\* A reset may take the request from its provider: the round is over, and
\* its booking was cancelled before.
LEMMA ResetStep ==
  ASSUME WorldOK, ReqOK, NEW p \in Request, ResetRequest(p)
  PROVE  WorldOK' /\ ReqOK'
<1>1. (revived \/ booking.state = "CANCELLED") /\ booking.state # "NONE"
  BY DEF ReqOK, HandlersOK, HandlerOK, ResetRequest
<1>2. ur \in RequestDocs BY DEF WorldOK
<1>3. /\ ur' \in RequestDocs
      /\ ur'.provider = Nobody \/ ur'.provider = ur.provider
      /\ winners' = IF ur'.provider = Nobody THEN {} ELSE winners
      /\ UNCHANGED <<target, booking, revived>>
  BY <1>2, ProviderAssumption DEF ResetRequest, RequestDocs, RequestStatus, Saved
<1>4. round' \in 1..MaxRounds BY RoundsAssumption DEF WorldOK, ResetRequest
<1>5. WorldOK' BY <1>1, <1>3, <1>4 DEF WorldOK, WinnersHold, HolderWon, BookingHeld
<1>6. Keeps(ur, ur', booking, booking', revived, revived') BY <1>1, <1>3 DEF Keeps
<1>7. ReqOK' BY <1>6, OneFinishes DEF ResetRequest
<1>8. QED BY <1>5, <1>7

\* A step of the visit is claimed on a booking that is on; a status saved late
\* may bring a cancelled one back, and is remembered.
LEMMA ServeStep ==
  ASSUME WorldOK, ReqOK, NEW p \in Request, ClaimVisit(p) \/ SaveStatus(p)
  PROVE  WorldOK' /\ ReqOK'
<1>1. req[p] \in Handlers /\ HandlerOK(req[p], ur, booking, revived) BY DEF ReqOK, HandlersOK
<1>2. booking \in BookingDocs BY DEF WorldOK
<1>3. booking.state # "NONE" /\ req[p].to \in BookingStatus \ {"NONE"}
  BY <1>1 DEF ClaimVisit, SaveStatus, HandlerOK, Handlers
<1>4. UNCHANGED <<ur, target, winners, round>> BY DEF ClaimVisit, SaveStatus
<1>5. CASE UNCHANGED booking /\ Finish(p) /\ ClaimVisit(p)
  <2>1. UNCHANGED <<ur, target, booking, winners, round, revived>> BY <1>5 DEF ClaimVisit
  <2>2. QED BY <1>5, <2>1, Unmoved, OneFinishes
<1>6. CASE booking' = [booking EXCEPT !.state = req[p].to]
  <2>1. /\ booking' \in BookingDocs /\ booking'.state = req[p].to
        /\ booking'.provider = booking.provider
    BY <1>2, <1>3, <1>6 DEF BookingDocs
  <2>2. /\ revived' \in BOOLEAN /\ (revived => revived')
        /\ booking.state = "CANCELLED" => booking'.state = "CANCELLED" \/ revived'
    <3>1. CASE ClaimVisit(p)
      <4>1. CASE booking.state = req[p].was
        BY <1>1, <3>1, <4>1 DEF ClaimVisit, HandlerOK, WorldOK
      <4>2. CASE booking.state # req[p].was BY <3>1, <4>2 DEF ClaimVisit, WorldOK
      <4>3. QED BY <4>1, <4>2
    <3>2. CASE SaveStatus(p)
      <4>1. revived \in BOOLEAN
            /\ revived' = (revived \/ (booking.state = "CANCELLED" /\ req[p].to # "CANCELLED"))
        BY <3>2 DEF SaveStatus, WorldOK
      <4>2. QED BY <2>1, <4>1
    <3>3. QED BY <3>1, <3>2
  <2>3. WorldOK'
    BY <1>3, <1>4, <2>1, <2>2 DEF WorldOK, WinnersHold, HolderWon, BookingHeld
  <2>4. Keeps(ur, ur', booking, booking', revived, revived') BY <1>3, <2>1, <2>2 DEF Keeps
  <2>5. CASE Goto(p, "statusSave") /\ req[p].pc = "visitClaim"
    <3>1. HandlerOK([req[p] EXCEPT !.pc = "statusSave"], ur', booking', revived')
      BY <1>1, <1>3, <2>1, <2>5 DEF HandlerOK, Handlers, Winning
    <3>2. QED BY <2>3, <2>4, <2>5, <3>1, Goes DEF Pc
  <2>6. CASE Finish(p) BY <2>3, <2>4, <2>6, OneFinishes
  <2>7. QED BY <2>5, <2>6 DEF ClaimVisit, SaveStatus
<1>7. QED BY <1>5, <1>6 DEF ClaimVisit, SaveStatus

\* The search and the clock.
LEMMA WorldStep ==
  ASSUME WorldOK, ReqOK,
         (\E P \in Provider : Invite(P) \/ Lapse(P)) \/ TimePasses
  PROVE  WorldOK' /\ ReqOK'
<1>1. UNCHANGED <<req, booking, winners, round, revived>> BY DEF Invite, Lapse, TimePasses
<1>2. CASE \E P \in Provider : Invite(P) \/ Lapse(P)
  <2>1. UNCHANGED ur /\ target' \in [Provider -> TargetStatus]
    BY <1>2 DEF Invite, Lapse, WorldOK, TargetStatus
  <2>2. QED BY <1>1, <2>1, NoneMoves DEF WorldOK, Keeps, WinnersHold, HolderWon, BookingHeld
<1>3. CASE TimePasses
  <2>1. ur \in RequestDocs BY DEF WorldOK
  <2>2. ur' \in RequestDocs /\ ur'.provider = ur.provider /\ UNCHANGED target
    BY <1>3, <2>1 DEF TimePasses, RequestDocs
  <2>3. QED BY <1>1, <2>2, NoneMoves DEF WorldOK, Keeps, WinnersHold, HolderWon, BookingHeld
<1>4. QED BY <1>2, <1>3

LEMMA NextIInv == IInv /\ [Next]_vars => IInv'
<1> SUFFICES ASSUME IInv, [Next]_vars PROVE IInv' OBVIOUS
<1>0. WorldOK /\ ReqOK BY Parts
<1> DEFINE OK == WorldOK' /\ ReqOK'
<1>1. ASSUME NEW p \in Request, Accepting(p) PROVE OK
  BY ONLY <1>0, <1>1, ReadStep, TargetStep, StatusStep, ClaimStep, ConvertStep DEF Accepting
<1>2. ASSUME NEW p \in Request, Ending(p) PROVE OK
  BY ONLY <1>0, <1>2, ReadStep, TargetStep, StatusStep DEF Ending
<1>3. ASSUME NEW p \in Request, Redispatching(p) PROVE OK
  BY ONLY <1>0, <1>3, ReadStep, TargetStep, CancelStep, ResetStep DEF Redispatching
<1>4. ASSUME NEW p \in Request, Fail(p) PROVE OK
  BY ONLY <1>0, <1>4, ReadStep
<1>5. ASSUME (\E P \in Provider : Invite(P) \/ Lapse(P)) \/ TimePasses
      PROVE  OK
  BY ONLY <1>0, <1>5, WorldStep
<1>6. ASSUME UNCHANGED vars PROVE OK
  BY <1>0, <1>6, Unmoved, NoneMoves DEF vars
<1>7. ASSUME NEW p \in Request, Serving(p) PROVE OK
  BY ONLY <1>0, <1>7, ReadStep, ServeStep DEF Serving
<1>8. OK BY ONLY [Next]_vars, <1>1, <1>2, <1>3, <1>4, <1>5, <1>6, <1>7 DEF Next
<1>9. QED BY <1>8, Parts

LEMMA Invariance == Spec => []IInv
  BY InitIInv, NextIInv, PTL DEF Spec

\* The request, its invitations and its booking keep their schema, whatever
\* the handlers of the providers, the customer, the job and the search do to
\* them at the same time.
THEOREM TypeCorrect == Spec => []TypeOK
  BY Invariance, PTL DEF IInv

\* However many providers accept together, in every dispatch round at most
\* one claim succeeds.
THEOREM OneWinnerEver == Spec => []OneWinner
<1>1. IInv => OneWinner BY DEF IInv, WinnersHold, OneWinner
<1>2. QED BY <1>1, Invariance, PTL

\* As long as no status saved late has brought a cancelled booking back, a booking
\* that is on belongs to the provider the request was given to, however many
\* handlers cancel, visit and dispatch again, and in every round.
THEOREM HolderServes == Spec => []HolderWon
  BY Invariance, PTL DEF IInv

-----------------------------------------------------------------------------
(* What keeps a won request won before it is dispatched again.                *)

Past == {"markAccepted", "markLost", "convert", "convertSave"}
Again == {"findRequest", "cancelBooking", "noShowFind", "noShowClaim", "rejectTarget", "reset"}

\* In the first round the expiry job stands between its query and its save only
\* when the request is overdue, which no claim survives, and nobody has won.
FirstRound ==
  /\ \A p \in Request : req[p].pc = "expireSave" =>
       ur.overdue /\ ~Won /\ \A q \in Request : req[q].pc \notin Past
  /\ \A p \in Request : req[p].pc \in Past => ur.status # "SEARCHING"

WInv ==
  /\ round = 1 => FirstRound
  /\ MaxRounds = 1 => \A p \in Request : req[p].pc \notin Again

LEMMA InitWInv == Init => WInv
  BY IdleType DEF Init, WInv, FirstRound, Past, Again

\* A step of one handler changes no other.
LEMMA OthersStay ==
  ASSUME TypeOK, NEW p \in Request,
         Accepting(p) \/ Ending(p) \/ Redispatching(p) \/ Serving(p) \/ Fail(p)
  PROVE  \A q \in Request \ {p} : req'[q] = req[q]
  BY DEF TypeOK, Accepting, Ending, Redispatching, Fail, LoadAccept, LoadReject, LoadNotice,
     FindTarget, Claim, MarkAccepted, MarkLost, Convert, ConvertSave, SaveReject, SaveNotice,
     CancelRequest, CloseTargets, JobFind, JobSave, RingFindsNobody, CountOpen,
     ExpireNoProviders, LoadGiveUp, FindRequest, CancelBooking, LoadNoShow, NoShowFind,
     NoShowClaim, RejectTarget, ResetRequest, Serving, LoadVisit, ClaimVisit, LoadChange,
     SaveStatus, Await, Change, Goto, GotoIf, Recall, Finish

\* A handler that reads, or writes elsewhere, on its way.
LEMMA WayStep ==
  ASSUME TypeOK, WInv, UNCHANGED <<ur, round>>, NEW p \in Request,
         \A q \in Request \ {p} : req'[q] = req[q],
         req'[p].pc # "expireSave",
         req'[p].pc \in Past => req[p].pc \in Past,
         req'[p].pc \in Again => req[p].pc \in Again \/ MaxRounds # 1
  PROVE  WInv'
  BY DEF WInv, FirstRound, Won, TypeOK

LEMMA WayActions ==
  ASSUME TypeOK, WInv, NEW p \in Request,
         \/ \E P \in Provider : LoadAccept(p, P) \/ LoadReject(p, P) \/ LoadNotice(p, P)
                                \/ LoadGiveUp(p, P)
         \/ FindTarget(p) \/ MarkAccepted(p) \/ MarkLost(p) \/ Convert(p) \/ SaveReject(p)
         \/ SaveNotice(p) \/ CloseTargets(p) \/ RingFindsNobody(p) \/ CountOpen(p)
         \/ FindRequest(p) \/ CancelBooking(p) \/ LoadNoShow(p) \/ NoShowFind(p)
         \/ NoShowClaim(p) \/ RejectTarget(p) \/ Serving(p) \/ Fail(p)
  PROVE  WInv'
<1> USE IdleType
<1>1. \A q \in Request \ {p} : req'[q] = req[q]
  BY OthersStay DEF Accepting, Ending, Redispatching
<1>2. req[p] \in Handlers /\ req \in [Request -> Handlers] /\ round \in 1..MaxRounds
  BY DEF TypeOK
<1> USE DEF Await, Change, Goto, GotoIf, Recall, Finish, Handler, Handlers, Past, Again
<1>3. CASE \E P \in Provider : LoadAccept(p, P) \/ LoadReject(p, P) \/ LoadNotice(p, P)
  <2>1. UNCHANGED <<ur, round>> /\ req'[p].pc \in {"findTarget", "rejectSave", "noticeSave"}
    BY <1>2, <1>3 DEF LoadAccept, LoadReject, LoadNotice
  <2>2. QED BY <1>1, <2>1, WayStep
<1>4. CASE \E P \in Provider : LoadGiveUp(p, P)
  <2>1. UNCHANGED <<ur, round>> /\ req'[p].pc = "findRequest" /\ MaxRounds # 1
    BY <1>2, <1>4 DEF LoadGiveUp
  <2>2. QED BY <1>1, <2>1, WayStep
<1>5. CASE LoadNoShow(p)
  <2>1. UNCHANGED <<ur, round>> /\ req'[p].pc = "noShowFind" /\ MaxRounds # 1
    BY <1>2, <1>5 DEF LoadNoShow
  <2>2. QED BY <1>1, <2>1, WayStep
<1>6. CASE MarkAccepted(p) \/ MarkLost(p) \/ Convert(p)
  <2>1. UNCHANGED <<ur, round>> /\ req[p].pc \in Past /\ req'[p].pc \in Past \cup {"idle"}
    BY <1>2, <1>6 DEF MarkAccepted, MarkLost, Convert
  <2>2. QED BY <1>1, <2>1, WayStep
<1>7. CASE \/ FindTarget(p) \/ SaveReject(p) \/ SaveNotice(p) \/ CloseTargets(p)
           \/ RingFindsNobody(p) \/ CountOpen(p) \/ Fail(p)
  <2>1. /\ UNCHANGED <<ur, round>>
        /\ req'[p].pc \in {"idle", "claim", "busySave", "exhaustCount", "exhaustSave"}
    BY <1>2, <1>7 DEF FindTarget, SaveReject, SaveNotice, CloseTargets, RingFindsNobody,
       CountOpen, Fail
  <2>2. QED BY <1>1, <2>1, WayStep
<1>8. CASE \/ FindRequest(p) \/ CancelBooking(p) \/ NoShowFind(p) \/ NoShowClaim(p)
           \/ RejectTarget(p)
  <2>1. UNCHANGED <<ur, round>> /\ req[p].pc \in Again /\ req'[p].pc \in Again \cup {"idle"}
    BY <1>2, <1>8 DEF FindRequest, CancelBooking, NoShowFind, NoShowClaim, RejectTarget
  <2>2. QED BY <1>1, <2>1, WayStep
<1>9. CASE Serving(p)
  <2>1. UNCHANGED <<ur, round>> /\ req'[p].pc \in {"idle", "visitClaim", "statusSave"}
    BY <1>2, <1>9 DEF Serving, LoadVisit, ClaimVisit, LoadChange, SaveStatus
  <2>2. QED BY <1>1, <2>1, WayStep
<1>10. QED BY <1>3, <1>4, <1>5, <1>6, <1>7, <1>8, <1>9

\* The steps that change the request.
LEMMA RequestActions ==
  ASSUME TypeOK, WInv, NEW p \in Request,
         \/ Claim(p) \/ ConvertSave(p) \/ CancelRequest(p) \/ JobFind(p) \/ JobSave(p)
         \/ ExpireNoProviders(p) \/ ResetRequest(p)
  PROVE  WInv'
<1> USE IdleType
<1>1. \A q \in Request \ {p} : req'[q] = req[q]
  BY OthersStay DEF Accepting, Ending, Redispatching
<1>2. /\ req[p] \in Handlers /\ req \in [Request -> Handlers]
      /\ ur \in RequestDocs /\ round \in 1..MaxRounds
  BY DEF TypeOK
<1> USE DEF Await, Goto, Finish, Handler, Handlers, Past, Again, RequestDocs
<1>3. CASE Claim(p)
  <2>1. CASE ur.status = "SEARCHING" /\ ur.provider = Nobody /\ ~ur.overdue
    <3>1. /\ UNCHANGED round /\ req'[p].pc = "markAccepted"
          /\ ur'.status = "ASSIGNED" /\ ur'.overdue = ur.overdue
      <4>1. Goto(p, "markAccepted") /\ UNCHANGED round
            /\ ur' = [ur EXCEPT !.status = "ASSIGNED", !.provider = req[p].by]
        BY <1>3, <2>1 DEF Claim
      <4>2. req'[p].pc = "markAccepted" BY <1>2, <4>1
      <4>3. ur'.status = "ASSIGNED" /\ ur'.overdue = ur.overdue BY <1>2, <4>1
      <4>4. QED BY <4>1, <4>2, <4>3
    <3>2. QED BY <1>1, <2>1, <3>1 DEF WInv, FirstRound, Won
  <2>2. CASE ~(ur.status = "SEARCHING" /\ ur.provider = Nobody /\ ~ur.overdue)
    <3>1. UNCHANGED <<ur, round>> /\ req'[p].pc = "idle"
      BY <1>2, <1>3, <2>2 DEF Claim
    <3>2. QED BY <1>1, <3>1, WayStep
  <2>3. QED BY <2>1, <2>2
<1>4. CASE ConvertSave(p)
  <2>1. /\ UNCHANGED round /\ req[p].pc \in Past /\ req'[p].pc = "idle"
        /\ ur'.status = "CONVERTED_TO_BOOKING" /\ ur'.overdue = ur.overdue
    BY <1>2, <1>4 DEF ConvertSave
  <2>2. QED BY <1>1, <2>1 DEF WInv, FirstRound, Won
<1>5. CASE CancelRequest(p)
  <2>1. /\ UNCHANGED round /\ req'[p].pc \in {"closeTargets", "closeAll"}
        /\ ur'.status = "CANCELLED" /\ ur'.overdue = ur.overdue
    BY <1>2, <1>5 DEF CancelRequest
  <2>2. QED BY <1>1, <2>1 DEF WInv, FirstRound, Won
<1>6. CASE JobFind(p)
  <2>1. /\ UNCHANGED <<ur, round>> /\ req'[p].pc = "expireSave"
        /\ ur.status = "SEARCHING" /\ ur.overdue
    BY <1>2, <1>6 DEF JobFind
  <2>2. QED BY <1>1, <2>1 DEF WInv, FirstRound, Won
<1>7. CASE JobSave(p) \/ ExpireNoProviders(p)
  <2>1. /\ UNCHANGED round /\ req'[p].pc \in {"closeAll", "idle"}
        /\ ur'.status = "EXPIRED"
        /\ ur.overdue => ur'.overdue
    <3>1. UNCHANGED round /\ (Goto(p, "closeAll") \/ Finish(p))
      BY <1>7 DEF JobSave, ExpireNoProviders
    <3>2. req'[p].pc \in {"closeAll", "idle"} BY <1>2, <3>1
    <3>3. ur'.status = "EXPIRED" /\ (ur.overdue => ur'.overdue)
      BY <1>2, <1>7 DEF JobSave, ExpireNoProviders
    <3>4. QED BY <3>1, <3>2, <3>3
  <2>2. QED BY <1>1, <2>1 DEF WInv, FirstRound, Won
<1>8. CASE ResetRequest(p)
  <2>1. req[p].pc \in Again /\ req'[p].pc = "idle" BY <1>2, <1>8 DEF ResetRequest
  <2>2. MaxRounds # 1 BY <2>1 DEF WInv
  <2>3. round' # 1 BY <1>2, <1>8, <2>2, RoundsAssumption DEF ResetRequest
  <2>4. QED BY <1>1, <2>1, <2>2, <2>3 DEF WInv
<1>9. QED BY <1>3, <1>4, <1>5, <1>6, <1>7, <1>8

LEMMA NextWInv == TypeOK /\ WInv /\ [Next]_vars => WInv'
<1> SUFFICES ASSUME TypeOK, WInv, [Next]_vars PROVE WInv' OBVIOUS
<1>1. ASSUME NEW p \in Request,
             Accepting(p) \/ Ending(p) \/ Redispatching(p) \/ Serving(p) \/ Fail(p)
      PROVE  WInv'
  BY ONLY TypeOK, WInv, <1>1, WayActions, RequestActions DEF Accepting, Ending, Redispatching
<1>2. ASSUME UNCHANGED <<req, round>>, ur'.status = ur.status, ur.overdue => ur'.overdue
      PROVE  WInv'
  BY <1>2 DEF WInv, FirstRound, Won
<1>3. ASSUME (\E P \in Provider : Invite(P) \/ Lapse(P)) \/ TimePasses
      PROVE  WInv'
  BY <1>2, <1>3 DEF Invite, Lapse, TimePasses, TypeOK, RequestDocs
<1>4. CASE UNCHANGED vars BY <1>2, <1>4 DEF vars
<1>5. QED BY ONLY [Next]_vars, <1>1, <1>3, <1>4 DEF Next

\* In its first round a request that was won is taken from its provider by
\* nobody but a new dispatch, or a ring that found nobody.
THEOREM WonIsKept == Spec => WonStays
<1> DEFINE Stays == round = 1 /\ Won =>
              Won' \/ round' # round \/ \E p \in Request : ExpireNoProviders(p)
<1>1. TypeOK /\ WInv /\ [Next]_vars => [Stays]_vars
  <2> SUFFICES ASSUME TypeOK, WInv, Next, round = 1, Won,
                      \A p \in Request : ~ExpireNoProviders(p), round' = round
               PROVE  Won'
    OBVIOUS
  <2>1. ur \in RequestDocs BY DEF TypeOK
  <2>2. ASSUME NEW p \in Request, Accepting(p) PROVE Won'
    BY <2>1, <2>2 DEF Accepting, LoadAccept, LoadReject, LoadNotice, FindTarget, Claim,
       MarkAccepted, MarkLost, Convert, ConvertSave, SaveReject, SaveNotice, Won, RequestDocs
  <2>3. ASSUME NEW p \in Request, Ending(p) PROVE Won'
    <3>1. ~JobSave(p) BY DEF JobSave, WInv, FirstRound
    <3>2. QED
      BY <2>1, <2>3, <3>1 DEF Ending, CancelRequest, CloseTargets, JobFind, RingFindsNobody,
         CountOpen, Won
  <2>4. ASSUME NEW p \in Request, Redispatching(p) PROVE Won'
    <3>1. ~ResetRequest(p)
      <4>1. round \in 1..MaxRounds BY DEF TypeOK
      <4>2. MaxRounds = 1 => req[p].pc # "reset" BY DEF WInv, Again
      <4>3. QED BY <4>1, <4>2, RoundsAssumption DEF ResetRequest
    <3>2. QED
      BY <2>4, <3>1 DEF Redispatching, LoadGiveUp, FindRequest, CancelBooking, LoadNoShow,
         NoShowFind, NoShowClaim, RejectTarget, Won
  <2>5. ASSUME NEW p \in Request, Serving(p) \/ Fail(p) PROVE Won'
    BY <2>5 DEF Serving, LoadVisit, ClaimVisit, LoadChange, SaveStatus, Fail, Won
  <2>6. ASSUME (\E P \in Provider : Invite(P) \/ Lapse(P)) \/ TimePasses
        PROVE  Won'
    BY <2>1, <2>6 DEF Invite, Lapse, TimePasses, Won, RequestDocs
  <2>7. QED BY ONLY Next, <2>2, <2>3, <2>4, <2>5, <2>6 DEF Next
<1>2. IInv => TypeOK BY DEF IInv
<1>3. Spec => []TypeOK BY Invariance, <1>2, PTL
<1>4. Spec => []WInv BY InitWInv, NextWInv, <1>3, PTL DEF Spec
<1>5. QED BY <1>1, <1>3, <1>4, PTL DEF Spec, WonStays
=============================================================================
