----------------------- MODULE BookingLifecycle_proofs -----------------------
(***************************************************************************)
(* For any number of handlers in flight and any providers: the documents   *)
(* of BookingLifecycle keep their types, the request of a booking is       *)
(* answered once, nothing is served that was not accepted and started with *)
(* the customer's code, and the module implements BookingPromise.          *)
(***************************************************************************)
EXTENDS BookingLifecycle, TLAPS

Dones == [answers : 0..2, starts : 0..2, acceptedBy : Provider \cup {Nobody}]

\* What a handler h may rely on after its load, d being the history.
HandlerOK(h, d) ==
  /\ h.pc \in {"acceptClaim", "rejectClaim", "backupSave"} => h.by \in Provider
  /\ h.pc = "waitSave" => h.count < MaxWaits
  /\ h.pc = "wrongCodeSave" => h.count < MaxAttempts
  /\ h.pc \in {"serviceClaim", "serviceSave"} => h.action \in ServiceActions
  /\ h.pc = "answerProposal" => h.ref \in Request
  /\ h.pc \in {"consume", "rescheduleSave", "answerFind", "answerProposal", "answerSave",
               "serviceSave"} => d.acceptedBy # Nobody
  /\ h.pc = "serviceSave" /\ h.action \in {"START_SERVICE", "COMPLETE_SERVICE"} => d.starts > 0

HandlersOK == \A p \in Request : HandlerOK(req[p], done)

IInv == TypeOK /\ AnsweredOnce /\ ServedOnlyWhenAgreed /\ HandlersOK

\* The facts about the booking, of a document b with history d.
BookOK(b, d) ==
  /\ b \in Documents
  /\ d \in Dones
  /\ d.answers <= 1
  /\ b.status = "PENDING_PROVIDER" => d.answers = 0
  /\ b.status \in Served => d.acceptedBy # Nobody
  /\ b.status \in {"IN_PROGRESS", "COMPLETED"} => d.starts > 0

\* The rest of the type invariant.
RestOK ==
  /\ proposal \in [Request -> Proposals]
  /\ usage \in {"NONE", "WANTED", "RESERVED", "CONSUMED", "RELEASED"}
  /\ coins \in {"NONE", "WANTED", "DEBITED"}
  /\ refunded \in BOOLEAN
  /\ creation \in {"reserve", "debit", "done"}
  /\ job \in {"idle", "save"}

ReqOK == req \in [Request -> Handlers] /\ HandlersOK

LEMMA Parts ==
  /\ IInv <=> BookOK(bk, done) /\ RestOK /\ ReqOK
  /\ IInv' <=> BookOK(bk', done') /\ RestOK' /\ ReqOK'
  BY DEF IInv, TypeOK, AnsweredOnce, ServedOnlyWhenAgreed, BookOK, RestOK, ReqOK, Dones

LEMMA IdleType == Idle \in Handlers /\ Idle.pc = "idle" /\ \A d : HandlerOK(Idle, d)
  BY DEF Idle, Handlers, Pc, HandlerOK

\* The history is never forgotten.
Remembers(d, e) ==
  /\ d.acceptedBy # Nobody => e.acceptedBy # Nobody
  /\ d.starts > 0 => e.starts > 0

\* One handler moves on to h, the others stay where they are.
LEMMA OneMoves ==
  ASSUME ReqOK, Remembers(done, done'), NEW p \in Request, NEW h \in Handlers,
         HandlerOK(h, done'), req' = [req EXCEPT ![p] = h]
  PROVE  ReqOK'
  BY DEF ReqOK, HandlersOK, HandlerOK, Remembers

LEMMA OneFinishes ==
  ASSUME ReqOK, Remembers(done, done'), NEW p \in Request, Finish(p)
  PROVE  ReqOK'
  BY IdleType, OneMoves DEF Finish

LEMMA NoneMoves ==
  ASSUME ReqOK, UNCHANGED <<req, done>>
  PROVE  ReqOK'
  BY DEF ReqOK, HandlersOK, HandlerOK

LEMMA AwaitType ==
  ASSUME NEW pc \in Pc, NEW P \in Provider \cup {Nobody},
         NEW a \in ServiceActions \cup {"NONE"}, NEW n \in Nat
  PROVE  [pc |-> pc, by |-> P, action |-> a, seen |-> "NONE",
          count |-> n, flag |-> FALSE, ref |-> Nobody] \in Handlers
  BY DEF Handlers

LEMMA RecallType ==
  ASSUME NEW pc \in Pc, NEW P \in Provider \cup {Nobody}, NEW s \in RequestStatus \cup {"NONE"},
         NEW f \in BOOLEAN, NEW q \in Request \cup {Nobody}
  PROVE  [pc |-> pc, by |-> P, action |-> "NONE", seen |-> s,
          count |-> 0, flag |-> f, ref |-> q] \in Handlers
  BY DEF Handlers

\* A handler that awaits with Await or Recall is typed, and knows what its
\* place asks for.
LEMMA Awaits ==
  ASSUME ReqOK, Remembers(done, done'), NEW p \in Request,
         NEW pc \in Pc, NEW P \in Provider \cup {Nobody},
         NEW a \in ServiceActions \cup {"NONE"}, NEW n \in Nat, Await(p, pc, P, a, n),
         pc \in {"acceptClaim", "rejectClaim", "backupSave"} => P \in Provider,
         pc = "waitSave" => n < MaxWaits,
         pc = "wrongCodeSave" => n < MaxAttempts,
         pc \in {"serviceClaim", "serviceSave"} => a \in ServiceActions,
         pc \notin {"answerFind", "answerProposal", "answerSave"},
         pc \in {"consume", "rescheduleSave", "serviceSave"} => done'.acceptedBy # Nobody,
         pc = "serviceSave" /\ a \in {"START_SERVICE", "COMPLETE_SERVICE"} => done'.starts > 0
  PROVE  ReqOK'
<1> DEFINE h == [pc |-> pc, by |-> P, action |-> a, seen |-> "NONE",
                 count |-> n, flag |-> FALSE, ref |-> Nobody]
<1>1. h \in Handlers BY AwaitType
<1>2. HandlerOK(h, done') BY DEF HandlerOK
<1>3. req' = [req EXCEPT ![p] = h] BY DEF Await
<1>4. QED BY <1>1, <1>2, <1>3, OneMoves

LEMMA Recalls ==
  ASSUME ReqOK, Remembers(done, done'), NEW p \in Request,
         NEW pc \in Pc, NEW P \in Provider \cup {Nobody}, NEW s \in RequestStatus \cup {"NONE"},
         NEW f \in BOOLEAN, NEW q \in Request \cup {Nobody}, Recall(p, pc, P, s, f, q),
         pc \in {"cancelSave", "reassignSave", "answerFind", "answerProposal", "answerSave"},
         pc = "answerProposal" => q \in Request,
         pc \in {"answerFind", "answerProposal", "answerSave"} => done'.acceptedBy # Nobody
  PROVE  ReqOK'
<1> DEFINE h == [pc |-> pc, by |-> P, action |-> "NONE", seen |-> s,
                 count |-> 0, flag |-> f, ref |-> q]
<1>1. h \in Handlers BY RecallType
<1>2. HandlerOK(h, done') BY DEF HandlerOK
<1>3. req' = [req EXCEPT ![p] = h] BY DEF Recall
<1>4. QED BY <1>1, <1>2, <1>3, OneMoves

LEMMA Unmoved ==
  ASSUME BookOK(bk, done), UNCHANGED <<bk, done>>
  PROVE  BookOK(bk', done') /\ Remembers(done, done')
  BY DEF BookOK, Remembers

LEMMA Counting == \A n \in 0..2 : Count(n) \in 0..2 /\ Count(n) > 0 /\ (n = 0 => Count(n) = 1)
  BY DEF Count

LEMMA InitIInv == Init => IInv
<1> SUFFICES ASSUME Init PROVE IInv OBVIOUS
<1>1. BookOK(bk, done)
  BY WaitsAssumption, AttemptsAssumption
     DEF Init, BookOK, Documents, Dones, Status, RequestStatus, Code, Served
<1>2. RestOK BY DEF Init, RestOK, Proposals
<1>3. ReqOK BY IdleType DEF Init, ReqOK, HandlersOK
<1>4. QED BY <1>1, <1>2, <1>3, Parts

-----------------------------------------------------------------------------
(* The steps, by what they touch. *)

\* A request arrives: it reads, and nothing is written.
LEMMA ArriveStep ==
  ASSUME BookOK(bk, done), RestOK, ReqOK, NEW p \in Request, Arrives(p)
  PROVE  BookOK(bk', done') /\ RestOK' /\ ReqOK'
<1>1. UNCHANGED <<bk, done, proposal, usage, coins, refunded, creation, job>>
  BY DEF Arrives, LoadAccept, LoadReject, LoadProviderCancel, LoadWrongCode, LoadReschedule,
     LoadReassign, LoadBackup, LoadService, LoadCancel, LoadAnswer, LoadWait, money
<1>2. BookOK(bk', done') /\ Remembers(done, done') BY <1>1, Unmoved
<1>3. RestOK' BY <1>1 DEF RestOK
<1>4. /\ bk.request \in RequestStatus \cup {"NONE"} /\ bk.expired \in BOOLEAN
      /\ bk.tries \in Nat /\ bk.waits \in Nat
  BY WaitsAssumption, AttemptsAssumption DEF BookOK, Documents
<1>5. ReqOK'
  <2> USE <1>1, <1>2, <1>4, Awaits, Recalls DEF Pc
  <2>1. ASSUME NEW P \in Provider, LoadAccept(p, P) PROVE ReqOK' BY <2>1 DEF LoadAccept
  <2>2. ASSUME NEW P \in Provider, LoadReject(p, P) PROVE ReqOK' BY <2>2 DEF LoadReject
  <2>3. ASSUME NEW P \in Provider, LoadProviderCancel(p, P) PROVE ReqOK'
    BY <2>3 DEF LoadProviderCancel
  <2>4. ASSUME NEW P \in Provider, LoadWrongCode(p, P) PROVE ReqOK'
    <3>1. Await(p, "wrongCodeSave", P, "NONE", bk.tries) /\ bk.tries < MaxAttempts
      BY <2>4 DEF LoadWrongCode, CodeAccepted
    <3>2. QED BY <3>1
  <2>5. ASSUME NEW P \in Provider, LoadReschedule(p, P) PROVE ReqOK'
    <3>1. Await(p, "rescheduleSave", P, "NONE", 0) BY <2>5 DEF LoadReschedule
    <3>2. done.acceptedBy # Nobody
      BY <2>5 DEF LoadReschedule, Can, Sources, BookOK, Served
    <3>3. QED BY <3>1, <3>2
  <2>6. ASSUME NEW P \in Provider, LoadReassign(p, P) PROVE ReqOK'
    <3>1. NewProvider(P) \in Provider \cup {Nobody} BY DEF NewProvider
    <3>2. QED BY <2>6, <3>1 DEF LoadReassign
  <2>7. ASSUME NEW P \in Provider, NEW a \in ServiceActions, LoadService(p, P, a) PROVE ReqOK'
    BY <2>7 DEF LoadService
  <2>8. CASE LoadCancel(p) BY <2>8 DEF LoadCancel
  <2>9. CASE LoadAnswer(p)
    <3>1. PICK agrees \in BOOLEAN : Recall(p, "answerFind", Nobody, "NONE", agrees, Nobody)
      BY <2>9 DEF LoadAnswer
    <3>2. done.acceptedBy # Nobody BY <2>9 DEF LoadAnswer, Can, Sources, BookOK, Served
    <3>3. QED BY <3>1, <3>2
  <2>10. CASE LoadWait(p)
    <3>1. Await(p, "waitSave", Nobody, "NONE", bk.waits) /\ bk.waits < MaxWaits
      BY <2>10 DEF LoadWait
    <3>2. QED BY <3>1
  <2>11. ASSUME NEW P \in Provider, LoadBackup(p, P) PROVE ReqOK' BY <2>11 DEF LoadBackup
  <2>12. QED BY ONLY Arrives(p), <2>1, <2>2, <2>3, <2>4, <2>5, <2>6, <2>7, <2>8, <2>9, <2>10,
                     <2>11
              DEF Arrives
<1>6. QED BY <1>2, <1>3, <1>5

\* A handler that read the booking goes on: claims, saves, and the calls
\* after them.
LEMMA ContinueStep ==
  ASSUME BookOK(bk, done), RestOK, ReqOK, NEW p \in Request, Continues(p)
  PROVE  BookOK(bk', done') /\ RestOK' /\ ReqOK'
<1> DEFINE OK == BookOK(bk', done') /\ RestOK' /\ ReqOK'
<1>h. req[p] \in Handlers /\ HandlerOK(req[p], done) BY DEF ReqOK, HandlersOK
<1>n. Nobody \in Provider \cup {Nobody} /\ "NONE" \in ServiceActions \cup {"NONE"} /\ 0 \in Nat
  OBVIOUS
<1>1. CASE ClaimAccept(p)
  <2>1. req[p].by \in Provider BY <1>1, <1>h DEF ClaimAccept, HandlerOK
  <2>2. RestOK' BY <1>1 DEF ClaimAccept, RestOK, money
  <2>3. CASE Offered(req[p].by) /\ Can("PROVIDER_ACCEPT")
    <3>1. /\ bk' = [bk EXCEPT !.status = "CONFIRMED", !.request = "ACCEPTED"]
          /\ done' = [done EXCEPT !.answers = Count(done.answers), !.acceptedBy = req[p].by]
          /\ Await(p, "consume", req[p].by, "NONE", 0)
      BY <1>1, <2>3 DEF ClaimAccept, Target
    <3>2. bk.status = "PENDING_PROVIDER" BY <2>3 DEF Can, Sources
    <3>3. done.answers = 0 /\ done'.answers = 1
      BY <3>1, <3>2, Counting DEF BookOK, Dones
    <3>4. done'.acceptedBy \in Provider /\ done'.starts = done.starts
      BY <2>1, <3>1 DEF BookOK, Dones
    <3>5. BookOK(bk', done') /\ Remembers(done, done')
      <4>1. bk' \in Documents /\ bk'.status = "CONFIRMED"
        BY <3>1 DEF BookOK, Documents, Status, RequestStatus
      <4>2. done' \in Dones BY <2>1, <3>1, Counting DEF BookOK, Dones
      <4>3. QED BY <3>3, <3>4, <4>1, <4>2, ProviderAssumption DEF BookOK, Remembers
    <3>6. ReqOK' BY <2>1, <3>1, <3>4, <3>5, <1>n, ProviderAssumption, Awaits DEF Pc
    <3>7. QED BY <2>2, <3>5, <3>6
  <2>4. CASE ~(Offered(req[p].by) /\ Can("PROVIDER_ACCEPT"))
    <3>1. Finish(p) /\ UNCHANGED <<bk, done>> BY <1>1, <2>4 DEF ClaimAccept
    <3>2. QED BY <2>2, <3>1, Unmoved, OneFinishes
  <2>5. QED BY <2>3, <2>4
<1>2. CASE ConsumeUsage(p)
  BY <1>2, Unmoved, OneFinishes DEF ConsumeUsage, RestOK
<1>3. CASE ClaimReject(p)
  <2>1. RestOK' BY <1>3 DEF ClaimReject, RestOK, money
  <2>2. CASE Offered(req[p].by) /\ Can("PROVIDER_REJECT")
    <3>1. /\ bk' = [bk EXCEPT !.status = "CANCELLED", !.request = "REJECTED"]
          /\ done' = [done EXCEPT !.answers = Count(done.answers)]
          /\ Await(p, "release", Nobody, "NONE", 0)
      BY <1>3, <2>2 DEF ClaimReject, Target
    <3>2. bk.status = "PENDING_PROVIDER" BY <2>2 DEF Can, Sources
    <3>3. done.answers = 0 /\ done'.answers = 1
      BY <3>1, <3>2, Counting DEF BookOK, Dones
    <3>4. done'.acceptedBy = done.acceptedBy /\ done'.starts = done.starts
      BY <3>1 DEF BookOK, Dones
    <3>5. BookOK(bk', done') /\ Remembers(done, done')
      <4>1. bk' \in Documents /\ bk'.status = "CANCELLED"
        BY <3>1 DEF BookOK, Documents, Status, RequestStatus
      <4>2. done' \in Dones BY <3>1, Counting DEF BookOK, Dones
      <4>3. QED BY <3>3, <3>4, <4>1, <4>2 DEF BookOK, Served, Remembers
    <3>6. ReqOK' BY <3>1, <3>5, <1>n, Awaits DEF Pc
    <3>7. QED BY <2>1, <3>5, <3>6
  <2>3. CASE ~(Offered(req[p].by) /\ Can("PROVIDER_REJECT"))
    <3>1. Finish(p) /\ UNCHANGED <<bk, done>> BY <1>3, <2>3 DEF ClaimReject
    <3>2. QED BY <2>1, <3>1, Unmoved, OneFinishes
  <2>4. QED BY <2>2, <2>3
<1>4. CASE SaveCancel(p)
  <2>1. BookOK(bk', done') /\ Remembers(done, done')
    BY <1>4 DEF SaveCancel, Target, BookOK, Documents, Dones, Status, RequestStatus, Served,
                Remembers
  <2>2. ReqOK' BY <1>4, <2>1, <1>n, Awaits DEF SaveCancel, Pc
  <2>3. QED BY <1>4, <2>1, <2>2 DEF SaveCancel, RestOK, money
<1>5. CASE SaveProviderCancel(p)
  <2>1. BookOK(bk', done') /\ Remembers(done, done')
    BY <1>5 DEF SaveProviderCancel, Target, BookOK, Documents, Dones, Status, Served, Remembers
  <2>2. ReqOK' BY <1>5, <2>1, <1>n, Awaits DEF SaveProviderCancel, Pc
  <2>3. QED BY <1>5, <2>1, <2>2 DEF SaveProviderCancel, RestOK, money
<1>6. CASE ReleaseUsage(p)
  <2>1. BookOK(bk', done') /\ Remembers(done, done') BY <1>6, Unmoved DEF ReleaseUsage
  <2>2. RestOK' BY <1>6 DEF ReleaseUsage, RestOK
  <2>3. Await(p, "refund", Nobody, "NONE", 0) \/ Finish(p) BY <1>6 DEF ReleaseUsage
  <2>4. ReqOK' BY <2>1, <2>3, <1>n, Awaits, OneFinishes DEF Pc
  <2>5. QED BY <2>1, <2>2, <2>4
<1>7. CASE RefundCoins(p)
  BY <1>7, Unmoved, OneFinishes DEF RefundCoins, RestOK
<1>8. CASE SaveWrongCode(p)
  <2>1. req[p].count + 1 \in 0..MaxAttempts
    BY <1>8, <1>h, AttemptsAssumption DEF SaveWrongCode, HandlerOK, Handlers
  <2>2. BookOK(bk', done') /\ Remembers(done, done')
    BY <1>8, <2>1 DEF SaveWrongCode, BookOK, Documents, Dones, Served, Remembers
  <2>3. QED BY <1>8, <2>2, OneFinishes DEF SaveWrongCode, RestOK, money
<1>9. CASE ClaimService(p)
  <2> DEFINE a == req[p].action
  <2>1. a \in ServiceActions /\ req[p].by \in Provider \cup {Nobody} /\ req[p].count \in Nat
    BY <1>9, <1>h DEF ClaimService, HandlerOK, Handlers
  <2>2. RestOK' BY <1>9 DEF ClaimService, RestOK, money
  <2>3. CASE Can(a)
    <3>1. /\ bk' = [bk EXCEPT !.status = Target[a]]
          /\ done' = IF a = "START_SERVICE"
                       THEN [done EXCEPT !.starts = Count(done.starts)] ELSE done
          /\ Await(p, "serviceSave", req[p].by, a, req[p].count)
      BY <1>9, <2>3 DEF ClaimService
    <3>2. /\ bk.status \in Served /\ Target[a] \in Served
          /\ a = "COMPLETE_SERVICE" => bk.status = "IN_PROGRESS"
          /\ a \notin {"START_SERVICE", "COMPLETE_SERVICE"}
               => Target[a] \notin {"IN_PROGRESS", "COMPLETED"}
      BY <2>1, <2>3 DEF Can, Sources, Target, ServiceActions, Served
    <3>3. done.acceptedBy # Nobody /\ (a = "COMPLETE_SERVICE" => done.starts > 0)
      BY <3>2 DEF BookOK
    <3>4. /\ done' \in Dones /\ done'.acceptedBy = done.acceptedBy
          /\ done'.answers = done.answers
          /\ a = "START_SERVICE" => done'.starts > 0
          /\ done.starts > 0 => done'.starts > 0
      <4>1. done \in Dones BY DEF BookOK
      <4>2. Count(done.starts) \in 0..2 /\ Count(done.starts) > 0 BY <4>1, Counting DEF Dones
      <4>3. QED BY <3>1, <4>1, <4>2 DEF Dones
    <3>5. /\ bk' \in Documents /\ bk'.status = Target[a]
      BY <2>1, <3>1 DEF BookOK, Documents, Target, ServiceActions, Status
    <3>6. Target[a] # "PENDING_PROVIDER" BY <2>1 DEF Target, ServiceActions
    <3>7. BookOK(bk', done') /\ Remembers(done, done')
      BY <2>1, <3>2, <3>3, <3>4, <3>5, <3>6 DEF BookOK, Remembers
    <3>8. ReqOK' BY <2>1, <3>1, <3>3, <3>4, <3>7, Awaits DEF Pc
    <3>9. QED BY <2>2, <3>7, <3>8
  <2>4. CASE ~Can(a)
    <3>1. Finish(p) /\ UNCHANGED <<bk, done>> BY <1>9, <2>4 DEF ClaimService
    <3>2. QED BY <2>2, <3>1, Unmoved, OneFinishes
  <2>5. QED BY <2>3, <2>4
<1>10. CASE SaveService(p)
  <2> DEFINE a == req[p].action
             tries == Saved(req[p].count, 0, bk.tries)
  <2>1. /\ a \in ServiceActions /\ done.acceptedBy # Nobody
        /\ a \in {"START_SERVICE", "COMPLETE_SERVICE"} => done.starts > 0
    BY <1>10, <1>h DEF SaveService, HandlerOK
  <2>2. tries \in 0..MaxAttempts
    BY AttemptsAssumption DEF Saved, BookOK, Documents
  <2>3. bk' \in Documents /\ bk'.status = Target[a]
    <3>1. bk \in Documents BY DEF BookOK
    <3>2. Target[a] \in Status BY <2>1 DEF ServiceActions, Target, Status
    <3>3. CASE a = "PROVIDER_EN_ROUTE"
      <4>1. bk' = [bk EXCEPT !.status = Target[a]] BY <1>10, <3>3 DEF SaveService
      <4>2. QED BY <3>1, <3>2, <4>1 DEF Documents
    <3>4. CASE a = "PROVIDER_ARRIVE"
      <4>1. bk' = [bk EXCEPT !.status = Target[a], !.startCode = "LIVE", !.tries = tries]
        BY <1>10, <3>4 DEF SaveService
      <4>2. QED BY <2>2, <3>1, <3>2, <4>1 DEF Documents, Code
    <3>5. CASE a = "START_SERVICE"
      <4>1. bk' = [bk EXCEPT !.status = Target[a], !.startCode = "NONE", !.tries = tries,
                             !.endCode = "LIVE"]
        BY <1>10, <3>5 DEF SaveService
      <4>2. QED BY <2>2, <3>1, <3>2, <4>1 DEF Documents, Code
    <3>6. CASE a = "COMPLETE_SERVICE"
      <4>1. bk' = [bk EXCEPT !.status = Target[a], !.endCode = "NONE"]
        BY <1>10, <3>6 DEF SaveService
      <4>2. QED BY <3>1, <3>2, <4>1 DEF Documents, Code
    <3>7. QED BY <2>1, <3>3, <3>4, <3>5, <3>6 DEF ServiceActions
  <2>4. /\ Target[a] # "PENDING_PROVIDER"
        /\ Target[a] \in {"IN_PROGRESS", "COMPLETED"}
             => a \in {"START_SERVICE", "COMPLETE_SERVICE"}
    BY <2>1 DEF Target, ServiceActions
  <2>5. BookOK(bk', done') /\ Remembers(done, done')
    <3>1. done' = done BY <1>10 DEF SaveService
    <3>2. QED BY <2>1, <2>3, <2>4, <3>1 DEF BookOK, Remembers
  <2>6. QED BY <1>10, <2>5, OneFinishes DEF SaveService, RestOK, money
<1>11. CASE SaveReschedule(p)
  <2>1. done.acceptedBy # Nobody BY <1>11, <1>h DEF SaveReschedule, HandlerOK
  <2>2. BookOK(bk', done') /\ Remembers(done, done')
    <3>1. bk' = [bk EXCEPT !.status = "RESCHEDULE_REQUESTED", !.moves = 1] /\ done' = done
      BY <1>11 DEF SaveReschedule, Target
    <3>2. bk' \in Documents /\ bk'.status = "RESCHEDULE_REQUESTED"
      <4>1. bk \in Documents /\ 1 \in 0..1 BY DEF BookOK
      <4>2. QED BY <3>1, <4>1 DEF Documents, Status
    <3>3. QED BY <2>1, <3>1, <3>2 DEF BookOK, Remembers
  <2>3. ReqOK' BY <1>11, <2>2, <1>n, Awaits DEF SaveReschedule, Pc
  <2>4. QED BY <1>11, <2>2, <2>3 DEF SaveReschedule, RestOK, money
<1>12. CASE CreateProposal(p)
  BY <1>12, Unmoved, OneFinishes DEF CreateProposal, RestOK, Proposals, money
<1>13. CASE FindProposal(p)
  <2>1. BookOK(bk', done') /\ Remembers(done, done') BY <1>13, Unmoved DEF FindProposal
  <2>2. /\ done'.acceptedBy # Nobody /\ req[p].flag \in BOOLEAN
        /\ "NONE" \in RequestStatus \cup {"NONE"}
    BY <1>13, <1>h DEF FindProposal, HandlerOK, Handlers
  <2>3. ASSUME NEW q \in Request, Recall(p, "answerProposal", Nobody, "NONE", req[p].flag, q)
        PROVE  ReqOK'
    BY <2>1, <2>2, <2>3, <1>n, Recalls DEF Pc
  <2>4. ReqOK' BY <1>13, <2>1, <2>3, OneFinishes DEF FindProposal
  <2>5. QED BY <1>13, <2>1, <2>4 DEF FindProposal, RestOK, money
<1>14. CASE SaveProposal(p)
  <2>1. BookOK(bk', done') /\ Remembers(done, done') BY <1>14, Unmoved DEF SaveProposal
  <2>2. /\ done'.acceptedBy # Nobody /\ req[p].flag \in BOOLEAN /\ req[p].ref \in Request
        /\ "NONE" \in RequestStatus \cup {"NONE"}
    BY <1>14, <1>h DEF SaveProposal, HandlerOK, Handlers
  <2>3. ReqOK' BY <1>14, <2>1, <2>2, <1>n, Recalls DEF SaveProposal, Pc
  <2>4. RestOK' BY <1>14, <2>2 DEF SaveProposal, RestOK, Proposals, money
  <2>5. QED BY <2>1, <2>3, <2>4
<1>15. CASE SaveAnswer(p)
  <2>1. done.acceptedBy # Nobody BY <1>15, <1>h DEF SaveAnswer, HandlerOK
  <2>2. BookOK(bk', done') /\ Remembers(done, done')
    BY <1>15, <2>1 DEF SaveAnswer, Target, BookOK, Documents, Status, Remembers
  <2>3. QED BY <1>15, <2>2, OneFinishes DEF SaveAnswer, RestOK, money
<1>16. CASE SaveWait(p)
  <2>1. req[p].count + 1 \in 0..MaxWaits
    BY <1>16, <1>h, WaitsAssumption DEF SaveWait, HandlerOK, Handlers
  <2>2. BookOK(bk', done') /\ Remembers(done, done')
    BY <1>16, <2>1 DEF SaveWait, BookOK, Documents, Served, Remembers
  <2>3. QED BY <1>16, <2>2, OneFinishes DEF SaveWait, RestOK, money
<1>17. CASE SaveReassign(p)
  <2>1. Written(p) \in Provider
    BY <1>h DEF Written, Handlers, BookOK, Documents
  <2>2. BookOK(bk', done') /\ Remembers(done, done')
    BY <1>17, <2>1
       DEF SaveReassign, Saved, BookOK, Documents, RequestStatus, Served, Remembers
  <2>3. QED BY <1>17, <2>2, OneFinishes DEF SaveReassign, RestOK, money
<1>18. CASE SaveBackup(p)
  <2>1. req[p].by \in Provider BY <1>18, <1>h DEF SaveBackup, HandlerOK
  <2>2. BookOK(bk', done') /\ Remembers(done, done')
    BY <1>18, <2>1 DEF SaveBackup, BookOK, Documents, Served, Remembers
  <2>3. QED BY <1>18, <2>2, OneFinishes DEF SaveBackup, RestOK, money
<1>19. QED
  BY <1>1, <1>2, <1>3, <1>4, <1>5, <1>6, <1>7, <1>8, <1>9, <1>10, <1>11, <1>12, <1>13, <1>14,
     <1>15, <1>16, <1>17, <1>18 DEF Continues

\* The creation, the job, the clock and the sweep.
LEMMA OtherStep ==
  ASSUME BookOK(bk, done), RestOK, ReqOK,
         Creation \/ Clock \/ Job \/ JobFails \/ SweepUsage
  PROVE  BookOK(bk', done') /\ RestOK' /\ ReqOK'
<1>1. UNCHANGED <<req, done>>
  BY DEF Creation, Clock, Job, ReserveUsage, DebitCoins, CreationFails, WindowPasses,
         StartCodeExpires, EndCodeExpires, JobFind, JobSave, JobFails, SweepUsage
<1>2. BookOK(bk', done')
  <2>1. bk' \in Documents /\ bk'.status = bk.status
    BY DEF Creation, Clock, Job, ReserveUsage, DebitCoins, CreationFails, WindowPasses,
           StartCodeExpires, EndCodeExpires, JobFind, JobSave, JobFails, SweepUsage,
           BookOK, Documents, Code
  <2>2. QED BY <1>1, <2>1 DEF BookOK
<1>3. RestOK'
  BY DEF Creation, Clock, Job, ReserveUsage, DebitCoins, CreationFails, WindowPasses,
         StartCodeExpires, EndCodeExpires, JobFind, JobSave, JobFails, SweepUsage, RestOK, money
<1>4. QED BY <1>1, <1>2, <1>3, NoneMoves

LEMMA NextIInv == IInv /\ [Next]_vars => IInv'
<1> SUFFICES ASSUME BookOK(bk, done), RestOK, ReqOK, [Next]_vars
             PROVE  BookOK(bk', done') /\ RestOK' /\ ReqOK'
  BY Parts
<1>1. ASSUME NEW p \in Request, Fail(p) PROVE BookOK(bk', done') /\ RestOK' /\ ReqOK'
  BY <1>1, Unmoved, OneFinishes DEF Fail, RestOK, money
<1>2. CASE UNCHANGED vars BY <1>2, Unmoved, NoneMoves DEF vars, RestOK
<1>3. QED BY <1>1, <1>2, ArriveStep, ContinueStep, OtherStep DEF Next

LEMMA Invariance == Spec => []IInv
  BY InitIInv, NextIInv, PTL DEF Spec

\* The entitlement is consumed by a handler whose claim succeeded.
LEMMA SpentStep ==
  ASSUME IInv, SpentOnlyWhenAccepted, [Next]_vars
  PROVE  SpentOnlyWhenAccepted'
<1>1. BookOK(bk, done) /\ RestOK /\ ReqOK BY Parts
<1>2. Remembers(done, done')
  <2>1. CASE UNCHANGED done BY <2>1 DEF Remembers
  <2>2. ASSUME NEW p \in Request, ClaimAccept(p), ~UNCHANGED done PROVE Remembers(done, done')
    <3>1. req[p].by \in Provider
      BY <1>1, <2>2 DEF ClaimAccept, ReqOK, HandlersOK, HandlerOK
    <3>2. done' = [done EXCEPT !.answers = Count(done.answers), !.acceptedBy = req[p].by]
      BY <2>2 DEF ClaimAccept
    <3>3. done'.acceptedBy = req[p].by /\ done'.starts = done.starts
      BY <1>1, <3>2 DEF BookOK, Dones
    <3>4. QED BY <3>1, <3>3, ProviderAssumption DEF Remembers
  <2>3. ASSUME NEW p \in Request, ClaimReject(p), ~UNCHANGED done PROVE Remembers(done, done')
    <3>1. done' = [done EXCEPT !.answers = Count(done.answers)] BY <2>3 DEF ClaimReject
    <3>2. done'.acceptedBy = done.acceptedBy /\ done'.starts = done.starts
      BY <1>1, <3>1 DEF BookOK, Dones
    <3>3. QED BY <3>2 DEF Remembers
  <2>4. ASSUME NEW p \in Request, ClaimService(p), ~UNCHANGED done PROVE Remembers(done, done')
    <3>1. done' = [done EXCEPT !.starts = Count(done.starts)]
      BY <2>4 DEF ClaimService
    <3>2. done'.acceptedBy = done.acceptedBy /\ done'.starts > 0
      BY <1>1, <3>1, Counting DEF BookOK, Dones
    <3>3. QED BY <3>2 DEF Remembers
  <2>5. ASSUME NEW p \in Request, Arrives(p) \/ Fail(p) PROVE UNCHANGED done
    BY <2>5
       DEF Arrives, Fail, LoadAccept, LoadReject, LoadProviderCancel, LoadWrongCode,
           LoadReschedule, LoadReassign, LoadBackup, LoadService, LoadCancel, LoadAnswer,
           LoadWait
  <2>6. ASSUME NEW p \in Request, Continues(p), ~UNCHANGED done
        PROVE  ClaimAccept(p) \/ ClaimReject(p) \/ ClaimService(p)
    BY <2>6
       DEF Continues, ConsumeUsage, SaveCancel, SaveProviderCancel, ReleaseUsage, RefundCoins,
           SaveWrongCode, SaveService, SaveReschedule, CreateProposal, FindProposal,
           SaveProposal, SaveAnswer, SaveWait, SaveReassign, SaveBackup
  <2>7. ASSUME Creation \/ Clock \/ Job \/ JobFails \/ SweepUsage PROVE UNCHANGED done
    BY <2>7
       DEF Creation, Clock, Job, JobFails, SweepUsage, ReserveUsage, DebitCoins,
           CreationFails, WindowPasses, StartCodeExpires, EndCodeExpires, JobFind, JobSave
  <2>8. CASE UNCHANGED vars BY <2>1, <2>8 DEF vars
  <2>9. QED BY <2>1, <2>2, <2>3, <2>4, <2>5, <2>6, <2>7, <2>8 DEF Next
<1>3. CASE usage' = "CONSUMED" /\ usage # "CONSUMED"
  <2>1. PICK p \in Request : ConsumeUsage(p)
    <3>1. ~UNCHANGED usage BY <1>3
    <3>2. ASSUME NEW p \in Request, Arrives(p) \/ Fail(p) PROVE FALSE
      BY <3>1, <3>2
         DEF Arrives, Fail, LoadAccept, LoadReject, LoadProviderCancel, LoadWrongCode,
             LoadReschedule, LoadReassign, LoadBackup, LoadService, LoadCancel, LoadAnswer,
             LoadWait, money
    <3>3. ASSUME NEW p \in Request, Continues(p) PROVE ConsumeUsage(p)
      BY <1>3, <3>3
         DEF Continues, ClaimAccept, ClaimReject, SaveCancel, SaveProviderCancel, ReleaseUsage,
             RefundCoins, SaveWrongCode, ClaimService, SaveService, SaveReschedule,
             CreateProposal, FindProposal, SaveProposal, SaveAnswer, SaveWait, SaveReassign,
             SaveBackup, money
    <3>4. ~(Creation \/ Clock \/ Job \/ JobFails \/ SweepUsage)
      BY <1>3
         DEF Creation, Clock, Job, JobFails, SweepUsage, ReserveUsage, DebitCoins,
             CreationFails, WindowPasses, StartCodeExpires, EndCodeExpires, JobFind, JobSave,
             money
    <3>5. ~UNCHANGED vars BY <3>1 DEF vars
    <3>6. QED BY <3>2, <3>3, <3>4, <3>5 DEF Next
  <2>2. done.acceptedBy # Nobody
    BY <1>1, <2>1 DEF ConsumeUsage, ReqOK, HandlersOK, HandlerOK
  <2>3. QED BY <1>2, <2>2 DEF SpentOnlyWhenAccepted, Remembers
<1>4. CASE ~(usage' = "CONSUMED" /\ usage # "CONSUMED")
  BY <1>2, <1>4 DEF SpentOnlyWhenAccepted, Remembers
<1>5. QED BY <1>3, <1>4

\* No write of the code sets PENDING_PROVIDER.
LEMMA PendingStep ==
  ASSUME IInv, [Next]_vars, bk.status # "PENDING_PROVIDER"
  PROVE  bk'.status # "PENDING_PROVIDER"
<1>1. IInv' BY NextIInv
<1>2. /\ bk \in Documents
      /\ \A p \in Request : req[p].pc = "serviceSave" => req[p].action \in ServiceActions
  BY DEF IInv, TypeOK, HandlersOK, HandlerOK
<1>3. ASSUME NEW p \in Request, Continues(p) PROVE bk'.status # "PENDING_PROVIDER"
  <2>1. CASE SaveService(p)
    <3>1. req[p].action \in ServiceActions BY <1>2, <2>1 DEF SaveService
    <3>2. bk'.status = Target[req[p].action]
      BY <1>2, <2>1, <3>1 DEF SaveService, ServiceActions, Documents
    <3>3. QED BY <3>1, <3>2 DEF ServiceActions, Target
  <2>2. CASE ClaimService(p)
    <3>1. req[p].action \in ServiceActions
      BY <2>2 DEF ClaimService, IInv, HandlersOK, HandlerOK
    <3>2. bk' = [bk EXCEPT !.status = Target[req[p].action]] \/ UNCHANGED bk
      BY <2>2 DEF ClaimService
    <3>3. QED BY <1>2, <3>1, <3>2 DEF Documents, ServiceActions, Target
  <2>3. CASE ClaimAccept(p) \/ ClaimReject(p)
    BY <2>3 DEF ClaimAccept, ClaimReject, Can, Sources
  <2>4. CASE SaveCancel(p) \/ SaveProviderCancel(p) \/ SaveReschedule(p) \/ SaveAnswer(p)
    BY <1>2, <2>4 DEF SaveCancel, SaveProviderCancel, SaveReschedule, SaveAnswer, Target,
                      Documents
  <2>5. CASE SaveWrongCode(p) \/ SaveWait(p) \/ SaveReassign(p) \/ SaveBackup(p)
    BY <1>2, <2>5 DEF SaveWrongCode, SaveWait, SaveReassign, SaveBackup, Documents
  <2>6. QED
    BY <1>3, <2>1, <2>2, <2>3, <2>4, <2>5
       DEF Continues, ConsumeUsage, ReleaseUsage, RefundCoins, CreateProposal, FindProposal,
           SaveProposal
<1>4. CASE Creation \/ Clock \/ Job \/ JobFails \/ SweepUsage
  BY <1>2, <1>4
     DEF Creation, Clock, Job, ReserveUsage, DebitCoins, CreationFails, WindowPasses,
         StartCodeExpires, EndCodeExpires, JobFind, JobSave, JobFails, SweepUsage, Documents
<1>5. ASSUME NEW p \in Request, Arrives(p) \/ Fail(p) PROVE bk'.status # "PENDING_PROVIDER"
  BY <1>5
     DEF Arrives, Fail, LoadAccept, LoadReject, LoadProviderCancel, LoadWrongCode,
         LoadReschedule, LoadReassign, LoadBackup, LoadService, LoadCancel, LoadAnswer, LoadWait
<1>6. CASE UNCHANGED vars BY <1>6 DEF vars
<1>7. QED BY <1>3, <1>4, <1>5, <1>6 DEF Next

\* Every document of a booking keeps its schema: the extensions of the
\* response window and the wrong start codes stay within their limits,
\* however many handlers save at the same time.
THEOREM TypeCorrect == Spec => []TypeOK
  BY Invariance, PTL DEF IInv

\* Accepts, rejections, reassignments and cancellations that run together
\* let one answer through.
THEOREM OneAnswer == Spec => []AnsweredOnce
  BY Invariance, PTL DEF IInv

\* No stale save serves a booking nobody accepted, or starts one without the
\* customer's code.
THEOREM ServedAsAgreed == Spec => []ServedOnlyWhenAgreed
  BY Invariance, PTL DEF IInv

\* Only a booking that was accepted spends the customer's entitlement.
THEOREM SpentAsAgreed == Spec => []SpentOnlyWhenAccepted
<1>1. Init => SpentOnlyWhenAccepted BY DEF Init, SpentOnlyWhenAccepted
<1>2. IInv /\ SpentOnlyWhenAccepted /\ [Next]_vars => SpentOnlyWhenAccepted' BY SpentStep
<1>3. QED BY <1>1, <1>2, Invariance, PTL DEF Spec

\* An answered or cancelled booking is never offered again.
THEOREM NoReturn == Spec => NeverPendingAgain
<1>1. IInv /\ [Next]_vars
        => [bk.status # "PENDING_PROVIDER" => bk'.status # "PENDING_PROVIDER"]_vars
  BY PendingStep
<1>2. QED BY <1>1, Invariance, PTL DEF Spec, NeverPendingAgain

-----------------------------------------------------------------------------
(* The refinement                                                           *)

\* A handler that is at pc next leaves what it has decided by then.
LEMMA AwaitLeaves ==
  ASSUME IInv, NEW p \in Request, NEW pc, NEW P, NEW a, NEW n, Await(p, pc, P, a, n)
  PROVE  Promise!Leaves(p, Late(pc, a))
  BY DEF Await, IInv, TypeOK, Lates, Promise!Leaves

LEMMA RecallLeaves ==
  ASSUME IInv, NEW p \in Request, NEW pc, NEW P, NEW s, NEW f, NEW q,
         Recall(p, pc, P, s, f, q)
  PROVE  Promise!Leaves(p, Late(pc, "NONE"))
  BY DEF Recall, IInv, TypeOK, Lates, Promise!Leaves

LEMMA FinishLeaves ==
  ASSUME IInv, NEW p \in Request, Finish(p)
  PROVE  Promise!Leaves(p, "NONE")
<1>1. Late(Idle.pc, Idle.action) = "NONE" BY DEF Late, Idle
<1>2. QED BY <1>1 DEF Finish, IInv, TypeOK, Lates, Promise!Leaves

\* Nothing the parties see changes.
Unseen == bk'.status = bk.status /\ bk'.provider = bk.provider
            /\ UNCHANGED <<done, refunded>>

LEMMA FinishLapses ==
  ASSUME IInv, Unseen, NEW p \in Request, Finish(p)
  PROVE  Promise!Next
<1>1. Promise!Lapse(p) BY FinishLeaves DEF Unseen, Promise!Lapse
<1>2. QED BY <1>1 DEF Promise!Next

\* A handler that moves on with nothing decided, or with what it had decided.
LEMMA Waits ==
  ASSUME IInv, Unseen, NEW p \in Request, NEW l, l \in {"NONE", Lates[p]}, Promise!Leaves(p, l)
  PROVE  [Promise!Next]_(Promise!vars)
<1>1. CASE l = "NONE"
  <2>1. Promise!Lapse(p) BY <1>1 DEF Unseen, Promise!Lapse
  <2>2. QED BY <2>1 DEF Promise!Next
<1>2. CASE l = Lates[p]
  <2>1. Lates' = Lates BY <1>2 DEF Promise!Leaves, Lates
  <2>2. QED BY <2>1 DEF Unseen, Promise!vars
<1>3. QED BY <1>1, <1>2

LEMMA NoneWaits ==
  ASSUME Unseen, UNCHANGED req
  PROVE  UNCHANGED Promise!vars
  BY DEF Unseen, Promise!vars, Lates

\* A request that arrives decides, or will claim.
LEMMA ArriveKeeps ==
  ASSUME IInv, NEW p \in Request, Arrives(p)
  PROVE  [Promise!Next]_(Promise!vars)
<1>1. Unseen
  BY DEF Arrives, LoadAccept, LoadReject, LoadProviderCancel, LoadWrongCode, LoadReschedule,
     LoadReassign, LoadBackup, LoadService, LoadCancel, LoadAnswer, LoadWait, money, Unseen
<1>2. req[p].pc = "idle"
  BY DEF Arrives, LoadAccept, LoadReject, LoadProviderCancel, LoadWrongCode, LoadReschedule,
     LoadReassign, LoadBackup, LoadService, LoadCancel, LoadAnswer, LoadWait, Begins
<1>3. Lates[p] = "NONE" BY <1>2 DEF Lates, Late
<1>4. ASSUME NEW pc, NEW P, NEW a, NEW n, Await(p, pc, P, a, n),
             pc \in {"acceptClaim", "rejectClaim", "wrongCodeSave", "serviceClaim", "waitSave"}
      PROVE  [Promise!Next]_(Promise!vars)
  <2>1. Late(pc, a) = "NONE" BY <1>4 DEF Late
  <2>2. Promise!Leaves(p, "NONE") BY <1>4, <2>1, AwaitLeaves
  <2>3. QED BY <1>1, <2>2, Waits
<1>5. ASSUME NEW d, NEW S, bk.status \in S, Promise!Leaves(p, d)
      PROVE  Promise!Decides(p, d, S)
  BY <1>1, <1>3, <1>5 DEF Unseen, Promise!Decides
<1>6. Promise!Decision(p) => Promise!Next BY DEF Promise!Next
<1>7. ASSUME NEW P \in Provider, LoadProviderCancel(p, P) PROVE Promise!Next
  <2>1. Promise!Leaves(p, "PROVIDER_CANCEL")
    BY <1>7, AwaitLeaves DEF LoadProviderCancel, Late
  <2>2. Promise!Decides(p, "PROVIDER_CANCEL", {"CONFIRMED"})
    BY <1>5, <1>7, <2>1 DEF LoadProviderCancel, Can, Sources
  <2>3. QED BY <1>6, <2>2 DEF Promise!Decision
<1>8. ASSUME NEW P \in Provider, LoadReschedule(p, P) PROVE Promise!Next
  <2>1. Promise!Leaves(p, "PROPOSE_TIME") BY <1>8, AwaitLeaves DEF LoadReschedule, Late
  <2>2. Promise!Decides(p, "PROPOSE_TIME", {"CONFIRMED"})
    BY <1>5, <1>8, <2>1 DEF LoadReschedule, Can, Sources
  <2>3. QED BY <1>6, <2>2 DEF Promise!Decision
<1>9. ASSUME NEW P \in Provider, LoadReassign(p, P) PROVE Promise!Next
  <2>1. Promise!Leaves(p, "ASK_ANOTHER") BY <1>9, RecallLeaves DEF LoadReassign, Late
  <2>2. Promise!Decides(p, "ASK_ANOTHER", {"PENDING_PROVIDER"})
    BY <1>5, <1>9, <2>1 DEF LoadReassign
  <2>3. QED BY <1>6, <2>2 DEF Promise!Decision
<1>10. ASSUME NEW P \in Provider, LoadBackup(p, P) PROVE Promise!Next
  <2>1. Promise!Leaves(p, "TAKE_OVER") BY <1>10, AwaitLeaves DEF LoadBackup, Late
  <2>2. Promise!Decides(p, "TAKE_OVER", {bk.status}) BY <1>5, <2>1
  <2>3. QED BY <1>6, <1>10, <2>2 DEF Promise!Decision, LoadBackup
<1>11. CASE LoadCancel(p)
  <2>1. Promise!Leaves(p, "CUSTOMER_CANCEL") BY <1>11, RecallLeaves DEF LoadCancel, Late
  <2>2. Promise!Decides(p, "CUSTOMER_CANCEL", Sources["CUSTOMER_CANCEL"])
    BY <1>5, <1>11, <2>1 DEF LoadCancel, Can
  <2>3. QED BY <1>6, <2>2 DEF Promise!Decision, Sources
<1>12. CASE LoadAnswer(p)
  <2>1. PICK agrees \in BOOLEAN : Recall(p, "answerFind", Nobody, "NONE", agrees, Nobody)
    BY <1>12 DEF LoadAnswer
  <2>2. Promise!Leaves(p, "ANSWER_TIME") BY <2>1, RecallLeaves DEF Late
  <2>3. Promise!Decides(p, "ANSWER_TIME", {"RESCHEDULE_REQUESTED"})
    BY <1>5, <1>12, <2>2 DEF LoadAnswer, Can, Sources
  <2>4. QED BY <1>6, <2>3 DEF Promise!Decision
<1>13. CASE LoadWait(p) BY <1>4, <1>13 DEF LoadWait
<1>14. ASSUME NEW P \in Provider, LoadAccept(p, P) \/ LoadReject(p, P) \/ LoadWrongCode(p, P)
       PROVE  [Promise!Next]_(Promise!vars)
  BY <1>4, <1>14 DEF LoadAccept, LoadReject, LoadWrongCode
<1>15. ASSUME NEW P \in Provider, NEW a \in ServiceActions, LoadService(p, P, a)
       PROVE  [Promise!Next]_(Promise!vars)
  BY <1>4, <1>15 DEF LoadService
<1>16. QED BY ONLY Arrives(p), <1>7, <1>8, <1>9, <1>10, <1>11, <1>12, <1>13, <1>14, <1>15
           DEF Arrives

\* A handler that goes on claims, or lands what it decided.
LEMMA ContinueKeeps ==
  ASSUME IInv, NEW p \in Request, Continues(p)
  PROVE  [Promise!Next]_(Promise!vars)
<1>0. /\ bk \in Documents /\ done \in Dones /\ req[p] \in Handlers /\ HandlerOK(req[p], done)
      /\ Lates[p] = Late(req[p].pc, req[p].action)
  BY DEF IInv, TypeOK, Dones, HandlersOK, Lates
<1>1. CASE ClaimAccept(p)
  <2>1. CASE Offered(req[p].by) /\ Can("PROVIDER_ACCEPT")
    <3>1. /\ bk' = [bk EXCEPT !.status = "CONFIRMED", !.request = "ACCEPTED"]
          /\ done' = [done EXCEPT !.answers = Count(done.answers), !.acceptedBy = req[p].by]
          /\ Await(p, "consume", req[p].by, "NONE", 0) /\ UNCHANGED refunded
          /\ req[p].pc = "acceptClaim"
      BY <1>1, <2>1 DEF ClaimAccept, Target, money
    <3>2. /\ bk'.status = "CONFIRMED" /\ bk'.provider = bk.provider
          /\ done'.acceptedBy = bk.provider /\ bk.status = "PENDING_PROVIDER"
      BY <1>0, <2>1, <3>1 DEF Documents, Dones, Offered, Can, Sources
    <3>3. Lates[p] = "NONE" /\ Promise!Leaves(p, "NONE")
      BY <1>0, <3>1, AwaitLeaves DEF Late
    <3>4. Promise!Accept(p) BY <3>1, <3>2, <3>3 DEF Promise!Accept, Promise!Claims
    <3>5. QED BY <3>4 DEF Promise!Next
  <2>2. CASE ~(Offered(req[p].by) /\ Can("PROVIDER_ACCEPT"))
    BY <1>1, <2>2, FinishLapses DEF ClaimAccept, money, Unseen
  <2>3. QED BY <2>1, <2>2
<1>2. CASE ClaimReject(p)
  <2>1. CASE Offered(req[p].by) /\ Can("PROVIDER_REJECT")
    <3>1. /\ bk' = [bk EXCEPT !.status = "CANCELLED", !.request = "REJECTED"]
          /\ done' = [done EXCEPT !.answers = Count(done.answers)]
          /\ Await(p, "release", Nobody, "NONE", 0) /\ UNCHANGED refunded
          /\ req[p].pc = "rejectClaim"
      BY <1>2, <2>1 DEF ClaimReject, Target, money
    <3>2. /\ bk'.status = "CANCELLED" /\ bk'.provider = bk.provider
          /\ done'.acceptedBy = done.acceptedBy /\ bk.status = "PENDING_PROVIDER"
      BY <1>0, <2>1, <3>1 DEF Documents, Dones, Can, Sources
    <3>3. Lates[p] = "NONE" /\ Promise!Leaves(p, "NONE")
      BY <1>0, <3>1, AwaitLeaves DEF Late
    <3>4. Promise!Decline(p) BY <3>1, <3>2, <3>3 DEF Promise!Decline, Promise!Claims
    <3>5. QED BY <3>4 DEF Promise!Next
  <2>2. CASE ~(Offered(req[p].by) /\ Can("PROVIDER_REJECT"))
    BY <1>2, <2>2, FinishLapses DEF ClaimReject, money, Unseen
  <2>3. QED BY <2>1, <2>2
<1>3. CASE SaveCancel(p)
  <2>1. /\ bk'.status = "CANCELLED" /\ bk'.provider = bk.provider /\ UNCHANGED <<done, refunded>>
        /\ Await(p, "releaseRefund", Nobody, "NONE", 0) /\ req[p].pc = "cancelSave"
    BY <1>0, <1>3 DEF SaveCancel, Target, Documents, money
  <2>2. Lates[p] = "CUSTOMER_CANCEL" /\ Promise!Leaves(p, "REFUND")
    BY <1>0, <2>1, AwaitLeaves DEF Late
  <2>3. Promise!Lands(p, "CUSTOMER_CANCEL", "CANCELLED", "REFUND")
    BY <2>1, <2>2 DEF Promise!Lands
  <2>4. QED BY <2>3 DEF Promise!Landing, Promise!Next
<1>4. CASE SaveProviderCancel(p)
  <2>1. /\ bk'.status = "CANCELLED" /\ bk'.provider = bk.provider /\ UNCHANGED <<done, refunded>>
        /\ Await(p, "release", Nobody, "NONE", 0) /\ req[p].pc = "providerCancelSave"
    BY <1>0, <1>4 DEF SaveProviderCancel, Target, Documents, money
  <2>2. Lates[p] = "PROVIDER_CANCEL" /\ Promise!Leaves(p, "NONE")
    BY <1>0, <2>1, AwaitLeaves DEF Late
  <2>3. Promise!Lands(p, "PROVIDER_CANCEL", "CANCELLED", "NONE")
    BY <2>1, <2>2 DEF Promise!Lands
  <2>4. QED BY <2>3 DEF Promise!Landing, Promise!Next
<1>5. CASE ReleaseUsage(p)
  <2>1. Unseen BY <1>5 DEF ReleaseUsage, Unseen
  <2>2. CASE req[p].pc = "releaseRefund" /\ Await(p, "refund", Nobody, "NONE", 0)
    <3>1. Lates[p] = "REFUND" /\ Promise!Leaves(p, "REFUND")
      BY <1>0, <2>2, AwaitLeaves DEF Late
    <3>2. QED BY <2>1, <3>1, Waits
  <2>3. QED BY <1>5, <2>1, <2>2, FinishLapses DEF ReleaseUsage
<1>6. CASE RefundCoins(p)
  <2>1. /\ UNCHANGED <<bk, done>> /\ refunded' = TRUE /\ Finish(p) /\ req[p].pc = "refund"
    BY <1>6 DEF RefundCoins
  <2>2. Lates[p] = "REFUND" BY <1>0, <2>1 DEF Late
  <2>3. Promise!GiveBack(p) BY <2>1, <2>2, FinishLeaves DEF Promise!GiveBack
  <2>4. QED BY <2>3 DEF Promise!Next
<1>7. CASE ClaimService(p)
  <2> DEFINE a == req[p].action
  <2>1. a \in ServiceActions /\ req[p].pc = "serviceClaim"
    BY <1>0, <1>7 DEF ClaimService, HandlerOK
  <2>2. CASE Can(a)
    <3>1. /\ bk' = [bk EXCEPT !.status = Target[a]]
          /\ done' = IF a = "START_SERVICE"
                       THEN [done EXCEPT !.starts = Count(done.starts)] ELSE done
          /\ Await(p, "serviceSave", req[p].by, a, req[p].count) /\ UNCHANGED refunded
      BY <1>7, <2>2 DEF ClaimService, money
    <3>2. /\ bk'.status = Target[a] /\ bk'.provider = bk.provider
          /\ done'.acceptedBy = done.acceptedBy
      BY <1>0, <3>1 DEF Documents, Dones
    <3>3. Lates[p] = "NONE" /\ Promise!Leaves(p, Target[a])
      <4>1. Lates[p] = "NONE" BY <1>0, <2>1 DEF Late
      <4>2. Late("serviceSave", a) = Target[a] BY DEF Late
      <4>3. QED BY <3>1, <4>1, <4>2, AwaitLeaves
    <3>4. Promise!Visit(p)
      BY <2>1, <2>2, <3>1, <3>2, <3>3
         DEF ServiceActions, Can, Sources, Target, Promise!Visit, Promise!Claims
    <3>5. QED BY <3>4 DEF Promise!Next
  <2>3. CASE ~Can(a) BY <1>7, <2>3, FinishLapses DEF ClaimService, money, Unseen
  <2>4. QED BY <2>2, <2>3
<1>8. CASE SaveService(p)
  <2> DEFINE a == req[p].action
  <2>1. a \in ServiceActions /\ req[p].pc = "serviceSave"
    BY <1>0, <1>8 DEF SaveService, HandlerOK
  <2>2. bk'.status = Target[a] /\ bk'.provider = bk.provider
    BY <1>0, <1>8, <2>1 DEF SaveService, ServiceActions, Documents
  <2>3. Finish(p) /\ UNCHANGED <<done, refunded>> BY <1>8 DEF SaveService, money
  <2>4. Lates[p] = Target[a] BY <1>0, <2>1 DEF Late
  <2>5. Promise!Lands(p, Target[a], Target[a], "NONE")
    BY <2>2, <2>3, <2>4, FinishLeaves DEF Promise!Lands
  <2>6. Target[a] \in {"PROVIDER_EN_ROUTE", "PROVIDER_ARRIVED", "IN_PROGRESS", "COMPLETED"}
    BY <2>1 DEF ServiceActions, Target
  <2>7. QED BY <2>5, <2>6 DEF Promise!Landing, Promise!Next
<1>9. CASE SaveReschedule(p)
  <2>1. /\ bk'.status = "RESCHEDULE_REQUESTED" /\ bk'.provider = bk.provider
        /\ Await(p, "rescheduleCreate", Nobody, "NONE", 0) /\ UNCHANGED <<done, refunded>>
        /\ req[p].pc = "rescheduleSave"
    BY <1>0, <1>9 DEF SaveReschedule, Target, Documents, money
  <2>2. Lates[p] = "PROPOSE_TIME" /\ Promise!Leaves(p, "NONE")
    BY <1>0, <2>1, AwaitLeaves DEF Late
  <2>3. Promise!Lands(p, "PROPOSE_TIME", "RESCHEDULE_REQUESTED", "NONE")
    BY <2>1, <2>2 DEF Promise!Lands
  <2>4. QED BY <2>3 DEF Promise!Landing, Promise!Next
<1>10. CASE SaveAnswer(p)
  <2>1. /\ bk'.status = "CONFIRMED" /\ bk'.provider = bk.provider
        /\ Finish(p) /\ UNCHANGED <<done, refunded>> /\ req[p].pc = "answerSave"
    BY <1>0, <1>10 DEF SaveAnswer, Target, Documents, money
  <2>2. Lates[p] = "ANSWER_TIME" BY <1>0, <2>1 DEF Late
  <2>3. Promise!Lands(p, "ANSWER_TIME", "CONFIRMED", "NONE")
    BY <2>1, <2>2, FinishLeaves DEF Promise!Lands
  <2>4. QED BY <2>3 DEF Promise!Landing, Promise!Next
<1>11. CASE SaveReassign(p) \/ SaveBackup(p)
  <2>1. bk'.status = bk.status /\ bk'.provider \in Provider /\ Finish(p)
        /\ UNCHANGED <<done, refunded>> /\ req[p].pc \in {"reassignSave", "backupSave"}
    BY <1>0, <1>11
       DEF SaveReassign, SaveBackup, Written, Documents, Handlers, HandlerOK, money
  <2>2. Lates[p] \in {"ASK_ANOTHER", "TAKE_OVER"} BY <1>0, <2>1 DEF Late
  <2>3. Promise!ChangeProvider(p) BY <2>1, <2>2, FinishLeaves DEF Promise!ChangeProvider
  <2>4. QED BY <2>3 DEF Promise!Next
<1>12. CASE FindProposal(p)
  <2>1. Unseen BY <1>12 DEF FindProposal, Unseen, money
  <2>2. Lates[p] = "ANSWER_TIME" BY <1>0, <1>12 DEF FindProposal, Late
  <2>3. ASSUME NEW q \in Request, Recall(p, "answerProposal", Nobody, "NONE", req[p].flag, q)
        PROVE  [Promise!Next]_(Promise!vars)
    <3>1. Promise!Leaves(p, "ANSWER_TIME") BY <2>3, RecallLeaves DEF Late
    <3>2. QED BY <2>1, <2>2, <3>1, Waits
  <2>4. QED BY <1>12, <2>1, <2>3, FinishLapses DEF FindProposal
<1>13. CASE SaveProposal(p)
  <2>1. Unseen BY <1>13 DEF SaveProposal, Unseen, money
  <2>2. Lates[p] = "ANSWER_TIME" BY <1>0, <1>13 DEF SaveProposal, Late
  <2>3. Promise!Leaves(p, "ANSWER_TIME") BY <1>13, RecallLeaves DEF SaveProposal, Late
  <2>4. QED BY <2>1, <2>2, <2>3, Waits
<1>14. CASE SaveWrongCode(p) \/ SaveWait(p) \/ CreateProposal(p) \/ ConsumeUsage(p)
  <2>1. Unseen /\ Finish(p)
    BY <1>0, <1>14
       DEF SaveWrongCode, SaveWait, CreateProposal, ConsumeUsage, Documents, money, Unseen
  <2>2. QED BY <2>1, FinishLapses
<1>15. QED
  BY <1>1, <1>2, <1>3, <1>4, <1>5, <1>6, <1>7, <1>8, <1>9, <1>10, <1>11, <1>12, <1>13, <1>14
     DEF Continues

LEMMA InitKeeps == Init => Promise!Init
<1> SUFFICES ASSUME Init PROVE Promise!Init OBVIOUS
<1>1. Lates = [p \in Request |-> "NONE"] BY DEF Init, Lates, Late, Idle
<1>2. QED BY <1>1 DEF Init, Promise!Init

LEMMA NextKeeps == IInv /\ [Next]_vars => [Promise!Next]_(Promise!vars)
<1> SUFFICES ASSUME IInv, [Next]_vars PROVE [Promise!Next]_(Promise!vars) OBVIOUS
<1>1. ASSUME NEW p \in Request, Fail(p) PROVE Promise!Next
  BY <1>1, FinishLapses DEF Fail, Unseen, money
<1>2. CASE Creation \/ Clock \/ Job \/ JobFails \/ SweepUsage
  <2>1. Unseen /\ UNCHANGED req
    BY <1>2
       DEF IInv, TypeOK, Creation, Clock, Job, ReserveUsage, DebitCoins, CreationFails,
           WindowPasses, StartCodeExpires, EndCodeExpires, JobFind, JobSave, JobFails,
           SweepUsage, Documents, money, Unseen
  <2>2. QED BY <2>1, NoneWaits
<1>3. CASE UNCHANGED vars
  <2>1. Unseen /\ UNCHANGED req BY <1>3 DEF vars, money, Unseen
  <2>2. QED BY <2>1, NoneWaits
<1>4. QED BY <1>1, <1>2, <1>3, ArriveKeeps, ContinueKeeps DEF Next

\* With any number of handlers in flight the code implements what a booking
\* promises: claims act on the status of the moment, every other change was
\* decided where the transition table allows it and lands once.
THEOREM Implements == Spec => KeepsPromise
  BY InitKeeps, NextKeeps, Invariance, PTL DEF Spec, KeepsPromise, Promise!Spec
=============================================================================
