-------------------- MODULE CarePlanSubscription_proofs --------------------
(***************************************************************************)
(* Type correctness of CarePlanSubscription, that entitlements are created *)
(* once for a payment, and that entitlements follow the subscription, for  *)
(* any number of handlers in flight together, subscriptions and periods.   *)
(***************************************************************************)
EXTENDS CarePlanSubscription, FiniteSetTheorems, TLAPS

\* What a handler goes on with after its first read.
Known ==
  \A p \in Proc :
    /\ proc[p].pc \notin {"idle", "create"} => proc[p].id \in Sub
    /\ proc[p].pc = "savePause" => proc[p].n < 2
    /\ proc[p].pc \in {"invoice", "renew", "saveAdjust"} => proc[p].n \in Period

\* The handlers that took a payment for s and may still create entitlements.
Granting(s) ==
  {p \in Proc : /\ proc[p].pc \in {"loadActivate", "saveActivate", "generate", "createEnt"}
                /\ proc[p].id = s}

\* What is granted and what may still be is covered by payments.
Backed == \A s \in Sub : history.granted[s] + Cardinality(Granting(s)) <= history.paid[s]

IInv == TypeOK /\ Known /\ Backed

LEMMA IdleType == Idle \in Procs /\ Idle.pc = "idle" /\ Idle.id = NoSub
  BY DEF Idle, Procs, Pc, Status

LEMMA Typed ==
  ASSUME TypeOK
  PROVE  /\ sub \in [Sub -> Subs] /\ proc \in [Proc -> Procs] /\ history \in Histories
         /\ \A s \in Sub : /\ sub[s] \in Subs /\ sub[s].status \in Status
                            /\ sub[s].period \in 0..MaxPeriods /\ sub[s].pauses \in 0..2
                            /\ ent[s] \in [Period -> EntStatus]
                            /\ history.paid[s] \in Nat /\ history.granted[s] \in Nat
         /\ \A p \in Proc : /\ proc[p] \in Procs /\ proc[p].pc \in Pc
                             /\ proc[p].id \in Sub \cup {NoSub}
                             /\ proc[p].status \in Status /\ proc[p].n \in Nat
  BY DEF TypeOK, Subs, Procs, Histories

\* The fields that the handlers set.
LEMMA SubTyped ==
  ASSUME NEW u \in Subs
  PROVE  /\ \A k \in 0..MaxPeriods :
              /\ [u EXCEPT !.period = k, !.due = FALSE] \in Subs
              /\ [u EXCEPT !.status = "ACTIVE", !.period = k, !.due = FALSE] \in Subs
         /\ \A n \in 0..2 : [u EXCEPT !.status = "PAUSED", !.pauses = n] \in Subs
  BY DEF Subs, Status

LEMMA InitIInv == Init => IInv
<1> SUFFICES ASSUME Init PROVE IInv
  OBVIOUS
<1>1. None \in Subs BY PeriodsAssumption DEF None, Subs, Status
<1>2. history \in Histories BY DEF Init, Histories
<1>3. captured \in [Sub -> BOOLEAN] /\ production \in BOOLEAN BY DEF Init
<1>4. TypeOK BY <1>1, <1>2, <1>3, IdleType DEF Init, TypeOK, EntStatus
<1>5. Known BY IdleType DEF Init, Known
<1>6. \A s \in Sub : Granting(s) = {} BY IdleType DEF Init, Granting
<1>7. Backed
  <2>1. \A s \in Sub : history.granted[s] = 0 /\ history.paid[s] = 0 BY DEF Init
  <2>2. Cardinality({}) = 0 BY FS_EmptySet
  <2>3. QED BY <1>6, <2>1, <2>2 DEF Backed
<1>8. QED BY <1>4, <1>5, <1>7 DEF IInv

\* The ways a handler moves.
LEMMA Moves ==
  ASSUME TypeOK, NEW p \in Proc, NEW w \in Procs, proc' = [proc EXCEPT ![p] = w]
  PROVE  /\ proc' \in [Proc -> Procs] /\ proc'[p] = w
         /\ \A q \in Proc \ {p} : proc'[q] = proc[q]
  BY DEF TypeOK

LEMMA GotoMoves ==
  ASSUME TypeOK, NEW p \in Proc, NEW pc \in Pc, Goto(p, pc)
  PROVE  /\ proc' \in [Proc -> Procs] /\ \A q \in Proc \ {p} : proc'[q] = proc[q]
         /\ proc'[p].pc = pc /\ proc'[p].id = proc[p].id
         /\ proc'[p].status = proc[p].status /\ proc'[p].n = proc[p].n
<1> DEFINE w == [proc[p] EXCEPT !.pc = pc]
<1>1. w \in Procs /\ w.pc = pc /\ w.id = proc[p].id /\ w.status = proc[p].status
      /\ w.n = proc[p].n
  BY DEF Procs, TypeOK
<1>2. proc' = [proc EXCEPT ![p] = w] BY DEF Goto
<1>3. QED BY <1>1, <1>2, Moves

LEMMA FinishMoves ==
  ASSUME TypeOK, NEW p \in Proc, Finish(p)
  PROVE  /\ proc' \in [Proc -> Procs] /\ \A q \in Proc \ {p} : proc'[q] = proc[q]
         /\ proc'[p].pc = "idle" /\ proc'[p].id = NoSub
  BY IdleType, Moves DEF Finish

LEMMA BeginsMoves ==
  ASSUME TypeOK, NEW p \in Proc, NEW pc \in Pc, NEW s \in Sub \cup {NoSub},
         NEW status \in Status, NEW n \in Nat, Begins(p, pc, s, status, n)
  PROVE  /\ proc' \in [Proc -> Procs] /\ \A q \in Proc \ {p} : proc'[q] = proc[q]
         /\ proc'[p].pc = pc /\ proc'[p].id = s
         /\ proc'[p].status = status /\ proc'[p].n = n
         /\ proc[p].pc = "idle"
         /\ UNCHANGED <<production, sub, attempt, captured, invoiced, ent, history>>
<1> DEFINE w == [pc |-> pc, id |-> s, status |-> status, n |-> n]
<1>1. w \in Procs BY DEF Procs
<1>2. proc' = [proc EXCEPT ![p] = w] /\ proc[p].pc = "idle" BY DEF Begins
<1>3. UNCHANGED <<production, sub, attempt, captured, invoiced, ent, history>>
  BY DEF Begins, docs
<1>4. QED BY <1>1, <1>2, <1>3, Moves

\* What a save of the status leaves in the history.
LEMMA SavesNotes ==
  ASSUME TypeOK, NEW s \in Sub, Saves(s, TRUE) \/ Saves(s, FALSE)
  PROVE  /\ history' \in Histories
         /\ history'.paid = history.paid /\ history'.granted = history.granted
         /\ history'.restored = history.restored /\ history'.cut = history.cut
         /\ history.crossed \subseteq history'.crossed
         /\ s \in history'.crossed \/ Following(s) = {}
<1> DEFINE c == history'.crossed
<1>1. history \in Histories BY DEF TypeOK
<1>2. PICK d \in {history.crossed, history.crossed \cup {s}} :
        /\ history' = [history EXCEPT !.crossed = d]
        /\ s \in d \/ Following(s) = {}
  BY DEF Saves
<1>3. QED BY <1>1, <1>2 DEF Histories

\* The entitlements an administrator brought back.
LEMMA RestoredNotes ==
  ASSUME TypeOK, NEW d \in SUBSET (Sub \X Period), history' = [history EXCEPT !.restored = d]
  PROVE  /\ history' \in Histories
         /\ history'.paid = history.paid /\ history'.granted = history.granted
         /\ history'.restored = d /\ history'.cut = history.cut
         /\ history'.crossed = history.crossed
  BY DEF TypeOK, Histories

-----------------------------------------------------------------------------
(* The payments that are granted.                                             *)

LEMMA GrantingFinite ==
  ASSUME NEW s
  PROVE  IsFiniteSet(Granting(s)) /\ Cardinality(Granting(s)) \in Nat
<1>1. Granting(s) \in SUBSET Proc BY DEF Granting
<1>2. QED BY <1>1, FS_Subset, FS_CardinalityType, ProcAssumption

\* Nobody joins those that create entitlements.
LEMMA NobodyJoins ==
  ASSUME TypeOK, Backed, NEW p \in Proc,
         \A q \in Proc \ {p} : proc'[q] = proc[q],
         \/ proc'[p].pc \notin {"loadActivate", "saveActivate", "generate", "createEnt"}
         \/ /\ proc[p].pc \in {"loadActivate", "saveActivate", "generate", "createEnt"}
            /\ proc'[p].id = proc[p].id,
         history'.paid = history.paid, history'.granted = history.granted
  PROVE  Backed'
<1> SUFFICES ASSUME NEW s \in Sub
             PROVE  history'.granted[s] + Cardinality(Granting(s)') <= history'.paid[s]
  BY DEF Backed
<1>1. Granting(s)' \in SUBSET Granting(s) BY DEF Granting
<1>2. Cardinality(Granting(s)') <= Cardinality(Granting(s)) /\ Cardinality(Granting(s)') \in Nat
  BY <1>1, GrantingFinite, FS_Subset, FS_CardinalityType
<1>3. QED BY <1>2, GrantingFinite, Typed DEF Backed

\* A payment is taken and its handler joins them.
LEMMA OneJoins ==
  ASSUME TypeOK, Backed, NEW p \in Proc, NEW t \in Sub,
         \A q \in Proc \ {p} : proc'[q] = proc[q],
         proc'[p].id = t, Paid(t)
  PROVE  Backed'
<1> SUFFICES ASSUME NEW s \in Sub
             PROVE  history'.granted[s] + Cardinality(Granting(s)') <= history'.paid[s]
  BY DEF Backed
<1>1. history'.granted = history.granted
      /\ history'.paid[s] = IF s = t THEN history.paid[s] + 1 ELSE history.paid[s]
  BY Typed DEF Paid, Histories
<1>2. CASE s = t
  <2>1. Granting(s)' \in SUBSET (Granting(s) \cup {p}) BY DEF Granting
  <2>2. IsFiniteSet(Granting(s) \cup {p}) BY GrantingFinite, FS_AddElement
  <2>3. Cardinality(Granting(s) \cup {p}) =
          IF p \in Granting(s) THEN Cardinality(Granting(s)) ELSE Cardinality(Granting(s)) + 1
    BY GrantingFinite, FS_AddElement
  <2>4. Cardinality(Granting(s) \cup {p}) <= Cardinality(Granting(s)) + 1
    BY <2>3, GrantingFinite
  <2>5. /\ Cardinality(Granting(s)') <= Cardinality(Granting(s) \cup {p})
        /\ Cardinality(Granting(s)') \in Nat /\ Cardinality(Granting(s) \cup {p}) \in Nat
    BY <2>1, <2>2, FS_Subset, FS_CardinalityType
  <2>6. history.granted[s] + Cardinality(Granting(s)) <= history.paid[s] BY DEF Backed
  <2>7. QED BY <1>1, <1>2, <2>4, <2>5, <2>6, GrantingFinite, Typed
<1>3. CASE s # t
  <2>1. Granting(s)' \in SUBSET Granting(s) BY <1>3 DEF Granting
  <2>2. Cardinality(Granting(s)') <= Cardinality(Granting(s)) /\ Cardinality(Granting(s)') \in Nat
    BY <2>1, GrantingFinite, FS_Subset, FS_CardinalityType
  <2>3. history.granted[s] + Cardinality(Granting(s)) <= history.paid[s] BY DEF Backed
  <2>4. QED BY <1>1, <1>3, <2>2, <2>3, GrantingFinite, Typed
<1>4. QED BY <1>2, <1>3

\* A handler creates the entitlements and is done.
LEMMA OneGrants ==
  ASSUME TypeOK, Known, Backed, NEW p \in Proc, CreateEnt(p)
  PROVE  Backed'
<1> DEFINE t == proc[p].id
<1> SUFFICES ASSUME NEW s \in Sub
             PROVE  history'.granted[s] + Cardinality(Granting(s)') <= history'.paid[s]
  BY DEF Backed
<1>1. t \in Sub /\ proc[p].pc = "createEnt" BY DEF CreateEnt, Known
<1>2. history' = [history EXCEPT !.granted[t] = history.granted[t] + 1] BY DEF CreateEnt
<1>3. history'.paid = history.paid
      /\ history'.granted[s] = IF s = t THEN history.granted[s] + 1 ELSE history.granted[s]
  BY <1>2, Typed DEF Histories
<1>4. proc'[p].pc = "idle" /\ \A q \in Proc \ {p} : proc'[q] = proc[q]
  BY FinishMoves DEF CreateEnt
<1>5. history.granted[s] + Cardinality(Granting(s)) <= history.paid[s] BY DEF Backed
<1>6. CASE s = t
  <2>1. Granting(s)' \in SUBSET (Granting(s) \ {p}) BY <1>4 DEF Granting
  <2>2. p \in Granting(s) BY <1>1, <1>6 DEF Granting
  <2>3. IsFiniteSet(Granting(s) \ {p})
        /\ Cardinality(Granting(s) \ {p}) = Cardinality(Granting(s)) - 1
    BY <2>2, GrantingFinite, FS_RemoveElement
  <2>4. /\ Cardinality(Granting(s)') <= Cardinality(Granting(s) \ {p})
        /\ Cardinality(Granting(s)') \in Nat
    BY <2>1, <2>3, FS_Subset, FS_CardinalityType
  <2>5. QED BY <1>3, <1>5, <1>6, <2>3, <2>4, GrantingFinite, Typed
<1>7. CASE s # t
  <2>1. Granting(s)' \in SUBSET Granting(s) BY <1>4 DEF Granting
  <2>2. Cardinality(Granting(s)') <= Cardinality(Granting(s)) /\ Cardinality(Granting(s)') \in Nat
    BY <2>1, GrantingFinite, FS_Subset, FS_CardinalityType
  <2>3. QED BY <1>3, <1>5, <1>7, <2>2, GrantingFinite, Typed
<1>8. QED BY <1>6, <1>7

\* A step of one handler, from what it does to the documents and to itself.
LEMMA OwnStep ==
  ASSUME IInv, NEW p \in Proc,
         proc' \in [Proc -> Procs], \A q \in Proc \ {p} : proc'[q] = proc[q],
         UNCHANGED <<production, captured>>,
         sub' \in [Sub -> Subs], attempt' \in [Sub -> {"NONE", "PENDING", "SUCCEEDED"}],
         invoiced' \in [Sub -> SUBSET Period], ent' \in [Sub -> [Period -> EntStatus]],
         history' \in Histories, Backed',
         proc'[p].pc \notin {"idle", "create"} => proc'[p].id \in Sub,
         proc'[p].pc = "savePause" => proc'[p].n < 2,
         proc'[p].pc \in {"invoice", "renew", "saveAdjust"} => proc'[p].n \in Period
  PROVE  IInv'
<1>1. TypeOK' BY DEF IInv, TypeOK
<1>2. Known' BY DEF IInv, Known
<1>3. QED BY <1>1, <1>2 DEF IInv

\* A handler begins with what it loaded.
LEMMA BeginsStep ==
  ASSUME IInv, NEW p \in Proc, NEW pc \in Pc, NEW s \in Sub \cup {NoSub},
         NEW status \in Status, NEW n \in Nat, Begins(p, pc, s, status, n),
         pc \notin {"loadActivate", "saveActivate", "generate", "createEnt"},
         pc \notin {"idle", "create"} => s \in Sub,
         pc = "savePause" => n < 2, pc \in {"invoice", "renew", "saveAdjust"} => n \in Period
  PROVE  IInv'
<1>1. /\ TypeOK /\ Backed
      /\ sub \in [Sub -> Subs] /\ attempt \in [Sub -> {"NONE", "PENDING", "SUCCEEDED"}]
      /\ invoiced \in [Sub -> SUBSET Period] /\ ent \in [Sub -> [Period -> EntStatus]]
  BY DEF IInv, TypeOK
<1>2. /\ proc' \in [Proc -> Procs] /\ \A q \in Proc \ {p} : proc'[q] = proc[q]
      /\ proc'[p].pc = pc /\ proc'[p].id = s /\ proc'[p].n = n
      /\ UNCHANGED <<production, sub, attempt, captured, invoiced, ent, history>>
  BY <1>1, BeginsMoves
<1>3. Backed' /\ history' \in Histories BY <1>1, <1>2, NobodyJoins DEF TypeOK
<1>4. QED BY <1>1, <1>2, <1>3, OwnStep

LEMMA BeginStep == ASSUME IInv, NEW p \in Proc, Begin(p) PROVE IInv'
<1> USE Typed DEF IInv
<1>1. CASE BeginCreate(p) BY <1>1, BeginsStep DEF BeginCreate, Pc, Status
<1>2. ASSUME NEW s \in Sub, BeginConfirm(p, s) PROVE IInv'
  BY <1>2, BeginsStep DEF BeginConfirm, Pc, Status
<1>3. ASSUME NEW s \in Sub, BeginCancel(p, s) PROVE IInv'
  BY <1>3, BeginsStep DEF BeginCancel, Pc
<1>4. ASSUME NEW s \in Sub, BeginPause(p, s) PROVE IInv'
  <2>1. sub[s].pauses \in Nat /\ sub[s].pauses < 2 BY <1>4 DEF BeginPause
  <2>2. QED BY <1>4, <2>1, BeginsStep DEF BeginPause, Pc, Status
<1>5. ASSUME NEW s \in Sub, BeginResume(p, s) PROVE IInv'
  BY <1>5, BeginsStep DEF BeginResume, Pc, Status
<1>6. ASSUME NEW s \in Sub, BeginRenew(p, s) PROVE IInv'
  <2>1. sub[s].period + 1 \in Period /\ sub[s].period + 1 \in Nat
    BY <1>6, PeriodsAssumption DEF BeginRenew, Period
  <2>2. QED BY <1>6, <2>1, BeginsStep DEF BeginRenew, Pc, Status
<1>7. ASSUME NEW s \in Sub, BeginAdjust(p, s) PROVE IInv'
  <2>1. PICK k \in Period : Begins(p, "saveAdjust", s, "NONE", k) BY <1>7 DEF BeginAdjust
  <2>2. k \in Nat BY PeriodsAssumption DEF Period
  <2>3. QED BY <2>1, <2>2, BeginsStep DEF Pc, Status
<1>8. QED BY <1>1, <1>2, <1>3, <1>4, <1>5, <1>6, <1>7 DEF Begin

LEMMA ContinueStep == ASSUME IInv, NEW p \in Proc, Continue(p) PROVE IInv'
<1> USE Typed DEF docs
<1>1. TypeOK /\ Known /\ Backed /\ MaxPeriods \in Nat BY PeriodsAssumption DEF IInv
<1>2. /\ sub \in [Sub -> Subs] /\ attempt \in [Sub -> {"NONE", "PENDING", "SUCCEEDED"}]
      /\ invoiced \in [Sub -> SUBSET Period] /\ ent \in [Sub -> [Period -> EntStatus]]
      /\ history \in Histories
  BY <1>1 DEF TypeOK
<1> DEFINE id == proc[p].id
<1>3. proc[p].pc \notin {"idle", "create"} => id \in Sub BY <1>1 DEF Known
<1>4. \A t \in Sub : Paid(t) => history' \in Histories
  <2> SUFFICES ASSUME NEW t \in Sub, Paid(t) PROVE history' \in Histories
    OBVIOUS
  <2>1. history' = [history EXCEPT !.paid = [history.paid EXCEPT ![t] = history.paid[t] + 1]]
    BY <1>1, <1>2 DEF Paid, Histories
  <2>2. [history.paid EXCEPT ![t] = history.paid[t] + 1] \in [Sub -> Nat]
    BY <1>1, <1>2 DEF Histories
  <2>3. QED BY <1>2, <2>1, <2>2 DEF Histories
<1>5. ASSUME NEW s \in Sub, Create(p, s) PROVE IInv'
  <2> DEFINE w == [proc[p] EXCEPT !.pc = "order", !.id = s]
  <2>1. w \in Procs /\ w.pc = "order" /\ w.id = s BY <1>1 DEF Procs, Pc
  <2>2. proc' = [proc EXCEPT ![p] = w] BY <1>5 DEF Create
  <2>3. proc' \in [Proc -> Procs] /\ proc'[p].pc = "order" /\ proc'[p].id = s
        /\ \A q \in Proc \ {p} : proc'[q] = proc[q]
    BY <1>1, <2>1, <2>2, Moves
  <2>4. sub' \in [Sub -> Subs] BY <1>1, <1>5 DEF Create, Subs, Status
  <2>5. Backed' BY <1>1, <1>5, <2>3, NobodyJoins DEF Create
  <2>6. QED BY <1>2, <1>5, <2>3, <2>4, <2>5, OwnStep DEF Create
<1>6. CASE Order(p)
  <2>1. Finish(p) \/ Goto(p, "claim") BY <1>6 DEF Order
  <2>2. proc' \in [Proc -> Procs] /\ (\A q \in Proc \ {p} : proc'[q] = proc[q])
        /\ (proc'[p].pc = "idle" \/ (proc'[p].pc = "claim" /\ proc'[p].id = id))
    BY <1>1, <2>1, FinishMoves, GotoMoves DEF Pc
  <2>3. attempt' \in [Sub -> {"NONE", "PENDING", "SUCCEEDED"}] BY <1>2, <1>6 DEF Order
  <2>4. Backed' BY <1>1, <1>6, <2>2, NobodyJoins DEF Order
  <2>5. QED BY <1>2, <1>3, <1>6, <2>2, <2>3, <2>4, OwnStep DEF Order
<1>7. CASE Claim(p)
  <2>1. id \in Sub BY <1>3, <1>7 DEF Claim
  <2>2. attempt' \in [Sub -> {"NONE", "PENDING", "SUCCEEDED"}] BY <1>2, <1>7 DEF Claim
  <2>3. CASE Paid(id) /\ Goto(p, "loadActivate")
    <3>1. proc' \in [Proc -> Procs] /\ (\A q \in Proc \ {p} : proc'[q] = proc[q])
          /\ proc'[p].pc = "loadActivate" /\ proc'[p].id = id
      BY <1>1, <2>3, GotoMoves DEF Pc
    <3>2. Backed' BY <1>1, <2>1, <2>3, <3>1, OneJoins
    <3>3. history' \in Histories BY <1>4, <2>1, <2>3
    <3>4. QED BY <1>2, <1>7, <2>1, <2>2, <3>1, <3>2, <3>3, OwnStep DEF Claim
  <2>4. CASE Finish(p) /\ UNCHANGED history
    <3>1. Backed' BY <1>1, <2>4, FinishMoves, NobodyJoins
    <3>2. QED BY <1>1, <1>2, <1>7, <2>2, <2>4, <3>1, FinishMoves, OwnStep DEF Claim
  <2>5. QED BY <1>7, <2>3, <2>4 DEF Claim
<1>8. CASE LoadActivate(p)
  <2>1. Finish(p) \/ Goto(p, "saveActivate") BY <1>8 DEF LoadActivate
  <2>2. proc' \in [Proc -> Procs] /\ (\A q \in Proc \ {p} : proc'[q] = proc[q])
        /\ (proc'[p].pc = "idle" \/ (proc'[p].pc = "saveActivate" /\ proc'[p].id = id))
    BY <1>1, <2>1, FinishMoves, GotoMoves DEF Pc
  <2>3. Backed' BY <1>1, <1>8, <2>2, NobodyJoins DEF LoadActivate
  <2>4. QED BY <1>2, <1>3, <1>8, <2>2, <2>3, OwnStep DEF LoadActivate
<1>9. CASE SaveActivate(p)
  <2>1. proc' \in [Proc -> Procs] /\ (\A q \in Proc \ {p} : proc'[q] = proc[q])
        /\ proc'[p].pc = "generate" /\ proc'[p].id = id
    BY <1>1, <1>9, GotoMoves DEF SaveActivate, Pc
  <2>2. id \in Sub BY <1>3, <1>9 DEF SaveActivate
  <2>3. sub[id].period + 1 \in 0..MaxPeriods BY <1>1, <1>9, <2>2 DEF SaveActivate
  <2>4. sub' \in [Sub -> Subs]
    <3> DEFINE u == [sub[id] EXCEPT !.status = "ACTIVE", !.period = sub[id].period + 1,
                                    !.due = FALSE]
    <3>1. sub[id] \in Subs BY <1>2, <2>2
    <3>2. PICK k \in 0..MaxPeriods : k = sub[id].period + 1 BY <2>3
    <3>3. [sub[id] EXCEPT !.status = "ACTIVE", !.period = k, !.due = FALSE] \in Subs
      BY <3>1, SubTyped
    <3>4. u \in Subs BY <3>2, <3>3
    <3>5. sub' = [sub EXCEPT ![id] = u] BY <1>9 DEF SaveActivate
    <3>6. QED BY <1>2, <3>4, <3>5
  <2>5. Saves(id, TRUE) \/ Saves(id, FALSE) BY <1>9 DEF SaveActivate, Saves
  <2>6. /\ history' \in Histories
        /\ history'.paid = history.paid /\ history'.granted = history.granted
    BY <1>1, <2>2, <2>5, SavesNotes
  <2>7. Backed' BY <1>1, <1>9, <2>1, <2>6, NobodyJoins DEF SaveActivate
  <2>8. QED BY <1>2, <1>9, <2>1, <2>2, <2>4, <2>6, <2>7, OwnStep DEF SaveActivate
<1>10. CASE FindEnt(p)
  <2> DEFINE k == sub[id].period
             w == [proc[p] EXCEPT !.pc = "createEnt", !.n = k]
  <2>1. id \in Sub BY <1>3, <1>10 DEF FindEnt
  <2>2. w \in Procs /\ w.pc = "createEnt" /\ w.id = id
    <3>1. k \in Nat BY <1>1, <2>1
    <3>2. QED BY <1>1, <3>1 DEF Procs, Pc
  <2>3. proc' = [proc EXCEPT ![p] = w] \/ Finish(p) BY <1>10 DEF FindEnt
  <2>4. proc' \in [Proc -> Procs] /\ (\A q \in Proc \ {p} : proc'[q] = proc[q])
        /\ (proc'[p].pc = "idle" \/ (proc'[p].pc = "createEnt" /\ proc'[p].id = id))
    BY <1>1, <2>2, <2>3, FinishMoves, Moves
  <2>5. Backed' BY <1>1, <1>10, <2>4, NobodyJoins DEF FindEnt
  <2>6. QED BY <1>2, <1>10, <2>1, <2>4, <2>5, OwnStep DEF FindEnt
<1>11. CASE CreateEnt(p)
  <2>1. Backed' BY <1>1, <1>11, OneGrants
  <2>2. id \in Sub BY <1>3, <1>11 DEF CreateEnt
  <2>3. ent' \in [Sub -> [Period -> EntStatus]] BY <1>2, <1>11, <2>2 DEF CreateEnt, EntStatus
  <2>4. history' \in Histories
    <3>1. history' = [history EXCEPT !.granted =
             [history.granted EXCEPT ![id] = history.granted[id] + 1]]
      BY <1>2, <1>11 DEF CreateEnt, Histories
    <3>2. [history.granted EXCEPT ![id] = history.granted[id] + 1] \in [Sub -> Nat]
      BY <1>2, <2>2 DEF Histories
    <3>3. QED BY <1>2, <3>1, <3>2 DEF Histories
  <2>5. QED BY <1>1, <1>2, <1>11, <2>1, <2>3, <2>4, FinishMoves, OwnStep DEF CreateEnt
<1>12. CASE SaveCancel(p) \/ SavePause(p)
  <2>1. Goto(p, "suspend") /\ id \in Sub BY <1>3, <1>12 DEF SaveCancel, SavePause
  <2>2. proc' \in [Proc -> Procs] /\ (\A q \in Proc \ {p} : proc'[q] = proc[q])
        /\ proc'[p].pc = "suspend" /\ proc'[p].id = id
    BY <1>1, <2>1, GotoMoves DEF Pc
  <2>3. sub' \in [Sub -> Subs]
    <3>1. CASE SaveCancel(p) BY <1>1, <2>1, <3>1 DEF SaveCancel, Subs, Status
    <3>2. CASE SavePause(p)
      <4>1. proc[p].n + 1 \in 0..2
        <5>1. proc[p].n < 2 BY <1>1, <3>2 DEF SavePause, Known
        <5>2. proc[p].n \in Nat BY <1>1
        <5>3. QED BY <5>1, <5>2
      <4> DEFINE u == [sub[id] EXCEPT !.status = "PAUSED", !.pauses = proc[p].n + 1]
      <4>2. u \in Subs
        <5>1. sub[id] \in Subs BY <1>1, <2>1
        <5>2. QED BY <4>1, <5>1, SubTyped
      <4>3. sub' = [sub EXCEPT ![id] = u] BY <3>2 DEF SavePause
      <4>4. QED BY <1>2, <4>2, <4>3
    <3>3. QED BY <1>12, <3>1, <3>2
  <2>4. /\ UNCHANGED <<production, attempt, captured, invoiced, ent>>
        /\ Saves(id, TRUE) \/ Saves(id, FALSE)
    BY <1>12 DEF SaveCancel, SavePause, Saves
  <2>5. /\ history' \in Histories
        /\ history'.paid = history.paid /\ history'.granted = history.granted
    BY <1>1, <2>1, <2>4, SavesNotes
  <2>6. Backed' BY <1>1, <2>2, <2>5, NobodyJoins
  <2>7. QED BY <1>2, <2>1, <2>2, <2>3, <2>4, <2>5, <2>6, OwnStep
<1>13. CASE SaveResume(p)
  <2>1. proc' \in [Proc -> Procs] /\ (\A q \in Proc \ {p} : proc'[q] = proc[q])
        /\ proc'[p].pc = "reactivate" /\ proc'[p].id = id
    BY <1>1, <1>13, GotoMoves DEF SaveResume, Pc
  <2>2. id \in Sub BY <1>3, <1>13 DEF SaveResume
  <2>3. sub' \in [Sub -> Subs] BY <1>1, <1>13, <2>2 DEF SaveResume, Subs, Status
  <2>4. /\ history' \in Histories
        /\ history'.paid = history.paid /\ history'.granted = history.granted
    BY <1>1, <1>13, <2>2, SavesNotes DEF SaveResume
  <2>5. Backed' BY <1>1, <2>1, <2>4, NobodyJoins
  <2>6. QED BY <1>2, <1>13, <2>1, <2>2, <2>3, <2>4, <2>5, OwnStep DEF SaveResume
<1>14. CASE SuspendEntitlements(p) \/ ReactivateEntitlements(p)
  <2>1. PICK from, to \in {"ACTIVE", "SUSPENDED"} : Turn(p, from, to)
    BY <1>14 DEF SuspendEntitlements, ReactivateEntitlements
  <2>2. id \in Sub BY <1>3, <1>14 DEF SuspendEntitlements, ReactivateEntitlements
  <2>3. [k \in Period |-> IF ent[id][k] = from THEN to ELSE ent[id][k]]
          \in [Period -> EntStatus]
    BY <1>1, <2>1, <2>2 DEF EntStatus
  <2>4. ent' \in [Sub -> [Period -> EntStatus]] BY <1>2, <2>1, <2>3 DEF Turn
  <2>5. /\ history' \in Histories
        /\ history'.paid = history.paid /\ history'.granted = history.granted
    <3> DEFINE d == {x \in history.restored : x[1] # id}
    <3>1. d \in SUBSET (Sub \X Period) BY <1>2 DEF Histories
    <3>2. history' = [history EXCEPT !.restored = d] BY <2>1 DEF Turn
    <3>3. QED BY <1>1, <3>1, <3>2, RestoredNotes
  <2>6. Backed' BY <1>1, <2>1, <2>5, FinishMoves, NobodyJoins DEF Turn
  <2>7. QED BY <1>1, <1>2, <2>1, <2>4, <2>5, <2>6, FinishMoves, OwnStep DEF Turn
<1>15. CASE Invoice(p)
  <2>1. id \in Sub /\ proc[p].n \in Period BY <1>1, <1>3, <1>15 DEF Invoice, Known
  <2>2. invoiced' \in [Sub -> SUBSET Period] BY <1>2, <1>15, <2>1 DEF Invoice
  <2>3. Finish(p) \/ Goto(p, "renew") BY <1>15 DEF Invoice
  <2>4. proc' \in [Proc -> Procs] /\ (\A q \in Proc \ {p} : proc'[q] = proc[q])
        /\ (proc'[p].pc = "idle" \/
              (proc'[p].pc = "renew" /\ proc'[p].id = id /\ proc'[p].n = proc[p].n))
    BY <1>1, <2>3, FinishMoves, GotoMoves DEF Pc
  <2>5. Backed' BY <1>1, <1>15, <2>4, NobodyJoins DEF Invoice
  <2>6. QED BY <1>2, <1>15, <2>1, <2>2, <2>4, <2>5, OwnStep DEF Invoice
<1>16. CASE Renew(p)
  <2>1. id \in Sub /\ proc[p].n \in Period BY <1>1, <1>3, <1>16 DEF Renew, Known
  <2>2. proc' \in [Proc -> Procs] /\ (\A q \in Proc \ {p} : proc'[q] = proc[q])
        /\ proc'[p].pc = "loadActivate" /\ proc'[p].id = id
    BY <1>1, <1>16, GotoMoves DEF Renew, Pc
  <2>3. sub' \in [Sub -> Subs]
    <3> DEFINE u == [sub[id] EXCEPT !.period = proc[p].n, !.due = FALSE]
    <3>1. sub[id] \in Subs /\ proc[p].n \in 0..MaxPeriods BY <1>1, <2>1 DEF Period
    <3>2. u \in Subs BY <3>1, SubTyped
    <3>3. sub' = [sub EXCEPT ![id] = u] BY <1>16 DEF Renew
    <3>4. QED BY <1>2, <3>2, <3>3
  <2>4. Backed' BY <1>1, <1>16, <2>1, <2>2, OneJoins DEF Renew
  <2>5. history' \in Histories BY <1>4, <1>16, <2>1 DEF Renew
  <2>6. QED BY <1>2, <1>16, <2>1, <2>2, <2>3, <2>4, <2>5, OwnStep DEF Renew
<1>17. CASE SaveAdjust(p)
  <2> DEFINE k == proc[p].n
             d == history.restored \cup {<<id, k>>}
  <2>1. id \in Sub /\ k \in Period BY <1>1, <1>3, <1>17 DEF SaveAdjust, Known
  <2>2. d \in SUBSET (Sub \X Period) BY <1>2, <2>1 DEF Histories
  <2>3. history' = [history EXCEPT !.restored = d] BY <1>17 DEF SaveAdjust
  <2>4. /\ history' \in Histories
        /\ history'.paid = history.paid /\ history'.granted = history.granted
    BY <1>1, <2>2, <2>3, RestoredNotes
  <2>5. ent' \in [Sub -> [Period -> EntStatus]] BY <1>2, <1>17, <2>1 DEF SaveAdjust, EntStatus
  <2>6. Backed' BY <1>1, <1>17, <2>4, FinishMoves, NobodyJoins DEF SaveAdjust
  <2>7. QED BY <1>1, <1>2, <1>17, <2>4, <2>5, <2>6, FinishMoves, OwnStep DEF SaveAdjust
<1>18. QED
  BY <1>5, <1>6, <1>7, <1>8, <1>9, <1>10, <1>11, <1>12, <1>13, <1>14, <1>15, <1>16, <1>17
     DEF Continue

\* The world, and handlers that are cut off.
LEMMA WorldStep ==
  ASSUME IInv,
         \/ \E p \in Proc : Fail(p)
         \/ \E s \in Sub : \/ CancelAtPeriodEnd(s) \/ ExpireEntitlements(s)
                           \/ Capture(s) \/ PeriodPasses(s)
                           \/ \E k \in Period : Exhaust(s, k)
         \/ UNCHANGED vars
  PROVE  IInv'
<1> USE Typed DEF docs
<1>1. TypeOK /\ Known /\ Backed BY DEF IInv
<1>2. /\ sub \in [Sub -> Subs] /\ attempt \in [Sub -> {"NONE", "PENDING", "SUCCEEDED"}]
      /\ invoiced \in [Sub -> SUBSET Period] /\ ent \in [Sub -> [Period -> EntStatus]]
      /\ captured \in [Sub -> BOOLEAN] /\ history \in Histories
  BY <1>1 DEF TypeOK
<1>3. ASSUME NEW p \in Proc, Fail(p) PROVE IInv'
  <2>1. /\ history' \in Histories /\ history'.paid = history.paid
        /\ history'.granted = history.granted
    <3>1. history.cut \cup ({proc[p].id} \ {NoSub}) \in SUBSET Sub
      BY <1>1, <1>2 DEF Histories
    <3>2. QED BY <1>2, <1>3, <3>1 DEF Fail, Histories
  <2>2. UNCHANGED <<production, sub, attempt, captured, invoiced, ent>> /\ Finish(p)
    BY <1>3 DEF Fail
  <2>3. Backed' BY <1>1, <2>1, <2>2, FinishMoves, NobodyJoins
  <2>4. QED BY <1>1, <1>2, <2>1, <2>2, <2>3, FinishMoves, OwnStep
<1>4. ASSUME NEW s \in Sub, CancelAtPeriodEnd(s) \/ PeriodPasses(s) PROVE IInv'
  <2>1. sub' \in [Sub -> Subs]
    <3>1. sub[s] \in Subs BY <1>2
    <3>2. [sub[s] EXCEPT !.ending = TRUE] \in Subs /\ [sub[s] EXCEPT !.due = TRUE] \in Subs
      BY <3>1 DEF Subs
    <3>3. QED BY <1>2, <1>4, <3>2 DEF CancelAtPeriodEnd, PeriodPasses
  <2>2. UNCHANGED <<production, attempt, captured, invoiced, ent, proc, history>>
    BY <1>4 DEF CancelAtPeriodEnd, PeriodPasses
  <2>3. Known' /\ Backed' BY <1>1, <2>2 DEF Known, Backed, Granting
  <2>4. TypeOK' BY <1>1, <2>1, <2>2 DEF TypeOK
  <2>5. QED BY <2>3, <2>4 DEF IInv
<1>5. ASSUME NEW s \in Sub, ExpireEntitlements(s) PROVE IInv'
  <2>1. [k \in Period |-> IF ent[s][k] = "ACTIVE" /\ (k < sub[s].period \/ sub[s].due)
                            THEN "EXPIRED" ELSE ent[s][k]] \in [Period -> EntStatus]
    BY <1>2 DEF EntStatus
  <2>2. ent' \in [Sub -> [Period -> EntStatus]] BY <1>2, <1>5, <2>1 DEF ExpireEntitlements
  <2>3. UNCHANGED <<production, sub, attempt, captured, invoiced, proc, history>>
    BY <1>5 DEF ExpireEntitlements
  <2>4. Known' /\ Backed' BY <1>1, <2>3 DEF Known, Backed, Granting
  <2>5. TypeOK' BY <1>1, <2>2, <2>3 DEF TypeOK
  <2>6. QED BY <2>4, <2>5 DEF IInv
<1>6. ASSUME NEW s \in Sub, Capture(s) PROVE IInv'
  <2>1. captured' \in [Sub -> BOOLEAN] BY <1>2, <1>6 DEF Capture
  <2>2. UNCHANGED <<production, sub, attempt, invoiced, ent, proc, history>>
    BY <1>6 DEF Capture
  <2>3. Known' /\ Backed' BY <1>1, <2>2 DEF Known, Backed, Granting
  <2>4. TypeOK' BY <1>1, <2>1, <2>2 DEF TypeOK
  <2>5. QED BY <2>3, <2>4 DEF IInv
<1>7. CASE UNCHANGED vars
  <2>1. UNCHANGED <<production, sub, attempt, captured, invoiced, ent, proc, history>>
    BY <1>7 DEF vars
  <2>2. Known' /\ Backed' BY <1>1, <2>1 DEF Known, Backed, Granting
  <2>3. TypeOK' BY <1>1, <2>1 DEF TypeOK
  <2>4. QED BY <2>2, <2>3 DEF IInv
<1>8. ASSUME NEW s \in Sub, NEW k \in Period, Exhaust(s, k) PROVE IInv'
  <2>1. ent' \in [Sub -> [Period -> EntStatus]] BY <1>2, <1>8 DEF Exhaust, EntStatus
  <2>2. UNCHANGED <<production, sub, attempt, captured, invoiced, proc, history>>
    BY <1>8 DEF Exhaust
  <2>3. Known' /\ Backed' BY <1>1, <2>2 DEF Known, Backed, Granting
  <2>4. TypeOK' BY <1>1, <2>1, <2>2 DEF TypeOK
  <2>5. QED BY <2>3, <2>4 DEF IInv
<1>9. QED BY <1>3, <1>4, <1>5, <1>6, <1>7, <1>8

LEMMA NextIInv == IInv /\ [Next]_vars => IInv'
  BY BeginStep, ContinueStep, WorldStep DEF Next

LEMMA Invariance == Spec => []IInv
  BY InitIInv, NextIInv, PTL DEF Spec

\* The subscription, its attempt, its invoices and its entitlements keep the
\* values of their schemas, pauses and periods their limits.
THEOREM TypeCorrect == Spec => []TypeOK
<1>1. IInv => TypeOK BY DEF IInv
<1>2. QED BY Invariance, <1>1, PTL

\* confirmSubscriptionPayment and processRenewals let one handler on for a
\* payment, so generateEntitlementsForSubscription creates no more than was paid.
THEOREM GrantsArePaid == Spec => []PaidGrants
<1>1. IInv => PaidGrants
  <2> SUFFICES ASSUME IInv, NEW s \in Sub PROVE history.granted[s] <= history.paid[s]
    BY DEF PaidGrants
  <2>1. /\ history.granted[s] + Cardinality(Granting(s)) <= history.paid[s]
        /\ history.granted[s] \in Nat /\ history.paid[s] \in Nat
    BY Typed DEF IInv, Backed
  <2>2. QED BY <2>1, GrantingFinite
<1>2. QED BY Invariance, <1>1, PTL

-----------------------------------------------------------------------------
(* The first activation.                                                      *)

NoEnt(s) == \A k \in Period : ent[s][k] = "NONE"

\* A handler on the way to the first activation: a payment's, not a renewal's.
Firsts(h) == h.pc \in {"loadActivate", "saveActivate"} /\ h.n = 0

\* What a handler may rely on, u being its subscription and a its attempt: nothing
\* is used, paused, resumed or renewed before the first activation (period 0).
StartOK(h, u, a) ==
  /\ u.status # "NONE"
  /\ h.pc = "order" => a = "NONE"
  /\ Firsts(h) => a = "SUCCEEDED" /\ u.period = 0
  /\ \/ h.pc \in {"order", "claim", "saveCancel", "suspend"} \/ Firsts(h)
     \/ u.period # 0

Starts ==
  \A p \in Proc :
    /\ proc[p].pc \in {"create", "order", "claim"} => proc[p].n = 0
    /\ proc[p].id \in Sub => StartOK(proc[p], sub[proc[p].id], attempt[proc[p].id])

\* One handler orders and one activates first.
Single ==
  \A p, q \in Proc :
    proc[p].id = proc[q].id =>
      \/ p = q
      \/ ~(proc[p].pc = "order" /\ proc[q].pc = "order") /\ ~(Firsts(proc[p]) /\ Firsts(proc[q]))

\* A subscription in its first days.
Early(u, a, e) ==
  /\ a # "SUCCEEDED" => u.period = 0
  /\ u.status = "NONE" => a = "NONE"
  /\ u.period = 0 => /\ u.status \in {"NONE", "PENDING", "CANCELLED"}
                     /\ \A k \in Period : e[k] = "NONE"

Begun == Starts /\ Single /\ \A s \in Sub : Early(sub[s], attempt[s], ent[s])

LEMMA InitBegun == Init => Begun
  BY IdleType, SubAssumption
     DEF Init, Begun, Starts, Single, Early, None, Idle, Firsts

\* A handler moves: to w, its subscription to u, the attempt to a, the
\* entitlements to e. The others keep what they rely on.
LEMMA BegunMoves ==
  ASSUME IInv, IInv', Begun, NEW p \in Proc, \A q \in Proc \ {p} : proc'[q] = proc[q],
         NEW s \in Sub, proc'[p].id \in {s, NoSub},
         \A t \in Sub \ {s} : /\ sub'[t] = sub[t] /\ attempt'[t] = attempt[t]
                              /\ ent'[t] = ent[t],
         proc'[p].pc \in {"create", "order", "claim"} => proc'[p].n = 0,
         proc'[p].id = s => StartOK(proc'[p], sub'[s], attempt'[s]),
         Early(sub'[s], attempt'[s], ent'[s]),
         sub[s].status # "NONE" => sub'[s].status # "NONE",
         sub[s].period # 0 => sub'[s].period # 0,
         \A q \in Proc \ {p} : proc[q].id = s =>
            /\ proc[q].pc = "order" => attempt'[s] = "NONE" /\ proc'[p].pc # "order"
            /\ Firsts(proc[q]) => /\ attempt'[s] = "SUCCEEDED" /\ sub'[s].period = 0
                                  /\ ~Firsts(proc'[p])
  PROVE  Begun'
<1>1. ASSUME NEW q \in Proc
      PROVE  /\ proc'[q].pc \in {"create", "order", "claim"} => proc'[q].n = 0
             /\ proc'[q].id \in Sub =>
                  StartOK(proc'[q], sub'[proc'[q].id], attempt'[proc'[q].id])
  <2>1. CASE q = p BY <2>1, SubAssumption
  <2>2. CASE q # p /\ proc[q].id = s BY <2>2 DEF Begun, Starts, StartOK
  <2>3. CASE q # p /\ proc[q].id # s BY <2>3 DEF Begun, Starts
  <2>4. QED BY <2>1, <2>2, <2>3
<1>2. ASSUME NEW q \in Proc, NEW r \in Proc, proc'[q].id = proc'[r].id, q # r
      PROVE  /\ ~(proc'[q].pc = "order" /\ proc'[r].pc = "order")
             /\ ~(Firsts(proc'[q]) /\ Firsts(proc'[r]))
  <2>1. CASE q # p /\ r # p BY <1>2, <2>1 DEF Begun, Single
  <2>2. \A o \in Proc : /\ proc'[o].pc = "order" => proc'[o].id \in Sub
                        /\ Firsts(proc'[o]) => proc'[o].id \in Sub
    BY DEF IInv, Known, Firsts
  <2>3. CASE q = p BY <1>2, <2>2, <2>3, SubAssumption
  <2>4. CASE r = p BY <1>2, <2>2, <2>4, SubAssumption
  <2>5. QED BY <2>1, <2>3, <2>4
<1>3. \A t \in Sub : Early(sub'[t], attempt'[t], ent'[t]) BY DEF Begun
<1>4. QED BY <1>1, <1>2, <1>3 DEF Begun, Starts, Single

\* A handler moves and the documents stay, but for the flags and the entitlements
\* of a subscription that was activated.
LEMMA BegunStays ==
  ASSUME IInv, IInv', Begun, NEW p \in Proc, \A q \in Proc \ {p} : proc'[q] = proc[q],
         NEW s \in Sub, UNCHANGED <<sub, attempt>>,
         \A t \in Sub \ {s} : ent'[t] = ent[t],
         sub[s].period # 0 \/ ent'[s] = ent[s],
         \/ /\ proc'[p].id = NoSub /\ proc'[p].pc \in {"idle", "create"}
            /\ proc'[p].pc = "create" => proc'[p].n = 0
         \/ /\ proc'[p].id = s /\ StartOK(proc'[p], sub[s], attempt[s])
            /\ proc'[p].pc \in {"create", "order", "claim"} => proc'[p].n = 0
            /\ proc'[p].pc # "order"
            /\ Firsts(proc'[p]) => Firsts(proc[p]) /\ proc[p].id = s
  PROVE  Begun'
<1>1. \A q \in Proc \ {p} : proc[q].id = s => StartOK(proc[q], sub[s], attempt[s])
  BY DEF Begun, Starts
<1>2. Early(sub'[s], attempt'[s], ent'[s]) BY DEF Begun, Early
<1>3. \A q \in Proc \ {p} : proc[q].id = s /\ Firsts(proc[q]) => ~Firsts(proc'[p])
  BY SubAssumption DEF Begun, Single, Firsts
<1>4. \A q \in Proc \ {p} : proc[q].id = s =>
            /\ proc[q].pc = "order" => attempt'[s] = "NONE" /\ proc'[p].pc # "order"
            /\ Firsts(proc[q]) => /\ attempt'[s] = "SUCCEEDED" /\ sub'[s].period = 0
                                  /\ ~Firsts(proc'[p])
  BY <1>1, <1>3 DEF StartOK
<1>5. QED BY <1>2, <1>4, BegunMoves, SubAssumption

LEMMA BegunBegin == ASSUME IInv, IInv', Begun, NEW p \in Proc, Begin(p) PROVE Begun'
<1>1. TypeOK /\ sub \in [Sub -> Subs] BY DEF IInv, TypeOK
<1>2. ASSUME NEW s \in Sub PROVE Early(sub[s], attempt[s], ent[s]) /\ sub[s].pauses \in 0..2
                               /\ sub[s].status \in Status /\ sub[s].period \in 0..MaxPeriods
  BY <1>1, Typed DEF Begun
<1>3. CASE BeginCreate(p)
  <2>1. Begins(p, "create", NoSub, "NONE", 0) /\ \E s \in Sub : TRUE BY <1>3 DEF BeginCreate
  <2>2. /\ \A q \in Proc \ {p} : proc'[q] = proc[q]
        /\ proc'[p].pc = "create" /\ proc'[p].id = NoSub /\ proc'[p].n = 0
        /\ UNCHANGED <<sub, attempt, ent>>
    <3>1. "create" \in Pc /\ "NONE" \in Status /\ 0 \in Nat /\ NoSub \in Sub \cup {NoSub}
      BY DEF Pc, Status
    <3>2. Begins(p, "create", NoSub, "NONE", 0) BY <2>1
    <3>3. QED BY ONLY <1>1, <3>1, <3>2, BeginsMoves
  <2>3. QED BY <2>1, <2>2, BegunStays
<1>4. ASSUME NEW s \in Sub, NEW pc \in {"claim", "saveCancel", "savePause", "saveResume",
                                         "invoice", "saveAdjust"},
             NEW status \in Status, NEW n \in Nat, Begins(p, pc, s, status, n),
             pc = "claim" => n = 0, sub[s].status # "NONE",
             pc \notin {"claim", "saveCancel"} => sub[s].period # 0
      PROVE  Begun'
  <2>1. /\ \A q \in Proc \ {p} : proc'[q] = proc[q]
        /\ proc'[p].pc = pc /\ proc'[p].id = s /\ proc'[p].n = n
        /\ UNCHANGED <<sub, attempt, ent>>
    BY <1>1, <1>4, BeginsMoves DEF Pc
  <2>2. StartOK(proc'[p], sub[s], attempt[s]) /\ ~Firsts(proc'[p])
    BY <1>4, <2>1 DEF StartOK, Firsts
  <2>3. QED BY <1>4, <2>1, <2>2, BegunStays
<1>5. ASSUME NEW s \in Sub, BeginConfirm(p, s) PROVE Begun'
  BY <1>4, <1>5 DEF BeginConfirm, Status
<1>6. ASSUME NEW s \in Sub, BeginCancel(p, s) PROVE Begun'
  BY <1>2, <1>4, <1>6 DEF BeginCancel
<1>7. ASSUME NEW s \in Sub, BeginPause(p, s) PROVE Begun'
  <2>1. sub[s].period # 0 /\ sub[s].pauses \in Nat BY <1>2, <1>7 DEF BeginPause, Early
  <2>2. QED BY <1>4, <1>7, <2>1 DEF BeginPause, Status
<1>8. ASSUME NEW s \in Sub, BeginResume(p, s) PROVE Begun'
  <2>1. sub[s].period # 0 BY <1>2, <1>8 DEF BeginResume, Early
  <2>2. QED BY <1>4, <1>8, <2>1 DEF BeginResume, Status
<1>9. ASSUME NEW s \in Sub, BeginRenew(p, s) PROVE Begun'
  <2>1. sub[s].period # 0 /\ sub[s].period + 1 \in Nat
    BY <1>2, <1>9, PeriodsAssumption DEF BeginRenew, Early
  <2>2. QED BY <1>4, <1>9, <2>1 DEF BeginRenew, Status
<1>10. ASSUME NEW s \in Sub, BeginAdjust(p, s) PROVE Begun'
  <2>1. PICK k \in Period : ent[s][k] = "EXHAUSTED" /\ Begins(p, "saveAdjust", s, "NONE", k)
    BY <1>10 DEF BeginAdjust
  <2>2. k \in Nat BY PeriodsAssumption DEF Period
  <2>3. sub[s].period # 0 /\ sub[s].status # "NONE"
    BY <1>2, <2>1 DEF Early
  <2>4. QED BY <1>4, <2>1, <2>2, <2>3 DEF Status
<1>11. QED BY <1>3, <1>5, <1>6, <1>7, <1>8, <1>9, <1>10 DEF Begin

LEMMA BegunContinue == ASSUME IInv, IInv', Begun, NEW p \in Proc, Continue(p) PROVE Begun'
<1> DEFINE id == proc[p].id
<1>1. /\ TypeOK /\ sub \in [Sub -> Subs] /\ attempt \in [Sub -> {"NONE", "PENDING", "SUCCEEDED"}]
      /\ ent \in [Sub -> [Period -> EntStatus]] /\ proc[p] \in Procs
      /\ MaxPeriods \in Nat
  BY PeriodsAssumption DEF IInv, TypeOK
<1>2. proc[p].pc \notin {"idle", "create"} => id \in Sub BY DEF IInv, Known
<1>3. id \in Sub => /\ StartOK(proc[p], sub[id], attempt[id]) /\ sub[id] \in Subs
                    /\ Early(sub[id], attempt[id], ent[id])
  BY <1>1 DEF Begun, Starts
<1>4. \A q \in Proc : proc[q].id \in Sub => StartOK(proc[q], sub[proc[q].id], attempt[proc[q].id])
  BY DEF Begun, Starts
<1>5. proc[p].pc \in {"create", "order", "claim"} => proc[p].n = 0 BY DEF Begun, Starts
<1>6. ASSUME NEW s \in Sub, Create(p, s) PROVE Begun'
  <2> DEFINE w == [proc[p] EXCEPT !.pc = "order", !.id = s]
  <2>1. w \in Procs /\ w.pc = "order" /\ w.id = s /\ w.n = 0
    BY <1>1, <1>5, <1>6 DEF Create, Procs, Pc
  <2>2. proc' = [proc EXCEPT ![p] = w] BY <1>6 DEF Create
  <2>3. proc'[p] = w /\ \A q \in Proc \ {p} : proc'[q] = proc[q]
    BY <1>1, <2>1, <2>2, Moves
  <2>4. /\ sub'[s].status = "PENDING" /\ sub'[s].period = sub[s].period
        /\ (\A u \in Sub \ {s} : sub'[u] = sub[u]) /\ UNCHANGED <<attempt, ent>>
        /\ sub[s].status = "NONE"
    BY <1>1, <1>6 DEF Create, Subs
  <2>5. Early(sub[s], attempt[s], ent[s]) BY DEF Begun
  <2>6. Early(sub'[s], attempt'[s], ent'[s]) /\ StartOK(proc'[p], sub'[s], attempt'[s])
    BY <2>1, <2>3, <2>4, <2>5 DEF Early, StartOK, Firsts
  <2>7. \A q \in Proc : proc[q].id # s BY <1>4, <2>4 DEF StartOK
  <2>8. /\ proc'[p].pc = "order" /\ proc'[p].id = s /\ proc'[p].n = 0
        /\ \A q \in Proc \ {p} : proc'[q] = proc[q]
    BY <2>1, <2>3
  <2>9. /\ \A t \in Sub \ {s} : sub'[t] = sub[t] /\ attempt'[t] = attempt[t] /\ ent'[t] = ent[t]
        /\ sub'[s].status # "NONE" /\ (sub[s].period # 0 => sub'[s].period # 0)
    BY <2>4
  <2>10. QED BY ONLY IInv, IInv', Begun, <2>6, <2>7, <2>8, <2>9, BegunMoves
<1>7. CASE Order(p)
  <2>1. proc[p].pc = "order" /\ id \in Sub /\ UNCHANGED <<sub, ent>> BY <1>2, <1>7 DEF Order
  <2>2. attempt[id] = "NONE" BY <1>3, <2>1 DEF StartOK
  <2>3. CASE Finish(p) /\ UNCHANGED attempt BY <1>1, <2>1, <2>3, FinishMoves, BegunStays
  <2>4. CASE attempt' = [attempt EXCEPT ![id] = "PENDING"]
    <3>1. attempt'[id] = "PENDING" /\ \A u \in Sub \ {id} : attempt'[u] = attempt[u]
      BY <1>1, <2>1, <2>4
    <3>2. Finish(p) \/ Goto(p, "claim") BY <1>7 DEF Order
    <3>3. /\ \A q \in Proc \ {p} : proc'[q] = proc[q]
          /\ \/ proc'[p].pc = "idle" /\ proc'[p].id = NoSub
             \/ proc'[p].pc = "claim" /\ proc'[p].id = id /\ proc'[p].n = 0
      BY <1>1, <1>5, <2>1, <3>2, FinishMoves, GotoMoves DEF Pc
    <3>4. Early(sub'[id], attempt'[id], ent'[id]) BY <1>3, <2>1, <2>2, <3>1 DEF Early, StartOK
    <3>5. proc'[p].id = id => StartOK(proc'[p], sub'[id], attempt'[id])
      BY <1>3, <2>1, <3>1, <3>3, SubAssumption DEF StartOK, Firsts
    <3>6. \A q \in Proc \ {p} : proc[q].id = id => proc[q].pc # "order" /\ ~Firsts(proc[q])
      BY <1>4, <2>1, <2>2 DEF Begun, Single, StartOK
    <3>7. QED BY <2>1, <3>1, <3>3, <3>4, <3>5, <3>6, SubAssumption, BegunMoves
  <2>5. QED BY <1>7, <2>3, <2>4 DEF Order
<1>8. CASE Claim(p)
  <2>1. proc[p].pc = "claim" /\ id \in Sub /\ UNCHANGED <<sub, ent>> BY <1>2, <1>8 DEF Claim
  <2>2. CASE attempt[id] # "PENDING"
    <3>1. Finish(p) /\ UNCHANGED attempt BY <1>8, <2>2 DEF Claim
    <3>2. QED BY <1>1, <2>1, <3>1, FinishMoves, BegunStays
  <2>3. CASE attempt[id] = "PENDING"
    <3>1. /\ Goto(p, "loadActivate") /\ attempt'[id] = "SUCCEEDED"
          /\ \A u \in Sub \ {id} : attempt'[u] = attempt[u]
      BY <1>1, <1>8, <2>1, <2>3 DEF Claim
    <3>2. /\ \A q \in Proc \ {p} : proc'[q] = proc[q]
          /\ proc'[p].pc = "loadActivate" /\ proc'[p].id = id /\ proc'[p].n = 0
      BY <1>1, <1>5, <2>1, <3>1, GotoMoves DEF Pc
    <3>3. sub[id].period = 0 BY <1>3, <2>1, <2>3 DEF Early
    <3>4. Early(sub'[id], attempt'[id], ent'[id]) BY <1>3, <2>1, <2>3, <3>1 DEF Early
    <3>5. StartOK(proc'[p], sub'[id], attempt'[id])
      BY <1>3, <2>1, <3>1, <3>2, <3>3 DEF StartOK, Firsts
    <3>6. \A q \in Proc \ {p} : proc[q].id = id => proc[q].pc # "order" /\ ~Firsts(proc[q])
      BY <1>4, <2>1, <2>3 DEF StartOK
    <3>7. QED BY <2>1, <3>1, <3>2, <3>4, <3>5, <3>6, BegunMoves
  <2>4. QED BY <2>2, <2>3
<1>9. CASE LoadActivate(p)
  <2>1. proc[p].pc = "loadActivate" /\ id \in Sub /\ UNCHANGED <<sub, attempt, ent>>
    BY <1>2, <1>9 DEF LoadActivate, docs
  <2>2. Finish(p) \/ Goto(p, "saveActivate") BY <1>9 DEF LoadActivate
  <2>3. /\ \A q \in Proc \ {p} : proc'[q] = proc[q]
        /\ \/ proc'[p].pc = "idle" /\ proc'[p].id = NoSub
           \/ proc'[p].pc = "saveActivate" /\ proc'[p].id = id /\ proc'[p].n = proc[p].n
    BY <1>1, <2>2, FinishMoves, GotoMoves DEF Pc
  <2>4. proc'[p].id = id =>
          StartOK(proc'[p], sub[id], attempt[id]) /\ (Firsts(proc'[p]) => Firsts(proc[p]))
    BY <1>3, <2>1, <2>3, SubAssumption DEF StartOK, Firsts
  <2>5. QED BY <2>1, <2>3, <2>4, SubAssumption, BegunStays
<1>10. CASE SaveActivate(p)
  <2>1. proc[p].pc = "saveActivate" /\ id \in Sub /\ UNCHANGED <<attempt, ent>>
        /\ Goto(p, "generate")
    BY <1>2, <1>10 DEF SaveActivate
  <2>2. /\ sub'[id].status = "ACTIVE" /\ sub'[id].period = sub[id].period + 1
        /\ \A u \in Sub \ {id} : sub'[u] = sub[u]
    BY <1>1, <1>10, <2>1 DEF SaveActivate, Subs
  <2>3. (\A q \in Proc \ {p} : proc'[q] = proc[q])
        /\ proc'[p].pc = "generate" /\ proc'[p].id = id
    BY <1>1, <2>1, GotoMoves DEF Pc
  <2>4. sub'[id].period # 0 BY <1>1, <1>3, <2>1, <2>2 DEF Subs
  <2>5. sub[id].period # 0 \/ Firsts(proc[p]) BY <1>3, <2>1 DEF StartOK
  <2>6. attempt[id] = "SUCCEEDED" BY <1>3, <2>1, <2>5 DEF Early, StartOK
  <2>7. Early(sub'[id], attempt'[id], ent'[id]) /\ StartOK(proc'[p], sub'[id], attempt'[id])
    BY <2>1, <2>2, <2>3, <2>4, <2>6 DEF Early, StartOK, Firsts
  <2>8. \A q \in Proc \ {p} : proc[q].id = id => proc[q].pc # "order" /\ ~Firsts(proc[q])
    BY <1>4, <2>1, <2>5, <2>6 DEF Begun, Single, StartOK
  <2>9. QED BY <2>1, <2>2, <2>3, <2>4, <2>7, <2>8, BegunMoves
<1>11. CASE FindEnt(p)
  <2> DEFINE k == sub[id].period
             w == [proc[p] EXCEPT !.pc = "createEnt", !.n = k]
  <2>1. proc[p].pc = "generate" /\ id \in Sub /\ UNCHANGED <<sub, attempt, ent>>
    BY <1>2, <1>11 DEF FindEnt, docs
  <2>2. k \in Nat BY <1>1, <1>3, <2>1 DEF Subs
  <2>3. w \in Procs /\ w.pc = "createEnt" /\ w.id = id BY <1>1, <2>2 DEF Procs, Pc
  <2>4. proc' = [proc EXCEPT ![p] = w] \/ Finish(p) BY <1>11 DEF FindEnt
  <2>5. /\ \A q \in Proc \ {p} : proc'[q] = proc[q]
        /\ \/ proc'[p].pc = "idle" /\ proc'[p].id = NoSub
           \/ proc'[p].pc = "createEnt" /\ proc'[p].id = id
    BY <1>1, <2>3, <2>4, FinishMoves, Moves
  <2>6. proc'[p].id = id => StartOK(proc'[p], sub[id], attempt[id]) /\ ~Firsts(proc'[p])
    BY <1>3, <2>1, <2>5, SubAssumption DEF StartOK, Firsts
  <2>7. QED BY <2>1, <2>5, <2>6, SubAssumption, BegunStays
<1>12. CASE CreateEnt(p) \/ SaveAdjust(p)
  <2>1. /\ id \in Sub /\ UNCHANGED <<sub, attempt>> /\ Finish(p)
        /\ proc[p].pc \in {"createEnt", "saveAdjust"}
        /\ \A t \in Sub \ {id} : ent'[t] = ent[t]
    BY <1>1, <1>2, <1>12 DEF CreateEnt, SaveAdjust
  <2>2. sub[id].period # 0 BY <1>3, <2>1 DEF StartOK, Firsts
  <2>3. QED BY <1>1, <2>1, <2>2, FinishMoves, BegunStays
<1>13. CASE SaveCancel(p) \/ SavePause(p) \/ SaveResume(p)
  <2>1. /\ id \in Sub /\ UNCHANGED <<attempt, ent>>
        /\ \A u \in Sub \ {id} : sub'[u] = sub[u]
        /\ Goto(p, "suspend") \/ Goto(p, "reactivate")
    BY <1>1, <1>2, <1>13 DEF SaveCancel, SavePause, SaveResume
  <2>2. /\ sub'[id].period = sub[id].period
        /\ sub'[id].status \in {"ACTIVE", "PAUSED", "CANCELLED"} \/ sub'[id].status = sub[id].status
    <3>1. sub[id] \in Subs BY <1>3, <2>1
    <3>2. CASE SaveCancel(p) BY <1>1, <2>1, <3>1, <3>2 DEF SaveCancel, Subs
    <3>3. CASE SavePause(p) BY <1>1, <2>1, <3>1, <3>3 DEF SavePause, Subs
    <3>4. CASE SaveResume(p) BY <1>1, <2>1, <3>1, <3>4 DEF SaveResume, Subs
    <3>5. QED BY <1>13, <3>2, <3>3, <3>4
  <2>3. /\ \A q \in Proc \ {p} : proc'[q] = proc[q]
        /\ proc'[p].pc \in {"suspend", "reactivate"} /\ proc'[p].id = id
    BY <1>1, <2>1, GotoMoves DEF Pc
  <2>4. /\ sub[id].period # 0 \/ SaveCancel(p)
        /\ SaveCancel(p) => /\ proc'[p].pc = "suspend"
                            /\ sub'[id].status = "CANCELLED" \/ sub'[id].status = sub[id].status
    <3>1. SavePause(p) \/ SaveResume(p) => sub[id].period # 0
      BY <1>3, <2>1 DEF SavePause, SaveResume, StartOK, Firsts
    <3>2. SaveCancel(p) => proc'[p].pc = "suspend"
      BY <1>1, GotoMoves DEF SaveCancel, Pc
    <3>3. SaveCancel(p) => sub'[id].status = "CANCELLED" \/ sub'[id].status = sub[id].status
      BY <1>1, <1>3, <2>1 DEF SaveCancel, Subs
    <3>4. QED BY <1>13, <3>1, <3>2, <3>3
  <2>5. Early(sub'[id], attempt'[id], ent'[id]) BY <1>3, <2>1, <2>2, <2>4 DEF Early, StartOK
  <2>6. StartOK(proc'[p], sub'[id], attempt'[id])
    BY <1>3, <2>1, <2>2, <2>3, <2>4 DEF StartOK, Firsts
  <2>7. \A q \in Proc \ {p} : proc[q].id = id =>
          /\ proc[q].pc = "order" => attempt'[id] = "NONE" /\ proc'[p].pc # "order"
          /\ Firsts(proc[q]) => /\ attempt'[id] = "SUCCEEDED" /\ sub'[id].period = 0
                                /\ ~Firsts(proc'[p])
    BY <1>4, <2>1, <2>2, <2>3 DEF StartOK, Firsts
  <2>8. sub[id].status # "NONE" => sub'[id].status # "NONE" BY <2>2
  <2>9. QED BY <2>1, <2>2, <2>3, <2>5, <2>6, <2>7, <2>8, BegunMoves
<1>14. CASE SuspendEntitlements(p) \/ ReactivateEntitlements(p)
  <2>1. PICK from, to \in {"ACTIVE", "SUSPENDED"} : Turn(p, from, to)
    BY <1>14 DEF SuspendEntitlements, ReactivateEntitlements
  <2>2. id \in Sub BY <1>2, <1>14 DEF SuspendEntitlements, ReactivateEntitlements
  <2>3. /\ UNCHANGED <<sub, attempt>> /\ Finish(p)
        /\ \A t \in Sub \ {id} : ent'[t] = ent[t]
        /\ ent'[id] = [k \in Period |-> IF ent[id][k] = from THEN to ELSE ent[id][k]]
    BY <1>1, <2>1, <2>2 DEF Turn
  <2>4. CASE sub[id].period # 0 BY <1>1, <2>2, <2>3, <2>4, FinishMoves, BegunStays
  <2>5. CASE sub[id].period = 0
    <3>1. \A k \in Period : ent[id][k] = "NONE" BY <1>3, <2>2, <2>5 DEF Early
    <3>2. ent'[id] = ent[id] BY <1>1, <2>2, <2>3, <3>1
    <3>3. QED BY <1>1, <2>2, <2>3, <3>2, FinishMoves, BegunStays
  <2>6. QED BY <2>4, <2>5
<1>15. CASE Invoice(p)
  <2>1. proc[p].pc = "invoice" /\ id \in Sub /\ UNCHANGED <<sub, attempt, ent>>
    BY <1>2, <1>15 DEF Invoice
  <2>2. Finish(p) \/ Goto(p, "renew") BY <1>15 DEF Invoice
  <2>3. /\ \A q \in Proc \ {p} : proc'[q] = proc[q]
        /\ \/ proc'[p].pc = "idle" /\ proc'[p].id = NoSub
           \/ proc'[p].pc = "renew" /\ proc'[p].id = id
    BY <1>1, <2>2, FinishMoves, GotoMoves DEF Pc
  <2>4. proc'[p].id = id => StartOK(proc'[p], sub[id], attempt[id]) /\ ~Firsts(proc'[p])
    BY <1>3, <2>1, <2>3, SubAssumption DEF StartOK, Firsts
  <2>5. QED BY <2>1, <2>3, <2>4, SubAssumption, BegunStays
<1>16. CASE Renew(p)
  <2>1. proc[p].pc = "renew" /\ id \in Sub /\ UNCHANGED <<attempt, ent>>
        /\ Goto(p, "loadActivate") /\ proc[p].n \in Period
    BY <1>2, <1>16 DEF Renew, IInv, Known
  <2>2. /\ sub'[id].status = sub[id].status /\ sub'[id].period = proc[p].n
        /\ \A u \in Sub \ {id} : sub'[u] = sub[u]
    BY <1>1, <1>3, <1>16, <2>1 DEF Renew, Subs
  <2>3. /\ \A q \in Proc \ {p} : proc'[q] = proc[q]
        /\ proc'[p].pc = "loadActivate" /\ proc'[p].id = id /\ proc'[p].n = proc[p].n
    BY <1>1, <2>1, GotoMoves DEF Pc
  <2>4. sub[id].period # 0 /\ proc[p].n # 0 BY <1>3, <2>1 DEF StartOK, Firsts, Period
  <2>5. Early(sub'[id], attempt'[id], ent'[id]) /\ StartOK(proc'[p], sub'[id], attempt'[id])
    BY <1>3, <2>1, <2>2, <2>3, <2>4 DEF Early, StartOK, Firsts
  <2>6. \A q \in Proc \ {p} : proc[q].id = id =>
          ~Firsts(proc[q]) /\ (proc[q].pc = "order" => attempt'[id] = "NONE")
    BY <1>4, <2>1, <2>4 DEF StartOK
  <2>7. QED BY <2>1, <2>2, <2>3, <2>4, <2>5, <2>6, BegunMoves
<1>17. QED
  BY <1>6, <1>7, <1>8, <1>9, <1>10, <1>11, <1>12, <1>13, <1>14, <1>15, <1>16 DEF Continue

LEMMA BegunWorld ==
  ASSUME IInv, IInv', Begun,
         \/ \E p \in Proc : Fail(p)
         \/ \E s \in Sub : \/ CancelAtPeriodEnd(s) \/ ExpireEntitlements(s)
                           \/ Capture(s) \/ PeriodPasses(s)
                           \/ \E k \in Period : Exhaust(s, k)
         \/ UNCHANGED vars
  PROVE  Begun'
<1>1. /\ TypeOK /\ sub \in [Sub -> Subs] /\ ent \in [Sub -> [Period -> EntStatus]]
  BY DEF IInv, TypeOK
<1>2. \A s \in Sub : Early(sub[s], attempt[s], ent[s]) BY DEF Begun
<1>3. ASSUME NEW p \in Proc, Fail(p) PROVE Begun'
  <2>1. Finish(p) /\ UNCHANGED <<sub, attempt, ent>> BY <1>3 DEF Fail, docs
  <2>2. proc'[p].pc = "idle" /\ proc'[p].id = NoSub /\ \A q \in Proc \ {p} : proc'[q] = proc[q]
    BY <1>1, <2>1, FinishMoves
  <2>3. QED BY <2>1, <2>2, SubAssumption DEF Begun, Starts, Single, Firsts
<1>4. ASSUME UNCHANGED <<proc, attempt>>,
             \A s \in Sub : /\ sub'[s].status = sub[s].status /\ sub'[s].period = sub[s].period
                            /\ Early(sub[s], attempt[s], ent'[s])
      PROVE  Begun'
  <2>1. Single' BY <1>4 DEF Begun, Single
  <2>2. Starts' BY <1>4 DEF Begun, Starts, StartOK
  <2>3. \A s \in Sub : Early(sub'[s], attempt'[s], ent'[s]) BY <1>4 DEF Early
  <2>4. QED BY <2>1, <2>2, <2>3 DEF Begun
<1>5. ASSUME NEW s \in Sub, CancelAtPeriodEnd(s) \/ PeriodPasses(s) PROVE Begun'
  <2>1. /\ [sub[s] EXCEPT !.ending = TRUE].status = sub[s].status
        /\ [sub[s] EXCEPT !.ending = TRUE].period = sub[s].period
        /\ [sub[s] EXCEPT !.due = TRUE].status = sub[s].status
        /\ [sub[s] EXCEPT !.due = TRUE].period = sub[s].period
    BY <1>1 DEF Subs
  <2>2. \A t \in Sub : sub'[t].status = sub[t].status /\ sub'[t].period = sub[t].period
    BY <1>1, <1>5, <2>1 DEF CancelAtPeriodEnd, PeriodPasses
  <2>3. UNCHANGED <<proc, attempt, ent>> BY <1>5 DEF CancelAtPeriodEnd, PeriodPasses
  <2>4. QED BY <1>2, <1>4, <2>2, <2>3
<1>6. ASSUME NEW s \in Sub, ExpireEntitlements(s) PROVE Begun'
  <2>1. \A t \in Sub : Early(sub[t], attempt[t], ent'[t])
    BY <1>1, <1>2, <1>6 DEF ExpireEntitlements, Early
  <2>2. UNCHANGED <<proc, attempt, sub>> BY <1>6 DEF ExpireEntitlements
  <2>3. QED BY <1>4, <2>1, <2>2
<1>7. ASSUME NEW s \in Sub, NEW k \in Period, Exhaust(s, k) PROVE Begun'
  <2>1. \A t \in Sub : Early(sub[t], attempt[t], ent'[t])
    BY <1>1, <1>2, <1>7 DEF Exhaust, Early
  <2>2. UNCHANGED <<proc, attempt, sub>> BY <1>7 DEF Exhaust
  <2>3. QED BY <1>4, <2>1, <2>2
<1>8. ASSUME NEW s \in Sub, Capture(s) PROVE Begun'
  <2>1. UNCHANGED <<proc, attempt, sub, ent>> BY <1>8 DEF Capture, docs
  <2>2. QED BY <1>2, <1>4, <2>1
<1>9. CASE UNCHANGED vars
  <2>1. UNCHANGED <<proc, attempt, sub, ent>> BY <1>9 DEF vars
  <2>2. QED BY <1>2, <1>4, <2>1
<1>10. QED BY <1>3, <1>5, <1>6, <1>7, <1>8, <1>9

LEMMA NextBegun == IInv /\ IInv' /\ Begun /\ [Next]_vars => Begun'
  BY BegunBegin, BegunContinue, BegunWorld DEF Next

-----------------------------------------------------------------------------
(* The entitlements follow.                                                   *)

NoneSuspended(s) == \A k \in Period : ent[s][k] # "SUSPENDED"

Settled(s) ==
  \A k \in Period :
    /\ sub[s].status \in {"PAUSED", "CANCELLED"} /\ ent[s][k] = "ACTIVE"
         => <<s, k>> \in history.restored
    /\ sub[s].status = "ACTIVE" => ent[s][k] # "SUSPENDED"

\* The handler that is to bring the entitlements in line finds the status it saved.
Ready(pc, s) ==
  /\ pc = "suspend" => sub[s].status \in {"PAUSED", "CANCELLED"}
  /\ pc # "suspend" => sub[s].status = "ACTIVE"
  /\ pc \in {"generate", "createEnt"} => NoneSuspended(s)

Astray(s) == s \in history.crossed \cup history.cut

\* No status was saved out of turn and no handler cut off: at most one handler is
\* to bring the entitlements in line, and when there is none they are.
Followed(s) ==
  \/ Astray(s)
  \/ /\ \A p, q \in Following(s) : p = q
     /\ \A p \in Following(s) : Ready(proc[p].pc, s)
     /\ Following(s) = {} => Settled(s)

AllFollowed == \A s \in Sub : Followed(s)

LEMMA FollowsAtFirst == Init => AllFollowed
<1> SUFFICES ASSUME Init, NEW s \in Sub PROVE Followed(s) BY DEF AllFollowed
<1>1. Following(s) = {} BY IdleType DEF Init, Following
<1>2. Settled(s) BY DEF Init, Settled, None
<1>3. QED BY <1>1, <1>2 DEF Followed

\* A step that saves no status and brings no entitlements in line.
LEMMA Undisturbed ==
  ASSUME NEW s \in Sub, Followed(s), Astray(s) => Astray(s)',
         sub'[s].status = sub[s].status, Following(s)' = Following(s),
         \A p \in Following(s) :
           \/ proc'[p].pc = proc[p].pc
           \/ proc[p].pc = "generate" /\ proc'[p].pc = "createEnt",
         \A k \in Period :
           /\ ent'[s][k] = "SUSPENDED" => ent[s][k] = "SUSPENDED"
           /\ ent'[s][k] = "ACTIVE" => ent[s][k] = "ACTIVE" \/ <<s, k>> \in history'.restored
           /\ <<s, k>> \in history.restored => <<s, k>> \in history'.restored
  PROVE  Followed(s)'
<1>1. CASE Astray(s) BY <1>1 DEF Followed
<1>2. CASE ~Astray(s)
  <2>1. \A p, q \in Following(s)' : p = q BY <1>2 DEF Followed
  <2>2. ASSUME NEW p \in Following(s) PROVE (Ready(proc[p].pc, s))'
    <3>1. Ready(proc[p].pc, s) BY <1>2, <2>2 DEF Followed
    <3>2. NoneSuspended(s) => NoneSuspended(s)' BY DEF NoneSuspended
    <3>3. QED BY <2>2, <3>1, <3>2 DEF Ready
  <2>3. ASSUME Settled(s) PROVE Settled(s)'
    <3> SUFFICES ASSUME NEW k \in Period
                 PROVE  /\ sub'[s].status \in {"PAUSED", "CANCELLED"} /\ ent'[s][k] = "ACTIVE"
                             => <<s, k>> \in history'.restored
                        /\ sub'[s].status = "ACTIVE" => ent'[s][k] # "SUSPENDED"
      BY DEF Settled
    <3>1. /\ sub[s].status \in {"PAUSED", "CANCELLED"} /\ ent[s][k] = "ACTIVE"
               => <<s, k>> \in history.restored
          /\ sub[s].status = "ACTIVE" => ent[s][k] # "SUSPENDED"
      BY <2>3 DEF Settled
    <3>2. QED BY <3>1
  <2>4. (\A p \in Following(s) : Ready(proc[p].pc, s))' BY <2>2
  <2>5. QED BY <1>2, <2>1, <2>3, <2>4 DEF Followed
<1>3. QED BY <1>1, <1>2

\* A handler saves a status.
LEMMA SavesFollow ==
  ASSUME NEW s \in Sub, NEW p \in Proc, Followed(s), TypeOK,
         Saves(s, TRUE) \/ Saves(s, FALSE),
         \A q \in Proc \ {p} : proc'[q] = proc[q],
         p \in Following(s)',
         Astray(s)' \/ Ready(proc[p].pc, s)'
  PROVE  Followed(s)'
<1>1. s \in history'.crossed \/ Following(s) = {} BY SavesNotes
<1>2. CASE Astray(s)' BY <1>2 DEF Followed
<1>3. CASE ~Astray(s)'
  <2>1. Following(s) = {} BY <1>1, <1>3 DEF Astray
  <2>2. Following(s)' \subseteq Following(s) \cup {p} BY DEF Following
  <2>3. Following(s)' = {p} BY <2>1, <2>2
  <2>4. (\A q \in Following(s) : Ready(proc[q].pc, s))' BY <1>3, <2>3
  <2>5. QED BY <2>3, <2>4 DEF Followed
<1>4. QED BY <1>2, <1>3

\* A handler has brought the entitlements in line.
LEMMA DoneFollows ==
  ASSUME NEW s \in Sub, NEW p \in Proc, Followed(s), Astray(s) => Astray(s)',
         \A q \in Proc \ {p} : proc'[q] = proc[q],
         p \in Following(s), p \notin Following(s)',
         Ready(proc[p].pc, s) => Settled(s)'
  PROVE  Followed(s)'
<1>1. CASE Astray(s) BY <1>1 DEF Followed
<1>2. CASE ~Astray(s)
  <2>1. Following(s) = {p} /\ Ready(proc[p].pc, s) BY <1>2 DEF Followed
  <2>2. Following(s)' \subseteq Following(s) \ {p} BY DEF Following
  <2>3. Following(s)' = {} BY <2>1, <2>2
  <2>4. QED BY <2>1, <2>3 DEF Followed
<1>3. QED BY <1>1, <1>2

\* A handler moves among the steps that no status was saved before.
LEMMA SameFollowing ==
  ASSUME NEW p \in Proc, NEW s, \A q \in Proc \ {p} : proc'[q] = proc[q],
         p \in Following(s)' <=> p \in Following(s)
  PROVE  Following(s)' = Following(s)
  BY DEF Following

\* A handler that leaves the status, the entitlements and the history.
LEMMA QuietFollow ==
  ASSUME AllFollowed, NEW p \in Proc, \A q \in Proc \ {p} : proc'[q] = proc[q],
         UNCHANGED <<ent, history>> \/ (UNCHANGED ent /\ \E t \in Sub : Paid(t) /\ TypeOK),
         \A s \in Sub : sub'[s].status = sub[s].status,
         \/ /\ proc[p].pc \notin {"suspend", "reactivate", "generate", "createEnt"}
            /\ proc'[p].pc \notin {"suspend", "reactivate", "generate", "createEnt"}
         \/ /\ proc[p].pc = "generate" /\ proc'[p].pc = "createEnt"
            /\ proc'[p].id = proc[p].id
  PROVE  AllFollowed'
<1> SUFFICES ASSUME NEW s \in Sub PROVE Followed(s)' BY DEF AllFollowed
<1>1. Following(s)' = Following(s) BY SameFollowing DEF Following
<1>2. /\ history'.restored = history.restored /\ history'.crossed = history.crossed
      /\ history'.cut = history.cut
  BY DEF Paid, TypeOK, Histories
<1>3. Astray(s) => Astray(s)' BY <1>2 DEF Astray
<1>4. Followed(s) BY DEF AllFollowed
<1>5. \A q \in Following(s) : \/ proc'[q].pc = proc[q].pc
                              \/ proc[q].pc = "generate" /\ proc'[q].pc = "createEnt"
  BY DEF Following
<1>6. ASSUME NEW k \in Period
      PROVE  /\ ent'[s][k] = "SUSPENDED" => ent[s][k] = "SUSPENDED"
             /\ ent'[s][k] = "ACTIVE" => ent[s][k] = "ACTIVE" \/ <<s, k>> \in history'.restored
             /\ <<s, k>> \in history.restored => <<s, k>> \in history'.restored
  BY <1>2
<1>7. sub'[s].status = sub[s].status OBVIOUS
<1>8. QED BY ONLY <1>1, <1>3, <1>4, <1>5, <1>6, <1>7, Undisturbed

LEMMA FollowBegin == ASSUME IInv, AllFollowed, NEW p \in Proc, Begin(p) PROVE AllFollowed'
<1>1. TypeOK BY DEF IInv
<1>2. ASSUME NEW pc \in {"create", "claim", "saveCancel", "savePause", "saveResume", "invoice",
                         "saveAdjust"},
             NEW s \in Sub \cup {NoSub}, NEW status, NEW n, Begins(p, pc, s, status, n)
      PROVE  AllFollowed'
  <2>1. /\ proc[p].pc = "idle" /\ proc'[p].pc = pc /\ \A q \in Proc \ {p} : proc'[q] = proc[q]
        /\ UNCHANGED <<ent, history, sub>>
    BY <1>1, <1>2 DEF Begins, docs, TypeOK
  <2>2. QED BY <1>1, <2>1, QuietFollow
<1>3. QED
  BY <1>2 DEF Begin, BeginCreate, BeginConfirm, BeginCancel, BeginPause, BeginResume, BeginRenew,
              BeginAdjust

LEMMA FollowCreate ==
  ASSUME IInv, Begun, AllFollowed, NEW p \in Proc, NEW s \in Sub, Create(p, s)
  PROVE  AllFollowed'
<1>1. /\ TypeOK /\ sub \in [Sub -> Subs] /\ proc[p] \in Procs /\ proc \in [Proc -> Procs]
  BY DEF IInv, TypeOK
<1>2. \A u \in Sub : Followed(u) BY DEF AllFollowed
<1> DEFINE w == [proc[p] EXCEPT !.pc = "order", !.id = s]
<1>3. w \in Procs /\ w.pc = "order" /\ w.id = s BY <1>1 DEF Procs, Pc
<1>4. proc' = [proc EXCEPT ![p] = w] BY DEF Create
<1>5. /\ proc'[p].pc = "order" /\ \A q \in Proc \ {p} : proc'[q] = proc[q]
  BY <1>1, <1>3, <1>4, Moves
<1>6. /\ sub[s].status = "NONE" /\ sub'[s].status = "PENDING" /\ proc[p].pc = "create"
      /\ (\A u \in Sub \ {s} : sub'[u] = sub[u]) /\ UNCHANGED <<ent, history>>
  BY <1>1 DEF Create, Subs
<1>7. ASSUME NEW u \in Sub PROVE Followed(u)'
  <2>1. p \notin Following(u) /\ p \notin Following(u)' BY <1>5, <1>6 DEF Following
  <2>2. Following(u)' = Following(u) BY <1>5, <2>1, SameFollowing
  <2>3. \A q \in Following(u) : proc'[q].pc = proc[q].pc BY <1>5, <2>1 DEF Following
  <2>4. CASE u # s
    <3>1. Astray(u) => Astray(u)' BY <1>6 DEF Astray
    <3>2. QED BY <1>2, <1>6, <2>2, <2>3, <2>4, <3>1, Undisturbed
  <2>5. CASE u = s
    <3>1. Following(u) = {}
      <4>1. \A q \in Proc : proc[q].id = s => StartOK(proc[q], sub[s], attempt[s])
        BY DEF Begun, Starts
      <4>2. QED BY <1>6, <2>5, <4>1 DEF Following, StartOK
    <3>2. Settled(u)' BY <1>6, <2>5 DEF Settled
    <3>3. QED BY <2>2, <3>1, <3>2 DEF Followed
  <2>6. QED BY <2>4, <2>5
<1>8. QED BY <1>7 DEF AllFollowed

LEMMA FollowOwn ==
  ASSUME IInv, Begun, AllFollowed, NEW p \in Proc, NEW id \in Sub, proc[p].id = id,
         \/ Order(p) \/ Claim(p) \/ LoadActivate(p) \/ SaveActivate(p) \/ FindEnt(p)
         \/ CreateEnt(p) \/ SaveCancel(p) \/ SavePause(p) \/ SaveResume(p)
         \/ SuspendEntitlements(p) \/ ReactivateEntitlements(p) \/ Invoice(p)
         \/ Renew(p) \/ SaveAdjust(p)
  PROVE  AllFollowed'
<1>1. /\ TypeOK /\ sub \in [Sub -> Subs] /\ ent \in [Sub -> [Period -> EntStatus]]
      /\ proc[p] \in Procs /\ history \in Histories /\ proc \in [Proc -> Procs]
  BY DEF IInv, TypeOK
<1>2. id \in Sub OBVIOUS
<1>3. \A s \in Sub : Followed(s) BY DEF AllFollowed
<1>4. /\ StartOK(proc[p], sub[id], attempt[id]) /\ sub[id] \in Subs
      /\ Early(sub[id], attempt[id], ent[id])
  BY <1>1 DEF Begun, Starts
\* Other subscriptions are left as they are.
<1>5. ASSUME NEW t \in Sub \ {id}, sub'[t].status = sub[t].status, ent'[t] = ent[t],
             proc'[p].id \in {id, NoSub}, \A q \in Proc \ {p} : proc'[q] = proc[q],
             Astray(t) => Astray(t)',
             \A k \in Period : <<t, k>> \in history.restored => <<t, k>> \in history'.restored
      PROVE  Followed(t)'
  <2>1. p \notin Following(t) /\ p \notin Following(t)'
    BY <1>5, SubAssumption DEF Following
  <2>2. Following(t)' = Following(t) BY <1>5, <2>1, SameFollowing
  <2>3. \A q \in Following(t) : proc'[q].pc = proc[q].pc BY <1>5, <2>1 DEF Following
  <2>4. QED BY <1>3, <1>5, <2>2, <2>3, Undisturbed
<1>7. CASE Order(p) \/ Claim(p) \/ LoadActivate(p) \/ Invoice(p)
  <2>1. /\ proc[p].pc \in {"order", "claim", "loadActivate", "invoice"}
        /\ UNCHANGED <<sub, ent>> /\ id \in Sub
        /\ UNCHANGED history \/ Paid(id)
        /\ Finish(p) \/ (\E pc \in {"claim", "loadActivate", "saveActivate", "renew"} : Goto(p, pc))
    BY <1>2, <1>7 DEF Order, Claim, LoadActivate, Invoice, docs
  <2>2. /\ \A q \in Proc \ {p} : proc'[q] = proc[q]
        /\ proc'[p].pc \in {"idle", "claim", "loadActivate", "saveActivate", "renew"}
    BY <1>1, <2>1, FinishMoves, GotoMoves DEF Pc
  <2>3. QED BY <1>1, <2>1, <2>2, QuietFollow
<1>8. CASE SaveActivate(p)
  <2>1. /\ proc[p].pc = "saveActivate" /\ id \in Sub /\ UNCHANGED ent /\ Goto(p, "generate")
        /\ Saves(id, proc[p].n > 0)
    BY <1>2, <1>8 DEF SaveActivate
  <2>2. /\ sub'[id].status = "ACTIVE" /\ \A u \in Sub \ {id} : sub'[u] = sub[u]
    BY <1>1, <1>8, <2>1 DEF SaveActivate, Subs
  <2>3. /\ \A q \in Proc \ {p} : proc'[q] = proc[q]
        /\ proc'[p].pc = "generate" /\ proc'[p].id = id
    BY <1>1, <2>1, GotoMoves DEF Pc
  <2>4. Saves(id, TRUE) \/ Saves(id, FALSE) BY <2>1 DEF Saves
  <2>5. /\ history'.restored = history.restored /\ history'.cut = history.cut
        /\ history.crossed \subseteq history'.crossed
    BY <1>1, <2>1, <2>4, SavesNotes
  <2>6. p \in Following(id)' BY <2>3 DEF Following
  <2>7. Astray(id)' \/ (Ready(proc[p].pc, id))'
    <3>1. CASE proc[p].n > 0
      <4>1. id \in history'.crossed BY <1>1, <2>1, <3>1 DEF Saves, Histories
      <4>2. QED BY <4>1 DEF Astray
    <3>2. CASE ~(proc[p].n > 0)
      <4>1. proc[p].n = 0 BY <1>1, <3>2 DEF Procs
      <4>2. \A k \in Period : ent[id][k] = "NONE"
        BY <1>4, <2>1, <4>1 DEF StartOK, Firsts, Early
      <4>3. QED BY <2>1, <2>2, <2>3, <4>2 DEF Ready, NoneSuspended
    <3>3. QED BY <3>1, <3>2
  <2>8. Followed(id)' BY <1>1, <1>3, <2>1, <2>3, <2>4, <2>6, <2>7, SavesFollow
  <2>9. \A t \in Sub \ {id} : Followed(t)' BY <1>5, <2>1, <2>2, <2>3, <2>5 DEF Astray
  <2>10. QED BY <2>8, <2>9 DEF AllFollowed
<1>9. CASE SaveCancel(p) \/ SavePause(p) \/ SaveResume(p)
  <2>1. id \in Sub /\ UNCHANGED ent /\ (Saves(id, TRUE) \/ Saves(id, FALSE))
    BY <1>2, <1>9 DEF SaveCancel, SavePause, SaveResume, Saves
  <2>2. \A u \in Sub \ {id} : sub'[u] = sub[u]
    BY <1>1, <1>9, <2>1 DEF SaveCancel, SavePause, SaveResume
  <2>3. /\ history'.restored = history.restored /\ history'.cut = history.cut
        /\ history.crossed \subseteq history'.crossed
    BY <1>1, <2>1, SavesNotes
  <2>4. /\ \A q \in Proc \ {p} : proc'[q] = proc[q]
        /\ proc'[p].pc = IF SaveResume(p) THEN "reactivate" ELSE "suspend"
        /\ proc'[p].id = id
    <3>1. CASE SaveResume(p)
      <4>1. Goto(p, "reactivate") BY <3>1 DEF SaveResume
      <4>2. QED BY <1>1, <3>1, <4>1, GotoMoves DEF Pc
    <3>2. CASE ~SaveResume(p)
      <4>1. Goto(p, "suspend") BY <1>9, <3>2 DEF SaveCancel, SavePause
      <4>2. QED BY <1>1, <3>2, <4>1, GotoMoves DEF Pc
    <3>3. QED BY <3>1, <3>2
  <2>5. p \in Following(id)' BY <2>4 DEF Following
  <2>6. Astray(id)' \/ (Ready(proc[p].pc, id))'
    <3>1. CASE SaveResume(p)
      <4>1. sub'[id].status = "ACTIVE" BY <1>1, <2>1, <3>1 DEF SaveResume, Subs
      <4>2. QED BY <2>4, <3>1, <4>1 DEF Ready
    <3>2. CASE SavePause(p)
      <4>1. sub'[id].status = "PAUSED" BY <1>1, <2>1, <3>2 DEF SavePause, Subs
      <4>2. proc'[p].pc = "suspend" BY <2>4, <3>2 DEF SaveResume, SavePause
      <4>3. QED BY <4>1, <4>2 DEF Ready
    <3>3. CASE SaveCancel(p)
      <4>1. proc'[p].pc = "suspend" BY <2>4, <3>3 DEF SaveResume, SaveCancel
      <4>2. CASE proc[p].status = "CANCELLED" /\ sub[id].status # "CANCELLED"
        <5>1. id \in history'.crossed BY <1>1, <2>1, <3>3, <4>2 DEF SaveCancel, Saves, Histories
        <5>2. QED BY <5>1 DEF Astray
      <4>3. CASE ~(proc[p].status = "CANCELLED" /\ sub[id].status # "CANCELLED")
        <5>1. sub'[id].status = "CANCELLED" BY <1>1, <2>1, <3>3, <4>3 DEF SaveCancel, Subs
        <5>2. QED BY <4>1, <5>1 DEF Ready
      <4>4. QED BY <4>2, <4>3
    <3>4. QED BY <1>9, <3>1, <3>2, <3>3
  <2>7. Followed(id)' BY <1>1, <1>3, <2>1, <2>4, <2>5, <2>6, SavesFollow
  <2>8. \A t \in Sub \ {id} : Followed(t)' BY <1>5, <2>1, <2>2, <2>3, <2>4 DEF Astray
  <2>9. QED BY <2>7, <2>8 DEF AllFollowed
<1>10. CASE FindEnt(p)
  <2> DEFINE k == sub[id].period
             w == [proc[p] EXCEPT !.pc = "createEnt", !.n = k]
  <2>1. proc[p].pc = "generate" /\ id \in Sub /\ UNCHANGED <<sub, attempt, ent, history>>
    BY <1>2, <1>10 DEF FindEnt, docs
  <2>2. CASE proc' = [proc EXCEPT ![p] = w]
    <3>1. k \in Nat BY <1>1, <1>4, <2>1, PeriodsAssumption DEF Subs
    <3>2. w \in Procs /\ w.pc = "createEnt" /\ w.id = id BY <1>1, <3>1 DEF Procs, Pc
    <3>3. /\ \A q \in Proc \ {p} : proc'[q] = proc[q]
          /\ proc'[p].pc = "createEnt" /\ proc'[p].id = id
      BY <1>1, <2>2, <3>2, Moves
    <3>4. QED BY <2>1, <3>3, QuietFollow
  <2>3. CASE Finish(p)
    <3>1. /\ \A q \in Proc \ {p} : proc'[q] = proc[q]
          /\ proc'[p].pc = "idle" /\ proc'[p].id = NoSub
      BY <1>1, <2>3, FinishMoves
    <3>2. p \in Following(id) /\ p \notin Following(id)' BY <2>1, <3>1 DEF Following
    <3>3. Ready(proc[p].pc, id) => Settled(id)'
      BY <2>1 DEF Ready, Settled, NoneSuspended
    <3>4. Astray(id) => Astray(id)' BY <2>1 DEF Astray
    <3>5. Followed(id)' BY <1>3, <2>1, <3>1, <3>2, <3>3, <3>4, DoneFollows
    <3>6. \A t \in Sub \ {id} : Followed(t)' BY <1>5, <2>1, <3>1 DEF Astray
    <3>7. QED BY <3>5, <3>6 DEF AllFollowed
  <2>4. QED BY <1>10, <2>2, <2>3 DEF FindEnt
<1>11. CASE CreateEnt(p)
  <2>1. /\ proc[p].pc = "createEnt" /\ id \in Sub /\ UNCHANGED sub /\ Finish(p)
        /\ history' = [history EXCEPT !.granted[id] = @ + 1]
    BY <1>2, <1>11 DEF CreateEnt
  <2>2. /\ \A k \in Period : ent'[id][k] \in {ent[id][k], "ACTIVE"}
        /\ \A t \in Sub \ {id} : ent'[t] = ent[t]
    BY <1>1, <1>11, <2>1 DEF CreateEnt
  <2>3. /\ history'.restored = history.restored /\ history'.crossed = history.crossed
        /\ history'.cut = history.cut
    BY <1>1, <2>1 DEF Histories
  <2>4. /\ \A q \in Proc \ {p} : proc'[q] = proc[q]
        /\ proc'[p].pc = "idle" /\ proc'[p].id = NoSub
    BY <1>1, <2>1, FinishMoves
  <2>5. p \in Following(id) /\ p \notin Following(id)' BY <2>1, <2>4 DEF Following
  <2>6. Ready(proc[p].pc, id) => Settled(id)'
    BY <2>1, <2>2 DEF Ready, Settled, NoneSuspended
  <2>7. Astray(id) => Astray(id)' BY <2>3 DEF Astray
  <2>8. Followed(id)' BY <1>3, <2>1, <2>4, <2>5, <2>6, <2>7, DoneFollows
  <2>9. \A t \in Sub \ {id} : Followed(t)' BY <1>5, <2>1, <2>2, <2>3, <2>4 DEF Astray
  <2>10. QED BY <2>8, <2>9 DEF AllFollowed
<1>12. CASE SuspendEntitlements(p) \/ ReactivateEntitlements(p)
  <2>1. PICK from, to \in {"ACTIVE", "SUSPENDED"} :
          /\ Turn(p, from, to)
          /\ \/ from = "ACTIVE" /\ to = "SUSPENDED" /\ proc[p].pc = "suspend"
             \/ from = "SUSPENDED" /\ to = "ACTIVE" /\ proc[p].pc = "reactivate"
    BY <1>12 DEF SuspendEntitlements, ReactivateEntitlements
  <2> DEFINE d == {x \in history.restored : x[1] # id}
  <2>2. /\ id \in Sub /\ UNCHANGED sub /\ Finish(p)
        /\ ent'[id] = [k \in Period |-> IF ent[id][k] = from THEN to ELSE ent[id][k]]
        /\ \A t \in Sub \ {id} : ent'[t] = ent[t]
        /\ history' = [history EXCEPT !.restored = d]
    BY <1>1, <1>2, <2>1 DEF Turn
  <2>3. d \in SUBSET (Sub \X Period) BY <1>1 DEF Histories
  <2>4. /\ history'.restored = d /\ history'.crossed = history.crossed
        /\ history'.cut = history.cut
    BY <1>1, <2>2, <2>3, RestoredNotes
  <2>5. /\ \A q \in Proc \ {p} : proc'[q] = proc[q]
        /\ proc'[p].pc = "idle" /\ proc'[p].id = NoSub
    BY <1>1, <2>2, FinishMoves
  <2>6. p \in Following(id) /\ p \notin Following(id)' BY <2>1, <2>5 DEF Following
  <2>7. Ready(proc[p].pc, id) => Settled(id)' BY <2>1, <2>2 DEF Ready, Settled
  <2>8. Astray(id) => Astray(id)' BY <2>4 DEF Astray
  <2>9. Followed(id)' BY <1>3, <2>2, <2>5, <2>6, <2>7, <2>8, DoneFollows
  <2>10. \A t \in Sub \ {id} : Followed(t)'
    <3>1. ASSUME NEW t \in Sub \ {id}, NEW k \in Period, <<t, k>> \in history.restored
          PROVE  <<t, k>> \in history'.restored
      BY <2>4, <3>1
    <3>2. QED BY <1>5, <2>2, <2>4, <2>5, <3>1 DEF Astray
  <2>11. QED BY <2>9, <2>10 DEF AllFollowed
<1>13. CASE Renew(p)
  <2>1. proc[p].pc = "renew" /\ id \in Sub /\ UNCHANGED ent /\ Goto(p, "loadActivate") /\ Paid(id)
    BY <1>2, <1>13 DEF Renew
  <2>2. \A u \in Sub : sub'[u].status = sub[u].status
    BY <1>1, <1>4, <1>13, <2>1 DEF Renew, Subs
  <2>3. /\ \A q \in Proc \ {p} : proc'[q] = proc[q]
        /\ proc'[p].pc = "loadActivate" /\ proc'[p].id = id
    BY <1>1, <2>1, GotoMoves DEF Pc
  <2>4. QED BY <1>1, <2>1, <2>2, <2>3, QuietFollow
<1>14. CASE SaveAdjust(p)
  <2> DEFINE n == proc[p].n
             d == history.restored \cup {<<id, n>>}
  <2>1. /\ proc[p].pc = "saveAdjust" /\ id \in Sub /\ n \in Period /\ UNCHANGED sub /\ Finish(p)
        /\ history' = [history EXCEPT !.restored = d]
    BY <1>2, <1>14 DEF SaveAdjust, IInv, Known
  <2>2. d \in SUBSET (Sub \X Period) BY <1>1, <2>1 DEF Histories
  <2>3. /\ history'.restored = d /\ history'.crossed = history.crossed
        /\ history'.cut = history.cut
    BY <1>1, <2>1, <2>2, RestoredNotes
  <2>4. /\ \A q \in Proc \ {p} : proc'[q] = proc[q]
        /\ proc'[p].pc = "idle" /\ proc'[p].id = NoSub
    BY <1>1, <2>1, FinishMoves
  <2>5. \A t \in Sub, k \in Period :
          ent'[t][k] = IF t = id /\ k = n THEN "ACTIVE" ELSE ent[t][k]
    BY <1>1, <1>14, <2>1 DEF SaveAdjust
  <2>6. ASSUME NEW t \in Sub PROVE Followed(t)'
    <3>1. p \notin Following(t) /\ p \notin Following(t)' BY <2>1, <2>4 DEF Following
    <3>2. Following(t)' = Following(t) BY <2>4, <3>1, SameFollowing
    <3>3. \A q \in Following(t) : proc'[q].pc = proc[q].pc BY <2>4, <3>1 DEF Following
    <3>4. Astray(t) => Astray(t)' BY <2>3 DEF Astray
    <3>5. ASSUME NEW k \in Period
          PROVE  /\ ent'[t][k] = "SUSPENDED" => ent[t][k] = "SUSPENDED"
                 /\ ent'[t][k] = "ACTIVE" => ent[t][k] = "ACTIVE" \/ <<t, k>> \in history'.restored
                 /\ <<t, k>> \in history.restored => <<t, k>> \in history'.restored
      BY <2>3, <2>5
    <3>6. QED BY <1>3, <2>1, <3>2, <3>3, <3>4, <3>5, Undisturbed
  <2>7. QED BY <2>6 DEF AllFollowed
<1>15. QED
  BY <1>7, <1>8, <1>9, <1>10, <1>11, <1>12, <1>13, <1>14

LEMMA FollowContinue ==
  ASSUME IInv, Begun, AllFollowed, NEW p \in Proc, Continue(p)
  PROVE  AllFollowed'
<1>1. CASE \E s \in Sub : Create(p, s) BY <1>1, FollowCreate
<1>2. CASE ~\E s \in Sub : Create(p, s)
  <2>1. proc[p].pc \notin {"idle", "create"}
    BY <1>2 DEF Continue, Order, Claim, LoadActivate, SaveActivate, FindEnt, CreateEnt, SaveCancel,
                SavePause, SaveResume, SuspendEntitlements, ReactivateEntitlements, Invoice, Renew,
                SaveAdjust
  <2>2. proc[p].id \in Sub BY <2>1 DEF IInv, Known
  <2>3. QED BY <1>2, <2>2, FollowOwn DEF Continue
<1>3. QED BY <1>1, <1>2

LEMMA FollowWorld ==
  ASSUME IInv, AllFollowed,
         \/ \E p \in Proc : Fail(p)
         \/ \E s \in Sub : \/ CancelAtPeriodEnd(s) \/ ExpireEntitlements(s) \/ Capture(s)
                           \/ PeriodPasses(s) \/ \E k \in Period : Exhaust(s, k)
         \/ UNCHANGED vars
  PROVE  AllFollowed'
<1>1. /\ TypeOK /\ sub \in [Sub -> Subs] /\ ent \in [Sub -> [Period -> EntStatus]]
      /\ history \in Histories /\ proc \in [Proc -> Procs]
  BY DEF IInv, TypeOK
<1>2. \A s \in Sub : Followed(s) BY DEF AllFollowed
<1>3. ASSUME NEW p \in Proc, Fail(p) PROVE AllFollowed'
  <2> DEFINE d == history.cut \cup ({proc[p].id} \ {NoSub})
  <2>1. /\ \A q \in Proc \ {p} : proc'[q] = proc[q]
        /\ proc'[p].pc = "idle" /\ UNCHANGED <<sub, ent>> /\ history' = [history EXCEPT !.cut = d]
    BY <1>1, <1>3, FinishMoves DEF Fail, docs
  <2>2. /\ history'.restored = history.restored /\ history'.crossed = history.crossed
        /\ history'.cut = d
    BY <1>1, <2>1 DEF Histories
  <2>3. ASSUME NEW s \in Sub PROVE Followed(s)'
    <3>1. CASE proc[p].id = s
      <4>1. s \in history'.cut BY <2>2, <3>1, SubAssumption
      <4>2. QED BY <4>1 DEF Followed, Astray
    <3>2. CASE proc[p].id # s
      <4>1. p \notin Following(s) /\ p \notin Following(s)' BY <2>1, <3>2 DEF Following
      <4>2. Following(s)' = Following(s) BY <2>1, <4>1, SameFollowing
      <4>3. \A q \in Following(s) : proc'[q].pc = proc[q].pc BY <2>1, <4>1 DEF Following
      <4>4. Astray(s) => Astray(s)' BY <2>2 DEF Astray
      <4>5. QED BY <1>2, <2>1, <2>2, <4>2, <4>3, <4>4, Undisturbed
    <3>3. QED BY <3>1, <3>2
  <2>4. QED BY <2>3 DEF AllFollowed
\* The handlers and the history are left.
<1>4. ASSUME UNCHANGED <<proc, history>>, \A s \in Sub : sub'[s].status = sub[s].status,
             \A s \in Sub, k \in Period : \/ ent'[s][k] = ent[s][k]
                                        \/ ent'[s][k] \in {"EXPIRED", "EXHAUSTED"}
      PROVE  AllFollowed'
  <2>1. ASSUME NEW s \in Sub PROVE Followed(s)'
    <3>1. Following(s)' = Following(s) BY <1>4 DEF Following
    <3>2. Astray(s) => Astray(s)' BY <1>4 DEF Astray
    <3>3. ASSUME NEW k \in Period
          PROVE  /\ ent'[s][k] = "SUSPENDED" => ent[s][k] = "SUSPENDED"
                 /\ ent'[s][k] = "ACTIVE" => ent[s][k] = "ACTIVE" \/ <<s, k>> \in history'.restored
                 /\ <<s, k>> \in history.restored => <<s, k>> \in history'.restored
      BY <1>4
    <3>4. QED BY <1>2, <1>4, <3>1, <3>2, <3>3, Undisturbed
  <2>2. QED BY <2>1 DEF AllFollowed
<1>5. ASSUME NEW s \in Sub,
             \/ CancelAtPeriodEnd(s) \/ ExpireEntitlements(s) \/ Capture(s)
             \/ PeriodPasses(s) \/ \E k \in Period : Exhaust(s, k)
      PROVE  AllFollowed'
  <2>1. CASE CancelAtPeriodEnd(s) \/ PeriodPasses(s)
    <3>1. \A t \in Sub : sub'[t].status = sub[t].status
      BY <1>1, <2>1 DEF CancelAtPeriodEnd, PeriodPasses, Subs
    <3>2. QED BY <1>4, <2>1, <3>1 DEF CancelAtPeriodEnd, PeriodPasses
  <2>2. CASE Capture(s) BY <1>4, <2>2 DEF Capture, docs
  <2>3. CASE ExpireEntitlements(s)
    <3>1. \A t \in Sub, k \in Period : ent'[t][k] = ent[t][k] \/ ent'[t][k] = "EXPIRED"
      BY <1>1, <2>3 DEF ExpireEntitlements
    <3>2. QED BY <1>4, <2>3, <3>1 DEF ExpireEntitlements
  <2>4. ASSUME NEW k \in Period, Exhaust(s, k) PROVE AllFollowed'
    <3>1. \A t \in Sub, j \in Period : ent'[t][j] = ent[t][j] \/ ent'[t][j] = "EXHAUSTED"
      BY <1>1, <2>4 DEF Exhaust
    <3>2. QED BY <1>4, <2>4, <3>1 DEF Exhaust
  <2>5. QED BY <1>5, <2>1, <2>2, <2>3, <2>4
<1>6. CASE UNCHANGED vars BY <1>4, <1>6 DEF vars, docs
<1>7. QED BY <1>3, <1>5, <1>6

LEMMA NextFollowed == IInv /\ Begun /\ AllFollowed /\ [Next]_vars => AllFollowed'
  BY FollowBegin, FollowContinue, FollowWorld DEF Next

LEMMA FollowedInvariance == Spec => [](IInv /\ Begun /\ AllFollowed)
<1>1. Init => IInv /\ Begun /\ AllFollowed BY InitIInv, InitBegun, FollowsAtFirst
<1>2. IInv /\ Begun /\ AllFollowed /\ [Next]_vars => (IInv /\ Begun /\ AllFollowed)'
  BY NextIInv, NextBegun, NextFollowed
<1>3. QED BY <1>1, <1>2, PTL DEF Spec

\* For any number of subscriptions, periods and handlers in flight together: the
\* entitlements of a subscription that is paused or cancelled are not on offer,
\* but those an administrator brought back, and those of one that is on are not
\* suspended, once the handlers that saved its status are done; unless one of
\* them was cut off or a status was saved before another one was done.
THEOREM EntitlementsFollow == Spec => []BenefitsFollow
<1>1. AllFollowed => BenefitsFollow
  BY DEF AllFollowed, Followed, Astray, Settled, BenefitsFollow
<1>2. QED BY <1>1, FollowedInvariance, PTL
=============================================================================
