------------------------- MODULE UrgentWaves_proofs -------------------------
(***************************************************************************)
(* Type correctness of UrgentWaves and that a session is advanced by one   *)
(* function at a time, for any number of functions, providers, sessions    *)
(* and restarts.                                                           *)
(***************************************************************************)
EXTENDS UrgentWaves, FiniteSetTheorems, TLAPS

\* Where a function that advances a session is, and which have a session.
Fits(w) ==
  /\ w.own # None => w.pc \in RingPc \cup {"countOpen", "clear"}
  /\ w.pc \in {"countOpen", "clear"} => w.own \in Session
  /\ w.pc \in {"match", "insert", "notify", "schedule", "count", "retry"} => w.sid \in Session

Owner == \A p \in Proc : Fits(proc[p])

IInv == TypeOK /\ Owner /\ AdvanceAlone

\* Names of places and values.
LEMMA PcType ==
  /\ Idle \in Procs /\ Idle.pc = "idle" /\ Idle.own = None /\ Fits(Idle)
  /\ NewSession \in Sessions /\ NewSession.advancing = FALSE
  /\ None \notin Session
  BY BoundsAssumption
     DEF Idle, Procs, Pc, RingPc, TimeoutPc, Fits, NewSession, Sessions, None, Session

LEMMA Typed ==
  ASSUME IInv
  PROVE  /\ request \in RequestDocs /\ target \in [Provider -> TargetStatus]
         /\ cur \in {None} \cup Session /\ restarts \in 0..MaxRestarts /\ threw \in BOOLEAN
         /\ sess \in [Session -> Sessions] /\ proc \in [Proc -> Procs]
         /\ \A s \in Session : /\ sess[s] \in Sessions /\ sess[s].advancing \in BOOLEAN
                               /\ sess[s].timer \in SUBSET Provider
         /\ \A p \in Proc : /\ proc[p] \in Procs /\ Fits(proc[p]) /\ proc[p].pc \in Pc
                             /\ proc[p].own \in {None} \cup Session
                             /\ proc[p].sid \in {None} \cup Session
                             /\ proc[p].batch \in SUBSET Provider
                             /\ proc[p].left \in SUBSET Provider
  BY DEF IInv, TypeOK, Owner, Sessions, Procs

-----------------------------------------------------------------------------
(* Functions move.                                                            *)

LEMMA Moves ==
  ASSUME IInv, NEW p \in Proc, NEW w \in Procs, proc' = [proc EXCEPT ![p] = w]
  PROVE  /\ proc' \in [Proc -> Procs] /\ proc'[p] = w
         /\ \A q \in Proc \ {p} : proc'[q] = proc[q]
  BY Typed

LEMMA GotoMoves ==
  ASSUME IInv, NEW p \in Proc, NEW pc \in Pc, Goto(p, pc)
  PROVE  /\ proc' \in [Proc -> Procs] /\ \A q \in Proc \ {p} : proc'[q] = proc[q]
         /\ proc'[p].pc = pc /\ proc'[p].own = proc[p].own /\ proc'[p].sid = proc[p].sid
<1> DEFINE w == [proc[p] EXCEPT !.pc = pc]
<1>1. w \in Procs /\ w.pc = pc /\ w.own = proc[p].own /\ w.sid = proc[p].sid
  BY Typed DEF Procs
<1>2. proc' = [proc EXCEPT ![p] = w] BY DEF Goto
<1>3. QED BY <1>1, <1>2, Moves

LEMMA FinishMoves ==
  ASSUME IInv, NEW p \in Proc, Finish(p)
  PROVE  /\ proc' \in [Proc -> Procs] /\ \A q \in Proc \ {p} : proc'[q] = proc[q]
         /\ proc'[p].own = None /\ Fits(proc'[p])
  BY PcType, Moves DEF Finish

LEMMA SpawnMoves ==
  ASSUME IInv, NEW p \in Proc,
         NEW pc \in {"load", "continue", "stop"}, Spawn(p, pc)
  PROVE  /\ proc' \in [Proc -> Procs] /\ \A q \in Proc \ {p} : proc'[q] = proc[q]
         /\ proc'[p].own = None /\ Fits(proc'[p])
<1> DEFINE w == [Idle EXCEPT !.pc = pc]
<1>1. pc \in Pc BY DEF Pc, RingPc
<1>2. w \in Procs /\ w.pc = pc /\ w.own = None BY <1>1, PcType DEF Procs, Idle
<1>3. Fits(w) BY <1>2 DEF Fits
<1>4. proc' = [proc EXCEPT ![p] = w] BY DEF Spawn
<1>5. QED BY <1>2, <1>3, <1>4, Moves

-----------------------------------------------------------------------------
(* The flags of the sessions.                                                 *)

LEMMA FreshUnused ==
  ASSUME IInv, Unused # {}
  PROVE  Fresh \in Session /\ Fresh # cur /\ sess[Fresh].advancing = FALSE
<1>1. Fresh \in Unused BY Zenon DEF Fresh
<1>2. Fresh \in Session /\ ~Used(Fresh) BY <1>1 DEF Unused
<1>3. {p \in Proc : proc[p].own = Fresh} = {} BY <1>2 DEF Used
<1>4. ~sess[Fresh].advancing BY <1>2, <1>3 DEF IInv, AdvanceAlone
<1>5. sess[Fresh].advancing \in BOOLEAN BY <1>2, Typed
<1>6. Fresh # cur BY <1>2 DEF Used
<1>7. QED BY <1>2, <1>4, <1>5, <1>6

LEMMA Clearing ==
  ASSUME NEW w \in Sessions
  PROVE  Cleared(w) \in Sessions /\ Cleared(w).advancing = w.advancing
  BY DEF Cleared, Sessions

LEMMA Releasing ==
  ASSUME IInv, NEW p \in Proc
  PROVE  /\ Released(sess, p) \in [Session -> Sessions]
         /\ proc[p].own = None => Released(sess, p) = sess
         /\ \A s \in Session :
              Released(sess, p)[s].advancing <=> sess[s].advancing /\ s # proc[p].own
<1> DEFINE o == proc[p].own
<1>1. CASE o = None
  <2>1. Released(sess, p) = sess BY <1>1 DEF Released
  <2>2. QED BY <1>1, <2>1, Typed, PcType
<1>2. CASE o \in Session
  <2> DEFINE w == [sess[o] EXCEPT !.advancing = FALSE]
  <2>1. w \in Sessions /\ w.advancing = FALSE BY <1>2, Typed DEF Sessions
  <2>2. Released(sess, p) = [sess EXCEPT ![o] = w]
    BY <1>2, PcType DEF Released
  <2> HIDE DEF w
  <2>3. QED BY <1>2, <2>1, <2>2, Typed, PcType
<1>3. QED BY <1>1, <1>2, Typed

LEMMA Stopping ==
  ASSUME IInv, NEW S \in [Session -> Sessions], StopIn(S)
  PROVE  /\ cur' = None /\ sess' \in [Session -> Sessions]
         /\ \A s \in Session : sess'[s].advancing = S[s].advancing
<1>1. CASE cur = None
  BY <1>1 DEF StopIn
<1>2. CASE cur \in Session
  <2> DEFINE w == Cleared(S[cur])
  <2>1. w \in Sessions /\ w.advancing = S[cur].advancing BY <1>2, Clearing
  <2>2. sess' = [S EXCEPT ![cur] = w] /\ cur' = None BY <1>2, PcType DEF StopIn
  <2> HIDE DEF w
  <2>3. QED BY <1>2, <2>1, <2>2
<1>3. QED BY <1>1, <1>2, Typed

\* getSession: the session held, and whose flags it leaves.
LEMMA Opening ==
  ASSUME IInv, MayHold, NEW S \in [Session -> Sessions],
         \A s \in Session : S[s].advancing => sess[s].advancing
  PROVE  /\ Held \in Session /\ Opened(S) \in [Session -> Sessions]
         /\ \A s \in Session : Opened(S)[s].advancing <=> S[s].advancing
<1>1. CASE cur # None
  BY <1>1, Typed DEF Held, Opened
<1>2. CASE cur = None
  <2>1. Unused # {} BY <1>2 DEF MayHold
  <2>2. Fresh \in Session /\ sess[Fresh].advancing = FALSE BY <2>1, FreshUnused
  <2>3. ~S[Fresh].advancing BY <2>2
  <2>4. Held = Fresh /\ Opened(S) = [S EXCEPT ![Fresh] = NewSession]
    BY <1>2 DEF Held, Opened
  <2>5. QED BY <2>2, <2>3, <2>4, PcType
<1>3. QED BY <1>1, <1>2

\* What a step of p does to its session and to the flags.
Carries(p) ==
  /\ proc'[p].own = proc[p].own
  /\ \A s \in Session : sess'[s].advancing <=> sess[s].advancing
Returns(p) ==
  /\ proc'[p].own = None
  /\ \A s \in Session : sess'[s].advancing <=> sess[s].advancing /\ s # proc[p].own
Takes(p) ==
  /\ proc[p].own = None /\ proc'[p].own \in Session
  /\ ~sess[proc'[p].own].advancing
  /\ \A s \in Session : sess'[s].advancing <=> sess[s].advancing \/ s = proc'[p].own

LEMMA Alone ==
  ASSUME IInv, NEW p \in Proc, \A q \in Proc \ {p} : proc'[q] = proc[q],
         Carries(p) \/ Returns(p) \/ Takes(p)
  PROVE  AdvanceAlone'
<1> SUFFICES ASSUME NEW s \in Session
             PROVE  LET on == {q \in Proc : proc'[q].own = s} IN
                      /\ sess'[s].advancing <=> on # {}
                      /\ \A q, r \in on : q = r
  BY DEF AdvanceAlone
<1> DEFINE was == {q \in Proc : proc[q].own = s}
           on == {q \in Proc : proc'[q].own = s}
<1>1. (sess[s].advancing <=> was # {}) /\ \A q, r \in was : q = r
  BY DEF IInv, AdvanceAlone
<1>2. s # None BY PcType
<1>3. CASE Carries(p)
  <2>1. on = was BY <1>3 DEF Carries
  <2>2. sess'[s].advancing <=> sess[s].advancing BY <1>3 DEF Carries
  <2>3. QED BY <1>1, <2>1, <2>2
<1>4. CASE Returns(p)
  <2>1. on = was \ {p} BY <1>2, <1>4 DEF Returns
  <2>2. sess'[s].advancing <=> sess[s].advancing /\ s # proc[p].own BY <1>4 DEF Returns
  <2>3. s = proc[p].own => p \in was OBVIOUS
  <2>4. s # proc[p].own => p \notin was OBVIOUS
  <2>5. QED BY <1>1, <2>1, <2>2, <2>3, <2>4
<1>5. CASE Takes(p)
  <2>1. p \notin was BY <1>2, <1>5 DEF Takes
  <2>2. CASE s = proc'[p].own
    <3>1. ~sess[s].advancing /\ sess'[s].advancing BY <1>5, <2>2 DEF Takes
    <3>2. was = {} BY <1>1, <3>1
    <3>3. on = {p} BY <2>2, <3>2
    <3>4. QED BY <3>1, <3>3
  <2>3. CASE s # proc'[p].own
    <3>1. on = was BY <2>1, <2>3
    <3>2. sess'[s].advancing <=> sess[s].advancing BY <1>5, <2>3 DEF Takes
    <3>3. QED BY <1>1, <3>1, <3>2
  <2>4. QED BY <2>2, <2>3
<1>6. QED BY <1>3, <1>4, <1>5


\* What every step of p leaves.
Leaves(p) ==
  /\ cur' \in {None} \cup Session /\ sess' \in [Session -> Sessions]
  /\ proc' \in [Proc -> Procs] /\ \A q \in Proc \ {p} : proc'[q] = proc[q]
  /\ Fits(proc'[p])
  /\ Carries(p) \/ Returns(p) \/ Takes(p)

\* A step of p keeps the invariant.
LEMMA StepKeeps ==
  ASSUME IInv, NEW p \in Proc, Leaves(p),
         request' \in RequestDocs, target' \in [Provider -> TargetStatus],
         restarts' \in 0..MaxRestarts, threw' \in BOOLEAN
  PROVE  IInv'
<1>1. TypeOK' BY DEF TypeOK, Leaves
<1>2. \A q \in Proc : Fits(proc'[q]) BY Typed DEF Leaves
<1>3. Owner' BY <1>2 DEF Owner, Fits
<1>4. AdvanceAlone' BY Alone DEF Leaves
<1>5. QED BY <1>1, <1>3, <1>4 DEF IInv

\* The session objects stay, p goes on.
LEMMA GoesOn ==
  ASSUME IInv, NEW p \in Proc, UNCHANGED Memory,
         proc' \in [Proc -> Procs], \A q \in Proc \ {p} : proc'[q] = proc[q],
         proc'[p].own = proc[p].own, Fits(proc'[p])
  PROVE  Leaves(p)
<1>1. UNCHANGED <<cur, sess>> BY DEF Memory
<1>2. QED BY <1>1, Typed DEF Leaves, Carries

LEMMA DoneStep ==
  ASSUME IInv, NEW p \in Proc, Done(p)
  PROVE  Leaves(p)
<1>1. sess' = Released(sess, p) /\ Finish(p) /\ UNCHANGED cur BY DEF Done
<1>2. Returns(p) BY <1>1, FinishMoves, Releasing DEF Returns
<1>3. QED BY <1>1, <1>2, FinishMoves, Releasing, Typed DEF Leaves

LEMMA StopStep ==
  ASSUME IInv, NEW p \in Proc, StopIn(Released(sess, p)), Finish(p)
  PROVE  Leaves(p)
<1>1. Released(sess, p) \in [Session -> Sessions] BY Releasing
<1>2. /\ cur' = None /\ sess' \in [Session -> Sessions]
      /\ \A s \in Session : sess'[s].advancing = Released(sess, p)[s].advancing
  BY <1>1, Stopping
<1>3. Returns(p) BY <1>2, FinishMoves, Releasing DEF Returns
<1>4. QED BY <1>2, <1>3, FinishMoves DEF Leaves

LEMMA AdvanceStep ==
  ASSUME IInv, NEW p \in Proc, proc[p].own = None, Advance(p)
  PROVE  Leaves(p)
<1>1. CASE Finish(p) /\ UNCHANGED sess
  <2>1. UNCHANGED cur BY DEF Advance
  <2>2. Carries(p) BY <1>1, FinishMoves DEF Carries
  <2>3. QED BY <1>1, <2>1, <2>2, FinishMoves, Typed DEF Leaves
<1>2. CASE ~(cur = None \/ (cur # None /\ sess[cur].advancing))
  <2> DEFINE w == [Idle EXCEPT !.pc = "countOpen", !.own = cur]
             v == [sess[cur] EXCEPT !.advancing = TRUE]
  <2>1. cur \in Session /\ ~sess[cur].advancing BY <1>2, Typed
  <2>2. /\ sess' = [sess EXCEPT ![cur] = v] /\ proc' = [proc EXCEPT ![p] = w]
        /\ UNCHANGED cur
    BY <1>2 DEF Advance
  <2>3. w \in Procs /\ w.pc = "countOpen" /\ w.own = cur
    BY <2>1, PcType DEF Procs, Idle, Pc
  <2>4. v \in Sessions /\ v.advancing = TRUE BY <2>1, Typed DEF Sessions
  <2>5. Fits(w) BY <2>1, <2>3 DEF Fits
  <2> HIDE DEF w, v
  <2>6. proc' \in [Proc -> Procs] /\ proc'[p] = w /\ \A q \in Proc \ {p} : proc'[q] = proc[q]
    BY <2>2, <2>3, Moves
  <2>7. sess' \in [Session -> Sessions]
        /\ \A s \in Session : sess'[s].advancing <=> sess[s].advancing \/ s = cur
    BY <2>1, <2>2, <2>4, Typed
  <2>8. Takes(p) BY <2>1, <2>3, <2>6, <2>7 DEF Takes
  <2>9. QED BY <2>2, <2>5, <2>6, <2>7, <2>8, Typed DEF Leaves
<1>3. QED BY <1>1, <1>2 DEF Advance

LEMMA ScheduleStep ==
  ASSUME IInv, NEW p \in Proc, MayHold, NEW invited \in SUBSET Provider,
         ScheduleTimeout(p, invited)
  PROVE  Leaves(p)
<1> DEFINE S == Opened(Released(sess, p))
           v == [Cleared(S[Held]) EXCEPT !.timer = invited]
<1>1. /\ Held \in Session /\ S \in [Session -> Sessions]
      /\ \A s \in Session : S[s].advancing <=> Released(sess, p)[s].advancing
  BY Releasing, Opening
<1>2. v \in Sessions /\ v.advancing = S[Held].advancing
  <2>1. Cleared(S[Held]) \in Sessions /\ Cleared(S[Held]).advancing = S[Held].advancing
    BY <1>1, Clearing
  <2>2. QED BY <2>1 DEF Sessions
<1>3. cur' = Held /\ sess' = [S EXCEPT ![Held] = v] /\ Finish(p)
  BY DEF ScheduleTimeout
<1> HIDE DEF v, S
<1>4. sess' \in [Session -> Sessions]
      /\ \A s \in Session : sess'[s].advancing = S[s].advancing
  BY <1>1, <1>2, <1>3
<1>5. Returns(p) BY <1>1, <1>3, <1>4, FinishMoves, Releasing DEF Returns, S
<1>6. QED BY <1>1, <1>3, <1>4, <1>5, FinishMoves DEF Leaves

-----------------------------------------------------------------------------
(* The invariant.                                                             *)

LEMMA InitIInv == Init => IInv
<1> SUFFICES ASSUME Init PROVE IInv
  OBVIOUS
<1> DEFINE w == [Idle EXCEPT !.pc = "startSave"]
<1>1. w \in Procs /\ w.pc = "startSave" /\ w.own = None BY PcType DEF Procs, Idle, Pc
<1>2. Fits(w) BY <1>1, PcType DEF Fits
<1> HIDE DEF w
<1>3. PICK p \in Proc : proc = [q \in Proc |-> IF q = p THEN w ELSE Idle]
  BY DEF Init, w
<1>4. proc \in [Proc -> Procs] /\ Owner /\ \A q \in Proc : proc[q].own = None
  BY <1>1, <1>2, <1>3, PcType DEF Owner
<1>5. TypeOK
  <2>1. request \in RequestDocs BY DEF Init, RequestDocs
  <2>2. target \in [Provider -> TargetStatus] BY DEF Init, TargetStatus
  <2>3. cur \in {None} \cup Session /\ threw \in BOOLEAN BY DEF Init
  <2>4. sess \in [Session -> Sessions] BY PcType DEF Init
  <2>5. restarts \in 0..MaxRestarts BY BoundsAssumption DEF Init
  <2>6. QED BY <1>4, <2>1, <2>2, <2>3, <2>4, <2>5 DEF TypeOK
<1>6. AdvanceAlone BY <1>4, PcType DEF AdvanceAlone, Init
<1>7. QED BY <1>4, <1>5, <1>6 DEF IInv

\* runRingNextProvider, between its awaits.
LEMMA RingKeeps ==
  ASSUME IInv, NEW p \in Proc, Ring(p)
  PROVE  IInv'
<1> DEFINE own == proc[p].own
<1>1. Fits(proc[p]) /\ proc[p] \in Procs BY Typed
<1>2. CASE Load(p)
  <2>1. Leaves(p)
    <3>1. CASE StopIn(Released(sess, p)) /\ Finish(p) BY <3>1, StopStep
    <3>2. CASE /\ MayHold /\ cur' = Held
               /\ sess' = [Opened(sess) EXCEPT ![Held] = Cleared(@)]
               /\ proc' = [proc EXCEPT ![p] = [@ EXCEPT !.pc = "match", !.sid = Held]]
      <4> DEFINE w == [proc[p] EXCEPT !.pc = "match", !.sid = Held]
                 S == Opened(sess)
                 v == Cleared(S[Held])
      <4>1. /\ Held \in Session /\ S \in [Session -> Sessions]
            /\ \A s \in Session : S[s].advancing <=> sess[s].advancing
        BY <3>2, Opening, Typed
      <4>2. v \in Sessions /\ v.advancing = S[Held].advancing BY <4>1, Clearing
      <4>3. w \in Procs /\ w.pc = "match" /\ w.own = own /\ w.sid = Held
        BY <1>1, <4>1 DEF Procs, Pc, RingPc
      <4>4. Fits(w) BY <1>1, <1>2, <4>1, <4>3 DEF Fits, RingPc
      <4>5. sess' = [S EXCEPT ![Held] = v] /\ proc' = [proc EXCEPT ![p] = w] BY <3>2
      <4> HIDE DEF v, w
      <4>6. sess' \in [Session -> Sessions]
            /\ \A s \in Session : sess'[s].advancing = S[s].advancing
        BY <4>1, <4>2, <4>5
      <4>7. proc' \in [Proc -> Procs] /\ proc'[p] = w
            /\ \A q \in Proc \ {p} : proc'[q] = proc[q]
        BY <4>3, <4>5, Moves
      <4>8. Carries(p) BY <4>1, <4>3, <4>6, <4>7 DEF Carries
      <4>9. QED BY <3>2, <4>1, <4>4, <4>6, <4>7, <4>8 DEF Leaves
    <3>3. QED BY <1>2, <3>1, <3>2 DEF Load
  <2>2. QED BY <1>2, <2>1, StepKeeps, Typed DEF Load
<1>3. CASE Match(p)
  <2>1. PICK found \in SUBSET Provider :
          proc' = [proc EXCEPT ![p] = [@ EXCEPT !.pc = IF found = {} THEN "count" ELSE "insert",
                                                !.batch = found]]
    BY <1>3 DEF Match
  <2> DEFINE pc == IF found = {} THEN "count" ELSE "insert"
             w == [proc[p] EXCEPT !.pc = pc, !.batch = found]
  <2>2. pc \in {"count", "insert"} /\ pc \in Pc BY DEF Pc, RingPc
  <2> HIDE DEF pc
  <2>3. w \in Procs /\ w.pc = pc /\ w.own = own /\ w.sid = proc[p].sid
    BY <1>1, <2>2 DEF Procs
  <2>4. Fits(w) BY <1>1, <1>3, <2>2, <2>3 DEF Fits, RingPc, Match
  <2>5. proc' = [proc EXCEPT ![p] = w] BY <2>1 DEF pc
  <2> HIDE DEF w
  <2>6. Leaves(p) BY <1>3, <2>3, <2>4, <2>5, Moves, GoesOn DEF Match
  <2>7. QED BY <1>3, <2>6, StepKeeps, Typed DEF Match
<1>4. CASE CountOpen(p)
  <2>1. Leaves(p)
    <3>1. CASE Done(p) BY <3>1, DoneStep
    <3>2. ASSUME NEW pc \in {"retry", "expire"}, Goto(p, pc), UNCHANGED Memory
          PROVE  Leaves(p)
      <4>1. pc \in Pc BY DEF Pc, RingPc
      <4>2. /\ proc' \in [Proc -> Procs] /\ \A q \in Proc \ {p} : proc'[q] = proc[q]
            /\ proc'[p].pc = pc /\ proc'[p].own = own /\ proc'[p].sid = proc[p].sid
        BY <3>2, <4>1, GotoMoves
      <4>3. Fits(proc'[p]) BY <1>1, <1>4, <4>2 DEF Fits, RingPc, CountOpen
      <4>4. QED BY <3>2, <4>2, <4>3, GoesOn
    <3>3. QED BY <1>4, <3>1, <3>2 DEF CountOpen
  <2>2. QED BY <1>4, <2>1, StepKeeps, Typed DEF CountOpen
<1>5. CASE ArmRetry(p)
  <2> DEFINE S == Released(sess, p)
             v == [S[proc[p].sid] EXCEPT !.retry = TRUE]
  <2>1. proc[p].sid \in Session BY <1>1, <1>5 DEF Fits, ArmRetry
  <2>2. S \in [Session -> Sessions]
        /\ \A s \in Session : S[s].advancing <=> sess[s].advancing /\ s # own
    BY Releasing
  <2>3. v \in Sessions /\ v.advancing = S[proc[p].sid].advancing BY <2>1, <2>2 DEF Sessions
  <2>4. sess' = [S EXCEPT ![proc[p].sid] = v] /\ Finish(p) /\ UNCHANGED cur
    BY <1>5 DEF ArmRetry
  <2> HIDE DEF v, S
  <2>5. sess' \in [Session -> Sessions]
        /\ \A s \in Session : sess'[s].advancing = S[s].advancing
    BY <2>1, <2>2, <2>3, <2>4
  <2>6. Returns(p) BY <2>2, <2>4, <2>5, FinishMoves DEF Returns
  <2>7. Leaves(p) BY <2>4, <2>5, <2>6, FinishMoves, Typed DEF Leaves
  <2>8. QED BY <1>5, <2>7, StepKeeps, Typed DEF ArmRetry
<1>6. CASE ExpireNoProviders(p)
  <2>1. "stopLate" \in Pc BY DEF Pc, RingPc
  <2>2. /\ proc' \in [Proc -> Procs] /\ \A q \in Proc \ {p} : proc'[q] = proc[q]
        /\ proc'[p].pc = "stopLate" /\ proc'[p].own = own
    BY <1>6, <2>1, GotoMoves DEF ExpireNoProviders
  <2>3. Fits(proc'[p]) BY <1>1, <1>6, <2>2 DEF Fits, RingPc, ExpireNoProviders
  <2>4. Leaves(p) BY <1>6, <2>2, <2>3, GoesOn DEF ExpireNoProviders
  <2>5. request' \in RequestDocs BY <1>6, Typed DEF ExpireNoProviders, RequestDocs
  <2>6. QED BY <1>6, <2>4, <2>5, StepKeeps, Typed DEF ExpireNoProviders
<1>7. CASE StopLate(p)
  BY <1>7, StopStep, StepKeeps, Typed DEF StopLate
<1>8. CASE Insert(p)
  <2> DEFINE new == {P \in proc[p].batch : target[P] = "NONE"}
  <2>1. new \in SUBSET Provider BY Typed
  <2>2. CASE new = proc[p].batch
    <3> DEFINE w == [proc[p] EXCEPT !.pc = "notify", !.left = new]
    <3>1. /\ target' = [P \in Provider |-> IF P \in new THEN "OPEN" ELSE target[P]]
          /\ proc' = [proc EXCEPT ![p] = w]
          /\ UNCHANGED <<request, Memory, restarts, threw>>
      BY <1>8, <2>2 DEF Insert
    <3>2. w \in Procs /\ w.pc = "notify" /\ w.own = own /\ w.sid = proc[p].sid
      BY <1>1, <2>1 DEF Procs, Pc, RingPc
    <3>3. Fits(w) BY <1>1, <1>8, <3>2 DEF Fits, RingPc, Insert
    <3>4. target' \in [Provider -> TargetStatus] BY <3>1, Typed DEF TargetStatus
    <3> HIDE DEF w, new
    <3>5. Leaves(p) BY <3>1, <3>2, <3>3, Moves, GoesOn
    <3>6. QED BY <3>1, <3>4, <3>5, StepKeeps, Typed
  <2>3. CASE new # proc[p].batch
    <3>1. PICK some \in SUBSET new :
            /\ target' = [P \in Provider |-> IF P \in some THEN "OPEN" ELSE target[P]]
            /\ Throws(p) /\ UNCHANGED <<request, restarts>>
      BY <1>8, <2>3 DEF Insert
    <3>2. target' \in [Provider -> TargetStatus] BY <3>1, Typed DEF TargetStatus
    <3>3. QED BY <3>1, <3>2, StopStep, StepKeeps, Typed DEF Throws
  <2>4. QED BY <2>2, <2>3
<1>9. CASE Notify(p)
  <2>1. PICK P \in proc[p].left :
          /\ target' = [target EXCEPT ![P] = "OPEN"]
          /\ proc' = [proc EXCEPT ![p] =
                        [@ EXCEPT !.left = proc[p].left \ {P},
                                  !.pc = IF proc[p].left = {P} THEN "schedule" ELSE "notify"]]
    BY <1>9 DEF Notify
  <2> DEFINE pc == IF proc[p].left = {P} THEN "schedule" ELSE "notify"
             rest == proc[p].left \ {P}
             w == [proc[p] EXCEPT !.left = rest, !.pc = pc]
  <2>2. pc \in {"schedule", "notify"} /\ pc \in Pc BY DEF Pc, RingPc
  <2>3. rest \in SUBSET Provider /\ P \in Provider BY Typed
  <2>4. proc' = [proc EXCEPT ![p] = w] BY <2>1
  <2> HIDE DEF pc, rest
  <2>5. w \in Procs /\ w.pc = pc /\ w.own = own /\ w.sid = proc[p].sid
    BY <1>1, <2>2, <2>3 DEF Procs
  <2>6. Fits(w) BY <1>1, <1>9, <2>2, <2>5 DEF Fits, RingPc, Notify
  <2> HIDE DEF w
  <2>7. Leaves(p) BY <1>9, <2>4, <2>5, <2>6, Moves, GoesOn DEF Notify
  <2>8. target' \in [Provider -> TargetStatus] BY <2>1, <2>3, Typed DEF TargetStatus
  <2>9. QED BY <1>9, <2>7, <2>8, StepKeeps, Typed DEF Notify
<1>10. CASE Schedule(p)
  BY <1>10, ScheduleStep, StepKeeps, Typed DEF Schedule
<1>11. QED
  BY <1>2, <1>3, <1>4, <1>5, <1>6, <1>7, <1>8, <1>9, <1>10 DEF Ring

\* A function that goes on, alone or in an advance, without a session to keep.
LEMMA GoesTo ==
  ASSUME IInv, NEW p \in Proc, UNCHANGED Memory,
         NEW pc \in {"load", "continue", "stop", "readTargets", "clear"}, Goto(p, pc),
         pc = "clear" => proc[p].own \in Session,
         pc \in {"continue", "stop", "readTargets"} => proc[p].own = None
  PROVE  Leaves(p)
<1>1. pc \in Pc BY DEF Pc, RingPc, TimeoutPc
<1>2. /\ proc' \in [Proc -> Procs] /\ \A q \in Proc \ {p} : proc'[q] = proc[q]
      /\ proc'[p].pc = pc /\ proc'[p].own = proc[p].own /\ proc'[p].sid = proc[p].sid
  BY <1>1, GotoMoves
<1>3. Fits(proc'[p]) BY <1>2, PcType DEF Fits, RingPc
<1>4. QED BY <1>2, <1>3, GoesOn

\* startUrgentSearchWaves, advanceToNextBatch, handleBatchTimeout, the recovery
\* and the ends of reject, accept and cancel.
LEMMA OtherKeeps ==
  ASSUME IInv, NEW p \in Proc,
         \/ StartSave(p) \/ StillPending(p) \/ ClearTimers(p) \/ ReadRequest(p)
         \/ ReadTargets(p) \/ ExpireTarget(p) \/ FindSearching(p) \/ FindOpen(p)
         \/ ContinueAfterReject(p) \/ Stop(p)
  PROVE  IInv'
<1>1. Fits(proc[p]) /\ proc[p] \in Procs BY Typed
<1>2. ASSUME proc[p].pc \in TimeoutPc \cup {"startSave", "continue", "stop", "findSearching",
                                            "findOpen"}
      PROVE  proc[p].own = None
  BY <1>1, <1>2 DEF Fits, RingPc, TimeoutPc
<1>3. ASSUME Unused # {}, cur' = Fresh, sess' = [sess EXCEPT ![Fresh] = NewSession]
      PROVE  /\ cur' \in Session /\ sess' \in [Session -> Sessions]
             /\ \A s \in Session : sess'[s].advancing <=> sess[s].advancing
  BY <1>3, FreshUnused, PcType, Typed
<1>4. CASE StartSave(p)
  <2>1. /\ proc[p].own = None /\ Goto(p, "load")
        /\ cur' \in Session /\ sess' \in [Session -> Sessions]
        /\ \A s \in Session : sess'[s].advancing <=> sess[s].advancing
    BY <1>2, <1>3, <1>4 DEF StartSave
  <2>2. "load" \in Pc BY DEF Pc, RingPc
  <2>3. /\ proc' \in [Proc -> Procs] /\ \A q \in Proc \ {p} : proc'[q] = proc[q]
        /\ proc'[p].pc = "load" /\ proc'[p].own = None
    BY <2>1, <2>2, GotoMoves
  <2>4. Fits(proc'[p]) BY <2>3 DEF Fits
  <2>5. Leaves(p) BY <2>1, <2>3, <2>4 DEF Leaves, Carries
  <2>6. QED BY <1>4, <2>5, StepKeeps, Typed DEF StartSave
<1>5. CASE StillPending(p)
  <2>1. proc[p].own \in Session BY <1>1, <1>5 DEF Fits, StillPending
  <2>2. Leaves(p) BY <1>5, <2>1, DoneStep, GoesTo DEF StillPending
  <2>3. QED BY <1>5, <2>2, StepKeeps, Typed DEF StillPending
<1>6. CASE ClearTimers(p)
  <2> DEFINE own == proc[p].own
             v == Cleared(sess[own])
  <2>1. own \in Session BY <1>1, <1>6 DEF Fits, ClearTimers
  <2>2. v \in Sessions /\ v.advancing = sess[own].advancing BY <2>1, Clearing, Typed
  <2>3. sess' = [sess EXCEPT ![own] = v] /\ Goto(p, "load") /\ UNCHANGED cur
    BY <1>6 DEF ClearTimers
  <2> HIDE DEF v
  <2>4. sess' \in [Session -> Sessions]
        /\ \A s \in Session : sess'[s].advancing = sess[s].advancing
    BY <2>1, <2>2, <2>3, Typed
  <2>5. "load" \in Pc BY DEF Pc, RingPc
  <2>6. /\ proc' \in [Proc -> Procs] /\ \A q \in Proc \ {p} : proc'[q] = proc[q]
        /\ proc'[p].pc = "load" /\ proc'[p].own = own
    BY <2>3, <2>5, GotoMoves
  <2>7. Fits(proc'[p]) BY <2>6 DEF Fits, RingPc
  <2>8. Leaves(p) BY <2>3, <2>4, <2>6, <2>7, Typed DEF Leaves, Carries
  <2>9. QED BY <1>6, <2>8, StepKeeps, Typed DEF ClearTimers
<1>7. CASE ReadRequest(p)
  <2>1. proc[p].own = None BY <1>2, <1>7 DEF ReadRequest, TimeoutPc
  <2>2. Released(sess, p) = sess BY <2>1, Releasing
  <2>3. Leaves(p) BY <1>7, <2>1, <2>2, StopStep, GoesTo DEF ReadRequest
  <2>4. QED BY <1>7, <2>3, StepKeeps, Typed DEF ReadRequest
<1>8. CASE ReadTargets(p)
  <2> DEFINE open == proc[p].batch \cap Open
             w == [proc[p] EXCEPT !.pc = "expireTarget", !.left = open]
  <2>1. proc[p].own = None BY <1>2, <1>8 DEF ReadTargets, TimeoutPc
  <2>2. CASE Advance(p) BY <1>8, <2>1, <2>2, AdvanceStep, StepKeeps, Typed DEF ReadTargets
  <2>3. CASE proc' = [proc EXCEPT ![p] = w] /\ UNCHANGED Memory
    <3>1. open \in SUBSET Provider BY Typed
    <3>2. w \in Procs /\ w.pc = "expireTarget" /\ w.own = None
      BY <1>1, <2>1, <3>1 DEF Procs, Pc, TimeoutPc
    <3>3. Fits(w) BY <3>2 DEF Fits
    <3> HIDE DEF w
    <3>4. Leaves(p) BY <2>1, <2>3, <3>2, <3>3, Moves, GoesOn
    <3>5. QED BY <1>8, <3>4, StepKeeps, Typed DEF ReadTargets
  <2>4. QED BY <1>8, <2>2, <2>3 DEF ReadTargets
<1>9. CASE ExpireTarget(p)
  <2>1. proc[p].own = None BY <1>2, <1>9 DEF ExpireTarget, TimeoutPc
  <2>2. PICK P \in proc[p].left :
          /\ target' = [target EXCEPT ![P] = "CLOSED"]
          /\ IF proc[p].left = {P} THEN Advance(p)
             ELSE proc' = [proc EXCEPT ![p].left = @ \ {P}] /\ UNCHANGED Memory
    BY <1>9 DEF ExpireTarget
  <2>3. target' \in [Provider -> TargetStatus] BY <2>2, Typed DEF TargetStatus
  <2>4. Leaves(p)
    <3>1. CASE Advance(p) BY <2>1, <3>1, AdvanceStep
    <3>2. CASE proc' = [proc EXCEPT ![p].left = @ \ {P}] /\ UNCHANGED Memory
      <4> DEFINE rest == proc[p].left \ {P}
                 w == [proc[p] EXCEPT !.left = rest]
      <4>1. rest \in SUBSET Provider BY Typed
      <4>2. w \in Procs /\ w.pc = proc[p].pc /\ w.own = proc[p].own /\ w.sid = proc[p].sid
        BY <1>1, <4>1 DEF Procs
      <4>3. Fits(w) BY <1>1, <4>2 DEF Fits
      <4>4. proc' = [proc EXCEPT ![p] = w] BY <3>2
      <4> HIDE DEF w
      <4>5. QED BY <3>2, <4>2, <4>3, <4>4, Moves, GoesOn
    <3>3. QED BY <2>2, <3>1, <3>2
  <2>5. QED BY <1>9, <2>3, <2>4, StepKeeps, Typed DEF ExpireTarget
<1>10. CASE FindSearching(p)
  <2>1. proc[p].own = None BY <1>2, <1>10 DEF FindSearching
  <2>2. CASE Finish(p) /\ UNCHANGED <<cur, sess>>
    <3>1. Leaves(p) BY <2>1, <2>2, FinishMoves, GoesOn DEF Memory
    <3>2. QED BY <1>10, <3>1, StepKeeps, Typed DEF FindSearching
  <2>3. CASE /\ Unused # {} /\ cur' = Fresh /\ sess' = [sess EXCEPT ![Fresh] = NewSession]
             /\ Goto(p, "findOpen")
    <3>1. /\ cur' \in Session /\ sess' \in [Session -> Sessions]
          /\ \A s \in Session : sess'[s].advancing <=> sess[s].advancing
      BY <1>3, <2>3
    <3>2. "findOpen" \in Pc BY DEF Pc
    <3>3. /\ proc' \in [Proc -> Procs] /\ \A q \in Proc \ {p} : proc'[q] = proc[q]
          /\ proc'[p].pc = "findOpen" /\ proc'[p].own = None
      BY <2>1, <2>3, <3>2, GotoMoves
    <3>4. Fits(proc'[p]) BY <3>3 DEF Fits
    <3>5. Leaves(p) BY <2>1, <3>1, <3>3, <3>4 DEF Leaves, Carries
    <3>6. QED BY <1>10, <3>5, StepKeeps, Typed DEF FindSearching
  <2>4. QED BY <1>10, <2>2, <2>3 DEF FindSearching
<1>11. CASE FindOpen(p)
  <2>1. proc[p].own = None /\ MayHold BY <1>2, <1>11 DEF FindOpen
  <2>2. Open \in SUBSET Provider BY DEF Open
  <2>3. Leaves(p)
    <3>1. CASE Advance(p) BY <2>1, <3>1, AdvanceStep
    <3>2. CASE ScheduleTimeout(p, Open) BY <2>1, <2>2, <3>2, ScheduleStep
    <3>3. CASE /\ cur' = Held /\ sess' = Opened(sess)
               /\ proc' = [proc EXCEPT ![p] = [Idle EXCEPT !.pc = "readRequest", !.batch = Open]]
      <4> DEFINE w == [Idle EXCEPT !.pc = "readRequest", !.batch = Open]
      <4>1. w \in Procs /\ w.pc = "readRequest" /\ w.own = None
        BY <2>2, PcType DEF Procs, Idle, Pc, TimeoutPc
      <4>2. /\ Held \in Session /\ Opened(sess) \in [Session -> Sessions]
            /\ \A s \in Session : Opened(sess)[s].advancing <=> sess[s].advancing
        BY <2>1, Opening, Typed
      <4>3. Fits(w) BY <4>1 DEF Fits
      <4>4. proc' = [proc EXCEPT ![p] = w] BY <3>3
      <4> HIDE DEF w
      <4>5. proc'[p] = w BY <4>1, <4>4, Moves
      <4>6. Carries(p) BY <2>1, <3>3, <4>1, <4>2, <4>5 DEF Carries
      <4>7. QED BY <3>3, <4>1, <4>2, <4>3, <4>4, <4>6, Moves DEF Leaves
    <3>4. QED BY <1>11, <3>1, <3>2, <3>3 DEF FindOpen
  <2>4. QED BY <1>11, <2>3, StepKeeps, Typed DEF FindOpen
<1>12. CASE ContinueAfterReject(p)
  <2>1. proc[p].own = None BY <1>2, <1>12 DEF ContinueAfterReject
  <2>2. Leaves(p)
    <3>1. CASE Advance(p) BY <2>1, <3>1, AdvanceStep
    <3>2. CASE Finish(p) /\ UNCHANGED Memory BY <2>1, <3>2, FinishMoves, GoesOn
    <3>3. QED BY <1>12, <3>1, <3>2 DEF ContinueAfterReject
  <2>3. QED BY <1>12, <2>2, StepKeeps, Typed DEF ContinueAfterReject
<1>13. CASE Stop(p)
  <2>1. proc[p].own = None BY <1>2, <1>13 DEF Stop
  <2>2. Released(sess, p) = sess BY <2>1, Releasing
  <2>3. Leaves(p) BY <1>13, <2>2, StopStep DEF Stop
  <2>4. target' \in [Provider -> TargetStatus] BY <1>13, Typed DEF Stop, TargetStatus
  <2>5. QED BY <1>13, <2>3, <2>4, StepKeeps, Typed DEF Stop
<1>14. QED
  BY <1>4, <1>5, <1>6, <1>7, <1>8, <1>9, <1>10, <1>11, <1>12, <1>13

\* The timers fire.
LEMMA FireKeeps ==
  ASSUME IInv, Fire
  PROVE  IInv'
<1>1. PICK p \in Proc, s \in Session : FireTimer(p, s) \/ FireRetry(p, s) BY DEF Fire
<1>2. proc[p].own = None /\ sess[s] \in Sessions /\ sess[s].timer \in SUBSET Provider
  BY <1>1, Typed DEF FireTimer, FireRetry, Begins, Fits, RingPc
<1>3. CASE FireTimer(p, s)
  <2> DEFINE v == [sess[s] EXCEPT !.timer = {}]
             w == [Idle EXCEPT !.pc = "readRequest", !.batch = sess[s].timer]
  <2>1. v \in Sessions /\ v.advancing = sess[s].advancing BY <1>2 DEF Sessions
  <2>2. w \in Procs /\ w.pc = "readRequest" /\ w.own = None
    BY <1>2, PcType DEF Procs, Idle, Pc, TimeoutPc
  <2>3. sess' = [sess EXCEPT ![s] = v] /\ proc' = [proc EXCEPT ![p] = w] /\ UNCHANGED cur
    BY <1>3 DEF FireTimer
  <2>4. Fits(w) BY <2>2 DEF Fits
  <2> HIDE DEF v, w
  <2>5. sess' \in [Session -> Sessions]
        /\ \A t \in Session : sess'[t].advancing = sess[t].advancing
    BY <2>1, <2>3, Typed
  <2>6. Leaves(p) BY <1>2, <2>2, <2>3, <2>4, <2>5, Moves, Typed DEF Leaves, Carries
  <2>7. QED BY <1>3, <2>6, StepKeeps, Typed DEF FireTimer
<1>4. CASE FireRetry(p, s)
  <2> DEFINE v == [sess[s] EXCEPT !.retry = FALSE]
  <2>1. v \in Sessions /\ v.advancing = sess[s].advancing BY <1>2 DEF Sessions
  <2>2. sess' = [sess EXCEPT ![s] = v] /\ Spawn(p, "load") /\ UNCHANGED cur
    BY <1>4 DEF FireRetry
  <2> HIDE DEF v
  <2>3. sess' \in [Session -> Sessions]
        /\ \A t \in Session : sess'[t].advancing = sess[t].advancing
    BY <2>1, <2>2, Typed
  <2>4. Leaves(p) BY <1>2, <2>2, <2>3, SpawnMoves, Typed DEF Leaves, Carries
  <2>5. QED BY <1>4, <2>4, StepKeeps, Typed DEF FireRetry
<1>5. QED BY <1>1, <1>3, <1>4

\* Handlers begin, calls throw, the process restarts, time passes.
LEMMA WorldKeeps ==
  ASSUME IInv, (\E p \in Proc : World(p)) \/ TimePasses \/ UNCHANGED vars
  PROVE  IInv'
<1>1. ASSUME NEW p \in Proc, NEW P \in Provider, Reject(p, P) PROVE IInv'
  <2>1. proc[p].own = None BY <1>1, Typed DEF Reject, Begins, Fits, RingPc
  <2>2. Leaves(p) BY <1>1, <2>1, SpawnMoves, GoesOn DEF Reject
  <2>3. target' \in [Provider -> TargetStatus] BY <1>1, Typed DEF Reject, TargetStatus
  <2>4. QED BY <1>1, <2>2, <2>3, StepKeeps, Typed DEF Reject
<1>2. ASSUME NEW p \in Proc, Decide(p) PROVE IInv'
  <2>1. proc[p].own = None BY <1>2, Typed DEF Decide, Begins, Fits, RingPc
  <2>2. Leaves(p) BY <1>2, <2>1, SpawnMoves, GoesOn DEF Decide
  <2>3. request' \in RequestDocs BY <1>2, Typed DEF Decide, RequestDocs
  <2>4. QED BY <1>2, <2>2, <2>3, StepKeeps, Typed DEF Decide
<1>3. ASSUME NEW p \in Proc, Fail(p) PROVE IInv'
  <2>1. Leaves(p) /\ threw' = TRUE
    <3>1. CASE Throws(p) BY <3>1, StopStep DEF Throws
    <3>2. CASE proc[p].pc \in TimeoutPc /\ Advance(p) /\ threw' = TRUE
      <4>1. proc[p].own = None BY <3>2, Typed DEF Fits, RingPc, TimeoutPc
      <4>2. QED BY <3>2, <4>1, AdvanceStep
    <3>3. CASE /\ proc[p].pc \in {"startSave", "continue", "stop", "findSearching", "findOpen"}
               /\ Finish(p) /\ threw' = TRUE /\ UNCHANGED Memory
      <4>1. proc[p].own = None BY <3>3, Typed DEF Fits, RingPc
      <4>2. QED BY <3>3, <4>1, FinishMoves, GoesOn
    <3>4. QED BY <1>3, <3>1, <3>2, <3>3 DEF Fail
  <2>2. QED BY <1>3, <2>1, StepKeeps, Typed DEF Fail
<1>4. ASSUME NEW p \in Proc, Restart(p) PROVE IInv'
  <2> DEFINE w == [Idle EXCEPT !.pc = "findSearching"]
  <2>1. w \in Procs /\ w.pc = "findSearching" /\ w.own = None BY PcType DEF Procs, Idle, Pc
  <2>2. Fits(w) BY <2>1 DEF Fits
  <2>3. proc' = [q \in Proc |-> IF q = p THEN w ELSE Idle] BY <1>4 DEF Restart
  <2> HIDE DEF w
  <2>4. proc' \in [Proc -> Procs] /\ \A q \in Proc : Fits(proc'[q]) /\ proc'[q].own = None
    BY <2>1, <2>2, <2>3, PcType
  <2>5. cur' = None /\ sess' = [s \in Session |-> NewSession] /\ UNCHANGED <<request, target, threw>>
    BY <1>4 DEF Restart
  <2>6. restarts' \in 0..MaxRestarts BY <1>4, Typed, BoundsAssumption DEF Restart
  <2>7. TypeOK' BY <2>4, <2>5, <2>6, PcType, Typed DEF TypeOK
  <2>8. Owner' BY <2>4 DEF Owner, Fits
  <2>9. AdvanceAlone' BY <2>4, <2>5, PcType DEF AdvanceAlone
  <2>10. QED BY <2>7, <2>8, <2>9 DEF IInv
<1>5. CASE TimePasses \/ UNCHANGED vars
  <2>1. UNCHANGED <<target, cur, sess, proc, restarts, threw>>
    BY <1>5 DEF TimePasses, Memory, vars
  <2>2. request' \in RequestDocs BY <1>5, Typed DEF TimePasses, vars, RequestDocs
  <2>3. TypeOK' BY <2>1, <2>2, Typed DEF TypeOK
  <2>4. Owner' BY <2>1 DEF IInv, Owner, Fits
  <2>5. AdvanceAlone' BY <2>1 DEF IInv, AdvanceAlone
  <2>6. QED BY <2>3, <2>4, <2>5 DEF IInv
<1>6. QED BY <1>1, <1>2, <1>3, <1>4, <1>5 DEF World

LEMMA NextIInv == IInv /\ [Next]_vars => IInv'
<1> SUFFICES ASSUME IInv, [Next]_vars PROVE IInv'
  OBVIOUS
<1>1. ASSUME NEW p \in Proc, Step(p) PROVE IInv'
  BY <1>1, RingKeeps, OtherKeeps DEF Step
<1>2. QED BY <1>1, FireKeeps, WorldKeeps DEF Next

LEMMA Invariance == Spec => []IInv
  BY InitIInv, NextIInv, PTL DEF Spec

\* The documents, the session objects and the functions in flight keep their
\* types; an expired invitation gets a status of its own schema.
THEOREM TypeCorrect == Spec => []TypeOK
<1>1. IInv => TypeOK BY DEF IInv
<1>2. QED BY Invariance, <1>1, PTL

\* advanceToNextBatch: between the test of `advancing` and the `finally` that
\* resets it nobody else advances the same session, whatever stops, recovers,
\* replaces or throws in between.
THEOREM OneAdvance == Spec => []AdvanceAlone
<1>1. IInv => AdvanceAlone BY DEF IInv
<1>2. QED BY Invariance, <1>1, PTL
=============================================================================
