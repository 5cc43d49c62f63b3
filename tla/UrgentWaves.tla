---------------------------- MODULE UrgentWaves ----------------------------
(***************************************************************************)
(* The search for a provider, urgent/urgent-wave.service.ts: rings that    *)
(* invite a batch, the batch's timeout, the advance to the next batch, the *)
(* retry of a young search, and the recovery of the searches after a       *)
(* restart.  One urgent request; its session lives in the memory of the    *)
(* process, its targets in the database.  Without Redis, so a batch times  *)
(* out by a timer of the session; a BullMQ job would call the same         *)
(* handleBatchTimeout.                                                     *)
(*                                                                         *)
(* An await ends an action.  What the accept, reject and cancel handlers   *)
(* do to the request is in UrgentAssignment; here they only answer.        *)
(***************************************************************************)
EXTENDS Integers, FiniteSets

CONSTANTS
  Proc,         \* asynchronous functions that may be in flight together
  Provider,     \* providers in reach
  BatchSize,    \* config.batchSize
  MaxSessions,  \* bound on session objects that something still refers to
  MaxRestarts   \* bound on restarts of the process

ASSUME BatchAssumption == BatchSize \in Nat \ {0}
ASSUME BoundsAssumption ==
  MaxSessions \in Nat \ {0} /\ MaxRestarts \in Nat
ASSUME ProviderAssumption == IsFiniteSet(Provider)

VARIABLES
  request,   \* the UrgentRequest document
  target,    \* its UrgentDispatchTarget documents
  cur,       \* activeSessions: the session of the request, or None
  sess,      \* the session objects
  proc,      \* the functions in flight
  restarts,  \* bound: restarts so far
  threw      \* history: a call that one of the functions awaits threw

vars == <<request, target, cur, sess, proc, restarts, threw>>

None == 0
Session == 1..MaxSessions

RequestDocs ==
  [status  : {"SEARCHING", "CLOSED", "EXPIRED"},  \* CLOSED: assigned or cancelled
   overdue : BOOLEAN,                             \* expiresAt has passed
   young   : BOOLEAN]                             \* created less than 90 s ago
\* OPEN is PENDING, NOTIFIED or VIEWED; CLOSED is EXPIRED, LOST or ACCEPTED.
TargetStatus == {"NONE", "OPEN", "REJECTED", "CLOSED"}
Sessions ==
  [advancing : BOOLEAN,
   timer     : SUBSET Provider,      \* whom the invitation timer will expire
   retry     : BOOLEAN]              \* the expand timer runs
RingPc == {"load", "match", "insert", "notify", "schedule", "count", "retry",
           "expire", "stopLate"}
TimeoutPc == {"readRequest", "readTargets", "expireTarget"}
Pc == RingPc \cup TimeoutPc \cup {"idle", "startSave", "countOpen", "clear", "continue", "stop",
                                  "findSearching", "findOpen"}
Procs ==
  [pc    : Pc,
   own   : {None} \cup Session,   \* the session it advances
   sid   : {None} \cup Session,   \* the session its ring works on
   batch : SUBSET Provider,
   left  : SUBSET Provider]       \* of the batch, still to be saved

Idle == [pc |-> "idle", own |-> None, sid |-> None, batch |-> {}, left |-> {}]
NewSession == [advancing |-> FALSE, timer |-> {}, retry |-> FALSE]

Open == {P \in Provider : target[P] = "OPEN"}
Searching == request.status = "SEARCHING"

Begins(p) == proc[p].pc = "idle"
Goto(p, pc) == proc' = [proc EXCEPT ![p].pc = pc]
Finish(p) == proc' = [proc EXCEPT ![p] = Idle]
Spawn(p, pc) == proc' = [proc EXCEPT ![p] = [Idle EXCEPT !.pc = pc]]

(* Sessions -----------------------------------------------------------------*)

\* A session object nothing refers to any more may be taken for a new one.
Used(s) ==
  \/ s = cur \/ sess[s].timer # {} \/ sess[s].retry
  \/ \E p \in Proc : s \in {proc[p].own, proc[p].sid}
Unused == {s \in Session : ~Used(s)}
Fresh == CHOOSE s \in Unused : TRUE
Held == IF cur # None THEN cur ELSE Fresh
MayHold == cur # None \/ Unused # {}               \* within MaxSessions
\* getSession on the session objects S: Held is the session, new or not.
Opened(S) == IF cur # None THEN S ELSE [S EXCEPT ![Fresh] = NewSession]

Cleared(session) == [session EXCEPT !.timer = {}, !.retry = FALSE]
\* stopUrgentSearchWaves, where the session objects are S.
StopIn(S) ==
  /\ cur' = None
  /\ sess' = IF cur = None THEN S ELSE [S EXCEPT ![cur] = Cleared(@)]
Memory == <<cur, sess>>

\* The end of an advance, `finally`.
Released(S, p) == IF proc[p].own = None THEN S ELSE [S EXCEPT ![proc[p].own].advancing = FALSE]
\* A function returns: sess' too when it was an advance.
Done(p) ==
  /\ sess' = Released(sess, p)
  /\ Finish(p)
  /\ UNCHANGED cur
\* An exception in a ring or an advance: the catch stops the search.
Throws(p) ==
  /\ StopIn(Released(sess, p))
  /\ Finish(p)
  /\ threw' = TRUE

Init ==
  /\ request = [status |-> "SEARCHING", overdue |-> FALSE, young |-> TRUE]
  /\ target = [P \in Provider |-> "NONE"]
  /\ cur = None
  /\ sess = [s \in Session |-> NewSession]
  /\ \E p \in Proc : proc = [q \in Proc |-> IF q = p THEN [Idle EXCEPT !.pc = "startSave"] ELSE Idle]
  /\ restarts = 0
  /\ threw = FALSE

(* startUrgentSearchWaves, when it has stopped the search before ------------*)

\* The counters are saved and the Map gets a new object.
StartSave(p) ==
  /\ proc[p].pc = "startSave" /\ Unused # {}
  /\ cur' = Fresh
  /\ sess' = [sess EXCEPT ![Fresh] = NewSession]
  /\ Goto(p, "load")
  /\ UNCHANGED <<request, target, restarts, threw>>

(* runRingNextProvider ------------------------------------------------------*)

Load(p) ==
  /\ proc[p].pc = "load"
  /\ IF Searching /\ ~request.overdue
       THEN /\ MayHold
            /\ cur' = Held
            /\ sess' = [Opened(sess) EXCEPT ![Held] = Cleared(@)]
            /\ proc' = [proc EXCEPT ![p] = [@ EXCEPT !.pc = "match", !.sid = Held]]
       ELSE StopIn(Released(sess, p)) /\ Finish(p)
  /\ UNCHANGED <<request, target, restarts, threw>>

\* getExcludedProviderIds and findNextProviders, up to the widest radius: any
\* batch of providers without a target, or nobody.
Match(p) ==
  /\ proc[p].pc = "match"
  /\ \E found \in SUBSET {P \in Provider : target[P] = "NONE"} :
       /\ Cardinality(found) <= BatchSize
       /\ proc' = [proc EXCEPT ![p] = [@ EXCEPT !.pc = IF found = {} THEN "count" ELSE "insert",
                                                !.batch = found]]
  /\ UNCHANGED <<request, target, Memory, restarts, threw>>

\* Nobody new: wait for the open invitations, try again, or give up.
CountOpen(p) ==
  /\ proc[p].pc = "count"
  /\ IF Open # {} THEN Done(p)
     ELSE Goto(p, IF request.young THEN "retry" ELSE "expire") /\ UNCHANGED Memory
  /\ UNCHANGED <<request, target, restarts, threw>>

\* Mutant: the expand timer is left to the next rejection or timeout.
ArmRetryNever(p) ==
  /\ proc[p].pc = "retry"
  /\ Done(p)
  /\ UNCHANGED <<request, target, restarts, threw>>

ArmRetry(p) ==
  /\ proc[p].pc = "retry"
  /\ sess' = [Released(sess, p) EXCEPT ![proc[p].sid].retry = TRUE]
  /\ Finish(p)
  /\ UNCHANGED <<request, target, cur, restarts, threw>>

ExpireNoProviders(p) ==
  /\ proc[p].pc = "expire"
  /\ request' = [request EXCEPT !.status = "EXPIRED", !.overdue = TRUE]
  /\ Goto(p, "stopLate")
  /\ UNCHANGED <<target, Memory, restarts, threw>>

StopLate(p) ==
  /\ proc[p].pc = "stopLate"
  /\ StopIn(Released(sess, p))
  /\ Finish(p)
  /\ UNCHANGED <<request, target, restarts, threw>>

\* insertMany: (urgentRequestId, providerId) is unique, so a provider another
\* ring has invited since Match makes it throw half way.
Insert(p) ==
  /\ proc[p].pc = "insert"
  /\ LET new == {P \in proc[p].batch : target[P] = "NONE"} IN
       IF new = proc[p].batch
         THEN /\ target' = [P \in Provider |-> IF P \in new THEN "OPEN" ELSE target[P]]
              /\ proc' = [proc EXCEPT ![p] = [@ EXCEPT !.pc = "notify", !.left = new]]
              /\ UNCHANGED <<Memory, threw>>
         ELSE /\ \E some \in SUBSET new :
                   target' = [P \in Provider |-> IF P \in some THEN "OPEN" ELSE target[P]]
              /\ Throws(p)
  /\ UNCHANGED <<request, restarts>>

\* notifySingleTarget saves NOTIFIED over whatever the invitation has become.
Notify(p) ==
  /\ proc[p].pc = "notify"
  /\ \E P \in proc[p].left :
       /\ target' = [target EXCEPT ![P] = "OPEN"]
       /\ proc' = [proc EXCEPT ![p] =
                      [@ EXCEPT !.left = proc[p].left \ {P},
                                !.pc = IF proc[p].left = {P} THEN "schedule" ELSE "notify"]]
  /\ UNCHANGED <<request, Memory, restarts, threw>>

\* scheduleBatchTimeout.
ScheduleTimeout(p, invited) ==
  /\ cur' = Held
  /\ sess' = [Opened(Released(sess, p)) EXCEPT ![Held] = [Cleared(@) EXCEPT !.timer = invited]]
  /\ Finish(p)

Schedule(p) ==
  /\ proc[p].pc = "schedule" /\ MayHold
  /\ ScheduleTimeout(p, proc[p].batch)
  /\ UNCHANGED <<request, target, restarts, threw>>

(* advanceToNextBatch -------------------------------------------------------*)

\* Mutant: the flag is set and not looked at.
AdvanceAnyway(p) ==
  /\ IF cur = None THEN Finish(p) /\ UNCHANGED sess
     ELSE /\ sess' = [sess EXCEPT ![cur].advancing = TRUE]
          /\ proc' = [proc EXCEPT ![p] = [Idle EXCEPT !.pc = "countOpen", !.own = cur]]
  /\ UNCHANGED cur

\* Up to its first await, in the action of whoever calls it: one advance at a
\* time per session.
Advance(p) ==
  /\ IF cur = None \/ (cur # None /\ sess[cur].advancing)
       THEN Finish(p) /\ UNCHANGED sess
       ELSE /\ sess' = [sess EXCEPT ![cur].advancing = TRUE]
            /\ proc' = [proc EXCEPT ![p] = [Idle EXCEPT !.pc = "countOpen", !.own = cur]]
  /\ UNCHANGED cur

StillPending(p) ==
  /\ proc[p].pc = "countOpen"
  /\ IF Open # {} THEN Done(p) ELSE Goto(p, "clear") /\ UNCHANGED Memory
  /\ UNCHANGED <<request, target, restarts, threw>>

ClearTimers(p) ==
  /\ proc[p].pc = "clear"
  /\ sess' = [sess EXCEPT ![proc[p].own] = Cleared(@)]
  /\ Goto(p, "load")
  /\ UNCHANGED <<request, target, cur, restarts, threw>>

(* Timers and handleBatchTimeout ---------------------------------------*)

FireTimer(p, s) ==
  /\ Begins(p) /\ sess[s].timer # {}
  /\ sess' = [sess EXCEPT ![s].timer = {}]
  /\ proc' = [proc EXCEPT ![p] = [Idle EXCEPT !.pc = "readRequest", !.batch = sess[s].timer]]
  /\ UNCHANGED <<request, target, cur, restarts, threw>>

FireRetry(p, s) ==
  /\ Begins(p) /\ sess[s].retry
  /\ sess' = [sess EXCEPT ![s].retry = FALSE]
  /\ Spawn(p, "load")
  /\ UNCHANGED <<request, target, cur, restarts, threw>>

ReadRequest(p) ==
  /\ proc[p].pc = "readRequest"
  /\ IF Searching THEN Goto(p, "readTargets") /\ UNCHANGED Memory
     ELSE StopIn(sess) /\ Finish(p)    \* the advance finds no session
  /\ UNCHANGED <<request, target, restarts, threw>>

ReadTargets(p) ==
  /\ proc[p].pc = "readTargets"
  /\ LET open == proc[p].batch \cap Open IN
       IF open = {} THEN Advance(p)
       ELSE /\ proc' = [proc EXCEPT ![p] = [@ EXCEPT !.pc = "expireTarget", !.left = open]]
            /\ UNCHANGED Memory
  /\ UNCHANGED <<request, target, restarts, threw>>

\* Mutant: the target gets a status of the request.
ExpireTargetAsRequest(p) ==
  /\ proc[p].pc = "expireTarget"
  /\ \E P \in proc[p].left :
       /\ target' = [target EXCEPT ![P] = "EXPIRED"]
       /\ IF proc[p].left = {P} THEN Advance(p)
          ELSE proc' = [proc EXCEPT ![p].left = @ \ {P}] /\ UNCHANGED Memory
  /\ UNCHANGED <<request, restarts, threw>>

\* One target after the other, as they were loaded.
ExpireTarget(p) ==
  /\ proc[p].pc = "expireTarget"
  /\ \E P \in proc[p].left :
       /\ target' = [target EXCEPT ![P] = "CLOSED"]
       /\ IF proc[p].left = {P} THEN Advance(p)
          ELSE proc' = [proc EXCEPT ![p].left = @ \ {P}] /\ UNCHANGED Memory
  /\ UNCHANGED <<request, restarts, threw>>

(* Restart and recoverActiveUrgentDispatches ---------------------------------*)

\* The memory, its timers and the functions in flight are lost.
Restart(p) ==
  /\ restarts < MaxRestarts
  /\ restarts' = restarts + 1
  /\ cur' = None
  /\ sess' = [s \in Session |-> NewSession]
  /\ proc' = [q \in Proc |-> IF q = p THEN [Idle EXCEPT !.pc = "findSearching"] ELSE Idle]
  /\ UNCHANGED <<request, target, threw>>

FindSearching(p) ==
  /\ proc[p].pc = "findSearching"
  /\ IF Searching /\ ~request.overdue /\ cur = None
       THEN /\ Unused # {}
            /\ cur' = Fresh
            /\ sess' = [sess EXCEPT ![Fresh] = NewSession]
            /\ Goto(p, "findOpen")
       ELSE Finish(p) /\ UNCHANGED <<cur, sess>>
  /\ UNCHANGED <<request, target, restarts, threw>>

FindOpen(p) ==
  /\ proc[p].pc = "findOpen" /\ MayHold
  /\ \/ Open = {} /\ Advance(p)
     \/ /\ Open # {}                       \* the oldest invitation has timed out
        /\ cur' = Held /\ sess' = Opened(sess)
        /\ proc' = [proc EXCEPT ![p] = [Idle EXCEPT !.pc = "readRequest", !.batch = Open]]
     \/ Open # {} /\ ScheduleTimeout(p, Open)
  /\ UNCHANGED <<request, target, restarts, threw>>

(* The rest of the world ----------------------------------------------------*)

\* rejectUrgentRequest (the accept of a busy provider rejects as well), then
\* continueUrgentSearchAfterReject.
Reject(p, P) ==
  /\ Begins(p) /\ target[P] \notin {"NONE", "REJECTED"}
  /\ target' = [target EXCEPT ![P] = "REJECTED"]
  /\ Spawn(p, "continue")
  /\ UNCHANGED <<request, Memory, restarts, threw>>

ContinueAfterReject(p) ==
  /\ proc[p].pc = "continue"
  /\ IF Searching THEN Advance(p) ELSE Finish(p) /\ UNCHANGED Memory
  /\ UNCHANGED <<request, target, restarts, threw>>

\* An accept or a cancellation takes the request (compare-and-set), the other
\* targets are closed and the search is stopped; expireUrgentRequests alike.
Decide(p) ==
  /\ Begins(p) /\ Searching
  /\ request' = [request EXCEPT !.status = IF request.overdue THEN "EXPIRED" ELSE "CLOSED"]
  /\ Spawn(p, "stop")
  /\ UNCHANGED <<target, Memory, restarts, threw>>

Stop(p) ==
  /\ proc[p].pc = "stop"
  /\ target' = [P \in Provider |-> IF target[P] = "OPEN" THEN "CLOSED" ELSE target[P]]
  /\ StopIn(sess)
  /\ Finish(p)
  /\ UNCHANGED <<request, restarts, threw>>

TimePasses ==
  /\ \/ request.young /\ request' = [request EXCEPT !.young = FALSE]
     \/ ~request.overdue /\ request' = [request EXCEPT !.overdue = TRUE]
  /\ UNCHANGED <<target, Memory, proc, restarts, threw>>

\* A call the function awaits throws.
Fail(p) ==
  /\ \/ proc[p].pc \in RingPc \cup {"countOpen"} /\ Throws(p)
     \/ proc[p].pc \in TimeoutPc /\ Advance(p) /\ threw' = TRUE
     \/ /\ proc[p].pc \in {"startSave", "continue", "stop", "findSearching", "findOpen"}
        /\ Finish(p) /\ threw' = TRUE
        /\ UNCHANGED Memory
  /\ UNCHANGED <<request, target, restarts>>

Ring(p) ==
  \/ Load(p) \/ Match(p) \/ CountOpen(p) \/ ArmRetry(p) \/ ExpireNoProviders(p)
  \/ StopLate(p) \/ Insert(p) \/ Notify(p) \/ Schedule(p)
Step(p) ==
  \/ Ring(p) \/ StartSave(p) \/ StillPending(p) \/ ClearTimers(p)
  \/ ReadRequest(p) \/ ReadTargets(p) \/ ExpireTarget(p) \/ FindSearching(p) \/ FindOpen(p)
  \/ ContinueAfterReject(p) \/ Stop(p)
Fire ==
  \E p \in Proc, s \in Session : FireTimer(p, s) \/ FireRetry(p, s)
World(p) ==
  \/ \E P \in Provider : Reject(p, P)
  \/ Decide(p) \/ Fail(p) \/ Restart(p)

Next ==
  \/ \E p \in Proc : Step(p) \/ World(p)
  \/ Fire \/ TimePasses

Spec == Init /\ [][Next]_vars

\* Promises are settled, timers fire, the clock goes on.
\* Strong fairness for timers, because Proc bounds what runs at a time.
FairSpec ==
  /\ Spec
  /\ \A p \in Proc : WF_vars(Step(p))
  /\ SF_vars(Fire)
  /\ WF_vars(TimePasses /\ request'.young # request.young)

-----------------------------------------------------------------------------
\* The documents, sessions, timers and functions keep their types.
TypeOK ==
  /\ request \in RequestDocs
  /\ target \in [Provider -> TargetStatus]
  /\ cur \in {None} \cup Session
  /\ sess \in [Session -> Sessions]
  /\ proc \in [Proc -> Procs]
  /\ restarts \in 0..MaxRestarts
  /\ threw \in BOOLEAN

\* `advancing` keeps the batch timer and the last rejection from both ringing:
\* at any time one advance at most of a session is in flight, and the flag is
\* set exactly while one is, whatever returns early or throws.
AdvanceAlone ==
  \A s \in Session :
    LET on == {p \in Proc : proc[p].own = s} IN
      /\ sess[s].advancing <=> on # {}
      /\ \A p, q \in on : p = q

\* Nobody will expire the invitation of P: no timer, no function in flight.
Unwatched(P) ==
  /\ target[P] = "OPEN"
  /\ \A s \in Session : P \notin sess[s].timer
  /\ \A p \in Proc : P \notin proc[p].batch

\* A search goes on, also after a restart: somebody takes the request, it runs
\* out of time, or the customer is told that nobody is there.  Only a call that
\* threw, or an invitation whose timer was lost, stops it.
NeverStalled ==
  Searching ~> (~Searching \/ request.overdue \/ threw
                  \/ [](\E P \in Provider : Unwatched(P)))
=============================================================================
