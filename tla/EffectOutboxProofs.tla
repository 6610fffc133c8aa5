------------------------ MODULE EffectOutboxProofs ------------------------
(* Theorems about EffectOutbox, for any sets of effects, dispatchers and
   reconcilers and any values of the bounds. *)
EXTENDS EffectOutbox, TLAPS

(* The fields a process has set at each of its steps. *)
LocalOK ==
  /\ \A d \in Dispatcher :
       /\ disp[d].pc = "idle" <=> disp[d].key = None
       /\ disp[d].pc \in {"select", "write"} => disp[d].report \in Report
  /\ \A r \in Reconciler :
       /\ recon[r].pc = "idle" <=> recon[r].key = None
       /\ recon[r].pc \in {"select", "write"} => recon[r].resolution \in Resolution

TypeInv == TypeOK /\ LocalOK

(* begin_effect, the claims and the reports keep every row and every process
   state well typed. *)
LEMMA TypeStep == TypeInv /\ [Next]_vars => TypeInv'
<1> SUFFICES ASSUME TypeInv, [Next]_vars PROVE TypeInv'
  OBVIOUS
<1> USE EffectOutboxAssumption
<1>1. ASSUME NEW k \in Key, Environment(k) PROVE TypeInv'
  <2>1. CASE BeginEffect(k)
    BY <2>1 DEF BeginEffect, TypeInv, TypeOK, LocalOK, Inserted, NoRow, Row, Status
  <2>2. CASE BecomesDue(k)
    <3>1. effect' \in [Key -> Row]
      BY <2>2 DEF BecomesDue, TypeInv, TypeOK, Row
    <3> QED
      BY <2>2, <3>1 DEF BecomesDue, TypeInv, TypeOK, LocalOK
  <2>3. CASE LeaseExpires(k)
    <3>1. effect' \in [Key -> Row]
      BY <2>3 DEF LeaseExpires, TypeInv, TypeOK, Row
    <3> QED
      BY <2>3, <3>1 DEF LeaseExpires, TypeInv, TypeOK, LocalOK
  <2>4. CASE Settle(k)
    BY <2>4 DEF Settle, TypeInv, TypeOK, LocalOK, OneMore
  <2> QED
    BY <1>1, <2>1, <2>2, <2>3, <2>4 DEF Environment
<1>2. ASSUME NEW d \in Dispatcher, DispatcherStep(d) PROVE TypeInv'
  <2>1. CASE \E k \in Key : Claim(d, k)
    BY <2>1 DEF Claim, TypeInv, TypeOK, LocalOK, Claimed, NoRow, Row, Status, DispState, DispAt
  <2>2. CASE Reread(d)
    BY <2>2 DEF Reread, TypeInv, TypeOK, LocalOK, DispState, DispIdle, DispAt, NoRow, Row, Status
  <2>3. CASE Peek(d)
    BY <2>3 DEF Peek, TypeInv, TypeOK, LocalOK, DispState, DispAt, Report
  <2>4. CASE \E outcome \in Outcome : Issue(d, outcome)
    BY <2>4 DEF Issue, Outcome, ReportOf, OneMore, TypeInv, TypeOK, LocalOK, DispState, DispAt, Report
  <2>5. CASE Select(d)
    BY <2>5 DEF Select, AfterComplete, TypeInv, TypeOK, LocalOK, DispState, DispIdle, DispAt, NoRow, Row, Status
  <2>6. CASE Write(d)
    BY <2>6 DEF Write, AfterComplete, Reported, ObservationRecorded, AttemptRecorded,
                ResolvedStatus, TypeInv, TypeOK, LocalOK, DispState, DispIdle, DispAt, NoRow, Row, Status
  <2>7. CASE RegisterCompensation(d)
    BY <2>7 DEF RegisterCompensation, TypeInv, TypeOK, LocalOK, DispState, DispIdle, DispAt, NoRow, Row, Status
  <2> QED
    BY <1>2, <2>1, <2>2, <2>3, <2>4, <2>5, <2>6, <2>7 DEF DispatcherStep
<1>3. ASSUME NEW r \in Reconciler, ReconcilerStep(r) PROVE TypeInv'
  <2>1. CASE \E k \in Key : ListEffect(r, k)
    BY <2>1 DEF ListEffect, TypeInv, TypeOK, LocalOK, ReconState, ReconAt, NoRow, Row, Status
  <2>2. CASE \E resolution \in Resolution : Observe(r, resolution)
    BY <2>2 DEF Observe, TypeInv, TypeOK, LocalOK, ReconState, ReconAt, NoRow, Row, Status
  <2>3. CASE SelectObserved(r)
    BY <2>3 DEF SelectObserved, TypeInv, TypeOK, LocalOK, ReconState, ReconAt, NoRow, Row, Status
  <2>4. CASE WriteObserved(r)
    BY <2>4 DEF WriteObserved, ObservationRecorded, ResolvedStatus, TypeInv, TypeOK, LocalOK,
                ReconState, ReconIdle, ReconAt, NoRow, Row, Status, Resolution
  <2>5. CASE RegisterDuplicate(r)
    BY <2>5 DEF RegisterDuplicate, TypeInv, TypeOK, LocalOK, ReconState, ReconIdle, ReconAt, NoRow, Row, Status
  <2> QED
    BY <1>3, <2>1, <2>2, <2>3, <2>4, <2>5 DEF ReconcilerStep
<1>4. ASSUME NEW d \in Dispatcher, CrashDispatcher(d) PROVE TypeInv'
  BY <1>4 DEF CrashDispatcher, TypeInv, TypeOK, LocalOK, DispState, DispIdle, DispAt, NoRow, Row, Status
<1>5. ASSUME NEW r \in Reconciler, CrashReconciler(r) PROVE TypeInv'
  BY <1>5 DEF CrashReconciler, TypeInv, TypeOK, LocalOK, ReconState, ReconIdle, ReconAt, NoRow, Row, Status
<1>6. CASE UNCHANGED vars
  BY <1>6 DEF vars, TypeInv, TypeOK, LocalOK
<1> QED
  BY <1>1, <1>2, <1>3, <1>4, <1>5, <1>6 DEF Next

LEMMA TypeInit == Init => TypeInv
BY EffectOutboxAssumption
DEF Init, TypeInv, TypeOK, LocalOK, NoRow, Row, Status, DispIdle, DispAt, DispState, ReconIdle, ReconAt, ReconState

(* Rows, counters and process states stay well typed: no handler writes a status
   or a lease that is not one of the ledger's. *)
THEOREM TypeCorrect == Spec => []TypeOK
<1>1. TypeInv => TypeOK
  BY DEF TypeInv
<1> QED
  BY <1>1, TypeInit, TypeStep, PTL DEF Spec

-----------------------------------------------------------------------------
(* Whatever confirms an effect or registers its compensation has seen the
   counterparty execute it. *)
LandedInv ==
  /\ ConfirmedLanded
  /\ ObligedLanded
  /\ \A d \in Dispatcher :
       \/ disp[d].pc \in {"select", "write"} /\ disp[d].report = "complete"
       \/ disp[d].pc = "register"
       => landed[disp[d].key] > 0
  /\ \A r \in Reconciler :
       \/ recon[r].pc \in {"select", "write"} /\ recon[r].resolution \in {"CONFIRMED", "DUPLICATE"}
       \/ recon[r].pc = "register"
       => landed[recon[r].key] > 0

LEMMA LandedInit == Init => LandedInv
BY EffectOutboxAssumption
DEF Init, LandedInv, ConfirmedLanded, ObligedLanded, NoRow, DispIdle, DispAt, ReconIdle, ReconAt

LEMMA LandedStep == TypeInv /\ LandedInv /\ [Next]_vars => LandedInv'
<1> SUFFICES ASSUME TypeInv, LandedInv, [Next]_vars PROVE LandedInv'
  OBVIOUS
<1> USE EffectOutboxAssumption
<1> USE DEF TypeInv, TypeOK, LocalOK, LandedInv, ConfirmedLanded, ObligedLanded
<1>1. ASSUME NEW k \in Key, Environment(k) PROVE LandedInv'
  <2>1. CASE BeginEffect(k)
    BY <2>1 DEF BeginEffect, Inserted, DispState, ReconState
  <2>2. CASE BecomesDue(k)
    BY <2>2 DEF BecomesDue, DispState, ReconState, Row
  <2>3. CASE LeaseExpires(k)
    BY <2>3 DEF LeaseExpires, DispState, ReconState, Row
  <2>4. CASE Settle(k)
    BY <2>4 DEF Settle, OneMore, DispState, ReconState
  <2> QED
    BY <1>1, <2>1, <2>2, <2>3, <2>4 DEF Environment
<1>2. ASSUME NEW d \in Dispatcher, DispatcherStep(d) PROVE LandedInv'
  <2>1. CASE \E k \in Key : Claim(d, k)
    BY <2>1 DEF Claim, Claimed, DispAt, DispState, ReconState
  <2>2. CASE Reread(d)
    BY <2>2 DEF Reread, DispIdle, DispAt, DispState, ReconState
  <2>3. CASE Peek(d)
    BY <2>3 DEF Peek, DispAt, DispState, ReconState
  <2>4. CASE \E outcome \in Outcome : Issue(d, outcome)
    <3>1. PICK outcome \in Outcome : Issue(d, outcome)
      BY <2>4
    <3>2. disp[d].key \in Key
      BY <3>1 DEF Issue, DispState
    <3>3. \A k \in Key : landed[k] > 0 => landed'[k] > 0
      BY <3>1, <3>2 DEF Issue, OneMore
    <3>4. disp'[d].pc = "select" /\ disp'[d].key = disp[d].key
      BY <3>1 DEF Issue, DispAt
    <3>5. disp'[d].report = "complete" => landed'[disp[d].key] > 0
      BY <3>1, <3>2 DEF Issue, Outcome, ReportOf, OneMore, DispAt
    <3>6. \A e \in Dispatcher \ {d} : disp'[e] = disp[e]
      BY <3>1 DEF Issue
    <3>7. UNCHANGED <<effect, obliged, recon>>
      BY <3>1 DEF Issue
    <3> QED
      BY <3>2, <3>3, <3>4, <3>5, <3>6, <3>7 DEF DispState, ReconState
  <2>5. CASE Select(d)
    BY <2>5 DEF Select, AfterComplete, DispIdle, DispAt, DispState, ReconState
  <2>6. CASE Write(d)
    BY <2>6 DEF Write, AfterComplete, Reported, ObservationRecorded, AttemptRecorded,
                ResolvedStatus, DispIdle, DispAt, DispState, ReconState
  <2>7. CASE RegisterCompensation(d)
    BY <2>7 DEF RegisterCompensation, DispIdle, DispAt, DispState, ReconState
  <2> QED
    BY <1>2, <2>1, <2>2, <2>3, <2>4, <2>5, <2>6, <2>7 DEF DispatcherStep
<1>3. ASSUME NEW r \in Reconciler, ReconcilerStep(r) PROVE LandedInv'
  <2>1. CASE \E k \in Key : ListEffect(r, k)
    BY <2>1 DEF ListEffect, ReconAt, DispState, ReconState
  <2>2. CASE \E resolution \in Resolution : Observe(r, resolution)
    BY <2>2 DEF Observe, Answers, ReconAt, DispState, ReconState
  <2>3. CASE SelectObserved(r)
    BY <2>3 DEF SelectObserved, ReconAt, DispState, ReconState
  <2>4. CASE WriteObserved(r)
    BY <2>4 DEF WriteObserved, ObservationRecorded, ResolvedStatus, Resolution,
                ReconIdle, ReconAt, DispState, ReconState
  <2>5. CASE RegisterDuplicate(r)
    BY <2>5 DEF RegisterDuplicate, ReconIdle, ReconAt, DispState, ReconState
  <2> QED
    BY <1>3, <2>1, <2>2, <2>3, <2>4, <2>5 DEF ReconcilerStep
<1>4. ASSUME NEW d \in Dispatcher, CrashDispatcher(d) PROVE LandedInv'
  BY <1>4 DEF CrashDispatcher, DispIdle, DispAt, DispState, ReconState
<1>5. ASSUME NEW r \in Reconciler, CrashReconciler(r) PROVE LandedInv'
  BY <1>5 DEF CrashReconciler, ReconIdle, ReconAt, DispState, ReconState
<1>6. CASE UNCHANGED vars
  BY <1>6 DEF vars
<1> QED
  BY <1>1, <1>2, <1>3, <1>4, <1>5, <1>6 DEF Next

(* No effect is ever CONFIRMED without having been executed at the counterparty,
   with any number of reactors, crashes, slow dispatchers and stale reports. *)
THEOREM ConfirmedIsLanded == Spec => []ConfirmedLanded
<1>1. LandedInv => ConfirmedLanded
  BY DEF LandedInv
<1> QED
  BY <1>1, TypeInit, TypeStep, LandedInit, LandedStep, PTL DEF Spec

(* No compensation is ever registered for an operation that was not executed. *)
THEOREM ObligedIsLanded == Spec => []ObligedLanded
<1>1. LandedInv => ObligedLanded
  BY DEF LandedInv
<1> QED
  BY <1>1, TypeInit, TypeStep, LandedInit, LandedStep, PTL DEF Spec

-----------------------------------------------------------------------------
(* A dispatcher between its claim and the end of its report. *)
InFlight(d, k) ==
  disp[d].key = k /\ disp[d].pc \in {"claimed", "peeking", "issuing", "select", "write"}

(* Why a non-idempotent operation is not issued twice.  The dispatcher at work on
   it holds a live lease, so there is only one, and no reconciler has it at hand.
   No request is under way when a new claim is possible, so what the look-up
   does not find will not turn up later; whoever is about to issue, or reports
   that nothing was executed, has nothing executed or under way behind it. *)
OnceInv ==
  \A k \in NonIdempotent :
    /\ landed[k] + limbo[k] <= 1
    /\ \A d \in Dispatcher : InFlight(d, k) =>
         /\ effect[k].status = "PENDING"
         /\ effect[k].claimed_by = d
         /\ ~effect[k].expired
         /\ disp[d].pc \in {"claimed", "peeking"} => limbo[k] = 0
         /\ \/ disp[d].pc = "issuing"
            \/ disp[d].pc \in {"select", "write"} /\ disp[d].report \in {"retry", "failed"}
            => landed[k] = 0 /\ limbo[k] = 0
    /\ \A r \in Reconciler :
         recon[r].key = k => effect[k].status \in {"CONFIRMED", "FAILED", "UNKNOWN"}
    /\ \/ effect[k].status = "NONE"
       \/ effect[k].status = "PENDING" /\ (effect[k].claimed_by = None \/ effect[k].expired)
       => limbo[k] = 0

LEMMA OnceInit == Init => OnceInv
BY EffectOutboxAssumption
DEF Init, OnceInv, InFlight, NoRow, DispIdle, DispAt, ReconIdle, ReconAt

LEMMA OnceStep ==
  ASSUME Prompt, Peeks, ~ReconcilePending, TypeInv, OnceInv, [Next]_vars
  PROVE  OnceInv'
<1> USE EffectOutboxAssumption
<1> USE DEF TypeInv, TypeOK, LocalOK, OnceInv, InFlight
<1>1. ASSUME NEW k \in Key, Environment(k) PROVE OnceInv'
  <2>1. CASE BeginEffect(k)
    BY <2>1 DEF BeginEffect, Inserted, DispState, ReconState
  <2>2. CASE BecomesDue(k)
    BY <2>2 DEF BecomesDue, DispState, ReconState, Row
  <2>3. CASE LeaseExpires(k)
    BY <2>3 DEF LeaseExpires, DispState, ReconState, Row
  <2>4. CASE Settle(k)
    BY <2>4 DEF Settle, OneMore, DispState, ReconState
  <2> QED
    BY <1>1, <2>1, <2>2, <2>3, <2>4 DEF Environment
<1>2. ASSUME NEW d \in Dispatcher, DispatcherStep(d) PROVE OnceInv'
  <2>1. CASE \E k \in Key : Claim(d, k)
    BY <2>1 DEF Claim, Claimable, Claimed, DispAt, DispState, ReconState
  <2>2. CASE Reread(d)
    BY <2>2 DEF Reread, DispIdle, DispAt, DispState, ReconState
  <2>3. CASE Peek(d)
    BY <2>3 DEF Peek, DispAt, DispState, ReconState
  <2>4. CASE \E outcome \in Outcome : Issue(d, outcome)
    BY <2>4 DEF Issue, Outcome, ReportOf, OneMore, DispAt, DispState, ReconState
  <2>5. CASE Select(d)
    <3>1. UNCHANGED <<effect, landed, limbo, recon>>
      BY <2>5 DEF Select
    <3>2. ASSUME NEW e \in Dispatcher, NEW k \in NonIdempotent, InFlight(e, k)'
          PROVE  /\ InFlight(e, k)
                 /\ disp'[e].report = disp[e].report
                 /\ disp'[e].pc = disp[e].pc \/ (disp[e].pc = "select" /\ disp'[e].pc = "write")
      BY <2>5, <3>2 DEF Select, AfterComplete, DispIdle, DispAt, DispState
    <3> QED
      BY <3>1, <3>2
  <2>6. CASE Write(d)
    BY <2>6 DEF Write, AfterComplete, Reported, ObservationRecorded, AttemptRecorded,
                ResolvedStatus, DispIdle, DispAt, DispState, ReconState
  <2>7. CASE RegisterCompensation(d)
    BY <2>7 DEF RegisterCompensation, DispIdle, DispAt, DispState, ReconState
  <2> QED
    BY <1>2, <2>1, <2>2, <2>3, <2>4, <2>5, <2>6, <2>7 DEF DispatcherStep
<1>3. ASSUME NEW r \in Reconciler, ReconcilerStep(r) PROVE OnceInv'
  <2>1. CASE \E k \in Key : ListEffect(r, k)
    BY <2>1 DEF ListEffect, Unresolved, ReconAt, DispState, ReconState
  <2>2. CASE \E resolution \in Resolution : Observe(r, resolution)
    BY <2>2 DEF Observe, ReconAt, DispState, ReconState
  <2>3. CASE SelectObserved(r)
    BY <2>3 DEF SelectObserved, ReconAt, DispState, ReconState
  <2>4. CASE WriteObserved(r)
    BY <2>4 DEF WriteObserved, ObservationRecorded, ResolvedStatus, Resolution,
                ReconIdle, ReconAt, DispState, ReconState
  <2>5. CASE RegisterDuplicate(r)
    BY <2>5 DEF RegisterDuplicate, ReconIdle, ReconAt, DispState, ReconState
  <2> QED
    BY <1>3, <2>1, <2>2, <2>3, <2>4, <2>5 DEF ReconcilerStep
<1>4. ASSUME NEW d \in Dispatcher, CrashDispatcher(d) PROVE OnceInv'
  BY <1>4 DEF CrashDispatcher, DispIdle, DispAt, DispState, ReconState
<1>5. ASSUME NEW r \in Reconciler, CrashReconciler(r) PROVE OnceInv'
  BY <1>5 DEF CrashReconciler, ReconIdle, ReconAt, DispState, ReconState
<1>6. CASE UNCHANGED vars
  BY <1>6 DEF vars
<1> QED
  BY <1>1, <1>2, <1>3, <1>4, <1>5, <1>6 DEF Next

(* A non-idempotent operation is executed at most once, for any number of effects,
   reactors and crashes, provided that a lease outlives the call made under it
   (Prompt), that the connector looks an operation up before it issues it (Peeks),
   and that reconcilers leave PENDING effects alone.  Without the second of these,
   a dispatcher that dies after it issued the operation has a successor that issues it again. *)
THEOREM AtMostOnce == (Prompt /\ Peeks /\ ~ReconcilePending) /\ Spec => []AtMostOneLanding
<1>1. OnceInv => AtMostOneLanding
  BY DEF OnceInv, AtMostOneLanding
<1>2. ASSUME Prompt, Peeks, ~ReconcilePending PROVE Spec => []AtMostOneLanding
  <2>1. TypeInv /\ OnceInv /\ [Next]_vars => OnceInv'
    BY <1>2, OnceStep
  <2> QED
    BY <1>1, <2>1, TypeInit, TypeStep, OnceInit, PTL DEF Spec
<1> QED
  BY <1>2

(* A row that a non-idempotent effect can be reopened through is in the hands of a
   dispatcher, which holds it PENDING, or of a reconciler, whose resolutions do
   not lead back to PENDING. *)
LEMMA ReopenStep ==
  ASSUME TypeInv, OnceInv, [Next]_vars, NEW k \in NonIdempotent,
         effect[k].status \in {"CONFIRMED", "FAILED", "UNKNOWN"}
  PROVE  effect'[k].status # "PENDING"
<1> USE EffectOutboxAssumption DEF TypeInv, TypeOK, LocalOK, OnceInv, InFlight
<1>1. ASSUME NEW d \in Dispatcher, Write(d) PROVE effect'[k].status # "PENDING"
  BY <1>1 DEF Write, DispState
<1>2. ASSUME NEW r \in Reconciler, WriteObserved(r) PROVE effect'[k].status # "PENDING"
  BY <1>2 DEF WriteObserved, ObservationRecorded, ResolvedStatus, Resolution, ReconState
<1>3. ASSUME NEW j \in Key, Environment(j) PROVE effect'[k].status # "PENDING"
  <2>1. CASE BeginEffect(j)
    BY <2>1 DEF BeginEffect
  <2>2. CASE BecomesDue(j)
    BY <2>2 DEF BecomesDue, Row
  <2>3. CASE LeaseExpires(j)
    BY <2>3 DEF LeaseExpires, Row
  <2>4. CASE Settle(j)
    BY <2>4 DEF Settle
  <2> QED
    BY <1>3, <2>1, <2>2, <2>3, <2>4 DEF Environment
<1>4. ASSUME NEW d \in Dispatcher, DispatcherStep(d), ~Write(d) PROVE effect'[k].status # "PENDING"
  <2>1. ASSUME NEW j \in Key, Claim(d, j) PROVE effect'[k].status # "PENDING"
    BY <2>1 DEF Claim, Claimed, Row
  <2>2. CASE UNCHANGED effect
    BY <2>2
  <2>3. (\E j \in Key : Claim(d, j)) \/ UNCHANGED effect
    BY <1>4 DEF DispatcherStep, Reread, Peek, Issue, Select, RegisterCompensation
  <2> QED
    BY <2>1, <2>2, <2>3
<1>5. ASSUME NEW r \in Reconciler, ReconcilerStep(r), ~WriteObserved(r)
      PROVE  effect'[k].status # "PENDING"
  BY <1>5 DEF ReconcilerStep, ListEffect, Observe, SelectObserved, RegisterDuplicate
<1>6. ASSUME \/ \E d \in Dispatcher : CrashDispatcher(d)
             \/ \E r \in Reconciler : CrashReconciler(r)
             \/ UNCHANGED vars
      PROVE  effect'[k].status # "PENDING"
  BY <1>6 DEF CrashDispatcher, CrashReconciler, vars
<1> QED
  BY <1>1, <1>2, <1>3, <1>4, <1>5, <1>6 DEF Next

(* Under the same conditions a non-idempotent effect that was confirmed, failed
   or became UNKNOWN is never handed back to the outbox. *)
THEOREM NotReopened == (Prompt /\ Peeks /\ ~ReconcilePending) /\ Spec => NeverReopened
<1>1. ASSUME Prompt, Peeks, ~ReconcilePending PROVE Spec => NeverReopened
  <2>1. TypeInv /\ OnceInv /\ [Next]_vars => OnceInv'
    BY <1>1, OnceStep
  <2>2. TypeInv /\ OnceInv /\ [Next]_vars =>
          [\A k \in NonIdempotent :
             effect[k].status \in {"CONFIRMED", "FAILED", "UNKNOWN"} => effect'[k].status # "PENDING"]_vars
    BY ReopenStep
  <2> QED
    BY <2>1, <2>2, TypeInit, TypeStep, OnceInit, PTL DEF Spec, NeverReopened
<1> QED
  BY <1>1

-----------------------------------------------------------------------------
(* Only recorded effects are worked on, and an idempotent counterparty executes a
   key at most once. *)
RecordedInv ==
  /\ \A k \in Key : limbo[k] > 0 => effect[k].status # "NONE"
  /\ \A k \in Key \ NonIdempotent : landed[k] <= 1
  /\ \A d \in Dispatcher : disp[d].key # None => effect[disp[d].key].status # "NONE"
  /\ \A r \in Reconciler : recon[r].key # None => effect[recon[r].key].status # "NONE"

LEMMA RecordedInit == Init => RecordedInv
BY EffectOutboxAssumption
DEF Init, RecordedInv, NoRow, DispIdle, DispAt, ReconIdle, ReconAt

LEMMA RecordedStep == TypeInv /\ RecordedInv /\ [Next]_vars => RecordedInv'
<1> SUFFICES ASSUME TypeInv, RecordedInv, [Next]_vars PROVE RecordedInv'
  OBVIOUS
<1> USE EffectOutboxAssumption
<1> USE DEF TypeInv, TypeOK, LocalOK, RecordedInv
<1>1. ASSUME NEW k \in Key, Environment(k) PROVE RecordedInv'
  <2>1. CASE BeginEffect(k)
    BY <2>1 DEF BeginEffect, Inserted, DispState, ReconState
  <2>2. CASE BecomesDue(k)
    BY <2>2 DEF BecomesDue, DispState, ReconState, Row
  <2>3. CASE LeaseExpires(k)
    BY <2>3 DEF LeaseExpires, DispState, ReconState, Row
  <2>4. CASE Settle(k)
    BY <2>4 DEF Settle, OneMore, DispState, ReconState
  <2> QED
    BY <1>1, <2>1, <2>2, <2>3, <2>4 DEF Environment
<1>2. ASSUME NEW d \in Dispatcher, DispatcherStep(d) PROVE RecordedInv'
  <2>1. CASE \E k \in Key : Claim(d, k)
    BY <2>1 DEF Claim, Claimable, Claimed, DispAt, DispState, ReconState
  <2>2. CASE Reread(d)
    BY <2>2 DEF Reread, DispIdle, DispAt, DispState, ReconState
  <2>3. CASE Peek(d)
    BY <2>3 DEF Peek, DispAt, DispState, ReconState
  <2>4. CASE \E outcome \in Outcome : Issue(d, outcome)
    BY <2>4 DEF Issue, Outcome, ReportOf, OneMore, DispAt, DispState, ReconState
  <2>5. CASE Select(d)
    BY <2>5 DEF Select, AfterComplete, DispIdle, DispAt, DispState, ReconState
  <2>6. CASE Write(d)
    BY <2>6 DEF Write, AfterComplete, Reported, ObservationRecorded, AttemptRecorded,
                ResolvedStatus, DispIdle, DispAt, DispState, ReconState
  <2>7. CASE RegisterCompensation(d)
    BY <2>7 DEF RegisterCompensation, DispIdle, DispAt, DispState, ReconState
  <2> QED
    BY <1>2, <2>1, <2>2, <2>3, <2>4, <2>5, <2>6, <2>7 DEF DispatcherStep
<1>3. ASSUME NEW r \in Reconciler, ReconcilerStep(r) PROVE RecordedInv'
  <2>1. CASE \E k \in Key : ListEffect(r, k)
    BY <2>1 DEF ListEffect, Unresolved, ReconAt, DispState, ReconState
  <2>2. CASE \E resolution \in Resolution : Observe(r, resolution)
    BY <2>2 DEF Observe, ReconAt, DispState, ReconState
  <2>3. CASE SelectObserved(r)
    BY <2>3 DEF SelectObserved, ReconAt, DispState, ReconState
  <2>4. CASE WriteObserved(r)
    BY <2>4 DEF WriteObserved, ObservationRecorded, ResolvedStatus, Resolution,
                ReconIdle, ReconAt, DispState, ReconState
  <2>5. CASE RegisterDuplicate(r)
    BY <2>5 DEF RegisterDuplicate, ReconIdle, ReconAt, DispState, ReconState
  <2> QED
    BY <1>3, <2>1, <2>2, <2>3, <2>4, <2>5 DEF ReconcilerStep
<1>4. ASSUME NEW d \in Dispatcher, CrashDispatcher(d) PROVE RecordedInv'
  BY <1>4 DEF CrashDispatcher, DispIdle, DispAt, DispState, ReconState
<1>5. ASSUME NEW r \in Reconciler, CrashReconciler(r) PROVE RecordedInv'
  BY <1>5 DEF CrashReconciler, ReconIdle, ReconAt, DispState, ReconState
<1>6. CASE UNCHANGED vars
  BY <1>6 DEF vars
<1> QED
  BY <1>1, <1>2, <1>3, <1>4, <1>5, <1>6 DEF Next

ContractStep == [Contract!Next]_(Contract!contractVars)

(* A step that touches no row's status and executes nothing is a stutter. *)
LEMMA ContractStutter ==
  ASSUME TypeOK, \A k \in Key : effect'[k].status = effect[k].status, UNCHANGED landed
  PROVE  ContractStep
BY DEF ContractStep, Contract!contractVars

(* A write of one recorded row is a Settle or a Reopen of the contract. *)
LEMMA ContractWrite ==
  ASSUME TypeOK, NEW k \in Key, NEW row \in Row,
         effect' = [effect EXCEPT ![k] = row], UNCHANGED landed,
         effect[k].status # "NONE", row.status # "NONE",
         row.status = "CONFIRMED" => landed[k] > 0,
         row.status = "PENDING" => effect[k].status = "PENDING" \/ k \notin NonIdempotent
  PROVE  ContractStep
<1> DEFINE st == [j \in Key |-> effect[j].status]
<1>1. [j \in Key |-> effect[j].status]' = [st EXCEPT ![k] = row.status]
  BY DEF TypeOK
<1>2. CASE row.status \in {"CONFIRMED", "FAILED", "UNKNOWN"}
  <2>1. Contract!Settle(k, row.status)
    BY <1>1, <1>2 DEF Contract!Settle
  <2> QED
    BY <1>2, <2>1 DEF ContractStep, Contract!Next
<1>3. CASE row.status = "PENDING" /\ effect[k].status = "PENDING"
  BY <1>3, ContractStutter DEF TypeOK
<1>4. CASE row.status = "PENDING" /\ k \notin NonIdempotent
  <2>1. Contract!Reopen(k)
    BY <1>1, <1>4 DEF Contract!Reopen
  <2> QED
    BY <2>1 DEF ContractStep, Contract!Next
<1> QED
  BY <1>2, <1>3, <1>4 DEF Row, Status

(* A request that reaches the counterparty is an Execute. *)
LEMMA ContractExecute ==
  ASSUME TypeOK, RecordedInv, NEW k \in Key, effect[k].status # "NONE", UNCHANGED effect,
         landed' = [landed EXCEPT ![k] = OneMore(k, @)],
         k \in NonIdempotent => landed[k] = 0
  PROVE  ContractStep
<1>1. CASE landed[k] = 0
  <2>1. Contract!Execute(k)
    BY <1>1 DEF Contract!Execute, OneMore, TypeOK
  <2> QED
    BY <2>1 DEF ContractStep, Contract!Next
<1>2. CASE landed[k] # 0
  <2>1. landed[k] = 1
    BY <1>2 DEF RecordedInv, TypeOK
  <2>2. landed' = landed
    BY <1>2, <2>1 DEF OneMore, TypeOK
  <2> QED
    BY <2>2, ContractStutter
<1> QED
  BY <1>1, <1>2

LEMMA ContractInit == Init => Contract!Init
BY DEF Init, Contract!Init, NoRow

LEMMA ContractNext ==
  ASSUME TypeInv, LandedInv, OnceInv, RecordedInv, [Next]_vars
  PROVE  ContractStep
<1> USE EffectOutboxAssumption
<1> TypeOK
  BY DEF TypeInv
<1>1. ASSUME NEW k \in Key, Environment(k) PROVE ContractStep
  <2>1. CASE BeginEffect(k)
    <3>1. Contract!Record(k)
      BY <2>1 DEF BeginEffect, Inserted, Contract!Record, TypeOK
    <3> QED
      BY <3>1 DEF ContractStep, Contract!Next
  <2>2. CASE BecomesDue(k)
    BY <2>2, ContractStutter DEF BecomesDue, TypeOK, Row
  <2>3. CASE LeaseExpires(k)
    BY <2>3, ContractStutter DEF LeaseExpires, TypeOK, Row
  <2>4. CASE Settle(k)
    <3>1. CASE UNCHANGED landed
      BY <2>4, <3>1, ContractStutter DEF Settle
    <3>2. CASE landed' = [landed EXCEPT ![k] = OneMore(k, @)]
      <4>1. effect[k].status # "NONE" /\ UNCHANGED effect
        BY <2>4 DEF Settle, RecordedInv
      <4>2. k \in NonIdempotent => landed[k] = 0
        BY <2>4 DEF Settle, OnceInv, TypeOK
      <4> QED
        BY <3>2, <4>1, <4>2, ContractExecute
    <3> QED
      BY <2>4, <3>1, <3>2 DEF Settle
  <2> QED
    BY <1>1, <2>1, <2>2, <2>3, <2>4 DEF Environment
<1>2. ASSUME NEW d \in Dispatcher, DispatcherStep(d) PROVE ContractStep
  <2>1. ASSUME NEW k \in Key, Claim(d, k) PROVE ContractStep
    BY <2>1, ContractStutter DEF Claim, Claimed, TypeOK, Row
  <2>2. CASE UNCHANGED <<effect, landed>>
    BY <2>2, ContractStutter
  <2>3. ASSUME NEW outcome \in Outcome, Issue(d, outcome) PROVE ContractStep
    <3>1. PICK k \in Key : k = disp[d].key
      BY <2>3 DEF Issue, TypeInv, TypeOK, LocalOK, DispState
    <3>2. effect[k].status # "NONE" /\ UNCHANGED effect
      BY <2>3, <3>1 DEF Issue, RecordedInv
    <3>3. k \in NonIdempotent => landed[k] = 0
      BY <2>3, <3>1 DEF Issue, OnceInv, InFlight
    <3>4. UNCHANGED landed \/ landed' = [landed EXCEPT ![k] = OneMore(k, @)]
      BY <2>3, <3>1 DEF Issue
    <3> QED
      BY <3>2, <3>3, <3>4, ContractExecute, ContractStutter
  <2>4. CASE Write(d)
    <3>1. PICK k \in Key : k = disp[d].key
      BY <2>4 DEF Write, TypeInv, TypeOK, LocalOK, DispState
    <3>2. PICK row : row = Reported(effect[k], k, disp[d].report, disp[d].seen)
      OBVIOUS
    <3>3. effect' = [effect EXCEPT ![k] = row] /\ UNCHANGED landed
      BY <2>4, <3>1, <3>2 DEF Write
    <3>4. disp[d].report \in Report
      BY <2>4 DEF Write, TypeInv, LocalOK
    <3>5. row \in Row /\ row.status # "NONE"
      <4>1. effect[k] \in Row /\ disp[d].seen \in Row
        BY <3>1 DEF TypeOK, DispState
      <4>2. CASE disp[d].report = "complete"
        BY <3>2, <4>1, <4>2 DEF Reported, Row, Status
      <4>3. CASE disp[d].report = "failed"
        BY <3>2, <4>1, <4>3 DEF Reported, ObservationRecorded, ResolvedStatus, Row, Status
      <4>4. CASE disp[d].report \in {"retry", "unknown"}
        BY <3>2, <4>1, <4>4 DEF Reported, AttemptRecorded, Row, Status
      <4> QED
        BY <3>4, <4>2, <4>3, <4>4 DEF Report
    <3>6. effect[k].status # "NONE"
      BY <2>4, <3>1 DEF Write, RecordedInv
    <3>7. row.status = "CONFIRMED" => landed[k] > 0
      BY <2>4, <3>1, <3>2, <3>4 DEF Report, Reported, ObservationRecorded, AttemptRecorded,
                              ResolvedStatus, LandedInv, Write
    <3>8. row.status = "PENDING" => effect[k].status = "PENDING" \/ k \notin NonIdempotent
      BY <2>4, <3>1 DEF Write, OnceInv, InFlight
    <3> QED
      BY <3>3, <3>5, <3>6, <3>7, <3>8, ContractWrite
  <2> QED
    BY <1>2, <2>1, <2>2, <2>3, <2>4
    DEF DispatcherStep, Reread, Peek, Select, RegisterCompensation
<1>3. ASSUME NEW r \in Reconciler, ReconcilerStep(r) PROVE ContractStep
  <2>1. CASE UNCHANGED <<effect, landed>>
    BY <2>1, ContractStutter
  <2>2. CASE WriteObserved(r)
    <3>1. PICK k \in Key : k = recon[r].key
      BY <2>2 DEF WriteObserved, TypeInv, TypeOK, LocalOK, ReconState
    <3>2. PICK row : row = ObservationRecorded(effect[k], recon[r].seen, k, recon[r].resolution)
      OBVIOUS
    <3>3. effect' = [effect EXCEPT ![k] = row] /\ UNCHANGED landed
      BY <2>2, <3>1, <3>2 DEF WriteObserved
    <3>4. recon[r].resolution \in Resolution
      BY <2>2 DEF WriteObserved, TypeInv, LocalOK
    <3>5. row \in Row /\ row.status # "NONE"
      BY <3>1, <3>2, <3>4 DEF Resolution, ObservationRecorded, ResolvedStatus, TypeOK,
                              ReconState, Row, Status
    <3>6. effect[k].status # "NONE"
      BY <2>2, <3>1 DEF WriteObserved, RecordedInv
    <3>7. row.status = "CONFIRMED" => landed[k] > 0
      BY <2>2, <3>1, <3>2, <3>4 DEF Resolution, ObservationRecorded, ResolvedStatus, LandedInv,
                              WriteObserved
    <3>8. row.status = "PENDING" => k \notin NonIdempotent
      BY <3>2, <3>4 DEF Resolution, ObservationRecorded, ResolvedStatus
    <3> QED
      BY <3>3, <3>5, <3>6, <3>7, <3>8, ContractWrite
  <2> QED
    BY <1>3, <2>1, <2>2 DEF ReconcilerStep, ListEffect, Observe, SelectObserved, RegisterDuplicate
<1>4. CASE UNCHANGED <<effect, landed>>
  BY <1>4, ContractStutter
<1> QED
  BY <1>1, <1>2, <1>3, <1>4 DEF Next, CrashDispatcher, CrashReconciler, vars

(* Under the conditions of AtMostOnce the outbox implements the effect contract, for
   any number of effects, reactors and crashes: every step of a reactor, late
   reports included, is a step of EffectContract or changes nothing it speaks of. *)
THEOREM OutboxKeepsContract == (Prompt /\ Peeks /\ ~ReconcilePending) /\ Spec => KeepsContract
<1>1. ASSUME Prompt, Peeks, ~ReconcilePending PROVE Spec => KeepsContract
  <2>1. TypeInv /\ OnceInv /\ [Next]_vars => OnceInv'
    BY <1>1, OnceStep
  <2>2. TypeInv /\ LandedInv /\ OnceInv /\ RecordedInv /\ [Next]_vars =>
          [Contract!Next]_(Contract!contractVars)
    BY ContractNext DEF ContractStep
  <2> QED
    BY <2>1, <2>2, TypeInit, TypeStep, LandedInit, LandedStep, OnceInit, RecordedInit, RecordedStep,
       ContractInit, PTL DEF Spec, KeepsContract, Contract!Spec
<1> QED
  BY <1>1

-----------------------------------------------------------------------------
(* A reconciler with an effect that it has not yet written. *)
Resolving == {"observing", "select", "write"}

(* Who is about to write a row found it open and still does: a dispatcher holds it
   PENDING under its own live lease, and the one reconciler holds it UNKNOWN, for
   nobody else writes an UNKNOWN row. *)
HoldInv ==
  /\ \A d \in Dispatcher, k \in Key : InFlight(d, k) =>
       effect[k].status = "PENDING" /\ effect[k].claimed_by = d /\ ~effect[k].expired
  /\ \A r \in Reconciler :
       recon[r].pc \in Resolving => effect[recon[r].key].status = "UNKNOWN"

LEMMA HoldInit == Init => HoldInv
BY EffectOutboxAssumption
DEF Init, HoldInv, Resolving, InFlight, DispIdle, DispAt, ReconIdle, ReconAt

(* A step after which nobody holds a row that it did not hold before, and after which
   the rows still held are as they were. *)
LEMMA HoldKept ==
  ASSUME HoldInv,
         \A d \in Dispatcher, k \in Key : InFlight(d, k)' =>
           /\ InFlight(d, k)
           /\ effect'[k].status = effect[k].status
           /\ effect'[k].claimed_by = effect[k].claimed_by
           /\ effect'[k].expired = effect[k].expired,
         \A r \in Reconciler : recon'[r].pc \in Resolving =>
           /\ recon[r].pc \in Resolving
           /\ recon'[r].key = recon[r].key
           /\ effect'[recon[r].key].status = effect[recon[r].key].status
  PROVE  HoldInv'
<1>1. ASSUME NEW d \in Dispatcher, NEW k \in Key, InFlight(d, k)'
      PROVE  effect'[k].status = "PENDING" /\ effect'[k].claimed_by = d /\ ~effect'[k].expired
  <2>1. effect[k].status = "PENDING" /\ effect[k].claimed_by = d /\ ~effect[k].expired
    BY <1>1 DEF HoldInv
  <2> QED
    BY <1>1, <2>1
<1>2. ASSUME NEW r \in Reconciler, recon'[r].pc \in Resolving
      PROVE  effect'[recon'[r].key].status = "UNKNOWN"
  BY <1>2 DEF HoldInv
<1> QED
  BY <1>1, <1>2 DEF HoldInv, Resolving

(* The steps of a dispatcher that write no effect. *)
LEMMA DispatcherKeeps ==
  ASSUME TypeInv, HoldInv, UNCHANGED <<effect, recon>>, NEW d \in Dispatcher, NEW s,
         disp' = [disp EXCEPT ![d] = s],
         s.pc \in {"idle", "register"} \/ InFlight(d, s.key)
  PROVE  HoldInv'
<1>1. disp \in [Dispatcher -> DispState]
  BY DEF TypeInv, TypeOK
<1>2. ASSUME NEW e \in Dispatcher, NEW k \in Key, InFlight(e, k)' PROVE InFlight(e, k)
  <2>1. CASE e = d
    BY <1>1, <1>2, <2>1 DEF InFlight
  <2>2. CASE e # d
    BY <1>1, <1>2, <2>2 DEF InFlight
  <2> QED
    BY <2>1, <2>2
<1> QED
  BY <1>2, HoldKept

(* The steps of a reconciler that write no effect. *)
LEMMA ReconcilerKeeps ==
  ASSUME TypeInv, HoldInv, UNCHANGED <<effect, disp>>, NEW r \in Reconciler, NEW s,
         recon' = [recon EXCEPT ![r] = s],
         s.pc \in {"idle", "register"} \/ (s.key = recon[r].key /\ recon[r].pc \in Resolving)
  PROVE  HoldInv'
<1>1. recon \in [Reconciler -> ReconState]
  BY DEF TypeInv, TypeOK
<1>2. ASSUME NEW q \in Reconciler, recon'[q].pc \in Resolving
      PROVE  recon[q].pc \in Resolving /\ recon'[q].key = recon[q].key
  <2>1. CASE q = r
    BY <1>1, <1>2, <2>1 DEF Resolving
  <2>2. CASE q # r
    BY <1>1, <1>2, <2>2
  <2> QED
    BY <2>1, <2>2
<1>3. \A e \in Dispatcher, k \in Key : InFlight(e, k)' => InFlight(e, k)
  BY DEF InFlight
<1> QED
  BY <1>2, <1>3, HoldKept

LEMMA HoldStep ==
  ASSUME Prompt, ~ReconcilePending, \A q, r \in Reconciler : q = r, TypeInv, HoldInv, [Next]_vars
  PROVE  HoldInv'
<1> USE EffectOutboxAssumption
<1>t. /\ effect \in [Key -> Row]
      /\ disp \in [Dispatcher -> DispState]
      /\ recon \in [Reconciler -> ReconState]
  BY DEF TypeInv, TypeOK
<1>d. \A d \in Dispatcher : disp[d].key \in Key \/ disp[d].pc = "idle"
  BY <1>t DEF TypeInv, LocalOK, DispState
<1>r. \A r \in Reconciler : recon[r].key \in Key \/ recon[r].pc = "idle"
  BY <1>t DEF TypeInv, LocalOK, ReconState
<1>w. \A r \in Reconciler : recon[r].pc \in Resolving => effect[recon[r].key].status = "UNKNOWN"
  BY DEF HoldInv, Resolving
<1>f. \A d \in Dispatcher, k \in Key : InFlight(d, k) =>
        effect[k].status = "PENDING" /\ effect[k].claimed_by = d /\ ~effect[k].expired
  BY DEF HoldInv
<1>1. ASSUME NEW k \in Key, Environment(k) PROVE HoldInv'
  <2>0. ASSUME disp' = disp, recon' = recon,
               \A j \in Key : (\E d \in Dispatcher : InFlight(d, j)) =>
                  /\ effect'[j].status = effect[j].status
                  /\ effect'[j].claimed_by = effect[j].claimed_by
                  /\ effect'[j].expired = effect[j].expired,
               \A r \in Reconciler : recon[r].pc \in Resolving =>
                  effect'[recon[r].key].status = effect[recon[r].key].status
        PROVE  HoldInv'
    <3>1. \A d \in Dispatcher, j \in Key : InFlight(d, j)' => InFlight(d, j)
      BY <2>0 DEF InFlight
    <3> QED
      BY <2>0, <3>1, HoldKept
  <2>1. CASE BeginEffect(k)
    <3>1. \A j \in Key : j # k => effect'[j] = effect[j]
      BY <2>1, <1>t DEF BeginEffect
    <3>2. \A d \in Dispatcher : ~InFlight(d, k)
      BY <2>1, <1>f DEF BeginEffect
    <3>3. \A r \in Reconciler : recon[r].pc \in Resolving => recon[r].key \in Key \ {k}
      BY <2>1, <1>r, <1>w DEF BeginEffect, Resolving
    <3> QED
      BY <2>0, <2>1, <3>1, <3>2, <3>3 DEF BeginEffect
  <2>2. CASE BecomesDue(k)
    <3>1. \A j \in Key : /\ effect'[j].status = effect[j].status
                         /\ effect'[j].claimed_by = effect[j].claimed_by
                         /\ effect'[j].expired = effect[j].expired
      <4>1. effect' = [effect EXCEPT ![k].due = TRUE]
        BY <2>2 DEF BecomesDue
      <4> QED
        BY <4>1, <1>t DEF Row
    <3> QED
      BY <2>0, <2>2, <3>1, <1>r DEF BecomesDue, Resolving
  <2>3. CASE LeaseExpires(k)
    <3>1. \A j \in Key : /\ effect'[j].status = effect[j].status
                         /\ effect'[j].claimed_by = effect[j].claimed_by
                         /\ j # k => effect'[j].expired = effect[j].expired
      <4>1. effect' = [effect EXCEPT ![k] = [effect[k] EXCEPT !.expired = TRUE]]
        BY <2>3 DEF LeaseExpires
      <4>2. effect'[k].status = effect[k].status /\ effect'[k].claimed_by = effect[k].claimed_by
        BY <4>1, <1>t DEF Row
      <4>3. \A j \in Key : j # k => effect'[j] = effect[j]
        BY <4>1, <1>t
      <4> QED
        BY <4>2, <4>3
    <3>2. \A d \in Dispatcher : ~InFlight(d, k)
      BY <2>3 DEF LeaseExpires, InFlight
    <3>3. disp' = disp /\ recon' = recon
      BY <2>3 DEF LeaseExpires
    <3>4. \A r \in Reconciler : recon[r].pc \in Resolving => recon[r].key \in Key
      BY <1>r DEF Resolving
    <3> QED
      BY <2>0, <3>1, <3>2, <3>3, <3>4
  <2>4. CASE Settle(k)
    BY <2>0, <2>4 DEF Settle
  <2> QED
    BY <1>1, <2>1, <2>2, <2>3, <2>4 DEF Environment
<1>2. ASSUME NEW d \in Dispatcher, DispatcherStep(d) PROVE HoldInv'
  <2>1. ASSUME NEW k \in Key, Claim(d, k) PROVE HoldInv'
    <3>1. /\ effect'[k].status = "PENDING" /\ effect'[k].claimed_by = d /\ ~effect'[k].expired
          /\ \A j \in Key : j # k => effect'[j] = effect[j]
      BY <2>1, <1>t DEF Claim, Claimable, Claimed
    <3>2. \A e \in Dispatcher : ~InFlight(e, k)
      BY <2>1, <1>f DEF Claim, Claimable
    <3>3. /\ disp'[d].key = k
          /\ \A e \in Dispatcher : e # d => disp'[e] = disp[e]
      BY <2>1, <1>t DEF Claim, DispAt
    <3>4. ASSUME NEW e \in Dispatcher, NEW j \in Key, InFlight(e, j)'
          PROVE  effect'[j].status = "PENDING" /\ effect'[j].claimed_by = e /\ ~effect'[j].expired
      <4>1. CASE e = d
        BY <4>1, <3>1, <3>3, <3>4 DEF InFlight
      <4>2. CASE e # d
        <5>1. InFlight(e, j)
          BY <4>2, <3>3, <3>4 DEF InFlight
        <5> QED
          BY <5>1, <3>1, <3>2, <1>f
      <4> QED
        BY <4>1, <4>2
    <3>5. ASSUME NEW r \in Reconciler, recon'[r].pc \in Resolving
          PROVE  effect'[recon'[r].key].status = "UNKNOWN"
      <4>1. recon' = recon /\ effect[k].status = "PENDING"
        BY <2>1 DEF Claim, Claimable
      <4> QED
        BY <4>1, <3>1, <3>5, <1>r, <1>w DEF Resolving
    <3> QED
      BY <3>4, <3>5 DEF HoldInv, Resolving
  <2>2. CASE Reread(d)
    BY <2>2, DispatcherKeeps DEF Reread, DispIdle, DispAt, InFlight
  <2>3. CASE Peek(d)
    BY <2>3, DispatcherKeeps DEF Peek, DispAt, InFlight
  <2>4. ASSUME NEW outcome \in Outcome, Issue(d, outcome) PROVE HoldInv'
    BY <2>4, DispatcherKeeps DEF Issue, DispAt, InFlight
  <2>5. CASE Select(d)
    BY <2>5, DispatcherKeeps DEF Select, AfterComplete, DispIdle, DispAt, InFlight
  <2>6. CASE Write(d)
    <3>1. InFlight(d, disp[d].key) /\ disp[d].key \in Key
      BY <2>6, <1>d DEF Write, InFlight
    <3>2. disp'[d].pc \in {"idle", "register"} /\ \A e \in Dispatcher : e # d => disp'[e] = disp[e]
      BY <2>6, <1>t DEF Write, AfterComplete, DispIdle, DispAt
    <3>3. recon' = recon /\ \A j \in Key : j # disp[d].key => effect'[j] = effect[j]
      BY <2>6, <1>t DEF Write
    <3>4. ASSUME NEW e \in Dispatcher, NEW j \in Key, InFlight(e, j)'
          PROVE  InFlight(e, j) /\ j # disp[d].key
      <4>1. e # d
        BY <3>2, <3>4 DEF InFlight
      <4>2. InFlight(e, j)
        BY <4>1, <3>2, <3>4 DEF InFlight
      <4> QED
        BY <4>1, <4>2, <3>1, <1>f
    <3>5. \A r \in Reconciler : recon[r].pc \in Resolving => recon[r].key \in Key \ {disp[d].key}
      BY <3>1, <1>f, <1>r, <1>w DEF Resolving
    <3> QED
      BY <3>3, <3>4, <3>5, HoldKept
  <2>7. CASE RegisterCompensation(d)
    BY <2>7, DispatcherKeeps DEF RegisterCompensation, DispIdle, DispAt
  <2> QED
    BY <1>2, <2>1, <2>2, <2>3, <2>4, <2>5, <2>6, <2>7 DEF DispatcherStep
<1>3. ASSUME NEW r \in Reconciler, ReconcilerStep(r) PROVE HoldInv'
  <2>1. ASSUME NEW k \in Key, ListEffect(r, k) PROVE HoldInv'
    <3>1. effect' = effect /\ disp' = disp /\ effect[k].status = "UNKNOWN"
      BY <2>1 DEF ListEffect, Unresolved
    <3>2. recon'[r].key = k /\ \A q \in Reconciler : q = r
      BY <2>1, <1>t DEF ListEffect, ReconAt
    <3>3. \A d \in Dispatcher, j \in Key : InFlight(d, j)' => InFlight(d, j)
      BY <3>1 DEF InFlight
    <3>4. \A q \in Reconciler : effect'[recon'[q].key].status = "UNKNOWN"
      BY <3>1, <3>2
    <3> QED
      BY <3>1, <3>3, <3>4, <1>f DEF HoldInv
  <2>2. ASSUME NEW resolution \in Resolution, Observe(r, resolution) PROVE HoldInv'
    BY <2>2, ReconcilerKeeps DEF Observe, ReconAt, Resolving
  <2>3. CASE SelectObserved(r)
    BY <2>3, ReconcilerKeeps DEF SelectObserved, ReconAt, Resolving
  <2>4. CASE WriteObserved(r)
    <3>1. recon[r].key \in Key /\ effect[recon[r].key].status = "UNKNOWN"
      BY <2>4, <1>r, <1>w DEF WriteObserved, Resolving
    <3>2. disp' = disp /\ \A j \in Key : j # recon[r].key => effect'[j] = effect[j]
      BY <2>4, <1>t DEF WriteObserved
    <3>3. recon'[r].pc \in {"idle", "register"} /\ \A q \in Reconciler : q = r
      BY <2>4, <1>t DEF WriteObserved, ReconIdle, ReconAt
    <3>4. \A d \in Dispatcher, j \in Key : InFlight(d, j)' => InFlight(d, j) /\ j # recon[r].key
      BY <3>1, <3>2, <1>f DEF InFlight
    <3>5. \A q \in Reconciler : recon'[q].pc \notin Resolving
      BY <3>3 DEF Resolving
    <3> QED
      BY <3>2, <3>4, <3>5, HoldKept
  <2>5. CASE RegisterDuplicate(r)
    BY <2>5, ReconcilerKeeps DEF RegisterDuplicate, ReconIdle, ReconAt
  <2> QED
    BY <1>3, <2>1, <2>2, <2>3, <2>4, <2>5 DEF ReconcilerStep
<1>4. ASSUME NEW d \in Dispatcher, CrashDispatcher(d) PROVE HoldInv'
  BY <1>4, DispatcherKeeps DEF CrashDispatcher, DispIdle, DispAt
<1>5. ASSUME NEW r \in Reconciler, CrashReconciler(r) PROVE HoldInv'
  BY <1>5, ReconcilerKeeps DEF CrashReconciler, ReconIdle, ReconAt
<1>6. CASE UNCHANGED vars
  BY <1>6 DEF vars, HoldInv, InFlight
<1> QED
  BY <1>1, <1>2, <1>3, <1>4, <1>5, <1>6 DEF Next

LEMMA ConfirmedStep ==
  ASSUME TypeInv, HoldInv, [Next]_vars, NEW k \in Key, effect[k].status = "CONFIRMED"
  PROVE  effect'[k].status = "CONFIRMED"
<1> USE EffectOutboxAssumption
<1>t. effect \in [Key -> Row] /\ disp \in [Dispatcher -> DispState]
  BY DEF TypeInv, TypeOK
<1>1. ASSUME NEW j \in Key, Environment(j) PROVE effect'[k].status = "CONFIRMED"
  <2>1. CASE BeginEffect(j)
    BY <2>1, <1>t DEF BeginEffect
  <2>2. CASE BecomesDue(j)
    BY <2>2, <1>t DEF BecomesDue, Row
  <2>3. CASE LeaseExpires(j)
    BY <2>3, <1>t DEF LeaseExpires, Row
  <2>4. CASE Settle(j)
    BY <2>4 DEF Settle
  <2> QED
    BY <1>1, <2>1, <2>2, <2>3, <2>4 DEF Environment
<1>2. ASSUME NEW d \in Dispatcher, DispatcherStep(d) PROVE effect'[k].status = "CONFIRMED"
  <2>1. ASSUME NEW j \in Key, Claim(d, j) PROVE effect'[k].status = "CONFIRMED"
    BY <2>1, <1>t DEF Claim, Claimable
  <2>2. CASE Write(d)
    <3>1. disp[d].key # k
      BY <2>2 DEF Write, HoldInv, InFlight
    <3> QED
      BY <2>2, <3>1, <1>t DEF Write
  <2>3. (\E j \in Key : Claim(d, j)) \/ Write(d) \/ UNCHANGED effect
    BY <1>2 DEF DispatcherStep, Reread, Peek, Issue, Select, RegisterCompensation
  <2> QED
    BY <2>1, <2>2, <2>3
<1>3. ASSUME NEW r \in Reconciler, ReconcilerStep(r) PROVE effect'[k].status = "CONFIRMED"
  <2>1. CASE WriteObserved(r)
    <3>1. recon[r].key # k
      BY <2>1 DEF WriteObserved, HoldInv, Resolving
    <3> QED
      BY <2>1, <3>1, <1>t DEF WriteObserved
  <2>2. WriteObserved(r) \/ UNCHANGED effect
    BY <1>3 DEF ReconcilerStep, ListEffect, Observe, SelectObserved, RegisterDuplicate
  <2> QED
    BY <2>1, <2>2
<1>4. ASSUME \/ \E d \in Dispatcher : CrashDispatcher(d)
             \/ \E r \in Reconciler : CrashReconciler(r)
             \/ UNCHANGED vars
      PROVE  effect'[k].status = "CONFIRMED"
  BY <1>4 DEF CrashDispatcher, CrashReconciler, vars
<1> QED
  BY <1>1, <1>2, <1>3, <1>4 DEF Next

(* With prompt leases and one reconciler that leaves PENDING effects alone, CONFIRMED
   is final for every effect and any number of dispatchers, although complete_effect,
   record_dispatch_attempt and record_external_observation write without a condition:
   nobody is left that could write the row.  The connector need not look up. *)
THEOREM ConfirmedIsFinal ==
  (Prompt /\ ~ReconcilePending /\ \A q, r \in Reconciler : q = r) /\ Spec => ConfirmedStays
<1>1. ASSUME Prompt, ~ReconcilePending, \A q, r \in Reconciler : q = r PROVE Spec => ConfirmedStays
  <2>1. TypeInv /\ HoldInv /\ [Next]_vars => HoldInv'
    BY <1>1, HoldStep
  <2>2. TypeInv /\ HoldInv /\ [Next]_vars =>
          [\A k \in Key : effect[k].status = "CONFIRMED" => effect'[k].status = "CONFIRMED"]_vars
    BY ConfirmedStep
  <2> QED
    BY <2>1, <2>2, TypeInit, TypeStep, HoldInit, PTL DEF Spec, ConfirmedStays
<1> QED
  BY <1>1

=============================================================================
