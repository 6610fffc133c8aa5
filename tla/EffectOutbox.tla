--------------------------- MODULE EffectOutbox ---------------------------
(***************************************************************************)
(* The outbox half of the effect ledger.  An effect whose dispatch mode is *)
(* OUTBOX is only recorded by the agent (begin_effect); outbox reactors    *)
(* claim it under a lease, call the counterparty through a connector and   *)
(* report the outcome; reconcilers ask the counterparty about the effects  *)
(* whose outcome is UNKNOWN.                                               *)
(*                                                                         *)
(* Every SQL statement of the store is its own transaction, so a handler   *)
(* that reads a row and then writes it is two steps here ("select",        *)
(* "write") between which any other process may run.  A process may crash  *)
(* between any two steps; a lost RPC or a failed one is the same as a      *)
(* crash of its caller before or after the statement, because dispatch_one *)
(* gives the effect up when a call raises.                                 *)
(*                                                                         *)
(* Time is abstracted to the two comparisons the code makes with it:       *)
(* "due" stands for next_dispatch_at_ms <= now and "expired" for           *)
(* dispatch_claim_expires_at_ms <= now.  The journal entries the handlers  *)
(* append are not modelled here.                                           *)
(***************************************************************************)
EXTENDS Integers, FiniteSets

CONSTANTS
  Key,            \* outbox effects: pairs (run_id, idempotency_key)
  NonIdempotent,  \* those with semantics NON_IDEMPOTENT; the rest are IDEMPOTENT
  Compensable,    \* those whose tool declares a compensator
  Dispatcher,     \* outbox reactor processes
  Reconciler,     \* reconciler processes
  None,           \* the empty dispatch_claimed_by, and no effect at hand
  MaxAttempts,    \* dispatch_max_attempts
  AttemptCap,     \* bound: after this many attempts the counterparty answers
  CrashBudget,    \* bound: how many crashes a behaviour may contain
  Peeks,          \* a connector to a non-idempotent counterparty looks the
                  \* operation up before it issues it
  Prompt,         \* a dispatch lease outlives the call made under it
  ReconcilePending \* reconcilers also take up old PENDING effects
                   \* (reconcile_pending_after_ms > 0)

ASSUME EffectOutboxAssumption ==
  /\ NonIdempotent \subseteq Key
  /\ Compensable \subseteq Key
  /\ None \notin Dispatcher \cup Key
  /\ MaxAttempts \in Nat \ {0}
  /\ AttemptCap \in Nat
  /\ CrashBudget \in Nat
  /\ Peeks \in BOOLEAN
  /\ Prompt \in BOOLEAN
  /\ ReconcilePending \in BOOLEAN

VARIABLES
  effect,   \* the tape_effects rows
  obliged,  \* the effects for which register_compensation has run
  landed,   \* how often the counterparty executed the operation
  limbo,    \* requests sent whose fate is open after the caller gave up
  disp,     \* the local state of each dispatcher
  recon,    \* the local state of each reconciler
  crashes

vars == <<effect, obliged, landed, limbo, disp, recon, crashes>>

Status == {"NONE", "PENDING", "CONFIRMED", "FAILED", "UNKNOWN"}
Resolution == {"CONFIRMED", "FAILED", "ABSENT", "DUPLICATE", "STUCK"}

(* One row of tape_effects; status NONE stands for no row. *)
Row == [status : Status, claimed_by : Dispatcher \cup {None},
        expired : BOOLEAN, due : BOOLEAN, attempts : Nat]

NoRow == [status |-> "NONE", claimed_by |-> None, expired |-> TRUE,
          due |-> FALSE, attempts |-> 0]

(* What a dispatcher reports of the connector's answer: complete_effect, or
   record_dispatch_attempt without or with a next attempt, or an observation
   that the effect FAILED. *)
Report == {"complete", "unknown", "retry", "failed"}

(* A process between two of its steps: the effect at hand, the outcome it will
   report, and the row it last read. *)
DispAt(pc, k, report, seen) == [pc |-> pc, key |-> k, report |-> report, seen |-> seen]
DispIdle == DispAt("idle", None, None, NoRow)
DispState ==
  [pc : {"idle", "claimed", "peeking", "issuing", "select", "write", "register"},
   key : Key \cup {None}, report : Report \cup {None}, seen : Row]

ReconAt(pc, k, resolution, seen) ==
  [pc |-> pc, key |-> k, resolution |-> resolution, seen |-> seen]
ReconIdle == ReconAt("idle", None, None, NoRow)
ReconState ==
  [pc : {"idle", "observing", "select", "write", "register"},
   key : Key \cup {None}, resolution : Resolution \cup {None}, seen : Row]

Init ==
  /\ effect = [k \in Key |-> NoRow]
  /\ obliged = {}
  /\ landed = [k \in Key |-> 0]
  /\ limbo = [k \in Key |-> 0]
  /\ disp = [d \in Dispatcher |-> DispIdle]
  /\ recon = [r \in Reconciler |-> ReconIdle]
  /\ crashes = 0

-----------------------------------------------------------------------------
(* The rows the store's statements write. *)

(* INSERT of begin_effect: PENDING and eligible for dispatch at once. *)
Inserted == [status |-> "PENDING", claimed_by |-> None, expired |-> TRUE,
             due |-> TRUE, attempts |-> 0]

(* Mutant: no arm for a lease that ran out. *)
Claimable_NoReclaim(row) ==
  /\ row.status = "PENDING"
  /\ row.due
  /\ row.claimed_by = None

(* WHERE clause of claim_effect_dispatch (list_effects_to_dispatch has the same one). *)
Claimable(row) ==
  /\ row.status = "PENDING"
  /\ row.due
  /\ row.claimed_by = None \/ row.expired

Claimed(row, d) == [status |-> row.status, claimed_by |-> d, expired |-> FALSE,
                    due |-> row.due, attempts |-> row.attempts]

(* UPDATE of record_dispatch_attempt: attempts counts from the row that was
   read, nothing of the current row is looked at, the lease is cleared. *)
AttemptRecorded(existing, retry) ==
  [status |-> IF retry THEN "PENDING" ELSE "UNKNOWN", claimed_by |-> None,
   expired |-> TRUE, due |-> ~retry, attempts |-> existing.attempts + 1]

(* Mutant: ABSENT reopens the effect whatever its semantics. *)
ResolvedStatus_AbsentReopens(k, resolution) ==
  CASE resolution \in {"CONFIRMED", "DUPLICATE"} -> "CONFIRMED"
    [] resolution = "FAILED" -> "FAILED"
    [] resolution = "ABSENT" -> "PENDING"
    [] resolution = "STUCK" -> "UNKNOWN"

(* The status record_external_observation maps a resolution to. *)
ResolvedStatus(k, resolution) ==
  CASE resolution \in {"CONFIRMED", "DUPLICATE"} -> "CONFIRMED"
    [] resolution = "FAILED" -> "FAILED"
    [] resolution = "ABSENT" -> IF k \in NonIdempotent THEN "FAILED" ELSE "PENDING"
    [] resolution = "STUCK" -> "UNKNOWN"

(* UPDATE of record_external_observation: unconditional, clears the lease. *)
ObservationRecorded(row, existing, k, resolution) ==
  [status |-> ResolvedStatus(k, resolution), claimed_by |-> None, expired |-> TRUE,
   due |-> (resolution = "ABSENT" /\ k \notin NonIdempotent) \/ existing.due,
   attempts |-> row.attempts]

-----------------------------------------------------------------------------
(* The agent and the clock. *)

(* begin_effect of an OUTBOX effect.  A re-drive that begins the effect again
   gets the existing row back and changes nothing. *)
BeginEffect(k) ==
  /\ effect[k].status = "NONE"
  /\ effect' = [effect EXCEPT ![k] = Inserted]
  /\ UNCHANGED <<obliged, landed, limbo, disp, recon, crashes>>

(* next_dispatch_at_ms passes. *)
BecomesDue(k) ==
  /\ effect[k].status # "NONE"
  /\ ~effect[k].due
  /\ effect' = [effect EXCEPT ![k].due = TRUE]
  /\ UNCHANGED <<obliged, landed, limbo, disp, recon, crashes>>

(* dispatch_claim_expires_at_ms passes.  When leases are Prompt this waits for
   the dispatcher working on the effect and for the requests it sent. *)
LeaseExpires(k) ==
  /\ effect[k].claimed_by # None
  /\ ~effect[k].expired
  /\ Prompt => /\ \A d \in Dispatcher : disp[d].key # k
               /\ limbo[k] = 0
  /\ effect' = [effect EXCEPT ![k].expired = TRUE]
  /\ UNCHANGED <<obliged, landed, limbo, disp, recon, crashes>>

-----------------------------------------------------------------------------
(* The outbox reactor: dispatch_one. *)

(* The UPDATE of claim_effect_dispatch wins the effect. *)
Claim(d, k) ==
  /\ disp[d].pc = "idle"
  /\ Claimable(effect[k])
  /\ effect' = [effect EXCEPT ![k] = Claimed(effect[k], d)]
  /\ disp' = [disp EXCEPT ![d] = DispAt("claimed", k, None, NoRow)]
  /\ UNCHANGED <<obliged, landed, limbo, recon, crashes>>

(* The row claim_effect_dispatch re-reads; a status other than PENDING is skipped. *)
Reread(d) ==
  LET k == disp[d].key IN
  /\ disp[d].pc = "claimed"
  /\ disp' = [disp EXCEPT ![d] =
       IF effect[k].status = "PENDING"
       THEN DispAt(IF Peeks /\ k \in NonIdempotent THEN "peeking" ELSE "issuing",
                   k, None, effect[k])
       ELSE DispIdle]
  /\ UNCHANGED <<effect, obliged, landed, limbo, recon, crashes>>

(* The connector finds the operation already executed, or goes on to issue it. *)
Peek(d) ==
  /\ disp[d].pc = "peeking"
  /\ disp' = [disp EXCEPT ![d] =
       IF landed[@.key] > 0
       THEN DispAt("select", @.key, "complete", @.seen)
       ELSE DispAt("issuing", @.key, None, @.seen)]
  /\ UNCHANGED <<effect, obliged, landed, limbo, recon, crashes>>

(* One more execution at the counterparty; an idempotent one executes a key once. *)
OneMore(k, n) == IF k \in NonIdempotent THEN n + 1 ELSE 1

(* Mutant: an exception is retried whatever the semantics. *)
ReportOf_RetryRaised(k, outcome, attempts) ==
  CASE outcome = "confirmed" -> "complete"
    [] outcome = "unknown" -> "unknown"
    [] outcome = "raised" -> "retry"
    [] outcome = "failed" -> IF attempts + 1 >= MaxAttempts THEN "failed" ELSE "retry"

(* The branch of dispatch_one a connector outcome leads to. *)
ReportOf(k, outcome, attempts) ==
  CASE outcome = "confirmed" -> "complete"
    [] outcome = "unknown" -> "unknown"
    [] outcome = "raised" -> IF k \in NonIdempotent THEN "unknown" ELSE "retry"
    [] outcome = "failed" -> IF attempts + 1 >= MaxAttempts THEN "failed" ELSE "retry"

(* connector.dispatch: "confirmed" means the operation was executed, "failed" that
   it was not, and after "unknown" or an exception it was, was not, or may yet be. *)
Issue(d, outcome) ==
  LET k == disp[d].key IN
  /\ disp[d].pc = "issuing"
  /\ outcome = "confirmed" \/ disp[d].seen.attempts < AttemptCap
  /\ \/ /\ outcome # "failed"
        /\ landed' = [landed EXCEPT ![k] = OneMore(k, @)]
        /\ UNCHANGED limbo
     \/ /\ outcome # "confirmed"
        /\ UNCHANGED <<landed, limbo>>
     \/ /\ outcome \in {"unknown", "raised"}
        /\ limbo' = [limbo EXCEPT ![k] = OneMore(k, @)]
        /\ UNCHANGED landed
  /\ disp' = [disp EXCEPT ![d] =
       DispAt("select", k, ReportOf(k, outcome, @.seen.attempts), @.seen)]
  /\ UNCHANGED <<effect, obliged, recon, crashes>>

(* A request in limbo reaches the counterparty or is dropped. *)
Settle(k) ==
  /\ limbo[k] > 0
  /\ limbo' = [limbo EXCEPT ![k] = @ - 1]
  /\ \/ landed' = [landed EXCEPT ![k] = OneMore(k, @)]
     \/ UNCHANGED landed
  /\ UNCHANGED <<effect, obliged, disp, recon, crashes>>

(* complete_effect answered: the dispatcher registers the tool's compensator. *)
AfterComplete(k) ==
  IF k \in Compensable THEN DispAt("register", k, None, NoRow) ELSE DispIdle

(* get_effect at the head of the reporting handler.  complete_effect returns at
   once when the effect is no longer PENDING. *)
Select(d) ==
  LET row == effect[disp[d].key] IN
  /\ disp[d].pc = "select"
  /\ disp' = [disp EXCEPT ![d] =
       IF @.report = "complete" /\ row.status # "PENDING"
       THEN AfterComplete(@.key)
       ELSE DispAt("write", @.key, @.report, row)]
  /\ UNCHANGED <<effect, obliged, landed, limbo, recon, crashes>>

(* The UPDATE of the reporting handler, by the row it read. *)
Reported(row, k, report, existing) ==
  CASE report = "complete" -> [row EXCEPT !.status = "CONFIRMED"]
    [] report = "failed" -> ObservationRecorded(row, existing, k, "FAILED")
    [] OTHER -> AttemptRecorded(existing, report = "retry")

Write(d) ==
  LET s == disp[d] IN
  /\ s.pc = "write"
  /\ effect' = [effect EXCEPT ![s.key] = Reported(@, s.key, s.report, s.seen)]
  /\ disp' = [disp EXCEPT ![d] = IF s.report = "complete" THEN AfterComplete(s.key) ELSE DispIdle]
  /\ UNCHANGED <<obliged, landed, limbo, recon, crashes>>

RegisterCompensation(d) ==
  /\ disp[d].pc = "register"
  /\ obliged' = obliged \cup {disp[d].key}
  /\ disp' = [disp EXCEPT ![d] = DispIdle]
  /\ UNCHANGED <<effect, landed, limbo, recon, crashes>>

-----------------------------------------------------------------------------
(* The reconciler: reconcile_once through the connector's observe(). *)

(* Mutant: effects that are CONFIRMED already are asked about again. *)
Unresolved_Confirmed(row) == row.status \in {"UNKNOWN", "CONFIRMED"}

(* list_pending_effects returns the effects whose outcome is UNKNOWN and, on
   request, the PENDING ones whose ts_ms is old.  A claim sets ts_ms to the end of
   its lease, so a claimed effect is old only after the lease ran out. *)
Unresolved(row) ==
  \/ row.status = "UNKNOWN"
  \/ ReconcilePending /\ row.status = "PENDING" /\ row.expired

ListEffect(r, k) ==
  /\ recon[r].pc = "idle"
  /\ Unresolved(effect[k])
  /\ recon' = [recon EXCEPT ![r] = ReconAt("observing", k, None, NoRow)]
  /\ UNCHANGED <<effect, obliged, landed, limbo, disp, crashes>>

(* observe() counts the executions the counterparty knows of; an error is STUCK. *)
Answers(k) ==
  {"STUCK"} \cup (CASE landed[k] = 0 -> {"ABSENT", "FAILED"}
                   [] landed[k] = 1 -> {"CONFIRMED"}
                   [] OTHER -> {"DUPLICATE"})

Observe(r, resolution) ==
  /\ recon[r].pc = "observing"
  /\ resolution \in Answers(recon[r].key)
  /\ recon' = [recon EXCEPT ![r] = ReconAt("select", @.key, resolution, NoRow)]
  /\ UNCHANGED <<effect, obliged, landed, limbo, disp, crashes>>

(* get_effect at the head of record_external_observation. *)
SelectObserved(r) ==
  /\ recon[r].pc = "select"
  /\ recon' = [recon EXCEPT ![r] = ReconAt("write", @.key, @.resolution, effect[@.key])]
  /\ UNCHANGED <<effect, obliged, landed, limbo, disp, crashes>>

(* Mutant: every observation registers the compensator. *)
WriteObserved_AlwaysRegister(r) ==
  LET s == recon[r] IN
  /\ s.pc = "write"
  /\ effect' = [effect EXCEPT ![s.key] = ObservationRecorded(@, s.seen, s.key, s.resolution)]
  /\ recon' = [recon EXCEPT ![r] = IF s.key \in Compensable
                                   THEN ReconAt("register", s.key, None, NoRow) ELSE ReconIdle]
  /\ UNCHANGED <<obliged, landed, limbo, disp, crashes>>

(* Its UPDATE; a DUPLICATE with a compensator goes on to register_compensation. *)
WriteObserved(r) ==
  LET s == recon[r] IN
  /\ s.pc = "write"
  /\ effect' = [effect EXCEPT ![s.key] = ObservationRecorded(@, s.seen, s.key, s.resolution)]
  /\ recon' = [recon EXCEPT ![r] = IF s.resolution = "DUPLICATE" /\ s.key \in Compensable
                                   THEN ReconAt("register", s.key, None, NoRow) ELSE ReconIdle]
  /\ UNCHANGED <<obliged, landed, limbo, disp, crashes>>

RegisterDuplicate(r) ==
  /\ recon[r].pc = "register"
  /\ obliged' = obliged \cup {recon[r].key}
  /\ recon' = [recon EXCEPT ![r] = ReconIdle]
  /\ UNCHANGED <<effect, landed, limbo, disp, crashes>>

-----------------------------------------------------------------------------
(* A process dies, or an RPC of its fails, and it starts over. *)

CrashDispatcher(d) ==
  /\ crashes < CrashBudget
  /\ disp[d].pc # "idle"
  /\ disp' = [disp EXCEPT ![d] = DispIdle]
  /\ crashes' = crashes + 1
  /\ UNCHANGED <<effect, obliged, landed, limbo, recon>>

CrashReconciler(r) ==
  /\ crashes < CrashBudget
  /\ recon[r].pc # "idle"
  /\ recon' = [recon EXCEPT ![r] = ReconIdle]
  /\ crashes' = crashes + 1
  /\ UNCHANGED <<effect, obliged, landed, limbo, disp>>

Outcome == {"confirmed", "failed", "unknown", "raised"}

DispatcherStep(d) ==
  \/ \E k \in Key : Claim(d, k)
  \/ Reread(d)
  \/ Peek(d)
  \/ \E outcome \in Outcome : Issue(d, outcome)
  \/ Select(d)
  \/ Write(d)
  \/ RegisterCompensation(d)

ReconcilerStep(r) ==
  \/ \E k \in Key : ListEffect(r, k)
  \/ \E resolution \in Resolution : Observe(r, resolution)
  \/ SelectObserved(r)
  \/ WriteObserved(r)
  \/ RegisterDuplicate(r)

Environment(k) ==
  \/ BeginEffect(k)
  \/ BecomesDue(k)
  \/ LeaseExpires(k)
  \/ Settle(k)

Next ==
  \/ \E k \in Key : Environment(k)
  \/ \E d \in Dispatcher : DispatcherStep(d) \/ CrashDispatcher(d)
  \/ \E r \in Reconciler : ReconcilerStep(r) \/ CrashReconciler(r)

Spec == Init /\ [][Next]_vars

(* The reactors run in a loop and finish what they started unless they crash;
   every pass of the outbox tries each effect that is due; time passes. *)
Fairness ==
  /\ \A d \in Dispatcher :
       /\ \A k \in Key : WF_vars(Claim(d, k))
       /\ WF_vars(DispatcherStep(d) /\ disp[d].pc # "idle")
  /\ \A r \in Reconciler : WF_vars(ReconcilerStep(r))
  /\ \A k \in Key : /\ WF_vars(BecomesDue(k))
                     /\ WF_vars(LeaseExpires(k))
                     /\ WF_vars(Settle(k))

FairSpec == Spec /\ Fairness

-----------------------------------------------------------------------------
TypeOK ==
  /\ effect \in [Key -> Row]
  /\ obliged \subseteq Key
  /\ landed \in [Key -> Nat]
  /\ limbo \in [Key -> Nat]
  /\ disp \in [Dispatcher -> DispState]
  /\ recon \in [Reconciler -> ReconState]
  /\ crashes \in Nat

(* A non-idempotent operation is executed at most once, requests still under way
   included: dispatch_one's claim, its "unknown means stop" rule and the
   connector's look-up together keep the outbox from issuing it twice. *)
AtMostOneLanding == \A k \in NonIdempotent : landed[k] + limbo[k] <= 1

(* An effect is CONFIRMED only when the counterparty executed it: no path through
   complete_effect or record_external_observation confirms on a guess. *)
ConfirmedLanded == \A k \in Key : effect[k].status = "CONFIRMED" => landed[k] > 0

(* A compensation is registered only for an operation that was executed, so the
   saga never reverses something that did not happen. *)
ObligedLanded == \A k \in obliged : landed[k] > 0

(* Once a non-idempotent effect has left PENDING it never becomes PENDING again,
   so the outbox cannot pick it up a second time. *)
NeverReopened ==
  [][\A k \in NonIdempotent :
       effect[k].status \in {"CONFIRMED", "FAILED", "UNKNOWN"} => effect'[k].status # "PENDING"]_vars

(* The contract of an effect, read off the table and the counterparty. *)
Contract == INSTANCE EffectContract WITH
  Once <- NonIdempotent, Reopenable <- Key \ NonIdempotent,
  status <- [k \in Key |-> effect[k].status], executed <- landed

(* The outbox implements the effect contract: a row and the executions behind it only
   ever go through the contract's steps, the reports and observations of every
   reactor, late ones included, being its Settle and Reopen. *)
KeepsContract == Contract!Spec

(* What CONFIRMED says is final: a dispatcher that died and one that took its
   effect over, or a reconciler that starts over, do not take it back.  This
   needs one reconciler: record_external_observation has no guard, and the older
   answer of a second one overwrites CONFIRMED. *)
ConfirmedStays ==
  [][\A k \in Key : effect[k].status = "CONFIRMED" => effect'[k].status = "CONFIRMED"]_vars

(* Every effect recorded in the outbox is driven out of PENDING, whatever crashes
   in between: the lease of a dead dispatcher runs out and another one claims. *)
Dispatched == \A k \in Key : effect[k].status = "PENDING" ~> effect[k].status # "PENDING"

=============================================================================
