-------------------------- MODULE EmbeddedLedger --------------------------
(***************************************************************************)
(* The ledger of the embedded tier: the tape_* tables that                 *)
(* TapeSessionService keeps in the database ADK already uses, and its      *)
(* transactions.  On SQLite every mutating method holds the service's      *)
(* write lock around one SQL transaction, so a method is one step here.    *)
(* Modules that extend this one add the processes that call it.            *)
(*                                                                         *)
(* Rows are partial functions: a table maps the keys of its rows to them.  *)
(* Time is abstracted to the comparisons the queries make: due             *)
(* (next_..._at_ms <= now), expired (..._claim_expires_at_ms <= now) and   *)
(* the age of a row: 0 young, 1 beyond effect_ttl_ms, 2 beyond             *)
(* session_ttl_ms.  One session; external_ref and error texts are left out. *)
(***************************************************************************)
EXTENDS Integers, FiniteSets, Functions, FiniteSetsExt, TLC

CONSTANTS
  None,
  Invocation,        \* invocation ids of the session
  Tool,              \* the tools decorated with @effect or @outbox_tool
  OutboxTool,        \* those decorated with @outbox_tool
  Connectors,        \* names the reactors have a connector for; an outbox
                     \* tool's connector has the tool's name
  Kind,              \* the obligation kind of a compensation
  MaxObAttempts,     \* max_attempts of an obligation
  Timer,             \* timer ids
  Worker,            \* reactor processes
  Writer             \* clients of the key-value table

ASSUME EmbeddedLedgerAssumption ==
  /\ OutboxTool \subseteq Tool
  /\ MaxObAttempts \in Nat \ {0}
  /\ None \notin Worker

VARIABLES
  effects,      \* tape_effects: idempotency key -> row
  obligations,  \* tape_obligations: seq -> row
  snapshot,     \* tape_effect_snapshots.effects_json of the session
  timers,       \* tape_timers: timer id -> row
  values        \* tape_values: name -> version of the row

tables == <<effects, obligations, snapshot, timers, values>>

(* Mutant: the key leaves the decision out. *)
KeyOf_NoDecision(inv, dec, tool, call) == <<inv, 0, tool, call>>

(* The derived idempotency key, invocation/decision-i/tool/call_index. *)
KeyOf(inv, dec, tool, call) == <<inv, dec, tool, call>>
ToolOf(k) == k[3]
InvocationOf(k) == k[1]

IsOutbox(k) == ToolOf(k) \in OutboxTool

(* @outbox_tool is the only source of OUTBOX effects and declares NON_IDEMPOTENT. *)
NonIdempotent(k) == IsOutbox(k)

Settled == {"CONFIRMED", "FAILED"}
Active == {"PENDING", "COMMITTED"}

(* A fresh row of tape_effects, as begin_effect inserts it.  The request is the
   agent's call it was made for; a response names the call it answers. *)
EffectRow(request, bk) ==
  [status |-> "PENDING", request |-> request, bk |-> bk, claimer |-> None, expired |-> TRUE,
   due |-> TRUE, attempts |-> 0, age |-> 0, response |-> None]

ObligationRow(k) ==
  [key |-> k, status |-> "PENDING", claimer |-> None, expired |-> TRUE, due |-> TRUE,
   attempts |-> 0, age |-> 0]

LedgerInit ==
  /\ effects = <<>>
  /\ obligations = <<>>
  /\ snapshot = <<>>
  /\ timers = <<>>
  /\ values = <<>>

-----------------------------------------------------------------------------
(* The effect ledger. *)

(* Mutant: the snapshot is not consulted. *)
BeginAnswer_NoSnapshot(k, bk) ==
  IF k \in DOMAIN effects THEN effects[k].status
  ELSE IF bk # None /\ \E j \in DOMAIN effects : ToolOf(j) = ToolOf(k) /\ effects[j].bk = bk
  THEN "REFUSED"
  ELSE "NEW"

(* What begin_effect answers: the status of the live row, else of the captured
   one, else a refusal when UNIQUE (connector, business_key) clashes, else a new row. *)
BeginAnswer(k, bk) ==
  IF k \in DOMAIN effects THEN effects[k].status
  ELSE IF k \in DOMAIN snapshot THEN snapshot[k].status
  ELSE IF bk # None /\ \E j \in DOMAIN effects : ToolOf(j) = ToolOf(k) /\ effects[j].bk = bk
  THEN "REFUSED"
  ELSE "NEW"

(* The response the answer of begin_effect carries. *)
BeginResponse(k) ==
  IF k \in DOMAIN effects THEN effects[k].response
  ELSE IF k \in DOMAIN snapshot THEN snapshot[k].response ELSE None

BeginEffect(k, request, bk) ==
  effects' = IF BeginAnswer(k, bk) = "NEW" THEN effects @@ (k :> EffectRow(request, bk)) ELSE effects

(* Replace the row of k, when there is one. *)
Update(k, row) == IF k \in DOMAIN effects THEN [effects EXCEPT ![k] = row] ELSE effects

(* complete_effect: a no-op unless the row is PENDING. *)
CompleteEffect(k, status, response) ==
  effects' = IF k \in DOMAIN effects /\ effects[k].status = "PENDING"
             THEN Update(k, [effects[k] EXCEPT !.status = status, !.response = response,
                                               !.claimer = None, !.expired = TRUE, !.age = 0])
             ELSE effects

(* Mutant: an effect another worker holds can be claimed. *)
Claimable_AnyLease(k) ==
  /\ k \in DOMAIN effects
  /\ IsOutbox(k)
  /\ effects[k].status = "PENDING"
  /\ effects[k].due

(* The predicate of list_effects_to_dispatch and of the CAS. *)
Claimable(k) ==
  /\ k \in DOMAIN effects
  /\ IsOutbox(k)
  /\ effects[k].status = "PENDING"
  /\ effects[k].due
  /\ effects[k].claimer = None \/ effects[k].expired

(* claim_effect_dispatch when its UPDATE matches the row. *)
ClaimEffectDispatch(k, w) ==
  /\ Claimable(k)
  /\ effects' = [effects EXCEPT ![k].claimer = w, ![k].expired = FALSE]

(* record_dispatch_attempt: whatever the row's status and whoever holds its lease. *)
RecordDispatchAttempt(k, retry) ==
  effects' = Update(k, [effects[k] EXCEPT
    !.attempts = @ + 1, !.claimer = None, !.expired = TRUE, !.age = 0,
    !.status = IF retry THEN @ ELSE "UNKNOWN", !.due = ~retry])

NextSeq == 1 + Max({0} \cup DOMAIN obligations)

(* An obligation row of this effect exists: UNIQUE (session, effect_key, kind). *)
Obliged(k) == \E s \in DOMAIN obligations : obligations[s].key = k

(* Mutant: an absent operation is issued again, idempotent or not. *)
ObservedStatus_Reissue(k, resolution) ==
  CASE resolution \in {"CONFIRMED", "DUPLICATE"} -> "CONFIRMED"
    [] resolution \in {"FAILED", "STUCK"} -> "FAILED"
    [] resolution = "ABSENT" -> "PENDING"

(* The status record_external_observation writes; ABSENT leaves an idempotent
   effect as it is, STUCK is terminal. *)
ObservedStatus(k, resolution) ==
  CASE resolution \in {"CONFIRMED", "DUPLICATE"} -> "CONFIRMED"
    [] resolution \in {"FAILED", "STUCK"} -> "FAILED"
    [] resolution = "ABSENT" -> IF NonIdempotent(k) THEN "UNKNOWN" ELSE effects[k].status

(* A second DUPLICATE violates the unique constraint: the transaction raises. *)
ObservationRaises(k, resolution) ==
  k \in DOMAIN effects /\ resolution = "DUPLICATE" /\ Obliged(k)

(* record_external_observation: no guard on the row's status; the obligation of a
   DUPLICATE is inserted in the same transaction. *)
RecordExternalObservation(k, resolution) ==
  IF k \notin DOMAIN effects \/ ObservationRaises(k, resolution)
  THEN UNCHANGED <<effects, obligations>>
  ELSE /\ effects' = [effects EXCEPT ![k] =
            [@ EXCEPT !.status = ObservedStatus(k, resolution), !.age = 0,
                      !.response = IF resolution \in {"CONFIRMED", "DUPLICATE"}
                                   THEN effects[k].request ELSE @]]
       /\ obligations' = IF resolution = "DUPLICATE"
                         THEN obligations @@ (NextSeq :> ObligationRow(k)) ELSE obligations

-----------------------------------------------------------------------------
(* The obligation ledger. *)

(* register_compensation: idempotent on (effect_key, kind). *)
RegisterCompensation(k) ==
  obligations' = IF Obliged(k) THEN obligations ELSE obligations @@ (NextSeq :> ObligationRow(k))

(* The predicate of list_unresolved_obligations and of the CAS of claim_obligation. *)
Drainable(s) ==
  /\ s \in DOMAIN obligations
  /\ \/ obligations[s].status = "PENDING" /\ obligations[s].due
     \/ obligations[s].status = "COMMITTED" /\ obligations[s].expired

ClaimObligation(s, w) ==
  /\ Drainable(s)
  /\ obligations' = [obligations EXCEPT ![s].status = "COMMITTED", ![s].claimer = w,
                                        ![s].expired = FALSE]

(* Mutant: an obligation whose attempts are exhausted is closed as done. *)
RecordObligationAttempt_Done(s) ==
  obligations' = IF s \notin DOMAIN obligations THEN obligations
    ELSE [obligations EXCEPT ![s] =
           [@ EXCEPT !.attempts = @ + 1, !.claimer = None, !.expired = TRUE, !.age = 0,
                     !.status = IF obligations[s].attempts + 1 >= MaxObAttempts
                                THEN "COMPENSATED" ELSE "PENDING",
                     !.due = FALSE]]

(* record_obligation_attempt with a next attempt: whatever the row's status. *)
RecordObligationAttempt(s) ==
  obligations' = IF s \notin DOMAIN obligations THEN obligations
    ELSE [obligations EXCEPT ![s] =
           [@ EXCEPT !.attempts = @ + 1, !.claimer = None, !.expired = TRUE, !.age = 0,
                     !.status = IF obligations[s].attempts + 1 >= MaxObAttempts
                                THEN "STUCK" ELSE "PENDING",
                     !.due = FALSE]]

(* resolve_obligation to COMPENSATED: whatever the row's status. *)
ResolveObligation(s) ==
  obligations' = IF s \notin DOMAIN obligations THEN obligations
    ELSE [obligations EXCEPT ![s] = [@ EXCEPT !.status = "COMPENSATED", !.claimer = None,
                                              !.expired = TRUE, !.age = 0]]

-----------------------------------------------------------------------------
(* Timers and the key-value table. *)

(* set_timer: an existing row, fired or not, is returned as it is. *)
SetTimer(t) ==
  timers' = IF t \in DOMAIN timers THEN timers
            ELSE timers @@ (t :> [due |-> FALSE, fired |-> FALSE, age |-> 0])

DueTimers == {t \in DOMAIN timers : timers[t].due /\ ~timers[t].fired}

(* list_due_timers(claim=True) marks what it returns fired. *)
ListDueTimers ==
  timers' = [t \in DOMAIN timers |-> [timers[t] EXCEPT !.fired = @ \/ t \in DueTimers]]

CancelTimer(t) == timers' = Restrict(timers, DOMAIN timers \ {t})

(* The check of write_value: a missing row has version 0. *)
WriteAccepted(version, if_version) == if_version < 0 \/ if_version = version

Version(n) == IF n \in DOMAIN values THEN values[n] ELSE 0
NewVersion(n) == values' = (n :> (Version(n) + 1)) @@ values

WriteValue(n, if_version) ==
  IF WriteAccepted(Version(n), if_version) THEN NewVersion(n) ELSE UNCHANGED values

-----------------------------------------------------------------------------
(* Retention. *)

(* Mutant: pinning looks at PENDING obligations only. *)
Pinned_PendingOnly(k) ==
  \E s \in DOMAIN obligations : obligations[s].key = k /\ obligations[s].status = "PENDING"

(* The NOT EXISTS subquery: an active obligation names the effect. *)
Pinned(k) ==
  \E s \in DOMAIN obligations : obligations[s].key = k /\ obligations[s].status \in Active

(* _find_archivable_sessions: effects exist and are all older than the cutoff, no
   obligation is active or STUCK, no timer is unfired.  Unsettled effects do not count. *)
Archivable ==
  /\ DOMAIN effects # {}
  /\ \A k \in DOMAIN effects : effects[k].age = 2
  /\ \A s \in DOMAIN obligations : obligations[s].status = "COMPENSATED"
  /\ \A t \in DOMAIN timers : timers[t].fired

(* compact_once: the session as a whole, else COMPENSATED obligations, fired timers,
   and settled effects that no remaining obligation pins. *)
Compact ==
  IF Archivable
  THEN effects' = <<>> /\ obligations' = <<>> /\ timers' = <<>>
  ELSE /\ obligations' = Restrict(obligations, {s \in DOMAIN obligations :
            ~(obligations[s].status = "COMPENSATED" /\ obligations[s].age > 0)})
       /\ timers' = Restrict(timers, {t \in DOMAIN timers : ~(timers[t].fired /\ timers[t].age > 0)})
       /\ effects' = Restrict(effects, {k \in DOMAIN effects :
            ~(effects[k].status \in Settled /\ effects[k].age > 0 /\ ~Pinned(k))})

(* take_snapshot up to a watermark: merge the settled effects, the newer entry wins. *)
TakeSnapshot(aged) ==
  LET captured == {k \in DOMAIN effects :
                     effects[k].status \in Settled /\ (aged => effects[k].age > 0)}
  IN snapshot' = [k \in captured |->
                    [status |-> effects[k].status, response |-> effects[k].response]] @@ snapshot

(* continue_as_new: drop the old invocation's settled, unpinned effects and write
   the carried state, in one transaction. *)
ContinueAsNew(inv, new) ==
  /\ effects' = Restrict(effects, {k \in DOMAIN effects :
       ~(InvocationOf(k) = inv /\ effects[k].status \in Settled /\ ~Pinned(k))})
  /\ NewVersion(new)

(* Time passes: rows grow older together. *)
Older(table) ==
  [k \in DOMAIN table |-> [table[k] EXCEPT !.age = IF @ = 2 THEN 2 ELSE @ + 1]]

=============================================================================
