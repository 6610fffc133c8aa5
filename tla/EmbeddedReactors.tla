------------------------- MODULE EmbeddedReactors -------------------------
(***************************************************************************)
(* The reactors of the embedded tier as the loop of                        *)
(* python -m tape_adk runs them: each tick of a worker goes through        *)
(* outbox, reconcile, drain, timers and compact in this order.  A reactor  *)
(* lists its rows first and then takes them one by one; between any two of *)
(* its awaits other workers run.  Connectors are external: what they do at *)
(* the counterparty and what they answer is a choice, and the              *)
(* fault-injection wrapper (ChaosConnector) adds its own answers.          *)
(***************************************************************************)
EXTENDS EmbeddedLedger

CONSTANTS
  Faults,            \* connector faults in force: "lose_ack", "duplicate"
  Dedupes,           \* the counterparty executes a business key once
  ReconcilePending,  \* stale_pending_ms > 0
  AttemptCap,        \* bound: after this many attempts a counterparty answers
  CrashBudget,       \* bound: worker crashes in a behaviour
  Retention,         \* retention periods pass
  Promptness         \* bound: the values of prompt, a subset of BOOLEAN

VARIABLES
  worker,    \* the local state of each worker
  landed,    \* request -> how often the counterparty executed it
  reversed,  \* key -> how often it ran the inverse
  fired,     \* timer -> how often its handler ran
  prompt,    \* in this behaviour no lease runs out under a live worker
  crashes

reactorVars == <<worker, landed, reversed, fired, prompt, crashes>>

(* The order in which _tick runs the reactors. *)
After == [outbox |-> "reconcile", reconcile |-> "drain", drain |-> "timers",
          timers |-> "compact", compact |-> "outbox"]

(* A worker between two awaits: its stage, the rows its list returned that are
   still to do, the row at hand and what it will report. *)
At(stage, todo, pc, item, report) ==
  [stage |-> stage, todo |-> todo, pc |-> pc, item |-> item, report |-> report]

(* Between two ticks: the next reactor to run is the outbox. *)
Idle == At("compact", {}, "each", None, None)

(* The row at hand is done, or skipped: on to the next one of the list. *)
Next1(s) == At(s.stage, s.todo, "each", None, None)

Step(w, s) == worker' = [worker EXCEPT ![w] = s]

In(w, stage, pc) == worker[w].stage = stage /\ worker[w].pc = pc

ReactorInit ==
  /\ worker = [w \in Worker |-> Idle]
  /\ landed = <<>>
  /\ reversed = <<>>
  /\ fired = [t \in Timer |-> 0]
  /\ prompt \in Promptness
  /\ crashes = 0

Count(f, x) == IF x \in DOMAIN f THEN f[x] ELSE 0
Bump(f, x) == (x :> (Count(f, x) + 1)) @@ f

(* list_pending_effects: UNKNOWN, and the old PENDING ones on request. *)
Unresolved(k) ==
  \/ effects[k].status = "UNKNOWN"
  \/ ReconcilePending /\ effects[k].status = "PENDING" /\ effects[k].age > 0

(* The rows a reactor's query returns. *)
Listing(stage) ==
  CASE stage = "outbox" -> {k \in DOMAIN effects : Claimable(k)}
    [] stage = "reconcile" -> {k \in DOMAIN effects : Unresolved(k)}
    [] stage = "drain" -> {s \in DOMAIN obligations : Drainable(s)}
    [] stage = "timers" -> DueTimers
    [] stage = "compact" -> {}

(* _tick: a reactor starts with its query when the one before it is done; the
   timers it finds are claimed with it, and compaction is one transaction. *)
StartReactor(w) ==
  LET stage == After[worker[w].stage] IN
  /\ worker[w].pc = "each"
  /\ worker[w].todo = {}
  /\ Step(w, At(stage, Listing(stage), "each", None, None))
  /\ CASE stage = "timers" -> ListDueTimers /\ UNCHANGED <<effects, obligations>>
       [] stage = "compact" -> Compact
       [] OTHER -> UNCHANGED <<effects, obligations, timers>>
  /\ UNCHANGED <<snapshot, values, landed, reversed, fired, prompt, crashes>>

-----------------------------------------------------------------------------
(* dispatch_outbox_once. *)

(* A row without a connector or whose claim is lost is skipped. *)
ClaimOutbox(w) ==
  /\ In(w, "outbox", "each")
  /\ \E k \in worker[w].todo :
       LET rest == worker[w].todo \ {k} IN
       IF ToolOf(k) \in Connectors /\ Claimable(k)
       THEN ClaimEffectDispatch(k, w) /\ Step(w, At("outbox", rest, "reread", k, None))
       ELSE UNCHANGED effects /\ Step(w, At("outbox", rest, "each", None, None))
  /\ UNCHANGED <<obligations, snapshot, timers, values, landed, reversed, fired, prompt, crashes>>

Reread(w) ==
  LET k == worker[w].item IN
  /\ In(w, "outbox", "reread")
  /\ Step(w, IF k \in DOMAIN effects /\ effects[k].status = "PENDING"
             THEN At("outbox", worker[w].todo, "dispatch", k, None)
             ELSE Next1(worker[w]))
  /\ UNCHANGED <<tables, landed, reversed, fired, prompt, crashes>>

(* The answers of a connector's dispatch, by whether the call was executed. *)
DispatchAnswers(executed) ==
  IF executed THEN {"confirmed", "exception"}
  ELSE {"unknown", "exception", "failed", "refused"}

(* ChaosConnector: an injected fault may turn one answer into another. *)
Injected(fault, from, to, answers) ==
  answers \cup (IF fault \in Faults /\ from \in answers THEN {to} ELSE {})

Execute(request) ==
  landed' = IF Dedupes /\ Count(landed, request) > 0 THEN landed ELSE Bump(landed, request)

(* connector.dispatch of the effect as it was re-read. *)
Dispatch(w, executed, answer) ==
  LET k == worker[w].item IN
  /\ In(w, "outbox", "dispatch")
  /\ answer \in Injected("lose_ack", "confirmed", "unknown", DispatchAnswers(executed))
  /\ answer \in {"confirmed", "refused"} \/ k \notin DOMAIN effects
       \/ effects[k].attempts < AttemptCap
  /\ IF executed /\ k \in DOMAIN effects THEN Execute(effects[k].request) ELSE UNCHANGED landed
  /\ Step(w, At("outbox", worker[w].todo, "report", k, answer))
  /\ UNCHANGED <<tables, reversed, fired, prompt, crashes>>

(* The answers that reschedule the effect; "refused" is failed with a negative
   retry_after_ms, which is terminal. *)
Retried(answer) == answer \in {"exception", "failed"}

Report(w) ==
  LET k == worker[w].item
      answer == worker[w].report IN
  /\ In(w, "outbox", "report")
  /\ CASE answer = "confirmed" ->
            CompleteEffect(k, "CONFIRMED", IF k \in DOMAIN effects THEN effects[k].request ELSE None)
       [] answer = "refused" -> CompleteEffect(k, "FAILED", None)
       [] OTHER -> RecordDispatchAttempt(k, Retried(answer))
  /\ Step(w, Next1(worker[w]))
  /\ UNCHANGED <<obligations, snapshot, timers, values, landed, reversed, fired, prompt, crashes>>

-----------------------------------------------------------------------------
(* reconcile_once. *)

(* What the counterparty shows of a request: executions less inverses. *)
Standing(k) ==
  (IF k \in DOMAIN effects THEN Count(landed, effects[k].request) ELSE 0) - Count(reversed, k)

(* The answers of a connector's observe; "raised" is an exception, which skips the
   row. *)
Observations(k) ==
  {"STUCK", "raised"} \cup (CASE Standing(k) <= 0 -> {"ABSENT", "FAILED"}
                              [] Standing(k) = 1 -> {"CONFIRMED"}
                              [] OTHER -> {"DUPLICATE"})

Observe(w, answer) ==
  /\ In(w, "reconcile", "each")
  /\ \E k \in worker[w].todo :
       /\ answer \in Injected("duplicate", "CONFIRMED", "DUPLICATE", Observations(k))
       /\ Step(w, IF ToolOf(k) \notin Connectors \/ answer = "raised"
                  THEN At("reconcile", worker[w].todo \ {k}, "each", None, None)
                  ELSE At("reconcile", worker[w].todo \ {k}, "record", k, answer))
  /\ UNCHANGED <<tables, landed, reversed, fired, prompt, crashes>>

(* A raising record_external_observation ends the reactor's pass. *)
RecordObservation(w) ==
  LET k == worker[w].item
      resolution == worker[w].report IN
  /\ In(w, "reconcile", "record")
  /\ RecordExternalObservation(k, resolution)
  /\ Step(w, At("reconcile", IF ObservationRaises(k, resolution) THEN {} ELSE worker[w].todo,
                "each", None, None))
  /\ UNCHANGED <<snapshot, timers, values, landed, reversed, fired, prompt, crashes>>

-----------------------------------------------------------------------------
(* drain_obligations_once. *)

(* The effect's connector, or the obligation's kind when the row is gone. *)
DrainConnector(s) ==
  IF s \in DOMAIN obligations /\ obligations[s].key \in DOMAIN effects
     /\ IsOutbox(obligations[s].key)
  THEN ToolOf(obligations[s].key) ELSE Kind

(* Last registered first. *)
ClaimDrain(w) ==
  /\ In(w, "drain", "each")
  /\ worker[w].todo # {}
  /\ LET s == Max(worker[w].todo)
         rest == worker[w].todo \ {s} IN
     IF DrainConnector(s) \in Connectors /\ Drainable(s)
     THEN ClaimObligation(s, w) /\ Step(w, At("drain", rest, "compensate", s, None))
     ELSE UNCHANGED obligations /\ Step(w, At("drain", rest, "each", None, None))
  /\ UNCHANGED <<effects, snapshot, timers, values, landed, reversed, fired, prompt, crashes>>

(* connector.compensate; an exception may follow an inverse that was executed. *)
Compensate(w, answer) ==
  LET s == worker[w].item IN
  /\ In(w, "drain", "compensate")
  /\ \/ /\ answer \in {"compensated", "exception"}
        /\ reversed' = IF s \in DOMAIN obligations THEN Bump(reversed, obligations[s].key)
                       ELSE reversed
     \/ answer \in {"failed", "exception"} /\ UNCHANGED reversed
  /\ Step(w, At("drain", worker[w].todo, "resolve", s, answer))
  /\ UNCHANGED <<tables, landed, fired, prompt, crashes>>

Resolve(w) ==
  LET s == worker[w].item IN
  /\ In(w, "drain", "resolve")
  /\ IF worker[w].report = "compensated" THEN ResolveObligation(s) ELSE RecordObligationAttempt(s)
  /\ Step(w, Next1(worker[w]))
  /\ UNCHANGED <<effects, snapshot, timers, values, landed, reversed, fired, prompt, crashes>>

-----------------------------------------------------------------------------
(* fire_due_timers_once. *)

(* The dispatcher callback; an exception of its is swallowed. *)
FireTimer(w) ==
  /\ In(w, "timers", "each")
  /\ \E t \in worker[w].todo :
       /\ fired' = [fired EXCEPT ![t] = @ + 1]
       /\ Step(w, At("timers", worker[w].todo \ {t}, "each", None, None))
  /\ UNCHANGED <<tables, landed, reversed, prompt, crashes>>

-----------------------------------------------------------------------------
(* The process dies and starts over with an empty memory. *)
CrashWorker(w) ==
  /\ crashes < CrashBudget
  /\ worker[w] # Idle
  /\ crashes' = crashes + 1
  /\ Step(w, Idle)
  /\ UNCHANGED <<tables, landed, reversed, fired, prompt>>

(* Time passes over one row's lease or backoff. *)
LeaseRunsOut ==
  /\ \/ \E k \in DOMAIN effects :
          /\ effects[k].claimer # None /\ ~effects[k].expired
          /\ prompt => ~\E w \in Worker : worker[w].stage = "outbox" /\ worker[w].item = k
          /\ effects' = [effects EXCEPT ![k].expired = TRUE]
          /\ UNCHANGED obligations
     \/ \E s \in DOMAIN obligations :
          /\ obligations[s].claimer # None /\ ~obligations[s].expired
          /\ prompt => ~\E w \in Worker : worker[w].stage = "drain" /\ worker[w].item = s
          /\ obligations' = [obligations EXCEPT ![s].expired = TRUE]
          /\ UNCHANGED effects
  /\ UNCHANGED <<snapshot, timers, values, reactorVars>>

BecomesDue ==
  /\ \/ \E k \in DOMAIN effects : ~effects[k].due /\ effects' = [effects EXCEPT ![k].due = TRUE]
          /\ UNCHANGED <<obligations, timers>>
     \/ \E s \in DOMAIN obligations : ~obligations[s].due
          /\ obligations' = [obligations EXCEPT ![s].due = TRUE] /\ UNCHANGED <<effects, timers>>
     \/ \E t \in DOMAIN timers : ~timers[t].due
          /\ timers' = [timers EXCEPT ![t].due = TRUE] /\ UNCHANGED <<effects, obligations>>
  /\ UNCHANGED <<snapshot, values, reactorVars>>

(* A retention period passes. *)
GrowOlder ==
  /\ Retention
  /\ effects' = Older(effects)
  /\ obligations' = Older(obligations)
  /\ timers' = Older(timers)
  /\ <<effects, obligations, timers>>' # <<effects, obligations, timers>>
  /\ UNCHANGED <<snapshot, values, reactorVars>>

WorkerStep(w) ==
  \/ StartReactor(w)
  \/ ClaimOutbox(w) \/ Reread(w)
  \/ \E executed \in BOOLEAN, answer \in {"confirmed", "unknown", "exception", "failed", "refused"} :
       Dispatch(w, executed, answer)
  \/ Report(w)
  \/ \E answer \in {"CONFIRMED", "FAILED", "ABSENT", "DUPLICATE", "STUCK", "raised"} : Observe(w, answer)
  \/ RecordObservation(w)
  \/ ClaimDrain(w)
  \/ \E answer \in {"compensated", "failed", "exception"} : Compensate(w, answer)
  \/ Resolve(w)
  \/ FireTimer(w)

=============================================================================
