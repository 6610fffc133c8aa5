--------------------------- MODULE EmbeddedTier ---------------------------
(***************************************************************************)
(* The embedded tier as a whole: an agent under the plugin, reactor        *)
(* workers, and an application using the service, over one ledger.         *)
(***************************************************************************)
EXTENDS EmbeddedAgent

vars == <<tables, reactorVars, agentVars>>

Init == LedgerInit /\ ReactorInit /\ AgentInit

AgentStep ==
  \/ \E inv \in Invocation : BeforeRun(inv)
  \/ AfterModel
  \/ \E p \in DOMAIN calls :
       \/ BeforeTool(p)
       \/ \E outcome \in {"returned", "AckLost", "raised"} : Body(p, outcome)
       \/ AfterTool(p)
       \/ OnToolError(p)
  \/ Respond
  \/ AfterRun

ApplicationStep ==
  \/ \E k \in DOMAIN effects : Compensation(k)
  \/ \E aged \in BOOLEAN : Snapshot(aged)
  \/ \E inv, new \in Invocation : inv # new /\ NewChapter(inv, new)
  \/ \E t \in Timer : ArmTimer(t) \/ DisarmTimer(t)
  \/ \E c \in Writer : GetValue(c) \/ PutValue(c)

Next ==
  \/ AgentStep
  \/ CrashAgent
  \/ ApplicationStep
  \/ \E w \in Worker : (WorkerStep(w) \/ CrashWorker(w)) /\ UNCHANGED agentVars
  \/ (LeaseRunsOut \/ BecomesDue \/ GrowOlder) /\ UNCHANGED agentVars

Spec == Init /\ [][Next]_vars

-----------------------------------------------------------------------------
Requests == UNION {UNION {{Request(i, d, p) : p \in 1..Len(Script[i][d])}
                           : d \in 1..Len(Script[i])} : i \in Invocation}

(* The idempotency keys an invocation's calls can be given. *)
Keys == UNION {{KeyOf(i, d, t, c) : c \in 0..1} :
                i \in Invocation, d \in -1..1, t \in Tool}

(* What the ledger says happened did happen: CONFIRMED rows were executed by the
   counterparty and COMPENSATED obligations were reversed, however late a report
   of dispatch_outbox_once, reconcile_once or drain_obligations_once arrives. *)
LedgerTruthful ==
  /\ \A k \in DOMAIN effects :
       effects[k].status = "CONFIRMED" =>
         Count(landed, effects[k].request) > 0 \/ InvocationOf(k) \in skewed
  /\ \A s \in DOMAIN obligations :
       obligations[s].status = "COMPENSATED" => Count(reversed, obligations[s].key) > 0

(* As long as no lease runs out under its holder, the CAS of claim_effect_dispatch
   and of claim_obligation keep two workers off the same row, although
   record_dispatch_attempt clears the lease without looking at who holds it. *)
ExclusiveWork ==
  prompt => \A v, w \in Worker :
    v # w /\ worker[v].stage = worker[w].stage /\ worker[v].stage \in {"outbox", "drain"}
          /\ worker[v].item # None => worker[v].item # worker[w].item

(* The contract of an effect, read off the embedded ledger. *)
OutboxKeys == {k \in Keys : IsOutbox(k)}
Contract == INSTANCE EffectContract WITH
  Key <- OutboxKeys, Once <- OutboxKeys, Reopenable <- {},
  status <- [k \in OutboxKeys |-> IF k \in DOMAIN effects THEN effects[k].status ELSE "NONE"],
  executed <- [k \in OutboxKeys |->
                 IF k \in DOMAIN effects THEN Count(landed, effects[k].request) ELSE 0]

(* The outbox effects of the ledger keep the effect contract as long as no row is
   retired: whatever the workers do and however late they report, an effect is not
   dispatched again once it has left PENDING, CONFIRMED means executed, and with a
   counterparty that knows the business key it is executed once. *)
KeepsContract == Contract!Spec

(* The response the session records for a call is that call's own: a re-drive after
   a crash, with the plugin's counters gone, finds each call under the key of its
   first run.  before_run_callback restores the decision index only as far as 1, so
   an invocation resumed after a second decision is left out. *)
AnswersOwnCall ==
  \A r \in DOMAIN answered :
    answered[r] \in Requests => answered[r] = r \/ r[1] \in skewed

(* A call whose outcome take_snapshot captured is not executed again, even after
   compaction or continue_as_new dropped its row and the agent is driven again. *)
CapturedNotRerun ==
  [][\A k \in DOMAIN snapshot :
       LET r == snapshot[k].response IN
       r # None /\ r[1] \notin skewed => Count(landed', r) = Count(landed, r)]_vars

(* Retention forgets nothing that is still owed: an effect some PENDING or COMMITTED
   obligation names, and an obligation that is not COMPENSATED, survive compact_once
   and continue_as_new. *)
NothingOwedForgotten ==
  [][\A s \in DOMAIN obligations :
       obligations[s].status # "COMPENSATED" =>
         /\ s \in DOMAIN obligations'
         /\ LET k == obligations[s].key IN
              k \in DOMAIN effects /\ obligations[s].status # "STUCK" => k \in DOMAIN effects']_vars

(* A timer's handler runs at most once for each row set_timer inserted, workers that
   hold it in their list included. *)
TimerOncePerSet ==
  \A t \in Timer :
    fired[t] + Cardinality({w \in Worker : worker[w].stage = "timers" /\ t \in worker[w].todo})
      <= sets[t]

(* Two conditional writes never succeed on the same version of a value. *)
WritesExclusive == \A i, j \in DOMAIN wins : i # j => wins[i] # wins[j]

(* The compare-and-set statements of the store let one caller win: two workers are not
   on one row, a timer is not fired twice, a version is not written over twice. *)
ExclusiveClaims == ExclusiveWork /\ TimerOncePerSet /\ WritesExclusive


=============================================================================
