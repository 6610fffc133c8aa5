------------------------------- MODULE Replay -------------------------------
(***************************************************************************)
(* One run of an ADK agent under TapePlugin and TapeSessionService: the    *)
(* journal of its decisions, the ledger of its inline effects, the budget, *)
(* the recorded samples and the session's events, across crashes of the    *)
(* agent's process and failed calls of the server.  The runner, the model  *)
(* and the counterparties are external.  The runner asks the model, saves  *)
(* its function call as an event under a fresh function_call_id (here the  *)
(* position of the call), runs the tool between the callbacks and saves    *)
(* the response; driven again, it repeats a saved call with no response.   *)
(***************************************************************************)
EXTENDS Integers, FiniteSets, Sequences

CONSTANTS
  Declaration,   \* what the agent's author writes in @tape.effect(...)
  Granted,       \* the run's scopes
  MaxAttempts,   \* RetryPolicy.max_attempts
  Posture,       \* how durable_app is called: [explicit, require, env, anchored,
                 \* cap]; cap is Budget.token_cap, a model response costs one
  Slack,         \* bound: responses of the model beyond the cap
  CrashBudget,   \* bound: crashes and tool bodies that fail for good
  BlipBudget     \* bound: calls of the server that fail

ASSUME ReplayAssumption ==
  /\ Declaration \subseteq [semantics : {"idempotent", "non_idempotent"}, dispatch : {"inline", "outbox"},
                            connector : BOOLEAN, bk : {"", "string", "callable"}, scope : STRING,
                            resolvable : BOOLEAN, unsafe : BOOLEAN, undo : BOOLEAN, samples : BOOLEAN]
  /\ Posture \subseteq [explicit : BOOLEAN, require : {"yes", "no", "unset"}, env : BOOLEAN,
                        anchored : BOOLEAN, cap : Nat]
  /\ {MaxAttempts, Slack, CrashBudget, BlipBudget} \subseteq Nat

VARIABLES
  decisions,  \* tape_decisions: index -> response of the model
  rows,       \* tape_effects: call -> [status, response]
  undo,       \* tape_obligations: the calls whose inverse is registered
  samples,    \* tape_effects: n -> value of the n-th sample
  spent,      \* tape_budget.tokens_spent
  begun,      \* tape_runs has the run
  cancelled,  \* ... with status CANCELLED
  calls,      \* tape_events: function calls [reply, index, answer], in order
  ended,      \* tape_events: the final response
  pc, dnext, dlast, reply, stash, attempt, result,   \* the plugin's drive
  counter,    \* det._counters, of the process
  replies,    \* what the model said, in order: a declaration or Final
  execs,      \* tool bodies that returned
  landed,     \* response -> keys its call reached the counterparty under
  drew,       \* call -> values its body got from tape.sample
  crashes, blips, posture

server == <<decisions, rows, undo, samples, spent, begun, cancelled, calls, ended>>
drive == <<pc, dnext, dlast, reply, stash, attempt, result>>
world == <<replies, execs, landed, drew>>
vars == <<server, drive, counter, world, crashes, blips, posture>>

None == 0        \* no key, no answer; and the response _refusal_response makes
Denied == -1     \* an error for the model to read
Accepted == -2   \* the marker of an outbox call
Empty == -3      \* {}, for an effect that was confirmed without a response
Final == [semantics |-> "final"]

At(f, x, otherwise) == IF x \in DOMAIN f THEN f[x] ELSE otherwise
Put(f, x, v) == [y \in DOMAIN f \cup {x} |-> IF y = x THEN v ELSE f[y]]

-----------------------------------------------------------------------------
(* Declarations and start-up. *)

(* _validate_semantics and the checks of @tape.effect. *)
Accepts(d) ==
  /\ d.semantics = "non_idempotent" => d.unsafe \/ (d.resolvable /\ d.scope # "")
  /\ d.dispatch = "outbox" => d.connector
  /\ d.bk = "string" => d.connector

Tool == {d \in Declaration : Accepts(d)}

(* from_env and durable_app: identity.validate() raises MissingIdentity. *)
Strict(p) == p.require = "yes" \/ (p.require = "unset" /\ p.env)
Boots(p) == Strict(p) => p.anchored

TokenCap == posture.cap
MaxReplies == TokenCap + Slack

Replied(m) == replies[m]
Current == Len(calls)
CurrentTool == Replied(calls[Current].reply)

Init ==
  /\ decisions = <<>> /\ rows = <<>> /\ undo = {} /\ samples = <<>>
  /\ spent = 0 /\ begun = FALSE /\ cancelled = FALSE
  /\ calls = <<>> /\ ended = FALSE
  /\ pc = "down" /\ dnext = 0 /\ dlast = -1 /\ reply = None
  /\ stash = None /\ attempt = 0 /\ result = None
  /\ counter = 0
  /\ replies = <<>> /\ execs = 0 /\ landed = <<>> /\ drew = <<>>
  /\ crashes = 0 /\ blips = 0
  /\ posture \in Posture

-----------------------------------------------------------------------------
(* One call of the server fails; what the caller does about it is the action's. *)
Blip ==
  /\ blips < BlipBudget
  /\ blips' = blips + 1

Answered == UNCHANGED blips

(* Mutant: a re-drive does not count the recorded decisions. *)
CountDecisions_None == 0

(* _count_decisions: the recorded indices from 0 up to the first gap. *)
CountDecisions == CHOOSE n \in 0..Cardinality(DOMAIN decisions) :
                    /\ 0..(n - 1) \subseteq DOMAIN decisions
                    /\ n \notin DOMAIN decisions

(* Mutant: set_budget resets what was spent. *)
Capped_Afresh == 0

(* set_budget leaves what a run has spent when it already has a row. *)
Capped == spent

(* before_run_callback: begin_run, and on a re-drive the decisions are counted;
   a get_decision that fails ends the count.  The runner then repeats the call
   that has no response, or asks the model. *)
BeforeRun(n) ==
  /\ pc = "down"
  /\ ~ended
  /\ Boots(posture)
  /\ IF begun THEN n <= CountDecisions ELSE n = 0
  /\ IF begun /\ n < CountDecisions THEN Blip ELSE Answered
  /\ begun' = TRUE
  /\ spent' = Capped
  /\ dnext' = n
  /\ pc' = IF calls # <<>> /\ calls[Current].answer = None THEN "tool" ELSE "model"
  /\ UNCHANGED <<decisions, rows, undo, samples, cancelled, calls, ended, dlast, reply,
                 stash, attempt, result, counter, world, crashes, posture>>

(* admit_budget, with no estimate. *)
Admitted == TokenCap > 0 => spent <= TokenCap

(* The part of before_model_callback every outcome shares. *)
NumberDecision ==
  /\ pc = "model"
  /\ dlast' = dnext
  /\ dnext' = dnext + 1
  /\ UNCHANGED <<server, stash, attempt, result, counter, execs, landed, drew, crashes, posture>>

(* Whether the runner calls after_model_callback for a response that
   before_model_callback returned is left open. *)
InPlaceOfModel == pc' \in {"reply", "event"}

(* The run is cancelled and the check is due, or the budget is exhausted. *)
RefuseModel ==
  /\ NumberDecision
  /\ cancelled \/ ~Admitted
  /\ reply' = None
  /\ InPlaceOfModel
  /\ Answered
  /\ UNCHANGED replies

ReplayDecision ==
  /\ NumberDecision
  /\ Admitted
  /\ dnext \in DOMAIN decisions
  /\ reply' = decisions[dnext]
  /\ InPlaceOfModel
  /\ Answered
  /\ UNCHANGED replies

(* No decision at the index, or get_decision failed: the model is called. *)
AskModel(said) ==
  /\ NumberDecision
  /\ Admitted
  /\ IF dnext \in DOMAIN decisions THEN Blip ELSE Answered
  /\ Len(replies) < (IF said = Final THEN MaxReplies ELSE MaxReplies - 1)
  /\ replies' = Append(replies, said)
  /\ reply' = Len(replies) + 1
  /\ pc' = "reply"

(* Mutant: recorded at the next index. *)
Recorded_AtNext == IF dnext \in DOMAIN decisions THEN decisions ELSE Put(decisions, dnext, reply)

(* record_decision: the first response recorded at an index stays. *)
Recorded == IF dlast \in DOMAIN decisions THEN decisions ELSE Put(decisions, dlast, reply)

(* after_model_callback: record_decision, then charge_budget; neither failure is
   reported. *)
RecordDecision ==
  /\ pc = "reply"
  /\ \/ Answered /\ decisions' = Recorded
     \/ Blip /\ UNCHANGED decisions
  /\ pc' = "charge"
  /\ UNCHANGED <<rows, undo, samples, spent, begun, cancelled, calls, ended, dnext, dlast, reply,
                 stash, attempt, result, counter, world, crashes, posture>>

ChargeBudget ==
  /\ pc = "charge"
  /\ \/ Answered /\ spent' = IF TokenCap > 0 /\ reply # None THEN spent + 1 ELSE spent
     \/ Blip /\ UNCHANGED spent
  /\ pc' = "event"
  /\ UNCHANGED <<decisions, rows, undo, samples, begun, cancelled, calls, ended, dnext, dlast, reply,
                 stash, attempt, result, counter, world, crashes, posture>>

(* append_event of the model's response; a response without a function call is the
   last one, and after_run_callback follows. *)
AppendReply ==
  /\ pc = "event"
  /\ IF reply = None \/ Replied(reply) = Final
     THEN /\ ended' = TRUE
          /\ pc' = "down"
          /\ UNCHANGED calls
     ELSE /\ calls' = Append(calls, [reply |-> reply, index |-> dlast, answer |-> None])
          /\ pc' = "tool"
          /\ UNCHANGED ended
  /\ reply' = None
  /\ UNCHANGED <<decisions, rows, undo, samples, spent, begun, cancelled, dnext, dlast, stash,
                 attempt, result, counter, world, crashes, blips, posture>>

-----------------------------------------------------------------------------
(* Tool calls. *)

(* before_tool_callback ends with pc, stash and result. *)
Goes(to, key, value) ==
  /\ pc' = to
  /\ stash' = key
  /\ result' = value
  /\ attempt' = 1
  /\ UNCHANGED <<decisions, undo, samples, spent, begun, cancelled, calls, ended, dnext, dlast, reply,
                 counter, world, crashes, posture>>

(* The body must not run without a journaled intent. *)
Guarded(d) == d.semantics = "non_idempotent" \/ d.dispatch = "outbox"

(* begin_effect refuses the declaration: NON_IDEMPOTENT inline, or without a scope;
   or a business key with no connector. *)
Refused(d) ==
  \/ d.semantics = "non_idempotent" /\ (d.dispatch = "inline" \/ d.scope = "")
  \/ d.bk # "" /\ ~d.connector

InScope(d) == d.scope = "" \/ d.scope \in Granted

DenyTool ==
  /\ pc = "tool"
  /\ ~Admitted \/ ~InScope(CurrentTool)
  /\ Goes("respond", None, Denied)
  /\ Answered
  /\ UNCHANGED rows

(* begin_effect raises: for an idempotent inline tool the body runs, with no key. *)
BeginFails ==
  /\ pc = "tool"
  /\ Admitted
  /\ InScope(CurrentTool)
  /\ IF Refused(CurrentTool) THEN Answered ELSE Blip
  /\ IF Guarded(CurrentTool) THEN Goes("respond", None, Denied) ELSE Goes("body", None, None)
  /\ UNCHANGED rows

(* begin_effect inserts the row, or returns the one the call already has. *)
Begun == IF Current \in DOMAIN rows THEN rows
         ELSE Put(rows, Current, [status |-> "PENDING", response |-> None])

(* Mutant: a recorded response is not used. *)
Recalled_Never(row) == FALSE

(* The recorded response, or {} when there is none, stands for the body. *)
Recalled(row) == row.status = "CONFIRMED"
Recollection(row) == IF row.response = None THEN Empty ELSE row.response

BeginEffect ==
  /\ pc = "tool"
  /\ Admitted
  /\ InScope(CurrentTool)
  /\ ~Refused(CurrentTool)
  /\ rows' = Begun
  /\ Answered
  /\ CASE Recalled(rows'[Current]) -> Goes("ran", Current, Recollection(rows'[Current]))
       [] rows'[Current].status = "PENDING" /\ CurrentTool.dispatch = "outbox" ->
            Goes("respond", Current, Accepted)
       [] OTHER -> Goes("body", Current, None)

(* tape.sample in a body: the value recorded under the process's n-th sample, or a
   new one, recorded unless a call of the server fails. *)
Sample(lost) ==
  LET n == counter
      v == At(samples, n, Cardinality(DOMAIN samples) + 1) IN
  IF ~CurrentTool.samples THEN ~lost /\ UNCHANGED <<samples, counter, drew>>
  ELSE /\ counter' = counter + 1
       /\ samples' = IF lost \/ n \in DOMAIN samples THEN samples ELSE Put(samples, n, v)
       /\ drew' = Put(drew, Current, At(drew, Current, {}) \cup {v})

(* The call reaches the counterparty, under its key or, without one, as a new
   operation.  The body of an outbox tool only builds the payload. *)
Lands ==
  LET m == calls[Current].reply
      sofar == At(landed, m, {})
      key == IF stash = None THEN -Cardinality(sofar) - 1 ELSE stash IN
  landed' = IF CurrentTool.dispatch = "outbox" THEN landed ELSE Put(landed, m, sofar \cup {key})

(* RetryPolicy.should_retry. *)
Retries == attempt < MaxAttempts

(* The body, under the decorator's retry loop, returns. *)
BodyReturns(lost) ==
  /\ pc = "body"
  /\ IF lost THEN Blip ELSE Answered
  /\ Sample(lost)
  /\ Lands
  /\ execs' = execs + 1
  /\ result' = execs + 1
  /\ pc' = "ran"
  /\ UNCHANGED <<decisions, rows, undo, spent, begun, cancelled, calls, ended, dnext, dlast, reply,
                 stash, attempt, replies, crashes, posture>>

(* The body raises, before or after the call landed, and is tried again. *)
BodyRetried(lost) ==
  /\ pc = "body"
  /\ Retries
  /\ IF lost THEN Blip ELSE Answered
  /\ Sample(lost)
  /\ Lands \/ UNCHANGED landed
  /\ attempt' = attempt + 1
  /\ UNCHANGED <<decisions, rows, undo, spent, begun, cancelled, calls, ended, pc, dnext, dlast,
                 reply, stash, result, replies, execs, crashes, posture>>

Completed(status, value) ==
  IF stash # None /\ rows[stash].status = "PENDING"
  THEN [rows EXCEPT ![stash] = [status |-> status, response |-> value]] ELSE rows

(* The drive is over; _dlast stays until the process does. *)
Stops ==
  /\ pc' = "down"
  /\ dnext' = 0
  /\ reply' = None
  /\ stash' = None
  /\ attempt' = 0
  /\ result' = None

(* The last try raises: on_tool_error_callback, and the error ends the drive. *)
BodyFails(status) ==
  /\ pc = "body"
  /\ ~Retries
  /\ crashes < CrashBudget
  /\ crashes' = crashes + 1
  /\ Sample(FALSE)
  /\ Lands \/ UNCHANGED landed
  /\ \/ Answered /\ rows' = Completed(status, None)
     \/ Blip /\ UNCHANGED rows
  /\ Stops
  /\ UNCHANGED <<decisions, undo, spent, begun, cancelled, calls, ended, dlast, replies, execs, posture>>

(* Mutant: the inverse is registered only with the completion. *)
Undoes_Fresh == stash # None /\ CurrentTool.undo /\ rows[stash].status = "PENDING"

(* after_tool_callback goes on to register the inverse. *)
Undoes == stash # None /\ CurrentTool.undo

(* after_tool_callback: complete_effect, then register_compensation; it runs for a
   recorded response too. *)
CompleteEffect ==
  /\ pc = "ran"
  /\ \/ Answered /\ rows' = Completed("CONFIRMED", result)
     \/ Blip /\ stash # None /\ UNCHANGED rows
  /\ pc' = IF Undoes THEN "undo" ELSE "respond"
  /\ UNCHANGED <<decisions, undo, samples, spent, begun, cancelled, calls, ended, dnext, dlast, reply,
                 stash, attempt, result, counter, world, crashes, posture>>

RegisterCompensation ==
  /\ pc = "undo"
  /\ \/ Answered /\ undo' = undo \cup {stash}
     \/ Blip /\ UNCHANGED undo
  /\ pc' = "respond"
  /\ UNCHANGED <<decisions, rows, samples, spent, begun, cancelled, calls, ended, dnext, dlast, reply,
                 stash, attempt, result, counter, world, crashes, posture>>

(* The tool context of a call, temp: state included, goes with the call. *)
CallOver ==
  /\ stash' = None
  /\ attempt' = 0
  /\ result' = None

(* append_event of the tool's response. *)
AppendResponse ==
  /\ pc = "respond"
  /\ calls' = [calls EXCEPT ![Current].answer = result]
  /\ pc' = "model"
  /\ CallOver
  /\ UNCHANGED <<decisions, rows, undo, samples, spent, begun, cancelled, ended, dnext, dlast, reply,
                 counter, world, crashes, blips, posture>>

-----------------------------------------------------------------------------
(* The process dies. *)
Crash ==
  /\ pc # "down"
  /\ crashes < CrashBudget
  /\ crashes' = crashes + 1
  /\ Stops
  /\ dlast' = -1
  /\ counter' = 0
  /\ UNCHANGED <<server, world, blips, posture>>

(* A call whose failure nothing catches (begin_run, set_budget, admit_budget,
   append_event) ends the drive and leaves the process. *)
CallRaises ==
  /\ pc \in {"model", "event", "tool", "respond"}
  /\ Blip
  /\ Stops
  /\ UNCHANGED <<server, dlast, counter, world, crashes, posture>>

(* The outbox dispatcher, and whoever cancels the run. *)
Dispatched(f, status) ==
  /\ rows[f].status = "PENDING"
  /\ Replied(calls[f].reply).dispatch = "outbox"
  /\ rows' = [rows EXCEPT ![f].status = status]
  /\ UNCHANGED <<decisions, undo, samples, spent, begun, cancelled, calls, ended, drive, counter,
                 world, crashes, blips, posture>>

Cancel ==
  /\ begun
  /\ ~ended
  /\ ~cancelled
  /\ cancelled' = TRUE
  /\ UNCHANGED <<decisions, rows, undo, samples, spent, begun, calls, ended, drive, counter, world,
                 crashes, blips, posture>>

Next ==
  \/ \E n \in 0..MaxReplies : BeforeRun(n)
  \/ RefuseModel \/ ReplayDecision
  \/ \E said \in Tool \cup {Final} : AskModel(said)
  \/ RecordDecision \/ ChargeBudget \/ AppendReply
  \/ DenyTool \/ BeginFails \/ BeginEffect
  \/ \E lost \in BOOLEAN : BodyReturns(lost) \/ BodyRetried(lost)
  \/ \E status \in {"FAILED", "UNKNOWN"} : BodyFails(status)
  \/ CompleteEffect \/ RegisterCompensation \/ AppendResponse
  \/ Crash \/ CallRaises
  \/ \E f \in DOMAIN rows, status \in {"CONFIRMED", "FAILED", "UNKNOWN"} : Dispatched(f, status)
  \/ Cancel

Spec == Init /\ [][Next]_vars

-----------------------------------------------------------------------------
(* While the server answers, what the agent executes is what the journal holds:
   every saved function call came from the decision recorded at its index, however
   often the process died between the decision, the event and the tool
   (_count_decisions, before_model_callback, after_model_callback). *)
ExecutedIsRecorded ==
  blips = 0 => \A f \in DOMAIN calls : At(decisions, calls[f].index, None) = calls[f].reply

(* While the server answers, a decision's call reaches the counterparty under one
   key however often it is repeated, so that the counterparty can deduplicate it
   (before_tool_callback's key, and no decision replayed beside its saved call).
   This leaves out the tools whose begin_effect the server refuses every time, a
   business_key callable with no connector: their bodies run with no key. *)
OneKeyPerDecision ==
  blips = 0 => \A m \in DOMAIN landed : ~Refused(Replied(m)) => Cardinality(landed[m]) <= 1

(* While the server answers, the session and the ledger tell one story: a call the
   ledger has CONFIRMED with a response is answered with that response, in the
   drive that ran its body and in any later one. *)
AnswerMatchesLedger ==
  blips = 0 =>
    \A f \in DOMAIN rows :
      (rows[f].status = "CONFIRMED" /\ rows[f].response # None /\ calls[f].answer # None)
        => calls[f].answer = rows[f].response

(* Even when begin_effect fails, nothing non-idempotent is sent from a tool body:
   it is refused by the server or left to the dispatcher. *)
NonIdempotentNotInline == \A m \in DOMAIN landed : Replied(m).semantics # "non_idempotent"

(* A tool body may be run again at any time: what leaves it can be repeated. *)
BodiesRepeatable == OneKeyPerDecision /\ NonIdempotentNotInline

(* The cap is overrun by one response, plus one for each crash or failed call that
   kept a response from being charged: set_budget on a re-drive keeps what the run
   has spent. *)
OverrunBounded ==
  TokenCap > 0 => Len(replies) <= TokenCap + 1 + crashes + blips

(* While the server answers, a compensable inline call with a saved result has its
   inverse registered, also when the process died between the two calls of
   after_tool_callback; again without the tools the server refuses. *)
InverseRegistered ==
  blips = 0 =>
    \A f \in DOMAIN calls :
      LET d == Replied(calls[f].reply) IN
      (d.undo /\ d.dispatch = "inline" /\ ~Refused(d) /\ calls[f].answer > 0) => f \in undo

(* The body of a call that is driven again gets from tape.sample the value it got
   before: "on a re-drive return the recorded result" (det.sample). *)
SampleReplays ==
  blips = 0 => \A f \in DOMAIN drew : Cardinality(drew[f]) = 1
=============================================================================
