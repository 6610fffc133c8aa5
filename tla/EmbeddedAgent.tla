--------------------------- MODULE EmbeddedAgent ---------------------------
(***************************************************************************)
(* An ADK agent whose tools are journaled by NonIdempotentSafetyPlugin.    *)
(* The runner is external: it asks the model for a decision (a list of     *)
(* tool calls, here from Script), appends it to the session's events,      *)
(* runs the calls concurrently through the plugin's callbacks and appends  *)
(* their responses as one event.  A crash loses the plugin's memory; the   *)
(* next run of the invocation repeats the calls that have no response.     *)
(***************************************************************************)
EXTENDS EmbeddedReactors, Sequences

CONSTANTS
  Script,          \* invocation -> decisions; a decision is a sequence of
                   \* calls [tool, bk]
  AgentCrashBudget, \* bound: agent crashes and failed runs in a behaviour
  MaxSets,         \* bound: rows inserted per timer
  MaxVersion,      \* bound: writes of a key-value row
  Focus            \* bound: what a behaviour exercises, one of "agent",
                   \* "timers" and "values"

VARIABLES
  agent,     \* the running invocation, or None
  memory,    \* the plugin's _dnext, _dlast and _tcount
  decided,   \* invocation -> function-call events in the session
  calls,     \* position -> state of each call of the current decision
  answered,  \* request -> the response in the session's events
  finished,  \* invocations that ran to their end
  skewed,    \* invocations resumed after two or more decisions
  sets,      \* timer -> rows set_timer inserted
  read,      \* writer -> the version it read, or None
  wins,      \* versions a conditional write was accepted on
  agentCrashes,
  focus

agentVars == <<agent, memory, decided, calls, answered, finished, skewed, sets, read, wins,
               agentCrashes, focus>>

Forgotten == [dnext |-> 0, dlast |-> -1, tcount |-> <<>>]

AgentInit ==
  /\ agent = None
  /\ memory = Forgotten
  /\ decided = [i \in Invocation |-> 0]
  /\ calls = <<>>
  /\ answered = <<>>
  /\ finished = {}
  /\ skewed = {}
  /\ sets = [t \in Timer |-> 0]
  /\ read = [c \in Writer |-> None]
  /\ wins = <<>>
  /\ agentCrashes = 0
  /\ focus \in Focus

Request(inv, dec, pos) == <<inv, dec, pos>>

ToDo(inv, dec) == [p \in 1..Len(Script[inv][dec]) |-> [pc |-> "before", key |-> None, answer |-> None]]

(* The calls of the last decision when the session holds no response to them. *)
Unanswered(inv) ==
  IF decided[inv] = 0 \/ Request(inv, decided[inv], 1) \in DOMAIN answered THEN <<>>
  ELSE ToDo(inv, decided[inv])

-----------------------------------------------------------------------------
(* What before_run_callback takes for the decisions already made: it stops at the
   first function-call event, so it never counts past 1. *)
Prior(inv) == IF decided[inv] > 0 THEN 1 ELSE 0

BeforeRun(inv) ==
  /\ focus = "agent"
  /\ agent = None
  /\ inv \notin finished
  /\ agent' = inv
  /\ memory' = [memory EXCEPT !.dnext = Prior(inv), !.dlast = Prior(inv) - 1]
  /\ calls' = Unanswered(inv)
  /\ skewed' = IF decided[inv] > 1 THEN skewed \cup {inv} ELSE skewed
  /\ UNCHANGED <<tables, reactorVars, decided, answered, finished, sets, read, wins, agentCrashes, focus>>

(* The model decides on tool calls: after_model_callback, then the event. *)
AfterModel ==
  /\ agent # None
  /\ calls = <<>>
  /\ decided[agent] < Len(Script[agent])
  /\ memory' = [memory EXCEPT !.dlast = memory.dnext, !.dnext = @ + 1]
  /\ decided' = [decided EXCEPT ![agent] = @ + 1]
  /\ calls' = ToDo(agent, decided[agent] + 1)
  /\ UNCHANGED <<tables, reactorVars, agent, answered, finished, skewed, sets, read, wins, agentCrashes, focus>>

(* What the tool call gets without its body running, by begin_effect's answer. *)
ShortCircuit(tool, answer, k) ==
  CASE answer = "CONFIRMED" -> BeginResponse(k)
    [] answer \in {"FAILED", "UNKNOWN", "REFUSED"} -> <<answer>>
    [] answer \in {"PENDING", "NEW"} -> IF tool \in OutboxTool THEN <<answer>> ELSE None

(* before_tool_callback. *)
BeforeTool(p) ==
  LET call == Script[agent][decided[agent]][p]
      slot == <<memory.dlast, call.tool>>
      k == KeyOf(agent, memory.dlast, call.tool, Count(memory.tcount, slot))
      answer == BeginAnswer(k, call.bk)
      given == ShortCircuit(call.tool, answer, k) IN
  /\ calls[p].pc = "before"
  /\ \A q \in 1..(p - 1) : calls[q].pc # "before"
  /\ BeginEffect(k, Request(agent, decided[agent], p), call.bk)
  /\ memory' = [memory EXCEPT !.tcount = Bump(@, slot)]
  /\ calls' = [calls EXCEPT ![p] =
       IF given = None THEN [pc |-> "body", key |-> k, answer |-> None]
       ELSE [pc |-> "done", key |-> k, answer |-> given]]
  /\ UNCHANGED <<obligations, snapshot, timers, values, reactorVars, agent, decided, answered,
                 finished, skewed, sets, read, wins, agentCrashes, focus>>

(* The body of an inline tool returns, raises AckLost, or raises something else. *)
Body(p, outcome) ==
  LET request == Request(agent, decided[agent], p) IN
  /\ calls[p].pc = "body"
  /\ \/ outcome \in {"returned", "AckLost"} /\ landed' = Bump(landed, request)
     \/ outcome \in {"raised", "AckLost"} /\ UNCHANGED landed
  /\ calls' = [calls EXCEPT ![p].pc = outcome]
  /\ UNCHANGED <<tables, worker, reversed, fired, prompt, crashes, agent, memory, decided, answered,
                 finished, skewed, sets, read, wins, agentCrashes, focus>>

(* after_tool_callback. *)
AfterTool(p) ==
  LET request == Request(agent, decided[agent], p) IN
  /\ calls[p].pc = "returned"
  /\ CompleteEffect(calls[p].key, "CONFIRMED", request)
  /\ calls' = [calls EXCEPT ![p] = [pc |-> "done", key |-> @.key, answer |-> request]]
  /\ UNCHANGED <<obligations, snapshot, timers, values, reactorVars, agent, memory, decided, answered,
                 finished, skewed, sets, read, wins, agentCrashes, focus>>

(* The plugin and the runner are gone from memory. *)
Stops ==
  /\ agent' = None
  /\ memory' = Forgotten
  /\ calls' = <<>>

(* on_tool_error_callback, after which the exception ends the run. *)
OnToolError(p) ==
  /\ calls[p].pc \in {"AckLost", "raised"}
  /\ agentCrashes < AgentCrashBudget
  /\ agentCrashes' = agentCrashes + 1
  /\ CompleteEffect(calls[p].key, IF calls[p].pc = "AckLost" THEN "UNKNOWN" ELSE "FAILED", None)
  /\ Stops
  /\ UNCHANGED <<obligations, snapshot, timers, values, reactorVars, decided, answered, finished,
                 skewed, sets, read, wins, focus>>

(* The runner appends the responses of a decision as one event. *)
Respond ==
  /\ calls # <<>>
  /\ \A p \in DOMAIN calls : calls[p].pc = "done"
  /\ answered' = [r \in {Request(agent, decided[agent], p) : p \in DOMAIN calls} |->
                    calls[r[3]].answer] @@ answered
  /\ calls' = <<>>
  /\ UNCHANGED <<tables, reactorVars, agent, memory, decided, finished, skewed, sets, read, wins,
                 agentCrashes, focus>>

(* The model answers without calls; after_run_callback. *)
AfterRun ==
  /\ agent # None
  /\ calls = <<>>
  /\ decided[agent] = Len(Script[agent])
  /\ finished' = finished \cup {agent}
  /\ Stops
  /\ UNCHANGED <<tables, reactorVars, decided, answered, skewed, sets, read, wins, agentCrashes, focus>>

CrashAgent ==
  /\ agent # None
  /\ agentCrashes < AgentCrashBudget
  /\ agentCrashes' = agentCrashes + 1
  /\ Stops
  /\ UNCHANGED <<tables, reactorVars, decided, answered, finished, skewed, sets, read, wins, focus>>

-----------------------------------------------------------------------------
(* The application's own calls of the service; as a bound it registers a
   compensation only while there is no other obligation. *)

Compensation(k) ==
  /\ obligations = <<>>
  /\ effects[k].status = "CONFIRMED"
  /\ ~Obliged(k)
  /\ RegisterCompensation(k)
  /\ UNCHANGED <<effects, snapshot, timers, values, reactorVars, agentVars>>

Snapshot(aged) ==
  /\ TakeSnapshot(aged)
  /\ UNCHANGED <<effects, obligations, timers, values, reactorVars, agentVars>>

NewChapter(inv, new) ==
  /\ inv \in finished
  /\ Version(new) < MaxVersion
  /\ ContinueAsNew(inv, new)
  /\ UNCHANGED <<obligations, snapshot, timers, reactorVars, agentVars>>

ArmTimer(t) ==
  /\ focus = "timers"
  /\ t \in DOMAIN timers \/ sets[t] < MaxSets
  /\ SetTimer(t)
  /\ sets' = [sets EXCEPT ![t] = IF t \in DOMAIN timers THEN @ ELSE @ + 1]
  /\ UNCHANGED <<effects, obligations, snapshot, values, reactorVars, agent, memory, decided, calls,
                 answered, finished, skewed, read, wins, agentCrashes, focus>>

DisarmTimer(t) ==
  /\ t \in DOMAIN timers
  /\ CancelTimer(t)
  /\ UNCHANGED <<effects, obligations, snapshot, values, reactorVars, agentVars>>

(* The row the writers share. *)
Shared == "shared"

GetValue(c) ==
  /\ focus = "values"
  /\ read[c] = None
  /\ Version(Shared) < MaxVersion
  /\ read' = [read EXCEPT ![c] = Version(Shared)]
  /\ UNCHANGED <<tables, reactorVars, agent, memory, decided, calls, answered, finished, skewed, sets,
                 wins, agentCrashes, focus>>

PutValue(c) ==
  /\ read[c] # None
  /\ WriteValue(Shared, read[c])
  /\ wins' = IF WriteAccepted(Version(Shared), read[c]) THEN Append(wins, read[c]) ELSE wins
  /\ read' = [read EXCEPT ![c] = None]
  /\ UNCHANGED <<effects, obligations, snapshot, timers, reactorVars, agent, memory, decided, calls,
                 answered, finished, skewed, sets, agentCrashes, focus>>

=============================================================================
