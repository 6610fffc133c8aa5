---------------------------- MODULE TaskWorkers ----------------------------
(***************************************************************************)
(* The clients of the task table: the in-process dispatcher of TASK        *)
(* reactions and the Pub/Sub bridge of PUBLISH reactions.  A worker's loop *)
(* claims tasks under a lease and hands copies of them to a pool of        *)
(* threads; a copy carries the attempt it was claimed for.                 *)
(***************************************************************************)
EXTENDS Matcher

CONSTANTS
  Bridge,       \* the workers that are bridges; the others are dispatchers
  Concurrency,  \* max_concurrency
  MaxAttempts   \* bound: claims of one task

VARIABLES
  copies,   \* the task copies in each worker's memory
  recent,   \* the debouncer of each dispatcher: <<reaction, subject>>
  ran,      \* how often the handler was entered, by task
  handled   \* <<task, source>> for which the handler returned

workerVars == <<copies, recent, ran, handled>>

WorkerInit ==
  /\ copies = [w \in Worker |-> {}]
  /\ recent = [w \in Worker |-> {}]
  /\ ran = << >>
  /\ handled = {}

Ran(t) == IF t \in DOMAIN ran THEN ran[t] ELSE 0

(* A worker serves the reactions of its own registry: the dispatcher those of kind
   TASK, the bridge those of kind PUBLISH. *)
Serves(w, r) ==
  /\ w \in Defs[r].registry
  /\ Defs[r].kind = IF w \in Bridge THEN "PUBLISH" ELSE "TASK"

Move(w, c, pc) == copies' = [copies EXCEPT ![w] = (@ \ {c}) \cup {[c EXCEPT !.pc = pc]}]
Drop(w, c) == copies' = [copies EXCEPT ![w] = @ \ {c}]

-----------------------------------------------------------------------------
(* Mutant: a live lease does not protect a claim. *)
Eligible_AnyLease(t) ==
  \/ tasks[t].status = "PENDING" /\ tasks[t].due
  \/ tasks[t].status = "CLAIMED"

(* Mutant: a lease that ran out is not taken over. *)
Eligible_NoReclaim(t) == tasks[t].status = "PENDING" /\ tasks[t].due

(* The WHERE clause of claim_tasks. *)
Eligible(t) ==
  \/ tasks[t].status = "PENDING" /\ tasks[t].due
  \/ tasks[t].status = "CLAIMED" /\ tasks[t].expired

(* Mutant: a stolen lease is not a new attempt. *)
Leased_NoCount(t, w) ==
  [tasks[t] EXCEPT !.status = "CLAIMED", !.owner = w, !.expired = FALSE,
                   !.attempts = IF tasks[t].status = "CLAIMED" THEN @ ELSE @ + 1]

(* The row claim_tasks writes. *)
Leased(t, w) ==
  [tasks[t] EXCEPT !.status = "CLAIMED", !.owner = w, !.expired = FALSE, !.attempts = @ + 1]

(* ClaimTasks for one reaction: lease every eligible task, count the attempt.  The
   dispatcher's loop comes back once it has submitted what it claimed; the bridge
   once it has finished with it. *)
ClaimTasks(w, r) ==
  LET due == {t \in DOMAIN tasks : tasks[t].reaction = r /\ Eligible(t)}
  IN  /\ Serves(w, r) /\ r \in registered
      /\ \A c \in copies[w] : w \notin Bridge /\ c.pc # "claimed"
      /\ due # {}
      /\ \A t \in due : tasks[t].attempts < MaxAttempts
      /\ tasks' = [t \in DOMAIN tasks |-> IF t \in due THEN Leased(t, w) ELSE tasks[t]]
      /\ copies' = [copies EXCEPT ![w] = @ \cup
           {[task |-> t, source |-> tasks[t].source, attempt |-> Leased(t, w).attempts,
             pc |-> "claimed"] : t \in due}]
      /\ UNCHANGED <<registered, cursor, started, matcher, recent, ran, handled>>

(* Mutant: nobody asks who holds the task. *)
Holds_Unchecked(w, t) == TRUE

(* The guard of complete_task and nack_task. *)
Holds(w, t) == tasks[t].owner = w /\ tasks[t].status = "CLAIMED"

Released(t, status) ==
  [tasks EXCEPT ![t].status = status, ![t].owner = None, ![t].expired = FALSE, ![t].due = FALSE]

(* _dispatch_one: a subject seen inside the window is completed without running
   the handler (an error of the call is only logged); else the copy is queued. *)
Submit(w, c) ==
  LET r == tasks[c.task].reaction
      subject == journal[c.source].subject
      skip == Defs[r].debounce /\ w \notin Bridge /\ <<r, subject>> \in recent[w]
  IN  /\ c.pc = "claimed"
      /\ recent' = [recent EXCEPT ![w] =
           IF Defs[r].debounce /\ w \notin Bridge THEN @ \cup {<<r, subject>>} ELSE @]
      /\ IF skip
         THEN /\ Drop(w, c)
              /\ tasks' = IF Holds(w, c.task) THEN Released(c.task, "DONE") ELSE tasks
         ELSE Move(w, c, "queued") /\ UNCHANGED tasks
      /\ UNCHANGED <<registered, cursor, started, matcher, ran, handled>>

(* A pool thread (or the bridge itself) enters the handler (or publishes). *)
StartHandler(w, c) ==
  /\ c.pc = "queued"
  /\ Cardinality({d \in copies[w] : d.pc \in {"running", "returned", "raised"}})
       < IF w \in Bridge THEN 1 ELSE Concurrency
  /\ Move(w, c, "running")
  /\ ran' = [t \in DOMAIN ran \cup {c.task} |-> Ran(t) + IF t = c.task THEN 1 ELSE 0]
  /\ UNCHANGED <<matcherVars, recent, handled>>

EndHandler(w, c, outcome) ==
  /\ c.pc = "running"
  /\ Move(w, c, outcome)
  /\ handled' = IF outcome = "returned" THEN handled \cup {<<c.task, c.source>>} ELSE handled
  /\ UNCHANGED <<matcherVars, recent, ran>>

(* complete_task after the handler returned; NOT_FOUND, and a call that is lost,
   raise like the handler. *)
CompleteTask(w, c, lost) ==
  /\ c.pc = "returned"
  /\ IF ~lost /\ Holds(w, c.task)
     THEN tasks' = Released(c.task, "DONE") /\ Drop(w, c)
     ELSE UNCHANGED tasks /\ Move(w, c, "raised")
  /\ UNCHANGED <<registered, cursor, started, matcher, recent, ran, handled>>

(* permanent (the dispatcher's own count) or attempts >= dlq_after_n (the server's). *)
ToDlq(w, c) ==
  LET dlq == Defs[tasks[c.task].reaction].dlq
  IN  \/ w \notin Bridge /\ c.attempt >= dlq
      \/ tasks[c.task].attempts >= dlq

(* nack_task: the dead-letter queue, or PENDING again after a backoff. *)
NackTask(w, c) ==
  /\ c.pc = "raised"
  /\ tasks' = IF ~Holds(w, c.task) THEN tasks
              ELSE Released(c.task, IF ToDlq(w, c) THEN "DLQ" ELSE "PENDING")
  /\ Drop(w, c)
  /\ UNCHANGED <<registered, cursor, started, matcher, recent, ran, handled>>

CrashTaskWorker(w) ==
  /\ copies[w] # {}
  /\ copies' = [copies EXCEPT ![w] = {}]
  /\ recent' = [recent EXCEPT ![w] = {}]
  /\ UNCHANGED <<matcherVars, ran, handled>>

CopyStep(w, c) ==
  \/ Submit(w, c) \/ StartHandler(w, c) \/ CompleteTask(w, c, FALSE) \/ NackTask(w, c)
  \/ \E outcome \in {"returned", "raised"} : EndHandler(w, c, outcome)

-----------------------------------------------------------------------------
(* Time passes. *)
Abandoned(t) == \A c \in copies[tasks[t].owner] : c.task # t

TaskLeaseRunsOut(t) ==
  /\ tasks[t].status = "CLAIMED" /\ ~tasks[t].expired
  /\ tasks' = [tasks EXCEPT ![t].expired = TRUE]
  /\ UNCHANGED <<registered, cursor, started, matcher, workerVars>>

BackoffEnds(t) ==
  /\ tasks[t].status = "PENDING" /\ ~tasks[t].due
  /\ tasks' = [tasks EXCEPT ![t].due = TRUE]
  /\ UNCHANGED <<registered, cursor, started, matcher, workerVars>>

WindowCloses(t) ==
  /\ tasks[t].fresh /\ Defs[tasks[t].reaction].debounce
  /\ tasks' = [tasks EXCEPT ![t].fresh = FALSE]
  /\ UNCHANGED <<registered, cursor, started, matcher, workerVars>>

DebouncerForgets(w) ==
  /\ recent[w] # {}
  /\ \E p \in recent[w] : recent' = [recent EXCEPT ![w] = @ \ {p}]
  /\ UNCHANGED <<matcherVars, copies, ran, handled>>
=============================================================================
