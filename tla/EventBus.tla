------------------------------ MODULE EventBus ------------------------------
(***************************************************************************)
(* The event bus end to end: requests append to the journal, the matchers  *)
(* turn entries into tasks and runs, dispatchers and bridges work the      *)
(* tasks off.                                                              *)
(***************************************************************************)
EXTENDS TaskWorkers

CONSTANT FaultBudget  \* bound: faults in a behaviour

VARIABLES
  crashes,  \* crashes of servers and workers, and lost calls of complete_task
  overruns  \* leases that ran out while their worker was still at the task

faults == <<crashes, overruns>>
vars == <<journalVars, matcherVars, workerVars, faults>>

Init == JournalInit /\ MatcherInit /\ WorkerInit /\ crashes = 0 /\ overruns = 0

Fault ==
  /\ crashes + overruns < FaultBudget
  /\ \/ /\ crashes' = crashes + 1
        /\ \/ \E m \in Server : CrashServer(m) /\ UNCHANGED workerVars
           \/ \E w \in Worker : \/ CrashTaskWorker(w)
                                \/ \E c \in copies[w] : CompleteTask(w, c, TRUE)
        /\ UNCHANGED overruns
     \/ /\ overruns' = overruns + 1
        /\ \E t \in DOMAIN tasks : TaskLeaseRunsOut(t) /\ ~Abandoned(t)
        /\ UNCHANGED crashes
  /\ UNCHANGED journalVars

WorkerStep(w) ==
  \/ \E r \in Reaction : ClaimTasks(w, r)
  \/ \E c \in copies[w] : CopyStep(w, c)

BusStep ==
  \/ \E r \in Reaction : Register(r) /\ UNCHANGED workerVars
  \/ \E m \in Server : MatcherStep(m) /\ UNCHANGED workerVars
  \/ \E w \in Worker : WorkerStep(w) \/ DebouncerForgets(w)
  \/ \E t \in DOMAIN tasks : (TaskLeaseRunsOut(t) /\ Abandoned(t)) \/ BackoffEnds(t) \/ WindowCloses(t)

Next ==
  \/ JournalNext /\ UNCHANGED <<matcherVars, workerVars, faults>>
  \/ BusStep /\ UNCHANGED <<journalVars, faults>>
  \/ Fault

(* The matcher polls at least every second, a worker every poll_interval_s and its
   threads run what is queued; leases and backoffs run out.  Nothing is assumed
   of the order in which a process takes what is open to it. *)
Fairness ==
  /\ \A m \in Server : WF_vars(MatcherStep(m) /\ UNCHANGED <<journalVars, workerVars, faults>>)
  /\ \A w \in Worker : WF_vars(WorkerStep(w) /\ UNCHANGED <<journalVars, faults>>)
  /\ WF_vars((\E t \in DOMAIN tasks : (TaskLeaseRunsOut(t) /\ Abandoned(t)) \/ BackoffEnds(t))
             /\ UNCHANGED <<journalVars, faults>>)

Spec == Init /\ [][Next]_vars
FairSpec == Spec /\ Fairness

-----------------------------------------------------------------------------
(* The task of a reaction that accounts for an entry: its own, or under debounce
   one of the same subject that has moved on to a later entry. *)
Accounts(t, r, s) ==
  /\ tasks[t].reaction = r
  /\ \/ tasks[t].source = s
     \/ /\ Defs[r].debounce
        /\ tasks[t].source > s
        /\ journal[tasks[t].source].subject = journal[s].subject

(* A cursor never passes an entry that hits without having dispatched it, even when
   the server crashes between a task and its cursor or a merge loses its task to a
   claim: an entry at or below a reaction's cursor has its run or its task. *)
CursorCovers ==
  \A r \in registered : \A s \in DOMAIN journal :
    Hits(r, s) /\ s <= cursor[r][Shard(r, s)] =>
      IF Defs[r].kind = "AGENT" THEN <<r, s>> \in started
      ELSE \E t \in DOMAIN tasks : Accounts(t, r, s)

(* An entry is one task: a matcher that goes over a batch again after a crash does
   not create a second task for a reaction that does not debounce. *)
OneTaskPerEntry ==
  \A t, u \in DOMAIN tasks :
    /\ t # u
    /\ tasks[t].reaction = tasks[u].reaction
    /\ ~Defs[tasks[t].reaction].debounce
    => tasks[t].source # tasks[u].source

(* The matcher neither loses nor doubles an entry, whatever it redoes after a crash. *)
DispatchedOnce == CursorCovers /\ OneTaskPerEntry

(* A claim pays for one run of the handler: the runs a task has had, and the
   copies still to run, never exceed the attempts the server counted, so
   dlq_after_n bounds the runs of a failing handler. *)
RunsWithinAttempts ==
  \A t \in DOMAIN tasks :
    Ran(t) + Cardinality({p \in UNION {{<<w, c>> : c \in copies[w]} : w \in Worker} :
                           p[2].task = t /\ p[2].pc \in {"claimed", "queued"}})
      <= tasks[t].attempts

(* A task is in the memory of one worker, once, unless its lease ran out under the
   worker that holds it: every such overrun admits one copy more and no other. *)
OneCopy ==
  \A t \in DOMAIN tasks :
    Cardinality({p \in UNION {{<<w, c>> : c \in copies[w]} : w \in Worker} : p[2].task = t})
      <= 1 + overruns

(* A task that ends DONE had its handler return for the entry it stands for,
   unless its reaction debounces; one that ends in the dead-letter queue was
   attempted dlq_after_n times. *)
EndsAccounted ==
  \A t \in DOMAIN tasks :
    /\ tasks[t].status = "DONE" /\ ~Defs[tasks[t].reaction].debounce
         => <<t, tasks[t].source>> \in handled
    /\ tasks[t].status = "DLQ" => tasks[t].attempts >= Defs[tasks[t].reaction].dlq

(* The attempts the server counts are what the handlers did: no run without one, and
   no end of a task that they do not account for. *)
AttemptsAccounted == RunsWithinAttempts /\ EndsAccounted

(* A task that is DONE or dead-lettered is never worked on again: late completes,
   late nacks and matchers going over old entries leave it alone. *)
TaskEndsForGood ==
  [][\A t \in DOMAIN tasks : tasks[t].status \in {"DONE", "DLQ"} => tasks'[t].status = tasks[t].status]_vars

Settled(r, s) ==
  \/ <<r, s>> \in started
  \/ \E t \in DOMAIN tasks : Accounts(t, r, s) /\ tasks[t].status \in {"DONE", "DLQ"}

(* Every entry a registered reaction hits is eventually dealt with for good: its
   run is begun, or a task that accounts for it is done or dead-lettered. *)
EveryHitSettles ==
  <>[](\A r \in registered, s \in DOMAIN journal : Hits(r, s) => Settled(r, s))
=============================================================================
