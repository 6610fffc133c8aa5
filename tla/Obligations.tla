---------------------------- MODULE Obligations ----------------------------
(***************************************************************************)
(* The obligation ledger of one run and the processes that drain it.       *)
(* Confirmed effects with an inverse get a row (register_compensation);    *)
(* drainers (compensate_once, in a polling loop) and sagas (compensate_run) *)
(* claim rows under a lease, run the inverse and record the outcome, both  *)
(* through compensate_one.                                                 *)
(*                                                                         *)
(* Each SQL statement is one step.  A crash of a process stands also for   *)
(* an RPC of it that fails, because compensate_one lets the exception      *)
(* through and the batch is given up.  Rows are numbered in the order of   *)
(* their seq.  claimed_by is written for operators and read by no guard,   *)
(* so it is left out, and so are the journal entries.  The row a handler   *)
(* returns is the one it wrote.                                            *)
(***************************************************************************)
EXTENDS Integers, FiniteSets

CONSTANTS
  Effect,       \* confirmed effects of the run whose tool has a compensator
  Registrar,    \* processes that register compensations: plugin, dispatchers
  Drainer,      \* processes that run compensate_once
  Saga,         \* calls of compensate_run
  None,
  Rows,         \* bound: size of the table
  MaxAttempts,  \* max_attempts
  MaxPasses,    \* max_passes of compensate_run
  CrashBudget,  \* bound: how many crashes a behaviour may contain
  Prompt        \* an obligation lease outlives the inverse run under it

Worker == Drainer \cup Saga
Slot == 1..Rows

ASSUME ObligationsAssumption ==
  /\ None \notin Effect
  /\ Drainer \cap Saga = {}
  /\ Rows \in Nat
  /\ MaxAttempts \in Nat \ {0}
  /\ MaxPasses \in Nat \ {0}
  /\ CrashBudget \in Nat
  /\ Prompt \in BOOLEAN

VARIABLES
  ob,        \* the tape_obligations rows of the run
  run,       \* the status of the run
  reversed,  \* how often the inverse of a row was executed
  reg,       \* per registrar: the effect it found no row for, or None
  worker,    \* per worker: where it is in compensate_one
  saga,      \* per saga: where it is in compensate_run
  crashes

vars == <<ob, run, reversed, reg, worker, saga, crashes>>

Status == {"NONE", "PENDING", "COMMITTED", "COMPENSATED", "STUCK"}
Terminal == {"COMPENSATED", "STUCK"}
RunStatus == {"RUNNING", "COMPENSATING", "FAILED", "STUCK"}

(* One row; "expired" is 0 < claim_expires_at_ms <= now and "due" is
   next_attempt_at_ms <= now. *)
RowOf(effect, status, expired, due, attempts) ==
  [effect |-> effect, status |-> status, expired |-> expired, due |-> due,
   attempts |-> attempts]
Row == [effect : Effect \cup {None}, status : Status, expired : BOOLEAN,
        due : BOOLEAN, attempts : Nat]
NoRow == RowOf(None, "NONE", FALSE, FALSE, 0)

(* compensate_one: the row at hand, the attempts last read of it, and whether
   the drainer asks for no further attempt. *)
At(pc, slot, tries, final) == [pc |-> pc, slot |-> slot, tries |-> tries, final |-> final]
Idle == At("idle", 0, 0, FALSE)
WorkerState ==
  [pc : {"idle", "claimed", "running", "resolve", "giveup", "select", "write"},
   slot : Slot \cup {0}, tries : Nat, final : BOOLEAN]

(* compensate_run: the rows left of this pass, whether a row got stuck in its
   hands, the passes made, and the status it will leave the run with. *)
SagaAt(pc, todo, stuck, pass, verdict) ==
  [pc |-> pc, todo |-> todo, stuck |-> stuck, pass |-> pass, verdict |-> verdict]
SagaReady == SagaAt("ready", {}, FALSE, 0, "RUNNING")
SagaState ==
  [pc : {"ready", "walk", "count", "end", "done"}, todo : SUBSET Slot,
   stuck : BOOLEAN, pass : Nat, verdict : RunStatus]

Init ==
  /\ ob = [s \in Slot |-> NoRow]
  /\ run = "RUNNING"
  /\ reversed = [s \in Slot |-> 0]
  /\ reg = [g \in Registrar |-> None]
  /\ worker = [w \in Worker |-> Idle]
  /\ saga = [g \in Saga |-> SagaReady]
  /\ crashes = 0

-----------------------------------------------------------------------------
(* The rows the store's statements write. *)

(* Mutant: a live lease is not looked at. *)
Claimable_IgnoreLease(row) ==
  \/ row.status = "PENDING" /\ row.due
  \/ row.status = "COMMITTED"

(* Mutant: a stuck obligation is taken up again. *)
Claimable_Stuck(row) ==
  \/ row.status \in {"PENDING", "STUCK"} /\ row.due
  \/ row.status = "COMMITTED" /\ row.expired

(* Mutant: no arm for a lease that ran out. *)
Claimable_NoReclaim(row) == row.status = "PENDING" /\ row.due

(* WHERE clause of claim_obligation. *)
Claimable(row) ==
  \/ row.status = "PENDING" /\ row.due
  \/ row.status = "COMMITTED" /\ row.expired

Claimed(row) == RowOf(row.effect, "COMMITTED", FALSE, row.due, row.attempts)

(* UPDATE of record_obligation_attempt, from the attempts its SELECT read. *)
AttemptRecorded(row, tries, final) ==
  IF final \/ tries + 1 >= MaxAttempts
  THEN RowOf(row.effect, "STUCK", FALSE, TRUE, tries + 1)
  ELSE RowOf(row.effect, "PENDING", FALSE, FALSE, tries + 1)

(* UPDATE of resolve_obligation. *)
Resolved(row, status) == RowOf(row.effect, status, FALSE, row.due, row.attempts)

-----------------------------------------------------------------------------
(* register_compensation: SELECT for an existing row, then INSERT. *)

(* Mutant: the row is inserted without a look at the table. *)
RegisterSelect_Always(g, e) ==
  /\ reg[g] = None
  /\ reg' = [reg EXCEPT ![g] = e]
  /\ UNCHANGED <<ob, run, reversed, worker, saga, crashes>>

RegisterSelect(g, e) ==
  /\ reg[g] = None
  /\ \A s \in Slot : ob[s].effect # e
  /\ reg' = [reg EXCEPT ![g] = e]
  /\ UNCHANGED <<ob, run, reversed, worker, saga, crashes>>

RegisterInsert(g, s) ==
  /\ reg[g] # None
  /\ ob[s].status = "NONE"
  /\ \A t \in Slot : t < s => ob[t].status # "NONE"
  /\ ob' = [ob EXCEPT ![s] = RowOf(reg[g], "PENDING", FALSE, TRUE, 0)]
  /\ reg' = [reg EXCEPT ![g] = None]
  /\ UNCHANGED <<run, reversed, worker, saga, crashes>>

(* next_attempt_at_ms passes. *)
BecomesDue(s) ==
  /\ ob[s].status # "NONE"
  /\ ~ob[s].due
  /\ ob' = [ob EXCEPT ![s].due = TRUE]
  /\ UNCHANGED <<run, reversed, reg, worker, saga, crashes>>

(* claim_expires_at_ms passes.  When leases are Prompt this waits for the worker
   that has the row in its hands. *)
LeaseExpires(s) ==
  /\ ob[s].status = "COMMITTED"
  /\ ~ob[s].expired
  /\ Prompt => \A w \in Worker : worker[w].slot # s
  /\ ob' = [ob EXCEPT ![s].expired = TRUE]
  /\ UNCHANGED <<run, reversed, reg, worker, saga, crashes>>

-----------------------------------------------------------------------------
(* compensate_one. *)

(* compensate_once goes through list_unresolved_obligations and claims each row;
   a row the claim does not win is skipped. *)
Claim(d, s) ==
  /\ worker[d].pc = "idle"
  /\ Claimable(ob[s])
  /\ ob' = [ob EXCEPT ![s] = Claimed(@)]
  /\ worker' = [worker EXCEPT ![d] = At("claimed", s, 0, FALSE)]
  /\ UNCHANGED <<run, reversed, reg, saga, crashes>>

(* claim_obligation returns the row; the compensator is looked up. *)
Resolve(w, found) ==
  LET s == worker[w].slot IN
  /\ worker[w].pc = "claimed"
  /\ worker' = [worker EXCEPT ![w] =
       At(IF found THEN "running" ELSE "giveup", s, ob[s].attempts, FALSE)]
  /\ UNCHANGED <<ob, run, reversed, reg, saga, crashes>>

(* The inverse runs to its end. *)
Succeed(w) ==
  LET s == worker[w].slot IN
  /\ worker[w].pc = "running"
  /\ reversed' = [reversed EXCEPT ![s] = @ + 1]
  /\ worker' = [worker EXCEPT ![w] = At("resolve", s, @.tries, FALSE)]
  /\ UNCHANGED <<ob, run, reg, saga, crashes>>

(* The inverse raises, before or after the reversal was executed. *)
Raise(w, executed) ==
  LET s == worker[w].slot IN
  /\ worker[w].pc = "running"
  /\ reversed' = [reversed EXCEPT ![s] = IF executed THEN @ + 1 ELSE @]
  /\ worker' = [worker EXCEPT ![w] = At("select", s, 0, @.tries + 1 >= MaxAttempts)]
  /\ UNCHANGED <<ob, run, reg, saga, crashes>>

(* resolve_obligation with COMPENSATED after the inverse succeeded. *)
WriteCompensated(w) ==
  /\ worker[w].pc = "resolve"
  /\ ob' = [ob EXCEPT ![worker[w].slot] = Resolved(@, "COMPENSATED")]
  /\ worker' = [worker EXCEPT ![w] = Idle]
  /\ UNCHANGED <<run, reversed, reg, saga, crashes>>

(* The outcome "stuck" is noted by the saga the worker belongs to. *)
NoteStuck(w) ==
  IF w \in Saga THEN saga' = [saga EXCEPT ![w].stuck = TRUE] ELSE UNCHANGED saga

(* Mutant: a missing compensator closes the obligation as done. *)
WriteGivenUp_Compensated(w) ==
  /\ worker[w].pc = "giveup"
  /\ ob' = [ob EXCEPT ![worker[w].slot] = Resolved(@, "COMPENSATED")]
  /\ worker' = [worker EXCEPT ![w] = Idle]
  /\ NoteStuck(w)
  /\ UNCHANGED <<run, reversed, reg, crashes>>

(* resolve_obligation with STUCK: there is no compensator to run. *)
WriteGivenUp(w) ==
  /\ worker[w].pc = "giveup"
  /\ ob' = [ob EXCEPT ![worker[w].slot] = Resolved(@, "STUCK")]
  /\ worker' = [worker EXCEPT ![w] = Idle]
  /\ NoteStuck(w)
  /\ UNCHANGED <<run, reversed, reg, crashes>>

(* record_obligation_attempt after the inverse raised: SELECT, then UPDATE. *)
AttemptSelect(w) ==
  LET s == worker[w].slot IN
  /\ worker[w].pc = "select"
  /\ worker' = [worker EXCEPT ![w] = At("write", s, ob[s].attempts, @.final)]
  /\ UNCHANGED <<ob, run, reversed, reg, saga, crashes>>

AttemptWrite(w) ==
  LET s == worker[w].slot
      row == AttemptRecorded(ob[s], worker[w].tries, worker[w].final) IN
  /\ worker[w].pc = "write"
  /\ ob' = [ob EXCEPT ![s] = row]
  /\ worker' = [worker EXCEPT ![w] = Idle]
  /\ IF row.status = "STUCK" THEN NoteStuck(w) ELSE UNCHANGED saga
  /\ UNCHANGED <<run, reversed, reg, crashes>>

CompensateOne(w) ==
  \/ \E found \in BOOLEAN : Resolve(w, found)
  \/ Succeed(w)
  \/ \E executed \in BOOLEAN : Raise(w, executed)
  \/ WriteCompensated(w)
  \/ WriteGivenUp(w)
  \/ AttemptSelect(w)
  \/ AttemptWrite(w)

-----------------------------------------------------------------------------
(* compensate_run. *)

SagaStart(g) ==
  /\ saga[g].pc = "ready"
  /\ run' = "COMPENSATING"
  /\ saga' = [saga EXCEPT ![g] = SagaAt("walk", {}, FALSE, 0, "RUNNING")]
  /\ UNCHANGED <<ob, reversed, reg, worker, crashes>>

(* A pass lists the PENDING rows that are due; with none, or after the last
   pass, the walk is over. *)
SagaList(g) ==
  LET due == {s \in Slot : ob[s].status = "PENDING" /\ ob[s].due}
      me == saga[g] IN
  /\ me.pc = "walk"
  /\ me.todo = {}
  /\ worker[g].pc = "idle"
  /\ saga' = [saga EXCEPT ![g] =
       IF due = {} \/ me.pass = MaxPasses
       THEN SagaAt("count", {}, me.stuck, me.pass, "RUNNING")
       ELSE SagaAt("walk", due, me.stuck, me.pass + 1, "RUNNING")]
  /\ UNCHANGED <<ob, run, reversed, reg, worker, crashes>>

(* The newest row of the pass is claimed, or skipped when the claim is lost. *)
SagaClaim(g, s) ==
  LET me == saga[g] IN
  /\ me.pc = "walk"
  /\ worker[g].pc = "idle"
  /\ s \in me.todo
  /\ \A t \in me.todo : t <= s
  /\ saga' = [saga EXCEPT ![g] = SagaAt("walk", me.todo \ {s}, me.stuck, me.pass, "RUNNING")]
  /\ IF Claimable(ob[s])
     THEN /\ ob' = [ob EXCEPT ![s] = Claimed(@)]
          /\ worker' = [worker EXCEPT ![g] = At("claimed", s, 0, FALSE)]
     ELSE UNCHANGED <<ob, worker>>
  /\ UNCHANGED <<run, reversed, reg, crashes>>

(* Mutant: a run with anything unresolved is called stuck. *)
Verdict_LeftoverStuck(stuck) ==
  IF stuck \/ \E s \in Slot : ob[s].status = "PENDING" THEN "STUCK" ELSE "FAILED"

(* The status the run is left with, from the rows that are PENDING at the end. *)
Verdict(stuck) ==
  IF stuck THEN "STUCK"
  ELSE IF \E s \in Slot : ob[s].status = "PENDING" THEN "COMPENSATING"
  ELSE "FAILED"

SagaCount(g) ==
  LET me == saga[g] IN
  /\ me.pc = "count"
  /\ saga' = [saga EXCEPT ![g] = SagaAt("end", {}, me.stuck, me.pass, Verdict(me.stuck))]
  /\ UNCHANGED <<ob, run, reversed, reg, worker, crashes>>

SagaEnd(g) ==
  LET me == saga[g] IN
  /\ me.pc = "end"
  /\ run' = me.verdict
  /\ saga' = [saga EXCEPT ![g] = SagaAt("done", {}, me.stuck, me.pass, me.verdict)]
  /\ UNCHANGED <<ob, reversed, reg, worker, crashes>>

-----------------------------------------------------------------------------
(* A process dies; a saga may be called again. *)
Crash(w) ==
  /\ crashes < CrashBudget
  /\ worker[w].pc # "idle" \/ (w \in Saga /\ saga[w].pc \in {"walk", "count", "end"})
  /\ worker' = [worker EXCEPT ![w] = Idle]
  /\ IF w \in Saga THEN saga' = [saga EXCEPT ![w] = SagaReady] ELSE UNCHANGED saga
  /\ crashes' = crashes + 1
  /\ UNCHANGED <<ob, run, reversed, reg>>

RegistrarStep(g) ==
  \/ \E e \in Effect : RegisterSelect(g, e)
  \/ \E s \in Slot : RegisterInsert(g, s)

SagaStep(g) ==
  \/ SagaList(g)
  \/ \E s \in Slot : SagaClaim(g, s)
  \/ SagaCount(g)
  \/ SagaEnd(g)

Next ==
  \/ \E g \in Registrar : RegistrarStep(g)
  \/ \E s \in Slot : BecomesDue(s) \/ LeaseExpires(s)
  \/ \E d \in Drainer, s \in Slot : Claim(d, s)
  \/ \E w \in Worker : CompensateOne(w) \/ Crash(w)
  \/ \E g \in Saga : SagaStart(g) \/ SagaStep(g)

Spec == Init /\ [][Next]_vars

(* Drainers poll in a loop and try each row that is due, a worker that started
   goes on unless it crashes, and time passes.  Nothing makes anyone call
   compensate_run. *)
Fairness ==
  /\ \A d \in Drainer, s \in Slot : WF_vars(Claim(d, s))
  /\ \A w \in Worker : WF_vars(CompensateOne(w))
  /\ \A g \in Saga : WF_vars(SagaStep(g))
  /\ \A s \in Slot : WF_vars(BecomesDue(s)) /\ WF_vars(LeaseExpires(s))

FairSpec == Spec /\ Fairness

-----------------------------------------------------------------------------
TypeOK ==
  /\ ob \in [Slot -> Row]
  /\ run \in RunStatus
  /\ reversed \in [Slot -> Nat]
  /\ reg \in [Registrar -> Effect \cup {None}]
  /\ worker \in [Worker -> WorkerState]
  /\ saga \in [Saga -> SagaState]
  /\ crashes \in Nat

(* "Tape never reports a false compensated": whoever set COMPENSATED, and however
   the reports of slow and restarted drainers interleaved, the inverse ran. *)
NeverFalselyCompensated == \A s \in Slot : ob[s].status = "COMPENSATED" => reversed[s] > 0

(* The inverse of an obligation is executed once, plus at most once for every
   attempt recorded as failed and every drainer that crashed: claim_obligation
   lets nobody else run it in between. *)
ReversalsAccounted == \A s \in Slot : reversed[s] <= ob[s].attempts + crashes + 1

(* COMPENSATED and STUCK are final: no report overwrites them. *)
TerminalStays ==
  [][\A s \in Slot : ob[s].status \in Terminal => ob'[s].status = ob[s].status]_vars

(* A run that compensate_run leaves STUCK has an obligation that is STUCK, so the
   human who is called finds it. *)
StuckIsReal == run = "STUCK" => \E s \in Slot : ob[s].status = "STUCK"

(* Every registered obligation is driven to COMPENSATED or STUCK, whatever
   crashes in between. *)
Drained == \A s \in Slot : ob[s].status = "PENDING" ~> ob[s].status \in Terminal

(* register_compensation is idempotent: an effect has one obligation, however
   often it is registered and whatever became of the row meanwhile.  This needs one
   registrar at a time: the SELECT and the INSERT are two transactions and no
   index forbids a second row. *)
OneObligation ==
  \A s, t \in Slot : ob[s].effect = ob[t].effect /\ ob[s].effect # None => s = t

=============================================================================
