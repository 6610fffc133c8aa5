-------------------------------- MODULE Runs --------------------------------
(***************************************************************************)
(* The life of one run: the application drives it (TapePlugin around an    *)
(* ADK invocation), it parks on gates, people and the timer reactor signal *)
(* the gates, and the recovery reactor drives it again after a signal or a *)
(* crash.                                                                  *)
(*                                                                         *)
(* Each SQL statement that reads or writes shared state is one step.  The  *)
(* agent is a sequence of gates; a drive resumes after the last gate whose *)
(* answer ADK stored in the session.  A crash of a process stands also for *)
(* an RPC of it that fails: the invocation ends in an exception, or        *)
(* after_run_callback swallows it, and in both cases the run stays as it   *)
(* is.  lease_owner is read by no guard of the code, so it is left out;    *)
(* so are the answers to the gates and the journal entries.                *)
(***************************************************************************)
EXTENDS Integers

CONSTANTS
  App,          \* the process that starts the run
  Reactor,      \* processes that run recover_once
  Human,        \* processes that call send_signal
  Ticker,       \* processes that run fire_due_timers_once
  Gates,        \* how many gates the agent passes
  SendBudget,   \* bound: signals sent by humans
  CrashBudget,  \* bound: how many crashes a behaviour may contain
  Prompt,       \* a run lease outlives the drive it was taken for
  Settled       \* after_run_callback reads the run before a signal or a
                \* reactor reaches the run its invocation just parked

Driver == {App} \cup Reactor
Sender == Human \cup Ticker
Gate == 1..Gates

ASSUME RunsAssumption ==
  /\ App \notin Reactor
  /\ Human \cap Ticker = {}
  /\ Gates \in Nat
  /\ SendBudget \in Nat
  /\ CrashBudget \in Nat
  /\ Prompt \in BOOLEAN
  /\ Settled \in BOOLEAN

VARIABLES
  run,      \* the tape_runs row
  signal,   \* the tape_signals rows of the run, per gate
  timer,    \* the gates with a gate_timeout timer that has not fired
  passed,   \* the gates whose answer is in the ADK session: 1..passed
  driver,   \* per driver: where it is in the invocation
  sender,   \* per sender: where it is in send_signal
  sends,
  crashes

vars == <<run, signal, timer, passed, driver, sender, sends, crashes>>

RunStatus == {"NONE", "RUNNABLE", "RUNNING", "WAITING", "TERMINAL", "CANCELLED"}

(* The row: its status, waiting_on_gate (0 for ''), and whether
   lease_expires_at_ms < now. *)
RunOf(status, gate, expired) == [status |-> status, gate |-> gate, expired |-> expired]
RunRow == [status : RunStatus, gate : 0..Gates, expired : BOOLEAN]

SignalOf(delivered, consumed) == [delivered |-> delivered, consumed |-> consumed]

(* A driver and the gate it is at; a sender and the gate it signals. *)
At(pc, gate) == [pc |-> pc, gate |-> gate]
Idle == At("idle", 0)
DriverState ==
  [pc : {"idle", "listed", "walk", "consume", "answered", "park", "after", "end"},
   gate : 0..(Gates + 1)]
SenderState == [pc : {"idle", "claimed", "look", "release"}, gate : 0..Gates]

Active(d) == driver[d].pc \notin {"idle", "listed"}

(* Nothing touches a run between the end of its invocation and the read of
   after_run_callback, if that is assumed. *)
Undisturbed == Settled => \A d \in Driver : driver[d].pc # "after"

Init ==
  /\ run = RunOf("NONE", 0, FALSE)
  /\ signal = [g \in Gate |-> SignalOf(FALSE, FALSE)]
  /\ timer = Gate
  /\ passed = 0
  /\ driver = [d \in Driver |-> Idle]
  /\ sender = [s \in Sender |-> Idle]
  /\ sends = 0
  /\ crashes = 0

-----------------------------------------------------------------------------
(* Driving the run *)

(* begin_run on a run that exists: whoever held the lease loses it. *)
Begun(row) ==
  IF row.status \in {"TERMINAL", "STUCK"} THEN row ELSE RunOf("RUNNING", row.gate, FALSE)

(* before_run_callback does not look at the status begin_run returns, so the
   drive goes ahead whatever it is. *)
Start ==
  /\ run.status = "NONE"
  /\ driver[App].pc = "idle"
  /\ run' = RunOf("RUNNING", 0, FALSE)
  /\ driver' = [driver EXCEPT ![App] = At("walk", passed + 1)]
  /\ UNCHANGED <<signal, timer, passed, sender, sends, crashes>>

Redrive(d) ==
  /\ driver[d].pc = "listed"
  /\ run' = Begun(run)
  /\ driver' = [driver EXCEPT ![d] = At("walk", passed + 1)]
  /\ UNCHANGED <<signal, timer, passed, sender, sends, crashes>>

(* Mutant: answered gates are left to send_signal. *)
Recoverable_NoSignal ==
  \/ run.status = "RUNNABLE"
  \/ run.status = "RUNNING" /\ run.expired

(* Mutant: the lease of a running run is not looked at. *)
Recoverable_IgnoreLease ==
  \/ run.status \in {"RUNNABLE", "RUNNING"}
  \/ run.status = "WAITING" /\ \E g \in Gate : signal[g].delivered /\ ~signal[g].consumed

(* list_runs_to_recover *)
Recoverable ==
  \/ run.status = "RUNNABLE"
  \/ run.status = "RUNNING" /\ run.expired
  \/ run.status = "WAITING" /\ \E g \in Gate : signal[g].delivered /\ ~signal[g].consumed

List(d) ==
  /\ driver[d].pc = "idle"
  /\ Recoverable
  /\ Undisturbed
  /\ driver' = [driver EXCEPT ![d] = At("listed", 0)]
  /\ UNCHANGED <<run, signal, timer, passed, sender, sends, crashes>>

(* await_signal: the SELECT; then either the answer is consumed ... *)
AwaitSelect(d) ==
  /\ driver[d].pc = "walk"
  /\ driver[d].gate \in Gate
  /\ driver' = [driver EXCEPT ![d] =
       At(IF signal[driver[d].gate].delivered THEN "consume" ELSE "park", driver[d].gate)]
  /\ UNCHANGED <<run, signal, timer, passed, sender, sends, crashes>>

Consume(d) ==
  /\ driver[d].pc = "consume"
  /\ signal' = [signal EXCEPT ![driver[d].gate] = SignalOf(@.delivered, TRUE)]
  /\ driver' = [driver EXCEPT ![d] = At("answered", driver[d].gate)]
  /\ UNCHANGED <<run, timer, passed, sender, sends, crashes>>

(* ... and the answer stored in the session by ADK, ... *)
Answer(d) ==
  /\ driver[d].pc = "answered"
  /\ passed' = IF driver[d].gate > passed THEN driver[d].gate ELSE passed
  /\ driver' = [driver EXCEPT ![d] = At("walk", driver[d].gate + 1)]
  /\ UNCHANGED <<run, signal, timer, sender, sends, crashes>>

ParkedOn(row, g) == RunOf("WAITING", g, row.expired)

(* ... or the run parked and the invocation suspended. *)
Park(d) ==
  /\ driver[d].pc = "park"
  /\ run' = ParkedOn(run, driver[d].gate)
  /\ driver' = [driver EXCEPT ![d] = At("after", driver[d].gate)]
  /\ UNCHANGED <<signal, timer, passed, sender, sends, crashes>>

(* The agent has no gate left. *)
Finish(d) ==
  /\ driver[d].pc = "walk"
  /\ driver[d].gate > Gates
  /\ driver' = [driver EXCEPT ![d].pc = "after"]
  /\ UNCHANGED <<run, signal, timer, passed, sender, sends, crashes>>

(* heartbeat, called by a tool between two gates *)
Heartbeat(d) ==
  /\ driver[d].pc = "walk"
  /\ run' = RunOf("RUNNING", run.gate, FALSE)
  /\ UNCHANGED <<signal, timer, passed, driver, sender, sends, crashes>>

(* Mutant: a suspended run counts as finished. *)
Ending_Waiting == {"RUNNING", "RUNNABLE", "WAITING"}

(* The statuses in which after_run_callback ends the run. *)
Ending == {"RUNNING", "RUNNABLE"}

AfterRun(d) ==
  /\ driver[d].pc = "after"
  /\ driver' = [driver EXCEPT ![d] =
       IF run.status \in Ending THEN At("end", driver[d].gate) ELSE Idle]
  /\ UNCHANGED <<run, signal, timer, passed, sender, sends, crashes>>

EndRun(d) ==
  /\ driver[d].pc = "end"
  /\ run' = RunOf("TERMINAL", run.gate, run.expired)
  /\ driver' = [driver EXCEPT ![d] = Idle]
  /\ UNCHANGED <<signal, timer, passed, sender, sends, crashes>>

-----------------------------------------------------------------------------
(* Signalling gates *)

(* Mutant: a signal is consumed by its delivery. *)
Delivered_Consumed(row) == SignalOf(TRUE, TRUE)

(* The upsert of send_signal does not touch consumed. *)
Delivered(row) == SignalOf(TRUE, row.consumed)

SendSignal(h, g) ==
  /\ run.status # "NONE"
  /\ sends < SendBudget
  /\ sender[h].pc = "idle"
  /\ signal' = [signal EXCEPT ![g] = Delivered(signal[g])]
  /\ sender' = [sender EXCEPT ![h] = At("look", g)]
  /\ sends' = sends + 1
  /\ UNCHANGED <<run, timer, passed, driver, crashes>>

(* list_due_timers with claim: only the claim is recorded yet. *)
ClaimTimer(t, g) ==
  /\ run.status # "NONE"
  /\ g \in timer
  /\ sender[t].pc = "idle"
  /\ timer' = timer \ {g}
  /\ sender' = [sender EXCEPT ![t] = At("claimed", g)]
  /\ UNCHANGED <<run, signal, passed, driver, sends, crashes>>

GateTimeout(t) ==
  /\ sender[t].pc = "claimed"
  /\ signal' = [signal EXCEPT ![sender[t].gate] = Delivered(signal[sender[t].gate])]
  /\ sender' = [sender EXCEPT ![t].pc = "look"]
  /\ UNCHANGED <<run, timer, passed, driver, sends, crashes>>

Look(s) ==
  /\ sender[s].pc = "look"
  /\ sender' = [sender EXCEPT ![s] =
       IF run.status = "WAITING" /\ run.gate = sender[s].gate
       THEN At("release", sender[s].gate) ELSE Idle]
  /\ UNCHANGED <<run, signal, timer, passed, driver, sends, crashes>>

(* The UPDATE does not ask whether the run is still waiting. *)
Release(s) ==
  /\ sender[s].pc = "release"
  /\ Undisturbed
  /\ run' = RunOf("RUNNABLE", 0, run.expired)
  /\ sender' = [sender EXCEPT ![s] = Idle]
  /\ UNCHANGED <<signal, timer, passed, driver, sends, crashes>>

-----------------------------------------------------------------------------
(* The environment *)

(* cancel_run; compensate_run ends the run from outside in the same way. *)
Cancel ==
  /\ run.status # "NONE"
  /\ run' = RunOf("CANCELLED", run.gate, run.expired)
  /\ UNCHANGED <<signal, timer, passed, driver, sender, sends, crashes>>

LeaseExpires ==
  /\ run.status = "RUNNING"
  /\ ~run.expired
  /\ Prompt => \A d \in Driver : ~Active(d)
  /\ run' = [run EXCEPT !.expired = TRUE]
  /\ UNCHANGED <<signal, timer, passed, driver, sender, sends, crashes>>

CrashDriver(d) ==
  /\ driver[d].pc # "idle"
  /\ crashes < CrashBudget
  /\ driver' = [driver EXCEPT ![d] = Idle]
  /\ crashes' = crashes + 1
  /\ UNCHANGED <<run, signal, timer, passed, sender, sends>>

CrashSender(s) ==
  /\ sender[s].pc # "idle"
  /\ crashes < CrashBudget
  /\ sender' = [sender EXCEPT ![s] = Idle]
  /\ crashes' = crashes + 1
  /\ UNCHANGED <<run, signal, timer, passed, driver, sends>>

-----------------------------------------------------------------------------
DriverStep(d) ==
  \/ AwaitSelect(d)
  \/ Consume(d)
  \/ Answer(d)
  \/ Park(d)
  \/ Finish(d)
  \/ AfterRun(d)
  \/ EndRun(d)

ReactorStep(d) == List(d) \/ Redrive(d)

TickerStep(t) == GateTimeout(t) \/ \E g \in Gate : ClaimTimer(t, g)

SenderStep(s) == Look(s) \/ Release(s)

Next ==
  \/ Start
  \/ \E d \in Driver : DriverStep(d) \/ Heartbeat(d) \/ CrashDriver(d)
  \/ \E d \in Reactor : ReactorStep(d)
  \/ \E h \in Human, g \in Gate : SendSignal(h, g)
  \/ \E t \in Ticker : TickerStep(t)
  \/ \E s \in Sender : SenderStep(s) \/ CrashSender(s)
  \/ Cancel
  \/ LeaseExpires

Spec == Init /\ [][Next]_vars

(* Processes that do not crash go on, reactors poll for ever, and time passes. *)
Fairness ==
  /\ \A d \in Driver : WF_vars(DriverStep(d))
  /\ \A d \in Reactor : WF_vars(ReactorStep(d))
  /\ \A t \in Ticker : WF_vars(TickerStep(t))
  /\ \A s \in Sender : WF_vars(SenderStep(s))
  /\ WF_vars(LeaseExpires)

FairSpec == Spec /\ Fairness

-----------------------------------------------------------------------------
TypeOK ==
  /\ run \in RunRow
  /\ signal \in [Gate -> [delivered : BOOLEAN, consumed : BOOLEAN]]
  /\ timer \subseteq Gate
  /\ passed \in 0..Gates
  /\ driver \in [Driver -> DriverState]
  /\ sender \in [Sender -> SenderState]
  /\ sends \in 0..SendBudget
  /\ crashes \in 0..CrashBudget

(* The run lease keeps a second process from driving the run: between
   before_run_callback and after_run_callback of one invocation, recover_once
   starts no other. *)
OneDriver == \A c, d \in Driver : Active(c) /\ Active(d) => c = d

(* No gate is passed without a signal, and after_run_callback ends a run only
   when the agent has passed all its gates: it does not mistake an invocation
   that was suspended for one that is complete. *)
EndsAnswered ==
  /\ \A g \in 1..passed : signal[g].delivered
  /\ run.status = "TERMINAL" => passed = Gates

(* However await_signal and send_signal interleave, a parked run whose gate was
   signalled is one that list_runs_to_recover returns: the wake-up that
   send_signal missed is not lost. *)
NoLostWakeup ==
  (run.status = "WAITING" /\ signal[run.gate].delivered) => Recoverable

(* Once all gates are signalled, a run ends for good, through crashes of its
   drivers and of the senders, unless it was cancelled. *)
Ends ==
  (run.status # "NONE" /\ \A g \in Gate : signal[g].delivered)
    ~> [](run.status \in {"TERMINAL", "CANCELLED"})

=============================================================================
