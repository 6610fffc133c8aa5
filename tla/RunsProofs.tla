----------------------------- MODULE RunsProofs -----------------------------
(***************************************************************************)
(* Proofs about Runs.  Types hold of every instance.  The other theorems   *)
(* are about a deployment with one recovery reactor whose leases outlive   *)
(* the drives and whose after_run_callback is not overtaken; how many      *)
(* gates, humans, timer reactors and crashes there are does not matter.    *)
(***************************************************************************)
EXTENDS Runs, TLAPS

(* A driver inside await_signal is at one of the agent's gates. *)
AtGate ==
  \A d \in Driver : driver[d].pc \in {"consume", "answered", "park"} => driver[d].gate \in Gate

TypeInv == TypeOK /\ AtGate

(* The types, strengthened to be inductive. *)
LEMMA Typed == Spec => []TypeInv
<1>1. Init => TypeInv
  BY RunsAssumption DEF Init, TypeInv, TypeOK, AtGate, RunOf, RunRow, RunStatus,
     SignalOf, At, Idle, DriverState, SenderState, Gate
<1>2. TypeInv /\ [Next]_vars => TypeInv'
  <2> SUFFICES ASSUME TypeInv, [Next]_vars PROVE TypeInv'
    OBVIOUS
  <2> USE RunsAssumption DEF TypeInv, TypeOK, AtGate, RunOf, RunRow, RunStatus,
     SignalOf, At, Idle, DriverState, SenderState, Gate
  <2>1. CASE Start
    BY <2>1 DEF Start, Driver
  <2>2. ASSUME NEW d \in Driver, AwaitSelect(d) PROVE TypeInv'
    BY <2>2 DEF AwaitSelect
  <2>3. ASSUME NEW d \in Driver, Consume(d) PROVE TypeInv'
    <3>1. signal' \in [Gate -> [delivered : BOOLEAN, consumed : BOOLEAN]]
      BY <2>3 DEF Consume
    <3>2. driver' \in [Driver -> DriverState] /\ AtGate'
      BY <2>3 DEF Consume
    <3> QED
      BY <2>3, <3>1, <3>2 DEF Consume
  <2>4. ASSUME NEW d \in Driver, Answer(d) PROVE TypeInv'
    BY <2>4 DEF Answer
  <2>5. ASSUME NEW d \in Driver, Park(d) PROVE TypeInv'
    BY <2>5 DEF Park, ParkedOn
  <2>6. ASSUME NEW d \in Driver, Finish(d) PROVE TypeInv'
    BY <2>6 DEF Finish
  <2>7. ASSUME NEW d \in Driver, AfterRun(d) PROVE TypeInv'
    BY <2>7 DEF AfterRun, Ending
  <2>8. ASSUME NEW d \in Driver, EndRun(d) PROVE TypeInv'
    BY <2>8 DEF EndRun
  <2>9. ASSUME NEW d \in Driver, Heartbeat(d) PROVE TypeInv'
    BY <2>9 DEF Heartbeat
  <2>10. ASSUME NEW d \in Driver, CrashDriver(d) PROVE TypeInv'
    BY <2>10 DEF CrashDriver
  <2>11. ASSUME NEW d \in Reactor, List(d) PROVE TypeInv'
    BY <2>11 DEF List, Driver
  <2>12. ASSUME NEW d \in Reactor, Redrive(d) PROVE TypeInv'
    BY <2>12 DEF Redrive, Begun, Driver
  <2>13. ASSUME NEW h \in Human, NEW g \in Gate, SendSignal(h, g) PROVE TypeInv'
    BY <2>13 DEF SendSignal, Delivered, Sender
  <2>14. ASSUME NEW t \in Ticker, NEW g \in Gate, ClaimTimer(t, g) PROVE TypeInv'
    BY <2>14 DEF ClaimTimer, Sender
  <2>15. ASSUME NEW t \in Ticker, GateTimeout(t) PROVE TypeInv'
    <3>1. signal' \in [Gate -> [delivered : BOOLEAN, consumed : BOOLEAN]]
      BY <2>15 DEF GateTimeout, Delivered, Sender
    <3>2. sender' \in [Sender -> SenderState]
      BY <2>15 DEF GateTimeout, Sender
    <3> QED
      BY <2>15, <3>1, <3>2 DEF GateTimeout
  <2>16. ASSUME NEW s \in Sender, Look(s) PROVE TypeInv'
    BY <2>16 DEF Look
  <2>17. ASSUME NEW s \in Sender, Release(s) PROVE TypeInv'
    BY <2>17 DEF Release
  <2>18. ASSUME NEW s \in Sender, CrashSender(s) PROVE TypeInv'
    BY <2>18 DEF CrashSender
  <2>19. CASE Cancel
    BY <2>19 DEF Cancel
  <2>20. CASE LeaseExpires
    BY <2>20 DEF LeaseExpires
  <2>21. CASE UNCHANGED vars
    BY <2>21 DEF vars
  <2> QED
    BY <2>1, <2>2, <2>3, <2>4, <2>5, <2>6, <2>7, <2>8, <2>9, <2>10, <2>11, <2>12,
       <2>13, <2>14, <2>15, <2>16, <2>17, <2>18, <2>19, <2>20, <2>21
     DEF Next, DriverStep, ReactorStep, TickerStep, SenderStep
<1> QED
  BY <1>1, <1>2, PTL DEF Spec

(* Every variable keeps its type: the handlers of the run, the gates and the
   timers write no other values. *)
THEOREM TypeCorrect == Spec => []TypeOK
  BY Typed, PTL DEF TypeInv

-----------------------------------------------------------------------------
(* The deployment the theorems below are about. *)
OneReactor == Prompt /\ Settled /\ \E r : Reactor = {r}

(* While the application drives the run, the run is out of the reach of the
   reactor: it is RUNNING under a live lease, and no send_signal is left that
   saw it WAITING.  Only at its end may it be WAITING. *)
Drives(d) == driver[d].pc \in {"walk", "consume", "answered", "park", "end"}

DriveInv ==
  /\ run.status = "NONE" =>
       /\ \A d \in Driver : driver[d].pc = "idle"
       /\ \A s \in Sender : sender[s].pc = "idle"
  /\ Active(App) => \A d \in Reactor : driver[d].pc = "idle"
  /\ Drives(App) => run.status \in {"RUNNING", "CANCELLED"}
  /\ driver[App].pc = "after" => run.status \in {"RUNNING", "WAITING", "CANCELLED"}
  /\ Active(App) => ~run.expired
  /\ (Drives(App) \/ (driver[App].pc = "after" /\ run.status = "RUNNING"))
       => \A s \in Sender : sender[s].pc # "release"

(* A driver is at most one gate ahead of the session, and one that will end
   the run has no gate left. *)
EndInv ==
  /\ \A d \in Driver : Active(d) => driver[d].gate <= passed + 1
  /\ \A d \in Driver : (driver[d].pc = "after" /\ run.status \in Ending) => passed = Gates
  /\ \A d \in Driver : driver[d].pc = "end" => passed = Gates
  /\ \A d \in Driver : driver[d].pc \in {"consume", "answered"} => signal[driver[d].gate].delivered

(* The answer to the gate a run is parked on, or about to be, is unconsumed. *)
WakeInv ==
  /\ \A g \in Gate : signal[g].consumed => signal[g].delivered
  /\ \A d \in Driver : Drives(d) => run.status # "WAITING"
  /\ \A d \in Driver : driver[d].pc = "park" => ~signal[driver[d].gate].consumed
  /\ run.status = "WAITING" => run.gate \in Gate /\ ~signal[run.gate].consumed

RunInv == DriveInv /\ EndInv /\ EndsAnswered /\ WakeInv

(* With a single reactor, two drivers are the application and the reactor. *)
LEMMA Alone ==
  ASSUME OneReactor, DriveInv
  PROVE  OneDriver
  BY DEF OneReactor, DriveInv, OneDriver, Active, Driver

(* The invariant holds before the run is started. *)
LEMMA RunInvInit == Init => RunInv
  BY RunsAssumption DEF Init, RunInv, DriveInv, Drives, EndInv, EndsAnswered,
     WakeInv, Active, Driver, RunOf, SignalOf, At, Idle, Gate

(* Every step of every process keeps the invariant. *)
LEMMA RunInvStep ==
  ASSUME OneReactor, TypeInv, RunInv, [Next]_vars
  PROVE  RunInv'
<1>1. OneDriver
  BY Alone DEF RunInv
<1>2. PICK r : Reactor = {r}
  BY DEF OneReactor
<1> USE RunsAssumption DEF TypeInv, TypeOK, AtGate, RunOf, RunRow, RunStatus,
   SignalOf, At, Idle, DriverState, SenderState, Gate
<1>3. CASE Start
  <2>1. DriveInv'
    BY <1>3, <1>2 DEF Start, RunInv, DriveInv, Drives, Active, Driver
  <2>2. EndInv'
    BY <1>3 DEF Start, RunInv, DriveInv, EndInv, Ending, Active, Driver
  <2>3. EndsAnswered'
    BY <1>3 DEF Start, RunInv, EndInv, EndsAnswered
  <2>4. WakeInv'
    BY <1>3 DEF Start, RunInv, EndInv, WakeInv, Drives, Active
  <2> QED
    BY <2>1, <2>2, <2>3, <2>4 DEF RunInv
<1>4. ASSUME NEW d \in Driver, AwaitSelect(d) PROVE RunInv'
  <2>1. DriveInv'
    BY <1>4, <1>2 DEF AwaitSelect, RunInv, DriveInv, Drives, Active, Driver
  <2>2. EndInv'
    BY <1>4 DEF AwaitSelect, RunInv, DriveInv, EndInv, Ending, Active, Driver
  <2>3. EndsAnswered'
    BY <1>4 DEF AwaitSelect, RunInv, EndInv, EndsAnswered
  <2>4. WakeInv'
    BY <1>4 DEF AwaitSelect, RunInv, EndInv, WakeInv, Drives, Active
  <2> QED
    BY <2>1, <2>2, <2>3, <2>4 DEF RunInv
<1>5. ASSUME NEW d \in Driver, Consume(d) PROVE RunInv'
  <2>1. DriveInv'
    BY <1>5, <1>2 DEF Consume, RunInv, DriveInv, Drives, Active, Driver
  <2>2. EndInv'
    BY <1>5, <1>1 DEF Consume, RunInv, DriveInv, EndInv, Ending, Active, Driver,
       OneDriver
  <2>3. EndsAnswered'
    BY <1>5 DEF Consume, RunInv, EndInv, EndsAnswered
  <2>4. WakeInv'
    <3>1. driver[d].gate \in Gate /\ signal[driver[d].gate].delivered /\ run.status # "WAITING"
      BY <1>5 DEF Consume, RunInv, EndInv, WakeInv, Drives
    <3>2. \A c \in Driver : driver'[c].pc # "park"
      BY <1>5, <1>1 DEF Consume, OneDriver, Active
    <3>3. \A g \in Gate : signal'[g].consumed => signal'[g].delivered
      BY <1>5, <3>1 DEF Consume, RunInv, WakeInv
    <3> QED
      BY <1>5, <3>1, <3>2, <3>3 DEF Consume, WakeInv
  <2> QED
    BY <2>1, <2>2, <2>3, <2>4 DEF RunInv
<1>6. ASSUME NEW d \in Driver, Answer(d) PROVE RunInv'
  <2>1. DriveInv'
    BY <1>6, <1>2 DEF Answer, RunInv, DriveInv, Drives, Active, Driver
  <2>2. EndInv'
    BY <1>6, <1>1 DEF Answer, RunInv, DriveInv, EndInv, Ending, Active, Driver,
       OneDriver
  <2>3. EndsAnswered'
    <3>1. driver[d].gate \in Gate /\ signal[driver[d].gate].delivered /\ driver[d].gate <= passed + 1
      BY <1>6 DEF Answer, RunInv, EndInv, Active
    <3>2. \A g \in 1..passed' : g \in 1..passed \/ g = driver[d].gate
      BY <1>6, <3>1 DEF Answer
    <3>3. passed = Gates => passed' = Gates
      BY <1>6, <3>1 DEF Answer
    <3> QED
      BY <1>6, <3>1, <3>2, <3>3 DEF Answer, RunInv, EndsAnswered
  <2>4. WakeInv'
    BY <1>6, <1>1 DEF Answer, RunInv, EndInv, WakeInv, Drives, Active, OneDriver
  <2> QED
    BY <2>1, <2>2, <2>3, <2>4 DEF RunInv
<1>7. ASSUME NEW d \in Driver, Park(d) PROVE RunInv'
  <2>1. DriveInv'
    BY <1>7, <1>2 DEF Park, ParkedOn, RunInv, DriveInv, Drives, Active, Driver
  <2>2. EndInv'
    BY <1>7, <1>1 DEF Park, ParkedOn, RunInv, DriveInv, EndInv, Ending, Active,
       Driver, OneDriver
  <2>3. EndsAnswered'
    BY <1>7 DEF Park, ParkedOn, RunInv, EndInv, EndsAnswered
  <2>4. WakeInv'
    BY <1>7, <1>1 DEF Park, ParkedOn, RunInv, EndInv, WakeInv, Drives, Active,
       OneDriver
  <2> QED
    BY <2>1, <2>2, <2>3, <2>4 DEF RunInv
<1>8. ASSUME NEW d \in Driver, Finish(d) PROVE RunInv'
  <2>1. DriveInv'
    BY <1>8, <1>2 DEF Finish, RunInv, DriveInv, Drives, Active, Driver
  <2>2. EndInv'
    BY <1>8 DEF Finish, RunInv, DriveInv, EndInv, Ending, Active, Driver
  <2>3. EndsAnswered'
    BY <1>8 DEF Finish, RunInv, EndInv, EndsAnswered
  <2>4. WakeInv'
    BY <1>8 DEF Finish, RunInv, EndInv, WakeInv, Drives, Active
  <2> QED
    BY <2>1, <2>2, <2>3, <2>4 DEF RunInv
<1>9. ASSUME NEW d \in Driver, AfterRun(d) PROVE RunInv'
  <2>1. DriveInv'
    BY <1>9, <1>2 DEF AfterRun, Ending, RunInv, DriveInv, Drives, Active, Driver
  <2>2. EndInv'
    BY <1>9 DEF AfterRun, Ending, RunInv, DriveInv, EndInv, Ending, Active, Driver
  <2>3. EndsAnswered'
    BY <1>9 DEF AfterRun, Ending, RunInv, EndInv, EndsAnswered
  <2>4. WakeInv'
    BY <1>9 DEF AfterRun, Ending, RunInv, EndInv, WakeInv, Drives, Active
  <2> QED
    BY <2>1, <2>2, <2>3, <2>4 DEF RunInv
<1>10. ASSUME NEW d \in Driver, EndRun(d) PROVE RunInv'
  <2>1. DriveInv'
    BY <1>10, <1>2 DEF EndRun, RunInv, DriveInv, Drives, Active, Driver
  <2>2. EndInv'
    BY <1>10 DEF EndRun, RunInv, DriveInv, EndInv, Ending, Active, Driver
  <2>3. EndsAnswered'
    BY <1>10 DEF EndRun, RunInv, EndInv, EndsAnswered
  <2>4. WakeInv'
    BY <1>10 DEF EndRun, RunInv, EndInv, WakeInv, Drives, Active
  <2> QED
    BY <2>1, <2>2, <2>3, <2>4 DEF RunInv
<1>11. ASSUME NEW d \in Driver, Heartbeat(d) PROVE RunInv'
  <2>1. DriveInv'
    BY <1>11, <1>2 DEF Heartbeat, RunInv, DriveInv, Drives, Active, Driver
  <2>2. EndInv'
    BY <1>11, <1>1 DEF Heartbeat, RunInv, DriveInv, EndInv, Ending, Active, Driver,
       OneDriver
  <2>3. EndsAnswered'
    BY <1>11 DEF Heartbeat, RunInv, EndInv, EndsAnswered
  <2>4. WakeInv'
    BY <1>11, <1>1 DEF Heartbeat, RunInv, EndInv, WakeInv, Drives, Active, OneDriver
  <2> QED
    BY <2>1, <2>2, <2>3, <2>4 DEF RunInv
<1>12. ASSUME NEW d \in Driver, CrashDriver(d) PROVE RunInv'
  <2>1. DriveInv'
    BY <1>12, <1>2 DEF CrashDriver, RunInv, DriveInv, Drives, Active, Driver
  <2>2. EndInv'
    BY <1>12 DEF CrashDriver, RunInv, DriveInv, EndInv, Ending, Active, Driver
  <2>3. EndsAnswered'
    BY <1>12 DEF CrashDriver, RunInv, EndInv, EndsAnswered
  <2>4. WakeInv'
    BY <1>12 DEF CrashDriver, RunInv, EndInv, WakeInv, Drives, Active
  <2> QED
    BY <2>1, <2>2, <2>3, <2>4 DEF RunInv
<1>13. ASSUME NEW d \in Reactor, List(d) PROVE RunInv'
  <2>1. DriveInv'
    BY <1>13, <1>2 DEF List, RunInv, DriveInv, Drives, Active, Driver, Recoverable,
       Undisturbed, OneReactor
  <2>2. EndInv'
    BY <1>13 DEF List, RunInv, DriveInv, EndInv, Ending, Active, Driver,
       Undisturbed, OneReactor
  <2>3. EndsAnswered'
    BY <1>13 DEF List, RunInv, EndInv, EndsAnswered
  <2>4. WakeInv'
    BY <1>13 DEF List, RunInv, EndInv, WakeInv, Drives, Active
  <2> QED
    BY <2>1, <2>2, <2>3, <2>4 DEF RunInv
<1>14. ASSUME NEW d \in Reactor, Redrive(d) PROVE RunInv'
  <2>1. DriveInv'
    BY <1>14, <1>2 DEF Redrive, Begun, RunInv, DriveInv, Drives, Active, Driver
  <2>2. EndInv'
    BY <1>14, <1>1, <1>2 DEF Redrive, Begun, RunInv, DriveInv, EndInv, Ending,
       Active, Driver, OneDriver
  <2>3. EndsAnswered'
    BY <1>14 DEF Redrive, Begun, RunInv, EndInv, EndsAnswered
  <2>4. WakeInv'
    BY <1>14, <1>1 DEF Redrive, Begun, RunInv, EndInv, WakeInv, Drives, Active,
       OneDriver
  <2> QED
    BY <2>1, <2>2, <2>3, <2>4 DEF RunInv
<1>15. ASSUME NEW h \in Human, NEW g \in Gate, SendSignal(h, g) PROVE RunInv'
  <2>1. DriveInv'
    BY <1>15, <1>2 DEF SendSignal, Delivered, Sender, RunInv, DriveInv, Drives,
       Active, Driver
  <2>2. EndInv'
    BY <1>15 DEF SendSignal, Delivered, Sender, RunInv, DriveInv, EndInv, Ending,
       Active, Driver
  <2>3. EndsAnswered'
    BY <1>15 DEF SendSignal, Delivered, Sender, RunInv, EndInv, EndsAnswered
  <2>4. WakeInv'
    BY <1>15 DEF SendSignal, Delivered, Sender, RunInv, EndInv, WakeInv, Drives,
       Active
  <2> QED
    BY <2>1, <2>2, <2>3, <2>4 DEF RunInv
<1>16. ASSUME NEW t \in Ticker, NEW g \in Gate, ClaimTimer(t, g) PROVE RunInv'
  <2>1. DriveInv'
    BY <1>16, <1>2 DEF ClaimTimer, Sender, RunInv, DriveInv, Drives, Active, Driver
  <2>2. EndInv'
    BY <1>16 DEF ClaimTimer, Sender, RunInv, DriveInv, EndInv, Ending, Active,
       Driver
  <2>3. EndsAnswered'
    BY <1>16 DEF ClaimTimer, Sender, RunInv, EndInv, EndsAnswered
  <2>4. WakeInv'
    BY <1>16 DEF ClaimTimer, Sender, RunInv, EndInv, WakeInv, Drives, Active
  <2> QED
    BY <2>1, <2>2, <2>3, <2>4 DEF RunInv
<1>17. ASSUME NEW t \in Ticker, GateTimeout(t) PROVE RunInv'
  <2>1. DriveInv'
    BY <1>17, <1>2 DEF GateTimeout, Delivered, Sender, RunInv, DriveInv, Drives,
       Active, Driver
  <2>2. EndInv'
    BY <1>17 DEF GateTimeout, Delivered, Sender, RunInv, DriveInv, EndInv, Ending,
       Active, Driver
  <2>3. EndsAnswered'
    BY <1>17 DEF GateTimeout, Delivered, Sender, RunInv, EndInv, EndsAnswered
  <2>4. WakeInv'
    BY <1>17 DEF GateTimeout, Delivered, Sender, RunInv, EndInv, WakeInv, Drives,
       Active
  <2> QED
    BY <2>1, <2>2, <2>3, <2>4 DEF RunInv
<1>18. ASSUME NEW s \in Sender, Look(s) PROVE RunInv'
  <2>1. DriveInv'
    BY <1>18, <1>2 DEF Look, RunInv, DriveInv, Drives, Active, Driver
  <2>2. EndInv'
    BY <1>18 DEF Look, RunInv, DriveInv, EndInv, Ending, Active, Driver
  <2>3. EndsAnswered'
    BY <1>18 DEF Look, RunInv, EndInv, EndsAnswered
  <2>4. WakeInv'
    BY <1>18 DEF Look, RunInv, EndInv, WakeInv, Drives, Active
  <2> QED
    BY <2>1, <2>2, <2>3, <2>4 DEF RunInv
<1>19. ASSUME NEW s \in Sender, Release(s) PROVE RunInv'
  <2>1. DriveInv'
    BY <1>19, <1>2 DEF Release, RunInv, DriveInv, Drives, Active, Driver,
       Undisturbed, OneReactor
  <2>2. EndInv'
    BY <1>19 DEF Release, RunInv, DriveInv, EndInv, Ending, Active, Driver,
       Undisturbed, OneReactor
  <2>3. EndsAnswered'
    BY <1>19 DEF Release, RunInv, EndInv, EndsAnswered
  <2>4. WakeInv'
    BY <1>19 DEF Release, RunInv, EndInv, WakeInv, Drives, Active
  <2> QED
    BY <2>1, <2>2, <2>3, <2>4 DEF RunInv
<1>20. ASSUME NEW s \in Sender, CrashSender(s) PROVE RunInv'
  <2>1. DriveInv'
    BY <1>20, <1>2 DEF CrashSender, RunInv, DriveInv, Drives, Active, Driver
  <2>2. EndInv'
    BY <1>20 DEF CrashSender, RunInv, DriveInv, EndInv, Ending, Active, Driver
  <2>3. EndsAnswered'
    BY <1>20 DEF CrashSender, RunInv, EndInv, EndsAnswered
  <2>4. WakeInv'
    BY <1>20 DEF CrashSender, RunInv, EndInv, WakeInv, Drives, Active
  <2> QED
    BY <2>1, <2>2, <2>3, <2>4 DEF RunInv
<1>21. CASE Cancel
  <2>1. DriveInv'
    BY <1>21, <1>2 DEF Cancel, RunInv, DriveInv, Drives, Active, Driver
  <2>2. EndInv'
    BY <1>21 DEF Cancel, RunInv, DriveInv, EndInv, Ending, Active, Driver
  <2>3. EndsAnswered'
    BY <1>21 DEF Cancel, RunInv, EndInv, EndsAnswered
  <2>4. WakeInv'
    BY <1>21 DEF Cancel, RunInv, EndInv, WakeInv, Drives, Active
  <2> QED
    BY <2>1, <2>2, <2>3, <2>4 DEF RunInv
<1>22. CASE LeaseExpires
  <2>1. DriveInv'
    BY <1>22, <1>2 DEF LeaseExpires, RunInv, DriveInv, Drives, Active, Driver,
       OneReactor
  <2>2. EndInv'
    BY <1>22 DEF LeaseExpires, RunInv, DriveInv, EndInv, Ending, Active, Driver,
       OneReactor
  <2>3. EndsAnswered'
    BY <1>22 DEF LeaseExpires, RunInv, EndInv, EndsAnswered
  <2>4. WakeInv'
    BY <1>22 DEF LeaseExpires, RunInv, EndInv, WakeInv, Drives, Active
  <2> QED
    BY <2>1, <2>2, <2>3, <2>4 DEF RunInv
<1>23. CASE UNCHANGED vars
  <2>1. DriveInv'
    BY <1>23, <1>2 DEF vars, RunInv, DriveInv, Drives, Active, Driver
  <2>2. EndInv'
    BY <1>23 DEF vars, RunInv, DriveInv, EndInv, Ending, Active, Driver
  <2>3. EndsAnswered'
    BY <1>23 DEF vars, RunInv, EndInv, EndsAnswered
  <2>4. WakeInv'
    BY <1>23 DEF vars, RunInv, EndInv, WakeInv, Drives, Active
  <2> QED
    BY <2>1, <2>2, <2>3, <2>4 DEF RunInv
<1> QED
  BY <1>3, <1>4, <1>5, <1>6, <1>7, <1>8, <1>9, <1>10, <1>11, <1>12, <1>13, <1>14,
     <1>15, <1>16, <1>17, <1>18, <1>19, <1>20, <1>21, <1>22, <1>23
   DEF Next, DriverStep, ReactorStep, TickerStep, SenderStep

(* The invariant of the deployment with one reactor. *)
LEMMA RunInvariant ==
  ASSUME OneReactor
  PROVE  Spec => []RunInv
  BY Typed, RunInvInit, RunInvStep, PTL DEF Spec

(* The run lease keeps recover_once from starting a second drive of a run that
   is being driven: the run is RUNNING under a live lease until its driver has
   parked it and after_run_callback has read it. *)
THEOREM AtMostOneDriver ==
  ASSUME OneReactor
  PROVE  Spec => []OneDriver
<1>1. RunInv => OneDriver
  BY Alone DEF RunInv
<1> QED
  BY <1>1, RunInvariant, PTL

(* after_run_callback ends only runs whose agent has passed all its gates, and
   each of them with a signal. *)
THEOREM EndedIsAnswered ==
  ASSUME OneReactor
  PROVE  Spec => []EndsAnswered
<1>1. RunInv => EndsAnswered
  BY DEF RunInv
<1> QED
  BY <1>1, RunInvariant, PTL

(* A parked run whose gate was signalled is listed by list_runs_to_recover,
   whichever way await_signal and send_signal interleaved. *)
THEOREM WakeupKept ==
  ASSUME OneReactor
  PROVE  Spec => []NoLostWakeup
<1>1. RunInv => NoLostWakeup
  BY DEF RunInv, WakeInv, NoLostWakeup, Recoverable
<1> QED
  BY <1>1, RunInvariant, PTL

=============================================================================
