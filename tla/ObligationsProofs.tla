------------------------- MODULE ObligationsProofs -------------------------
(* Theorems about Obligations, for any sets of processes, any size of the table
   and any values of the bounds. *)
EXTENDS Obligations, TLAPS

(* A worker has a row in its hands unless it is idle. *)
TypeInv ==
  /\ TypeOK
  /\ \A w \in Worker : worker[w].pc = "idle" <=> worker[w].slot = 0

LEMMA TypeInit == Init => TypeInv
BY ObligationsAssumption
DEF Init, TypeInv, TypeOK, NoRow, RowOf, Row, Status, Idle, At, WorkerState, SagaReady, SagaAt,
    SagaState, RunStatus, Slot

LEMMA NoteStuckType ==
  ASSUME saga \in [Saga -> SagaState], NEW w \in Worker, NoteStuck(w) \/ UNCHANGED saga
  PROVE  saga' \in [Saga -> SagaState]
<1>1. CASE w \in Saga /\ NoteStuck(w)
  <2>1. [saga[w] EXCEPT !.stuck = TRUE] \in SagaState
    BY <1>1 DEF SagaState
  <2>2. saga' = [saga EXCEPT ![w] = [saga[w] EXCEPT !.stuck = TRUE]]
    BY <1>1 DEF NoteStuck
  <2> QED
    BY <1>1, <2>1, <2>2
<1>2. CASE UNCHANGED saga
  BY <1>2
<1> QED
  BY <1>1, <1>2 DEF NoteStuck

LEMMA TypeStep == TypeInv /\ [Next]_vars => TypeInv'
<1> SUFFICES ASSUME TypeInv, [Next]_vars PROVE TypeInv'
  OBVIOUS
<1> USE ObligationsAssumption DEF TypeInv, TypeOK
<1>1. ASSUME NEW g \in Registrar, RegistrarStep(g) PROVE TypeInv'
  <2>1. CASE \E e \in Effect : RegisterSelect(g, e)
    BY <2>1 DEF RegisterSelect
  <2>2. CASE \E s \in Slot : RegisterInsert(g, s)
    BY <2>2 DEF RegisterInsert, RowOf, Row, Status
  <2> QED
    BY <1>1, <2>1, <2>2 DEF RegistrarStep
<1>2. ASSUME NEW s \in Slot, BecomesDue(s) PROVE TypeInv'
  BY <1>2 DEF BecomesDue, Row
<1>3. ASSUME NEW s \in Slot, LeaseExpires(s) PROVE TypeInv'
  BY <1>3 DEF LeaseExpires, Row
<1>4. ASSUME NEW d \in Drainer, NEW s \in Slot, Claim(d, s) PROVE TypeInv'
  BY <1>4 DEF Claim, Claimed, RowOf, Row, Status, At, WorkerState, Worker, Slot
<1>5. ASSUME NEW w \in Worker, CompensateOne(w) PROVE TypeInv'
  <2>1. CASE \E found \in BOOLEAN : Resolve(w, found)
    BY <2>1 DEF Resolve, At, WorkerState, Row
  <2>2. CASE Succeed(w)
    BY <2>2 DEF Succeed, At, WorkerState
  <2>3. CASE \E executed \in BOOLEAN : Raise(w, executed)
    BY <2>3 DEF Raise, At, WorkerState
  <2>4. CASE WriteCompensated(w)
    BY <2>4 DEF WriteCompensated, Resolved, RowOf, Row, Status, Idle, At, WorkerState
  <2>5. CASE WriteGivenUp(w)
    <3>1. saga' \in [Saga -> SagaState]
      BY <2>5, NoteStuckType DEF WriteGivenUp
    <3> QED
      BY <2>5, <3>1 DEF WriteGivenUp, Resolved, RowOf, Row, Status, Idle, At, WorkerState
  <2>6. CASE AttemptSelect(w)
    BY <2>6 DEF AttemptSelect, At, WorkerState, Row
  <2>7. CASE AttemptWrite(w)
    <3>1. saga' \in [Saga -> SagaState]
      BY <2>7, NoteStuckType DEF AttemptWrite
    <3> QED
      BY <2>7, <3>1 DEF AttemptWrite, AttemptRecorded, RowOf, Row, Status, Idle, At, WorkerState
  <2> QED
    BY <1>5, <2>1, <2>2, <2>3, <2>4, <2>5, <2>6, <2>7 DEF CompensateOne
<1>6. ASSUME NEW g \in Saga, SagaStart(g) PROVE TypeInv'
  BY <1>6 DEF SagaStart, SagaAt, SagaState, RunStatus
<1>7. ASSUME NEW g \in Saga, SagaStep(g) PROVE TypeInv'
  <2>1. CASE SagaList(g)
    BY <2>1 DEF SagaList, SagaAt, SagaState, RunStatus
  <2>2. CASE \E s \in Slot : SagaClaim(g, s)
    <3>1. PICK s \in Slot : SagaClaim(g, s)
      BY <2>2
    <3>2. saga' \in [Saga -> SagaState]
      BY <3>1 DEF SagaClaim, SagaAt, SagaState, RunStatus
    <3>3. CASE Claimable(ob[s])
      <4>1. ob' = [ob EXCEPT ![s] = Claimed(ob[s])] /\ worker' = [worker EXCEPT ![g] = At("claimed", s, 0, FALSE)]
        BY <3>1, <3>3 DEF SagaClaim
      <4>2. At("claimed", s, 0, FALSE) \in WorkerState /\ Claimed(ob[s]) \in Row
        BY DEF At, WorkerState, Claimed, RowOf, Row, Status
      <4>3. s # 0 /\ g \in Worker
        BY DEF Slot, Worker
      <4> QED
        BY <3>1, <3>2, <4>1, <4>2, <4>3 DEF SagaClaim, At
    <3>4. CASE ~Claimable(ob[s])
      BY <3>1, <3>2, <3>4 DEF SagaClaim
    <3> QED
      BY <3>3, <3>4
  <2>3. CASE SagaCount(g)
    BY <2>3 DEF SagaCount, Verdict, SagaAt, SagaState, RunStatus
  <2>4. CASE SagaEnd(g)
    BY <2>4 DEF SagaEnd, SagaAt, SagaState, RunStatus
  <2> QED
    BY <1>7, <2>1, <2>2, <2>3, <2>4 DEF SagaStep
<1>8. ASSUME NEW w \in Worker, Crash(w) PROVE TypeInv'
  <2>1. saga' \in [Saga -> SagaState]
    <3>1. SagaReady \in SagaState
      BY DEF SagaReady, SagaAt, SagaState, RunStatus
    <3> QED
      BY <1>8, <3>1 DEF Crash
  <2> QED
    BY <1>8, <2>1 DEF Crash, Idle, At, WorkerState
<1>9. CASE UNCHANGED vars
  BY <1>9 DEF vars
<1> QED
  BY <1>1, <1>2, <1>3, <1>4, <1>5, <1>6, <1>7, <1>8, <1>9 DEF Next

(* Rows, counters and process states stay well typed: no handler of the ledger
   writes a status or an attempt count that is not one of its own. *)
THEOREM TypeCorrect == Spec => []TypeOK
<1>1. TypeInv => TypeOK
  BY DEF TypeInv
<1> QED
  BY <1>1, TypeInit, TypeStep, PTL DEF Spec

-----------------------------------------------------------------------------
(* A worker that is about to resolve a row as COMPENSATED has seen the inverse
   run to its end, and reversals are never taken back. *)
RanInv ==
  /\ NeverFalselyCompensated
  /\ \A w \in Worker : worker[w].pc = "resolve" => reversed[worker[w].slot] > 0

LEMMA RanInit == Init => RanInv
BY DEF Init, RanInv, NeverFalselyCompensated, NoRow, RowOf, Idle, At

LEMMA RanStep == TypeInv /\ RanInv /\ [Next]_vars => RanInv'
<1> SUFFICES ASSUME TypeInv, RanInv, [Next]_vars PROVE RanInv'
  OBVIOUS
<1> USE ObligationsAssumption DEF TypeInv, TypeOK, RanInv, NeverFalselyCompensated
<1>1. ASSUME NEW g \in Registrar, RegistrarStep(g) PROVE RanInv'
  BY <1>1 DEF RegistrarStep, RegisterSelect, RegisterInsert, RowOf
<1>2. ASSUME NEW s \in Slot, BecomesDue(s) PROVE RanInv'
  BY <1>2 DEF BecomesDue, Row
<1>3. ASSUME NEW s \in Slot, LeaseExpires(s) PROVE RanInv'
  BY <1>3 DEF LeaseExpires, Row
<1>4. ASSUME NEW d \in Drainer, NEW s \in Slot, Claim(d, s) PROVE RanInv'
  BY <1>4 DEF Claim, Claimed, RowOf, At, Worker
<1>5. ASSUME NEW w \in Worker, CompensateOne(w) PROVE RanInv'
  <2>1. CASE \E found \in BOOLEAN : Resolve(w, found)
    BY <2>1 DEF Resolve, At
  <2>2. CASE Succeed(w)
    BY <2>2 DEF Succeed, At, WorkerState
  <2>3. CASE \E executed \in BOOLEAN : Raise(w, executed)
    BY <2>3 DEF Raise, At, WorkerState
  <2>4. CASE WriteCompensated(w)
    BY <2>4 DEF WriteCompensated, Resolved, RowOf, Idle, At, WorkerState
  <2>5. CASE WriteGivenUp(w)
    BY <2>5 DEF WriteGivenUp, Resolved, RowOf, Idle, At, WorkerState
  <2>6. CASE AttemptSelect(w)
    BY <2>6 DEF AttemptSelect, At
  <2>7. CASE AttemptWrite(w)
    BY <2>7 DEF AttemptWrite, AttemptRecorded, RowOf, Idle, At, WorkerState
  <2> QED
    BY <1>5, <2>1, <2>2, <2>3, <2>4, <2>5, <2>6, <2>7 DEF CompensateOne
<1>6. ASSUME NEW g \in Saga, SagaStart(g) PROVE RanInv'
  BY <1>6 DEF SagaStart
<1>7. ASSUME NEW g \in Saga, SagaStep(g) PROVE RanInv'
  <2>1. CASE SagaList(g)
    BY <2>1 DEF SagaList
  <2>2. CASE \E s \in Slot : SagaClaim(g, s)
    BY <2>2 DEF SagaClaim, Claimed, RowOf, At, Worker
  <2>3. CASE SagaCount(g)
    BY <2>3 DEF SagaCount
  <2>4. CASE SagaEnd(g)
    BY <2>4 DEF SagaEnd
  <2> QED
    BY <1>7, <2>1, <2>2, <2>3, <2>4 DEF SagaStep
<1>8. ASSUME NEW w \in Worker, Crash(w) PROVE RanInv'
  BY <1>8 DEF Crash, Idle, At
<1>9. CASE UNCHANGED vars
  BY <1>9 DEF vars
<1> QED
  BY <1>1, <1>2, <1>3, <1>4, <1>5, <1>6, <1>7, <1>8, <1>9 DEF Next

(* No obligation is ever reported COMPENSATED unless its inverse was executed,
   with any number of drainers and sagas, slow or crashing. *)
THEOREM NeverFalse == Spec => []NeverFalselyCompensated
<1>1. RanInv => NeverFalselyCompensated
  BY DEF RanInv
<1> QED
  BY <1>1, TypeInit, TypeStep, RanInit, RanStep, PTL DEF Spec

-----------------------------------------------------------------------------
(* A worker that has a row in its hands holds a live lease on it and is the only
   one; what it read of the row is still so when it writes. *)
LeaseInv ==
  \A w \in Worker : worker[w].pc # "idle" =>
    /\ ob[worker[w].slot].status = "COMMITTED"
    /\ ~ob[worker[w].slot].expired
    /\ worker[w].pc = "write" => worker[w].tries = ob[worker[w].slot].attempts
    /\ \A v \in Worker : worker[v].slot = worker[w].slot => v = w

LEMMA LeaseInit == Init => LeaseInv
BY DEF Init, LeaseInv, Idle, At

(* claim_obligation gives a row only to a worker that will be its only holder. *)
LEMMA ClaimLease ==
  ASSUME TypeInv, LeaseInv, NEW w \in Worker, NEW s \in Slot, Claimable(ob[s]),
         ob' = [ob EXCEPT ![s] = Claimed(ob[s])],
         worker' = [worker EXCEPT ![w] = At("claimed", s, 0, FALSE)]
  PROVE  LeaseInv'
<1>1. \A v \in Worker : worker[v].slot # s
  BY DEF TypeInv, TypeOK, LeaseInv, Claimable, WorkerState, Slot
<1>2. ob'[s].status = "COMMITTED" /\ ~ob'[s].expired
  BY DEF TypeInv, TypeOK, Claimed, RowOf
<1>3. worker'[w].slot = s /\ worker'[w].pc = "claimed"
  BY DEF TypeInv, TypeOK, At
<1>4. \A v \in Worker \ {w} : worker'[v] = worker[v]
  BY DEF TypeInv, TypeOK
<1>5. \A t \in Slot \ {s} : ob'[t] = ob[t]
  BY DEF TypeInv, TypeOK
<1>6. \A v \in Worker : worker[v].pc # "idle" => worker[v].slot \in Slot \ {s}
  BY <1>1 DEF TypeInv, TypeOK, WorkerState
<1>7. \A v \in Worker : worker'[v].slot = s => v = w
  BY <1>1, <1>4
<1>8. ASSUME NEW v \in Worker \ {w}, worker'[v].pc # "idle"
      PROVE  /\ ob'[worker'[v].slot] = ob[worker[v].slot]
             /\ worker'[v].slot # s
  BY <1>4, <1>5, <1>6, <1>8
<1> SUFFICES ASSUME NEW v \in Worker, worker'[v].pc # "idle"
             PROVE  /\ ob'[worker'[v].slot].status = "COMMITTED"
                    /\ ~ob'[worker'[v].slot].expired
                    /\ worker'[v].pc = "write" => worker'[v].tries = ob'[worker'[v].slot].attempts
                    /\ \A u \in Worker : worker'[u].slot = worker'[v].slot => u = v
  BY DEF LeaseInv
<1>9. CASE v = w
  BY <1>2, <1>3, <1>7, <1>9
<1>10. CASE v # w
  <2>1. worker'[v] = worker[v] /\ ob'[worker'[v].slot] = ob[worker[v].slot] /\ worker'[v].slot # s
    BY <1>4, <1>8, <1>10
  <2>2. worker[v].pc # "idle"
    BY <2>1
  <2>3. \A u \in Worker : worker'[u].slot = worker'[v].slot => u = v
    <3>1. \A u \in Worker : worker[u].slot = worker[v].slot => u = v
      BY <2>2 DEF LeaseInv
    <3>2. \A u \in Worker : u = w \/ worker'[u] = worker[u]
      BY <1>4
    <3> QED
      BY <1>3, <2>1, <3>1, <3>2
  <2> QED
    BY <2>1, <2>2, <2>3 DEF LeaseInv
<1> QED
  BY <1>9, <1>10

LEMMA LeaseStep == ASSUME Prompt, TypeInv, LeaseInv, [Next]_vars PROVE LeaseInv'
<1> USE ObligationsAssumption DEF TypeInv, TypeOK, LeaseInv
<1>1. ASSUME NEW g \in Registrar, RegistrarStep(g) PROVE LeaseInv'
  BY <1>1 DEF RegistrarStep, RegisterSelect, RegisterInsert, RowOf, WorkerState
<1>2. ASSUME NEW s \in Slot, BecomesDue(s) PROVE LeaseInv'
  BY <1>2 DEF BecomesDue, Row, WorkerState
<1>3. ASSUME NEW s \in Slot, LeaseExpires(s) PROVE LeaseInv'
  BY <1>3 DEF LeaseExpires, Row, WorkerState
<1>4. ASSUME NEW d \in Drainer, NEW s \in Slot, Claim(d, s) PROVE LeaseInv'
  BY <1>4, ClaimLease DEF Claim, Worker
<1>5. ASSUME NEW w \in Worker, CompensateOne(w) PROVE LeaseInv'
  <2>1. CASE \E found \in BOOLEAN : Resolve(w, found)
    BY <2>1 DEF Resolve, At, WorkerState
  <2>2. CASE Succeed(w)
    BY <2>2 DEF Succeed, At, WorkerState
  <2>3. CASE \E executed \in BOOLEAN : Raise(w, executed)
    BY <2>3 DEF Raise, At, WorkerState
  <2>4. CASE WriteCompensated(w)
    BY <2>4 DEF WriteCompensated, Resolved, RowOf, Idle, At, WorkerState
  <2>5. CASE WriteGivenUp(w)
    BY <2>5 DEF WriteGivenUp, Resolved, RowOf, Idle, At, WorkerState
  <2>6. CASE AttemptSelect(w)
    BY <2>6 DEF AttemptSelect, At, WorkerState
  <2>7. CASE AttemptWrite(w)
    BY <2>7 DEF AttemptWrite, AttemptRecorded, RowOf, Idle, At, WorkerState
  <2> QED
    BY <1>5, <2>1, <2>2, <2>3, <2>4, <2>5, <2>6, <2>7 DEF CompensateOne
<1>6. ASSUME NEW g \in Saga, SagaStart(g) PROVE LeaseInv'
  BY <1>6 DEF SagaStart
<1>7. ASSUME NEW g \in Saga, SagaStep(g) PROVE LeaseInv'
  <2>1. CASE SagaList(g)
    BY <2>1 DEF SagaList
  <2>2. CASE \E s \in Slot : SagaClaim(g, s)
    <3>1. PICK s \in Slot : SagaClaim(g, s)
      BY <2>2
    <3>2. CASE Claimable(ob[s])
      BY <3>1, <3>2, ClaimLease DEF SagaClaim, Worker
    <3>3. CASE ~Claimable(ob[s])
      <4>1. UNCHANGED <<ob, worker>>
        BY <3>1, <3>3 DEF SagaClaim
      <4> QED
        BY <4>1
    <3> QED
      BY <3>2, <3>3
  <2>3. CASE SagaCount(g)
    BY <2>3 DEF SagaCount
  <2>4. CASE SagaEnd(g)
    BY <2>4 DEF SagaEnd
  <2> QED
    BY <1>7, <2>1, <2>2, <2>3, <2>4 DEF SagaStep
<1>8. ASSUME NEW w \in Worker, Crash(w) PROVE LeaseInv'
  BY <1>8 DEF Crash, Idle, At, WorkerState
<1>9. CASE UNCHANGED vars
  BY <1>9 DEF vars
<1> QED
  BY <1>1, <1>2, <1>3, <1>4, <1>5, <1>6, <1>7, <1>8, <1>9 DEF Next

(* Nobody writes a row that is COMPENSATED or STUCK, except to let time pass. *)
LEMMA TerminalStep ==
  ASSUME TypeInv, LeaseInv, [Next]_vars, NEW s \in Slot, ob[s].status \in Terminal
  PROVE  ob'[s].status = ob[s].status
<1> USE DEF TypeInv, TypeOK, LeaseInv, Terminal
<1>1. ASSUME NEW g \in Registrar, RegistrarStep(g) PROVE ob'[s].status = ob[s].status
  BY <1>1 DEF RegistrarStep, RegisterSelect, RegisterInsert
<1>2. ASSUME NEW t \in Slot, BecomesDue(t) PROVE ob'[s].status = ob[s].status
  BY <1>2 DEF BecomesDue, Row
<1>3. ASSUME NEW t \in Slot, LeaseExpires(t) PROVE ob'[s].status = ob[s].status
  BY <1>3 DEF LeaseExpires, Row
<1>4. ASSUME NEW d \in Drainer, NEW t \in Slot, Claim(d, t) PROVE ob'[s].status = ob[s].status
  BY <1>4 DEF Claim, Claimable
<1>5. ASSUME NEW w \in Worker, CompensateOne(w) PROVE ob'[s].status = ob[s].status
  BY <1>5 DEF CompensateOne, Resolve, Succeed, Raise, WriteCompensated, WriteGivenUp, AttemptSelect,
              AttemptWrite, WorkerState
<1>6. ASSUME NEW g \in Saga, SagaStart(g) \/ SagaStep(g) PROVE ob'[s].status = ob[s].status
  BY <1>6 DEF SagaStart, SagaStep, SagaList, SagaClaim, Claimable, SagaCount, SagaEnd
<1>7. ASSUME NEW w \in Worker, Crash(w) PROVE ob'[s].status = ob[s].status
  BY <1>7 DEF Crash
<1>8. CASE UNCHANGED vars
  BY <1>8 DEF vars
<1> QED
  BY <1>1, <1>2, <1>3, <1>4, <1>5, <1>6, <1>7, <1>8 DEF Next

(* When a lease outlives the inverse run under it, COMPENSATED and STUCK are final.
   Without it the late report of a drainer overwrites what its successor recorded. *)
THEOREM TerminalIsFinal == Prompt /\ Spec => TerminalStays
<1>1. ASSUME Prompt PROVE Spec => TerminalStays
  <2>1. TypeInv /\ LeaseInv /\ [Next]_vars => LeaseInv'
    BY <1>1, LeaseStep
  <2>2. TypeInv /\ LeaseInv /\ [Next]_vars =>
          [\A s \in Slot : ob[s].status \in Terminal => ob'[s].status = ob[s].status]_vars
    BY TerminalStep
  <2> QED
    BY <2>1, <2>2, TypeInit, TypeStep, LeaseInit, PTL DEF Spec, TerminalStays
<1> QED
  BY <1>1

-----------------------------------------------------------------------------
(* How the executions of an inverse add up: one per recorded attempt and per
   crash, and one more while an execution has not been reported yet or when the
   obligation is COMPENSATED. *)
Unreported(s) ==
  \E w \in Worker : worker[w].slot = s /\ worker[w].pc \in {"resolve", "select", "write"}

Counted(s) ==
  /\ ob[s].status = "NONE" => ob[s].attempts = 0
  /\ reversed[s] <= ob[s].attempts + crashes + 1
  /\ ob[s].status # "COMPENSATED" /\ ~Unreported(s) => reversed[s] <= ob[s].attempts + crashes

CountInv == \A s \in Slot : Counted(s)

LEMMA CountInit == Init => CountInv
BY DEF Init, CountInv, Counted, NoRow, RowOf

LEMMA CountStep ==
  ASSUME TypeInv, LeaseInv, CountInv, [Next]_vars
  PROVE  CountInv'
<1> USE ObligationsAssumption DEF TypeInv, TypeOK, CountInv, Counted
<1>1. ASSUME NEW g \in Registrar, RegistrarStep(g) PROVE CountInv'
  BY <1>1 DEF RegistrarStep, RegisterSelect, RegisterInsert, RowOf, Row, Unreported
<1>2. ASSUME NEW s \in Slot, BecomesDue(s) PROVE CountInv'
  BY <1>2 DEF BecomesDue, Row, Unreported
<1>3. ASSUME NEW s \in Slot, LeaseExpires(s) PROVE CountInv'
  BY <1>3 DEF LeaseExpires, Row, Unreported
<1>4. ASSUME NEW d \in Drainer, NEW s \in Slot, Claim(d, s) PROVE CountInv'
  BY <1>4 DEF Claim, Claimable, Claimed, RowOf, Row, At, Worker, WorkerState, Unreported
<1>5. ASSUME NEW w \in Worker, CompensateOne(w) PROVE CountInv'
  <2>1. CASE \E found \in BOOLEAN : Resolve(w, found)
    BY <2>1 DEF Resolve, At, WorkerState, Unreported
  <2>2. CASE Succeed(w)
    BY <2>2 DEF Succeed, At, WorkerState, Unreported, LeaseInv, Row
  <2>3. CASE \E executed \in BOOLEAN : Raise(w, executed)
    <3>1. CASE Raise(w, TRUE)
      <4>1. PICK s \in Slot : s = worker[w].slot
        BY <3>1 DEF Raise, WorkerState
      <4>2. ob[s].status = "COMMITTED" /\ ~Unreported(s)
        BY <3>1, <4>1 DEF Raise, Unreported, LeaseInv
      <4>3. reversed' = [reversed EXCEPT ![s] = @ + 1] /\ UNCHANGED <<ob, crashes>>
        BY <3>1, <4>1 DEF Raise
      <4>4. \A t \in Slot : Unreported(t) => Unreported(t)'
        BY <3>1 DEF Raise, At, WorkerState, Unreported
      <4>5. Unreported(s)'
        BY <3>1, <4>1 DEF Raise, At, WorkerState, Unreported
      <4>6. Counted(s)'
        BY <4>2, <4>3, <4>5 DEF Row
      <4>7. ASSUME NEW t \in Slot \ {s} PROVE Counted(t)'
        BY <4>3, <4>4
      <4> QED
        BY <4>6, <4>7
    <3>2. CASE Raise(w, FALSE)
      BY <3>2 DEF Raise, At, WorkerState, Unreported, LeaseInv, Row
    <3> QED
      BY <2>3, <3>1, <3>2
  <2>4. CASE WriteCompensated(w)
    BY <2>4 DEF WriteCompensated, Resolved, RowOf, Idle, At, WorkerState, Unreported, Row
  <2>5. CASE WriteGivenUp(w)
    BY <2>5 DEF WriteGivenUp, Resolved, RowOf, Idle, At, WorkerState, Unreported, LeaseInv, Row
  <2>6. CASE AttemptSelect(w)
    BY <2>6 DEF AttemptSelect, At, WorkerState, Unreported
  <2>7. CASE AttemptWrite(w)
    <3>1. PICK s \in Slot : s = worker[w].slot
      BY <2>7 DEF AttemptWrite, WorkerState
    <3>2. ob' = [ob EXCEPT ![s] = AttemptRecorded(ob[s], worker[w].tries, worker[w].final)]
      BY <2>7, <3>1 DEF AttemptWrite
    <3>3. ob'[s].attempts = ob[s].attempts + 1 /\ ob'[s].status \in {"PENDING", "STUCK"}
      BY <2>7, <3>1, <3>2 DEF AttemptRecorded, RowOf, LeaseInv, AttemptWrite
    <3>4. \A t \in Slot \ {s} : Unreported(t) => Unreported(t)'
      BY <2>7, <3>1 DEF AttemptWrite, WorkerState, Unreported
    <3>5. UNCHANGED <<reversed, crashes>>
      BY <2>7 DEF AttemptWrite
    <3>6. Counted(s)'
      BY <3>3, <3>5 DEF Row
    <3>7. ASSUME NEW t \in Slot \ {s} PROVE Counted(t)'
      BY <3>2, <3>4, <3>5
    <3> QED
      BY <3>6, <3>7
  <2> QED
    BY <1>5, <2>1, <2>2, <2>3, <2>4, <2>5, <2>6, <2>7 DEF CompensateOne
<1>6. ASSUME NEW g \in Saga, SagaStart(g) PROVE CountInv'
  BY <1>6 DEF SagaStart, Unreported
<1>7. ASSUME NEW g \in Saga, SagaStep(g) PROVE CountInv'
  <2>1. CASE SagaList(g)
    BY <2>1 DEF SagaList, Unreported
  <2>2. CASE \E s \in Slot : SagaClaim(g, s)
    <3>1. PICK s \in Slot : SagaClaim(g, s)
      BY <2>2
    <3>2. CASE Claimable(ob[s])
      <4>1. ob' = [ob EXCEPT ![s] = Claimed(@)] /\ reversed' = reversed /\ crashes' = crashes
        BY <3>1, <3>2 DEF SagaClaim
      <4>2. ob[s].status \in {"PENDING", "COMMITTED"}
        BY <3>2 DEF Claimable
      <4>3. worker[g].pc = "idle" /\ \A w \in Worker \ {g} : worker'[w] = worker[w]
        BY <3>1, <3>2 DEF SagaClaim, Worker
      <4>4. ASSUME NEW t \in Slot, Unreported(t) PROVE Unreported(t)'
        BY <4>3, <4>4 DEF Unreported
      <4>5. \A t \in Slot : /\ ob'[t].attempts = ob[t].attempts
                            /\ ob'[t].status # "COMPENSATED" => ob[t].status # "COMPENSATED"
                            /\ ob'[t].status # "NONE" \/ ob'[t].status = ob[t].status
        BY <4>1, <4>2 DEF Claimed, RowOf
      <4> QED
        BY <4>1, <4>4, <4>5
    <3>3. CASE ~Claimable(ob[s])
      BY <3>1, <3>3 DEF SagaClaim, Unreported
    <3> QED
      BY <3>2, <3>3
  <2>3. CASE SagaCount(g)
    BY <2>3 DEF SagaCount, Unreported
  <2>4. CASE SagaEnd(g)
    BY <2>4 DEF SagaEnd, Unreported
  <2> QED
    BY <1>7, <2>1, <2>2, <2>3, <2>4 DEF SagaStep
<1>8. ASSUME NEW w \in Worker, Crash(w) PROVE CountInv'
  BY <1>8 DEF Crash, Idle, At, WorkerState, Unreported, Row
<1>9. CASE UNCHANGED vars
  BY <1>9 DEF vars, Unreported
<1> QED
  BY <1>1, <1>2, <1>3, <1>4, <1>5, <1>6, <1>7, <1>8, <1>9 DEF Next

(* When leases are Prompt the inverse of an obligation is executed at most once
   more than attempts were recorded and processes crashed. *)
THEOREM ReversalsAreAccounted == Prompt /\ Spec => []ReversalsAccounted
<1>1. CountInv => ReversalsAccounted
  BY DEF CountInv, Counted, ReversalsAccounted
<1>2. ASSUME Prompt PROVE Spec => []ReversalsAccounted
  <2>1. TypeInv /\ LeaseInv /\ [Next]_vars => LeaseInv'
    BY <1>2, LeaseStep
  <2>2. TypeInv /\ LeaseInv /\ CountInv /\ [Next]_vars => CountInv'
    BY CountStep
  <2> QED
    BY <1>1, <2>1, <2>2, TypeInit, TypeStep, LeaseInit, CountInit, PTL DEF Spec
<1> QED
  BY <1>2

-----------------------------------------------------------------------------
(* A run, a saga's verdict and a saga's note of a stuck row all go back to a row
   that is STUCK now. *)
SomeStuck == \E s \in Slot : ob[s].status = "STUCK"

StuckInv ==
  /\ StuckIsReal
  /\ \A g \in Saga : saga[g].stuck \/ saga[g].verdict = "STUCK" => SomeStuck

LEMMA StuckInit == Init => StuckInv
BY DEF Init, StuckInv, StuckIsReal, SagaReady, SagaAt

(* What a saga holds against the run is new only when a row became STUCK. *)
LEMMA SagaNotes ==
  ASSUME TypeInv, StuckInv, [Next]_vars, NEW g \in Saga,
         saga'[g].stuck \/ saga'[g].verdict = "STUCK"
  PROVE  SomeStuck \/ SomeStuck'
<1> USE ObligationsAssumption DEF TypeInv, TypeOK, StuckInv
<1>1. CASE saga'[g] = saga[g]
  BY <1>1
<1>2. ASSUME NEW w \in Worker, WriteGivenUp(w) PROVE SomeStuck'
  <2>1. PICK s \in Slot : s = worker[w].slot
    BY <1>2 DEF WriteGivenUp, WorkerState
  <2>2. ob'[s].status = "STUCK"
    BY <1>2, <2>1 DEF WriteGivenUp, Resolved, RowOf
  <2> QED
    BY <2>2 DEF SomeStuck
<1>3. ASSUME NEW w \in Worker, AttemptWrite(w) PROVE saga'[g] = saga[g] \/ SomeStuck'
  <2>1. PICK s \in Slot : s = worker[w].slot
    BY <1>3 DEF AttemptWrite, WorkerState
  <2>2. saga' = saga \/ ob'[s].status = "STUCK"
    BY <1>3, <2>1 DEF AttemptWrite
  <2> QED
    BY <2>2 DEF SomeStuck
<1>4. ASSUME NEW w \in Worker, CompensateOne(w)
      PROVE  saga'[g] = saga[g] \/ WriteGivenUp(w) \/ AttemptWrite(w)
  <2>1. CASE \E found \in BOOLEAN : Resolve(w, found)
    BY <2>1 DEF Resolve
  <2>2. CASE \E executed \in BOOLEAN : Raise(w, executed)
    BY <2>2 DEF Raise
  <2>3. CASE Succeed(w)
    BY <2>3 DEF Succeed
  <2>4. CASE WriteCompensated(w)
    BY <2>4 DEF WriteCompensated
  <2>5. CASE AttemptSelect(w)
    BY <2>5 DEF AttemptSelect
  <2> QED
    BY <1>4, <2>1, <2>2, <2>3, <2>4, <2>5 DEF CompensateOne
<1>5. ASSUME NEW w \in Worker, Crash(w) PROVE SomeStuck \/ SomeStuck'
  BY <1>5 DEF Crash, SagaReady, SagaAt
<1>6. ASSUME NEW h \in Saga, SagaStart(h) PROVE SomeStuck \/ SomeStuck'
  BY <1>6 DEF SagaStart, SagaAt
<1>7. ASSUME NEW h \in Saga, SagaStep(h) PROVE SomeStuck \/ SomeStuck'
  <2>1. CASE SagaList(h)
    BY <2>1 DEF SagaList, SagaAt
  <2>2. CASE \E s \in Slot : SagaClaim(h, s)
    BY <2>2 DEF SagaClaim, SagaAt
  <2>3. CASE SagaCount(h)
    BY <2>3 DEF SagaCount, SagaAt, Verdict
  <2>4. CASE SagaEnd(h)
    BY <2>4 DEF SagaEnd, SagaAt
  <2> QED
    BY <1>7, <2>1, <2>2, <2>3, <2>4 DEF SagaStep
<1>8. ASSUME NEW h \in Registrar, RegistrarStep(h) PROVE saga' = saga
  <2>1. CASE \E e \in Effect : RegisterSelect(h, e)
    BY <2>1 DEF RegisterSelect
  <2>2. CASE \E s \in Slot : RegisterInsert(h, s)
    BY <2>2 DEF RegisterInsert
  <2> QED
    BY <1>8, <2>1, <2>2 DEF RegistrarStep
<1>9. ASSUME NEW s \in Slot, BecomesDue(s) \/ LeaseExpires(s) PROVE saga' = saga
  BY <1>9 DEF BecomesDue, LeaseExpires
<1>10. ASSUME NEW d \in Drainer, NEW s \in Slot, Claim(d, s) PROVE saga' = saga
  BY <1>10 DEF Claim
<1>11. CASE UNCHANGED vars
  BY <1>1, <1>11 DEF vars
<1> QED
  BY <1>1, <1>2, <1>3, <1>4, <1>5, <1>6, <1>7, <1>8, <1>9, <1>10, <1>11 DEF Next

(* Only the end of compensate_run makes a run STUCK. *)
LEMMA VerdictWritten ==
  ASSUME [Next]_vars, run' = "STUCK", run # "STUCK"
  PROVE  \E g \in Saga : SagaEnd(g)
<1>1. ASSUME NEW h \in Registrar, RegistrarStep(h) PROVE FALSE
  <2>1. CASE \E e \in Effect : RegisterSelect(h, e)
    BY <2>1 DEF RegisterSelect
  <2>2. CASE \E s \in Slot : RegisterInsert(h, s)
    BY <2>2 DEF RegisterInsert
  <2> QED
    BY <1>1, <2>1, <2>2 DEF RegistrarStep
<1>2. ASSUME NEW s \in Slot, BecomesDue(s) \/ LeaseExpires(s) PROVE FALSE
  BY <1>2 DEF BecomesDue, LeaseExpires
<1>3. ASSUME NEW d \in Drainer, NEW s \in Slot, Claim(d, s) PROVE FALSE
  BY <1>3 DEF Claim
<1>4. ASSUME NEW w \in Worker, CompensateOne(w) PROVE FALSE
  <2>1. CASE \E found \in BOOLEAN : Resolve(w, found)
    BY <2>1 DEF Resolve
  <2>2. CASE \E executed \in BOOLEAN : Raise(w, executed)
    BY <2>2 DEF Raise
  <2>3. CASE Succeed(w)
    BY <2>3 DEF Succeed
  <2>4. CASE WriteCompensated(w)
    BY <2>4 DEF WriteCompensated
  <2>5. CASE WriteGivenUp(w)
    BY <2>5 DEF WriteGivenUp
  <2>6. CASE AttemptSelect(w)
    BY <2>6 DEF AttemptSelect
  <2>7. CASE AttemptWrite(w)
    BY <2>7 DEF AttemptWrite
  <2> QED
    BY <1>4, <2>1, <2>2, <2>3, <2>4, <2>5, <2>6, <2>7 DEF CompensateOne
<1>5. ASSUME NEW w \in Worker, Crash(w) PROVE FALSE
  BY <1>5 DEF Crash
<1>6. ASSUME NEW g \in Saga, SagaStart(g) PROVE FALSE
  BY <1>6 DEF SagaStart
<1>7. ASSUME NEW g \in Saga, SagaStep(g), ~SagaEnd(g) PROVE FALSE
  <2>1. CASE SagaList(g)
    BY <2>1 DEF SagaList
  <2>2. CASE \E s \in Slot : SagaClaim(g, s)
    BY <2>2 DEF SagaClaim
  <2>3. CASE SagaCount(g)
    BY <2>3 DEF SagaCount
  <2> QED
    BY <1>7, <2>1, <2>2, <2>3 DEF SagaStep
<1>8. CASE UNCHANGED vars
  BY <1>8 DEF vars
<1> QED
  BY <1>1, <1>2, <1>3, <1>4, <1>5, <1>6, <1>7, <1>8 DEF Next

LEMMA StuckStep == ASSUME TypeInv, LeaseInv, StuckInv, [Next]_vars PROVE StuckInv'
<1>1. SomeStuck => SomeStuck'
  BY TerminalStep DEF SomeStuck, Terminal
<1>2. ASSUME NEW g \in Saga, saga'[g].stuck \/ saga'[g].verdict = "STUCK" PROVE SomeStuck'
  BY <1>1, <1>2, SagaNotes
<1>3. ASSUME run' = "STUCK" PROVE SomeStuck'
  <2>1. CASE run = "STUCK"
    BY <1>1, <2>1 DEF StuckInv, StuckIsReal, SomeStuck
  <2>2. CASE run # "STUCK"
    <3>1. PICK g \in Saga : SagaEnd(g)
      BY <1>3, <2>2, VerdictWritten
    <3> QED
      BY <1>1, <1>3, <3>1 DEF SagaEnd, StuckInv
  <2> QED
    BY <2>1, <2>2
<1> QED
  BY <1>2, <1>3 DEF StuckInv, StuckIsReal, SomeStuck

(* When leases outlive the inverses, a run that any compensate_run leaves STUCK has a
   STUCK obligation for as long as it stays so, whatever the other sagas and drainers
   do to the rows before and after the verdict is written. *)
THEOREM StuckHasARow == Prompt /\ Spec => []StuckIsReal
<1>1. ASSUME Prompt PROVE Spec => []StuckIsReal
  <2>1. TypeInv /\ LeaseInv /\ [Next]_vars => LeaseInv'
    BY <1>1, LeaseStep
  <2>2. TypeInv /\ LeaseInv /\ StuckInv /\ [Next]_vars => StuckInv'
    BY StuckStep
  <2>3. StuckInv => StuckIsReal
    BY DEF StuckInv
  <2> QED
    BY <2>1, <2>2, <2>3, TypeInit, TypeStep, LeaseInit, StuckInit, PTL DEF Spec
<1> QED
  BY <1>1

-----------------------------------------------------------------------------
(* An effect that a registrar found no row for still has none when it inserts. *)
RegisterInv ==
  /\ OneObligation
  /\ \A g \in Registrar : reg[g] # None => \A s \in Slot : ob[s].effect # reg[g]

LEMMA RegisterInit == Init => RegisterInv
BY DEF Init, RegisterInv, OneObligation, NoRow, RowOf

(* Only the INSERT of register_compensation says which effect a row is for. *)
LEMMA EffectsKept ==
  ASSUME TypeInv, [Next]_vars, ~\E g \in Registrar : RegistrarStep(g), NEW s \in Slot
  PROVE  ob'[s].effect = ob[s].effect /\ reg' = reg
<1> USE DEF TypeInv, TypeOK
<1>1. ASSUME NEW t \in Slot, BecomesDue(t) \/ LeaseExpires(t) PROVE ob'[s].effect = ob[s].effect /\ reg' = reg
  BY <1>1 DEF BecomesDue, LeaseExpires, Row
<1>2. ASSUME NEW d \in Drainer, NEW t \in Slot, Claim(d, t) PROVE ob'[s].effect = ob[s].effect /\ reg' = reg
  BY <1>2 DEF Claim, Claimed, RowOf
<1>3. ASSUME NEW w \in Worker, CompensateOne(w) PROVE ob'[s].effect = ob[s].effect /\ reg' = reg
  <2>1. CASE \E found \in BOOLEAN : Resolve(w, found)
    BY <2>1 DEF Resolve
  <2>2. CASE \E executed \in BOOLEAN : Raise(w, executed)
    BY <2>2 DEF Raise
  <2>3. CASE Succeed(w)
    BY <2>3 DEF Succeed
  <2>4. CASE WriteCompensated(w)
    BY <2>4 DEF WriteCompensated, Resolved, RowOf
  <2>5. CASE WriteGivenUp(w)
    BY <2>5 DEF WriteGivenUp, Resolved, RowOf
  <2>6. CASE AttemptSelect(w)
    BY <2>6 DEF AttemptSelect
  <2>7. CASE AttemptWrite(w)
    BY <2>7 DEF AttemptWrite, AttemptRecorded, RowOf
  <2> QED
    BY <1>3, <2>1, <2>2, <2>3, <2>4, <2>5, <2>6, <2>7 DEF CompensateOne
<1>4. ASSUME NEW g \in Saga, SagaStart(g) \/ SagaStep(g) PROVE ob'[s].effect = ob[s].effect /\ reg' = reg
  <2>1. CASE SagaStart(g)
    BY <2>1 DEF SagaStart
  <2>2. CASE SagaList(g)
    BY <2>2 DEF SagaList
  <2>3. CASE \E t \in Slot : SagaClaim(g, t)
    <3>1. PICK t \in Slot : SagaClaim(g, t)
      BY <2>3
    <3>2. reg' = reg
      BY <3>1 DEF SagaClaim
    <3>3. CASE Claimable(ob[t])
      <4>1. ob' = [ob EXCEPT ![t] = Claimed(ob[t])]
        BY <3>1, <3>3 DEF SagaClaim
      <4> QED
        BY <3>2, <4>1 DEF Claimed, RowOf
    <3>4. CASE ~Claimable(ob[t])
      <4>1. ob' = ob
        BY <3>1, <3>4 DEF SagaClaim
      <4> QED
        BY <3>2, <4>1
    <3> QED
      BY <3>3, <3>4
  <2>4. CASE SagaCount(g) \/ SagaEnd(g)
    BY <2>4 DEF SagaCount, SagaEnd
  <2> QED
    BY <1>4, <2>1, <2>2, <2>3, <2>4 DEF SagaStep
<1>5. ASSUME NEW w \in Worker, Crash(w) PROVE ob'[s].effect = ob[s].effect /\ reg' = reg
  BY <1>5 DEF Crash
<1>6. CASE UNCHANGED vars
  BY <1>6 DEF vars
<1> QED
  BY <1>1, <1>2, <1>3, <1>4, <1>5, <1>6 DEF Next

LEMMA RegisterStep ==
  ASSUME \A g, h \in Registrar : g = h, TypeInv, RegisterInv, [Next]_vars
  PROVE  RegisterInv'
<1> USE DEF TypeInv, TypeOK, RegisterInv, OneObligation
<1>1. ASSUME NEW g \in Registrar, NEW e \in Effect, RegisterSelect(g, e) PROVE RegisterInv'
  BY <1>1 DEF RegisterSelect
<1>2. ASSUME NEW g \in Registrar, NEW s \in Slot, RegisterInsert(g, s) PROVE RegisterInv'
  <2>1. \A h \in Registrar : reg'[h] = None
    BY <1>2 DEF RegisterInsert
  <2>2. ob'[s].effect = reg[g] /\ \A t \in Slot \ {s} : ob'[t] = ob[t]
    BY <1>2 DEF RegisterInsert, RowOf
  <2>3. \A t \in Slot : ob[t].effect # reg[g]
    BY <1>2 DEF RegisterInsert
  <2> QED
    BY <2>1, <2>2, <2>3
<1>3. CASE ~\E g \in Registrar : RegistrarStep(g)
  <2>1. \A s \in Slot : ob'[s].effect = ob[s].effect
    BY <1>3, EffectsKept
  <2>2. CASE Slot = {}
    BY <2>2 DEF RegisterInv
  <2>3. CASE Slot # {}
    <3>1. reg' = reg
      BY <1>3, <2>3, EffectsKept
    <3> QED
      BY <2>1, <3>1
  <2> QED
    BY <2>2, <2>3
<1> QED
  BY <1>1, <1>2, <1>3 DEF RegistrarStep

(* Where one process at a time registers compensations, register_compensation is
   idempotent: its SELECT and its INSERT leave an effect with one row for good. *)
THEOREM OneRowPerEffect ==
  (\A g, h \in Registrar : g = h) /\ Spec => []OneObligation
<1>1. ASSUME \A g, h \in Registrar : g = h PROVE Spec => []OneObligation
  <2>1. TypeInv /\ RegisterInv /\ [Next]_vars => RegisterInv'
    BY <1>1, RegisterStep
  <2>2. RegisterInv => OneObligation
    BY DEF RegisterInv
  <2> QED
    BY <2>1, <2>2, TypeInit, TypeStep, RegisterInit, PTL DEF Spec
<1> QED
  BY <1>1

=============================================================================
