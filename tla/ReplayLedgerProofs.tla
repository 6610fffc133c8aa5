------------------------- MODULE ReplayLedgerProofs -------------------------
(* Theorems about Replay: the ledger of effects against the session, and the inverses
   of compensable calls. *)
EXTENDS ReplayProofs

-----------------------------------------------------------------------------

(* The tool of a saved call. *)
ToolOf(f) == Replied(calls[f].reply)

(* A row has a response only when it is CONFIRMED; it is of a tool that
   begin_effect does not refuse and the run may use; while its call is unanswered
   the budget still admits, so that a re-drive does not deny what the ledger
   knows. *)
RowSound(f) ==
  /\ rows[f].response # None => rows[f].status = "CONFIRMED"
  /\ ~Refused(ToolOf(f)) /\ InScope(ToolOf(f))
  /\ calls[f].answer = None => Admitted

(* All rows are so. *)
RowsInv == \A f \in DOMAIN rows : RowSound(f)

(* What a step does to the ledger. *)
RowMoves ==
  \/ rows' = rows
  \/ /\ pc = "tool" /\ Len(calls) \notin DOMAIN rows /\ calls' = calls /\ spent' = spent
     /\ rows' = Put(rows, Len(calls), [status |-> "PENDING", response |-> None])
     /\ Admitted /\ InScope(CurrentTool) /\ ~Refused(CurrentTool)
  \/ /\ pc = "ran" /\ stash # None /\ calls' = calls /\ spent' = spent
     /\ rows' = [rows EXCEPT ![stash] = [status |-> "CONFIRMED", response |-> result]]
  \/ /\ pc = "body" /\ stash # None /\ calls' = calls /\ spent' = spent
     /\ \E status \in {"FAILED", "UNKNOWN"} : rows' = [rows EXCEPT ![stash] = [status |-> status, response |-> None]]
  \/ /\ calls' = calls /\ spent' = spent
     /\ \E f \in DOMAIN rows, status \in {"CONFIRMED", "FAILED", "UNKNOWN"} :
          rows[f].status = "PENDING" /\ rows' = [rows EXCEPT ![f].status = status]

(* Every step does one of those. *)
LEMMA RowsMoved ==
  ASSUME Writes
  PROVE  RowMoves
<1>1. CASE BeginEffect
  <2>1. /\ pc = "tool" /\ calls' = calls /\ spent' = spent /\ rows' = Begun
        /\ Admitted /\ InScope(CurrentTool) /\ ~Refused(CurrentTool)
    BY <1>1, Zenon DEF BeginEffect, Goes
  <2> QED
    BY <2>1 DEF RowMoves, Begun, Current
<1>2. CASE CompleteEffect
  <2>1. /\ pc = "ran" /\ calls' = calls /\ spent' = spent
        /\ rows' = rows \/ rows' = Completed("CONFIRMED", result)
    BY <1>2 DEF CompleteEffect
  <2> QED
    BY <2>1 DEF RowMoves, Completed
<1>3. ASSUME NEW status \in {"FAILED", "UNKNOWN"}, BodyFails(status) PROVE RowMoves
  <2>1. /\ pc = "body" /\ calls' = calls /\ spent' = spent
        /\ rows' = rows \/ rows' = Completed(status, None)
    BY <1>3 DEF BodyFails
  <2> QED
    BY <2>1 DEF RowMoves, Completed
<1>4. ASSUME NEW f \in DOMAIN rows, NEW status \in {"CONFIRMED", "FAILED", "UNKNOWN"}, Dispatched(f, status)
      PROVE RowMoves
  <2>1. /\ calls' = calls /\ spent' = spent
        /\ rows[f].status = "PENDING" /\ rows' = [rows EXCEPT ![f].status = status]
    BY <1>4 DEF Dispatched
  <2> QED
    BY <2>1, Zenon DEF RowMoves
<1>5. CASE rows' = rows
  BY <1>5 DEF RowMoves
<1> QED
  BY <1>1, <1>2, <1>3, <1>4, <1>5, Zenon DEF Writes

(* What the session and the budget do to a row that is there: the budget is
   charged only between calls. *)
LEMMA OldRowSound ==
  ASSUME TypeInv, Writes, SessionGrows, RowsInv, NEW f \in DOMAIN rows, [Next]_vars
  PROVE  /\ ~Refused(ToolOf(f)') /\ InScope(ToolOf(f)')
         /\ calls'[f].answer = None => Admitted'
<1>1. f \in DOMAIN calls /\ calls[f].reply \in DOMAIN replies
  BY DEF TypeInv, RowsOK, SessionOK
<1>2. ToolOf(f)' = ToolOf(f)
  BY <1>1 DEF SessionGrows, ToolOf, Replied
<1>3. ASSUME calls'[f].answer = None PROVE calls[f].answer = None
  <2>1. CASE pc = "event" /\ calls' = Append(calls, [reply |-> reply, index |-> dlast, answer |-> None])
    BY <1>1, <1>3, <2>1 DEF TypeInv, SessionOK
  <2>2. CASE pc = "respond" /\ calls' = [calls EXCEPT ![Len(calls)].answer = result]
    <3>1. calls # <<>> /\ calls \in Seq(Call) /\ result \in Int /\ result # None
      BY <2>2 DEF TypeInv, SessionOK, DriveOK, CallInv, AnswersInv, StashInv, InTool
    <3>2. calls'[f].answer = IF f = Len(calls) THEN result ELSE calls[f].answer
      BY <1>1, <2>2, <3>1, AnswerPut
    <3> QED
      BY <1>3, <3>1, <3>2
  <2>3. SessionMoves
    BY SessionMoved DEF TypeInv
  <2> QED
    BY <1>3, <2>1, <2>2, <2>3 DEF SessionMoves
<1>4. ASSUME calls'[f].answer = None PROVE Admitted'
  <2>1. Admitted
    BY <1>3, <1>4 DEF RowsInv, RowSound
  <2>2. CASE spent' = spent
    BY <2>1, <2>2 DEF Admitted, TokenCap, Writes
  <2>3. CASE ChargeBudget
    <3>1. pc = "charge"
      BY <2>3 DEF ChargeBudget
    <3>2. calls # <<>> => calls[Len(calls)].answer # None
      BY <3>1 DEF TypeInv, CallInv, AnswersInv, InModel
    <3>3. calls[f].answer # None
      BY <1>1, <3>2 DEF TypeInv, CallInv, AnswersInv, SessionOK
    <3> QED
      BY <1>3, <1>4, <3>3
  <2> QED
    BY <2>2, <2>3 DEF Writes
<1> QED
  BY <1>2, <1>4 DEF RowsInv, RowSound

(* The rows stay so. *)
LEMMA RowsInvStep ==
  ASSUME TypeInv, Writes, SessionGrows, RowsInv, [Next]_vars
  PROVE  RowsInv'
<1>1. ASSUME NEW f \in DOMAIN rows, rows'[f].response # None => rows'[f].status = "CONFIRMED"
      PROVE  RowSound(f)'
  BY <1>1, OldRowSound DEF RowSound
<1>2. CASE rows' = rows
  BY <1>1, <1>2 DEF RowsInv, RowSound
<1>3. CASE /\ pc = "tool" /\ Len(calls) \notin DOMAIN rows /\ calls' = calls /\ spent' = spent
           /\ rows' = Put(rows, Len(calls), [status |-> "PENDING", response |-> None])
           /\ Admitted /\ InScope(CurrentTool) /\ ~Refused(CurrentTool)
  <2>1. /\ DOMAIN rows' = DOMAIN rows \cup {Len(calls)} /\ \A f \in DOMAIN rows : rows'[f] = rows[f]
        /\ rows'[Len(calls)].response = None
    BY <1>3 DEF Put
  <2>2. \A f \in DOMAIN rows : RowSound(f)'
    BY <1>1, <2>1 DEF RowsInv, RowSound
  <2>3. CurrentTool' = CurrentTool /\ Admitted'
    BY <1>3, ToolKept DEF InTool, Admitted, TokenCap, Writes
  <2>4. ToolOf(Len(calls))' = CurrentTool
    BY <1>3, <2>3 DEF ToolOf, CurrentTool, Current
  <2>5. RowSound(Len(calls))'
    BY <1>3, <2>1, <2>3, <2>4 DEF RowSound
  <2> QED
    BY <1>3, <2>1, <2>2, <2>5 DEF RowsInv
<1>4. ASSUME NEW r \in EffectRow, NEW k \in DOMAIN rows, rows' = [rows EXCEPT ![k] = r],
             r.response # None => r.status = "CONFIRMED"
      PROVE  RowsInv'
  <2>1. /\ DOMAIN rows' = DOMAIN rows /\ rows'[k] = r
        /\ \A f \in DOMAIN rows : f # k => rows'[f] = rows[f]
    BY <1>4 DEF TypeInv, RowsOK
  <2>2. \A f \in DOMAIN rows : rows'[f].response # None => rows'[f].status = "CONFIRMED"
    BY <1>4, <2>1 DEF RowsInv, RowSound
  <2> QED
    BY <1>1, <2>1, <2>2 DEF RowsInv
<1>5. stash # None => stash \in DOMAIN rows
  BY DEF TypeInv, CallInv, StashInv
<1>6. CASE pc = "ran" /\ stash # None /\ rows' = [rows EXCEPT ![stash] = [status |-> "CONFIRMED", response |-> result]]
  <2>1. [status |-> "CONFIRMED", response |-> result] \in EffectRow
    BY DEF TypeInv, DriveOK, EffectRow
  <2> QED
    BY <1>4, <1>5, <1>6, <2>1, Zenon
<1>7. ASSUME stash # None, NEW status \in {"FAILED", "UNKNOWN"}, rows' = [rows EXCEPT ![stash] = [status |-> status, response |-> None]]
      PROVE  RowsInv'
  <2>1. [status |-> status, response |-> None] \in EffectRow
    BY DEF EffectRow, None
  <2> QED
    BY <1>4, <1>5, <1>7, <2>1, Zenon
<1>8. ASSUME NEW k \in DOMAIN rows, NEW status \in {"CONFIRMED", "FAILED", "UNKNOWN"},
             rows[k].status = "PENDING", rows' = [rows EXCEPT ![k].status = status]
      PROVE  RowsInv'
  <2>1. rows[k] \in EffectRow /\ rows[k].response = None
    BY <1>8 DEF TypeInv, RowsOK, RowsInv, RowSound
  <2>a. rows' = [rows EXCEPT ![k] = [rows[k] EXCEPT !.status = status]]
    BY <1>8
  <2>b. [rows[k] EXCEPT !.status = status] = [status |-> status, response |-> None]
    BY <2>1 DEF EffectRow
  <2>2. rows' = [rows EXCEPT ![k] = [status |-> status, response |-> None]]
    BY <2>a, <2>b, Zenon
  <2>3. [status |-> status, response |-> None] \in EffectRow
    BY DEF EffectRow, None
  <2>4. [status |-> status, response |-> None].response = None
    OBVIOUS
  <2> QED
    BY <1>4, <2>2, <2>3, <2>4, Zenon
<1> QED
  BY <1>2, <1>3, <1>6, <1>7, <1>8, RowsMoved, Zenon DEF RowMoves

(* The result the drive holds is the response of the call's row, and a body runs
   only while there is none. *)
ResultIsRow ==
  Len(calls) \in DOMAIN rows =>
    /\ (pc \in {"ran", "undo", "respond"} /\ rows[Len(calls)].response # None) => result = rows[Len(calls)].response
    /\ pc = "body" => rows[Len(calls)].response = None

(* A call that is denied, or that begin_effect refuses, has no row. *)
LEMMA NoRowWhenDenied ==
  ASSUME TypeInv, RowsInv, pc = "tool", ~Admitted \/ ~InScope(CurrentTool) \/ Refused(CurrentTool)
  PROVE  Len(calls) \notin DOMAIN rows
<1>1. calls[Len(calls)].answer = None
  BY DEF TypeInv, CallInv, AnswersInv, InTool
<1> QED
  BY <1>1 DEF RowsInv, RowSound, ToolOf, CurrentTool, Current

(* While the server answers, the drive's result stays the row's response. *)
LEMMA ResultStep ==
  ASSUME TypeInv, RowsInv, ResultIsRow, blips' = blips, [Next]_vars
  PROVE  ResultIsRow'
<1>a. blips \in Nat
  BY DEF TypeInv, CountsOK
<1> USE DEF ResultIsRow
<1>1. ASSUME NEW n \in 0..MaxReplies, BeforeRun(n) PROVE ResultIsRow'
  BY <1>1, Restarts
<1>2. CASE RefuseModel
  BY <1>2 DEF RefuseModel, NumberDecision, InPlaceOfModel, server
<1>3. CASE ReplayDecision
  BY <1>3 DEF ReplayDecision, NumberDecision, InPlaceOfModel, server
<1>4. ASSUME NEW said \in Tool \cup {Final}, AskModel(said) PROVE ResultIsRow'
  BY <1>4 DEF AskModel, NumberDecision, server
<1>5. CASE RecordDecision
  BY <1>5 DEF RecordDecision, world
<1>6. CASE ChargeBudget
  BY <1>6 DEF ChargeBudget, world
<1>7. CASE AppendReply
  <2>1. pc' \in {"down", "tool"}
    BY <1>7 DEF AppendReply
  <2> QED
    BY <2>1
<1>8. CASE DenyTool
  <2>1. Len(calls) \notin DOMAIN rows
    BY <1>8, NoRowWhenDenied DEF DenyTool
  <2> QED
    BY <1>8, <2>1 DEF DenyTool, Goes
<1>9. CASE BeginFails
  <2>1. pc = "tool" /\ Refused(CurrentTool)
    BY <1>9, <1>a DEF BeginFails, Blip
  <2>2. Len(calls) \notin DOMAIN rows
    BY <2>1, NoRowWhenDenied
  <2>3. rows' = rows /\ calls' = calls
    BY <1>9 DEF BeginFails, Goes
  <2> QED
    BY <2>2, <2>3
<1>10. CASE BeginEffect
  <2>1. calls' = calls /\ rows' = Begun /\ Len(calls) \in DOMAIN rows'
    BY <1>10 DEF BeginEffect, Goes, Begun, Put, Current
  <2> DEFINE row == rows'[Len(calls)]
  <2>2. row.response # None => row.status = "CONFIRMED"
    BY <2>1 DEF Begun, Put, Current, RowsInv, RowSound
  <2>3. \/ row.status = "CONFIRMED" /\ pc' = "ran" /\ result' = Recollection(row)
        \/ row.status # "CONFIRMED" /\ pc' \in {"respond", "body"}
    BY <1>10, Zenon DEF BeginEffect, Goes, Recalled, Current
  <2> HIDE DEF row
  <2>4. (row.response # None => pc' = "ran" /\ result' = row.response)
    BY <2>2, <2>3 DEF Recollection
  <2> QED
    BY <2>1, <2>4 DEF row
<1>11. ASSUME NEW lost \in BOOLEAN, BodyReturns(lost) PROVE ResultIsRow'
  <2>1. pc = "body" /\ pc' = "ran" /\ rows' = rows /\ calls' = calls
    BY <1>11 DEF BodyReturns
  <2> QED
    BY <2>1
<1>12. ASSUME NEW lost \in BOOLEAN, BodyRetried(lost) PROVE ResultIsRow'
  BY <1>12 DEF BodyRetried
<1>13. ASSUME NEW status \in {"FAILED", "UNKNOWN"}, BodyFails(status) PROVE ResultIsRow'
  BY <1>13 DEF BodyFails, Stops
<1>14. CASE CompleteEffect
  <2>1. pc = "ran" /\ pc' \in {"undo", "respond"} /\ result' = result /\ calls' = calls
    BY <1>14 DEF CompleteEffect
  <2>2. rows' = Completed("CONFIRMED", result)
    BY <1>14, <1>a DEF CompleteEffect, Blip
  <2>3. stash # None => stash = Len(calls) /\ stash \in DOMAIN rows
    BY DEF TypeInv, CallInv, StashInv
  <2>4. CASE rows' = rows
    BY <2>1, <2>4
  <2>5. CASE stash # None /\ rows' = [rows EXCEPT ![stash] = [status |-> "CONFIRMED", response |-> result]]
    BY <2>1, <2>3, <2>5
  <2> QED
    BY <2>2, <2>4, <2>5 DEF Completed
<1>15. CASE RegisterCompensation
  BY <1>15 DEF RegisterCompensation, world
<1>16. CASE AppendResponse
  BY <1>16 DEF AppendResponse, CallOver, world
<1>17. CASE Crash
  BY <1>17 DEF Crash, Stops, server, world
<1>18. CASE CallRaises
  BY <1>18 DEF CallRaises, Stops, server, world
<1>19. ASSUME NEW f \in DOMAIN rows, NEW status \in {"CONFIRMED", "FAILED", "UNKNOWN"}, Dispatched(f, status)
       PROVE  ResultIsRow'
  <2>1. pc' = pc /\ result' = result /\ calls' = calls /\ rows' = [rows EXCEPT ![f].status = status]
    BY <1>19 DEF Dispatched, drive
  <2>2. DOMAIN rows' = DOMAIN rows /\ \A g \in DOMAIN rows : rows'[g].response = rows[g].response
    BY <2>1 DEF TypeInv, RowsOK, EffectRow
  <2> QED
    BY <2>1, <2>2
<1>20. CASE Cancel
  BY <1>20 DEF Cancel, drive, world
<1>21. CASE UNCHANGED vars
  BY <1>21 DEF vars, server, drive, world
<1> HIDE DEF ResultIsRow
<1> QED
  BY <1>1, <1>2, <1>3, <1>4, <1>5, <1>6, <1>7, <1>8, <1>9, <1>10, <1>11, <1>12, <1>13, <1>14,
     <1>15, <1>16, <1>17, <1>18, <1>19, <1>20, <1>21, Zenon DEF Next

(* The inductive form of AnswerMatchesLedger. *)
LedgerInv == RowsInv /\ (blips = 0 => ResultIsRow /\ AnswerMatchesLedger)

(* While the server answers, a call is answered with its row's response. *)
LEMMA MatchStep ==
  ASSUME TypeInv, Writes, LedgerInv, blips = 0
  PROVE  \A f \in DOMAIN rows' :
           (rows'[f].response # None /\ calls'[f].answer # None) => calls'[f].answer = rows'[f].response
<1>1. \A f \in DOMAIN rows : (rows[f].response # None /\ calls[f].answer # None) => calls[f].answer = rows[f].response
  BY DEF LedgerInv, AnswerMatchesLedger, RowsInv, RowSound
<1>2. CASE rows' = rows
  <2>1. CASE calls' = calls
    BY <1>1, <1>2, <2>1
  <2>2. CASE calls' = Append(calls, [reply |-> reply, index |-> dlast, answer |-> None])
    <3>1. \A f \in DOMAIN calls : calls'[f] = calls[f]
      BY <2>2 DEF TypeInv, SessionOK
    <3> QED
      BY <1>1, <1>2, <3>1 DEF TypeInv, RowsOK
  <2>3. CASE pc = "respond" /\ calls' = [calls EXCEPT ![Len(calls)].answer = result]
    <3>1. calls # <<>> /\ calls \in Seq(Call) /\ result \in Int
      BY <2>3 DEF TypeInv, SessionOK, DriveOK, CallInv, AnswersInv, InTool
    <3>2. \A f \in DOMAIN calls : calls'[f].answer = IF f = Len(calls) THEN result ELSE calls[f].answer
      BY <2>3, <3>1, AnswerPut
    <3>3. (Len(calls) \in DOMAIN rows /\ rows[Len(calls)].response # None) => result = rows[Len(calls)].response
      BY <2>3 DEF LedgerInv, ResultIsRow
    <3> QED
      BY <1>1, <1>2, <3>2, <3>3 DEF TypeInv, RowsOK
  <2>4. SessionMoves
    BY SessionMoved DEF TypeInv
  <2> QED
    BY <2>1, <2>2, <2>3, <2>4 DEF SessionMoves
<1>3. CASE calls' = calls /\ rows' = Put(rows, Len(calls), [status |-> "PENDING", response |-> None])
  BY <1>1, <1>3 DEF Put
<1>4. ASSUME calls' = calls, NEW k \in DOMAIN rows, NEW r \in EffectRow, rows' = [rows EXCEPT ![k] = r],
             r.response = None \/ calls[k].answer = None
      PROVE  \A f \in DOMAIN rows' :
               (rows'[f].response # None /\ calls'[f].answer # None) => calls'[f].answer = rows'[f].response
  <2>1. DOMAIN rows' = DOMAIN rows /\ rows'[k] = r /\ \A f \in DOMAIN rows : f # k => rows'[f] = rows[f]
    BY <1>4 DEF TypeInv, RowsOK
  <2> QED
    BY <1>1, <1>4, <2>1
<1>5. stash # None => stash \in DOMAIN rows /\ calls[stash].answer = None
  BY DEF TypeInv, CallInv, StashInv, AnswersInv
<1>6. CASE stash # None /\ calls' = calls /\ rows' = [rows EXCEPT ![stash] = [status |-> "CONFIRMED", response |-> result]]
  <2>1. [status |-> "CONFIRMED", response |-> result] \in EffectRow
    BY DEF TypeInv, DriveOK, EffectRow
  <2> QED
    BY <1>4, <1>5, <1>6, <2>1, Zenon
<1>7. ASSUME stash # None, calls' = calls, NEW status \in {"FAILED", "UNKNOWN"},
             rows' = [rows EXCEPT ![stash] = [status |-> status, response |-> None]]
      PROVE  \A f \in DOMAIN rows' :
               (rows'[f].response # None /\ calls'[f].answer # None) => calls'[f].answer = rows'[f].response
  <2>1. [status |-> status, response |-> None] \in EffectRow
    BY DEF EffectRow, None
  <2> QED
    BY <1>4, <1>5, <1>7, <2>1, Zenon
<1>8. ASSUME calls' = calls, NEW k \in DOMAIN rows, NEW status \in {"CONFIRMED", "FAILED", "UNKNOWN"},
             rows[k].status = "PENDING", rows' = [rows EXCEPT ![k].status = status]
      PROVE  \A f \in DOMAIN rows' :
               (rows'[f].response # None /\ calls'[f].answer # None) => calls'[f].answer = rows'[f].response
  <2>1. rows[k] \in EffectRow /\ rows[k].response = None
    BY <1>8 DEF TypeInv, RowsOK, LedgerInv, RowsInv, RowSound
  <2>2. rows' = [rows EXCEPT ![k] = [rows[k] EXCEPT !.status = status]]
    BY <1>8
  <2>3. [rows[k] EXCEPT !.status = status] \in EffectRow /\ [rows[k] EXCEPT !.status = status].response = None
    BY <2>1 DEF EffectRow
  <2> QED
    BY <1>4, <1>8, <2>2, <2>3, Zenon
<1> QED
  BY <1>2, <1>3, <1>6, <1>7, <1>8, RowsMoved, Zenon DEF RowMoves

(* Every step keeps LedgerInv. *)
LEMMA LedgerStep ==
  ASSUME TypeInv, Writes, SessionGrows, LedgerInv, [Next]_vars
  PROVE  LedgerInv'
<1>1. RowsInv'
  BY RowsInvStep DEF LedgerInv
<1>2. ASSUME blips' = 0 PROVE ResultIsRow' /\ AnswerMatchesLedger'
  <2>1. blips = 0
    BY <1>2 DEF Writes, TypeInv, CountsOK
  <2>2. ResultIsRow'
    BY <1>2, <2>1, ResultStep DEF LedgerInv
  <2>3. AnswerMatchesLedger'
    BY <2>1, MatchStep DEF AnswerMatchesLedger
  <2> QED
    BY <2>2, <2>3
<1> QED
  BY <1>1, <1>2 DEF LedgerInv

(* Ledger: while the server answers, a call the ledger has CONFIRMED with a
   response is answered in the session with that response, whichever drive
   appended it (begin_effect, complete_effect, append_event). *)
THEOREM AnswersMatchLedger == Spec => []AnswerMatchesLedger
<1>1. Init => LedgerInv
  BY DEF Init, LedgerInv, RowsInv, ResultIsRow, AnswerMatchesLedger
<1>2. TypeInv /\ LedgerInv /\ [Next]_vars => (TypeInv /\ LedgerInv)'
  BY TypeStep, LedgerStep
<1>3. LedgerInv => AnswerMatchesLedger
  BY DEF LedgerInv, AnswerMatchesLedger
<1> QED
  BY <1>1, <1>2, <1>3, TypeInit, PTL DEF Spec

-----------------------------------------------------------------------------

(* The tools InverseRegistered is about. *)
Compensable(d) == d.undo /\ d.dispatch = "inline" /\ ~Refused(d)

(* While the server answers, the body of a tool that begin_effect accepts runs
   under the call's key, and its result is handed on only after its inverse was
   registered. *)
KeyHeld ==
  /\ (pc \in {"body", "ran", "undo"} /\ ~Refused(CurrentTool)) => stash = Len(calls)
  /\ (pc = "respond" /\ result > 0 /\ Compensable(CurrentTool)) => Len(calls) \in undo

(* The inductive form of InverseRegistered. *)
UndoInv == blips = 0 => KeyHeld /\ InverseRegistered

(* Every step keeps KeyHeld. *)
LEMMA KeyHeldStep ==
  ASSUME TypeInv, SessionGrows, KeyHeld, blips' = blips, [Next]_vars
  PROVE  KeyHeld'
<1>a. blips \in Nat
  BY DEF TypeInv, CountsOK
<1>b. pc \in InTool => Len(calls) # None
  BY CallTool DEF TypeInv, SessionOK, None
<1> USE DEF KeyHeld
<1>1. ASSUME NEW n \in 0..MaxReplies, BeforeRun(n) PROVE KeyHeld'
  BY <1>1, Restarts
<1>2. CASE RefuseModel
  BY <1>2 DEF RefuseModel, NumberDecision, InPlaceOfModel, server
<1>3. CASE ReplayDecision
  BY <1>3 DEF ReplayDecision, NumberDecision, InPlaceOfModel, server
<1>4. ASSUME NEW said \in Tool \cup {Final}, AskModel(said) PROVE KeyHeld'
  BY <1>4 DEF AskModel, NumberDecision, server
<1>5. CASE RecordDecision
  BY <1>5 DEF RecordDecision, world
<1>6. CASE ChargeBudget
  BY <1>6 DEF ChargeBudget, world
<1>7. CASE AppendReply
  <2>1. pc' \in {"down", "tool"}
    BY <1>7 DEF AppendReply
  <2> QED
    BY <2>1
<1>8. CASE DenyTool
  <2>1. pc' = "respond" /\ ~(result' > 0)
    BY <1>8 DEF DenyTool, Goes, Denied
  <2> QED
    BY <2>1
<1>9. CASE BeginFails
  <2>1. pc = "tool" /\ Refused(CurrentTool) /\ calls' = calls
    BY <1>9, <1>a DEF BeginFails, Goes, Blip
  <2>2. CurrentTool' = CurrentTool
    BY <2>1, ToolKept DEF InTool
  <2>3. (pc' = "respond" /\ ~(result' > 0)) \/ pc' = "body"
    BY <1>9 DEF BeginFails, Goes, Denied
  <2> QED
    BY <2>1, <2>2, <2>3
<1>10. CASE BeginEffect
  <2>1. calls' = calls
    BY <1>10 DEF BeginEffect, Goes
  <2>2. (pc' = "respond" /\ ~(result' > 0)) \/ (pc' \in {"ran", "body"} /\ stash' = Len(calls))
    BY <1>10 DEF BeginEffect, Goes, Accepted, Current
  <2> QED
    BY <2>1, <2>2
<1>11. ASSUME NEW lost \in BOOLEAN, BodyReturns(lost) PROVE KeyHeld'
  <2>1. pc = "body" /\ pc' = "ran" /\ stash' = stash /\ calls' = calls
    BY <1>11 DEF BodyReturns
  <2>2. CurrentTool' = CurrentTool
    BY <2>1, ToolKept DEF InTool
  <2> QED
    BY <2>1, <2>2
<1>12. ASSUME NEW lost \in BOOLEAN, BodyRetried(lost) PROVE KeyHeld'
  <2>1. pc = "body" /\ pc' = "body" /\ stash' = stash /\ calls' = calls
    BY <1>12 DEF BodyRetried
  <2>2. CurrentTool' = CurrentTool
    BY <2>1, ToolKept DEF InTool
  <2> QED
    BY <2>1, <2>2
<1>13. ASSUME NEW status \in {"FAILED", "UNKNOWN"}, BodyFails(status) PROVE KeyHeld'
  BY <1>13 DEF BodyFails, Stops
<1>14. CASE CompleteEffect
  <2>1. pc = "ran" /\ stash' = stash /\ calls' = calls /\ pc' = (IF Undoes THEN "undo" ELSE "respond")
    BY <1>14, Zenon DEF CompleteEffect
  <2>2. CurrentTool' = CurrentTool
    BY <2>1, ToolKept DEF InTool
  <2>3. CASE ~Refused(CurrentTool) /\ CurrentTool.undo
    <3>1. stash = Len(calls) /\ Len(calls) # None
      BY <1>b, <2>1, <2>3 DEF InTool
    <3>2. Undoes
      BY <2>3, <3>1 DEF Undoes
    <3> QED
      BY <2>1, <2>2, <3>1, <3>2
  <2>4. CASE ~(~Refused(CurrentTool) /\ CurrentTool.undo)
    BY <2>1, <2>2, <2>4 DEF Compensable
  <2> QED
    BY <2>3, <2>4
<1>15. CASE RegisterCompensation
  <2>1. pc = "undo" /\ pc' = "respond" /\ stash' = stash /\ calls' = calls
    BY <1>15 DEF RegisterCompensation
  <2>2. CurrentTool' = CurrentTool
    BY <2>1, ToolKept DEF InTool
  <2>3. stash \in undo'
    BY <1>15, <1>a DEF RegisterCompensation, Blip
  <2> QED
    BY <2>1, <2>2, <2>3 DEF Compensable
<1>16. CASE AppendResponse
  BY <1>16 DEF AppendResponse, CallOver, world
<1>17. CASE Crash
  BY <1>17 DEF Crash, Stops, server, world
<1>18. CASE CallRaises
  BY <1>18 DEF CallRaises, Stops, server, world
<1>19. ASSUME NEW f \in DOMAIN rows, NEW status \in {"CONFIRMED", "FAILED", "UNKNOWN"}, Dispatched(f, status)
       PROVE  KeyHeld'
  <2>1. pc' = pc /\ stash' = stash /\ result' = result /\ calls' = calls /\ undo' = undo
    BY <1>19 DEF Dispatched, drive
  <2> QED
    BY <2>1, ToolKept DEF InTool
<1>20. CASE Cancel
  <2>1. pc' = pc /\ stash' = stash /\ result' = result /\ calls' = calls /\ undo' = undo
    BY <1>20 DEF Cancel, drive
  <2> QED
    BY <2>1, ToolKept DEF InTool
<1>21. CASE UNCHANGED vars
  <2>1. pc' = pc /\ stash' = stash /\ result' = result /\ calls' = calls /\ undo' = undo
    BY <1>21 DEF vars, drive, server
  <2> QED
    BY <2>1, ToolKept DEF InTool
<1> HIDE DEF KeyHeld
<1> QED
  BY <1>1, <1>2, <1>3, <1>4, <1>5, <1>6, <1>7, <1>8, <1>9, <1>10, <1>11, <1>12, <1>13, <1>14,
     <1>15, <1>16, <1>17, <1>18, <1>19, <1>20, <1>21, Zenon DEF Next

(* A call gets its answer after its inverse was registered. *)
LEMMA InverseStep ==
  ASSUME TypeInv, Writes, SessionGrows, UndoInv, blips = 0
  PROVE  \A f \in DOMAIN calls' : (Compensable(ToolOf(f)') /\ calls'[f].answer > 0) => f \in undo'
<1>1. undo \subseteq undo'
  BY DEF Writes, RegisterCompensation
<1>2. \A f \in DOMAIN calls : (Compensable(ToolOf(f)) /\ calls[f].answer > 0) => f \in undo
  BY DEF UndoInv, InverseRegistered, Compensable, ToolOf
<1>3. \A f \in DOMAIN calls : ToolOf(f)' = ToolOf(f)
  BY DEF ToolOf, Replied, SessionGrows, TypeInv, SessionOK
<1>4. CASE calls' = calls
  BY <1>1, <1>2, <1>3, <1>4
<1>5. CASE calls' = Append(calls, [reply |-> reply, index |-> dlast, answer |-> None])
  <2>1. /\ DOMAIN calls' = DOMAIN calls \cup {Len(calls) + 1} /\ \A f \in DOMAIN calls : calls'[f] = calls[f]
        /\ calls'[Len(calls) + 1].answer = None
    BY <1>5 DEF TypeInv, SessionOK
  <2> QED
    BY <1>1, <1>2, <1>3, <2>1 DEF None
<1>6. CASE pc = "respond" /\ calls' = [calls EXCEPT ![Len(calls)].answer = result]
  <2>1. calls # <<>> /\ calls \in Seq(Call) /\ result \in Int
    BY <1>6 DEF TypeInv, SessionOK, DriveOK, CallInv, AnswersInv, InTool
  <2>2. /\ DOMAIN calls' = DOMAIN calls
        /\ \A f \in DOMAIN calls : calls'[f].answer = IF f = Len(calls) THEN result ELSE calls[f].answer
    BY <1>6, <2>1, AnswerPut
  <2>3. (result > 0 /\ Compensable(ToolOf(Len(calls)))) => Len(calls) \in undo
    BY <1>6 DEF UndoInv, KeyHeld, CurrentTool, Current, ToolOf
  <2> QED
    BY <1>1, <1>2, <1>3, <2>2, <2>3
<1> QED
  BY <1>4, <1>5, <1>6, SessionMoved DEF SessionMoves, TypeInv

(* Every step keeps UndoInv. *)
LEMMA UndoStep ==
  ASSUME TypeInv, Writes, SessionGrows, UndoInv, [Next]_vars
  PROVE  UndoInv'
<1> SUFFICES ASSUME blips' = 0 PROVE KeyHeld' /\ InverseRegistered'
  BY DEF UndoInv
<1>1. blips = 0
  BY DEF Writes, TypeInv, CountsOK
<1>2. KeyHeld'
  BY <1>1, KeyHeldStep DEF UndoInv
<1>3. InverseRegistered'
  BY <1>1, InverseStep DEF InverseRegistered, Compensable, ToolOf
<1> QED
  BY <1>2, <1>3

(* Compensation: while the server answers, a compensable inline call with a saved
   result has its inverse registered, wherever the process died before
   (after_tool_callback, register_compensation). *)
THEOREM InversesRegistered == Spec => []InverseRegistered
<1>1. Init => UndoInv
  BY DEF Init, UndoInv, KeyHeld, InverseRegistered
<1>2. TypeInv /\ UndoInv /\ [Next]_vars => (TypeInv /\ UndoInv)'
  BY TypeStep, UndoStep
<1>3. UndoInv => InverseRegistered
  BY DEF UndoInv, InverseRegistered
<1> QED
  BY <1>1, <1>2, <1>3, TypeInit, PTL DEF Spec
=============================================================================
