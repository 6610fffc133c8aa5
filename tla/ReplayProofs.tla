---------------------------- MODULE ReplayProofs ----------------------------
(* Theorems about Replay, for all declarations of tools, every posture and any number
   of crashes and failed calls: types, the frame of the steps, the budget and the
   journal of decisions. *)
EXTENDS Replay, TLAPS

-----------------------------------------------------------------------------

(* The drive is at a tool call, or at a response of the model. *)
InTool == {"tool", "body", "ran", "undo", "respond"}
InModel == {"model", "reply", "charge", "event"}

(* A saved function call, and a row of tape_effects. *)
Call == [reply : Nat, index : Int, answer : Int]
EffectRow == [status : {"PENDING", "CONFIRMED", "FAILED", "UNKNOWN"}, response : Int]

(* Types: what the drive has in memory ... *)
DriveOK ==
  /\ pc \in InTool \cup InModel \cup {"down"}
  /\ dnext \in Nat
  /\ dlast \in Int /\ (pc \in {"reply", "charge", "event"} => dlast \in Nat)
  /\ reply \in 0..Len(replies)
  /\ result \in Int /\ execs \in Nat

(* ... the session, whose calls come from responses that call a tool ... *)
SessionOK ==
  /\ replies \in Seq(Tool \cup {Final})
  /\ calls \in Seq(Call)
  /\ \A f \in DOMAIN calls : calls[f].reply \in DOMAIN replies /\ Replied(calls[f].reply) \in Tool

(* ... and the tables, the counterparty and the counters. *)
DecisionsOK == decisions \in [DOMAIN decisions -> 0..Len(replies)] /\ DOMAIN decisions \subseteq Nat
RowsOK == rows \in [DOMAIN rows -> EffectRow] /\ DOMAIN rows \subseteq DOMAIN calls
LandedOK == landed = [m \in DOMAIN landed |-> landed[m]] /\ DOMAIN landed \subseteq DOMAIN replies
CountsOK == spent \in Nat /\ crashes \in Nat /\ blips \in Nat /\ posture \in Posture

(* The runner: only the last call of the session can be without an answer, and it
   is exactly while its tool is run. *)
AnswersInv ==
  /\ \A f \in DOMAIN calls : f < Len(calls) => calls[f].answer # None
  /\ pc \in InTool => calls # <<>> /\ calls[Len(calls)].answer = None
  /\ pc \in InModel /\ calls # <<>> => calls[Len(calls)].answer # None

(* The plugin's key is the one of the call that is run, which then has a row; the
   inverse is registered under a key, and a call that has run has a result. *)
StashInv ==
  /\ stash # None => /\ pc \in InTool \ {"tool"}
                     /\ stash = Len(calls) /\ stash \in DOMAIN rows
  /\ pc = "undo" => stash # None
  /\ pc \in {"ran", "undo", "respond"} => result # None

(* Where the drive stands in the session. *)
CallInv == AnswersInv /\ StashInv

(* What a re-drive leaves as it was, and where it goes on. *)
LEMMA Restarts ==
  ASSUME NEW n \in 0..MaxReplies, BeforeRun(n)
  PROVE  /\ pc = "down" /\ dnext' = n
         /\ pc' = IF calls # <<>> /\ calls[Current].answer = None THEN "tool" ELSE "model"
         /\ UNCHANGED <<decisions, rows, undo, calls, replies, dlast, reply, stash, result, execs, landed, spent, crashes, posture>>
         /\ (blips < BlipBudget /\ blips' = blips + 1) \/ blips' = blips
<1>1. Blip \/ Answered
  BY Zenon DEF BeforeRun
<1>2. QED
  BY <1>1, SMT DEF BeforeRun, Capped, world, Blip, Answered

(* What the drive has in memory keeps its type. *)
LEMMA DriveStep ==
  ASSUME DriveOK, SessionOK, DecisionsOK, RowsOK, [Next]_vars
  PROVE  DriveOK'
<1> USE DEF DriveOK, InTool, InModel, None
<1>1. ASSUME NEW n \in 0..MaxReplies, BeforeRun(n) PROVE DriveOK'
  BY <1>1, Restarts
<1>2. CASE RefuseModel
  BY <1>2 DEF RefuseModel, NumberDecision, InPlaceOfModel, Answered, server
<1>3. CASE ReplayDecision
  <2>1. decisions[dnext] \in 0..Len(replies)
    BY <1>3 DEF ReplayDecision, DecisionsOK
  <2> QED
    BY <1>3, <2>1 DEF ReplayDecision, NumberDecision, InPlaceOfModel, server
<1>4. ASSUME NEW said \in Tool \cup {Final}, AskModel(said) PROVE DriveOK'
  <2>1. Len(replies') = Len(replies) + 1 /\ Len(replies) \in Nat
    BY <1>4 DEF AskModel, SessionOK
  <2> QED
    BY <1>4, <2>1 DEF AskModel, NumberDecision, server
<1>5. CASE RecordDecision
  BY <1>5 DEF RecordDecision, Answered, Blip, world
<1>6. CASE ChargeBudget
  BY <1>6 DEF ChargeBudget, Answered, Blip, world
<1>7. CASE AppendReply
  BY <1>7 DEF AppendReply, world
<1>8. CASE DenyTool
  BY <1>8 DEF DenyTool, Goes, world, Denied
<1>9. CASE BeginFails
  BY <1>9 DEF BeginFails, Goes, world, Denied
<1>10. CASE BeginEffect
  <2>1. Recollection(rows'[Current]) \in Int
    BY <1>10 DEF BeginEffect, Recollection, Empty, RowsOK, Begun, Put, None, EffectRow
  <2> QED
    BY <1>10, <2>1 DEF BeginEffect, Goes, world, Accepted, Denied
<1>11. ASSUME NEW lost \in BOOLEAN, BodyReturns(lost) PROVE DriveOK'
  BY <1>11 DEF BodyReturns, Answered, Blip
<1>12. ASSUME NEW lost \in BOOLEAN, BodyRetried(lost) PROVE DriveOK'
  BY <1>12 DEF BodyRetried, Answered, Blip
<1>13. ASSUME NEW status \in {"FAILED", "UNKNOWN"}, BodyFails(status) PROVE DriveOK'
  BY <1>13 DEF BodyFails, Stops, Answered, Blip
<1>14. CASE CompleteEffect
  BY <1>14 DEF CompleteEffect, Answered, Blip, world
<1>15. CASE RegisterCompensation
  BY <1>15 DEF RegisterCompensation, Answered, Blip, world
<1>16. CASE AppendResponse
  BY <1>16 DEF AppendResponse, CallOver, world
<1>17. CASE Crash
  BY <1>17 DEF Crash, Stops, server, world
<1>18. CASE CallRaises
  BY <1>18 DEF CallRaises, Blip, Stops, server, world
<1>19. ASSUME NEW f \in DOMAIN rows, NEW status \in {"CONFIRMED", "FAILED", "UNKNOWN"}, Dispatched(f, status)
       PROVE  DriveOK'
  BY <1>19 DEF Dispatched, drive, world
<1>20. CASE Cancel
  BY <1>20 DEF Cancel, drive, world
<1>21. CASE UNCHANGED vars
  BY <1>21 DEF vars, server, drive, world
<1> HIDE DEF DriveOK, InTool, InModel, None
<1> QED
  BY <1>1, <1>2, <1>3, <1>4, <1>5, <1>6, <1>7, <1>8, <1>9, <1>10, <1>11, <1>12, <1>13, <1>14,
     <1>15, <1>16, <1>17, <1>18, <1>19, <1>20, <1>21, Zenon DEF Next

(* Which steps write which part of the state: the frame of every proof below. *)
Writes ==
  /\ UNCHANGED <<replies, calls>> \/ (\E said \in Tool \cup {Final} : AskModel(said)) \/ AppendReply \/ AppendResponse
  /\ UNCHANGED decisions \/ RecordDecision
  /\ \/ UNCHANGED rows \/ BeginEffect \/ CompleteEffect
     \/ \E status \in {"FAILED", "UNKNOWN"} : BodyFails(status)
     \/ \E f \in DOMAIN rows, status \in {"CONFIRMED", "FAILED", "UNKNOWN"} : Dispatched(f, status)
  /\ UNCHANGED landed \/ (pc = "body" /\ Lands /\ UNCHANGED <<replies, calls>>)
  /\ UNCHANGED undo \/ RegisterCompensation
  /\ UNCHANGED spent \/ (ChargeBudget /\ spent' = spent + 1)
  /\ UNCHANGED posture
  /\ UNCHANGED blips \/ (blips < BlipBudget /\ blips' = blips + 1)
  /\ UNCHANGED crashes \/ crashes' = crashes + 1

(* Every step writes only that. *)
LEMMA WhoWrites ==
  ASSUME [Next]_vars
  PROVE  Writes
<1> USE DEF Writes
<1>1. ASSUME NEW n \in 0..MaxReplies, BeforeRun(n) PROVE Writes
  BY <1>1, Restarts
<1>2. CASE RefuseModel
  BY <1>2 DEF RefuseModel, NumberDecision, InPlaceOfModel, Answered, server
<1>3. CASE ReplayDecision
  BY <1>3 DEF ReplayDecision, NumberDecision, InPlaceOfModel, Answered, server
<1>4. ASSUME NEW said \in Tool \cup {Final}, AskModel(said) PROVE Writes
  <2>1. blips' = blips \/ (blips < BlipBudget /\ blips' = blips + 1)
    BY <1>4, Zenon DEF AskModel, Blip, Answered
  <2>2. UNCHANGED <<decisions, rows, landed, undo, spent, posture, crashes>>
    BY <1>4 DEF AskModel, NumberDecision, server
  <2> QED
    BY <1>4, <2>1, <2>2
<1>5. CASE RecordDecision
  BY <1>5 DEF RecordDecision, Answered, Blip, world
<1>6. CASE ChargeBudget
  BY <1>6 DEF ChargeBudget, Answered, Blip, world
<1>7. CASE AppendReply
  BY <1>7 DEF AppendReply, world
<1>8. CASE DenyTool
  BY <1>8 DEF DenyTool, Goes, Answered, world
<1>9. CASE BeginFails
  BY <1>9 DEF BeginFails, Goes, Answered, Blip, world
<1>10. CASE BeginEffect
  BY <1>10 DEF BeginEffect, Goes, Answered, world
<1>11. ASSUME NEW lost \in BOOLEAN, BodyReturns(lost) PROVE Writes
  BY <1>11 DEF BodyReturns, Answered, Blip
<1>12. ASSUME NEW lost \in BOOLEAN, BodyRetried(lost) PROVE Writes
  BY <1>12 DEF BodyRetried, Answered, Blip
<1>13. ASSUME NEW status \in {"FAILED", "UNKNOWN"}, BodyFails(status) PROVE Writes
  <2>1. blips' = blips \/ (blips < BlipBudget /\ blips' = blips + 1)
    BY <1>13, Zenon DEF BodyFails, Blip, Answered
  <2>2. /\ UNCHANGED <<decisions, undo, spent, posture, replies, calls>> /\ crashes' = crashes + 1
        /\ pc = "body" /\ (Lands \/ UNCHANGED landed)
    BY <1>13 DEF BodyFails
  <2> QED
    BY <1>13, <2>1, <2>2
<1>14. CASE CompleteEffect
  BY <1>14 DEF CompleteEffect, Answered, Blip, world
<1>15. CASE RegisterCompensation
  BY <1>15 DEF RegisterCompensation, Answered, Blip, world
<1>16. CASE AppendResponse
  BY <1>16 DEF AppendResponse, CallOver, world
<1>17. CASE Crash
  BY <1>17 DEF Crash, Stops, server, world
<1>18. CASE CallRaises
  BY <1>18 DEF CallRaises, Blip, Stops, server, world
<1>19. ASSUME NEW f \in DOMAIN rows, NEW status \in {"CONFIRMED", "FAILED", "UNKNOWN"}, Dispatched(f, status)
       PROVE  Writes
  <2>1. UNCHANGED <<decisions, undo, spent, posture, replies, calls, crashes, blips, landed>>
    BY <1>19 DEF Dispatched, drive, world
  <2> QED
    BY <1>19, <2>1
<1>20. CASE Cancel
  BY <1>20 DEF Cancel, drive, world
<1>21. CASE UNCHANGED vars
  BY <1>21 DEF vars, server, drive, world
<1> HIDE DEF Writes
<1> QED
  BY <1>1, <1>2, <1>3, <1>4, <1>5, <1>6, <1>7, <1>8, <1>9, <1>10, <1>11, <1>12, <1>13, <1>14,
     <1>15, <1>16, <1>17, <1>18, <1>19, <1>20, <1>21, Zenon DEF Next

(* A sequence with an element more. *)
LEMMA Appended ==
  ASSUME NEW S, NEW s \in Seq(S), NEW e \in S
  PROVE  LET t == Append(s, e) IN
         /\ t \in Seq(S) /\ Len(s) \in Nat /\ Len(t) = Len(s) + 1
         /\ DOMAIN s = 1..Len(s) /\ DOMAIN t = 1..Len(t)
         /\ \A f \in DOMAIN s : t[f] = s[f]
         /\ t[Len(t)] = e
  OBVIOUS

(* A session whose last call gets its answer. *)
LEMMA AnswerPut ==
  ASSUME NEW s \in Seq(Call), s # <<>>, NEW r \in Int
  PROVE  LET t == [s EXCEPT ![Len(s)].answer = r] IN
         /\ t \in Seq(Call) /\ Len(t) = Len(s) /\ DOMAIN t = DOMAIN s
         /\ \A f \in DOMAIN s : /\ t[f].reply = s[f].reply /\ t[f].index = s[f].index
                                /\ t[f].answer = IF f = Len(s) THEN r ELSE s[f].answer
<1> DEFINE t == [s EXCEPT ![Len(s)].answer = r]
<1>1. Len(s) \in DOMAIN s /\ s[Len(s)] \in Call
  OBVIOUS
<1>2. [s[Len(s)] EXCEPT !.answer = r] \in Call
  BY <1>1, Zenon DEF Call
<1>3. t = [s EXCEPT ![Len(s)] = [s[Len(s)] EXCEPT !.answer = r]]
  OBVIOUS
<1>4. t \in Seq(Call) /\ Len(t) = Len(s) /\ DOMAIN t = DOMAIN s
  BY <1>1, <1>2, <1>3
<1>5. ASSUME NEW f \in DOMAIN s
      PROVE  /\ t[f].reply = s[f].reply /\ t[f].index = s[f].index
             /\ t[f].answer = IF f = Len(s) THEN r ELSE s[f].answer
  <2>1. s[f] \in Call
    OBVIOUS
  <2> QED
    BY <1>1, <1>3, <2>1 DEF Call
<1> QED
  BY <1>4, <1>5

(* What a step does to the session: nothing, a response of the model, a call, or
   the answer of the last call. *)
SessionMoves ==
  \/ UNCHANGED <<replies, calls>>
  \/ calls' = calls /\ \E said \in Tool \cup {Final} : replies' = Append(replies, said)
  \/ /\ pc = "event" /\ replies' = replies /\ reply \in DOMAIN replies /\ Replied(reply) \in Tool
     /\ calls' = Append(calls, [reply |-> reply, index |-> dlast, answer |-> None])
  \/ /\ pc = "respond" /\ replies' = replies
     /\ calls' = [calls EXCEPT ![Len(calls)].answer = result]

(* Every step does one of those. *)
LEMMA SessionMoved ==
  ASSUME DriveOK, SessionOK, Writes
  PROVE  SessionMoves
<1>1. CASE UNCHANGED <<replies, calls>>
  BY <1>1 DEF SessionMoves
<1>2. ASSUME NEW said \in Tool \cup {Final}, AskModel(said) PROVE SessionMoves
  BY <1>2 DEF SessionMoves, AskModel, NumberDecision, server
<1>3. CASE AppendReply
  <2>1. replies' = replies /\ pc = "event"
    BY <1>3 DEF AppendReply, world
  <2>2. CASE reply = None \/ Replied(reply) = Final
    BY <1>3, <2>1, <2>2 DEF AppendReply, SessionMoves
  <2>3. CASE ~(reply = None \/ Replied(reply) = Final)
    <3>1. calls' = Append(calls, [reply |-> reply, index |-> dlast, answer |-> None])
      BY <1>3, <2>3 DEF AppendReply
    <3>2. reply \in DOMAIN replies
      BY <2>3 DEF DriveOK, SessionOK, None
    <3>3. Replied(reply) \in Tool
      BY <2>3, <3>2 DEF SessionOK, Replied
    <3> QED
      BY <2>1, <3>1, <3>2, <3>3 DEF SessionMoves
  <2> QED
    BY <2>2, <2>3
<1>4. CASE AppendResponse
  BY <1>4 DEF AppendResponse, world, Current, SessionMoves
<1> QED
  BY <1>1, <1>2, <1>3, <1>4, Zenon DEF Writes

(* The session only grows: no response and no call is taken back or changed but
   for its answer. *)
SessionGrows ==
  /\ Len(replies) \in Nat /\ Len(replies') \in Nat /\ Len(replies) <= Len(replies')
  /\ DOMAIN replies \subseteq DOMAIN replies' /\ DOMAIN calls \subseteq DOMAIN calls'
  /\ \A m \in DOMAIN replies : replies'[m] = replies[m]
  /\ \A f \in DOMAIN calls : calls'[f].reply = calls[f].reply /\ calls'[f].index = calls[f].index

(* The session keeps its type, and only grows. *)
LEMMA SessionStep ==
  ASSUME DriveOK, SessionOK, CallInv, Writes
  PROVE  SessionOK' /\ SessionGrows
<1>1. CASE UNCHANGED <<replies, calls>>
  BY <1>1 DEF Replied, SessionOK, SessionGrows
<1>2. ASSUME calls' = calls, NEW said \in Tool \cup {Final}, replies' = Append(replies, said)
      PROVE SessionOK' /\ SessionGrows
  <2>1. /\ replies' \in Seq(Tool \cup {Final}) /\ Len(replies) \in Nat /\ Len(replies') = Len(replies) + 1
        /\ DOMAIN replies = 1..Len(replies) /\ DOMAIN replies' = 1..Len(replies')
        /\ \A m \in DOMAIN replies : replies'[m] = replies[m]
    BY <1>2, Appended DEF SessionOK
  <2>2. SessionGrows
    BY <1>2, <2>1 DEF SessionGrows
  <2> QED
    BY <1>2, <2>1, <2>2 DEF Replied, SessionOK, SessionGrows
<1>3. ASSUME replies' = replies, reply \in DOMAIN replies, Replied(reply) \in Tool,
             calls' = Append(calls, [reply |-> reply, index |-> dlast, answer |-> None])
      PROVE  SessionOK' /\ SessionGrows
  <2>1. [reply |-> reply, index |-> dlast, answer |-> None] \in Call
    BY <1>3 DEF DriveOK, Call, None
  <2>2. /\ calls' \in Seq(Call) /\ Len(calls) \in Nat /\ Len(calls') = Len(calls) + 1
        /\ DOMAIN calls = 1..Len(calls) /\ DOMAIN calls' = 1..Len(calls')
        /\ \A f \in DOMAIN calls : calls'[f] = calls[f]
        /\ calls'[Len(calls')].reply = reply
    BY <1>3, <2>1, Appended DEF SessionOK
  <2>3. SessionGrows
    BY <1>3, <2>2 DEF SessionGrows, SessionOK
  <2>4. ASSUME NEW f \in DOMAIN calls'
        PROVE  calls'[f].reply \in DOMAIN replies /\ Replied(calls'[f].reply) \in Tool
    BY <1>3, <2>2 DEF SessionOK
  <2> QED
    BY <1>3, <2>2, <2>3, <2>4 DEF Replied, SessionOK
<1>4. CASE pc = "respond" /\ replies' = replies /\ calls' = [calls EXCEPT ![Len(calls)].answer = result]
  <2>1. calls # <<>> /\ calls \in Seq(Call) /\ result \in Int
    BY <1>4 DEF CallInv, AnswersInv, InTool, SessionOK, DriveOK
  <2>2. /\ calls' \in Seq(Call) /\ DOMAIN calls' = DOMAIN calls
        /\ \A f \in DOMAIN calls : calls'[f].reply = calls[f].reply /\ calls'[f].index = calls[f].index
    BY <1>4, <2>1, AnswerPut
  <2> QED
    BY <1>4, <2>2 DEF Replied, SessionOK, SessionGrows
<1> QED
  BY <1>1, <1>2, <1>3, <1>4, SessionMoved, Zenon DEF SessionMoves

(* The journal keeps its type. *)
LEMMA DecisionsStep ==
  ASSUME DriveOK, SessionGrows, DecisionsOK, Writes
  PROVE  DecisionsOK'
<1>1. Len(replies) \in Nat /\ Len(replies') \in Nat /\ Len(replies) <= Len(replies')
  BY DEF SessionGrows
<1>2. CASE decisions' = decisions
  BY <1>1, <1>2 DEF DecisionsOK
<1>3. CASE RecordDecision
  <2>1. decisions' = decisions \/ decisions' = Put(decisions, dlast, reply)
    BY <1>3 DEF RecordDecision, Recorded
  <2>2. dlast \in Nat /\ reply \in 0..Len(replies)
    BY <1>3 DEF RecordDecision, DriveOK
  <2> QED
    BY <1>1, <2>1, <2>2 DEF DecisionsOK, Put
<1> QED
  BY <1>2, <1>3 DEF Writes

(* The ledger keeps its type, and loses no row. *)
LEMMA RowsStep ==
  ASSUME DriveOK, SessionOK, SessionGrows, CallInv, RowsOK, Writes
  PROVE  RowsOK' /\ DOMAIN rows \subseteq DOMAIN rows'
<1>1. DOMAIN calls \subseteq DOMAIN calls'
  BY DEF SessionGrows
<1> DEFINE OK == rows' \in [DOMAIN rows' -> EffectRow] /\ DOMAIN rows \subseteq DOMAIN rows' /\ DOMAIN rows' \subseteq DOMAIN calls
<1> SUFFICES OK
  BY <1>1 DEF RowsOK
<1> USE DEF RowsOK
<1>2. CASE rows' = rows
  BY <1>2
<1>3. CASE BeginEffect
  <2>1. rows' = rows \/ rows' = Put(rows, Len(calls), [status |-> "PENDING", response |-> None])
    BY <1>3 DEF BeginEffect, Begun, Current
  <2>2. Len(calls) \in DOMAIN calls
    BY <1>3 DEF BeginEffect, CallInv, AnswersInv, InTool, SessionOK
  <2>3. [status |-> "PENDING", response |-> None] \in EffectRow
    BY DEF EffectRow, None
  <2> QED
    BY <2>1, <2>2, <2>3 DEF Put
<1>4. ASSUME NEW status \in {"CONFIRMED", "FAILED", "UNKNOWN"}, NEW value \in Int, rows' = Completed(status, value)
      PROVE  OK
  <2>1. [status |-> status, response |-> value] \in EffectRow
    BY DEF EffectRow
  <2>2. CASE rows' = rows
    BY <1>2, <2>2
  <2>3. CASE stash # None /\ rows[stash].status = "PENDING" /\ rows' = [rows EXCEPT ![stash] = [status |-> status, response |-> value]]
    <3>1. stash \in DOMAIN rows
      BY <2>3 DEF CallInv, AnswersInv, StashInv
    <3> QED
      BY <2>1, <2>3, <3>1
  <2> QED
    BY <1>4, <2>2, <2>3 DEF Completed
<1>5. CASE CompleteEffect
  <2>1. result \in Int /\ (rows' = rows \/ rows' = Completed("CONFIRMED", result))
    BY <1>5 DEF CompleteEffect, DriveOK
  <2> QED
    BY <1>2, <1>4, <2>1
<1>6. ASSUME NEW status \in {"FAILED", "UNKNOWN"}, BodyFails(status)
      PROVE  OK
  <2>1. None \in Int /\ (rows' = rows \/ rows' = Completed(status, None))
    BY <1>6 DEF BodyFails, None
  <2> QED
    BY <1>2, <1>4, <2>1
<1>7. ASSUME NEW f \in DOMAIN rows, NEW status \in {"CONFIRMED", "FAILED", "UNKNOWN"}, Dispatched(f, status)
      PROVE  OK
  <2>1. rows' = [rows EXCEPT ![f].status = status]
    BY <1>7 DEF Dispatched
  <2>2. [rows[f] EXCEPT !.status = status] \in EffectRow
    BY DEF EffectRow
  <2>3. rows' = [rows EXCEPT ![f] = [rows[f] EXCEPT !.status = status]]
    BY <2>1
  <2> QED
    BY <2>2, <2>3
<1> QED
  BY <1>2, <1>3, <1>5, <1>6, <1>7, Zenon DEF Writes

(* What landed keeps its type. *)
LEMMA LandedStep ==
  ASSUME SessionOK, SessionGrows, CallInv, LandedOK, Writes
  PROVE  LandedOK'
<1>1. DOMAIN replies \subseteq DOMAIN replies'
  BY DEF SessionGrows
<1>2. CASE landed' = landed
  BY <1>1, <1>2 DEF LandedOK
<1>3. CASE pc = "body" /\ Lands
  <2> DEFINE m == calls[Len(calls)].reply
             sofar == At(landed, m, {})
             key == IF stash = None THEN -Cardinality(sofar) - 1 ELSE stash
  <2>1. Len(calls) \in DOMAIN calls /\ m \in DOMAIN replies
    BY <1>3 DEF CallInv, AnswersInv, InTool, SessionOK
  <2>2. landed' = landed \/ landed' = Put(landed, m, sofar \cup {key})
    BY <1>3 DEF Lands, Current
  <2> HIDE DEF m, sofar, key
  <2> QED
    BY <1>1, <2>1, <2>2 DEF LandedOK, Put
<1> QED
  BY <1>2, <1>3 DEF Writes

(* Only the last call is without an answer, after every step. *)
LEMMA AnswersStep ==
  ASSUME DriveOK, SessionOK, AnswersInv, StashInv, [Next]_vars
  PROVE  AnswersInv'
<1> USE DEF AnswersInv, InTool, InModel
<1>1. ASSUME NEW n \in 0..MaxReplies, BeforeRun(n) PROVE AnswersInv'
  <2>1. /\ calls' = calls /\ pc = "down"
        /\ pc' = IF calls # <<>> /\ calls[Len(calls)].answer = None THEN "tool" ELSE "model"
    BY <1>1, Restarts DEF Current
  <2> QED
    BY <2>1
<1>2. CASE RefuseModel
  BY <1>2 DEF RefuseModel, NumberDecision, InPlaceOfModel, server
<1>3. CASE ReplayDecision
  BY <1>3 DEF ReplayDecision, NumberDecision, InPlaceOfModel, server
<1>4. ASSUME NEW said \in Tool \cup {Final}, AskModel(said) PROVE AnswersInv'
  BY <1>4 DEF AskModel, NumberDecision, server
<1>5. CASE RecordDecision
  BY <1>5 DEF RecordDecision, world
<1>6. CASE ChargeBudget
  BY <1>6 DEF ChargeBudget, world
<1>7. CASE AppendReply
  <2>1. pc = "event"
    BY <1>7 DEF AppendReply
  <2>2. CASE calls' = calls /\ pc' = "down"
    BY <2>1, <2>2
  <2>3. CASE pc' = "tool" /\ calls' = Append(calls, [reply |-> reply, index |-> dlast, answer |-> None])
    <3>1. /\ Len(calls) \in Nat /\ Len(calls') = Len(calls) + 1 /\ DOMAIN calls' = 1..Len(calls')
          /\ DOMAIN calls = 1..Len(calls)
          /\ \A f \in DOMAIN calls : calls'[f] = calls[f]
          /\ calls'[Len(calls')].answer = None
      BY <2>3 DEF SessionOK
    <3>2. calls # <<>> => calls[Len(calls)].answer # None
      BY <2>1
    <3>3. \A f \in DOMAIN calls : calls[f].answer # None
      BY <3>1, <3>2 DEF SessionOK
    <3> QED
      BY <2>3, <3>1, <3>3
  <2> QED
    BY <1>7, <2>2, <2>3 DEF AppendReply
<1>8. CASE DenyTool
  BY <1>8 DEF DenyTool, Goes, world
<1>9. CASE BeginFails
  BY <1>9 DEF BeginFails, Goes, world
<1>10. CASE BeginEffect
  BY <1>10 DEF BeginEffect, Goes, world
<1>11. ASSUME NEW lost \in BOOLEAN, BodyReturns(lost) PROVE AnswersInv'
  BY <1>11 DEF BodyReturns
<1>12. ASSUME NEW lost \in BOOLEAN, BodyRetried(lost) PROVE AnswersInv'
  BY <1>12 DEF BodyRetried
<1>13. ASSUME NEW status \in {"FAILED", "UNKNOWN"}, BodyFails(status) PROVE AnswersInv'
  BY <1>13 DEF BodyFails, Stops
<1>14. CASE CompleteEffect
  BY <1>14 DEF CompleteEffect, world
<1>15. CASE RegisterCompensation
  BY <1>15 DEF RegisterCompensation, world
<1>16. CASE AppendResponse
  <2>1. pc = "respond" /\ pc' = "model" /\ calls' = [calls EXCEPT ![Len(calls)].answer = result]
    BY <1>16 DEF AppendResponse, Current
  <2>2. calls # <<>> /\ calls \in Seq(Call) /\ result \in Int /\ result # None
    BY <2>1 DEF SessionOK, DriveOK, StashInv
  <2>3. /\ Len(calls') = Len(calls) /\ DOMAIN calls' = DOMAIN calls
        /\ \A f \in DOMAIN calls : calls'[f].answer = IF f = Len(calls) THEN result ELSE calls[f].answer
    BY <2>1, <2>2, AnswerPut
  <2>4. Len(calls) \in DOMAIN calls
    BY <2>2
  <2> QED
    BY <2>1, <2>2, <2>3, <2>4, Zenon
<1>17. CASE Crash
  BY <1>17 DEF Crash, Stops, server, world
<1>18. CASE CallRaises
  BY <1>18 DEF CallRaises, Stops, server, world
<1>19. ASSUME NEW f \in DOMAIN rows, NEW status \in {"CONFIRMED", "FAILED", "UNKNOWN"}, Dispatched(f, status)
       PROVE  AnswersInv'
  BY <1>19 DEF Dispatched, drive, world
<1>20. CASE Cancel
  BY <1>20 DEF Cancel, drive, world
<1>21. CASE UNCHANGED vars
  BY <1>21 DEF vars, server, drive, world
<1> HIDE DEF AnswersInv, InTool, InModel
<1> QED
  BY <1>1, <1>2, <1>3, <1>4, <1>5, <1>6, <1>7, <1>8, <1>9, <1>10, <1>11, <1>12, <1>13, <1>14,
     <1>15, <1>16, <1>17, <1>18, <1>19, <1>20, <1>21, Zenon DEF Next

(* The plugin's key stays the one of the call that is run. *)
LEMMA StashStep ==
  ASSUME SessionOK, AnswersInv, DriveOK, StashInv, DOMAIN rows \subseteq DOMAIN rows', [Next]_vars
  PROVE  StashInv'
<1> USE DEF StashInv, InTool, None
<1>1. ASSUME NEW n \in 0..MaxReplies, BeforeRun(n) PROVE StashInv'
  BY <1>1, Restarts
<1>2. CASE RefuseModel
  BY <1>2 DEF RefuseModel, NumberDecision, InPlaceOfModel, server
<1>3. CASE ReplayDecision
  BY <1>3 DEF ReplayDecision, NumberDecision, InPlaceOfModel, server
<1>4. ASSUME NEW said \in Tool \cup {Final}, AskModel(said) PROVE StashInv'
  BY <1>4 DEF AskModel, NumberDecision, server
<1>5. CASE RecordDecision
  BY <1>5 DEF RecordDecision, world
<1>6. CASE ChargeBudget
  BY <1>6 DEF ChargeBudget, world
<1>7. CASE AppendReply
  <2>1. pc = "event" /\ stash' = stash /\ pc' \in {"down", "tool"}
    BY <1>7 DEF AppendReply
  <2> QED
    BY <2>1
<1>8. CASE DenyTool
  BY <1>8 DEF DenyTool, Goes, Denied
<1>9. CASE BeginFails
  BY <1>9 DEF BeginFails, Goes, Denied
<1>10. CASE BeginEffect
  <2>1. calls' = calls /\ Current \in DOMAIN rows'
    BY <1>10 DEF BeginEffect, Goes, Begun, Put
  <2>2. Recollection(rows'[Current]) # 0
    BY DEF Recollection, Empty, None
  <2>3. \/ pc' = "ran" /\ stash' = Current /\ result' = Recollection(rows'[Current])
        \/ pc' = "respond" /\ stash' = Current /\ result' = Accepted
        \/ pc' = "body" /\ stash' = Current
    BY <1>10, Zenon DEF BeginEffect, Goes
  <2> QED
    BY <2>1, <2>2, <2>3 DEF Current, Accepted
<1>11. ASSUME NEW lost \in BOOLEAN, BodyReturns(lost) PROVE StashInv'
  BY <1>11 DEF BodyReturns, DriveOK
<1>12. ASSUME NEW lost \in BOOLEAN, BodyRetried(lost) PROVE StashInv'
  BY <1>12 DEF BodyRetried
<1>13. ASSUME NEW status \in {"FAILED", "UNKNOWN"}, BodyFails(status) PROVE StashInv'
  BY <1>13 DEF BodyFails, Stops
<1>14. CASE CompleteEffect
  BY <1>14 DEF CompleteEffect, Undoes
<1>15. CASE RegisterCompensation
  BY <1>15 DEF RegisterCompensation, world
<1>16. CASE AppendResponse
  BY <1>16 DEF AppendResponse, CallOver, world
<1>17. CASE Crash
  BY <1>17 DEF Crash, Stops, server, world
<1>18. CASE CallRaises
  BY <1>18 DEF CallRaises, Stops, server, world
<1>19. ASSUME NEW f \in DOMAIN rows, NEW status \in {"CONFIRMED", "FAILED", "UNKNOWN"}, Dispatched(f, status)
       PROVE  StashInv'
  BY <1>19 DEF Dispatched, drive, world
<1>20. CASE Cancel
  BY <1>20 DEF Cancel, drive, world
<1>21. CASE UNCHANGED vars
  BY <1>21 DEF vars, server, drive, world
<1> HIDE DEF StashInv, InTool, None
<1> QED
  BY <1>1, <1>2, <1>3, <1>4, <1>5, <1>6, <1>7, <1>8, <1>9, <1>10, <1>11, <1>12, <1>13, <1>14,
     <1>15, <1>16, <1>17, <1>18, <1>19, <1>20, <1>21, Zenon DEF Next

(* The counters keep their types. *)
LEMMA CountsStep ==
  ASSUME CountsOK, Writes
  PROVE  CountsOK'
  BY DEF CountsOK, Writes

(* The type invariant, with what it needs of the runner and the key. *)
TypeInv ==
  /\ DriveOK /\ SessionOK /\ DecisionsOK /\ RowsOK /\ LandedOK /\ CountsOK
  /\ CallInv

(* It holds initially ... *)
LEMMA TypeInit == Init => TypeInv
<1> SUFFICES ASSUME Init PROVE TypeInv
  OBVIOUS
<1>1. DriveOK /\ SessionOK
  BY DEF Init, DriveOK, SessionOK, None
<1>2. DecisionsOK /\ RowsOK /\ LandedOK /\ CountsOK
  BY DEF Init, DecisionsOK, RowsOK, LandedOK, CountsOK
<1>3. CallInv
  BY DEF Init, CallInv, AnswersInv, StashInv, InTool, InModel, None
<1> QED
  BY <1>1, <1>2, <1>3 DEF TypeInv

(* ... and is kept; with it come the frame and the growth of the session. *)
LEMMA TypeStep ==
  ASSUME TypeInv, [Next]_vars
  PROVE  TypeInv' /\ Writes /\ SessionGrows
<1>1. Writes
  BY WhoWrites
<1>2. DriveOK'
  BY DriveStep DEF TypeInv
<1>3. SessionOK' /\ SessionGrows
  BY <1>1, SessionStep DEF TypeInv
<1>4. DecisionsOK' /\ LandedOK' /\ CountsOK'
  BY <1>1, <1>3, DecisionsStep, LandedStep, CountsStep DEF TypeInv
<1>5. RowsOK' /\ DOMAIN rows \subseteq DOMAIN rows'
  BY <1>1, <1>3, RowsStep DEF TypeInv
<1>6. CallInv'
  BY <1>5, AnswersStep, StashStep DEF TypeInv, CallInv
<1> QED
  BY <1>1, <1>2, <1>3, <1>4, <1>5, <1>6 DEF TypeInv

(* The variables of Replay have their types, only the last call of the session can
   be unanswered, and the key the plugin holds is its own (before_tool_callback,
   after_tool_callback, append_event). *)
THEOREM TypeCorrect == Spec => []TypeInv
<1>1. TypeInv /\ [Next]_vars => TypeInv'
  BY TypeStep
<1> QED
  BY <1>1, TypeInit, PTL DEF Spec

-----------------------------------------------------------------------------

(* A response that the model gave and nobody has charged yet. *)
Uncharged == IF pc \in {"reply", "charge"} /\ reply # None THEN 1 ELSE 0

(* The inductive form of OverrunBounded: every response was charged, is about to
   be, or was lost to a crash or a failed call. *)
OverrunInv ==
  TokenCap > 0 => /\ Len(replies) <= spent + crashes + blips + Uncharged
                  /\ OverrunBounded

(* Every step keeps it: the model is asked only when what was spent is within the
   cap, and a response that is not charged costs a crash or a failed call. *)
LEMMA OverrunStep ==
  ASSUME TypeInv, Writes, OverrunInv, TokenCap > 0, [Next]_vars
  PROVE  OverrunInv'
<1>d. posture \in Posture /\ Len(replies) \in Nat /\ spent \in Nat /\ crashes \in Nat /\ blips \in Nat
  BY DEF TypeInv, SessionOK, CountsOK
<1>e. TokenCap \in Nat
  BY <1>d, ReplayAssumption DEF TokenCap
<1>a. /\ Len(replies) \in Nat /\ spent \in Nat /\ crashes \in Nat /\ blips \in Nat /\ TokenCap \in Nat
      /\ blips' \in Nat /\ crashes' \in Nat /\ blips <= blips' /\ crashes <= crashes'
  BY <1>d, <1>e DEF Writes
<1>b. /\ Len(replies) <= spent + crashes + blips + Uncharged
      /\ Len(replies) <= TokenCap + 1 + crashes + blips
  BY DEF OverrunInv, OverrunBounded
<1>c. TokenCap' = TokenCap
  BY DEF Writes, TokenCap
<1> DEFINE Within == /\ Len(replies') <= spent' + crashes' + blips' + Uncharged'
                     /\ Len(replies') <= TokenCap + 1 + crashes' + blips'
<1> SUFFICES Within
  BY <1>c DEF OverrunInv, OverrunBounded
<1> USE <1>a, <1>b DEF Uncharged
<1>1. ASSUME NEW n \in 0..MaxReplies, BeforeRun(n)
      PROVE  Within
  <2>1. pc = "down" /\ pc' \in {"tool", "model"} /\ UNCHANGED <<replies, spent, crashes>>
    BY <1>1, Restarts
  <2> QED
    BY <2>1
<1>2. CASE RefuseModel
  BY <1>2 DEF RefuseModel, NumberDecision, server, InPlaceOfModel, Answered
<1>3. CASE ReplayDecision
  <2>1. pc = "model" /\ UNCHANGED <<replies, spent, crashes, blips>>
    BY <1>3 DEF ReplayDecision, NumberDecision, server, Answered
  <2> QED
    BY <2>1
<1>4. ASSUME NEW said \in Tool \cup {Final}, AskModel(said)
      PROVE  Within
  <2>1. Len(replies') = Len(replies) + 1
    BY <1>4 DEF AskModel, TypeInv, SessionOK
  <2>2. pc = "model" /\ pc' = "reply" /\ spent <= TokenCap /\ UNCHANGED <<spent, crashes>>
    BY <1>4 DEF AskModel, NumberDecision, server, Admitted
  <2>3. reply' # None
    BY <1>4 DEF AskModel, None
  <2>4. Uncharged = 0 /\ Uncharged' = 1
    BY <2>2, <2>3
  <2> QED
    BY <2>1, <2>2, <2>4
<1>5. CASE RecordDecision
  <2>1. pc = "reply" /\ pc' = "charge" /\ UNCHANGED <<replies, spent, crashes, reply>>
    BY <1>5 DEF RecordDecision, world
  <2> QED
    BY <2>1
<1>6. CASE ChargeBudget
  <2>1. pc = "charge" /\ UNCHANGED <<replies, crashes, reply>>
    BY <1>6 DEF ChargeBudget, world
  <2>2. \/ spent' = (IF reply # None THEN spent + 1 ELSE spent)
        \/ spent' = spent /\ blips' = blips + 1
    BY <1>6 DEF ChargeBudget, Blip
  <2> QED
    BY <2>1, <2>2
<1>7. CASE AppendReply
  <2>1. pc = "event" /\ UNCHANGED <<replies, spent, crashes>>
    BY <1>7 DEF AppendReply, world
  <2> QED
    BY <2>1
<1>8. CASE DenyTool
  BY <1>8 DEF DenyTool, Goes, world
<1>9. CASE BeginFails
  <2>1. pc = "tool" /\ UNCHANGED <<replies, spent, crashes>>
    BY <1>9 DEF BeginFails, Goes, world
  <2> QED
    BY <2>1
<1>10. CASE BeginEffect
  <2>1. pc = "tool" /\ UNCHANGED <<replies, spent, crashes>>
    BY <1>10 DEF BeginEffect, Goes, world
  <2> QED
    BY <2>1
<1>11. ASSUME NEW lost \in BOOLEAN, BodyReturns(lost)
       PROVE  Within
  BY <1>11 DEF BodyReturns
<1>12. ASSUME NEW lost \in BOOLEAN, BodyRetried(lost)
       PROVE  Within
  BY <1>12 DEF BodyRetried
<1>13. ASSUME NEW status \in {"FAILED", "UNKNOWN"}, BodyFails(status)
       PROVE  Within
  <2>1. crashes' = crashes + 1 /\ UNCHANGED <<replies, spent>>
    BY <1>13 DEF BodyFails
  <2> QED
    BY <2>1
<1>14. CASE CompleteEffect
  BY <1>14 DEF CompleteEffect, world
<1>15. CASE RegisterCompensation
  BY <1>15 DEF RegisterCompensation, world
<1>16. CASE AppendResponse
  BY <1>16 DEF AppendResponse, CallOver, world
<1>17. CASE Crash
  <2>1. crashes' = crashes + 1 /\ UNCHANGED <<replies, spent>>
    BY <1>17 DEF Crash, server, world
  <2> QED
    BY <2>1
<1>18. CASE CallRaises
  <2>1. blips' = blips + 1 /\ UNCHANGED <<replies, spent, crashes>>
    BY <1>18 DEF CallRaises, Blip, server, world
  <2> QED
    BY <2>1
<1>19. ASSUME NEW f \in DOMAIN rows, NEW status \in {"CONFIRMED", "FAILED", "UNKNOWN"}, Dispatched(f, status)
       PROVE  Within
  BY <1>19 DEF Dispatched, drive, world
<1>20. CASE Cancel
  BY <1>20 DEF Cancel, drive, world
<1>21. CASE UNCHANGED vars
  BY <1>21 DEF vars, server, drive, world
<1> HIDE <1>a, <1>b DEF Uncharged
<1> QED
  BY <1>1, <1>2, <1>3, <1>4, <1>5, <1>6, <1>7, <1>8, <1>9, <1>10, <1>11, <1>12, <1>13, <1>14,
     <1>15, <1>16, <1>17, <1>18, <1>19, <1>20, <1>21, Zenon DEF Next

(* It holds initially. *)
LEMMA OverrunInit == Init => OverrunInv
<1> SUFFICES ASSUME Init, TokenCap > 0 PROVE OverrunInv
  BY DEF OverrunInv
<1>1. posture \in Posture
  BY DEF Init
<1>2. TokenCap \in Nat
  BY <1>1, ReplayAssumption DEF TokenCap
<1> QED
  BY <1>2 DEF Init, OverrunInv, OverrunBounded, Uncharged

(* Budget: whatever the cap, the crashes and the failed calls, the model is asked
   at most once beyond the cap and once for each response that a crash or a failed
   call kept from being charged (admit_budget, charge_budget, set_budget). *)
THEOREM OverrunIsBounded == Spec => []OverrunBounded
<1>1. TypeInv /\ OverrunInv /\ [Next]_vars => (TypeInv /\ OverrunInv)'
  <2> SUFFICES ASSUME TypeInv, OverrunInv, [Next]_vars PROVE TypeInv' /\ OverrunInv'
    OBVIOUS
  <2>1. TypeInv' /\ Writes
    BY TypeStep
  <2>2. TokenCap' = TokenCap
    BY <2>1 DEF Writes, TokenCap
  <2> QED
    BY <2>1, <2>2, OverrunStep DEF OverrunInv
<1>2. OverrunInv => OverrunBounded
  BY DEF OverrunInv, OverrunBounded
<1> QED
  BY <1>1, <1>2, TypeInit, OverrunInit, PTL DEF Spec

-----------------------------------------------------------------------------

(* What a body may send: something that can be repeated, or nothing, as an outbox
   tool's body does. *)
Sendable(d) == d.semantics # "non_idempotent" \/ d.dispatch = "outbox"

(* The inductive form of NonIdempotentNotInline. *)
InlineInv ==
  /\ NonIdempotentNotInline
  /\ pc = "body" => Sendable(CurrentTool)

(* The call that is run has a tool. *)
LEMMA CallTool ==
  ASSUME TypeInv, pc \in InTool
  PROVE  Len(calls) \in DOMAIN calls /\ CurrentTool \in Tool
  BY DEF TypeInv, CallInv, AnswersInv, SessionOK, CurrentTool, Current

(* The tool of the call that is run does not change under it. *)
LEMMA ToolKept ==
  ASSUME TypeInv, pc \in InTool, SessionGrows, calls' = calls
  PROVE  CurrentTool' = CurrentTool
<1>1. Len(calls) \in DOMAIN calls /\ calls[Len(calls)].reply \in DOMAIN replies
  BY CallTool DEF TypeInv, SessionOK
<1> QED
  BY <1>1 DEF SessionGrows, CurrentTool, Current, Replied

(* Only before_tool_callback starts a body, and it starts none of a non-idempotent
   inline tool, with or without the server's answer. *)
LEMMA InlineStep ==
  ASSUME TypeInv, Writes, SessionGrows, InlineInv, [Next]_vars
  PROVE  InlineInv'
<1>a. NonIdempotentNotInline'
  <2>1. CASE landed' = landed
    BY <2>1 DEF InlineInv, NonIdempotentNotInline, Replied, SessionGrows, TypeInv, LandedOK
  <2>2. CASE pc = "body" /\ Lands /\ UNCHANGED <<replies, calls>>
    <3>1. CASE CurrentTool.dispatch = "outbox"
      <4>1. landed' = landed
        BY <2>2, <3>1 DEF Lands
      <4> QED
        BY <2>1, <4>1
    <3>2. CASE CurrentTool.dispatch # "outbox"
      <4>1. DOMAIN landed' = DOMAIN landed \cup {calls[Len(calls)].reply}
        BY <2>2, <3>2 DEF Lands, Put, Current
      <4>2. CurrentTool.semantics # "non_idempotent"
        BY <2>2, <3>2 DEF InlineInv, Sendable
      <4> QED
        BY <2>2, <4>1, <4>2 DEF InlineInv, NonIdempotentNotInline, Replied, CurrentTool, Current
    <3> QED
      BY <3>1, <3>2
  <2> QED
    BY <2>1, <2>2 DEF Writes
<1> SUFFICES ASSUME pc' = "body" PROVE Sendable(CurrentTool')
  BY <1>a DEF InlineInv, Sendable
<1>1. ASSUME NEW n \in 0..MaxReplies, BeforeRun(n) PROVE Sendable(CurrentTool')
  BY <1>1, Restarts
<1>2. CASE RefuseModel
  BY <1>2 DEF RefuseModel, NumberDecision, InPlaceOfModel, server
<1>3. CASE ReplayDecision
  BY <1>3 DEF ReplayDecision, NumberDecision, InPlaceOfModel, server
<1>4. ASSUME NEW said \in Tool \cup {Final}, AskModel(said) PROVE Sendable(CurrentTool')
  BY <1>4 DEF AskModel, NumberDecision, server
<1>5. CASE RecordDecision
  BY <1>5 DEF RecordDecision, world
<1>6. CASE ChargeBudget
  BY <1>6 DEF ChargeBudget, world
<1>7. CASE AppendReply
  BY <1>7 DEF AppendReply, world
<1>8. CASE DenyTool
  BY <1>8 DEF DenyTool, Goes, world
<1>9. CASE BeginFails
  <2>1. pc = "tool" /\ calls' = calls /\ ~Guarded(CurrentTool)
    BY <1>9 DEF BeginFails, Goes
  <2>2. CurrentTool' = CurrentTool
    BY <2>1, ToolKept DEF InTool
  <2> QED
    BY <2>1, <2>2 DEF Guarded, Sendable
<1>10. CASE BeginEffect
  <2>1. pc = "tool" /\ calls' = calls /\ ~Refused(CurrentTool)
    BY <1>10, Zenon DEF BeginEffect, Goes
  <2>2. CurrentTool' = CurrentTool
    BY <2>1, ToolKept DEF InTool
  <2>3. CurrentTool.dispatch \in {"inline", "outbox"}
    BY <2>1, CallTool, ReplayAssumption DEF InTool, Tool
  <2> QED
    BY <2>1, <2>2, <2>3 DEF Refused, Sendable
<1>11. ASSUME NEW lost \in BOOLEAN, BodyReturns(lost) PROVE Sendable(CurrentTool')
  BY <1>11 DEF BodyReturns
<1>12. ASSUME NEW lost \in BOOLEAN, BodyRetried(lost) PROVE Sendable(CurrentTool')
  <2>1. pc = "body" /\ calls' = calls
    BY <1>12 DEF BodyRetried
  <2> QED
    BY <2>1, ToolKept DEF InlineInv, InTool
<1>13. ASSUME NEW status \in {"FAILED", "UNKNOWN"}, BodyFails(status)
       PROVE  Sendable(CurrentTool')
  BY <1>13 DEF BodyFails, Stops
<1>14. CASE CompleteEffect
  BY <1>14 DEF CompleteEffect, world
<1>15. CASE RegisterCompensation
  BY <1>15 DEF RegisterCompensation, world
<1>16. CASE AppendResponse
  BY <1>16 DEF AppendResponse, CallOver, world
<1>17. CASE Crash
  BY <1>17 DEF Crash, Stops, server, world
<1>18. CASE CallRaises
  BY <1>18 DEF CallRaises, Stops, server, world
<1>19. ASSUME NEW f \in DOMAIN rows, NEW status \in {"CONFIRMED", "FAILED", "UNKNOWN"}, Dispatched(f, status)
       PROVE  Sendable(CurrentTool')
  <2>1. pc' = pc /\ calls' = calls
    BY <1>19 DEF Dispatched, drive
  <2> QED
    BY <2>1, ToolKept DEF InlineInv, InTool
<1>20. CASE Cancel
  <2>1. pc' = pc /\ calls' = calls
    BY <1>20 DEF Cancel, drive
  <2> QED
    BY <2>1, ToolKept DEF InlineInv, InTool
<1>21. CASE UNCHANGED vars
  <2>1. pc' = pc /\ calls' = calls
    BY <1>21 DEF vars, server, drive
  <2> QED
    BY <2>1, ToolKept DEF InlineInv, InTool
<1> QED
  BY <1>1, <1>2, <1>3, <1>4, <1>5, <1>6, <1>7, <1>8, <1>9, <1>10, <1>11, <1>12, <1>13, <1>14,
     <1>15, <1>16, <1>17, <1>18, <1>19, <1>20, <1>21, Zenon DEF Next

(* It holds initially. *)
LEMMA InlineInit == Init => InlineInv
  BY DEF Init, InlineInv, NonIdempotentNotInline

-----------------------------------------------------------------------------

(* The response the drive holds is the decision at its index: from record_decision
   on, and before it when there was one. *)
ReplyIsDecision ==
  /\ (pc \in {"charge", "event"} /\ reply # None) => dlast \in DOMAIN decisions /\ decisions[dlast] = reply
  /\ (pc = "reply" /\ reply # None /\ dlast \in DOMAIN decisions) => decisions[dlast] = reply

(* The inductive form of ExecutedIsRecorded. *)
RecordInv == blips = 0 => ReplyIsDecision /\ ExecutedIsRecorded

(* No decision is taken back or replaced (record_decision). *)
LEMMA DecisionsKept ==
  ASSUME Writes, decisions = [i \in DOMAIN decisions |-> decisions[i]]
  PROVE  DOMAIN decisions \subseteq DOMAIN decisions' /\ \A i \in DOMAIN decisions : decisions'[i] = decisions[i]
<1>1. CASE decisions' = decisions
  BY <1>1
<1>2. CASE RecordDecision
  <2>1. decisions' = decisions \/ (dlast \notin DOMAIN decisions /\ decisions' = Put(decisions, dlast, reply))
    BY <1>2 DEF RecordDecision, Recorded
  <2> QED
    BY <2>1 DEF Put
<1> QED
  BY <1>1, <1>2 DEF Writes

(* While the server answers, the drive's response stays the decision at its index.
   *)
LEMMA ReplyStep ==
  ASSUME TypeInv, ReplyIsDecision, blips' = blips, [Next]_vars
  PROVE  ReplyIsDecision'
<1>a. blips \in Nat
  BY DEF TypeInv, CountsOK
<1> USE DEF ReplyIsDecision
<1>1. ASSUME NEW n \in 0..MaxReplies, BeforeRun(n) PROVE ReplyIsDecision'
  BY <1>1, Restarts
<1>2. CASE RefuseModel
  BY <1>2 DEF RefuseModel, NumberDecision, InPlaceOfModel, server
<1>3. CASE ReplayDecision
  BY <1>3 DEF ReplayDecision, NumberDecision, InPlaceOfModel, server
<1>4. ASSUME NEW said \in Tool \cup {Final}, AskModel(said) PROVE ReplyIsDecision'
  <2>1. pc' = "reply" /\ dlast' = dnext /\ decisions' = decisions
    BY <1>4 DEF AskModel, NumberDecision, server
  <2>2. dnext \notin DOMAIN decisions
    BY <1>4, <1>a DEF AskModel, Blip
  <2> QED
    BY <2>1, <2>2
<1>5. CASE RecordDecision
  <2>1. pc = "reply" /\ pc' = "charge" /\ dlast' = dlast /\ reply' = reply
    BY <1>5 DEF RecordDecision
  <2>2. decisions' = Recorded
    BY <1>5, <1>a DEF RecordDecision, Blip
  <2>3. CASE dlast \in DOMAIN decisions
    BY <2>1, <2>2, <2>3 DEF Recorded
  <2>4. CASE dlast \notin DOMAIN decisions
    BY <2>1, <2>2, <2>4 DEF Recorded, Put
  <2> QED
    BY <2>3, <2>4
<1>6. CASE ChargeBudget
  BY <1>6 DEF ChargeBudget, world
<1>7. CASE AppendReply
  <2>1. reply' = None
    BY <1>7 DEF AppendReply
  <2> QED
    BY <2>1
<1>8. CASE DenyTool
  BY <1>8 DEF DenyTool, Goes, world
<1>9. CASE BeginFails
  BY <1>9 DEF BeginFails, Goes, world
<1>10. CASE BeginEffect
  <2>1. pc' \notin {"reply", "charge", "event"}
    BY <1>10 DEF BeginEffect, Goes
  <2> QED
    BY <2>1
<1>11. ASSUME NEW lost \in BOOLEAN, BodyReturns(lost) PROVE ReplyIsDecision'
  BY <1>11 DEF BodyReturns
<1>12. ASSUME NEW lost \in BOOLEAN, BodyRetried(lost) PROVE ReplyIsDecision'
  BY <1>12 DEF BodyRetried
<1>13. ASSUME NEW status \in {"FAILED", "UNKNOWN"}, BodyFails(status) PROVE ReplyIsDecision'
  BY <1>13 DEF BodyFails, Stops
<1>14. CASE CompleteEffect
  BY <1>14 DEF CompleteEffect, world
<1>15. CASE RegisterCompensation
  BY <1>15 DEF RegisterCompensation, world
<1>16. CASE AppendResponse
  BY <1>16 DEF AppendResponse, CallOver, world
<1>17. CASE Crash
  BY <1>17 DEF Crash, Stops, server, world
<1>18. CASE CallRaises
  BY <1>18 DEF CallRaises, Stops, server, world
<1>19. ASSUME NEW f \in DOMAIN rows, NEW status \in {"CONFIRMED", "FAILED", "UNKNOWN"}, Dispatched(f, status)
       PROVE  ReplyIsDecision'
  BY <1>19 DEF Dispatched, drive, world
<1>20. CASE Cancel
  BY <1>20 DEF Cancel, drive, world
<1>21. CASE UNCHANGED vars
  BY <1>21 DEF vars, server, drive, world
<1> HIDE DEF ReplyIsDecision
<1> QED
  BY <1>1, <1>2, <1>3, <1>4, <1>5, <1>6, <1>7, <1>8, <1>9, <1>10, <1>11, <1>12, <1>13, <1>14,
     <1>15, <1>16, <1>17, <1>18, <1>19, <1>20, <1>21, Zenon DEF Next

(* While the server answers, a call is saved only from the decision at its index.
   *)
LEMMA ExecutedStep ==
  ASSUME TypeInv, Writes, SessionGrows, RecordInv, blips = 0
  PROVE  \A f \in DOMAIN calls' : At(decisions', calls'[f].index, None) = calls'[f].reply
<1>1. \A i \in DOMAIN decisions : i \in DOMAIN decisions' /\ decisions'[i] = decisions[i]
  BY DecisionsKept DEF TypeInv, DecisionsOK
<1>2. calls \in Seq(Call) /\ \A f \in DOMAIN calls : calls[f].reply \in DOMAIN replies
  BY DEF TypeInv, SessionOK
<1>3. \A m \in DOMAIN replies : m # None
  BY DEF TypeInv, SessionOK, None
<1>4. ReplyIsDecision /\ \A f \in DOMAIN calls : At(decisions, calls[f].index, None) = calls[f].reply
  BY DEF RecordInv, ExecutedIsRecorded
<1>5. ASSUME NEW f \in DOMAIN calls
      PROVE  At(decisions', calls'[f].index, None) = calls'[f].reply
  <2>1. calls'[f].index = calls[f].index /\ calls'[f].reply = calls[f].reply
    BY DEF SessionGrows
  <2>2. calls[f].index \in DOMAIN decisions /\ decisions[calls[f].index] = calls[f].reply
    BY <1>2, <1>3, <1>4 DEF At
  <2> QED
    BY <1>1, <2>1, <2>2 DEF At
<1>6. CASE DOMAIN calls' = DOMAIN calls
  BY <1>5, <1>6
<1>7. CASE pc = "event" /\ reply \in DOMAIN replies /\ calls' = Append(calls, [reply |-> reply, index |-> dlast, answer |-> None])
  <2>1. /\ DOMAIN calls' = DOMAIN calls \cup {Len(calls) + 1}
        /\ calls'[Len(calls) + 1] = [reply |-> reply, index |-> dlast, answer |-> None]
    BY <1>2, <1>7
  <2>2. dlast \in DOMAIN decisions /\ decisions[dlast] = reply
    BY <1>3, <1>4, <1>7 DEF ReplyIsDecision
  <2>3. At(decisions', calls'[Len(calls) + 1].index, None) = calls'[Len(calls) + 1].reply
    BY <1>1, <2>1, <2>2 DEF At
  <2> QED
    BY <1>5, <2>1, <2>3
<1>8. CASE calls' = [calls EXCEPT ![Len(calls)].answer = result]
  <2>1. DOMAIN calls' = DOMAIN calls
    BY <1>8
  <2> QED
    BY <1>6, <2>1
<1>9. SessionMoves
  BY SessionMoved DEF TypeInv
<1> QED
  BY <1>6, <1>7, <1>8, <1>9 DEF SessionMoves

(* Every step keeps RecordInv. *)
LEMMA RecordStep ==
  ASSUME TypeInv, Writes, SessionGrows, RecordInv, [Next]_vars
  PROVE  RecordInv'
<1> SUFFICES ASSUME blips' = 0 PROVE ReplyIsDecision' /\ ExecutedIsRecorded'
  BY DEF RecordInv
<1>1. blips = 0
  BY DEF Writes, TypeInv, CountsOK
<1>2. ReplyIsDecision'
  BY <1>1, ReplyStep DEF RecordInv
<1>3. ExecutedIsRecorded'
  BY <1>1, ExecutedStep DEF ExecutedIsRecorded, At
<1> QED
  BY <1>2, <1>3

(* Journal: while the server answers, every call the session holds is the decision
   recorded at its index, after any number of crashes and re-drives
   (_count_decisions, before_model_callback, after_model_callback). *)
THEOREM ExecutionIsRecorded == Spec => []ExecutedIsRecorded
<1>1. Init => RecordInv
  BY DEF Init, RecordInv, ReplyIsDecision, ExecutedIsRecorded
<1>2. TypeInv /\ RecordInv /\ [Next]_vars => (TypeInv /\ RecordInv)'
  BY TypeStep, RecordStep
<1>3. RecordInv => ExecutedIsRecorded
  BY DEF RecordInv, ExecutedIsRecorded
<1> QED
  BY <1>1, <1>2, <1>3, TypeInit, PTL DEF Spec
=============================================================================
