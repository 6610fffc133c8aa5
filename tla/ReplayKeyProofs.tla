-------------------------- MODULE ReplayKeyProofs ---------------------------
(* Theorems about Replay: what tool bodies send can be repeated. *)
EXTENDS ReplayLedgerProofs, FiniteSetTheorems

-----------------------------------------------------------------------------

(* Before its first drive a run has neither decisions nor calls. *)
BegunInv == begun = TRUE \/ (begun = FALSE /\ decisions = <<>> /\ calls = <<>> /\ pc = "down")

(* The journal holds the decisions 0 to k - 1. *)
Counted(k) == k \in Nat /\ DOMAIN decisions = 0..(k - 1)

(* The journal has no gap. *)
DenseInv == \E k : Counted(k)

(* The drive numbers its decisions behind the recorded ones and behind those of
   the saved calls, and no two calls share an index. *)
IndexInv ==
  /\ pc \in InTool \cup {"model"} =>
       0..(dnext - 1) \subseteq DOMAIN decisions /\ \A f \in DOMAIN calls : calls[f].index < dnext
  /\ pc \in {"reply", "charge", "event"} =>
       /\ 0..(dlast - 1) \subseteq DOMAIN decisions /\ dnext = dlast + 1
       /\ \A f \in DOMAIN calls : calls[f].index < dlast
  /\ \A f, g \in DOMAIN calls : calls[f].index = calls[g].index => f = g

(* No response of the model is recorded twice. *)
OnceInv ==
  /\ \A i, j \in DOMAIN decisions : decisions[i] = decisions[j] /\ decisions[i] # None => i = j
  /\ (pc = "reply" /\ reply # None /\ dlast \notin DOMAIN decisions) => \A i \in DOMAIN decisions : decisions[i] # reply

(* What landed for a response landed under the key of one call. *)
LandedInv ==
  \A m \in DOMAIN landed : ~Refused(Replied(m)) => \E f \in DOMAIN calls : calls[f].reply = m /\ landed[m] \subseteq {f}

(* The inductive form of OneKeyPerDecision. *)
KeyInv == blips = 0 => DenseInv /\ IndexInv /\ OnceInv /\ LandedInv

(* _count_decisions counts a journal without gaps to its end. *)
LEMMA CountIs ==
  ASSUME NEW k, Counted(k)
  PROVE  CountDecisions = k
<1>1. Cardinality(0..(k - 1)) = k
  BY FS_Interval DEF Counted
<1> DEFINE P(n) == 0..(n - 1) \subseteq DOMAIN decisions /\ n \notin DOMAIN decisions
<1>2. CountDecisions = CHOOSE n \in 0..k : P(n)
  BY <1>1 DEF CountDecisions, Counted
<1>3. k \in 0..k /\ P(k)
  BY DEF Counted
<1>4. ASSUME NEW n \in 0..k, P(n) PROVE n = k
  BY <1>4 DEF Counted
<1> HIDE DEF P
<1> QED
  BY <1>2, <1>3, <1>4

(* While the server answers, a re-drive goes on behind the last decision. *)
LEMMA RestartCounts ==
  ASSUME TypeInv, BegunInv, NEW k, Counted(k), NEW n \in 0..MaxReplies, BeforeRun(n), blips' = blips
  PROVE  n = k
<1>1. CASE begun = TRUE
  <2>1. n <= k
    BY <1>1, CountIs DEF BeforeRun
  <2>2. ~Blip
    BY DEF Blip, TypeInv, CountsOK
  <2>3. ~(n < k)
    BY <1>1, <2>2, CountIs DEF BeforeRun
  <2> QED
    BY <2>1, <2>3 DEF Counted
<1>2. CASE begun = FALSE /\ decisions = <<>>
  <2>1. n = 0
    BY <1>2 DEF BeforeRun
  <2>2. k = 0
    BY <1>2 DEF Counted
  <2> QED
    BY <2>1, <2>2
<1> QED
  BY <1>1, <1>2, Zenon DEF BegunInv

(* Every step keeps BegunInv. *)
LEMMA BegunStep ==
  ASSUME BegunInv, [Next]_vars
  PROVE  BegunInv'
<1> USE DEF BegunInv
<1>1. ASSUME NEW n \in 0..MaxReplies, BeforeRun(n) PROVE BegunInv'
  BY <1>1 DEF BeforeRun
<1>2. CASE RefuseModel
  BY <1>2 DEF RefuseModel, NumberDecision, InPlaceOfModel, server
<1>3. CASE ReplayDecision
  BY <1>3 DEF ReplayDecision, NumberDecision, InPlaceOfModel, server
<1>4. ASSUME NEW said \in Tool \cup {Final}, AskModel(said) PROVE BegunInv'
  BY <1>4 DEF AskModel, NumberDecision, server
<1>5. CASE RecordDecision
  BY <1>5 DEF RecordDecision
<1>6. CASE ChargeBudget
  BY <1>6 DEF ChargeBudget
<1>7. CASE AppendReply
  BY <1>7 DEF AppendReply
<1>8. CASE DenyTool
  BY <1>8 DEF DenyTool, Goes
<1>9. CASE BeginFails
  BY <1>9, Zenon DEF BeginFails, Goes
<1>10. CASE BeginEffect
  BY <1>10, Zenon DEF BeginEffect, Goes
<1>11. ASSUME NEW lost \in BOOLEAN, BodyReturns(lost) PROVE BegunInv'
  BY <1>11 DEF BodyReturns
<1>12. ASSUME NEW lost \in BOOLEAN, BodyRetried(lost) PROVE BegunInv'
  BY <1>12 DEF BodyRetried
<1>13. ASSUME NEW status \in {"FAILED", "UNKNOWN"}, BodyFails(status) PROVE BegunInv'
  BY <1>13 DEF BodyFails
<1>14. CASE CompleteEffect
  BY <1>14 DEF CompleteEffect
<1>15. CASE RegisterCompensation
  BY <1>15 DEF RegisterCompensation
<1>16. CASE AppendResponse
  BY <1>16 DEF AppendResponse
<1>17. CASE Crash
  BY <1>17 DEF Crash, server
<1>18. CASE CallRaises
  BY <1>18 DEF CallRaises, server
<1>19. ASSUME NEW f \in DOMAIN rows, NEW status \in {"CONFIRMED", "FAILED", "UNKNOWN"}, Dispatched(f, status)
       PROVE  BegunInv'
  BY <1>19 DEF Dispatched, drive
<1>20. CASE Cancel
  BY <1>20 DEF Cancel, drive
<1>21. CASE UNCHANGED vars
  BY <1>21 DEF vars, server, drive, world
<1> HIDE DEF BegunInv
<1> QED
  BY <1>1, <1>2, <1>3, <1>4, <1>5, <1>6, <1>7, <1>8, <1>9, <1>10, <1>11, <1>12, <1>13, <1>14,
     <1>15, <1>16, <1>17, <1>18, <1>19, <1>20, <1>21, Zenon DEF Next

(* A decision is recorded at the end of the journal. *)
LEMMA DenseStep ==
  ASSUME TypeInv, Writes, DenseInv, IndexInv, blips' = blips
  PROVE  DenseInv'
<1>1. PICK k : Counted(k)
  BY DEF DenseInv
<1>2. CASE decisions' = decisions
  <2>1. Counted(k)'
    BY <1>1, <1>2 DEF Counted
  <2> QED
    BY <2>1 DEF DenseInv
<1>3. CASE RecordDecision /\ dlast \notin DOMAIN decisions /\ decisions' = Put(decisions, dlast, reply)
  <2>1. pc = "reply" /\ dlast \in Nat
    BY <1>3 DEF RecordDecision, TypeInv, DriveOK
  <2>2. 0..(dlast - 1) \subseteq DOMAIN decisions
    BY <2>1 DEF IndexInv
  <2>3. dlast = k
    BY <1>1, <1>3, <2>1, <2>2 DEF Counted
  <2>4. DOMAIN decisions' = DOMAIN decisions \cup {dlast}
    BY <1>3 DEF Put
  <2>5. Counted(k + 1)'
    BY <1>1, <2>3, <2>4 DEF Counted
  <2> QED
    BY <2>5 DEF DenseInv
<1>4. CASE RecordDecision
  <2>1. decisions' = decisions \/ (dlast \notin DOMAIN decisions /\ decisions' = Put(decisions, dlast, reply))
    BY <1>4 DEF RecordDecision, Recorded
  <2> QED
    BY <1>2, <1>3, <1>4, <2>1
<1> QED
  BY <1>2, <1>4 DEF Writes

(* Every step keeps IndexInv. *)
LEMMA IndexStep ==
  ASSUME TypeInv, BegunInv, ReplyIsDecision, ExecutedIsRecorded, DenseInv, IndexInv, Writes, blips' = blips, blips = 0, [Next]_vars
  PROVE  IndexInv'
<1>a. /\ blips \in Nat /\ dnext \in Nat /\ dlast \in Int
      /\ pc \in {"reply", "charge", "event"} => dlast \in Nat
  BY DEF TypeInv, CountsOK, DriveOK
<1>b. PICK k : Counted(k)
  BY DEF DenseInv
<1>c. \A f \in DOMAIN calls : calls[f].index \in Int
  <2>1. \A f \in DOMAIN calls : calls[f] \in Call
    BY DEF TypeInv, SessionOK
  <2> QED
    BY <2>1 DEF Call
<1> USE DEF IndexInv, InTool
<1>1. ASSUME NEW n \in 0..MaxReplies, BeforeRun(n) PROVE IndexInv'
  <2>1. UNCHANGED <<decisions, calls>> /\ pc' \in {"tool", "model"} /\ dnext' = n
    BY <1>1, Restarts
  <2>2. n = k
    BY <1>1, <1>b, RestartCounts
  <2>3. \A f \in DOMAIN calls : calls[f].index < n
    <3> SUFFICES ASSUME NEW f \in DOMAIN calls PROVE calls[f].index < n
      OBVIOUS
    <3>1. calls[f].reply # None
      BY DEF TypeInv, SessionOK, None
    <3>2. calls[f].index \in DOMAIN decisions
      BY <3>1 DEF ExecutedIsRecorded, At
    <3> QED
      BY <1>b, <2>2, <3>2 DEF Counted
  <2>4. DOMAIN decisions = 0..(n - 1)
    BY <1>b, <2>2 DEF Counted
  <2> QED
    BY <2>1, <2>3, <2>4
<1>2. CASE RefuseModel
  <2>1. UNCHANGED <<decisions, calls>> /\ pc = "model" /\ pc' \in {"reply", "event"} /\ dlast' = dnext /\ dnext' = dnext + 1
    BY <1>2 DEF RefuseModel, NumberDecision, InPlaceOfModel, server
  <2> QED
    BY <2>1, <1>a
<1>3. CASE ReplayDecision
  <2>1. UNCHANGED <<decisions, calls>> /\ pc = "model" /\ pc' \in {"reply", "event"} /\ dlast' = dnext /\ dnext' = dnext + 1
    BY <1>3 DEF ReplayDecision, NumberDecision, InPlaceOfModel, server
  <2> QED
    BY <2>1, <1>a
<1>4. ASSUME NEW said \in Tool \cup {Final}, AskModel(said) PROVE IndexInv'
  <2>1. UNCHANGED <<decisions, calls>> /\ pc = "model" /\ pc' = "reply" /\ dlast' = dnext /\ dnext' = dnext + 1
    BY <1>4 DEF AskModel, NumberDecision, server
  <2> QED
    BY <2>1, <1>a
<1>5. CASE RecordDecision
  <2>1. pc = "reply" /\ pc' = "charge" /\ UNCHANGED <<dlast, dnext, calls>>
    BY <1>5 DEF RecordDecision
  <2>2. DOMAIN decisions \subseteq DOMAIN decisions'
    BY DecisionsKept DEF TypeInv, DecisionsOK
  <2> QED
    BY <2>1, <2>2
<1>6. CASE ChargeBudget
  <2>1. UNCHANGED <<decisions, calls, dlast, dnext>> /\ pc = "charge" /\ pc' = "event"
    BY <1>6 DEF ChargeBudget
  <2> QED
    BY <2>1
<1>7. CASE AppendReply
  <2>1. pc = "event" /\ UNCHANGED <<decisions, dlast, dnext>>
    BY <1>7 DEF AppendReply
  <2>2. CASE reply = None \/ Replied(reply) = Final
    <3>1. pc' = "down" /\ calls' = calls
      BY <1>7, <2>2 DEF AppendReply
    <3> QED
      BY <2>1, <3>1
  <2>3. CASE ~(reply = None \/ Replied(reply) = Final)
    <3>1. pc' = "tool" /\ calls' = Append(calls, [reply |-> reply, index |-> dlast, answer |-> None])
      BY <1>7, <2>3 DEF AppendReply
    <3>2. /\ DOMAIN calls' = DOMAIN calls \cup {Len(calls) + 1} /\ Len(calls) + 1 \notin DOMAIN calls
          /\ calls'[Len(calls) + 1].index = dlast
          /\ \A f \in DOMAIN calls : calls'[f] = calls[f]
      BY <3>1 DEF TypeInv, SessionOK
    <3>3. dlast \in DOMAIN decisions
      BY <2>1, <2>3 DEF ReplyIsDecision
    <3>4. /\ 0..(dlast - 1) \subseteq DOMAIN decisions /\ dnext = dlast + 1
          /\ \A f \in DOMAIN calls : calls[f].index < dlast
          /\ \A f, g \in DOMAIN calls : calls[f].index = calls[g].index => f = g
      BY <2>1
    <3>a. 0..(dnext - 1) \subseteq 0..(dlast - 1) \cup {dlast}
      BY <1>a, <2>1, <3>4
    <3>5. /\ 0..(dnext - 1) \subseteq DOMAIN decisions
          /\ \A f \in DOMAIN calls : calls[f].index \in Int
      BY <1>c, <3>3, <3>4, <3>a
    <3>6. \A f \in DOMAIN calls' : calls'[f].index < dnext
      BY <1>a, <3>2, <3>4, <3>5
    <3>7. \A f, g \in DOMAIN calls' : calls'[f].index = calls'[g].index => f = g
      BY <1>a, <3>2, <3>4, <3>5
    <3> QED
      BY <2>1, <3>1, <3>5, <3>6, <3>7
  <2> QED
    BY <2>2, <2>3
<1>8. CASE DenyTool
  <2>1. UNCHANGED <<decisions, calls, dnext>> /\ pc = "tool" /\ pc' = "respond"
    BY <1>8 DEF DenyTool, Goes
  <2> QED
    BY <2>1
<1>9. CASE BeginFails
  <2>1. UNCHANGED <<decisions, calls, dnext>> /\ pc = "tool" /\ pc' \in {"respond", "body"}
    BY <1>9 DEF BeginFails, Goes
  <2> QED
    BY <2>1
<1>10. CASE BeginEffect
  <2>1. UNCHANGED <<decisions, calls, dnext>> /\ pc = "tool" /\ pc' \in {"ran", "respond", "body"}
    BY <1>10 DEF BeginEffect, Goes
  <2> QED
    BY <2>1
<1>11. ASSUME NEW lost \in BOOLEAN, BodyReturns(lost) PROVE IndexInv'
  <2>1. UNCHANGED <<decisions, calls, dnext>> /\ pc = "body" /\ pc' = "ran"
    BY <1>11 DEF BodyReturns
  <2> QED
    BY <2>1
<1>12. ASSUME NEW lost \in BOOLEAN, BodyRetried(lost) PROVE IndexInv'
  <2>1. UNCHANGED <<decisions, calls, dnext, pc>> /\ pc = "body"
    BY <1>12 DEF BodyRetried
  <2> QED
    BY <2>1
<1>13. ASSUME NEW status \in {"FAILED", "UNKNOWN"}, BodyFails(status) PROVE IndexInv'
  <2>1. UNCHANGED <<decisions, calls>> /\ pc' = "down"
    BY <1>13 DEF BodyFails, Stops
  <2> QED
    BY <2>1
<1>14. CASE CompleteEffect
  <2>1. UNCHANGED <<decisions, calls, dnext>> /\ pc = "ran" /\ pc' \in {"undo", "respond"}
    BY <1>14 DEF CompleteEffect
  <2> QED
    BY <2>1
<1>15. CASE RegisterCompensation
  <2>1. UNCHANGED <<decisions, calls, dnext>> /\ pc = "undo" /\ pc' = "respond"
    BY <1>15 DEF RegisterCompensation
  <2> QED
    BY <2>1
<1>16. CASE AppendResponse
  <2>1. /\ UNCHANGED <<decisions, dnext>> /\ pc = "respond" /\ pc' = "model"
        /\ calls' = [calls EXCEPT ![Len(calls)].answer = result]
    BY <1>16 DEF AppendResponse, Current
  <2>2. calls # <<>> /\ calls \in Seq(Call) /\ result \in Int
    BY <2>1 DEF TypeInv, SessionOK, DriveOK, CallInv, AnswersInv, InTool
  <2>3. DOMAIN calls' = DOMAIN calls /\ \A f \in DOMAIN calls : calls'[f].index = calls[f].index
    BY <2>1, <2>2, AnswerPut
  <2> QED
    BY <2>1, <2>3
<1>17. CASE Crash
  <2>1. UNCHANGED <<decisions, calls>> /\ pc' = "down"
    BY <1>17 DEF Crash, Stops, server
  <2> QED
    BY <2>1
<1>18. CASE CallRaises
  <2>1. UNCHANGED <<decisions, calls>> /\ pc' = "down"
    BY <1>18 DEF CallRaises, Stops, server
  <2> QED
    BY <2>1
<1>19. ASSUME NEW f \in DOMAIN rows, NEW status \in {"CONFIRMED", "FAILED", "UNKNOWN"}, Dispatched(f, status)
       PROVE  IndexInv'
  <2>1. UNCHANGED <<decisions, calls, dnext, dlast, pc>>
    BY <1>19 DEF Dispatched, drive
  <2> QED
    BY <2>1
<1>20. CASE Cancel
  <2>1. UNCHANGED <<decisions, calls, dnext, dlast, pc>>
    BY <1>20 DEF Cancel, drive
  <2> QED
    BY <2>1
<1>21. CASE UNCHANGED vars
  <2>1. UNCHANGED <<decisions, calls, dnext, dlast, pc>>
    BY <1>21 DEF vars, drive, server
  <2> QED
    BY <2>1
<1> HIDE DEF IndexInv, InTool
<1> QED
  BY <1>1, <1>2, <1>3, <1>4, <1>5, <1>6, <1>7, <1>8, <1>9, <1>10, <1>11, <1>12, <1>13, <1>14,
     <1>15, <1>16, <1>17, <1>18, <1>19, <1>20, <1>21, Zenon DEF Next

(* Every step keeps OnceInv. *)
LEMMA OnceStep ==
  ASSUME TypeInv, Writes, OnceInv, blips' = blips, [Next]_vars
  PROVE  OnceInv'
<1>a. blips \in Nat /\ Len(replies) \in Nat /\ \A i \in DOMAIN decisions : decisions[i] \in 0..Len(replies)
  BY DEF TypeInv, CountsOK, SessionOK, DecisionsOK
<1> USE DEF OnceInv
<1>1. ASSUME NEW n \in 0..MaxReplies, BeforeRun(n) PROVE OnceInv'
  BY <1>1, Restarts
<1>2. CASE RefuseModel
  BY <1>2 DEF RefuseModel, NumberDecision, InPlaceOfModel, server
<1>3. CASE ReplayDecision
  <2>1. decisions' = decisions /\ dlast' = dnext /\ dnext \in DOMAIN decisions
    BY <1>3 DEF ReplayDecision, NumberDecision, server
  <2> QED
    BY <2>1
<1>4. ASSUME NEW said \in Tool \cup {Final}, AskModel(said) PROVE OnceInv'
  <2>1. decisions' = decisions /\ reply' = Len(replies) + 1
    BY <1>4 DEF AskModel, NumberDecision, server
  <2> QED
    BY <1>a, <2>1
<1>5. CASE RecordDecision
  <2>1. pc = "reply" /\ pc' = "charge"
    BY <1>5 DEF RecordDecision
  <2>2. decisions' = Recorded
    BY <1>5, <1>a DEF RecordDecision, Blip
  <2>3. CASE dlast \in DOMAIN decisions
    BY <2>1, <2>2, <2>3 DEF Recorded
  <2>4. CASE dlast \notin DOMAIN decisions
    <3>1. /\ DOMAIN decisions' = DOMAIN decisions \cup {dlast} /\ decisions'[dlast] = reply
          /\ \A i \in DOMAIN decisions : decisions'[i] = decisions[i]
      BY <2>2, <2>4 DEF Recorded, Put
    <3>2. reply # None => \A i \in DOMAIN decisions : decisions[i] # reply
      BY <2>1, <2>4
    <3> QED
      BY <2>1, <3>1, <3>2
  <2> QED
    BY <2>3, <2>4
<1>6. CASE ChargeBudget
  BY <1>6 DEF ChargeBudget, world
<1>7. CASE AppendReply
  <2>1. decisions' = decisions /\ reply' = None
    BY <1>7 DEF AppendReply
  <2> QED
    BY <2>1
<1>8. CASE DenyTool
  BY <1>8 DEF DenyTool, Goes, world
<1>9. CASE BeginFails
  <2>1. decisions' = decisions /\ pc' # "reply"
    BY <1>9 DEF BeginFails, Goes
  <2> QED
    BY <2>1
<1>10. CASE BeginEffect
  <2>1. decisions' = decisions /\ pc' # "reply"
    BY <1>10 DEF BeginEffect, Goes
  <2> QED
    BY <2>1
<1>11. ASSUME NEW lost \in BOOLEAN, BodyReturns(lost) PROVE OnceInv'
  BY <1>11 DEF BodyReturns
<1>12. ASSUME NEW lost \in BOOLEAN, BodyRetried(lost) PROVE OnceInv'
  BY <1>12 DEF BodyRetried
<1>13. ASSUME NEW status \in {"FAILED", "UNKNOWN"}, BodyFails(status) PROVE OnceInv'
  BY <1>13 DEF BodyFails, Stops
<1>14. CASE CompleteEffect
  BY <1>14 DEF CompleteEffect, world
<1>15. CASE RegisterCompensation
  BY <1>15 DEF RegisterCompensation, world
<1>16. CASE AppendResponse
  BY <1>16 DEF AppendResponse, CallOver, world
<1>17. CASE Crash
  <2>1. decisions' = decisions /\ pc' = "down"
    BY <1>17 DEF Crash, Stops, server
  <2> QED
    BY <2>1
<1>18. CASE CallRaises
  <2>1. decisions' = decisions /\ pc' = "down"
    BY <1>18 DEF CallRaises, Stops, server
  <2> QED
    BY <2>1
<1>19. ASSUME NEW f \in DOMAIN rows, NEW status \in {"CONFIRMED", "FAILED", "UNKNOWN"}, Dispatched(f, status)
       PROVE  OnceInv'
  BY <1>19 DEF Dispatched, drive, world
<1>20. CASE Cancel
  BY <1>20 DEF Cancel, drive, world
<1>21. CASE UNCHANGED vars
  BY <1>21 DEF vars, server, drive, world
<1> HIDE DEF OnceInv
<1> QED
  BY <1>1, <1>2, <1>3, <1>4, <1>5, <1>6, <1>7, <1>8, <1>9, <1>10, <1>11, <1>12, <1>13, <1>14,
     <1>15, <1>16, <1>17, <1>18, <1>19, <1>20, <1>21, Zenon DEF Next

(* A response of the model makes one call: two calls with the same response have
   the same index. *)
LEMMA OneCallPerReply ==
  ASSUME TypeInv, ExecutedIsRecorded, blips = 0, IndexInv, OnceInv,
         NEW f \in DOMAIN calls, NEW g \in DOMAIN calls, calls[f].reply = calls[g].reply
  PROVE  f = g
<1>1. calls[f].reply # None /\ calls[g].reply # None
  BY DEF TypeInv, SessionOK, None
<1>2. /\ calls[f].index \in DOMAIN decisions /\ decisions[calls[f].index] = calls[f].reply
      /\ calls[g].index \in DOMAIN decisions /\ decisions[calls[g].index] = calls[g].reply
  BY <1>1 DEF ExecutedIsRecorded, At
<1>3. calls[f].index = calls[g].index
  BY <1>1, <1>2 DEF OnceInv
<1> QED
  BY <1>3 DEF IndexInv

(* Every step keeps LandedInv. *)
LEMMA LandedInvStep ==
  ASSUME TypeInv, Writes, SessionGrows, KeyHeld, ExecutedIsRecorded, blips = 0, IndexInv, OnceInv, LandedInv
  PROVE  LandedInv'
<1>1. \A m \in DOMAIN landed : Replied(m)' = Replied(m)
  BY DEF TypeInv, LandedOK, SessionGrows, Replied
<1>2. CASE landed' = landed
  BY <1>1, <1>2 DEF LandedInv, SessionGrows
<1>3. CASE pc = "body" /\ Lands /\ UNCHANGED <<replies, calls>> /\ landed' # landed
  <2> DEFINE c == Len(calls)
             m == calls[c].reply
  <2>1. c \in DOMAIN calls /\ m \in DOMAIN replies /\ c # None
    BY <1>3, CallTool DEF InTool, TypeInv, SessionOK, None
  <2>2. ~Refused(Replied(m)) => stash = c
    BY <1>3 DEF KeyHeld, CurrentTool, Current
  <2>3. ~Refused(Replied(m)) => landed' = Put(landed, m, At(landed, m, {}) \cup {c})
    BY <1>3, <2>1, <2>2, Zenon DEF Lands, Current
  <2>4. DOMAIN landed' = DOMAIN landed \cup {m} /\ \A k \in DOMAIN landed : k # m => landed'[k] = landed[k]
    BY <1>3 DEF Lands, Put, Current
  <2>5. ASSUME ~Refused(Replied(m)) PROVE At(landed, m, {}) \subseteq {c}
    <3>1. CASE m \notin DOMAIN landed
      BY <3>1 DEF At
    <3>2. CASE m \in DOMAIN landed
      <4>1. PICK f \in DOMAIN calls : calls[f].reply = m /\ landed[m] \subseteq {f}
        BY <2>5, <3>2 DEF LandedInv
      <4>2. f = c
        BY <2>1, <4>1, OneCallPerReply
      <4> QED
        BY <3>2, <4>1, <4>2 DEF At
    <3> QED
      BY <3>1, <3>2
  <2>6. ~Refused(Replied(m)) => landed'[m] \subseteq {c}
    BY <2>3, <2>5 DEF Put
  <2> HIDE DEF c, m
  <2>7. ASSUME NEW k \in DOMAIN landed', ~Refused(Replied(k))
        PROVE  \E f \in DOMAIN calls : calls[f].reply = k /\ landed'[k] \subseteq {f}
    <3>1. CASE k = m
      BY <2>1, <2>6, <2>7, <3>1 DEF m
    <3>2. CASE k # m
      BY <2>4, <2>7, <3>2 DEF LandedInv
    <3> QED
      BY <3>1, <3>2
  <2>8. \A k \in DOMAIN landed' : Replied(k)' = Replied(k)
    BY <1>3 DEF Replied
  <2> QED
    BY <1>3, <2>7, <2>8 DEF LandedInv
<1> QED
  BY <1>2, <1>3 DEF Writes

(* Every step keeps KeyInv. *)
LEMMA KeyStep ==
  ASSUME TypeInv, Writes, SessionGrows, RecordInv, UndoInv, BegunInv, KeyInv, [Next]_vars
  PROVE  KeyInv'
<1> SUFFICES ASSUME blips' = 0 PROVE DenseInv' /\ IndexInv' /\ OnceInv' /\ LandedInv'
  BY DEF KeyInv
<1>1. blips = 0 /\ blips' = blips
  BY DEF Writes, TypeInv, CountsOK
<1>2. ReplyIsDecision /\ ExecutedIsRecorded /\ KeyHeld /\ DenseInv /\ IndexInv /\ OnceInv /\ LandedInv
  BY <1>1 DEF RecordInv, UndoInv, KeyInv
<1>3. DenseInv'
  BY <1>1, <1>2, DenseStep
<1>4. IndexInv'
  BY <1>1, <1>2, IndexStep
<1>5. OnceInv'
  BY <1>1, <1>2, OnceStep
<1>6. LandedInv'
  BY <1>1, <1>2, LandedInvStep
<1> QED
  BY <1>3, <1>4, <1>5, <1>6

(* All that BodiesRepeatable rests on. *)
BodiesInv == TypeInv /\ InlineInv /\ RecordInv /\ UndoInv /\ BegunInv /\ KeyInv

(* Tool bodies: nothing non-idempotent leaves a body, ever, and while the server
   answers each decision's call reaches the counterparty under one key, in however
   many drives it is repeated (before_tool_callback, begin_effect, Guarded). *)
THEOREM BodiesAreRepeatable == Spec => []BodiesRepeatable
<1>1. Init => BodiesInv
  <2> SUFFICES ASSUME Init PROVE BodiesInv
    OBVIOUS
  <2>1. TypeInv /\ InlineInv
    BY TypeInit, InlineInit
  <2>2. RecordInv /\ UndoInv /\ BegunInv
    BY DEF Init, RecordInv, ReplyIsDecision, ExecutedIsRecorded, UndoInv, KeyHeld, InverseRegistered, BegunInv
  <2>3. Counted(0)
    BY DEF Init, Counted
  <2>4. KeyInv
    BY <2>3 DEF Init, KeyInv, DenseInv, IndexInv, OnceInv, LandedInv, InTool
  <2> QED
    BY <2>1, <2>2, <2>4 DEF BodiesInv
<1>2. BodiesInv /\ [Next]_vars => BodiesInv'
  <2> SUFFICES ASSUME BodiesInv, [Next]_vars PROVE BodiesInv'
    OBVIOUS
  <2>1. TypeInv /\ InlineInv /\ RecordInv /\ UndoInv /\ BegunInv /\ KeyInv
    BY DEF BodiesInv
  <2>2. TypeInv' /\ Writes /\ SessionGrows
    BY <2>1, TypeStep
  <2>3. InlineInv' /\ RecordInv'
    BY <2>1, <2>2, InlineStep, RecordStep
  <2>4. UndoInv' /\ BegunInv'
    BY <2>1, <2>2, UndoStep, BegunStep
  <2>5. KeyInv'
    BY <2>1, <2>2, KeyStep
  <2> QED
    BY <2>2, <2>3, <2>4, <2>5 DEF BodiesInv
<1>3. BodiesInv => BodiesRepeatable
  <2> SUFFICES ASSUME BodiesInv PROVE OneKeyPerDecision /\ NonIdempotentNotInline
    BY DEF BodiesRepeatable
  <2>1. NonIdempotentNotInline
    BY DEF BodiesInv, InlineInv
  <2>2. ASSUME blips = 0, NEW m \in DOMAIN landed, ~Refused(Replied(m))
        PROVE  Cardinality(landed[m]) <= 1
    <3>1. PICK f \in DOMAIN calls : landed[m] \subseteq {f}
      BY <2>2 DEF BodiesInv, KeyInv, LandedInv
    <3>2. landed[m] = {} \/ landed[m] = {f}
      BY <3>1
    <3>3. Cardinality({}) = 0 /\ Cardinality({f}) = 1
      BY FS_EmptySet, FS_Singleton, Zenon
    <3> QED
      BY <3>2, <3>3
  <2> QED
    BY <2>1, <2>2 DEF OneKeyPerDecision
<1> QED
  BY <1>1, <1>2, <1>3, PTL DEF Spec
=============================================================================
