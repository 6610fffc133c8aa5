---------------------------- MODULE PubSubWorker ----------------------------
(***************************************************************************)
(* Outbox effects over Pub/Sub: the outbox reactor's PubSubConnector       *)
(* publishes a message for the effect, and PubSubSubscriber processes pull *)
(* it, claim the effect, run the user's handle() and report the outcome.   *)
(* The store's handlers are single steps here; EffectOutbox splits them.   *)
(***************************************************************************)
EXTENDS Integers, FiniteSets, Sequences, SequencesExt, FiniteSetsExt

CONSTANTS
  Effect,          \* tape_effect_key
  Subscriber,
  Outbox,          \* the outbox reactor, as a lease owner
  Nobody,          \* an empty dispatch_claimed_by
  LruSize,         \* lru_size
  MaxMessages,     \* bound: messages published
  MaxOutboxAttempts \* dispatch_max_attempts

VARIABLES
  effect,   \* effect -> [status, owner, expired, due, attempts]
  outbox,   \* the reactor: [pc, key, outcome]
  topic,    \* the messages: [key, acked]
  sub,      \* each subscriber's callback: [pc, msg, outcome]
  seen,     \* its _seen, oldest first
  work      \* handle() runs by [subscriber's life so far][effect]

pubsubVars == <<effect, outbox, topic, sub, seen, work>>

OutboxIdle == [pc |-> "idle", key |-> Nobody, outcome |-> "none"]
SubIdle == [pc |-> "idle", msg |-> 0, outcome |-> "none"]

PubSubInit ==
  /\ effect = [k \in Effect |-> [status |-> "PENDING", owner |-> Nobody, expired |-> FALSE,
                                 due |-> TRUE, attempts |-> 0]]
  /\ outbox = OutboxIdle
  /\ topic = << >>
  /\ sub = [p \in Subscriber |-> SubIdle]
  /\ seen = [p \in Subscriber |-> << >>]
  /\ work = [p \in Subscriber |-> [k \in Effect |-> 0]]

-----------------------------------------------------------------------------
(* claim_effect_dispatch. *)
CanClaim(k) ==
  /\ effect[k].status = "PENDING" /\ effect[k].due
  /\ effect[k].owner = Nobody \/ effect[k].expired

ClaimedBy(k, owner) == [effect EXCEPT ![k].owner = owner, ![k].expired = FALSE]

(* complete_effect(CONFIRMED): only a PENDING effect. *)
Completed(k) ==
  IF effect[k].status = "PENDING" THEN [effect EXCEPT ![k].status = "CONFIRMED"] ELSE effect

(* record_dispatch_attempt, with a next attempt (retry) or without (UNKNOWN). *)
AttemptRecorded(k, retry) ==
  [effect EXCEPT ![k] = [status |-> IF retry THEN "PENDING" ELSE "UNKNOWN", owner |-> Nobody,
                         expired |-> FALSE, due |-> ~retry, attempts |-> @.attempts + 1]]

-----------------------------------------------------------------------------
(* dispatch_one with the PubSubConnector. *)
OutboxClaims(k) ==
  /\ outbox.pc = "idle"
  /\ CanClaim(k)
  /\ effect' = ClaimedBy(k, Outbox)
  /\ outbox' = [pc |-> "publish", key |-> k, outcome |-> "none"]
  /\ UNCHANGED <<topic, sub, seen, work>>

(* PubSubConnector.dispatch: confirmed on the publish ack, failed on any exception,
   after which the message may still be in the topic. *)
PublishEffect(acked, landed) ==
  /\ outbox.pc = "publish"
  /\ acked => landed
  /\ landed => Len(topic) < MaxMessages
  /\ topic' = IF landed THEN Append(topic, [key |-> outbox.key, acked |-> FALSE]) ELSE topic
  /\ outbox' = [outbox EXCEPT !.pc = "report", !.outcome = IF acked THEN "confirmed" ELSE "failed"]
  /\ UNCHANGED <<effect, sub, seen, work>>

ReportPublish ==
  LET k == outbox.key
  IN  /\ outbox.pc = "report"
      /\ effect' = CASE outbox.outcome = "confirmed" -> Completed(k)
                     [] effect[k].attempts + 1 >= MaxOutboxAttempts ->
                          [effect EXCEPT ![k].status = "FAILED", ![k].owner = Nobody]
                     [] OTHER -> AttemptRecorded(k, TRUE)
      /\ outbox' = OutboxIdle
      /\ UNCHANGED <<topic, sub, seen, work>>

CrashOutbox == outbox.pc # "idle" /\ outbox' = OutboxIdle /\ UNCHANGED <<effect, topic, sub, seen, work>>

-----------------------------------------------------------------------------
(* Mutant: the lookup does not remember the key. *)
SeenLookup_Forgets(p, k) == seen[p]

(* _seen_lookup: the key moves to the end, the oldest drop out. *)
SeenLookup(p, k) ==
  LET s == Append(SelectSeq(seen[p], LAMBDA x : x # k), k)
  IN  SubSeq(s, Max({1, Len(s) - LruSize + 1}), Len(s))

Key(p) == topic[sub[p].msg].key

Acked(p) == /\ topic' = [topic EXCEPT ![sub[p].msg].acked = TRUE]
            /\ sub' = [sub EXCEPT ![p] = SubIdle]
Nacked(p) == sub' = [sub EXCEPT ![p] = SubIdle] /\ UNCHANGED topic

(* _on_message begins.  Pub/Sub may deliver a message again until it is acked. *)
Deliver(p, i) ==
  /\ sub[p].pc = "idle"
  /\ ~topic[i].acked
  /\ seen' = [seen EXCEPT ![p] = SeenLookup(p, topic[i].key)]
  /\ IF topic[i].key \in Range(seen[p])
     THEN topic' = [topic EXCEPT ![i].acked = TRUE] /\ UNCHANGED sub
     ELSE sub' = [sub EXCEPT ![p] = [pc |-> "claim", msg |-> i, outcome |-> "none"]] /\ UNCHANGED topic
  /\ UNCHANGED <<effect, outbox, work>>

(* A lease that is not granted acks the message; an error of the call nacks it. *)
ClaimMessage(p, error) ==
  /\ sub[p].pc = "claim"
  /\ CASE error -> Nacked(p) /\ UNCHANGED effect
       [] ~error /\ ~CanClaim(Key(p)) -> Acked(p) /\ UNCHANGED effect
       [] OTHER -> /\ effect' = ClaimedBy(Key(p), p)
                   /\ sub' = [sub EXCEPT ![p].pc = "handle"]
                   /\ UNCHANGED topic
  /\ UNCHANGED <<outbox, seen, work>>

(* The user's handle(), or a body that cannot be parsed. *)
Handle(p, outcome) ==
  /\ sub[p].pc = "handle"
  /\ sub' = [sub EXCEPT ![p].pc = "report", ![p].outcome = outcome]
  /\ work' = IF outcome = "malformed" THEN work ELSE [work EXCEPT ![p][Key(p)] = @ + 1]
  /\ UNCHANGED <<effect, outbox, topic, seen>>

(* _report and the ack.  When the report fails the message is nacked, except after
   an exception or a malformed body, where the failure is swallowed. *)
ReportMessage(p, error) ==
  LET outcome == sub[p].outcome
  IN  /\ sub[p].pc = "report"
      /\ effect' = CASE error -> effect
                     [] ~error /\ outcome = "confirmed" -> Completed(Key(p))
                     [] OTHER -> AttemptRecorded(Key(p), outcome = "failed")
      /\ IF error /\ outcome \in {"confirmed", "failed", "unknown"} THEN Nacked(p) ELSE Acked(p)
      /\ UNCHANGED <<outbox, seen, work>>

CrashSubscriber(p) ==
  /\ sub' = [sub EXCEPT ![p] = SubIdle]
  /\ seen' = [seen EXCEPT ![p] = << >>]
  /\ work' = [work EXCEPT ![p] = [k \in Effect |-> 0]]
  /\ UNCHANGED <<effect, outbox, topic>>

(* A lease runs out once its owner is no longer at the effect; a backoff ends. *)
AtWork(k) ==
  \/ outbox.key = k
  \/ \E p \in Subscriber : sub[p].pc \in {"handle", "report"} /\ Key(p) = k

EffectLeaseRunsOut(k) ==
  /\ effect[k].owner # Nobody /\ ~effect[k].expired /\ ~AtWork(k)
  /\ effect' = [effect EXCEPT ![k].expired = TRUE]
  /\ UNCHANGED <<outbox, topic, sub, seen, work>>

EffectBecomesDue(k) ==
  /\ ~effect[k].due
  /\ effect' = [effect EXCEPT ![k].due = TRUE]
  /\ UNCHANGED <<outbox, topic, sub, seen, work>>

PubSubStep ==
  \/ \E k \in Effect : OutboxClaims(k) \/ EffectLeaseRunsOut(k) \/ EffectBecomesDue(k)
  \/ \E acked, landed \in BOOLEAN : PublishEffect(acked, landed)
  \/ ReportPublish
  \/ \E p \in Subscriber :
       \/ \E i \in DOMAIN topic : Deliver(p, i)
       \/ \E error \in BOOLEAN : ClaimMessage(p, error) \/ ReportMessage(p, error)
       \/ \E outcome \in {"confirmed", "failed", "unknown", "raised", "malformed"} : Handle(p, outcome)

PubSubFault == CrashOutbox \/ \E p \in Subscriber : sub[p].pc # "idle" /\ CrashSubscriber(p)

-----------------------------------------------------------------------------
(* A subscriber process runs handle() for an effect at most once, whatever the
   topic redelivers and however often the outbox publishes the effect again, as
   long as its cache holds the keys in flight. *)
OncePerSubscriber == \A p \in Subscriber, k \in Effect : work[p][k] <= 1

(* Two processes never work on one effect at the same time: a subscriber runs
   handle() only while neither the outbox reactor nor a peer holds the effect. *)
WorkerExclusive ==
  \A k \in Effect :
    Cardinality({p \in Subscriber : sub[p].pc \in {"handle", "report"} /\ Key(p) = k})
      + (IF outbox.key = k THEN 1 ELSE 0) <= 1

(* The work behind an effect is done once by a process and never by two at a time. *)
HandledAlone == OncePerSubscriber /\ WorkerExclusive

=============================================================================
