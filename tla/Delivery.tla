------------------------------ MODULE Delivery ------------------------------
(***************************************************************************)
(* The three ways work leaves the server: reactions and the relay, which   *)
(* both follow the journal, and outbox effects over Pub/Sub.  They share   *)
(* nothing they write, so a behaviour exercises one path.                  *)
(***************************************************************************)
EXTENDS EventBus, Relay, PubSubWorker

CONSTANT Path  \* the paths checked: a subset of {"reactions", "relay", "pubsub"}

VARIABLE path

deliveryVars == <<vars, relayVars, pubsubVars, path>>

(* Which sink the relay has is of no concern to the other paths. *)
DeliveryInit ==
  /\ Init /\ RelayInit /\ PubSubInit
  /\ path \in Path
  /\ path # "relay" => sink.buffering = CHOOSE b \in Buffering : TRUE

DeliveryNext ==
  /\ UNCHANGED path
  /\ \/ /\ path = "reactions"
        /\ Next
        /\ UNCHANGED <<relayVars, pubsubVars>>
     \/ /\ path = "relay"
        /\ \/ JournalNext /\ UNCHANGED relayVars
           \/ (RelayStep \/ CrashRelay) /\ UNCHANGED journalVars
        /\ UNCHANGED <<matcherVars, workerVars, faults, pubsubVars>>
     \/ /\ path = "pubsub"
        /\ PubSubStep \/ PubSubFault
        /\ UNCHANGED <<vars, relayVars>>

DeliverySpec == DeliveryInit /\ [][DeliveryNext]_deliveryVars

(* The fairness of the reactions' processes (see EventBus). *)
DeliveryFairSpec ==
  /\ DeliverySpec
  /\ Fairness
=============================================================================
