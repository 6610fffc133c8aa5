-------------------------- MODULE EffectContract --------------------------
(***************************************************************************)
(* What an effect ledger promises of an effect, whatever store, reactors   *)
(* and faults are behind it: its record is made once, is settled, and is   *)
(* not opened again except where re-issuing is harmless; it says CONFIRMED *)
(* only of an operation that was executed; and an operation that must not  *)
(* be repeated is executed at most once.                                   *)
(***************************************************************************)
EXTENDS Integers

CONSTANTS
  Key,         \* effects
  Once,        \* those that must not be executed twice
  Reopenable   \* those that may be issued again after an unknown outcome

VARIABLES
  status,      \* effect -> what the ledger says of it
  executed     \* effect -> how often the counterparty executed it

contractVars == <<status, executed>>

Init ==
  /\ status = [k \in Key |-> "NONE"]
  /\ executed = [k \in Key |-> 0]

(* begin_effect: the intent is recorded before anything is sent. *)
Record(k) ==
  /\ status[k] = "NONE"
  /\ status' = [status EXCEPT ![k] = "PENDING"]
  /\ UNCHANGED executed

(* A request reaches the counterparty. *)
Execute(k) ==
  /\ status[k] # "NONE"
  /\ k \in Once => executed[k] = 0
  /\ executed' = [executed EXCEPT ![k] = @ + 1]
  /\ UNCHANGED status

(* A dispatcher's report or an observation. *)
Settle(k, outcome) ==
  /\ status[k] # "NONE"
  /\ outcome = "CONFIRMED" => executed[k] > 0
  /\ status' = [status EXCEPT ![k] = outcome]
  /\ UNCHANGED executed

Reopen(k) ==
  /\ k \in Reopenable
  /\ status[k] # "NONE"
  /\ status' = [status EXCEPT ![k] = "PENDING"]
  /\ UNCHANGED executed

Next ==
  \E k \in Key :
    \/ Record(k) \/ Execute(k) \/ Reopen(k)
    \/ \E outcome \in {"CONFIRMED", "FAILED", "UNKNOWN"} : Settle(k, outcome)

Spec == Init /\ [][Next]_contractVars

=============================================================================
