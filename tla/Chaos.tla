-------------------------------- MODULE Chaos --------------------------------
(***************************************************************************)
(* The tools beside a Tape deployment, in three kinds of world: one of the *)
(* chaos proxies (ChaosProxies), a scenario driven twice (ChaosCampaign),  *)
(* or a command of the operator's console (Console).                       *)
(***************************************************************************)
EXTENDS ChaosProxies, ChaosCampaign, Console

vars == <<pvars, cvars, consoleVars>>

(* One value of a set, for the variables of the kind of world that is absent. *)
Some(S) == CHOOSE x \in S : TRUE

NoCampaign ==
  /\ tier = "scenario" /\ scen = Some(Scenarios) /\ body = Some(Bodies)
  /\ skies = Some(Skies) /\ seeded = Some(Streams)
  /\ registry = Bare /\ table = Bare /\ armed = {} /\ coins = <<>> /\ drawn = 0
  /\ pass = 0 /\ at = "out" /\ call = 0 /\ row = <<0, 0>>
  /\ rows = <<>> /\ owed = {} /\ journal = [r \in Run |-> <<>>] /\ landed = <<>>
  /\ snaps = <<>> /\ raised = FALSE /\ report = TRUE /\ closed = <<>>

NoProxy == ProxyInit({"off"}) /\ rules = Some(Rules)

Init ==
  \/ ProxyInit({"http", "library", "cli"}) /\ NoCampaign /\ ConsoleInit({"off"})
  \/ NoProxy /\ CampaignInit /\ ConsoleInit({"off"})
  \/ NoProxy /\ NoCampaign /\ ConsoleInit(Consoles)

Next ==
  \/ ProxyNext /\ UNCHANGED <<cvars, consoleVars>>
  \/ CampaignNext /\ UNCHANGED <<pvars, consoleVars>>
  \/ ConsoleNext /\ UNCHANGED <<pvars, cvars>>

Spec == Init /\ [][Next]_vars /\ ProxyFairness
=============================================================================
