--------------------------- MODULE ChaosCampaign ---------------------------
(***************************************************************************)
(* A chaos scenario driven twice over a real ledger: tape.chaos's session  *)
(* (as run_scenario or as replay() uses it) or tape_adk.chaos's.  A session *)
(* wraps the connectors, a body makes its tool calls through them with the *)
(* reactors' ticks in between, the invariants are checked on the way out,  *)
(* and the journal is compared (snapshot) and cut into new scenarios       *)
(* (lineage).  Bodies, server and counterparty are external.               *)
(***************************************************************************)
EXTENDS Integers, FiniteSets, FiniteSetsExt, Sequences, SequencesExt

CONSTANTS
  Registered,   \* names in the connector registry
  ToolSpec,     \* tool -> [conn, keyed, idempotent, inverse]
  Scenarios,    \* [faults, strict, seed, one]; a fault: [layer, target, tool, action,
                \* sure, jitter], sure when its probability is 1
  Bodies,       \* sequences of tools: the calls a body makes
  Skies,        \* what the counterparty does with each call, at the first try
  Streams       \* what an rng may draw: sequences of BOOLEAN, then from the start

VARIABLES
  tier,       \* "scenario", "replay" or "embedded"
  scen, body, skies,
  seeded,     \* the stream that the scenario's seed stands for
  registry,   \* connector -> faults of the ChaosConnector around it, <<>> when bare
  table,      \* the dict of connectors an embedded session yields
  armed,      \* faults some connector carries in this session
  coins, drawn,   \* the session's rng, and how much of it is used
  pass,       \* 1 or 2, the run of this pass; 0 in a world without a campaign
  at,         \* where the body is
  call, row,  \* its call, and the effect row begin_effect gave it
  rows,       \* tape_effects: <<run, call>> -> [status, attempts]
  owed,       \* tape_obligations: the effects with a registered inverse
  journal,    \* tape_journal: run -> entries
  landed,     \* times a call landed at the counterparty: <<key, call>> -> n
  snaps,      \* the snapshots replay() took
  raised,     \* the body raised
  report,     \* ChaosReport.passed, so far
  closed      \* the reports of the closed sessions: [passed, armed]

setup == <<tier, scen, body, skies, seeded>>
ledger == <<rows, owed, journal, landed>>
cvars == <<setup, registry, table, armed, coins, drawn, pass, at, call, row, ledger, snaps,
           raised, report, closed>>

Run == 1..2
ToolAt(i) == ToolSpec[body[i]]
Bare == [n \in Registered |-> <<>>]

CampaignInit ==
  /\ tier \in {"scenario", "replay", "embedded"}
  /\ scen \in Scenarios /\ body \in Bodies /\ skies \in Skies /\ seeded \in Streams
  /\ registry = Bare /\ table = Bare /\ armed = {} /\ coins = <<>> /\ drawn = 0
  /\ pass = 1 /\ at = "out" /\ call = 0 /\ row = <<0, 0>>
  /\ rows = <<>> /\ owed = {} /\ journal = [r \in Run |-> <<>>] /\ landed = <<>>
  /\ snaps = <<>> /\ raised = FALSE /\ report = TRUE /\ closed = <<>>

-----------------------------------------------------------------------------
(* Arming a scenario. *)

OfLayer(f) == f.layer = "connector"
Aimed(n) == SelectSeq(scen.faults, LAMBDA f : OfLayer(f) /\ f.target = n)
ToolScoped == SelectSeq(scen.faults, LAMBDA f : OfLayer(f) /\ f.target = "" /\ f.tool # "")

(* _apply_connector_faults: what the connector n is wrapped with; a connector of
   its own bundle gets the tool-scoped faults in it, the others get those alone. *)
Bundle(n) == Aimed(n) \o ToolScoped

(* The faults that cannot be applied. *)
Unarmable ==
  {f \in ToSet(scen.faults) :
     /\ OfLayer(f)
     /\ IF f.target # "" THEN f.target \notin Registered
        ELSE f.tool = "" \/ Registered = {}}

(* tape_adk's session also skips what only a server could inject. *)
UnarmableEmbedded == Unarmable \cup {f \in ToSet(scen.faults) : ~OfLayer(f)}

(* _skip_fault: under strict_faults a fault that is skipped fails the report. *)
SkipFails(skipped) == skipped # {} /\ scen.strict

(* Mutant: the seed is not handed to the generator. *)
Rng_Unseeded(s) == s \in Streams

(* random.Random(seed); a seed of 0 is no seed in tape.chaos. *)
Rng(s) == IF scen.seed = 0 /\ tier # "embedded" THEN s \in Streams ELSE s = seeded

(* A line of the journal: the index and key of its payload, and the call of the
   server that wrote it. *)
Entry(kind, index, key, run, status, rpc) ==
  [kind |-> kind, index |-> index, key |-> key, run |-> run, status |-> status, rpc |-> rpc]

Opened(skipped) ==
  /\ at = "out" /\ pass \in Run /\ Len(closed) = pass - 1
  /\ \E s \in Streams : Rng(s) /\ coins' = s
  /\ drawn' = 0
  /\ armed' = UNION {ToSet(Bundle(n)) : n \in Registered}
  /\ report' = ~SkipFails(skipped)
  /\ journal' = [journal EXCEPT ![pass] =
                           <<Entry("run", -1, 0, pass, "running", "begin_run")>>]
  /\ at' = "call" /\ call' = 1
  /\ UNCHANGED <<setup, pass, row, rows, owed, landed, snaps, raised, closed>>

(* Session.__enter__: the wrapped connectors go into the registry.  The body
   begins its run. *)
EnterSession ==
  /\ tier # "embedded"
  /\ Opened(Unarmable)
  /\ registry' = [n \in Registered |-> Bundle(n)]
  /\ UNCHANGED table

(* tape_adk.chaos.session: a dict of its own. *)
EnterEmbedded ==
  /\ tier = "embedded"
  /\ Opened(UnarmableEmbedded)
  /\ table' = [n \in Registered |-> Bundle(n)]
  /\ UNCHANGED registry

-----------------------------------------------------------------------------
(* ChaosConnector. *)

Wrapping(n) == IF tier = "embedded" THEN table[n] ELSE registry[n]
Coin(d) == coins[(d % Len(coins)) + 1]

(* _fault: the first fault of the kind, for this tool, that fires. *)
Roll(kind, i, d) ==
  LET Try(acc, f) == IF acc.hit \/ f.action # kind \/ f.tool \notin {"", body[i]} THEN acc
                     ELSE IF f.sure THEN [acc EXCEPT !.hit = TRUE, !.by = f.jitter]
                     ELSE [hit |-> Coin(acc.drawn), drawn |-> acc.drawn + 1, by |-> f.jitter]
  IN FoldLeft(Try, [hit |-> FALSE, drawn |-> d, by |-> FALSE], Wrapping(ToolAt(i).conn))

(* dispatch: the delay and its jitter first, the inner call, then lose_ack on a
   confirmation. *)
DispatchResult(i, inner) ==
  LET delay == Roll("delay", i, drawn)
      from == delay.drawn + (IF delay.hit /\ delay.by THEN 1 ELSE 0)
      ack == Roll("lose_ack", i, from)
  IN IF inner # "confirmed" THEN [status |-> inner, drawn |-> from]
     ELSE [status |-> IF ack.hit THEN "unknown" ELSE inner, drawn |-> ack.drawn]

(* Mutant: duplicate is injected whatever the connector observed. *)
ObserveResult_Always(i, inner) ==
  LET twice == Roll("duplicate", i, drawn)
  IN [status |-> IF twice.hit THEN "duplicate" ELSE inner, drawn |-> twice.drawn]

(* observe: duplicate on a confirmation. *)
ObserveResult(i, inner) ==
  LET twice == Roll("duplicate", i, drawn)
  IN IF inner # "confirmed" THEN [status |-> inner, drawn |-> drawn]
     ELSE [status |-> IF twice.hit THEN "duplicate" ELSE inner, drawn |-> twice.drawn]

-----------------------------------------------------------------------------
(* The body, and the ledger calls it makes. *)

Journaled(r, entries) == [journal EXCEPT ![r] = @ \o entries]

(* The counterparty tells calls apart by business key, or by idempotency key. *)
UpstreamKey(r) == IF ToolAt(r[2]).keyed THEN <<0, r[2]>> ELSE r
Landings(r) == IF UpstreamKey(r) \in DOMAIN landed THEN landed[UpstreamKey(r)] ELSE 0

(* begin_effect finds the row of its key, or another run's of its business key. *)
Existing(i) == {r \in DOMAIN rows : r[2] = i /\ (r[1] = pass \/ ToolAt(i).keyed)}

Due(status) == CASE status = "pending" -> "dispatch"
                 [] status = "unknown" -> "observe"
                 [] OTHER -> "call"

(* record_decision and begin_effect.  The entries of the effect carry no index
   after this one. *)
CallTool ==
  /\ at = "call" /\ call <= Len(body) /\ ~raised
  /\ LET decided == Entry("decision", call - 1, 0, pass, "", "record_decision")
         begun == Entry("effect", call - 1, call, pass, "pending", "begin_effect")
     IN IF Existing(call) # {}
        THEN /\ row' = CHOOSE r \in Existing(call) : TRUE
             /\ journal' = Journaled(pass, <<decided>>)
             /\ at' = Due(rows[row'].status)
             /\ UNCHANGED rows
        ELSE /\ row' = <<pass, call>>
             /\ rows' = (<<pass, call>> :> [status |-> "pending", attempts |-> 0]) @@ rows
             /\ journal' = Journaled(pass, <<decided, begun>>)
             /\ at' = "dispatch"
  /\ call' = IF at' = "call" THEN call + 1 ELSE call
  /\ UNCHANGED <<setup, registry, table, armed, coins, drawn, pass, owed, landed, snaps, raised,
                 report, closed>>

Registers == Entry("obligation", -1, row[2], row[1], "pending", "register_compensation")

Moved(status, attempts, entries) ==
  /\ rows' = [rows EXCEPT ![row] = [status |-> status, attempts |-> @.attempts + attempts]]
  /\ journal' = Journaled(row[1], entries)
  /\ at' = Due(status)
  /\ call' = IF at' = "call" THEN call + 1 ELSE call
  /\ UNCHANGED <<setup, registry, table, armed, coins, pass, row, snaps, raised, report, closed>>

(* A tick of the outbox: the connector is called and its answer recorded. *)
Dispatch ==
  /\ at = "dispatch" /\ ~raised
  /\ LET sky == IF rows[row].attempts = 0 THEN skies[row[2]] ELSE "lands"
         res == DispatchResult(row[2], IF sky = "lands" THEN "confirmed" ELSE "unknown")
         Done(status, rpc) == Entry("effect", -1, row[2], row[1], status, rpc)
     IN /\ landed' = IF sky = "lost" THEN landed
                     ELSE (UpstreamKey(row) :> (Landings(row) + 1)) @@ landed
        /\ drawn' = res.drawn
        /\ IF res.status = "confirmed"
           THEN /\ Moved("confirmed", 0, <<Done("confirmed", "complete_effect")>> \o
                           (IF ToolAt(row[2]).inverse THEN <<Registers>> ELSE <<>>))
                /\ owed' = IF ToolAt(row[2]).inverse THEN owed \cup {row} ELSE owed
           ELSE /\ Moved("unknown", 1, <<Done("unknown", "record_dispatch_attempt")>>)
                /\ UNCHANGED owed

(* A tick of the reconciler. *)
Observe ==
  /\ at = "observe" /\ ~raised
  /\ LET res == ObserveResult(row[2], IF Landings(row) > 0 THEN "confirmed" ELSE "absent")
         undo == res.status = "duplicate" /\ ToolAt(row[2]).inverse /\ row \notin owed
         seen == Entry("effect", -1, row[2], row[1], "observed", "record_external_observation")
     IN /\ Moved(CASE res.status = "absent" ->
                        IF ToolAt(row[2]).idempotent THEN "pending" ELSE "failed"
                   [] OTHER -> "confirmed",
                 0, <<seen>> \o (IF undo THEN <<Registers>> ELSE <<>>))
        /\ owed' = IF undo THEN owed \cup {row} ELSE owed
        /\ drawn' = res.drawn
        /\ UNCHANGED landed

(* The body raises. *)
BodyRaises ==
  /\ at \in {"call", "dispatch", "observe"} /\ ~raised /\ closed = <<>>
  /\ raised' = TRUE /\ at' = "exit"
  /\ UNCHANGED <<setup, registry, table, armed, coins, drawn, pass, call, row, ledger, snaps,
                 report, closed>>

Ended == Journaled(pass, <<Entry("run", -1, 0, pass, "terminal", "end_run")>>)

(* capture: the entries up to the terminal one, the run's id replaced. *)
Canonical(entries) == [n \in DOMAIN entries |-> [entries[n] EXCEPT !.run = 1]]

(* end_run; replay() then captures the journal, inside the session. *)
BodyEnds ==
  /\ at = "call" /\ call > Len(body) /\ ~raised
  /\ journal' = Ended
  /\ snaps' = IF tier = "replay" THEN Append(snaps, Canonical(Ended[pass])) ELSE snaps
  /\ at' = "exit"
  /\ UNCHANGED <<setup, registry, table, armed, coins, drawn, pass, call, row, rows, owed, landed,
                 raised, report, closed>>

-----------------------------------------------------------------------------
(* The invariants a session checks on its way out. *)

(* no_blind_non_idempotent_retry, of one run and of the whole embedded store. *)
NoBlindRetry(r) == r[1] = pass => ~(~ToolAt(r[2]).idempotent /\ rows[r].status = "pending"
                                    /\ rows[r].attempts > 1)
NoBlindRetryEmbedded(r) == ~(~ToolAt(r[2]).idempotent /\ rows[r].status = "pending"
                             /\ rows[r].attempts > 1)

(* no_orphan_compensation. *)
NoOrphan == \A o \in owed : o[1] = pass => o \in DOMAIN rows

(* exactly_one reads the confirmed entries; begin_effect's, which is pending, is
   the only one whose payload has a connector and a business key. *)
ExactlyOne ==
  \A i \in DOMAIN body :
    Cardinality({<<r, n>> \in Run \X (1..Max({Len(journal[r]) : r \in Run})) :
                   /\ n <= Len(journal[r])
                   /\ journal[r][n].key = i
                   /\ journal[r][n].status = "confirmed"
                   /\ journal[r][n].rpc = "begin_effect"}) <= 1

Verdict == /\ \A r \in DOMAIN rows : NoBlindRetry(r)
           /\ NoOrphan
           /\ ExactlyOne

(* tape_adk's exactly_one counts rows; a scenario names a connector, or none. *)
VerdictEmbedded ==
  /\ \A r \in DOMAIN rows : NoBlindRetryEmbedded(r)
  /\ scen.one # "" => Cardinality({r \in DOMAIN rows : ToolAt(r[2]).conn = scen.one
                                                      /\ rows[r].status = "confirmed"}) = 1

Unpatched == Bare

ClosedWith(passed) ==
  /\ at = "exit"
  /\ closed' = Append(closed, [passed |-> passed, armed |-> armed])
  /\ at' = "out" /\ raised' = FALSE
  /\ pass' = IF tier = "replay" /\ raised THEN pass ELSE 2
  /\ UNCHANGED <<setup, armed, coins, drawn, call, row, ledger, snaps, report>>

(* Session.__exit__: the registry is restored first.  replay() catches what the
   body raises, inside the session, and returns without a second pass. *)
ExitSession ==
  /\ tier # "embedded"
  /\ ClosedWith(report /\ Verdict /\ ~(raised /\ tier = "scenario"))
  /\ registry' = Unpatched
  /\ UNCHANGED table

(* The finally clause of tape_adk's session: a body that raised fails nothing. *)
ExitEmbedded ==
  /\ tier = "embedded"
  /\ ClosedWith(report /\ VerdictEmbedded)
  /\ table' = Bare
  /\ UNCHANGED registry

CampaignNext ==
  \/ EnterSession \/ EnterEmbedded
  \/ CallTool \/ Dispatch \/ Observe
  \/ BodyRaises \/ BodyEnds
  \/ ExitSession \/ ExitEmbedded

-----------------------------------------------------------------------------
(* LineageGraph. *)

(* int(payload.get("decision_index", -1) or -1): index 0 becomes -1, for the
   decision and, alike, for the effect that looks for it. *)
DecisionSlot(e) == IF e.index = 0 THEN -1 ELSE e.index

(* Mutant: the effect reads index 0 as it is. *)
EffectSlot_Raw(e) == e.index
EffectSlot(e) == IF e.index = 0 THEN -1 ELSE e.index

LastOr0(S) == IF S = {} THEN 0 ELSE Max(S)
FirstOr0(S) == IF S = {} THEN 0 ELSE Min(S)

(* from_run: decision_seqs holds the last decision of a key, effect_seqs the
   first pending entry of an effect. *)
ParentSeq(r, n) ==
  LET e == journal[r][n]
      Decided(k) == LastOr0({m \in 1..n : journal[r][m].kind = "decision"
                                          /\ DecisionSlot(journal[r][m]) = k})
  IN CASE e.kind = "decision" -> Decided(DecisionSlot(e) - 1)
       [] e.kind = "effect" -> Decided(EffectSlot(e))
       [] e.kind = "obligation" ->
            FirstOr0({m \in 1..n : /\ journal[r][m].kind = "effect"
                                   /\ journal[r][m].status = "pending"
                                   /\ journal[r][m].key = e.key})
       [] OTHER -> 0

(* The call whose failpoint is said to break the node. *)
BreakingCall(e) ==
  CASE e.kind = "run" -> IF e.status = "running" THEN "begin_run" ELSE "end_run"
    [] e.kind = "decision" -> "record_decision"
    [] e.kind = "effect" ->
         CASE e.status = "confirmed" -> "complete_effect"
           [] e.status \in {"failed", "unknown", "reconciled"} -> "reconcile_effect"
           [] OTHER -> "begin_effect"
    [] e.kind = "obligation" -> "register_compensation"

(* minimal_cuts(max_size=2) and derive_scenarios: the calls a scenario crashes. *)
Derived(r) ==
  LET calls == {BreakingCall(journal[r][n]) : n \in DOMAIN journal[r]}
  IN {{c} : c \in calls} \cup {{c, d} : c \in calls, d \in calls}

-----------------------------------------------------------------------------
(* Properties. *)

(* Outside a session every connector of the process is the one it had before,
   also when the body raised: the chaos of one scenario never leaks into the
   next, or into production code (scenarios.py:398-403). *)
RegistryRestored == at = "out" => registry = Bare

(* A strict scenario whose report passed had every connector fault it declares
   on some connector: no false comfort from a fault that could never fire
   (scenarios.py:185-191).  In the embedded tier that is every fault. *)
StrictMeansArmed ==
  \A n \in DOMAIN closed :
    closed[n].passed /\ scen.strict =>
      \A f \in ToSet(scen.faults) : (OfLayer(f) \/ tier = "embedded") => f \in closed[n].armed

(* Two passes of replay() under one non-zero seed record the same journal once
   the run's id is taken out, as long as no call carries a business key, which
   the second pass would find taken (replay.py:101-106). *)
ReplayReproduces ==
  Len(snaps) = 2 /\ scen.seed # 0 /\ (\A i \in DOMAIN body : ~ToolAt(i).keyed)
    => snaps[1] = snaps[2]

(* A scenario is a fair test: it arms what it declares, it is the same test when it
   is driven again, and it leaves nothing behind. *)
ScenarioSound == RegistryRestored /\ StrictMeansArmed /\ ReplayReproduces

(* Whatever faults are injected, and though the scenario is driven twice, what
   goes out under a business key to a counterparty that does not deduplicate
   lands once: begin_effect gives the second pass the first one's row. *)
KeyLandsOnce ==
  \A k \in DOMAIN landed : k[1] = 0 /\ ~ToolAt(k[2]).idempotent => landed[k] <= 1

(* Injected faults hide and repeat answers, they never make the ledger lie: a
   CONFIRMED effect has landed and a FAILED one has not, though its ack was
   hidden or a duplicate reported (chaos/connectors.py:92-119). *)
LedgerHonest ==
  \A r \in DOMAIN rows :
    /\ rows[r].status = "confirmed" => Landings(r) > 0
    /\ rows[r].status = "failed" => Landings(r) = 0

(* Under the injected faults the ledger and the counterparty still agree. *)
LedgerSurvivesFaults == KeyLandsOnce /\ LedgerHonest

(* In the graph built from a journal an effect's first entry hangs from the very
   decision that authorised it, and an obligation from the first entry of its
   effect, with index 0 of a decision read as -1 throughout; and the steps that
   journal themselves under their own name are cut at the call that wrote them. *)
LineageSound ==
  tier # "embedded" =>
    \A r \in Run : \A n \in DOMAIN journal[r] :
      LET e == journal[r][n]
          parent == ParentSeq(r, n)
      IN /\ e.rpc = "begin_effect" => /\ parent > 0
                                      /\ journal[r][parent].kind = "decision"
                                      /\ journal[r][parent].index = e.index
         /\ e.kind = "obligation" => /\ parent > 0
                                     /\ journal[r][parent].rpc = "begin_effect"
                                     /\ journal[r][parent].key = e.key
         /\ e.rpc \notin {"record_dispatch_attempt", "record_external_observation"} =>
              {e.rpc} \in Derived(r)
=============================================================================
