---------------------------- MODULE ChaosProxies ----------------------------
(***************************************************************************)
(* The proxies tape.chaos puts between an agent and a server: the HTTP one *)
(* (proxies.ChaosProxy, one exchange) and the stdio one for MCP, used as a *)
(* library (send_request and recv_response) or as a command, where two     *)
(* threads pump the messages.  A message is a number; what a rule writes   *)
(* into a body is left out, whether a message is forwarded, answered in    *)
(* place, swallowed or ends the connection is kept.                        *)
(***************************************************************************)
EXTENDS Integers, FiniteSets, FiniteSetsExt, Sequences, SequencesExt

CONSTANTS
  Rules,      \* sequences of ProxyFault: [kind, prefix, sure, at, deletes]
  Message,    \* 1..n: message -> [method, id]; id is FALSE for a notification
  Events,     \* events of a response that streams
  Upstream,   \* bound: shapes of the HTTP response
  MaxStarts   \* bound: times the library's proxy is started

VARIABLES
  mode,      \* "http", "library" or "cli"; "off" in a world without a proxy
  rules,     \* self.faults
  sent,      \* messages the agent has sent
  reached,   \* message -> times it reached the upstream server
  replies,   \* message -> replies the agent got
  refused,   \* messages a rule answered in the upstream's place
  lost,      \* messages a rule deleted, or that died with the connection
  web,       \* the HTTP exchange: [pc, fired, shape, events]
  proc,      \* self._proc: "none", "alive" or "gone" (exited, still held)
  stop,      \* self._stop
  starts,    \* times start() has spawned the upstream
  pending,   \* self._pending_replies
  outbox,    \* replies the upstream has written and nobody has read
  up, dn,    \* the pump threads: [pc, msg]
  open,      \* the upstream's stdin
  eof,       \* the agent has closed its end
  returned   \* run() has returned

wire == <<sent, reached, replies, refused, lost>>
pipes == <<proc, stop, starts, pending, outbox>>
pumps == <<up, dn, open, eof, returned>>
pvars == <<mode, rules, wire, web, pipes, pumps>>

Msg == DOMAIN Message
Idle == [pc |-> "idle", msg |-> 0]
Dead == [pc |-> "dead", msg |-> 0]
Hand(pc, i) == [pc |-> pc, msg |-> i]

ProxyInit(modes) ==
  /\ mode \in modes
  /\ rules \in Rules
  /\ sent = {} /\ refused = {} /\ lost = {}
  /\ reached = [i \in Msg |-> 0] /\ replies = [i \in Msg |-> 0]
  /\ web = [pc |-> "idle", fired |-> {}, shape |-> "", events |-> 0]
  /\ proc = "none" /\ stop = FALSE /\ starts = 0 /\ pending = <<>> /\ outbox = {}
  /\ up = Idle /\ dn = Idle /\ open = TRUE /\ eof = FALSE /\ returned = FALSE

Covers(f, path) == f.prefix \in {"", path}

-----------------------------------------------------------------------------
(* proxies.ChaosProxy. *)

(* _matching: each rule rolls for itself; a sure one always fires. *)
Firings(path) ==
  LET covering == {n \in DOMAIN rules : Covers(rules[n], path)}
  IN {F \in SUBSET covering : \A n \in covering : rules[n].sure => n \in F}

Fired(kind) == {rules[n] : n \in {k \in web.fired : rules[k].kind = kind}}

Short(fired) == \E n \in fired : rules[n].kind = "inject_status"

(* _handle, up to the forward: delays, and the first inject_status answers. *)
HandleRequest(i, fired) ==
  /\ mode = "http" /\ web.pc = "idle" /\ sent = {}
  /\ fired \in Firings(Message[i].method)
  /\ sent' = {i}
  /\ IF \E n \in fired : rules[n].kind = "inject_status"
     THEN refused' = {i}
     ELSE UNCHANGED refused
  /\ IF Short(fired)
     THEN /\ replies' = [replies EXCEPT ![i] = @ + 1]
          /\ web' = [web EXCEPT !.pc = "done", !.fired = fired]
     ELSE /\ web' = [web EXCEPT !.pc = "forward", !.fired = fired]
          /\ UNCHANGED replies
  /\ UNCHANGED <<mode, rules, reached, lost, pipes, pumps>>

(* _forward: urlopen's answer; an upstream that cannot be reached may have seen
   the request all the same, and the agent gets a 502. *)
Forward(i, shape) ==
  /\ web.pc = "forward" /\ i \in sent
  /\ \E n \in IF shape = "unreachable" THEN {0, 1} ELSE {1} :
       reached' = [reached EXCEPT ![i] = @ + n]
  /\ web' = [web EXCEPT !.shape = shape,
                        !.pc = IF shape \in {"unreachable", "error"} THEN "done" ELSE "reply"]
  /\ replies' = IF shape \in {"unreachable", "error"} THEN [replies EXCEPT ![i] = @ + 1]
                                                      ELSE replies
  /\ UNCHANGED <<mode, rules, sent, refused, lost, pipes, pumps>>

(* _reply_json and _reply_passthrough: a drop hangs up after the headers; a body
   that does not parse is passed on before any rule is looked at. *)
ReplyWhole(i) ==
  /\ web.pc = "reply" /\ web.shape \in {"json", "malformed", "other"} /\ i \in sent
  /\ IF web.shape # "malformed" /\ Fired("drop_connection") # {}
     THEN /\ lost' = lost \cup {i}
          /\ UNCHANGED replies
     ELSE /\ replies' = [replies EXCEPT ![i] = @ + 1]
          /\ UNCHANGED lost
  /\ web' = [web EXCEPT !.pc = "done"]
  /\ UNCHANGED <<mode, rules, sent, reached, refused, pipes, pumps>>

(* cut_at: 0 is also what "no truncate_stream" gives. *)
CutAt == IF Fired("truncate_stream") = {} THEN 0
         ELSE Min({f.at : f \in Fired("truncate_stream")})

Cuts(n) == CutAt # 0 /\ n >= CutAt

(* _stream_sse: one chunk of the upstream carries some events (or part of one);
   each is written before the cut is looked at, the drop once the chunk is. *)
StreamChunk(i, n) ==
  /\ web.pc = "reply" /\ web.shape = "sse" /\ i \in sent
  /\ web.events + n <= Events
  /\ LET cut == {k \in 1..n : Cuts(web.events + k)}
         written == web.events + (IF cut = {} THEN n ELSE Min(cut))
         hangup == cut # {} \/ (Fired("drop_connection") # {} /\ written >= 1)
     IN /\ web' = [web EXCEPT !.events = written, !.pc = IF hangup THEN "done" ELSE @]
        /\ lost' = IF hangup THEN lost \cup {i} ELSE lost
  /\ UNCHANGED <<mode, rules, sent, reached, replies, refused, pipes, pumps>>

(* The upstream ends the stream, or reading it fails. *)
StreamEnds(i) ==
  /\ web.pc = "reply" /\ web.shape = "sse" /\ i \in sent
  /\ IF web.events = Events
     THEN /\ replies' = [replies EXCEPT ![i] = @ + 1]
          /\ UNCHANGED lost
     ELSE /\ lost' = lost \cup {i}
          /\ UNCHANGED replies
  /\ web' = [web EXCEPT !.pc = "done"]
  /\ UNCHANGED <<mode, rules, sent, reached, refused, pipes, pumps>>

HttpNext ==
  \E i \in Msg :
    \/ \E fired \in SUBSET DOMAIN rules : HandleRequest(i, fired)
    \/ \E shape \in Upstream : Forward(i, shape)
    \/ ReplyWhole(i)
    \/ \E n \in 0..Events : StreamChunk(i, n)
    \/ StreamEnds(i)

-----------------------------------------------------------------------------
(* mcp_stdio.MCPStdioProxy: what happens to one message. *)

Outward == {"delay", "drop_connection", "inject_status", "inject_prompt", "schema_drift"}
Inward == {"delay", "drop_connection", "tool_shadow", "schema_drift", "mangle_json",
           "inject_status"}

(* _matches: a response has no method, so only an empty prefix covers it. *)
Applies(f, i, dir) ==
  IF dir = "to_upstream" THEN Covers(f, Message[i].method) /\ f.kind \in Outward
                         ELSE f.prefix = "" /\ f.kind \in Inward

(* _apply_one: a schema_drift function may return None. *)
ApplyOne(f, i, out) ==
  CASE f.kind = "drop_connection" -> "drop"
    [] f.kind = "inject_status" /\ Message[i].id -> "refuse"
    [] f.kind = "schema_drift" /\ f.deletes -> "delete"
    [] OTHER -> out

(* _apply_faults: in order, until one drops or deletes. *)
Fates(i, dir) ==
  LET applying == {n \in DOMAIN rules : Applies(rules[n], i, dir)}
      firings == {F \in SUBSET applying : \A n \in applying : rules[n].sure => n \in F}
      Next1(out, n) == IF out \in {"drop", "delete"} THEN out ELSE ApplyOne(rules[n], i, out)
  IN {FoldLeft(Next1, "pass", SetToSortSeq(F, <)) : F \in firings}

(* Popen.  stop() leaves _stop set, and the replies that are pending. *)
Start ==
  /\ mode \in {"library", "cli"} /\ proc = "none"
  /\ starts < (IF mode = "cli" THEN 1 ELSE MaxStarts)
  /\ proc' = "alive" /\ starts' = starts + 1 /\ outbox' = {}
  /\ UNCHANGED <<mode, rules, wire, web, stop, pending, pumps>>

(* stop(), in the library's one thread. *)
Stopped ==
  /\ proc' = "none" /\ stop' = TRUE /\ outbox' = {}

(* The server at the other end answers a request that reached it. *)
UpstreamReplies(i) ==
  /\ proc = "alive" /\ reached[i] > 0 /\ Message[i].id
  /\ replies[i] = 0 /\ i \notin outbox \cup lost /\ dn.msg # i
  /\ outbox' = outbox \cup {i}
  /\ UNCHANGED <<mode, rules, wire, web, proc, stop, starts, pending, pumps>>

-----------------------------------------------------------------------------
(* The library. *)

Queued(i) == Append(pending, i)

SendRequest(i) ==
  /\ mode = "library" /\ proc = "alive" /\ i \notin sent
  /\ sent' = sent \cup {i}
  /\ \E fate \in Fates(i, "to_upstream") :
       /\ reached' = IF fate = "pass" THEN [reached EXCEPT ![i] = @ + 1] ELSE reached
       /\ refused' = IF fate = "refuse" THEN refused \cup {i} ELSE refused
       /\ pending' = IF fate = "refuse" THEN Queued(i) ELSE pending
       /\ IF fate = "drop" THEN /\ Stopped
                                /\ lost' = lost \cup {i} \cup {k \in sent : reached[k] > replies[k]}
          ELSE /\ lost' = IF fate = "delete" THEN lost \cup {i} ELSE lost
               /\ UNCHANGED <<proc, stop, outbox>>
  /\ UNCHANGED <<mode, rules, replies, web, starts, pumps>>

Answered(i) == replies' = [replies EXCEPT ![i] = @ + 1]

(* Mutant: the pending reply is peeked at. *)
Popped_Stays == pending
Popped == Tail(pending)

(* recv_response with a synthesised reply pending: also after stop(). *)
RecvPending ==
  /\ mode = "library" /\ pending # <<>>
  /\ Answered(Head(pending))
  /\ pending' = Popped
  /\ UNCHANGED <<mode, rules, sent, reached, refused, lost, web, proc, stop, starts, outbox, pumps>>

(* recv_response, one line of the upstream. *)
RecvResponse(i) ==
  /\ mode = "library" /\ pending = <<>> /\ proc = "alive" /\ i \in outbox
  /\ \E fate \in Fates(i, "from_upstream") :
       CASE fate = "drop" -> /\ Stopped
                             /\ lost' = lost \cup {k \in sent : reached[k] > replies[k]}
                             /\ UNCHANGED replies
         [] fate = "delete" -> /\ lost' = lost \cup {i} /\ outbox' = outbox \ {i}
                               /\ UNCHANGED <<replies, proc, stop>>
         [] OTHER -> /\ Answered(i) /\ outbox' = outbox \ {i}
                     /\ UNCHANGED <<lost, proc, stop>>
  /\ UNCHANGED <<mode, rules, sent, reached, refused, web, starts, pending, pumps>>

(* stop(), called by the agent. *)
StopLibrary ==
  /\ mode = "library" /\ proc = "alive"
  /\ Stopped
  /\ lost' = lost \cup {k \in sent : reached[k] > replies[k]}
  /\ UNCHANGED <<mode, rules, sent, reached, replies, refused, web, starts, pending, pumps>>

-----------------------------------------------------------------------------
(* The command: run() waits for the upstream while the two pumps work. *)

Running == mode = "cli" /\ starts = 1 /\ ~returned

(* Mutant: no finally clause. *)
Closed_Never == open' = open
Closed == open' = FALSE

(* _pump_agent_to_upstream reads a line, unless _stop is set, and applies the
   rules.  The finally clause closes the upstream's stdin. *)
UpTakes(i) ==
  /\ Running /\ up.pc = "idle" /\ ~eof /\ i \notin sent
  /\ sent' = sent \cup {i}
  /\ IF stop
     THEN up' = Dead /\ Closed /\ lost' = lost \cup {i} /\ UNCHANGED refused
     ELSE \E fate \in Fates(i, "to_upstream") :
            /\ up' = CASE fate = "drop" -> Hand("stop", 0)
                       [] fate = "delete" -> Idle
                       [] OTHER -> Hand(fate, i)
            /\ lost' = IF fate \in {"drop", "delete"} THEN lost \cup {i} ELSE lost
            /\ refused' = IF fate = "refuse" THEN refused \cup {i} ELSE refused
            /\ UNCHANGED open
  /\ stop' = (stop \/ up'.pc = "stop")
  /\ UNCHANGED <<mode, rules, reached, replies, web, proc, starts, pending, outbox, dn, eof,
                 returned>>

Writable == proc = "alive" /\ open

(* ... and writes what is left: the message, or the error a rule put in its
   place.  Once the other pump has let go of _proc, or the server is gone, the
   write raises and the pump dies. *)
UpWrites ==
  /\ Running /\ up.pc \in {"pass", "refuse"}
  /\ IF Writable
     THEN /\ reached' = IF up.pc = "pass" THEN [reached EXCEPT ![up.msg] = @ + 1] ELSE reached
          /\ up' = Idle
          /\ UNCHANGED <<lost, open>>
     ELSE /\ up' = Dead /\ Closed
          /\ lost' = lost \cup {up.msg}
          /\ UNCHANGED reached
  /\ UNCHANGED <<mode, rules, sent, replies, refused, web, pipes, dn, eof, returned>>

(* The agent closes its end; the pump sees end of file. *)
AgentLeaves ==
  /\ Running /\ ~eof
  /\ eof' = TRUE
  /\ UNCHANGED <<mode, rules, wire, web, pipes, up, dn, open, returned>>

UpEnds ==
  /\ Running /\ eof /\ up.pc = "idle"
  /\ up' = Dead /\ Closed
  /\ UNCHANGED <<mode, rules, wire, web, pipes, dn, eof, returned>>

(* _pump_upstream_to_agent. *)
DnTakes(i) ==
  /\ Running /\ dn.pc = "idle" /\ i \in outbox
  /\ outbox' = outbox \ {i}
  /\ IF stop
     THEN dn' = Dead /\ lost' = lost \cup {i}
     ELSE \E fate \in Fates(i, "from_upstream") :
            /\ dn' = CASE fate = "drop" -> Hand("stop", 0)
                       [] fate = "delete" -> Idle
                       [] OTHER -> Hand("pass", i)
            /\ lost' = IF fate \in {"drop", "delete"} THEN lost \cup {i} ELSE lost
  /\ stop' = (stop \/ dn'.pc = "stop")
  /\ UNCHANGED <<mode, rules, sent, reached, replies, refused, web, proc, starts, pending, up,
                 open, eof, returned>>

DnWrites ==
  /\ Running /\ dn.pc = "pass"
  /\ Answered(dn.msg)
  /\ dn' = Idle
  /\ UNCHANGED <<mode, rules, sent, reached, refused, lost, web, pipes, up, open, eof, returned>>

(* stop(), in a pump: _stop was set; the server is terminated and _proc let go. *)
PumpStops ==
  /\ Running
  /\ \/ up.pc = "stop" /\ up' = Dead /\ UNCHANGED dn
     \/ dn.pc = "stop" /\ dn' = Dead /\ UNCHANGED up
  /\ proc' = "none"
  /\ UNCHANGED <<mode, rules, wire, web, stop, starts, pending, outbox, open, eof, returned>>

(* A server leaves once its stdin is closed. *)
UpstreamExits ==
  /\ Running /\ proc = "alive" /\ ~open
  /\ proc' = "gone"
  /\ UNCHANGED <<mode, rules, wire, web, stop, starts, pending, outbox, pumps>>

(* run(): wait() returns. *)
RunEnds ==
  /\ Running /\ proc # "alive"
  /\ returned' = TRUE /\ stop' = TRUE
  /\ UNCHANGED <<mode, rules, wire, web, proc, starts, pending, outbox, up, dn, open, eof>>

PumpNext ==
  \/ \E i \in Msg : UpTakes(i) \/ DnTakes(i)
  \/ UpWrites \/ DnWrites \/ UpEnds \/ PumpStops

LibraryNext == RecvPending \/ \E i \in Msg : RecvResponse(i)

ProxyNext ==
  \/ HttpNext
  \/ Start
  \/ \E i \in Msg : UpstreamReplies(i) \/ SendRequest(i)
  \/ LibraryNext
  \/ StopLibrary
  \/ PumpNext
  \/ AgentLeaves \/ UpstreamExits \/ RunEnds

(* The pumps are threads that run, the library's agent goes on receiving, and
   the server answers what reaches it and leaves when its stdin is closed. *)
ProxyFairness ==
  /\ WF_pvars(PumpNext) /\ WF_pvars(LibraryNext)
  /\ WF_pvars(RunEnds) /\ WF_pvars(UpstreamExits)
  /\ \A i \in Msg : WF_pvars(UpstreamReplies(i))

-----------------------------------------------------------------------------
(* Properties. *)

(* A request that a rule answers in the server's place never reaches the server,
   in none of the three proxies, and no request reaches it twice (proxies.py
   returns before _forward; send_request says "the upstream never sees the
   request"; the pumps write the error, not the request). *)
RefusedStaysLocal ==
  /\ \A i \in refused : reached[i] = 0
  /\ \A i \in Msg : reached[i] <= 1

(* The agent gets at most one answer per request, and only to what it sent: a
   synthesised reply and the server's own never both arrive, not even when the
   library's proxy is stopped with replies pending and started again. *)
OneAnswer == \A i \in Msg : replies[i] <= (IF i \in sent THEN 1 ELSE 0)

(* No event beyond the first cut that fired is streamed, unless some rule that
   fired cuts at 0, which min() turns into no cut at all (proxies.py:480). *)
CutRespected ==
  LET cuts == {f.at : f \in Fired("truncate_stream")}
  IN 0 \notin cuts => \A c \in cuts : web.events <= c

(* Once a pump or the agent has let go of the server, no message that was on its
   way, in the other thread's hands included, still gets to it. *)
TeardownIsFinal ==
  [][mode # "http" /\ proc # "alive" => UNCHANGED reached]_<<proc, reached>>

(* Every call of the library's agent is settled: it gets an answer, or a rule or
   a teardown took the message. *)
LibrarySettles ==
  <>[](mode = "library" =>
         \A i \in sent : Message[i].id => replies[i] > 0 \/ i \in lost)

(* After the agent disconnects run() returns, whichever rules fire meanwhile:
   the pump closes the server's stdin on every way out (mcp_stdio.py:325-330). *)
RunReturns == (mode = "cli" /\ eof) ~> returned

(* A proxy does to a request what its rules say and nothing else. *)
ProxyFaithful == RefusedStaysLocal /\ OneAnswer /\ CutRespected

(* Whoever waits on a proxy is let go, and what is torn down stays down. *)
ProxyEnds == TeardownIsFinal /\ LibrarySettles /\ RunReturns

=============================================================================
