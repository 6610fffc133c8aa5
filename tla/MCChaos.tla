------------------------------- MODULE MCChaos -------------------------------
EXTENDS Chaos

Rule(kind, prefix, sure, after, deletes) ==
  [kind |-> kind, prefix |-> prefix, sure |-> sure, at |-> after, deletes |-> deletes]

Refuse == Rule("inject_status", "call", FALSE, 0, FALSE)
RefuseAny == Rule("inject_status", "", FALSE, 0, FALSE)
Drop == Rule("drop_connection", "", FALSE, 0, FALSE)
Delete == Rule("schema_drift", "", FALSE, 0, TRUE)
Cut(n) == Rule("truncate_stream", "", FALSE, n, FALSE)
Shadow == Rule("tool_shadow", "list", TRUE, 0, FALSE)

MCRules == {<<Refuse, Shadow, Drop>>, <<RefuseAny, Delete>>, <<Cut(2), Drop, Cut(3)>>,
            <<Cut(0), Cut(2)>>, <<Delete, Refuse, Drop>>}
MCMessage == <<[method |-> "call", id |-> TRUE], [method |-> "list", id |-> TRUE],
               [method |-> "note", id |-> FALSE]>>
MCUpstream == {"sse", "json", "malformed", "other", "error", "unreachable"}

Fault(layer, target, tool, action, sure, jitter) ==
  [layer |-> layer, target |-> target, tool |-> tool, action |-> action, sure |-> sure,
   jitter |-> jitter]

LoseAck == Fault("connector", "bank", "", "lose_ack", FALSE, FALSE)
Twice == Fault("connector", "", "wire", "duplicate", FALSE, FALSE)
TwiceMail == Fault("connector", "mail", "", "duplicate", TRUE, FALSE)
Slow == Fault("connector", "mail", "", "delay", TRUE, TRUE)
AckAll == Fault("connector", "", "mailer", "lose_ack", FALSE, FALSE)
Ghost == Fault("connector", "fax", "", "lose_ack", TRUE, FALSE)
CrashServer == Fault("server", "begin_effect", "", "panic", TRUE, FALSE)

Scen(faults, strict, seed, one) ==
  [faults |-> faults, strict |-> strict, seed |-> seed, one |-> one]

MCScenarios == {Scen(<<LoseAck, Twice>>, TRUE, 7, "bank"), Scen(<<Slow, AckAll, TwiceMail>>, TRUE, 7, ""),
                Scen(<<Ghost, LoseAck>>, TRUE, 7, ""), Scen(<<Ghost, AckAll>>, FALSE, 0, ""),
                Scen(<<CrashServer, LoseAck>>, TRUE, 0, "")}
MCToolSpec ==
  [wire |-> [conn |-> "bank", keyed |-> TRUE, idempotent |-> FALSE, inverse |-> TRUE],
   probe |-> [conn |-> "bank", keyed |-> FALSE, idempotent |-> FALSE, inverse |-> FALSE],
   mailer |-> [conn |-> "mail", keyed |-> FALSE, idempotent |-> TRUE, inverse |-> TRUE]]
MCBodies == {<<"wire", "mailer">>, <<"mailer", "probe">>, <<"mailer", "mailer">>}
MCSkies == {"lands", "noack", "lost"} \X {"lands", "noack", "lost"}
MCStreams == {<<TRUE>>, <<FALSE>>, <<TRUE, FALSE>>, <<FALSE, FALSE, TRUE>>}
=============================================================================
