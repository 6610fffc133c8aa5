------------------------------- MODULE Relay -------------------------------
(***************************************************************************)
(* The outbox relay: it streams the journal by subject from the cursor in  *)
(* its file, publishes every entry to a sink, and writes the cursor at the *)
(* end of a tick.  The sink is either direct (webhook, Pub/Sub, log,       *)
(* function), where publish returns once the entry is out, or the AIPlex   *)
(* sink, which buffers.                                                    *)
(***************************************************************************)
EXTENDS Journal

CONSTANTS
  Pattern,     \* subjects that match the relay's pattern
  Prefilter,   \* subjects that match its translation to SQL LIKE
  TickLimit,   \* batch_limit of a tick
  BufferLimit, \* batch_size of the AIPlex sink
  Buffering    \* the sinks a behaviour may use: a subset of BOOLEAN

VARIABLES
  file,      \* last_global_seq in the cursor file
  tick,      \* the tick in progress: [pc, last, count]
  stream,    \* the server side of SubscribeBySubject: [from, rows]
  sink,      \* [buffering, buffer]
  received,  \* entries the downstream system has
  dropped    \* entries that left the sink's buffer and may not have arrived

relayVars == <<file, tick, stream, sink, received, dropped>>

NoTick == [pc |-> "idle", last |-> 0, count |-> 0]
NoStream == [from |-> 0, rows |-> << >>]

RelayInit ==
  /\ file = 0
  /\ tick = NoTick
  /\ stream = NoStream
  /\ sink \in [buffering : Buffering, buffer : {{}}]
  /\ received = {}
  /\ dropped = {}

(* outbox_relay_tick: _read_cursor, open the stream. *)
BeginTick ==
  /\ tick.pc = "idle"
  /\ tick' = [pc |-> "reading", last |-> file, count |-> 0]
  /\ stream' = [from |-> file, rows |-> << >>]
  /\ UNCHANGED <<file, sink, received, dropped>>

(* events_by_subject: the LIKE prefilter and LIMIT in SQL, then the strict match;
   the stream moves on over the rows it returns. *)
StreamBatch ==
  LET coarse == SetToSortSeq({s \in DOMAIN journal : /\ s > stream.from
                                                   /\ journal[s].subject \in Prefilter}, <)
      rows == SelectSeq(SubSeq(coarse, 1, Min({Len(coarse), Batch})),
                        LAMBDA s : journal[s].subject \in Pattern)
  IN  /\ tick.pc = "reading"
      /\ stream.rows = << >>
      /\ rows # << >>
      /\ stream' = [from |-> Last(rows), rows |-> rows]
      /\ UNCHANGED <<file, tick, sink, received, dropped>>

(* The head of the stream, when the tick takes another entry. *)
Taking == tick.pc = "reading" /\ stream.rows # << >> /\ tick.count < TickLimit

Taken == /\ stream' = [stream EXCEPT !.rows = Tail(@)]
         /\ tick' = [tick EXCEPT !.last = Head(stream.rows), !.count = @ + 1]

(* An exception leaves the tick, and the cursor where it was. *)
Aborted == tick' = NoTick /\ stream' = NoStream

(* The stream fails with anything but its deadline. *)
StreamFails ==
  /\ tick.pc = "reading"
  /\ Aborted
  /\ UNCHANGED <<file, sink, received, dropped>>

(* A batch is handed to the downstream system, which may have taken it even when
   the post raised. *)
Posted(batch, raised, arrived) ==
  /\ ~raised => arrived
  /\ received' = IF arrived THEN received \cup batch ELSE received

(* publish of a direct sink.  An attempt that raised may have arrived. *)
PublishDirect(raised, arrived) ==
  /\ Taking
  /\ ~sink.buffering
  /\ Posted({Head(stream.rows)}, raised, arrived)
  /\ IF raised THEN Aborted ELSE Taken
  /\ UNCHANGED <<file, sink, dropped>>

(* publish of AIPlexSink, without a flush. *)
PublishBuffered ==
  /\ Taking
  /\ sink.buffering
  /\ Cardinality(sink.buffer) + 1 < BufferLimit
  /\ sink' = [sink EXCEPT !.buffer = @ \cup {Head(stream.rows)}]
  /\ Taken
  /\ UNCHANGED <<file, received, dropped>>

(* publish that flushes, by size or by flush_interval_s: the batch leaves the
   buffer before it is posted, so a failed post drops it. *)
PublishFlush(raised, arrived) ==
  LET batch == sink.buffer \cup {Head(stream.rows)}
  IN  /\ Taking
      /\ sink.buffering
      /\ Posted(batch, raised, arrived)
      /\ sink' = [sink EXCEPT !.buffer = {}]
      /\ dropped' = IF raised THEN dropped \cup batch ELSE dropped
      /\ IF raised THEN Aborted ELSE Taken
      /\ UNCHANGED file

(* Mutant: the cursor follows the stream, not what was published. *)
EndTick_StreamCursor ==
  /\ tick.pc = "reading"
  /\ file' = stream.from
  /\ tick' = NoTick
  /\ stream' = NoStream
  /\ UNCHANGED <<sink, received, dropped>>

(* The deadline of the stream, or batch_limit: _write_cursor if anything was
   published. *)
EndTick ==
  /\ tick.pc = "reading"
  /\ file' = IF tick.count > 0 THEN tick.last ELSE file
  /\ tick' = NoTick
  /\ stream' = NoStream
  /\ UNCHANGED <<sink, received, dropped>>

(* An orderly stop between ticks: AIPlexSink.close flushes. *)
CloseSink(raised, arrived) ==
  /\ tick.pc = "idle"
  /\ sink.buffer # {}
  /\ Posted(sink.buffer, raised, arrived)
  /\ sink' = [sink EXCEPT !.buffer = {}]
  /\ dropped' = IF raised THEN dropped \cup sink.buffer ELSE dropped
  /\ UNCHANGED <<file, tick, stream>>

CrashRelay ==
  /\ sink' = [sink EXCEPT !.buffer = {}]
  /\ dropped' = dropped \cup sink.buffer
  /\ Aborted
  /\ UNCHANGED <<file, received>>

RelayStep ==
  \/ BeginTick \/ StreamBatch \/ PublishBuffered \/ EndTick \/ StreamFails
  \/ \E raised, arrived \in BOOLEAN :
       PublishDirect(raised, arrived) \/ PublishFlush(raised, arrived) \/ CloseSink(raised, arrived)

-----------------------------------------------------------------------------
Wanted == {s \in DOMAIN journal : journal[s].subject \in Pattern}

(* The cursor in the file never passes an entry without a trace of it: with a direct
   sink everything at or below it has arrived, whatever publishes raised and
   wherever the relay crashed; with the AIPlex sink it has arrived, is still in the
   buffer, or was in a buffer that a crash or a failed flush took away. *)
CursorAccounted ==
  \A s \in Wanted :
    s <= file => \/ s \in received
                 \/ sink.buffering /\ s \in sink.buffer \cup dropped
=============================================================================
