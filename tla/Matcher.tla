------------------------------ MODULE Matcher ------------------------------
(***************************************************************************)
(* The reactions of the event bus, server side: registration, the matcher  *)
(* that every server process runs over the journal, and the tasks it       *)
(* creates.  A pass of the matcher reads the cursors and one batch of the  *)
(* journal, goes through the reactions and, for each, through the entries, *)
(* and writes the reaction's cursors at the end; a server may crash        *)
(* between any two of its statements.                                      *)
(*                                                                         *)
(* A task's times are the comparisons made with them: "expired" for        *)
(* lease_expires_at_ms < now, "due" for next_attempt_at_ms <= now, and     *)
(* "fresh" for created_at_ms + debounce_ms > now.                          *)
(***************************************************************************)
EXTENDS Journal

CONSTANTS
  Defs,         \* the reactions: a sequence of [kind, subjects, shards, debounce,
                \* dlq, registry], the last the workers that declare the handler
  ShardOf,      \* [Run -> Nat]: hash_str(run_id)
  Server,       \* server processes, each with a matcher
  Worker,       \* dispatchers and bridges (lease owners)
  Registrations \* bound: reactions registered in one behaviour

Reaction == DOMAIN Defs
Shards(r) == 0..Defs[r].shards - 1
Shard(r, s) == ShardOf[journal[s].run] % Defs[r].shards

VARIABLES
  registered,  \* tape_reactions
  cursor,      \* tape_reaction_cursors
  tasks,       \* tape_tasks, in the order of their creation
  started,     \* the runs begin_run has made for AGENT reactions
  matcher      \* the local state of each server's matcher

matcherVars == <<registered, cursor, tasks, started, matcher>>

MatcherIdle == [pc |-> "idle", left |-> << >>, todo |-> << >>, batch |-> << >>,
                old |-> << >>, found |-> None]

MatcherInit ==
  /\ registered = {}
  /\ cursor = [r \in Reaction |-> [s \in Shards(r) |-> 0]]
  /\ tasks = << >>
  /\ started = {}
  /\ matcher = [m \in Server |-> MatcherIdle]

(* register_all / RegisterReaction with an id: an upsert that leaves an existing
   cursor alone. *)
Register(r) ==
  /\ r \notin registered
  /\ Cardinality(registered) < Registrations
  /\ registered' = registered \cup {r}
  /\ UNCHANGED <<cursor, tasks, started, matcher>>

-----------------------------------------------------------------------------
(* subjects::matches and cel::evaluate together; an error of the latter is no match. *)
Hits(r, s) == journal[s].subject \in Defs[r].subjects

(* The entries of the batch that a reaction has to dispatch: past the cursor of
   their shard, and hits. *)
Todo(r, batch, old) ==
  SelectSeq(batch, LAMBDA s : s > old[r][Shard(r, s)] /\ Hits(r, s))

(* Where a reaction's cursors are after the batch, hit or not. *)
Advanced(r, batch, old) ==
  [h \in Shards(r) |-> Max({old[r][h]} \cup {s \in Range(batch) : Shard(r, s) = h})]

(* create_task: ON CONFLICT (reaction_id, shard, source_global_seq) DO NOTHING. *)
CreateTask(r, s) ==
  IF \E t \in DOMAIN tasks : /\ tasks[t].reaction = r
                             /\ tasks[t].shard = Shard(r, s)
                             /\ tasks[t].source = s
  THEN tasks
  ELSE Append(tasks, [reaction |-> r, shard |-> Shard(r, s), source |-> s, status |-> "PENDING",
                      attempts |-> 0, owner |-> None, expired |-> FALSE, due |-> TRUE, fresh |-> TRUE])

(* find_pending_task_for_subject, kept only inside its debounce window. *)
PendingFor(r, s) ==
  LET pending == {t \in DOMAIN tasks : /\ tasks[t].reaction = r
                                       /\ tasks[t].status = "PENDING"
                                       /\ journal[tasks[t].source].subject = journal[s].subject}
  IN  IF pending = {} THEN None
      ELSE IF tasks[Max(pending)].fresh THEN Max(pending) ELSE None

(* Mutant: a merge that lost the race is dropped. *)
Coalesce_Drop(t, r, s) ==
  IF tasks[t].status = "PENDING" THEN [tasks EXCEPT ![t].source = s] ELSE tasks

(* coalesce_task, or create_task when the row is no longer PENDING or already
   belongs to the entry in another row. *)
Coalesce(t, r, s) ==
  IF /\ tasks[t].status = "PENDING"
     /\ \A u \in DOMAIN tasks \ {t} : ~(/\ tasks[u].reaction = r
                                        /\ tasks[u].shard = tasks[t].shard
                                        /\ tasks[u].source = s)
  THEN [tasks EXCEPT ![t].source = s]
  ELSE CreateTask(r, s)

-----------------------------------------------------------------------------
(* step, up to the loop: list_reactions, the cursors, one batch past the lowest. *)
MatcherRead(m) ==
  LET low   == Min(UNION {{cursor[r][h] : h \in Shards(r)} : r \in registered})
      batch == ReadAfter(low)
      list  == SetToSortSeq(registered, <)
  IN  /\ matcher[m].pc = "idle"
      /\ registered # {}
      /\ batch # << >>
      /\ matcher' = [matcher EXCEPT ![m] =
           [pc |-> "entry", left |-> list, todo |-> Todo(Head(list), batch, cursor),
            batch |-> batch, old |-> cursor, found |-> None]]
      /\ UNCHANGED <<registered, cursor, tasks, started>>

NextEntry(m) ==
  matcher' = [matcher EXCEPT ![m].pc = "entry", ![m].todo = Tail(@), ![m].found = None]

(* One entry that hits: begin_run, a task, or the search that precedes a merge. *)
MatchEntry(m) ==
  LET r == Head(matcher[m].left)
      s == Head(matcher[m].todo)
      t == PendingFor(r, s)
  IN  /\ matcher[m].pc = "entry"
      /\ matcher[m].todo # << >>
      /\ CASE Defs[r].kind = "AGENT" ->
               started' = started \cup {<<r, s>>} /\ NextEntry(m) /\ UNCHANGED tasks
           [] Defs[r].kind # "AGENT" /\ Defs[r].debounce /\ t # None ->
               /\ matcher' = [matcher EXCEPT ![m].pc = "coalesce", ![m].found = t]
               /\ UNCHANGED <<tasks, started>>
           [] OTHER ->
               tasks' = CreateTask(r, s) /\ NextEntry(m) /\ UNCHANGED started
      /\ UNCHANGED <<registered, cursor>>

MergeEntry(m) ==
  /\ matcher[m].pc = "coalesce"
  /\ tasks' = Coalesce(matcher[m].found, Head(matcher[m].left), Head(matcher[m].todo))
  /\ NextEntry(m)
  /\ UNCHANGED <<registered, cursor, started>>

(* The end of a reaction's turn: set_reaction_cursor for the shards that moved. *)
WriteCursors(m) ==
  LET r == Head(matcher[m].left)
      new == Advanced(r, matcher[m].batch, matcher[m].old)
      rest == Tail(matcher[m].left)
  IN  /\ matcher[m].pc = "entry"
      /\ matcher[m].todo = << >>
      /\ cursor' = [cursor EXCEPT ![r] = [h \in Shards(r) |->
                      IF new[h] > matcher[m].old[r][h] THEN new[h] ELSE @[h]]]
      /\ matcher' = [matcher EXCEPT ![m] =
           IF rest = << >> THEN MatcherIdle
           ELSE [@ EXCEPT !.left = rest,
                          !.todo = Todo(Head(rest), matcher[m].batch, matcher[m].old)]]
      /\ UNCHANGED <<registered, tasks, started>>

CrashServer(m) ==
  /\ matcher[m].pc # "idle"
  /\ matcher' = [matcher EXCEPT ![m] = MatcherIdle]
  /\ UNCHANGED <<registered, cursor, tasks, started>>

MatcherStep(m) == MatcherRead(m) \/ MatchEntry(m) \/ MergeEntry(m) \/ WriteCursors(m)
=============================================================================
