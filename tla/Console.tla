------------------------------- MODULE Console -------------------------------
(***************************************************************************)
(* The operator's commands that watch a running system: the inspector app  *)
(* and `tape inspect --summary`, which follow the journal of a run, and    *)
(* `tape doctor --live` and `tape inspect-adk`, which query the tables.    *)
(* Each takes several reads while requests change the ledger, and ends in  *)
(* a screen or an exit code that a human or a script relies on.            *)
(*                                                                         *)
(* The ledger is one run with its effects and obligations.  A request      *)
(* changes a row, increments the run's counter, reads it back, and inserts *)
(* the journal entry, in four statements without a transaction; the        *)
(* embedded tier changes rows only.                                        *)
(***************************************************************************)
EXTENDS Integers, FiniteSets, FiniteSetsExt, Sequences, SequencesExt

CONSTANTS
  Request,     \* requests the server handles at the same time
  MaxSeq,      \* bound: journal numbers of the run
  Prompt,      \* the server streams what the journal holds within the 2 s of _drain
  Target,      \* bound: the statuses that requests write
  FromSeq,     \* --from-seq of the inspector
  Consoles     \* the commands checked: a subset of {"inspector", "summary"} and of DOMAIN Queries

VARIABLES
  console,     \* the command that runs
  rowStatus,   \* row -> status, of tape_effects and tape_obligations
  seqCursor,   \* tape_runs.seq_cursor
  wal,         \* tape_journal of the run: seq -> [row, label]
  request,     \* request -> [pc, entry, seq]
  fate,        \* row -> what became of the entry for its present status
  lasting,     \* rows that have been wrong since the command began its snapshot
  screen       \* the state of the command

ledgerVars == <<rowStatus, seqCursor, wal, request, fate, lasting>>
consoleVars == <<console, ledgerVars, screen>>

(* The queries of a triage command, in order. *)
Queries ==
  [doctor |-> <<"runs", "pending", "unknown", "stuck", "unresolved", "outbox", "timers">>,
   doctor_adk |-> <<"pending", "unknown", "outbox", "timers", "stuck", "unresolved">>,
   inspect_adk |-> <<"session", "events", "unknown", "stuck", "timers">>]

Row(kind, id) == [kind |-> kind, id |-> id]
(* An entry as decode_entry shows it: what it is about, and its status. *)
JournalEntry(row, label) == [row |-> row, label |-> label]

(* An effect that was confirmed, with the obligation registered for it. *)
Rows == {Row("effect", 1), Row("obligation", 1)}
FirstStatus == [r \in Rows |-> IF r.kind = "effect" THEN "confirmed" ELSE "pending"]
FirstEntries ==
  << JournalEntry(Row("run", 1), "running"), JournalEntry(Row("effect", 1), "pending"),
     JournalEntry(Row("effect", 1), "confirmed"), JournalEntry(Row("obligation", 1), "pending") >>

NoRequest == [pc |-> "idle", entry |-> JournalEntry(Row("run", 1), "running"), seq |-> 0]

(* What the commands count as wrong: UNKNOWN effects and STUCK obligations; the
   summary counts FAILED effects too. *)
Loud(status) == {r \in Rows : status[r] = (IF r.kind = "effect" THEN "unknown" ELSE "stuck")}
Bad(status) == Loud(status) \cup {r \in Rows : status[r] = "failed"}

-----------------------------------------------------------------------------
(* The requests: every write of a status that a handler of the store makes. *)

(* complete_effect: a PENDING effect only. *)
Completions(r) ==
  {[to |-> s, label |-> s] : s \in IF rowStatus[r] = "pending" THEN {"confirmed", "failed", "unknown"}
                                                             ELSE {}}
(* record_dispatch_attempt, and record_external_observation, whose entry does not tell
   the status: whatever the status was. *)
Attempts == {[to |-> s, label |-> s] : s \in {"pending", "unknown"}}
Observations == {[to |-> s, label |-> "observed"] : s \in {"confirmed", "failed", "pending", "unknown"}}
(* claim_obligation, record_obligation_attempt, resolve_obligation. *)
Claims(r) ==
  {[to |-> s, label |-> s] : s \in IF rowStatus[r] \in {"pending", "committed"} THEN {"committed"} ELSE {}}
Outcomes == {[to |-> s, label |-> s] : s \in {"pending", "stuck", "compensated"}}

Changes(r) ==
  {c \in IF r.kind = "effect" THEN Completions(r) \cup Attempts \cup Observations
                              ELSE Claims(r) \cup Outcomes : c.to \in Target}

(* The UPDATE of the row.  Each command's worlds leave out what it cannot see: the
   inspector reads no row, the triage commands read no journal. *)
UpdateRow(q, r, change) ==
  /\ request[q].pc = "idle"
  /\ seqCursor + Cardinality({p \in Request : request[p].pc = "updated"}) < MaxSeq
  /\ IF console = "inspector"
     THEN UNCHANGED <<rowStatus, fate, lasting>>
     ELSE /\ rowStatus' = [rowStatus EXCEPT ![r] = change.to]
          /\ fate' = [fate EXCEPT ![r] = IF change.label = change.to THEN "open" ELSE "observed"]
          /\ lasting' = lasting \cap Loud(rowStatus')
  /\ request' = IF console \in DOMAIN Queries
                THEN request
                ELSE [request EXCEPT ![q] = [pc |-> "updated", seq |-> 0,
                                             entry |-> JournalEntry(r, change.label)]]
  /\ UNCHANGED <<seqCursor, wal>>

(* next_seq, its UPDATE and its SELECT. *)
IncrementSeq(q) ==
  /\ request[q].pc = "updated"
  /\ seqCursor' = seqCursor + 1
  /\ request' = [request EXCEPT ![q].pc = "incremented"]
  /\ UNCHANGED <<rowStatus, wal, fate, lasting>>

ReadSeq(q) ==
  /\ request[q].pc = "incremented"
  /\ request' = [request EXCEPT ![q].pc = "numbered", ![q].seq = seqCursor]
  /\ UNCHANGED <<rowStatus, seqCursor, wal, fate, lasting>>

(* The entry's row still has the status the entry tells. *)
Settled(entry, outcome) ==
  IF entry.row \in Rows /\ fate[entry.row] = "open" /\ rowStatus[entry.row] = entry.label
  THEN [fate EXCEPT ![entry.row] = outcome]
  ELSE fate

(* journal_full: (run_id, seq) is the primary key, so a number read twice fails. *)
InsertEntry(q) ==
  /\ request[q].pc = "numbered"
  /\ LET new == request[q].seq \notin DOMAIN wal
     IN  /\ wal' = IF new
                   THEN [s \in DOMAIN wal \cup {request[q].seq} |->
                           IF s = request[q].seq THEN request[q].entry ELSE wal[s]]
                   ELSE wal
         /\ fate' = Settled(request[q].entry, IF new THEN "journalled" ELSE "lost")
  /\ request' = [request EXCEPT ![q] = NoRequest]
  /\ UNCHANGED <<rowStatus, seqCursor, lasting>>

(* The server dies, or drops a request, between two statements. *)
AbandonRequest(q) ==
  /\ request[q].pc # "idle"
  /\ request' = [request EXCEPT ![q] = NoRequest]
  /\ fate' = Settled(request[q].entry, "lost")
  /\ UNCHANGED <<rowStatus, seqCursor, wal, lasting>>

LedgerStep ==
  /\ console # "off"
  /\ \E q \in Request :
       \/ \E r \in Rows : \E change \in Changes(r) : UpdateRow(q, r, change)
       \/ IncrementSeq(q) \/ ReadSeq(q) \/ InsertEntry(q) \/ AbandonRequest(q)
  /\ UNCHANGED <<console, screen>>

-----------------------------------------------------------------------------
(* Following the journal: `tape inspect --summary` and the inspector app. *)

(* journal_range: the rows of the run from a number on, in order. *)
JournalRange(from) ==
  SelectSeq([s \in 1..MaxSeq |-> s], LAMBDA s : s \in DOMAIN wal /\ s >= from)

(* Mutant: the stream resumes at the last entry it sent. *)
ResumeAt_Again(sent) == Last(sent)

(* subscribe_run's loop resumes after the last entry it sent. *)
ResumeAt(sent) == Last(sent) + 1

(* _do_summary: get_run, then _drain with a deadline of 2 s. *)
BeginSummary ==
  /\ console = "summary" /\ screen.pc = "start"
  /\ screen' = [pc |-> "drain", from |-> 0, seen |-> {}, verdict |-> 0,
                known |-> {r \in Bad(rowStatus) : fate[r] = "journalled"}]

DrainBatch ==
  /\ console = "summary" /\ screen.pc = "drain"
  /\ JournalRange(screen.from) # << >>
  /\ screen' = [screen EXCEPT !.seen = @ \cup ToSet(JournalRange(screen.from)),
                              !.from = ResumeAt(JournalRange(screen.from))]

(* Mutant: stuck obligations are not counted. *)
BadEntry_EffectsOnly(entry) == entry.row.kind = "effect" /\ entry.label \in {"unknown", "failed"}

(* The counters of _do_summary: decoded entries by kind and status. *)
BadEntry(entry) ==
  \/ entry.row.kind = "effect" /\ entry.label \in {"unknown", "failed"}
  \/ entry.row.kind = "obligation" /\ entry.label = "stuck"

(* DEADLINE_EXCEEDED ends the drain; the counts give the exit code. *)
EndSummary ==
  /\ console = "summary" /\ screen.pc = "drain"
  /\ Prompt => screen.seen # {}
  /\ screen' = [screen EXCEPT !.pc = "exit",
                              !.verdict = IF \E s \in screen.seen : BadEntry(wal[s]) THEN 1 ELSE 0]

SummaryStep == BeginSummary \/ DrainBatch \/ EndSummary

Divider == 0   \* the row "live (entries arriving after connect)"

View == {[kind |-> "", word |-> ""], [kind |-> "effect", word |-> ""], [kind |-> "", word |-> "pending"]}

(* _entry_visible: the kind filter and the search word. *)
Visible(view, s) ==
  /\ view.kind \in {"", wal[s].row.kind}
  /\ view.word \in {"", wal[s].label}

(* _add_row: a divider once, before the first row past the connect cursor. *)
AddRow(table, connect, s) ==
  LET row == [seq |-> s, history |-> connect # 0 /\ s <= connect]
      cut == [seq |-> Divider, history |-> FALSE]
  IN  IF cut \notin ToSet(table) /\ connect # 0 /\ s > connect
      THEN table \o <<cut, row>>
      ELSE Append(table, row)

(* _rebuild_table: wipe the table, and the divider with it. *)
Rebuilt(entries, view, connect) ==
  FoldLeft(LAMBDA table, s : AddRow(table, connect, s), << >>,
           SelectSeq(entries, LAMBDA s : Visible(view, s)))

(* on_mount: get_run primes the connect cursor, unless the call fails; then the stream
   and the poll worker start. *)
Mount ==
  /\ console = "inspector" /\ screen.pc = "start"
  /\ \E connect \in {seqCursor, 0} :
       screen' = [pc |-> "up", connect |-> connect, primed |-> connect # 0, from |-> FromSeq,
                  queue |-> << >>, polled |-> 0, entries |-> << >>, table |-> << >>,
                  view |-> [kind |-> "", word |-> ""], before |-> DOMAIN wal]

Up == console = "inspector" /\ screen.pc = "up"

(* subscribe_run and _stream_worker: a batch of entries is posted to the UI thread. *)
StreamBatch ==
  /\ Up /\ screen.queue = << >>
  /\ JournalRange(screen.from) # << >>
  /\ screen' = [screen EXCEPT !.queue = JournalRange(screen.from),
                              !.from = ResumeAt(JournalRange(screen.from))]

(* _on_entry *)
OnEntry ==
  /\ Up /\ screen.queue # << >>
  /\ LET s == Head(screen.queue)
     IN  screen' = [screen EXCEPT !.queue = Tail(@), !.entries = Append(@, s),
                                 !.table = IF Visible(screen.view, s)
                                           THEN AddRow(@, screen.connect, s)
                                           ELSE @]

(* _poll_worker posts what get_run returned; _on_run_state seeds the cursor with it if
   on_mount did not. *)
PollRun ==
  /\ Up /\ screen.polled = 0 /\ ~screen.primed
  /\ screen' = [screen EXCEPT !.polled = seqCursor]

OnRunState ==
  /\ Up /\ screen.polled # 0
  /\ screen' = [screen EXCEPT !.polled = 0, !.connect = IF @ = 0 THEN screen.polled ELSE @]

(* action_filter_kind and the search handlers. *)
ChangeView(view) ==
  /\ Up /\ view # screen.view
  /\ screen' = [screen EXCEPT !.view = view, !.table = Rebuilt(screen.entries, view, screen.connect)]

InspectorStep ==
  Mount \/ StreamBatch \/ OnEntry \/ PollRun \/ OnRunState \/ \E view \in View : ChangeView(view)

-----------------------------------------------------------------------------
(* Querying the tables: `tape doctor --live`, with a server or embedded, and
   `tape inspect-adk`. *)

(* What a query contributes to the exit code; the others are only shown. *)
Answer(query) ==
  CASE query = "unknown" -> {r \in Loud(rowStatus) : r.kind = "effect"}
    [] query = "stuck" -> {r \in Loud(rowStatus) : r.kind = "obligation"}
    [] OTHER -> {}

BeginTriage ==
  /\ console \in DOMAIN Queries /\ screen.pc = "start"
  /\ screen' = [pc |-> "query", next |-> 1, found |-> {}, failed |-> FALSE, verdict |-> 0]
  /\ lasting' = Loud(rowStatus)

Querying == console \in DOMAIN Queries /\ screen.pc = "query" /\ screen.next <= Len(Queries[console])

Query ==
  /\ Querying
  /\ screen' = [screen EXCEPT !.next = @ + 1, !.found = @ \cup Answer(Queries[console][screen.next])]
  /\ UNCHANGED lasting

(* _safe: the doctor goes on with an empty list; the embedded commands raise. *)
QueryFails ==
  /\ Querying
  /\ screen' = IF console = "doctor"
               THEN [screen EXCEPT !.next = @ + 1, !.failed = TRUE]
               ELSE [screen EXCEPT !.pc = "exit", !.failed = TRUE, !.verdict = 1]
  /\ UNCHANGED lasting

(* _exit_code_from_snapshot *)
ExitCode(found) ==
  IF \E r \in found : r.kind = "obligation" THEN 2
  ELSE IF found # {} THEN 1
  ELSE 0

EndTriage ==
  /\ console \in DOMAIN Queries /\ screen.pc = "query"
  /\ screen.next > Len(Queries[console])
  /\ screen' = [screen EXCEPT !.pc = "exit", !.verdict = ExitCode(screen.found)]
  /\ UNCHANGED lasting

TriageStep == BeginTriage \/ Query \/ QueryFails \/ EndTriage

-----------------------------------------------------------------------------
ConsoleInit(commands) ==
  /\ console \in commands
  /\ rowStatus = FirstStatus
  /\ seqCursor = Len(FirstEntries)
  /\ wal = FirstEntries
  /\ request = [q \in Request |-> NoRequest]
  /\ fate = [r \in Rows |-> "journalled"]
  /\ lasting = {}
  /\ screen = [pc |-> "start"]

CommandStep ==
  /\ \/ (SummaryStep \/ InspectorStep) /\ UNCHANGED lasting
     \/ TriageStep
  /\ UNCHANGED <<console, rowStatus, seqCursor, wal, request, fate>>

ConsoleNext == LedgerStep \/ CommandStep

-----------------------------------------------------------------------------
(* The entries of the inspector are in the order of the journal and none comes twice,
   through any number of batches: "ordered by arrival (== by seq)", and a second row
   with the key of an entry would be refused by the table. *)
EntriesInOrder ==
  Up => \A i, j \in DOMAIN screen.entries : i < j => screen.entries[i] < screen.entries[j]

(* The rows that _on_entry adds one by one are those a rebuild would show, with the
   divider in the same place, whatever filters were set in between. *)
TableConsistent ==
  Up /\ screen.primed => screen.table = Rebuilt(screen.entries, screen.view, screen.connect)

(* A row below the divider was written after the inspector connected, although numbers
   are drawn before entries are inserted and the cursor may be seeded late: "live
   (arrived after connect)". *)
LiveRowsAreNew ==
  Up => \A i, j \in DOMAIN screen.table :
          screen.table[i].seq = Divider /\ i < j => screen.table[j].seq \notin screen.before

(* A clean summary means that no row was UNKNOWN, FAILED or STUCK, with an entry of the
   journal that says so, when the command began. *)
SummaryHonest ==
  console = "summary" /\ screen.pc = "exit" /\ screen.verdict = 0 => screen.known = {}

(* An exit code of 0 with no query failed means that nothing was UNKNOWN or STUCK from
   the first query to the last; and a STUCK obligation is not reported as less. *)
TriageHonest ==
  console \in DOMAIN Queries /\ screen.pc = "exit" /\ ~screen.failed =>
    /\ screen.verdict = 0 => lasting = {}
    /\ screen.verdict < 2 => \A r \in lasting : r.kind = "effect"

(* What the inspector shows is the journal, in its order, filtered and divided as a
   rebuild would do it. *)
ScreenFaithful == EntriesInOrder /\ TableConsistent /\ LiveRowsAreNew

(* A command that ends with "all clear" was right about the whole time it looked. *)
VerdictHonest == SummaryHonest /\ TriageHonest

=============================================================================
