------------------------------ MODULE Journal ------------------------------
(***************************************************************************)
(* The cross-run journal of the Tape server, as its readers see it: a      *)
(* table of entries numbered by global_seq.  An append first draws its     *)
(* number and then inserts the row, in two statements, so the rows of two  *)
(* concurrent requests can become visible in the opposite order.           *)
(***************************************************************************)
EXTENDS Integers, FiniteSets, FiniteSetsExt, Sequences, SequencesExt

CONSTANTS
  Run, Subject,
  Appender,    \* requests the server handles at the same time
  MaxEntries,  \* bound: numbers drawn from the sequence
  Batch        \* rows one query of the journal returns at most

ASSUME JournalBounds == MaxEntries \in Nat \ {0} /\ Batch \in Nat \ {0}

VARIABLES
  journal,  \* global_seq -> [run, subject], the visible rows
  drawn,    \* numbers drawn so far
  append    \* what each appender is about to insert

journalVars == <<journal, drawn, append>>

None == 0

JournalInit ==
  /\ journal = << >>
  /\ drawn = 0
  /\ append = [a \in Appender |-> None]

(* journal_full, first statement: next_global_seq(). *)
DrawSeq(a) ==
  /\ append[a] = None
  /\ drawn < MaxEntries
  /\ drawn' = drawn + 1
  /\ append' = [append EXCEPT ![a] = drawn + 1]
  /\ UNCHANGED journal

(* journal_full, second statement: the INSERT. *)
InsertEntry(a, run, subject) ==
  /\ append[a] # None
  /\ journal' = [s \in DOMAIN journal \cup {append[a]} |->
                   IF s = append[a] THEN [run |-> run, subject |-> subject] ELSE journal[s]]
  /\ append' = [append EXCEPT ![a] = None]
  /\ UNCHANGED drawn

(* read_journal_after: the first Batch rows past a cursor, in order. *)
ReadAfter(from) ==
  LET rows == SetToSortSeq({s \in DOMAIN journal : s > from}, <)
  IN  SubSeq(rows, 1, Min({Len(rows), Batch}))

JournalNext ==
  \E a \in Appender : DrawSeq(a) \/ \E run \in Run, subject \in Subject : InsertEntry(a, run, subject)

=============================================================================
