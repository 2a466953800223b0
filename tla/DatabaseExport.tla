--------------------------- MODULE DatabaseExport ---------------------------
(***************************************************************************)
(* `supra data export-all` (database/mod.rs, database/fetcher.rs): the     *)
(* column families of the archive and of the chain store are written to    *)
(* one JSON file per table, through a buffered writer, one record at a     *)
(* time.  A run can fail between two tables or in one, or be stopped; the  *)
(* files of earlier runs stay in the folder.                               *)
(***************************************************************************)
EXTENDS Integers, Sequences, FiniteSets, Functions

CONSTANTS
  Exports,      \* database |-> the tables export_to_json exports, in order
  Columns,      \* database |-> sets of column families it may have
  BatchSize,    \* records between two flushes
  MaxRows,      \* bound: records of a table
  MaxRuns,      \* bound: runs of the command
  Nil           \* no database, table or file

\* The databases that can be exported.
Exported == {"archive", "chain_store"}
Tables == UNION { UNION Columns[d] : d \in Exported }

ASSUME ExportAssumption ==
  /\ Exports \in [Exported -> Seq(Tables)]
  /\ IsFiniteSet(Tables) /\ Nil \notin Tables \cup Exported
  /\ BatchSize \in Nat \ {0} /\ MaxRows \in Nat /\ MaxRuns \in Nat

VARIABLES
  args,       \* [opened, table, dry_run] of the run
  columns,    \* the column families of each database
  rows,       \* the number of records of every table when the run began
  fetcher,    \* the database being exported, or Nil
  pending,    \* its tables that are still to come
  current,    \* the table being written, or Nil
  written,    \* what its writer was given
  flushed,    \* how much of it is known to be on disk
  files,      \* table |-> what its file has on disk, or Nil
  outcome,    \* "running", "ok", or "error": it ended without reporting success
  runs

exportVars == <<args, columns, rows, fetcher, pending, current, written, flushed, files, outcome, runs>>

\* What a file is made of: the brackets, commas, and the i-th record.
Mark(m) == <<m, 0>>
Rec(i) == <<"record", i>>

\* The JSON array of n records.
Json(n) ==
  [i \in 1..(IF n = 0 THEN 2 ELSE 2*n + 1) |->
     IF i = 1 THEN Mark("[") ELSE IF i > 2*n THEN Mark("]") ELSE IF i % 2 = 0 THEN Rec(i \div 2) ELSE Mark(",")]

ExportInit ==
  /\ columns \in [archive : Columns["archive"], chain_store : Columns["chain_store"]]
  /\ args = [opened |-> {}, table |-> "all", dry_run |-> FALSE]
  /\ rows = 0 /\ fetcher = Nil /\ pending = <<>> /\ current = Nil
  /\ written = <<>> /\ flushed = 0
  /\ files = [t \in Tables |-> Nil]
  /\ outcome = "error" /\ runs = 0

\* ExportAllArgs: the settings files name the databases, or one is named by
\* its path; any name can be given as the table.
StartExport ==
  /\ outcome # "running" /\ runs < MaxRuns
  /\ runs' = runs + 1
  /\ \E opened \in SUBSET Exported, table \in Tables \cup {"all", "unknown"}, dry_run \in BOOLEAN :
       args' = [opened |-> opened, table |-> table, dry_run |-> dry_run]
  /\ rows' \in 0..MaxRows
  /\ outcome' = "running" /\ fetcher' = Nil /\ pending' = <<>>
  /\ UNCHANGED <<columns, current, written, flushed, files>>

will_export(d) == args.table \in columns[d] \cup {"all"}
should_export(t) == args.table \in {t, "all"}

\* The database after the one being exported; the archive comes first.
NextDatabase ==
  IF fetcher = Nil /\ "archive" \in args.opened THEN "archive"
  ELSE IF fetcher # "chain_store" /\ "chain_store" \in args.opened THEN "chain_store"
  ELSE Nil

\* Fetcher::new, which lists the column families, and the check of the table.
OpenDatabase ==
  /\ outcome = "running" /\ current = Nil /\ pending = <<>> /\ NextDatabase # Nil
  /\ \/ /\ fetcher' = NextDatabase
        /\ pending' = IF ~args.dry_run /\ will_export(NextDatabase)
                    THEN Exports[NextDatabase] ELSE <<>>
        /\ UNCHANGED outcome
     \/ outcome' = "error" /\ UNCHANGED <<fetcher, pending>>
  /\ UNCHANGED <<args, columns, rows, current, written, flushed, files, runs>>

\* export_tx and the others return when another table is selected.
SkipTable ==
  /\ outcome = "running" /\ current = Nil /\ pending # <<>> /\ ~should_export(Head(pending))
  /\ pending' = Tail(pending)
  /\ UNCHANGED <<args, columns, rows, fetcher, current, written, flushed, files, outcome, runs>>

\* export_schema_table: without the column family the export of this and of
\* the following tables fails; otherwise the file is truncated.
BeginTable ==
  /\ outcome = "running" /\ current = Nil /\ pending # <<>> /\ should_export(Head(pending))
  /\ IF Head(pending) \in columns[fetcher]
     THEN /\ current' = Head(pending) /\ pending' = Tail(pending)
          /\ written' = <<Mark("[")>> /\ flushed' = 0
          /\ files' = [files EXCEPT ![Head(pending)] = <<>>]
          /\ UNCHANGED outcome
     ELSE outcome' = "error" /\ UNCHANGED <<pending, current, written, flushed, files>>
  /\ UNCHANGED <<args, columns, rows, fetcher, runs>>

\* The records of the table that were written: one after the opening bracket and
\* one after every comma.
Records == Len(written) \div 2

\* The comma for the previous record.
Separator(i) == IF i = 0 THEN <<>> ELSE <<Mark(",")>>

WriteRecord ==
  /\ outcome = "running" /\ current # Nil /\ Records < rows
  /\ LET head == written \o Separator(Records)
     IN /\ written' = Append(head, Rec(Records + 1))
        /\ flushed' = IF Records % BatchSize = 0 THEN Len(head) ELSE flushed
        /\ files' = [files EXCEPT ![current] = SubSeq(head, 1, flushed')]
  /\ UNCHANGED <<args, columns, rows, fetcher, pending, current, outcome, runs>>

\* Bug: the iteration ends before the last record.
EndTable_early ==
  /\ outcome = "running" /\ current # Nil /\ Records + 1 >= rows
  /\ files' = [files EXCEPT ![current] = Append(written, Mark("]"))]
  /\ current' = Nil /\ written' = <<>> /\ flushed' = 0
  /\ UNCHANGED <<args, columns, rows, fetcher, pending, outcome, runs>>

\* The writer is flushed when the array is closed.
EndTable ==
  /\ outcome = "running" /\ current # Nil /\ Records = rows
  /\ files' = [files EXCEPT ![current] = Append(written, Mark("]"))]
  /\ current' = Nil /\ written' = <<>> /\ flushed' = 0
  /\ UNCHANGED <<args, columns, rows, fetcher, pending, outcome, runs>>

\* A record that cannot be converted: the writer is dropped, which flushes it,
\* and the command ends.
FailTable ==
  /\ outcome = "running" /\ current # Nil /\ Records < rows
  /\ files' = [files EXCEPT ![current] = written \o Separator(Records)]
  /\ current' = Nil /\ written' = <<>> /\ flushed' = 0 /\ outcome' = "error"
  /\ UNCHANGED <<args, columns, rows, fetcher, pending, runs>>

\* The process is killed, or a file cannot be created or written: of the buffer
\* any part is on disk.
Stop ==
  /\ outcome = "running" /\ outcome' = "error"
  /\ IF current = Nil THEN UNCHANGED files
     ELSE \E n \in flushed..Len(written) : files' = [files EXCEPT ![current] = SubSeq(written, 1, n)]
  /\ current' = Nil /\ written' = <<>> /\ flushed' = 0
  /\ UNCHANGED <<args, columns, rows, fetcher, pending, runs>>

Finish ==
  /\ outcome = "running" /\ current = Nil /\ pending = <<>> /\ NextDatabase = Nil
  /\ outcome' = "ok"
  /\ UNCHANGED <<args, columns, rows, fetcher, pending, current, written, flushed, files, runs>>

ExportNext ==
  \/ StartExport \/ OpenDatabase \/ SkipTable \/ BeginTable \/ WriteRecord \/ EndTable
  \/ FailTable \/ Stop \/ Finish

ExportSpec == ExportInit /\ [][ExportNext]_exportVars

(***************************************************************************)
(* Properties                                                              *)
(***************************************************************************)

\* When the command reports "Data exported", the file of every table that it
\* exports of the opened databases is a well-formed array of all the records,
\* whatever an earlier run left in its place.
OkIsWhole ==
  outcome = "ok" /\ ~args.dry_run =>
    \A d \in args.opened : \A t \in Range(Exports[d]) :
      should_export(t) /\ t \in columns[d] => files[t] = Json(rows)

Broken == {t \in Tables : files[t] # Nil /\ \A n \in 0..MaxRows : files[t] # Json(n)}

\* Every run that fails or is stopped leaves at most one file that is not a
\* well-formed array: the tables are exported one after the other, and the
\* first error ends the command.
OneBrokenFilePerRun ==
  Cardinality(Broken) <= runs

\* A file is whole unless its own export failed.
ExportIsWhole == OkIsWhole /\ OneBrokenFilePerRun
=============================================================================
