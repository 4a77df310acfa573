------------------------------ MODULE Database ------------------------------
(***************************************************************************)
(* openDatabase() (packages/storage/src/database.ts): the process opens    *)
(* its SQLite file, creates what is missing, migrates an older file step   *)
(* by step, records the new version and creates the indexes that need      *)
(* migrated columns.  No transaction encloses these statements: the        *)
(* process may exit between any two of them, and the next start begins     *)
(* again with the first.                                                   *)
(*                                                                         *)
(* A file is abstracted to its version, its tables, the columns that were  *)
(* added to agent_runs, the layout of its table alerts (which version 3    *)
(* replaced) and the rows that a user would miss.                          *)
(***************************************************************************)
EXTENDS Integers, Sequences, FiniteSets, SequencesExt

VARIABLES file,   \* what is on disk
          boot    \* where openDatabase() is

fileVars == <<file, boot>>

-----------------------------------------------------------------------------
SCHEMA_VERSION == 10
NoVersion == 0   \* no row schema_version in meta

\* The tables in the order of SCHEMA_DDL.
TableList == <<"meta", "conversations", "messages", "memories", "memory_chunks",
               "memory_chunks_vec", "memory_chunks_fts", "embedding_cache", "alerts",
               "alert_history", "market_cache", "portfolios", "portfolio_holdings",
               "transactions", "schedules", "agent_runs", "spans", "access_log">>
Columns == {"schedule_id", "used_memory_ids", "trace_id", "parent_span_id", "rerank_meta"}

\* A statement that creates a table, adds a column if it is missing, creates an
\* index on a column, and those that change rows.
Table(t) == [do |-> "table", of |-> t]
Column(c) == [do |-> "column", of |-> c]
Index(c) == [do |-> "index", of |-> c]
DropAlerts == [do |-> "drop", of |-> "alerts"]
Synthesise == [do |-> "synthesise", of |-> "transactions"]
WriteVersion == [do |-> "version", of |-> "meta"]

\* idx_alerts_user_id is the one index of SCHEMA_DDL on a column that a table of
\* an older file may lack.
SCHEMA_DDL == FlattenSeq([i \in 1 .. Len(TableList) |->
                 IF TableList[i] = "alerts" THEN <<Table("alerts"), Index("user_id")>>
                                            ELSE <<Table(TableList[i])>>])

MIGRATIONS == [v \in 2 .. SCHEMA_VERSION |->
    CASE v = 2  -> <<Table("portfolios"), Table("portfolio_holdings")>>
      [] v = 3  -> <<DropAlerts, Table("alerts"), Index("user_id"), Table("alert_history")>>
      [] v = 4  -> <<Table("transactions"), Synthesise>>
      [] v = 5  -> <<Table("agent_runs")>>
      [] v = 6  -> <<Table("schedules"), Column("schedule_id"), Index("schedule_id")>>
      [] v = 7  -> <<Column("used_memory_ids")>>
      [] v = 8  -> <<Column("trace_id"), Column("parent_span_id"), Index("trace_id"), Table("spans")>>
      [] v = 9  -> <<Table("access_log")>>
      [] v = 10 -> <<Column("rerank_meta")>>]

\* ensurePostMigrationSchema().
Post == <<Index("schedule_id"), Index("trace_id")>>

\* Faulty variant: the new version is recorded before the steps have run.
RunMigrationsEarly(from) ==
    <<WriteVersion>> \o FlattenSeq([i \in 1 .. (SCHEMA_VERSION - from) |-> MIGRATIONS[from + i]])

\* runMigrations() and the version that openDatabase() writes afterwards.
RunMigrations(from) ==
    FlattenSeq([i \in 1 .. (SCHEMA_VERSION - from) |-> MIGRATIONS[from + i]]) \o <<WriteVersion>>

\* What follows SCHEMA_DDL, by the version found in the file.
Rest(version) ==
    (IF version = NoVersion THEN <<WriteVersion>>
     ELSE IF version < SCHEMA_VERSION THEN RunMigrations(version) ELSE <<>>) \o Post

-----------------------------------------------------------------------------
\* The version that introduced a table, a column.
TableSince(t) == CASE t \in {"portfolios", "portfolio_holdings"} -> 2
                   [] t = "alert_history" -> 3
                   [] t = "transactions" -> 4
                   [] t = "agent_runs" -> 5
                   [] t = "schedules" -> 6
                   [] t = "spans" -> 8
                   [] t = "access_log" -> 9
                   [] OTHER -> 1
ColumnSince == [schedule_id |-> 6, used_memory_ids |-> 7, trace_id |-> 8, parent_span_id |-> 8,
                rerank_meta |-> 10]

\* A file as the program of version v has left it: with an alert, and from
\* version 2 on with a holding, which from version 4 on rests on a transaction.
MadeBy(v) == [version |-> v,
              tables |-> {t \in Range(TableList) : TableSince(t) <= v},
              columns |-> {c \in Columns : ColumnSince[c] <= v},
              userId |-> v >= 3,
              alerts |-> 1,
              holdings |-> IF v < 2 THEN 0 ELSE 1,
              transactions |-> IF v < 4 THEN 0 ELSE 1]

NoFile == [version |-> NoVersion, tables |-> {}, columns |-> {}, userId |-> FALSE,
           alerts |-> 0, holdings |-> 0, transactions |-> 0]

Unopened == [at |-> "closed"]
Booting(script) == [at |-> "boot", script |-> script]
Open == [at |-> "open"]
Refused == [at |-> "refused"]   \* openDatabase() has thrown

DBInit == /\ file \in {NoFile} \union {MadeBy(v) : v \in 1 .. SCHEMA_VERSION}
          /\ boot = Unopened

-----------------------------------------------------------------------------
\* CREATE TABLE IF NOT EXISTS: a table made now has every column.
CreateTable(t) ==
    IF t \in file.tables THEN file
    ELSE [file EXCEPT !.tables = @ \union {t},
                      !.columns = IF t = "agent_runs" THEN Columns ELSE @,
                      !.userId = @ \/ t = "alerts"]

\* One synthetic transaction for each holding, if there are no transactions.
SynthesiseRows == [file EXCEPT !.transactions = IF @ = 0 THEN file.holdings ELSE @]

\* DROP TABLE alerts takes its rows.
Drop == [file EXCEPT !.tables = @ \ {"alerts"}, !.userId = FALSE, !.alerts = 0]

HasColumn(c) == IF c = "user_id" THEN file.userId ELSE c \in file.columns

Execute(s) == CASE s.do = "table" -> CreateTable(s.of)
                [] s.do = "column" -> [file EXCEPT !.columns = @ \union {s.of}]
                [] s.do = "drop" -> Drop
                [] s.do = "synthesise" -> SynthesiseRows
                [] s.do = "version" -> [file EXCEPT !.version = SCHEMA_VERSION]
                [] OTHER -> file

\* The process starts.
StartOpen == /\ boot = Unopened
             /\ boot' = Booting(SCHEMA_DDL \o <<[do |-> "read", of |-> "meta"]>>)
             /\ UNCHANGED file

\* One statement.  An index on a missing column is an error that ends
\* openDatabase(), and with it main().
Statement ==
    /\ boot.at = "boot" /\ boot.script # <<>>
    /\ LET s == Head(boot.script)
           rest == Tail(boot.script) IN
       IF s.do = "index" /\ ~HasColumn(s.of)
         THEN boot' = Refused /\ UNCHANGED file
         ELSE /\ file' = Execute(s)
              /\ boot' = IF s.do = "read" THEN Booting(Rest(file.version)) ELSE Booting(rest)

Opened == /\ boot.at = "boot" /\ boot.script = <<>>
          /\ boot' = Open /\ UNCHANGED file

\* The process exits, or the user tries again to start it.
Exit == /\ boot # Unopened
        /\ boot' = Unopened /\ UNCHANGED file

DBNext == StartOpen \/ Statement \/ Opened

-----------------------------------------------------------------------------
\* A database that has opened has every table and column the program uses and
\* the current version, wherever earlier attempts to open it were cut off; its
\* user's alert survived, and each holding rests on exactly one transaction: the
\* migration enters it once (openDatabase, runMigrations, step 4).  A file that is
\* refused is one whose alerts still have the layout that version 3 replaces:
\* SCHEMA_DDL fails on it before the step that would replace it.
Upgraded ==
    /\ boot.at = "open" =>
         /\ file.version = SCHEMA_VERSION
         /\ file.tables = Range(TableList) /\ file.columns = Columns /\ file.userId
         /\ file.transactions = file.holdings /\ file.alerts = file.holdings
    /\ boot.at = "refused" =>
         /\ ~file.userId /\ file.version \in 1 .. 2
         /\ file.alerts = 1
=============================================================================
