------------------------------ MODULE Migration ------------------------------
(***************************************************************************)
(* SQLiteProjectRunRepository.initialize (repository.py): every server     *)
(* process brings the database to the current schema when it starts.  An   *)
(* ALTER TABLE commits by itself, so a process that ends, and a second one *)
(* that starts at the same time, find any prefix of them done.  From the   *)
(* first UPDATE on, sqlite3 keeps everything in one transaction.           *)
(***************************************************************************)
EXTENDS Naturals, Sequences

CONSTANTS
  Servers,     \* processes on one database file
  Runs,        \* rows of project_run_contexts
  MaxCrashes   \* bound: starts that are cut off (the process ends, or waits for
               \* the database lock for more than its 30 seconds)

ASSUME MaxCrashesAssumption == MaxCrashes \in Nat

\* The columns that matter to a row, in the order initialize adds them.
Columns == <<"lock", "facts", "draft", "composition", "count">>
AllColumns == {Columns[i] : i \in 1..Len(Columns)}

\* The schemas earlier versions of the program left behind (day 9, 10, 11, 12
\* and 14 of its plan).
LegacySchemas ==
  {{}, {"lock"}, {"lock", "draft"}, {"lock", "draft", "composition"}, AllColumns}

\* A row: what is stored in it.  A column that is not there holds nothing.
Row == [lock : BOOLEAN, draft : BOOLEAN, facts : BOOLEAN,
        composition : BOOLEAN, count : {0, 1}]

VARIABLES
  schema,   \* the columns of project_run_contexts
  rows,
  server,   \* each process: its step, the columns it saw, the next one to add
  crashes

vars == <<schema, rows, server, crashes>>

Down == [step |-> "down", seen |-> {}, next |-> 1]

\* What a version with this schema may have written: a draft needs a confirmed
\* lock and a picture a draft, in the order of the workflow, and only the
\* current version records the facts and the count.
Writable(row, columns) ==
  /\ row.lock => "lock" \in columns
  /\ row.draft => row.lock /\ "draft" \in columns
  /\ row.composition => row.draft /\ "composition" \in columns
  /\ row.facts = (row.draft /\ "facts" \in columns)
  /\ row.count = IF row.composition /\ "count" \in columns THEN 1 ELSE 0

Init ==
  /\ schema \in LegacySchemas
  /\ rows \in [Runs -> {row \in Row : Writable(row, schema)}]
  /\ server = [s \in Servers |-> Down]
  /\ crashes = 0

At(s, step) == server[s].step = step
Goto(s, step) == server' = [server EXCEPT ![s].step = step]

\* CREATE TABLE IF NOT EXISTS, then PRAGMA table_info.
ReadColumns(s) ==
  /\ At(s, "down")
  /\ server' = [server EXCEPT ![s] = [step |-> "alter", seen |-> schema, next |-> 1]]
  /\ UNCHANGED <<schema, rows, crashes>>

\* Mutant of Missing: the columns are added without looking.
MissingAlways(s) == TRUE

Missing(s) == Columns[server[s].next] \notin server[s].seen

\* One ALTER TABLE: a column that another process has added by now is a
\* duplicate, and the start fails.
AddColumn(s) ==
  /\ At(s, "alter") /\ server[s].next <= Len(Columns)
  /\ LET column == Columns[server[s].next] IN
       IF ~Missing(s)
         THEN server' = [server EXCEPT ![s].next = @ + 1] /\ UNCHANGED schema
       ELSE IF column \in schema
         THEN server' = [server EXCEPT ![s] = Down] /\ UNCHANGED schema
       ELSE /\ schema' = schema \cup {column}
            /\ server' = [server EXCEPT ![s].next = @ + 1]
  /\ UNCHANGED <<rows, crashes>>

\* The rows of earlier versions: a picture counts as the one initial generation,
\* and a draft gets the facts of its lock.
Filled(row) ==
  [row EXCEPT !.count = IF row.composition /\ row.count = 0 THEN 1 ELSE row.count,
              !.facts = row.facts \/ row.draft]

\* Mutant of Backfill: only the process that added a column fills it.
BackfillOwn(s) ==
  /\ At(s, "alter") /\ server[s].next > Len(Columns)
  /\ rows' = [r \in Runs |-> [rows[r] EXCEPT
        !.count = IF "count" \notin server[s].seen THEN Filled(rows[r]).count ELSE @,
        !.facts = IF "facts" \notin server[s].seen THEN Filled(rows[r]).facts ELSE @]]
  /\ Goto(s, "ready")
  /\ UNCHANGED <<schema, crashes>>

\* The rest is one transaction.  A drafted row without a lock raises, and
\* nothing of the transaction is kept.
Backfill(s) ==
  /\ At(s, "alter") /\ server[s].next > Len(Columns)
  /\ IF \E r \in Runs : rows[r].draft /\ ~rows[r].facts /\ ~rows[r].lock
       THEN server' = [server EXCEPT ![s] = Down] /\ UNCHANGED rows
       ELSE rows' = [r \in Runs |-> Filled(rows[r])] /\ Goto(s, "ready")
  /\ UNCHANGED <<schema, crashes>>

\* A start is cut off; a transaction under way is rolled back.
CrashStarting(s) ==
  /\ At(s, "alter") /\ crashes < MaxCrashes
  /\ server' = [server EXCEPT ![s] = Down]
  /\ crashes' = crashes + 1
  /\ UNCHANGED <<schema, rows>>

\* A process that is ready serves: the rows go on through the workflow
\* (confirm_brand_lock, save_draft, save_composition), while others start.
Serve(s, r) ==
  /\ At(s, "ready")
  /\ LET row == rows[r] IN
       \/ ~row.lock /\ rows' = [rows EXCEPT ![r].lock = TRUE]
       \/ row.lock /\ ~row.draft /\ rows' = [rows EXCEPT ![r].draft = TRUE, ![r].facts = TRUE]
       \/ /\ row.draft /\ ~row.composition /\ row.count = 0
          /\ rows' = [rows EXCEPT ![r].composition = TRUE, ![r].count = 1]
  /\ UNCHANGED <<schema, server, crashes>>

Starts(s) == ReadColumns(s) \/ AddColumn(s) \/ Backfill(s)

Next ==
  \E s \in Servers : Starts(s) \/ CrashStarting(s) \/ (\E r \in Runs : Serve(s, r))

\* A server that could not start is started again, and a start goes on.
Fairness == \A s \in Servers : WF_vars(Starts(s))

Spec == Init /\ [][Next]_vars /\ Fairness

-----------------------------------------------------------------------------
Types ==
  /\ schema \subseteq AllColumns
  /\ rows \in [Runs -> Row]
  /\ server \in [Servers -> [step : {"down", "alter", "ready"}, seen : SUBSET AllColumns,
                             next : 1..(Len(Columns) + 1)]]
  /\ crashes \in 0..MaxCrashes

\* A server that answers requests has the whole schema under it, every draft
\* has its facts and every picture is counted, however many starts before it
\* were cut off after some ALTER and whoever else was starting (initialize).
ReadyMeansMigrated ==
  \A s \in Servers : At(s, "ready") =>
    /\ schema = AllColumns
    /\ \A r \in Runs : (rows[r].draft => rows[r].facts)
                       /\ (rows[r].composition => rows[r].count = 1)

\* Two processes that start together fail each other's ALTER, but not for ever:
\* every server that is started again gets ready and stays so (initialize).
StartsConverge == \A s \in Servers : <>[]At(s, "ready")
=============================================================================
