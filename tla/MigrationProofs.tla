--------------------------- MODULE MigrationProofs ---------------------------
(***************************************************************************)
(* That a server which answers requests has a migrated database under it,  *)
(* for any number of processes, rows and cut-off starts.  The invariant    *)
(* adds what a start has done so far: every column before the one it is at *)
(* exists, whoever added it.  Nothing ever removes a column or empties one.*)
(***************************************************************************)
EXTENDS Migration, TLAPS

AddedSoFar ==
  \A s \in Servers : At(s, "alter") =>
    /\ server[s].seen \subseteq schema
    /\ \A i \in 1..Len(Columns) : i < server[s].next => Columns[i] \in schema

MigrationInv == Types /\ AddedSoFar /\ ReadyMeansMigrated

LEMMA ColumnsAreFive ==
  /\ Len(Columns) = 5
  /\ \A i \in 1..5 : Columns[i] \in AllColumns
  /\ AllColumns = {"lock", "facts", "draft", "composition", "count"}
<1>1. Len(Columns) = 5
  BY DEF Columns
<1>2. AllColumns = {Columns[1], Columns[2], Columns[3], Columns[4], Columns[5]}
  BY <1>1 DEF AllColumns
<1> QED BY <1>1, <1>2 DEF Columns, AllColumns

LEMMA InitMigration == Init => MigrationInv
<1> SUFFICES ASSUME Init PROVE MigrationInv
  OBVIOUS
<1>1. schema \subseteq AllColumns
  BY ColumnsAreFive DEF Init, LegacySchemas
<1>2. Types
  BY <1>1, ColumnsAreFive, MaxCrashesAssumption DEF Init, Types, Down
<1>3. \A s \in Servers : server[s].step = "down"
  BY DEF Init, Down
<1> QED BY <1>2, <1>3 DEF MigrationInv, AddedSoFar, ReadyMeansMigrated, At

LEMMA ReadColumnsKeepsInv ==
  ASSUME MigrationInv, NEW s \in Servers, ReadColumns(s) PROVE MigrationInv'
<1> USE DEF MigrationInv, Types
<1>1. Types'
  BY ColumnsAreFive DEF ReadColumns
<1>2. AddedSoFar'
  BY DEF ReadColumns, AddedSoFar, At
<1>3. ReadyMeansMigrated'
  BY DEF ReadColumns, ReadyMeansMigrated, At
<1> QED BY <1>1, <1>2, <1>3

LEMMA AddColumnKeepsInv ==
  ASSUME MigrationInv, NEW s \in Servers, AddColumn(s) PROVE MigrationInv'
<1> DEFINE column == Columns[server[s].next]
<1>1. /\ Types /\ AddedSoFar /\ ReadyMeansMigrated
      /\ At(s, "alter") /\ server[s].next <= Len(Columns) /\ UNCHANGED <<rows, crashes>>
  BY DEF MigrationInv, AddColumn
<1>2. server[s].next \in 1..5 /\ column \in AllColumns
  BY <1>1, ColumnsAreFive DEF Types
<1> HIDE DEF column
<1>3. CASE column \in schema /\ Missing(s)
  <2>1. server' = [server EXCEPT ![s] = Down] /\ UNCHANGED schema
    BY <1>3 DEF AddColumn, column
  <2>2. Types'
    BY <1>1, <2>1, ColumnsAreFive DEF Types, Down
  <2>3. AddedSoFar' /\ ReadyMeansMigrated'
    BY <1>1, <2>1 DEF Types, AddedSoFar, ReadyMeansMigrated, At, Down
  <2> QED BY <2>2, <2>3 DEF MigrationInv
<1>4. CASE ~(column \in schema /\ Missing(s))
  <2>1. /\ server' = [server EXCEPT ![s].next = @ + 1]
        /\ schema' = schema \cup {column}
    <3>1. CASE ~Missing(s)
      <4>1. column \in schema
        BY <1>1, <3>1 DEF Missing, AddedSoFar, column
      <4> QED BY <3>1, <4>1 DEF AddColumn
    <3>2. CASE Missing(s)
      BY <1>4, <3>2 DEF AddColumn, column
    <3> QED BY <3>1, <3>2
  <2>2. Types'
    BY <1>1, <1>2, <2>1, ColumnsAreFive DEF Types
  <2>3. AddedSoFar'
    <3> SUFFICES ASSUME NEW q \in Servers, At(q, "alter")'
                 PROVE  /\ server'[q].seen \subseteq schema'
                        /\ \A i \in 1..Len(Columns) : i < server'[q].next => Columns[i] \in schema'
      BY DEF AddedSoFar
    <3>1. CASE q = s
      <4>1. server'[s].next = server[s].next + 1 /\ server'[s].seen = server[s].seen
        BY <1>1, <2>1 DEF Types
      <4>2. ASSUME NEW i \in 1..5, i < server'[s].next PROVE Columns[i] \in schema'
        <5>1. i < server[s].next \/ i = server[s].next
          BY <1>2, <4>1, <4>2
        <5> QED BY <5>1, <1>1, <2>1, ColumnsAreFive DEF AddedSoFar, column
      <4> QED BY <3>1, <4>1, <4>2, <1>1, <2>1, ColumnsAreFive DEF AddedSoFar
    <3>2. CASE q # s
      <4>1. server'[q] = server[q] /\ At(q, "alter")
        BY <1>1, <2>1, <3>2 DEF Types, At
      <4> QED BY <4>1, <1>1, <2>1 DEF AddedSoFar
    <3> QED BY <3>1, <3>2
  <2>4. ReadyMeansMigrated'
    <3>1. \A q \in Servers : At(q, "ready")' => At(q, "ready")
      BY <1>1, <2>1 DEF Types, At
    <3>2. schema = AllColumns => schema' = AllColumns
      BY <1>2, <2>1
    <3> QED BY <1>1, <3>1, <3>2 DEF ReadyMeansMigrated
  <2> QED BY <2>2, <2>3, <2>4 DEF MigrationInv
<1> QED BY <1>3, <1>4

\* What the transaction at the end makes of a row.
LEMMA FilledRows ==
  ASSUME NEW row \in Row
  PROVE  /\ Filled(row) \in Row
         /\ Filled(row).draft => Filled(row).facts
         /\ Filled(row).composition => Filled(row).count = 1
BY DEF Row, Filled

LEMMA BackfillKeepsInv ==
  ASSUME MigrationInv, NEW s \in Servers, Backfill(s) PROVE MigrationInv'
<1>1. /\ Types /\ AddedSoFar /\ ReadyMeansMigrated
      /\ At(s, "alter") /\ server[s].next > Len(Columns) /\ UNCHANGED <<schema, crashes>>
  BY DEF MigrationInv, Backfill
<1>2. CASE server' = [server EXCEPT ![s] = Down] /\ UNCHANGED rows
  <2>1. Types'
    BY <1>1, <1>2, ColumnsAreFive DEF Types, Down
  <2> QED BY <1>1, <1>2, <2>1 DEF MigrationInv, Types, AddedSoFar, ReadyMeansMigrated, At, Down
<1>3. CASE rows' = [r \in Runs |-> Filled(rows[r])] /\ Goto(s, "ready")
  <2>1. \A r \in Runs : /\ rows'[r] \in Row
                        /\ rows'[r].draft => rows'[r].facts
                        /\ rows'[r].composition => rows'[r].count = 1
    BY <1>1, <1>3, FilledRows DEF Types
  <2>2. Types'
    <3>1. server' \in [Servers -> [step : {"down", "alter", "ready"}, seen : SUBSET AllColumns,
                                   next : 1..(Len(Columns) + 1)]]
      BY <1>1, <1>3 DEF Types, Goto
    <3>2. rows' \in [Runs -> Row]
      BY <1>3, <2>1
    <3> QED BY <1>1, <3>1, <3>2 DEF Types
  <2>3. schema = AllColumns
    <3>1. \A i \in 1..5 : Columns[i] \in schema
      BY <1>1, ColumnsAreFive DEF AddedSoFar, Types
    <3> QED BY <3>1, <1>1, ColumnsAreFive DEF Types, AllColumns
  <2>4. AddedSoFar'
    BY <1>1, <1>3 DEF AddedSoFar, Goto, At, Types
  <2> QED BY <1>1, <2>1, <2>2, <2>3, <2>4 DEF MigrationInv, ReadyMeansMigrated
<1> QED BY <1>2, <1>3 DEF Backfill

LEMMA ServeKeepsInv ==
  ASSUME MigrationInv, NEW s \in Servers, NEW r \in Runs, Serve(s, r) PROVE MigrationInv'
<1>1. /\ Types /\ AddedSoFar /\ ReadyMeansMigrated
      /\ At(s, "ready") /\ UNCHANGED <<schema, server, crashes>>
  BY DEF MigrationInv, Serve
<1>2. rows[r] \in Row
  BY <1>1 DEF Types
<1>3. PICK new \in Row :
        /\ rows' = [rows EXCEPT ![r] = new]
        /\ (rows[r].draft => rows[r].facts) => (new.draft => new.facts)
        /\ (rows[r].composition => rows[r].count = 1) => (new.composition => new.count = 1)
  <2>1. CASE rows' = [rows EXCEPT ![r].lock = TRUE]
    <3> DEFINE new == [rows[r] EXCEPT !.lock = TRUE]
    <3>1. rows' = [rows EXCEPT ![r] = new] /\ new \in Row
      BY <1>2, <2>1 DEF Row
    <3> QED BY <1>2, <3>1 DEF Row
  <2>2. CASE rows' = [rows EXCEPT ![r].draft = TRUE, ![r].facts = TRUE]
    <3> DEFINE new == [[rows[r] EXCEPT !.draft = TRUE] EXCEPT !.facts = TRUE]
    <3>1. rows' = [rows EXCEPT ![r] = new] /\ new \in Row
      BY <1>1, <1>2, <2>2 DEF Row, Types
    <3> QED BY <1>2, <3>1 DEF Row
  <2>3. CASE rows' = [rows EXCEPT ![r].composition = TRUE, ![r].count = 1]
    <3> DEFINE new == [[rows[r] EXCEPT !.composition = TRUE] EXCEPT !.count = 1]
    <3>1. rows' = [rows EXCEPT ![r] = new] /\ new \in Row
      BY <1>1, <1>2, <2>3 DEF Row, Types
    <3> QED BY <1>2, <3>1 DEF Row
  <2> QED BY <2>1, <2>2, <2>3 DEF Serve
<1>4. Types'
  BY <1>1, <1>3 DEF Types
<1>5. ReadyMeansMigrated'
  BY <1>1, <1>3 DEF ReadyMeansMigrated, At, Types
<1> QED BY <1>1, <1>4, <1>5 DEF MigrationInv, AddedSoFar, At

\* A server that answers requests has the whole schema under it, and every row
\* of an earlier version is filled in (initialize).
THEOREM ReadyServersAreMigrated == Spec => []ReadyMeansMigrated
<1>1. MigrationInv /\ [Next]_vars => MigrationInv'
  <2> SUFFICES ASSUME MigrationInv, [Next]_vars PROVE MigrationInv'
    OBVIOUS
  <2>1. ASSUME NEW s \in Servers, Starts(s) PROVE MigrationInv'
    BY <2>1, ReadColumnsKeepsInv, AddColumnKeepsInv, BackfillKeepsInv DEF Starts
  <2>2. ASSUME NEW s \in Servers, CrashStarting(s) PROVE MigrationInv'
    <3>1. Types'
      BY <2>2, ColumnsAreFive, MaxCrashesAssumption DEF CrashStarting, MigrationInv, Types, Down
    <3> QED BY <2>2, <3>1 DEF CrashStarting, MigrationInv, Types, AddedSoFar,
            ReadyMeansMigrated, At, Down
  <2>3. ASSUME NEW s \in Servers, NEW r \in Runs, Serve(s, r) PROVE MigrationInv'
    BY <2>3, ServeKeepsInv
  <2>4. CASE UNCHANGED vars
    BY <2>4 DEF vars, MigrationInv, Types, AddedSoFar, ReadyMeansMigrated, At
  <2> QED BY <2>1, <2>2, <2>3, <2>4 DEF Next
<1>2. MigrationInv => ReadyMeansMigrated
  BY DEF MigrationInv
<1> QED BY <1>1, <1>2, InitMigration, PTL DEF Spec
=============================================================================
