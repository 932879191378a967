------------------------------ MODULE Reversal ------------------------------
(***************************************************************************)
(* The reverse SQL of the row changes of a binlog (internal/reverse) and   *)
(* what MySQL makes of it.                                                 *)
(*                                                                         *)
(* A table is a bag of rows, that is a function from rows to how often     *)
(* they occur; a row gives each column a value, or Null.  A row change     *)
(* carries full images, which the preflight of the connector insists on    *)
(* (binlog_row_image = FULL).  A statement is a record: what it does, to   *)
(* which table, the conditions of its WHERE clause and the row it writes.  *)
(***************************************************************************)
EXTENDS Integers, Sequences, FiniteSets

CONSTANTS
  Null,     \* the SQL value NULL
  Never,    \* a literal that no column value equals
  Tables,   \* the tables of the database
  Columns,  \* the columns of every table
  Keys,     \* Keys[t]: the primary key columns of t, {} if it has none
  Rows      \* Rows[t]: the rows that t may hold

ASSUME ReversalAssumption ==
  /\ Keys \in [Tables -> SUBSET Columns]
  /\ DOMAIN Rows = Tables
  /\ \A t \in Tables : IsFiniteSet(Rows[t])
  /\ \A t \in Tables : \A r \in Rows[t] : r = [c \in Columns |-> r[c]]
  /\ \A t \in Tables : \A r \in Rows[t], c \in Columns : r[c] # Never
  /\ \A t \in Tables : \A r \in Rows[t], c \in Columns : c \in Keys[t] => r[c] # Null

NoRow == <<>>

Insert(t, r) == [action |-> "insert", table |-> t, before |-> NoRow, after |-> r]
Delete(t, r) == [action |-> "delete", table |-> t, before |-> r, after |-> NoRow]
Update(t, r, s) == [action |-> "update", table |-> t, before |-> r, after |-> s]

\* Every change of one row.
RowChange ==
  UNION {{Insert(t, r) : r \in Rows[t]} \union {Delete(t, r) : r \in Rows[t]}
         \union {Update(t, p[1], p[2]) : p \in {p \in Rows[t] \X Rows[t] : p[1] # p[2]}}
         : t \in Tables}

-----------------------------------------------------------------------------
(***************************************************************************)
(* MySQL.                                                                  *)
(***************************************************************************)
\* The rows of table t (with the contents bag) that satisfy a WHERE clause.
Hits(t, bag, where) ==
  {r \in Rows[t] : bag[r] > 0 /\ \A c \in DOMAIN where : r[c] = where[c]}

HowMany(bag, S) == Cardinality(UNION {{r} \X (1 .. bag[r]) : r \in S})

SameKey(t, r, s) == Keys[t] # {} /\ \A c \in Keys[t] : r[c] = s[c]

\* No primary key value occurs twice.
KeysHold(t, bag) ==
  \A r, s \in Rows[t] :
    bag[r] > 0 /\ bag[s] > 0 /\ SameKey(t, r, s) => r = s /\ bag[r] = 1

Inserted(bag, r) == [bag EXCEPT ![r] = @ + 1]

Removed(t, bag, where) ==
  [r \in Rows[t] |-> IF r \in Hits(t, bag, where) THEN 0 ELSE bag[r]]

Rewritten(t, bag, where, row) ==
  LET kept == Removed(t, bag, where)
  IN [kept EXCEPT ![row] = @ + HowMany(bag, Hits(t, bag, where))]

\* What a statement leaves of its table; one that breaks the primary key fails
\* and leaves it alone.
Outcome(t, bag, s) ==
  LET new == CASE s.sql = "INSERT" -> Inserted(bag, s.row)
               [] s.sql = "DELETE" -> Removed(t, bag, s.where)
               [] s.sql = "UPDATE" -> Rewritten(t, bag, s.where, s.row)
               [] OTHER -> bag
  IN IF KeysHold(t, new) THEN new ELSE bag

Executed(db, s) == [db EXCEPT ![s.table] = Outcome(s.table, @, s)]

\* MySQL changes one row of a table and writes the change to its binlog.
Moved(bag, c) ==
  CASE c.action = "insert" -> [bag EXCEPT ![c.after] = @ + 1]
    [] c.action = "delete" -> [bag EXCEPT ![c.before] = @ - 1]
    [] c.action = "update" -> [[bag EXCEPT ![c.before] = @ - 1] EXCEPT ![c.after] = @ + 1]

Changed(db, c) == [db EXCEPT ![c.table] = Moved(@, c)]

\* The row changes MySQL can make in a table, and in a database.
ChangesOf(t, bag) ==
  LET held == {r \in Rows[t] : bag[r] > 0}
  IN  {Insert(t, r) : r \in Rows[t]}
      \union {Delete(t, r) : r \in held}
      \union {Update(t, h[1], h[2]) : h \in {p \in held \X Rows[t] : p[1] # p[2]}}

Changes(db) == UNION {ChangesOf(t, db[t]) : t \in Tables}

Possible(db, c) ==
  c \in Changes(db) /\ KeysHold(c.table, Changed(db, c)[c.table])

-----------------------------------------------------------------------------
(***************************************************************************)
(* The generator.                                                          *)
(***************************************************************************)
\* Mutant: a NULL is compared with =, which is never true.
WhereColsEqualsNull(cols, image) ==
  [c \in cols |-> IF image[c] = Null THEN Never ELSE image[c]]

\* col = value, or col IS NULL.
BuildWhereCols(cols, image) == [c \in cols |-> image[c]]

\* Primary key columns without a value in the image are left out; without any
\* that is usable all columns are compared.
BuildWhere(t, image) ==
  LET usable == {c \in Keys[t] : image[c] # Null}
  IN BuildWhereCols(IF usable # {} THEN usable ELSE Columns, image)

BuildReverseSQL(c) ==
  CASE c.action = "delete" ->
         [sql |-> "INSERT", table |-> c.table, where |-> <<>>, row |-> c.before]
    [] c.action = "insert" ->
         [sql |-> "DELETE", table |-> c.table,
          where |-> BuildWhere(c.table, c.after), row |-> NoRow]
    [] c.action = "update" ->
         [sql |-> "UPDATE", table |-> c.table,
          where |-> BuildWhere(c.table, c.after), row |-> c.before]

\* A statement that could not be generated carries a warning and no SQL.
Warning(t) == [sql |-> "", table |-> t, where |-> <<>>, row |-> NoRow]

\* The last change is undone first; schema holds the tables whose columns are
\* known.
Generate(rows, schema) ==
  [i \in 1 .. Len(rows) |->
     LET c == rows[Len(rows) + 1 - i]
     IN IF c.table \in schema THEN BuildReverseSQL(c) ELSE Warning(c.table)]

\* The database after a list of statements.
ExecuteAll(db, stmts) ==
  LET after[i \in 0 .. Len(stmts)] ==
        IF i = 0 THEN db ELSE Executed(after[i - 1], stmts[i])
  IN after[Len(stmts)]

\* A row that occurs twice in a table without a primary key cannot be told from
\* its double by any WHERE clause.
Distinct(db) == \A t \in Tables : \A r \in Rows[t] : db[t][r] <= 1
=============================================================================
