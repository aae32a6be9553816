------------------------------- MODULE KvTable -------------------------------
(***************************************************************************)
(* The key-value backend (cookbook_db_kv.c), which runs the SQL statements *)
(* of the handlers by looking for patterns in their text, beside a table   *)
(* that runs them as SQL.  A stored row is a sequence of <<column, value>>;*)
(* no value contains the tab that separates them.                          *)
(***************************************************************************)
EXTENDS Naturals, Sequences, SequencesExt

CONSTANTS Pk,        \* primary keys
          Cols,      \* the columns of the table, the primary key first
          EndsWith,  \* <<c, d>>: the name of column d ends with that of c
          Val,       \* texts of the other columns
          Inside,    \* <<v, c>>: the text v contains "c="
          Blank,     \* the empty text
          Spliced,   \* what is left of a text overwritten from its "c=" on
          Null,      \* no row; the value of a column that has none
          MaxStmts   \* bound: statements

ASSUME KvAssumption ==
  /\ Cols \in Seq(Range(Cols)) /\ Len(Cols) > 1
  /\ Blank \in Val /\ Spliced \in Val /\ Null \notin Val
  /\ \A i, j \in 1 .. Len(Cols) : i < j => Cols[i] # Cols[j] /\ <<Cols[j], Cols[i]>> \notin EndsWith

VARIABLES store,   \* [Pk -> stored row or Null]
          table,   \* [Pk -> [column -> value] or Null]: the same, by SQL
          lost,    \* SUBSET (Pk \X columns): where the backend went another way
          strayed, \* SUBSET Pk: rows deleted although a condition kept them
          status,  \* [key, kv, sql]: the status of the last statement in both
          stmts

kvVars == <<store, table, lost, strayed, status, stmts>>

Field == Range(Tail(Cols))   \* the columns that can be assigned

SqlVal == Val \cup {Null}

(* Rows as the backend stores them and as SQL has them. *)
StoredRow == UNION {[1 .. n -> Range(Cols) \X (Pk \cup Val)] : n \in 1 .. Len(Cols)}

SqlRow == [Field -> SqlVal]

ASSUME NullAssumption == Null \notin StoredRow \cup SqlRow

KvInit ==
  /\ store = [k \in Pk |-> Null]
  /\ table = [k \in Pk |-> Null]
  /\ lost = {}
  /\ strayed = {}
  /\ status = [key |-> Null, kv |-> "ok", sql |-> "ok"]
  /\ stmts = 0

(* A parameter as text: NULL becomes the empty one. *)
AsText(v) == IF v = Null THEN Blank ELSE v

(* The parameters of VALUES(...), whose lit-th value after the key is a     *)
(* literal (lit = 0: none is).                                              *)
Params(vals, lit) ==
  IF lit = 0 THEN vals
  ELSE [i \in 1 .. Len(vals) - 1 |-> vals[IF i < lit THEN i ELSE i + 1]]

(* encode_row: the i-th column with the i-th parameter, literals or not, as *)
(* many columns as there are parameters.                                    *)
Encode(k, params) ==
  <<<<Cols[1], k>>>> \o [i \in 1 .. Len(params) |-> <<Cols[i + 1], AsText(params[i])>>]

(* decode_row, for one column. *)
Decode(row, col) ==
  IF \E i \in DOMAIN row : row[i][1] = col
  THEN row[CHOOSE i \in DOMAIN row : row[i][1] = col][2]
  ELSE Null

(* The fields strstr finds when it looks for "col=": in a name or a value. *)
InName(row, i, col) == row[i][1] = col \/ <<col, row[i][1]>> \in EndsWith

Found(row, col) == {i \in DOMAIN row : InName(row, i, col) \/ <<row[i][2], col>> \in Inside}

(* What follows "col=", up to the tab, is replaced. *)
Replace(row, i, col, v) == [row EXCEPT ![i][2] = IF InName(row, i, col) THEN v ELSE Spliced]

(* Mutant: the last match instead of the first. *)
AssignLast(row, col, v) ==
  IF Found(row, col) = {} THEN row
  ELSE Replace(row, CHOOSE i \in Found(row, col) : \A j \in Found(row, col) : i >= j, col, v)

Assign(row, col, v) ==
  IF Found(row, col) = {} THEN row
  ELSE Replace(row, CHOOSE i \in Found(row, col) : \A j \in Found(row, col) : i <= j, col, v)

(* The rows a SELECT hands to its callback, whatever columns it names and   *)
(* whatever else its WHERE asks for: the row under the first parameter if   *)
(* the text has "= ?1", else every row.                                     *)
QueryRows(byKey, k) == {store[x] : x \in {y \in Pk : store[y] # Null /\ (byKey => y = k)}}

Statement(k, kv, sql) ==
  /\ stmts < MaxStmts
  /\ stmts' = stmts + 1
  /\ status' = [key |-> k, kv |-> kv, sql |-> sql]

(* What SQL does with VALUES: each value in its own column. *)
Column(vals, col) ==
  IF \E i \in DOMAIN vals : Cols[i + 1] = col
  THEN vals[CHOOSE i \in DOMAIN vals : Cols[i + 1] = col] ELSE Null

(* The columns a literal moves: its own and the ones after it. *)
Moved(lit) == IF lit = 0 THEN {} ELSE {Cols[i] : i \in lit + 1 .. Len(Cols)}

Others(k) == {p \in lost : p[1] # k}

(* INSERT, INSERT OR IGNORE, INSERT OR REPLACE. *)
Insert(mode, k, vals, lit) ==
  LET Writes(rows) == rows[k] = Null \/ mode = "replace"
      Result(rows) == IF Writes(rows) \/ mode = "ignore" THEN "ok" ELSE "constraint"
  IN
  /\ Statement(k, Result(store), Result(table))
  /\ store' = IF Writes(store) THEN [store EXCEPT ![k] = Encode(k, Params(vals, lit))] ELSE store
  /\ \/ /\ Writes(table)
        /\ table' = [table EXCEPT ![k] = [c \in Field |-> Column(vals, c)]]
        /\ lost' = Others(k) \cup {<<k, c>> : c \in Moved(lit)}
        /\ strayed' = strayed \ {k}
     \/ /\ ~Writes(table)
        /\ UNCHANGED <<table, lost, strayed>>

(* A condition beside the key, <<c, v>>: c = v (c IS NULL); <<>> is none.   *)
(* The backend looks at none.                                               *)
Holds(k, cond) == table[k] # Null /\ (cond # <<>> => table[k][cond[1]] = cond[2])

(* DELETE ... WHERE key = ?1 [AND condition] *)
Delete(k, cond) ==
  /\ Statement(k, "ok", "ok")
  /\ store' = [store EXCEPT ![k] = Null]
  /\ \/ /\ table[k] = Null \/ Holds(k, cond)
        /\ table' = [table EXCEPT ![k] = Null]
        /\ lost' = Others(k)
        /\ strayed' = strayed \ {k}
     \/ /\ table[k] # Null /\ ~Holds(k, cond)
        /\ strayed' = strayed \cup {k}
        /\ UNCHANGED <<table, lost>>

Clear == \* DELETE without WHERE
  /\ Statement(Null, "ok", "ok")
  /\ store' = [k \in Pk |-> Null]
  /\ table' = [k \in Pk |-> Null]
  /\ lost' = {}
  /\ strayed' = {}

(* An assignment of a SET clause: [col, val, lit], lit if val is a literal. *)
Assignment == [col : Field, val : SqlVal, lit : BOOLEAN]

(* The column named first in SET gets the first parameter, the key is the   *)
(* last; the loop over the assignments ends there, because the rest of the  *)
(* text contains the word WHERE.                                            *)
KvUpdate(row, a, b) == Assign(row, a.col, AsText(IF a.lit THEN b.val ELSE a.val))

(* Columns whose value contains "col=" and that come before column col. *)
Earlier(row, col) ==
  {row[i][1] : i \in {n \in DOMAIN row : /\ <<row[n][2], col>> \in Inside
                                         /\ \A j \in 1 .. n : row[j][1] # col}}

(* UPDATE ... SET a, b WHERE key = ?n [AND condition]; with b = a it is one *)
(* assignment only.  An UPDATE needs two parameters; a column the row does  *)
(* not have stays absent.                                                   *)
Update(k, a, b, cond) ==
  LET sqlDoes == Holds(k, cond)
      kvDoes == store[k] # Null /\ ~(a.lit /\ b.lit)
      hits == IF kvDoes THEN Earlier(store[k], a.col) ELSE {}
      right == /\ sqlDoes /\ kvDoes /\ ~a.lit /\ hits = {}
               /\ \E i \in DOMAIN store[k] : store[k][i][1] = a.col
      touched == (IF sqlDoes THEN {a.col, b.col} ELSE {}) \cup (IF kvDoes THEN {a.col} ELSE {})
  IN
  /\ Statement(k, IF a.lit /\ b.lit THEN "error" ELSE IF kvDoes THEN "ok" ELSE "notfound", "ok")
  /\ store' = IF kvDoes THEN [store EXCEPT ![k] = KvUpdate(@, a, b)] ELSE store
  /\ table' = IF sqlDoes THEN [table EXCEPT ![k] = [@ EXCEPT ![a.col] = a.val, ![b.col] = b.val]]
               ELSE table
  /\ lost' = (lost \cup {<<k, c>> : c \in touched \cup hits})
             \ (IF right THEN {<<k, a.col>>} ELSE {})
  /\ UNCHANGED strayed

Conditions == {<<>>} \cup Field \X SqlVal

KvNext ==
  \/ \E mode \in {"plain", "ignore", "replace"}, k \in Pk, n \in 0 .. Len(Cols) - 1 :
       \E vals \in [1 .. n -> SqlVal], lit \in 0 .. n : Insert(mode, k, vals, lit)
  \/ \E k \in Pk, cond \in Conditions : Delete(k, cond)
  \/ Clear
  \/ \E k \in Pk, a, b \in Assignment, cond \in Conditions :
       (a.col = b.col => a = b) /\ Update(k, a, b, cond)

-----------------------------------------------------------------------------
Same(kv, sql) == kv = sql \/ (kv = Blank /\ sql = Null)

(* "Only supports the specific SQL patterns used by cookbook"               *)
(* (cookbook_db_kv.c:15): for statements that address a row by its key the  *)
(* store never has a row the table has not, and has every row of the table  *)
(* but the ones a DELETE removed without looking at its condition.  Their   *)
(* values are the table's, NULL parameters as empty texts, but for the      *)
(* columns from a literal of the INSERT on, and those an UPDATE assigned    *)
(* after its first, from a literal, against its condition, or beside a      *)
(* value that contains a column's name; statuses differ for rows that are   *)
(* not there and for an UPDATE without parameters.                          *)
KvAgrees ==
  /\ \A k \in Pk :
       /\ QueryRows(TRUE, k) # {} => table[k] # Null
       /\ k \notin strayed =>
            /\ table[k] # Null => QueryRows(TRUE, k) # {}
            /\ \A row \in QueryRows(TRUE, k) :
                 /\ <<k, Cols[1]>> \in lost \/ Decode(row, Cols[1]) = k
                 /\ \A c \in Field : <<k, c>> \in lost \/ Same(Decode(row, c), table[k][c])
  /\ \/ status.kv = status.sql
     \/ status.kv \in {"notfound", "error"}
     \/ status.key \in strayed
==============================================================================
