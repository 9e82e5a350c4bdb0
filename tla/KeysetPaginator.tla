--------------------------- MODULE KeysetPaginator ---------------------------
(***************************************************************************)
(* KeysetPaginator of kit-data (kit_data/pagination.py) over a table that  *)
(* changes between the pages.  A page is a set of rows: the database puts  *)
(* rows of one key in any order, and not always in the same.               *)
(***************************************************************************)
EXTENDS Integers, FiniteSets

CONSTANTS
  Rows,         (* every row the table may ever hold                       *)
  Keys,         (* positive numbers; rows may share one                    *)
  PageSize

VARIABLES
  keyOf, table,
  cursor,       (* 0 for the first page                                    *)
  seen,         (* how often iter_items() has yielded each row             *)
  over,         (* it has returned                                         *)
  stayed,       (* history: rows in the table from the first page on       *)
  ends          (* history: the cursors so far                             *)

vars == <<keyOf, table, cursor, seen, over, stayed, ends>>

Init ==
  /\ keyOf \in [Rows -> Keys] /\ table \in SUBSET Rows
  /\ cursor = 0 /\ over = FALSE
  /\ stayed = table /\ ends = {}
  /\ seen = [r \in Rows |-> 0]

Insert(r) ==
  /\ r \notin table /\ table' = table \cup {r}
  /\ UNCHANGED <<keyOf, cursor, seen, over, stayed, ends>>

Delete(r) ==
  /\ r \in table /\ table' = table \ {r} /\ stayed' = stayed \ {r}
  /\ UNCHANGED <<keyOf, cursor, seen, over, ends>>

(* The first n rows by key, or all if they are fewer.                      *)
First(n, rows) ==
  {s \in SUBSET rows :
     /\ s = rows \/ Cardinality(s) = n
     /\ Cardinality(s) <= n
     /\ \A r \in s, q \in rows \ s : keyOf[r] <= keyOf[q]}

(* fetch(after, limit): WHERE key > after ORDER BY key LIMIT limit.        *)
Fetch(limit) == First(limit, {r \in table : keyOf[r] > cursor})

LastKey(rows) ==
  CHOOSE k \in {keyOf[r] : r \in rows} : \A r \in rows : keyOf[r] <= k

(* Mutant: the next page begins after the row fetched to see if there are  *)
(* more.                                                                   *)
CursorPastExtra(rows, items) == LastKey(rows)

NextCursor(rows, items) == LastKey(items)

(* One page: PageSize rows and one more, which is not part of it.          *)
Page ==
  /\ ~over
  /\ \E rows \in Fetch(PageSize + 1) : \E items \in First(PageSize, rows) :
       /\ seen' = [r \in Rows |-> IF r \in items THEN seen[r] + 1 ELSE seen[r]]
       /\ over' = (items = rows)
       /\ cursor' = IF items = rows THEN cursor ELSE NextCursor(rows, items)
       /\ ends' = ends \cup {cursor'}
  /\ UNCHANGED <<keyOf, table, stayed>>

Next == Page \/ \E r \in Rows : Insert(r) \/ Delete(r)

Spec == Init /\ [][Next]_vars

(* "Yield every row across all pages, in keyset order": whatever is put in *)
(* or taken out between the pages, no row comes twice, and one that stayed *)
(* in the table has come once the cursor is past it or the pages are over, *)
(* unless a page ended between it and another row of the same key.         *)
EachRowOnce ==
  /\ \A r \in Rows : seen[r] <= 1
  /\ \A r \in stayed :
       over \/ keyOf[r] <= cursor =>
         \/ seen[r] = 1
         \/ keyOf[r] \in ends /\ \E s \in Rows : seen[s] = 1 /\ keyOf[s] = keyOf[r]
=============================================================================
