------------------------------ MODULE MCRows ------------------------------
(* All the rows, each called twice with a small and a larger b->n. *)
EXTENDS RowWords, RowsConcurrent, RowsMemory, RowsText, RowsNumbers

AllRows == ConcurrentRows \o MemoryRows \o TextRows \o NumberRows

Except(rows, Fine(_)) == \A k \in DOMAIN AllRows : Fine(AllRows[k]) \/ AllRows[k] \in rows

(* The rows that the theorems of RowProofs leave out: those that close a      *)
(* channel others work on, for NoStaleUse; mcontext_switch, whose coroutine  *)
(* ends by a last switch, for CleanReturn; and the row that has to find      *)
(* somebody waiting.                                                         *)
ASSUME Closings   == Except({chan_prodcons, synctest_wait_parked}, SharesSafely)
ASSUME Coroutines == Except({mcontext_switch}, EndsAlone)
ASSUME Waiting    == Except({synctest_wait_parked}, FindsItsState)
=============================================================================
