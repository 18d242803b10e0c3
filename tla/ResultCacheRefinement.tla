------------------------ MODULE ResultCacheRefinement ------------------------
(***************************************************************************)
(* ResultCache implements BoundedFifo: the committed rows in the order of  *)
(* their sequence numbers are the queue.  A put takes effect when it       *)
(* commits.                                                                *)
(***************************************************************************)
EXTENDS ResultCache

\* The row with i - 1 older ones.
RowAt(rows, i) == CHOOSE r \in rows : Cardinality({s \in rows : Before(s, r)}) = i - 1

Entry(r) == [key |-> r.key, size |-> r.size, good |-> r.good]

QueueOf(rows) == [i \in 1..Cardinality(rows) |-> Entry(RowAt(rows, i))]

Fifo == INSTANCE BoundedFifo WITH queue <- QueueOf(table)

\* To its readers the cache is a bounded queue with one atomic step for each
\* put, whatever processes do in their transactions and wherever they stop.
ImplementsFifo == Fifo!Spec

\* Several processes with limits of their own share one store: it is a FIFO that
\* fits the limits of the last of them, whatever is interrupted or dies, and it
\* is never held for ever (cache.rs:150-190).
StoreServesFifo == ImplementsFifo /\ TransactionsEnd
=============================================================================
