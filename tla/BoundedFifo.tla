----------------------------- MODULE BoundedFifo -----------------------------
(***************************************************************************)
(* What the result cache promises: a queue of entries, oldest first.  A    *)
(* new entry replaces the one with its key and pushes out the oldest ones, *)
(* no more of them than its limits demand, all in one step; the entries    *)
(* left over keep their order.  An entry otherwise leaves only when it is  *)
(* damaged, larger than a limit in use, or when everything is cleared.     *)
(* Transactions, their lock and the sequence numbers of rows are the       *)
(* business of ResultCache.                                                *)
(***************************************************************************)
EXTENDS Naturals, Sequences, Functions, SequencesExt

CONSTANTS
  Keys,    \* keys of requests
  Sizes,   \* sizes of results; a result is known by its key and size
  Limits   \* limits in use: [entries, bytes]

VARIABLE queue  \* sequence of [key, size, good], oldest first

Weight(q) == SumFunction([i \in DOMAIN q |-> q[i].size])

Holds(lim, q, entries, bytes) ==
  /\ Len(q) + entries <= lim.entries
  /\ Weight(q) + bytes <= lim.bytes

\* q without its n oldest entries.
Younger(q, n) == SubSeq(q, n + 1, Len(q))

\* q after the least trimming that leaves room for the given entries and bytes.
IsTrimmed(q, t, lim, entries, bytes) ==
  \E n \in 0..Len(q) :
    /\ t = Younger(q, n)
    /\ Holds(lim, t, entries, bytes)
    /\ \A m \in 0..(n - 1) : ~Holds(lim, Younger(q, m), entries, bytes)

\* q without its entry with a key; no key is there twice.
Without(q, k) ==
  LET found == {i \in DOMAIN q : q[i].key = k} IN
  IF found = {} THEN q ELSE RemoveAt(q, CHOOSE i \in found : TRUE)

Init == queue = <<>>

Open == \E lim \in Limits : IsTrimmed(queue, queue', lim, 0, 0)

Put(k, s) ==
  LET e == [key |-> k, size |-> s, good |-> TRUE] IN
  \E lim \in Limits, n \in 0..Len(queue) :
    LET t == Younger(Without(queue, k), n) IN
    /\ IsTrimmed(Without(queue, k), t, lim, 1, s)
    /\ queue' = Append(t, e)

Discard(k) ==
  /\ \E i \in DOMAIN queue :
       /\ queue[i].key = k
       /\ ~queue[i].good \/ \E lim \in Limits : queue[i].size > lim.bytes
  /\ queue' = Without(queue, k)

Damage(i) == queue' = [queue EXCEPT ![i].good = FALSE]

Clear == queue' = <<>>

Next ==
  \/ Open \/ Clear
  \/ \E k \in Keys, s \in Sizes : Put(k, s)
  \/ \E k \in Keys : Discard(k)
  \/ \E i \in DOMAIN queue : Damage(i)

Spec == Init /\ [][Next]_queue
=============================================================================
