------------------------- MODULE ResultCacheProofs -------------------------
(***************************************************************************)
(* The store implements BoundedFifo, for any number of processes, any keys *)
(* and sizes and any limits: what a transaction does row by row is, to its *)
(* readers, one step of a bounded queue.                                   *)
(*                                                                         *)
(* The proof writes a table as the list of its rows in the order of their  *)
(* sequence numbers.  The committed table has such a list, and the draft   *)
(* of an open transaction is the end of the list it began with, as long as *)
(* everything longer had no room; so the commit is one step of the queue.  *)
(***************************************************************************)
EXTENDS ResultCacheRefinement, Sequences, SequencesExt, SequenceTheorems, FunctionSums

-----------------------------------------------------------------------------
(* Tables as lists *)

Rows == [key : Keys, size : Sizes, good : BOOLEAN, sequence : Nat]

Grows(g) ==
  \A i, j \in DOMAIN g : i < j => g[i].sequence < g[j].sequence /\ g[i].key # g[j].key

\* The rows of a table, oldest first.
Lists(g, rows) ==
  /\ g \in Seq(Rows)
  /\ Grows(g)
  /\ rows = {g[i] : i \in DOMAIN g}

Entries(g) == [i \in DOMAIN g |-> Entry(g[i])]

\* A list without its first n rows.
Later(g, n) == SubSeq(g, n + 1, Len(g))
RowsOf(g) == {g[i] : i \in DOMAIN g}

-----------------------------------------------------------------------------
(* The invariant *)

\* What the transaction of a process began with.
Base(p) ==
  IF pc[p] = "replacing" THEN table \ WithKey(table, request[p].key) ELSE table

\* A draft has the youngest rows of that, and none that leaves room for more.
Pruned(rows, whole, lim, entries, bytes) ==
  \E g : \E n \in 0 .. Len(g) :
    /\ Lists(g, whole)
    /\ rows = RowsOf(Later(g, n))
    /\ \A m \in 0 .. n - 1 : ~Fits(RowsOf(Later(g, m)), lim, entries, bytes)

CacheTypeOK ==
  /\ writer \in Processes \cup {Free}
  /\ pc \in [Processes -> {"idle", "opening", "ready", "computing", "replacing"}]
  /\ limits \in [Processes -> Limits \cup {NoStore}]
  /\ request \in [Processes -> [key : Nat, size : Nat]]
  /\ \A p \in Processes :
       /\ pc[p] # "idle" => limits[p] \in Limits /\ request[p].key \in Keys
       /\ pc[p] = "replacing" => request[p].size \in Sizes

\* A process in a transaction is the one that holds the database.
Locked == \A p \in Processes : pc[p] \in {"opening", "replacing"} <=> writer = p

Listed == \E g : Lists(g, table)

DraftPruned ==
  writer # Free =>
    Pruned(draft, Base(writer), limits[writer],
           Reserved(writer).entries, Reserved(writer).bytes)

CacheInv == CacheTypeOK /\ Locked /\ Listed /\ DraftPruned

-----------------------------------------------------------------------------
(* Lists and the tables they are of *)

\* What is known of a list.
LEMMA ListFacts ==
  ASSUME NEW g, NEW rows, Lists(g, rows)
  PROVE  /\ g \in Seq(Rows) /\ Len(g) \in Nat /\ DOMAIN g = 1 .. Len(g)
         /\ rows = RowsOf(g) /\ Lists(g, RowsOf(g))
         /\ \A i \in 1 .. Len(g) :
              /\ g[i] \in Rows /\ g[i] \in rows
              /\ g[i].sequence \in Nat /\ g[i].key \in Keys /\ g[i].size \in Nat
         /\ \A i, j \in 1 .. Len(g) :
              (i < j => g[i].sequence < g[j].sequence) /\ (i # j => g[i].key # g[j].key)
         /\ \A i, j \in 1 .. Len(g) : g[i] = g[j] => i = j
  <1>1. g \in Seq(Rows) /\ rows = RowsOf(g) /\ Grows(g)
    BY DEF Lists, RowsOf
  <1>2. Len(g) \in Nat /\ DOMAIN g = 1 .. Len(g)
    BY <1>1
  <1>3. \A i \in 1 .. Len(g) : g[i] \in Rows /\ g[i] \in rows
    BY <1>1, <1>2 DEF RowsOf
  <1>4. \A i \in 1 .. Len(g) : g[i].sequence \in Nat /\ g[i].key \in Keys /\ g[i].size \in Nat
    BY <1>3, CacheAssumption DEF Rows
  <1>5. \A i, j \in 1 .. Len(g) : i < j => g[i].sequence < g[j].sequence /\ g[i].key # g[j].key
    BY <1>1, <1>2 DEF Grows
  <1>6. \A i, j \in 1 .. Len(g) : i # j => i < j \/ j < i
    BY <1>2
  <1>7. \A i, j \in 1 .. Len(g) : i # j => g[i].key # g[j].key
    BY <1>5, <1>6
  <1>8. Lists(g, RowsOf(g))
    BY <1>1 DEF Lists, RowsOf
  <1>9. QED
    BY <1>1, <1>2, <1>3, <1>4, <1>5, <1>7, <1>8

\* A table has as many rows as its list.
LEMMA ListCounts ==
  ASSUME NEW g, NEW rows, Lists(g, rows)
  PROVE  IsFiniteSet(rows) /\ Cardinality(rows) = Len(g)
  <1>1. PICK n : n = Len(g)
    OBVIOUS
  <1>2. /\ g \in Seq(Rows) /\ n \in Nat /\ DOMAIN g = 1 .. n
        /\ \A i, j \in 1 .. n : g[i] = g[j] => i = j
        /\ rows = RowsOf(g)
    BY <1>1, ListFacts
  <1>3. g \in [1 .. n -> rows]
    BY <1>1, <1>2, ListFacts
  <1>4. \A x \in rows : \E i \in 1 .. n : g[i] = x
    BY <1>2 DEF RowsOf
  <1>5. IsListed(n, g, rows)
    BY <1>2, <1>3, <1>4 DEF IsListed
  <1>6. QED
    BY <1>1, <1>5, ListedSet

\* In a list of a table the rows before one are the older ones.
LEMMA OlderRows ==
  ASSUME NEW g, NEW rows, Lists(g, rows), NEW k \in 1 .. Len(g)
  PROVE  Cardinality({s \in rows : Before(s, g[k])}) = k - 1
  <1>1. PICK n : n = Len(g)
    OBVIOUS
  <1>2. PICK S : S = {s \in rows : Before(s, g[k])}
    OBVIOUS
  <1>3. PICK f : f = [i \in 1 .. k - 1 |-> g[i]]
    OBVIOUS
  <1>4. /\ n \in Nat /\ k \in 1 .. n /\ DOMAIN g = 1 .. n /\ rows = RowsOf(g)
        /\ \A i \in 1 .. n : g[i] \in rows /\ g[i].sequence \in Nat
        /\ \A i, j \in 1 .. n : i < j => g[i].sequence < g[j].sequence
        /\ \A i, j \in 1 .. n : g[i] = g[j] => i = j
    BY <1>1, ListFacts
  <1>5. \A i \in 1 .. n : Before(g[i], g[k]) <=> i < k
    <2>1. ASSUME NEW i \in 1 .. n, i < k PROVE Before(g[i], g[k])
      BY <1>4, <2>1 DEF Before
    <2>2. ASSUME NEW i \in 1 .. n, ~(i < k) PROVE ~Before(g[i], g[k])
      <3>1. i = k \/ k < i
        BY <1>4, <2>2
      <3>2. g[i].sequence \in Nat /\ g[k].sequence \in Nat
        BY <1>4
      <3>3. CASE i = k
        <4>1. g[i] = g[k]
          BY <3>3
        <4>2. ~(g[k].key < g[k].key)
          <5>1. g[k].key \in Keys
            BY ListFacts
          <5>2. g[k].key \in Nat
            BY <5>1, CacheAssumption
          <5>3. QED
            BY <5>2
        <4>3. QED
          BY <3>2, <3>3, <4>2 DEF Before
      <3>4. CASE k < i
        <4>1. g[k].sequence < g[i].sequence
          BY <1>4, <3>4
        <4>2. QED
          BY <3>2, <4>1 DEF Before
      <3>5. QED
        BY <3>1, <3>3, <3>4
    <2>3. QED
      BY <2>1, <2>2
  <1>6. \A i \in 1 .. k - 1 : i \in 1 .. n /\ i < k /\ f[i] = g[i]
    BY <1>3, <1>4
  <1>7. f \in [1 .. k - 1 -> S]
    BY <1>2, <1>3, <1>4, <1>5, <1>6
  <1>8. \A x \in S : \E i \in 1 .. k - 1 : f[i] = x
    <2>1. SUFFICES ASSUME NEW x \in S PROVE \E i \in 1 .. k - 1 : f[i] = x
      OBVIOUS
    <2>2. PICK i \in 1 .. n : g[i] = x
      BY <1>2, <1>4 DEF RowsOf
    <2>3. i < k
      BY <1>2, <1>5, <2>2
    <2>4. i \in 1 .. k - 1
      BY <1>4, <2>3
    <2>5. QED
      BY <1>6, <2>2, <2>4
  <1>9. k - 1 \in Nat
    BY <1>4
  <1>10. \A i, j \in 1 .. k - 1 : f[i] = f[j] => i = j
    BY <1>4, <1>6
  <1>11. IsListed(k - 1, f, S)
    BY <1>7, <1>8, <1>9, <1>10 DEF IsListed
  <1>12. QED
    BY <1>2, <1>11, ListedSet

\* The queue of a table is its list.
LEMMA QueueIs ==
  ASSUME NEW g, NEW rows, Lists(g, rows)
  PROVE  QueueOf(rows) = Entries(g)
  <1>1. /\ DOMAIN g = 1 .. Len(g) /\ Cardinality(rows) = Len(g) /\ Len(g) \in Nat
        /\ \A i \in 1 .. Len(g) : g[i] \in rows
        /\ rows = RowsOf(g)
    BY ListFacts, ListCounts
  <1>2. ASSUME NEW i \in 1 .. Len(g) PROVE RowAt(rows, i) = g[i]
    <2> DEFINE P(r) == Cardinality({s \in rows : Before(s, r)}) = i - 1
    <2>1. g[i] \in rows /\ P(g[i])
      BY <1>1, OlderRows
    <2>2. ASSUME NEW r \in rows, P(r) PROVE r = g[i]
      <3>1. PICK k \in 1 .. Len(g) : g[k] = r
        BY <1>1 DEF RowsOf
      <3>2. Cardinality({s \in rows : Before(s, r)}) = k - 1
        BY <3>1, OlderRows
      <3>3. i - 1 = k - 1
        BY <2>2, <3>2
      <3>4. i = k
        BY <1>1, <3>3
      <3>5. QED
        BY <3>1, <3>4
    <2>3. RowAt(rows, i) = CHOOSE r \in rows : P(r)
      BY DEF RowAt
    <2> HIDE DEF P
    <2>4. RowAt(rows, i) \in rows /\ P(RowAt(rows, i))
      BY <2>1, <2>3
    <2>5. QED
      BY <2>2, <2>4
  <1>3. QED
    BY <1>1, <1>2 DEF QueueOf, Entries

\* What is left of a list without its first rows.
LEMMA LaterFacts ==
  ASSUME NEW S, NEW g \in Seq(S), NEW n \in 0 .. Len(g)
  PROVE  /\ Later(g, n) \in Seq(S) /\ Len(Later(g, n)) = Len(g) - n
         /\ \A i \in 1 .. Len(g) - n : Later(g, n)[i] = g[n + i]
  <1>1. PICK len : len = Len(g)
    OBVIOUS
  <1>2. /\ len \in Nat /\ n \in 0 .. len /\ n \in Nat
        /\ \A i \in n + 1 .. len : g[i] \in S
    BY <1>1
  <1>3. n + 1 \in Int /\ len \in Int
    BY <1>2
  <1>4. /\ SubSeq(g, n + 1, len) \in Seq(S)
        /\ Len(SubSeq(g, n + 1, len)) = IF n + 1 <= len THEN len - (n + 1) + 1 ELSE 0
        /\ \A i \in 1 .. len - (n + 1) + 1 : SubSeq(g, n + 1, len)[i] = g[n + 1 + i - 1]
    BY <1>2, <1>3, SubSeqProperties
  <1>5. PICK h : h = SubSeq(g, n + 1, len)
    OBVIOUS
  <1>6. Later(g, n) = h
    BY <1>1, <1>5 DEF Later
  <1>7. Len(h) = len - n
    BY <1>2, <1>4, <1>5
  <1>8. \A i \in 1 .. len - n : h[i] = g[n + i]
    <2>1. \A i \in 1 .. len - n : i \in 1 .. len - (n + 1) + 1 /\ n + 1 + i - 1 = n + i
      BY <1>2
    <2>2. QED
      BY <1>4, <1>5, <2>1
  <1>9. QED
    BY <1>1, <1>4, <1>5, <1>6, <1>7, <1>8

\* The entries of a list are as many as its rows.
LEMMA EntriesFacts ==
  ASSUME NEW g \in Seq(Rows)
  PROVE  /\ Entries(g) \in Seq([key : Keys, size : Nat, good : BOOLEAN])
         /\ Len(Entries(g)) = Len(g) /\ DOMAIN Entries(g) = 1 .. Len(g)
         /\ \A i \in 1 .. Len(g) : Entries(g)[i] = Entry(g[i])
  <1>1. PICK n : n = Len(g)
    OBVIOUS
  <1>2. n \in Nat /\ DOMAIN g = 1 .. n /\ \A i \in 1 .. n : g[i] \in Rows
    BY <1>1
  <1>3. PICK E : E = [key : Keys, size : Nat, good : BOOLEAN]
    OBVIOUS
  <1>4. \A i \in 1 .. n : Entry(g[i]) \in E
    BY <1>2, <1>3, CacheAssumption DEF Rows, Entry
  <1>5. PICK q : q = Entries(g)
    OBVIOUS
  <1>6. q = [i \in 1 .. n |-> Entry(g[i])]
    BY <1>2, <1>5 DEF Entries
  <1>7. q \in Seq(E) /\ Len(q) = n
    BY <1>2, <1>4, <1>6
  <1>8. DOMAIN q = 1 .. n /\ \A i \in 1 .. n : q[i] = Entry(g[i])
    BY <1>6
  <1>9. QED
    BY <1>1, <1>3, <1>5, <1>7, <1>8

\* The end of a list is a list.
LEMMA LaterLists ==
  ASSUME NEW g, NEW rows, Lists(g, rows), NEW n \in 0 .. Len(g)
  PROVE  /\ Lists(Later(g, n), RowsOf(Later(g, n)))
         /\ Entries(Later(g, n)) = Later(Entries(g), n)
  <1>1. PICK len : len = Len(g)
    OBVIOUS
  <1>2. PICK h : h = Later(g, n)
    OBVIOUS
  <1>3. /\ g \in Seq(Rows) /\ len \in Nat /\ n \in 0 .. len
        /\ \A i, j \in 1 .. len : i < j => g[i].sequence < g[j].sequence
        /\ \A i, j \in 1 .. len : i # j => g[i].key # g[j].key
    BY <1>1, ListFacts
  <1>4. h \in Seq(Rows) /\ Len(h) = len - n /\ \A i \in 1 .. len - n : h[i] = g[n + i]
    BY <1>1, <1>2, <1>3, LaterFacts
  <1>5. DOMAIN h = 1 .. len - n
    BY <1>4
  <1>6. Grows(h)
    <2>1. ASSUME NEW i \in 1 .. len - n, NEW j \in 1 .. len - n, i < j
          PROVE  h[i].sequence < h[j].sequence /\ h[i].key # h[j].key
      <3>1. n + i \in 1 .. len /\ n + j \in 1 .. len /\ n + i < n + j /\ n + i # n + j
        BY <1>3, <2>1
      <3>2. QED
        BY <1>3, <1>4, <3>1
    <2>2. QED
      BY <1>5, <2>1 DEF Grows
  <1>7. Lists(h, RowsOf(h))
    BY <1>4, <1>6 DEF Lists, RowsOf
  <1>8. Entries(h) = Later(Entries(g), n)
    <2>1. PICK E : E = [key : Keys, size : Nat, good : BOOLEAN]
      OBVIOUS
    <2>2. PICK q : q = Entries(g)
      OBVIOUS
    <2>3. q \in Seq(E) /\ Len(q) = len /\ \A i \in 1 .. len : q[i] = Entry(g[i])
      BY <1>1, <1>3, <2>1, <2>2, EntriesFacts
    <2>4. /\ Entries(h) \in Seq(E) /\ Len(Entries(h)) = len - n
          /\ \A i \in 1 .. len - n : Entries(h)[i] = Entry(h[i])
      BY <1>4, <2>1, EntriesFacts
    <2>5. /\ Later(q, n) \in Seq(E) /\ Len(Later(q, n)) = len - n
          /\ \A i \in 1 .. len - n : Later(q, n)[i] = q[n + i]
      <3>1. n \in 0 .. Len(q)
        BY <1>3, <2>3
      <3>2. QED
        BY <2>3, <3>1, LaterFacts
    <2>6. \A i \in 1 .. len - n : n + i \in 1 .. len
      BY <1>3
    <2>7. PICK a, b : a = Entries(h) /\ b = Later(q, n)
      OBVIOUS
    <2>8. a \in Seq(E) /\ b \in Seq(E) /\ Len(a) = Len(b)
      BY <2>4, <2>5, <2>7
    <2>9. \A i \in 1 .. Len(a) : a[i] = b[i]
      <3>1. Len(a) = len - n /\ \A i \in 1 .. len - n : a[i] = Entry(h[i]) /\ b[i] = q[n + i]
        BY <2>4, <2>5, <2>7
      <3>2. \A i \in 1 .. len - n : q[n + i] = Entry(g[n + i])
        BY <2>3, <2>6
      <3>3. QED
        BY <1>4, <3>1, <3>2
    <2>10. a = b
      BY <2>8, <2>9, SeqEqual
    <2>11. QED
      BY <2>2, <2>7, <2>10
  <1>9. QED
    BY <1>2, <1>7, <1>8

-----------------------------------------------------------------------------
(* Room *)

\* The queue weighs what its table does.
LEMMA WeightIs ==
  ASSUME NEW g, NEW rows, Lists(g, rows)
  PROVE  /\ Fifo!Weight(Entries(g)) = Bytes(rows)
         /\ Bytes(rows) \in Nat
  <1>1. PICK n : n = Len(g)
    OBVIOUS
  <1>2. /\ g \in Seq(Rows) /\ n \in Nat /\ DOMAIN g = 1 .. n
        /\ \A i, j \in 1 .. n : g[i] = g[j] => i = j
        /\ \A i \in 1 .. n : g[i] \in rows /\ g[i].size \in Nat
        /\ rows = RowsOf(g)
    BY <1>1, ListFacts
  <1>3. IsFiniteSet(rows)
    BY ListCounts
  <1>4. PICK f : f = [r \in rows |-> r.size]
    OBVIOUS
  <1>5. \A x \in rows : \E i \in 1 .. n : g[i] = x
    BY <1>2 DEF RowsOf
  <1>6. f \in [rows -> Nat]
    BY <1>2, <1>4, <1>5
  <1>7. g \in [1 .. n -> rows]
    BY <1>2
  <1>9. PICK q : q = Entries(g)
    OBVIOUS
  <1>10. DOMAIN q = 1 .. n /\ \A i \in 1 .. n : q[i] = Entry(g[i])
    BY <1>1, <1>2, <1>9, EntriesFacts
  <1>11. \A i \in 1 .. n : q[i].size = f[g[i]]
    BY <1>2, <1>4, <1>10 DEF Entry
  <1>12. PICK w : w = [i \in DOMAIN q |-> q[i].size]
    OBVIOUS
  <1>13. Fifo!Weight(q) = SumFunction([i \in DOMAIN q |-> q[i].size])
    BY DEF Fifo!Weight, Fifo!SumFunction, Fifo!SumFunctionOnSet, Fifo!FoldFunctionOnSet,
           Fifo!MapThenFoldSet, SumFunction, SumFunctionOnSet, FoldFunctionOnSet, MapThenFoldSet
  <1>14. SumFunction(f) \in Nat
    BY <1>3, <1>6, SumIsNatural
  <1>15. IsListed(n, g, DOMAIN f)
    BY <1>2, <1>5, <1>6, <1>7 DEF IsListed
  <1>16. w = [i \in 1 .. n |-> f[g[i]]]
    BY <1>10, <1>11, <1>12
  <1>17. IsListOf(w, f, n, g)
    BY <1>6, <1>15, <1>16 DEF IsListOf
  <1>18. SumFunction(w) = SumFunction(f)
    BY <1>17, SumOfList
  <1>19. Fifo!Weight(q) = SumFunction(w)
    BY <1>12, <1>13
  <1>20. QED
    BY <1>4, <1>9, <1>14, <1>18, <1>19 DEF Bytes

\* A table has room for something exactly if its queue has.
LEMMA RoomIs ==
  ASSUME NEW g, NEW rows, Lists(g, rows), NEW lim, NEW entries, NEW bytes
  PROVE  Fits(rows, lim, entries, bytes) <=> Fifo!Holds(lim, Entries(g), entries, bytes)
  <1>1. Len(Entries(g)) = Cardinality(rows)
    <2>1. g \in Seq(Rows) /\ Cardinality(rows) = Len(g)
      BY ListFacts, ListCounts
    <2>2. Len(Entries(g)) = Len(g)
      BY <2>1, EntriesFacts
    <2>3. QED
      BY <2>1, <2>2
  <1>2. Fifo!Weight(Entries(g)) = Bytes(rows)
    BY WeightIs
  <1>3. QED
    BY <1>1, <1>2 DEF Fits, Fifo!Holds

\* So does the end of it.
LEMMA LaterRoom ==
  ASSUME NEW g, NEW rows, Lists(g, rows), NEW n \in 0 .. Len(g),
         NEW lim, NEW entries, NEW bytes
  PROVE  Fits(RowsOf(Later(g, n)), lim, entries, bytes)
           <=> Fifo!Holds(lim, Fifo!Younger(Entries(g), n), entries, bytes)
  <1>1. PICK h : h = Later(g, n)
    OBVIOUS
  <1>2. Lists(h, RowsOf(h)) /\ Entries(h) = Later(Entries(g), n)
    BY <1>1, LaterLists
  <1>3. Fits(RowsOf(h), lim, entries, bytes) <=> Fifo!Holds(lim, Entries(h), entries, bytes)
    BY <1>2, RoomIs
  <1>4. Later(Entries(g), n) = Fifo!Younger(Entries(g), n)
    BY DEF Later, Fifo!Younger
  <1>5. QED
    BY <1>1, <1>2, <1>3, <1>4

-----------------------------------------------------------------------------
(* What a transaction does to a list *)

\* All of a list.
LEMMA LaterThanNothing ==
  ASSUME NEW S, NEW g \in Seq(S)
  PROVE  Later(g, 0) = g
  BY SubSeqFull DEF Later

\* The oldest row of a table is the first of its list.
LEMMA OldestIsFirst ==
  ASSUME NEW g, NEW rows, Lists(g, rows), Len(g) # 0
  PROVE  Oldest(rows) = {g[1]}
  <1>1. PICK n : n = Len(g)
    OBVIOUS
  <1>2. /\ n \in Nat /\ n # 0 /\ DOMAIN g = 1 .. n /\ rows = RowsOf(g)
        /\ \A i \in 1 .. n : g[i] \in rows /\ g[i].sequence \in Nat
        /\ \A i, j \in 1 .. n : i < j => g[i].sequence < g[j].sequence
    BY <1>1, ListFacts
  <1>3. 1 \in 1 .. n /\ \A i \in 1 .. n : i = 1 \/ 1 < i
    BY <1>2
  <1>4. \A r \in rows : \E i \in 1 .. n : g[i] = r
    BY <1>2 DEF RowsOf
  <1>5. \A r \in rows \ {g[1]} : Before(g[1], r)
    <2>1. SUFFICES ASSUME NEW r \in rows \ {g[1]} PROVE Before(g[1], r)
      OBVIOUS
    <2>2. PICK i \in 1 .. n : g[i] = r
      BY <1>4
    <2>3. i # 1
      BY <2>1, <2>2
    <2>4. g[1].sequence < g[i].sequence
      BY <1>2, <1>3, <2>3
    <2>5. QED
      BY <2>2, <2>4 DEF Before
  <1>6. ASSUME NEW r \in rows, r # g[1] PROVE ~Before(r, g[1])
    <2>1. PICK i \in 1 .. n : g[i] = r
      BY <1>4
    <2>2. i # 1
      BY <1>6, <2>1
    <2>3. g[1].sequence < g[i].sequence /\ g[1].sequence \in Nat /\ g[i].sequence \in Nat
      BY <1>2, <1>3, <2>2
    <2>4. ~(r.sequence < g[1].sequence) /\ r.sequence # g[1].sequence
      BY <2>1, <2>3
    <2>5. QED
      BY <2>4 DEF Before
  <1>7. g[1] \in rows
    BY <1>2, <1>3
  <1>8. g[1] \in Oldest(rows)
    BY <1>5, <1>7 DEF Oldest
  <1>9. \A r \in Oldest(rows) : r = g[1]
    BY <1>6, <1>7 DEF Oldest
  <1>10. QED
    BY <1>8, <1>9

\* Pruning takes the next row off the list.
LEMMA PruneLater ==
  ASSUME NEW g, NEW rows, Lists(g, rows), NEW n \in 0 .. Len(g), n # Len(g)
  PROVE  /\ n + 1 \in 0 .. Len(g)
         /\ RowsOf(Later(g, n)) \ Oldest(RowsOf(Later(g, n))) = RowsOf(Later(g, n + 1))
  <1>1. PICK len : len = Len(g)
    OBVIOUS
  <1>2. PICK h, t : h = Later(g, n) /\ t = Later(g, n + 1)
    OBVIOUS
  <1>3. /\ g \in Seq(Rows) /\ len \in Nat /\ n \in 0 .. len /\ n # len
    BY <1>1, ListFacts
  <1>4. n + 1 \in 0 .. len /\ len - n \in Nat /\ len - n # 0 /\ len - (n + 1) \in Nat
    BY <1>3
  <1>5. /\ h \in Seq(Rows) /\ Len(h) = len - n
        /\ \A i \in 1 .. len - n : h[i] = g[n + i]
    BY <1>1, <1>2, <1>3, LaterFacts
  <1>6. /\ t \in Seq(Rows) /\ Len(t) = len - (n + 1)
        /\ \A i \in 1 .. len - (n + 1) : t[i] = g[n + 1 + i]
    BY <1>1, <1>2, <1>3, <1>4, LaterFacts
  <1>7. DOMAIN h = 1 .. len - n /\ DOMAIN t = 1 .. len - (n + 1)
    BY <1>5, <1>6
  <1>8. Lists(h, RowsOf(h))
    BY <1>2, LaterLists
  <1>9. Oldest(RowsOf(h)) = {h[1]}
    BY <1>4, <1>5, <1>8, OldestIsFirst
  <1>10. \A i, j \in 1 .. len - n : h[i] = h[j] => i = j
    BY <1>5, <1>8, ListFacts
  <1>11. \A i \in 1 .. len - (n + 1) : i + 1 \in 1 .. len - n /\ i + 1 # 1 /\ t[i] = h[i + 1]
    <2>1. SUFFICES ASSUME NEW i \in 1 .. len - (n + 1)
                   PROVE  i + 1 \in 1 .. len - n /\ i + 1 # 1 /\ t[i] = h[i + 1]
      OBVIOUS
    <2>2. i + 1 \in 1 .. len - n /\ i + 1 # 1 /\ n + 1 + i = n + (i + 1)
      BY <1>3
    <2>3. QED
      BY <1>5, <1>6, <2>2
  <1>12. \A i \in 1 .. len - n : i # 1 => i - 1 \in 1 .. len - (n + 1) /\ i - 1 + 1 = i
    BY <1>3
  <1>13. 1 \in 1 .. len - n
    BY <1>4
  <1>14. ASSUME NEW r \in RowsOf(h) \ {h[1]} PROVE r \in RowsOf(t)
    <2>1. PICK i \in 1 .. len - n : h[i] = r
      BY <1>7, <1>14 DEF RowsOf
    <2>2. i # 1
      BY <1>14, <2>1
    <2>3. i - 1 \in 1 .. len - (n + 1) /\ t[i - 1] = r
      BY <1>11, <1>12, <2>1, <2>2
    <2>4. QED
      BY <1>7, <2>3 DEF RowsOf
  <1>15. ASSUME NEW r \in RowsOf(t) PROVE r \in RowsOf(h) \ {h[1]}
    <2>1. PICK i \in 1 .. len - (n + 1) : t[i] = r
      BY <1>7, <1>15 DEF RowsOf
    <2>2. i + 1 \in 1 .. len - n /\ i + 1 # 1 /\ h[i + 1] = r
      BY <1>11, <2>1
    <2>3. h[i + 1] # h[1]
      BY <1>10, <1>13, <2>2
    <2>4. r \in RowsOf(h)
      BY <1>7, <2>2 DEF RowsOf
    <2>5. QED
      BY <2>2, <2>3, <2>4
  <1>16. RowsOf(h) \ {h[1]} = RowsOf(t)
    BY <1>14, <1>15
  <1>17. QED
    BY <1>1, <1>2, <1>4, <1>9, <1>16

\* Pruning a draft that has no room leaves one that is pruned no more than needed.
LEMMA PruneKeeps ==
  ASSUME NEW rows, NEW whole, NEW lim, NEW entries, NEW bytes,
         Pruned(rows, whole, lim, entries, bytes), ~Fits(rows, lim, entries, bytes)
  PROVE  Pruned(rows \ Oldest(rows), whole, lim, entries, bytes)
  <1>1. PICK g : \E n \in 0 .. Len(g) :
                   /\ Lists(g, whole)
                   /\ rows = RowsOf(Later(g, n))
                   /\ \A m \in 0 .. n - 1 : ~Fits(RowsOf(Later(g, m)), lim, entries, bytes)
    BY DEF Pruned
  <1>2. PICK n \in 0 .. Len(g) :
               /\ Lists(g, whole)
               /\ rows = RowsOf(Later(g, n))
               /\ \A m \in 0 .. n - 1 : ~Fits(RowsOf(Later(g, m)), lim, entries, bytes)
    BY <1>1
  <1>3. Len(g) \in Nat /\ g \in Seq(Rows)
    BY <1>2, ListFacts
  <1>4. CASE n # Len(g)
    <2>1. n + 1 \in 0 .. Len(g) /\ rows \ Oldest(rows) = RowsOf(Later(g, n + 1))
      BY <1>2, <1>4, PruneLater
    <2>2. \A m \in 0 .. n + 1 - 1 : m = n \/ m \in 0 .. n - 1
      BY <1>3
    <2>3. \A m \in 0 .. n + 1 - 1 : ~Fits(RowsOf(Later(g, m)), lim, entries, bytes)
      BY <1>2, <2>2
    <2>4. QED
      BY <1>2, <2>1, <2>3 DEF Pruned
  <1>5. CASE n = Len(g)
    <2>1. PICK h : h = Later(g, n)
      OBVIOUS
    <2>2. h \in Seq(Rows) /\ Len(h) = Len(g) - n
      BY <1>3, <2>1, LaterFacts
    <2>3. DOMAIN h = {}
      BY <1>3, <1>5, <2>2
    <2>4. rows = {}
      BY <1>2, <2>1, <2>3 DEF RowsOf
    <2>5. rows \ Oldest(rows) = rows
      BY <2>4
    <2>6. QED
      BY <2>5
  <1>6. QED
    BY <1>4, <1>5

\* A draft that was never pruned is all of what it began with.
LEMMA PrunedNothing ==
  ASSUME NEW g, NEW whole, Lists(g, whole), NEW lim, NEW entries, NEW bytes
  PROVE  Pruned(whole, whole, lim, entries, bytes)
  <1>1. g \in Seq(Rows) /\ Len(g) \in Nat /\ whole = RowsOf(g)
    BY ListFacts
  <1>2. Later(g, 0) = g
    BY <1>1, LaterThanNothing
  <1>3. whole = RowsOf(Later(g, 0)) /\ 0 \in 0 .. Len(g)
    BY <1>1, <1>2
  <1>4. \A m \in 0 .. 0 - 1 : ~Fits(RowsOf(Later(g, m)), lim, entries, bytes)
    OBVIOUS
  <1>5. QED
    BY <1>3, <1>4 DEF Pruned

\* A draft that has room is the queue after the least trimming.
LEMMA CommitTrims ==
  ASSUME NEW rows, NEW whole, NEW lim, NEW entries, NEW bytes,
         Pruned(rows, whole, lim, entries, bytes), Fits(rows, lim, entries, bytes)
  PROVE  /\ \E h : Lists(h, rows)
         /\ \E n \in 0 .. Len(QueueOf(whole)) : QueueOf(rows) = Fifo!Younger(QueueOf(whole), n)
         /\ Fifo!IsTrimmed(QueueOf(whole), QueueOf(rows), lim, entries, bytes)
         /\ \A r \in rows : r \in whole
  <1>1. PICK g : \E n \in 0 .. Len(g) :
                   /\ Lists(g, whole)
                   /\ rows = RowsOf(Later(g, n))
                   /\ \A m \in 0 .. n - 1 : ~Fits(RowsOf(Later(g, m)), lim, entries, bytes)
    BY DEF Pruned
  <1>2. PICK n \in 0 .. Len(g) :
               /\ Lists(g, whole)
               /\ rows = RowsOf(Later(g, n))
               /\ \A m \in 0 .. n - 1 : ~Fits(RowsOf(Later(g, m)), lim, entries, bytes)
    BY <1>1
  <1>3. PICK q, h : q = Entries(g) /\ h = Later(g, n)
    OBVIOUS
  <1>4. Len(g) \in Nat /\ g \in Seq(Rows) /\ whole = RowsOf(g)
    BY <1>2, ListFacts
  <1>5. Lists(h, rows) /\ Entries(h) = Later(q, n)
    BY <1>2, <1>3, LaterLists
  <1>6. QueueOf(whole) = q /\ QueueOf(rows) = Entries(h)
    BY <1>2, <1>3, <1>5, QueueIs
  <1>7. Entries(h) = Fifo!Younger(q, n)
    BY <1>5 DEF Later, Fifo!Younger
  <1>8. Len(q) = Len(g)
    BY <1>3, <1>4, EntriesFacts
  <1>9. \A m \in 0 .. n - 1 : m \in 0 .. Len(g)
    BY <1>4
  <1>10. \A m \in 0 .. n - 1 : ~Fifo!Holds(lim, Fifo!Younger(q, m), entries, bytes)
    BY <1>2, <1>3, <1>9, LaterRoom
  <1>11. Fifo!Holds(lim, Entries(h), entries, bytes)
    BY <1>5, RoomIs
  <1>12. n \in 0 .. Len(q)
    BY <1>8
  <1>13. Fifo!IsTrimmed(q, Entries(h), lim, entries, bytes)
    BY <1>7, <1>10, <1>11, <1>12 DEF Fifo!IsTrimmed
  <1>14. \A r \in rows : r \in whole
    <2>1. SUFFICES ASSUME NEW r \in rows PROVE r \in whole
      OBVIOUS
    <2>2. h \in Seq(Rows) /\ Len(h) = Len(g) - n /\ \A i \in 1 .. Len(g) - n : h[i] = g[n + i]
      BY <1>3, <1>4, LaterFacts
    <2>3. DOMAIN h = 1 .. Len(g) - n
      BY <1>4, <2>2
    <2>4. PICK i \in 1 .. Len(g) - n : h[i] = r
      BY <1>2, <1>3, <2>3 DEF RowsOf
    <2>5. n + i \in 1 .. Len(g) /\ DOMAIN g = 1 .. Len(g)
      BY <1>4
    <2>6. r = g[n + i]
      BY <2>2, <2>4
    <2>7. QED
      BY <1>4, <2>5, <2>6 DEF RowsOf
  <1>15. QED
    BY <1>5, <1>6, <1>7, <1>12, <1>13, <1>14

\* What RemoveAt leaves.
LEMMA RemoveAtFacts ==
  ASSUME NEW S, NEW g \in Seq(S), NEW k \in 1 .. Len(g)
  PROVE  /\ RemoveAt(g, k) \in Seq(S) /\ Len(RemoveAt(g, k)) = Len(g) - 1
         /\ \A i \in 1 .. Len(g) - 1 : RemoveAt(g, k)[i] = IF i < k THEN g[i] ELSE g[i + 1]
  <1>1. PICK len : len = Len(g)
    OBVIOUS
  <1>2. len \in Nat /\ k \in 1 .. len /\ \A i \in 1 .. len : g[i] \in S
    BY <1>1
  <1>3. PICK a, b : a = SubSeq(g, 1, k - 1) /\ b = SubSeq(g, k + 1, len)
    OBVIOUS
  <1>4. 1 \in Int /\ k - 1 \in Int /\ k + 1 \in Int /\ len \in Int
    BY <1>2
  <1>5. /\ a \in Seq(S) /\ Len(a) = IF 1 <= k - 1 THEN k - 1 - 1 + 1 ELSE 0
        /\ \A i \in 1 .. k - 1 - 1 + 1 : a[i] = g[1 + i - 1]
    <2>1. \A i \in 1 .. k - 1 : g[i] \in S
      BY <1>2
    <2>2. QED
      BY <1>3, <1>4, <2>1, SubSeqProperties
  <1>6. /\ b \in Seq(S) /\ Len(b) = IF k + 1 <= len THEN len - (k + 1) + 1 ELSE 0
        /\ \A i \in 1 .. len - (k + 1) + 1 : b[i] = g[k + 1 + i - 1]
    <2>1. \A i \in k + 1 .. len : g[i] \in S
      BY <1>2
    <2>2. QED
      BY <1>3, <1>4, <2>1, SubSeqProperties
  <1>7. Len(a) = k - 1 /\ \A i \in 1 .. k - 1 : a[i] = g[i]
    BY <1>2, <1>5
  <1>8. Len(b) = len - k /\ \A i \in 1 .. len - k : b[i] = g[k + i]
    <2>1. \A i \in 1 .. len - k : i \in 1 .. len - (k + 1) + 1 /\ k + 1 + i - 1 = k + i
      BY <1>2
    <2>2. Len(b) = len - k
      BY <1>2, <1>6
    <2>3. QED
      BY <1>6, <2>1, <2>2
  <1>9. /\ a \o b \in Seq(S) /\ Len(a \o b) = Len(a) + Len(b)
        /\ \A i \in 1 .. Len(a) + Len(b) : (a \o b)[i] = IF i <= Len(a) THEN a[i] ELSE b[i - Len(a)]
    BY <1>5, <1>6, ConcatProperties
  <1>10. PICK c : c = a \o b
    OBVIOUS
  <1>11. RemoveAt(g, k) = c
    BY <1>1, <1>3, <1>10 DEF RemoveAt
  <1>12. c \in Seq(S) /\ Len(c) = len - 1
    BY <1>2, <1>7, <1>8, <1>9, <1>10
  <1>13. \A i \in 1 .. len - 1 : c[i] = IF i < k THEN g[i] ELSE g[i + 1]
    <2>1. SUFFICES ASSUME NEW i \in 1 .. len - 1 PROVE c[i] = IF i < k THEN g[i] ELSE g[i + 1]
      OBVIOUS
    <2>2. i \in 1 .. Len(a) + Len(b)
      BY <1>2, <1>7, <1>8
    <2>3. c[i] = IF i <= k - 1 THEN a[i] ELSE b[i - (k - 1)]
      BY <1>7, <1>9, <1>10, <2>2
    <2>4. CASE i < k
      <3>1. i \in 1 .. k - 1 /\ i <= k - 1
        BY <1>2, <2>4
      <3>2. QED
        BY <1>7, <2>3, <2>4, <3>1
    <2>5. CASE ~(i < k)
      <3>1. i - (k - 1) \in 1 .. len - k /\ ~(i <= k - 1) /\ k + (i - (k - 1)) = i + 1
        BY <1>2, <2>5
      <3>2. b[i - (k - 1)] = g[k + (i - (k - 1))]
        BY <1>8, <3>1
      <3>3. QED
        BY <2>3, <2>5, <3>1, <3>2
    <2>6. QED
      BY <2>4, <2>5
  <1>14. QED
    BY <1>1, <1>11, <1>12, <1>13

\* Removing a row from a table removes it from its list, and its entry.
LEMMA RemovalLists ==
  ASSUME NEW g, NEW rows, Lists(g, rows), NEW k \in 1 .. Len(g)
  PROVE  /\ Lists(RemoveAt(g, k), rows \ {g[k]})
         /\ Entries(RemoveAt(g, k)) = RemoveAt(Entries(g), k)
  <1>1. PICK len : len = Len(g)
    OBVIOUS
  <1>2. PICK h : h = RemoveAt(g, k)
    OBVIOUS
  <1>3. /\ g \in Seq(Rows) /\ len \in Nat /\ k \in 1 .. len /\ DOMAIN g = 1 .. len
        /\ rows = RowsOf(g)
        /\ \A i, j \in 1 .. len : i < j => g[i].sequence < g[j].sequence
        /\ \A i, j \in 1 .. len : i # j => g[i].key # g[j].key
        /\ \A i, j \in 1 .. len : g[i] = g[j] => i = j
    <2>1. /\ g \in Seq(Rows) /\ len \in Nat /\ k \in 1 .. len /\ DOMAIN g = 1 .. len
          /\ rows = RowsOf(g)
      BY <1>1, ListFacts
    <2>2. /\ \A i, j \in 1 .. len :
               (i < j => g[i].sequence < g[j].sequence) /\ (i # j => g[i].key # g[j].key)
          /\ \A i, j \in 1 .. len : g[i] = g[j] => i = j
      BY <1>1, ListFacts
    <2>3. QED
      BY <2>1, <2>2
  <1>4. /\ h \in Seq(Rows) /\ Len(h) = len - 1
        /\ \A i \in 1 .. len - 1 : h[i] = IF i < k THEN g[i] ELSE g[i + 1]
    <2>1. g \in Seq(Rows) /\ k \in 1 .. Len(g)
      BY <1>3
    <2>2. QED
      BY <1>1, <1>2, <2>1, RemoveAtFacts
  <1>5. DOMAIN h = 1 .. len - 1
    BY <1>3, <1>4
  <1> DEFINE at(i) == IF i < k THEN i ELSE i + 1
  <1>6. \A i \in 1 .. len - 1 : at(i) \in 1 .. len /\ at(i) # k /\ h[i] = g[at(i)]
    BY <1>3, <1>4
  <1>7. \A i, j \in 1 .. len - 1 : i < j => at(i) < at(j)
    BY <1>3
  <1>8. \A i, j \in 1 .. len : i < j => i # j
    BY <1>3
  <1>9. Grows(h)
    <2>1. ASSUME NEW i \in 1 .. len - 1, NEW j \in 1 .. len - 1, i < j
          PROVE  h[i].sequence < h[j].sequence /\ h[i].key # h[j].key
      <3>1. at(i) < at(j) /\ at(i) \in 1 .. len /\ at(j) \in 1 .. len
        BY <1>6, <1>7, <2>1
      <3>2. h[i] = g[at(i)] /\ h[j] = g[at(j)]
        BY <1>6
      <3> HIDE DEF at
      <3>3. QED
        BY <1>3, <1>8, <3>1, <3>2
    <2>2. QED
      BY <1>5, <2>1 DEF Grows
  <1>10. ASSUME NEW r \in RowsOf(h) PROVE r \in rows \ {g[k]}
    <2>1. PICK i \in 1 .. len - 1 : h[i] = r
      BY <1>5, <1>10 DEF RowsOf
    <2>2. at(i) \in 1 .. len /\ at(i) # k /\ r = g[at(i)]
      BY <1>6, <2>1
    <2> HIDE DEF at
    <2>3. r \in rows /\ r # g[k]
      BY <1>3, <2>2 DEF RowsOf
    <2>4. QED
      BY <2>3
  <1>11. ASSUME NEW r \in rows \ {g[k]} PROVE r \in RowsOf(h)
    <2>1. PICK j \in 1 .. len : g[j] = r
      BY <1>3, <1>11 DEF RowsOf
    <2>2. j # k
      BY <1>11, <2>1
    <2>3. PICK i : i = IF j < k THEN j ELSE j - 1
      OBVIOUS
    <2>4. i \in 1 .. len - 1 /\ at(i) = j
      BY <1>3, <2>2, <2>3
    <2>5. h[i] = r
      BY <1>6, <2>1, <2>4
    <2>6. QED
      BY <1>5, <2>4, <2>5 DEF RowsOf
  <1>12. RowsOf(h) = rows \ {g[k]}
    BY <1>10, <1>11
  <1>13. Lists(h, rows \ {g[k]})
    BY <1>4, <1>9, <1>12 DEF Lists, RowsOf
  <1>14. Entries(h) = RemoveAt(Entries(g), k)
    <2>1. PICK E : E = [key : Keys, size : Nat, good : BOOLEAN]
      OBVIOUS
    <2>2. PICK q : q = Entries(g)
      OBVIOUS
    <2>3. q \in Seq(E) /\ Len(q) = len /\ \A i \in 1 .. len : q[i] = Entry(g[i])
      BY <1>1, <1>3, <2>1, <2>2, EntriesFacts
    <2>4. PICK a, b : a = Entries(h) /\ b = RemoveAt(q, k)
      OBVIOUS
    <2>5. a \in Seq(E) /\ Len(a) = len - 1 /\ \A i \in 1 .. len - 1 : a[i] = Entry(h[i])
      BY <1>4, <2>1, <2>4, EntriesFacts
    <2>6. /\ b \in Seq(E) /\ Len(b) = len - 1
          /\ \A i \in 1 .. len - 1 : b[i] = IF i < k THEN q[i] ELSE q[i + 1]
      <3>1. k \in 1 .. Len(q)
        BY <1>3, <2>3
      <3>2. QED
        BY <2>3, <2>4, <3>1, RemoveAtFacts
    <2>7. \A i \in 1 .. len - 1 : b[i] = q[at(i)]
      BY <2>6
    <2>8. \A i \in 1 .. len - 1 : a[i] = b[i]
      <3> HIDE DEF at
      <3>1. QED
        BY <1>6, <2>3, <2>5, <2>7
    <2>9. a = b
      BY <2>5, <2>6, <2>8, SeqEqual
    <2>10. QED
      BY <2>2, <2>4, <2>9
  <1>15. QED
    BY <1>2, <1>13, <1>14

\* The rows with a key are one of the list, or none.
LEMMA KeyIsUnique ==
  ASSUME NEW g, NEW rows, Lists(g, rows), NEW key, NEW k \in 1 .. Len(g), g[k].key = key
  PROVE  WithKey(rows, key) = {g[k]}
  <1>1. PICK len : len = Len(g)
    OBVIOUS
  <1>2. /\ len \in Nat /\ k \in 1 .. len /\ DOMAIN g = 1 .. len /\ rows = RowsOf(g)
        /\ \A i, j \in 1 .. len : i # j => g[i].key # g[j].key
    BY <1>1, ListFacts
  <1>3. g[k] \in rows
    BY <1>2 DEF RowsOf
  <1>4. ASSUME NEW r \in rows, r.key = key PROVE r = g[k]
    <2>1. PICK i \in 1 .. len : g[i] = r
      BY <1>2, <1>4 DEF RowsOf
    <2>2. i = k
      BY <1>2, <1>4, <2>1
    <2>3. QED
      BY <2>1, <2>2
  <1>5. QED
    BY <1>3, <1>4 DEF WithKey

\* Deleting the row with a key is what Without does to the queue.
LEMMA WithoutKey ==
  ASSUME NEW g, NEW rows, Lists(g, rows), NEW key
  PROVE  /\ \E h : Lists(h, rows \ WithKey(rows, key))
         /\ QueueOf(rows \ WithKey(rows, key)) = Fifo!Without(QueueOf(rows), key)
         /\ Len(Fifo!Without(QueueOf(rows), key)) <= Len(QueueOf(rows))
  <1>1. PICK len : len = Len(g)
    OBVIOUS
  <1>2. PICK q : q = Entries(g)
    OBVIOUS
  <1>3. /\ g \in Seq(Rows) /\ len \in Nat /\ DOMAIN g = 1 .. len /\ rows = RowsOf(g)
        /\ \A i, j \in 1 .. len : i # j => g[i].key # g[j].key
    BY <1>1, ListFacts
  <1>4. DOMAIN q = 1 .. len /\ Len(q) = len /\ \A i \in 1 .. len : q[i] = Entry(g[i])
    BY <1>1, <1>2, <1>3, EntriesFacts
  <1>5. QueueOf(rows) = q
    BY <1>2, QueueIs
  <1>6. \A i \in 1 .. len : q[i].key = g[i].key
    BY <1>4 DEF Entry
  <1>7. PICK found : found = {i \in DOMAIN q : q[i].key = key}
    OBVIOUS
  <1>8. Fifo!Without(q, key) = IF found = {} THEN q ELSE Fifo!RemoveAt(q, CHOOSE i \in found : TRUE)
    BY <1>7 DEF Fifo!Without
  <1>9. CASE found = {}
    <2>1. \A i \in 1 .. len : g[i].key # key
      BY <1>4, <1>6, <1>7, <1>9
    <2>2. \A r \in rows : r.key # key
      BY <1>3, <2>1 DEF RowsOf
    <2>3. rows \ WithKey(rows, key) = rows
      BY <2>2 DEF WithKey
    <2>4. Fifo!Without(q, key) = q /\ Len(q) <= Len(q)
      BY <1>3, <1>4, <1>8, <1>9
    <2>5. \E h : Lists(h, rows \ WithKey(rows, key))
      BY <2>3
    <2>6. QED
      BY <1>5, <2>3, <2>4, <2>5
  <1>10. CASE found # {}
    <2>1. PICK k : k = CHOOSE i \in found : TRUE
      OBVIOUS
    <2>2. k \in found
      BY <1>10, <2>1
    <2>3. k \in 1 .. len /\ g[k].key = key
      BY <1>4, <1>6, <1>7, <2>2
    <2>4. WithKey(rows, key) = {g[k]}
      BY <1>1, <2>3, KeyIsUnique
    <2>5. PICK h : h = RemoveAt(g, k)
      OBVIOUS
    <2>6. Lists(h, rows \ {g[k]}) /\ Entries(h) = RemoveAt(q, k)
      BY <1>1, <1>2, <2>3, <2>5, RemovalLists
    <2>7. QueueOf(rows \ {g[k]}) = Entries(h)
      BY <2>6, QueueIs
    <2>8. Fifo!Without(q, key) = RemoveAt(q, k)
      BY <1>8, <1>10, <2>1 DEF Fifo!RemoveAt, RemoveAt
    <2>9. h \in Seq(Rows) /\ Len(h) = len - 1
      BY <1>1, <1>3, <2>3, <2>5, RemoveAtFacts
    <2>10. Len(Entries(h)) = len - 1
      BY <2>9, EntriesFacts
    <2>11. Len(Fifo!Without(q, key)) <= Len(q)
      BY <1>3, <1>4, <2>6, <2>8, <2>10
    <2>12. QED
      BY <1>5, <2>4, <2>6, <2>7, <2>8, <2>11
  <1>11. QED
    BY <1>9, <1>10

\* The number of a new row is above every other.
LEMMA NextIsLast ==
  ASSUME NEW g, NEW rows, Lists(g, rows)
  PROVE  NextSequence(rows) \in Nat /\ \A i \in 1 .. Len(g) : g[i].sequence < NextSequence(rows)
  <1>1. PICK len : len = Len(g)
    OBVIOUS
  <1>2. /\ len \in Nat /\ DOMAIN g = 1 .. len /\ rows = RowsOf(g)
        /\ \A i \in 1 .. len : g[i] \in rows /\ g[i].sequence \in Nat
        /\ \A i, j \in 1 .. len : i < j => g[i].sequence < g[j].sequence
    BY <1>1, ListFacts
  <1>3. CASE len = 0
    <2>1. rows = {} /\ 1 .. len = {}
      BY <1>2, <1>3 DEF RowsOf
    <2>2. NextSequence(rows) = 1
      BY <2>1 DEF NextSequence
    <2>3. QED
      BY <1>1, <2>1, <2>2
  <1>4. CASE len # 0
    <2>1. PICK S : S = {r.sequence : r \in rows}
      OBVIOUS
    <2>2. len \in 1 .. len /\ rows # {}
      BY <1>2, <1>4
    <2>3. \A s \in S : \E i \in 1 .. len : s = g[i].sequence
      BY <1>2, <2>1 DEF RowsOf
    <2>4. \A i \in 1 .. len : g[i].sequence \in S
      BY <1>2, <2>1
    <2>5. \A s \in S : s \in Nat
      BY <1>2, <2>3
    <2>6. \A i \in 1 .. len : i = len \/ i < len
      BY <1>2
    <2>7. \A i \in 1 .. len : g[len].sequence >= g[i].sequence
      BY <1>2, <2>2, <2>6
    <2>8. g[len].sequence \in S /\ \A s \in S : g[len].sequence >= s
      BY <2>2, <2>3, <2>4, <2>7
    <2>9. PICK top : top = Max(S)
      OBVIOUS
    <2>10. top \in S /\ \A s \in S : top >= s
      BY <2>8, <2>9 DEF Max
    <2>11. NextSequence(rows) = top + 1
      BY <2>1, <2>2, <2>9 DEF NextSequence
    <2>12. \A i \in 1 .. len : g[i].sequence < top + 1
      BY <1>2, <2>4, <2>5, <2>10
    <2>13. QED
      BY <1>1, <2>5, <2>10, <2>11, <2>12
  <1>5. QED
    BY <1>3, <1>4

\* A row that comes after all others is the last of the list.
ComesLast(r, g) ==
  /\ r \in Rows
  /\ \A i \in 1 .. Len(g) : g[i].sequence < r.sequence /\ g[i].key # r.key

LEMMA AppendLists ==
  ASSUME NEW g, NEW rows, Lists(g, rows), NEW r, ComesLast(r, g)
  PROVE  /\ Lists(Append(g, r), rows \cup {r})
         /\ Entries(Append(g, r)) = Append(Entries(g), Entry(r))
  <1>1. PICK len : len = Len(g)
    OBVIOUS
  <1>2. PICK h : h = Append(g, r)
    OBVIOUS
  <1>3. /\ g \in Seq(Rows) /\ len \in Nat /\ DOMAIN g = 1 .. len /\ rows = RowsOf(g)
        /\ \A i, j \in 1 .. len : i < j => g[i].sequence < g[j].sequence
        /\ \A i, j \in 1 .. len : i # j => g[i].key # g[j].key
    BY <1>1, ListFacts
  <1>4. /\ r \in Rows
        /\ \A i \in 1 .. len : g[i].sequence < r.sequence /\ g[i].key # r.key
    BY <1>1 DEF ComesLast
  <1>5. /\ h \in Seq(Rows) /\ Len(h) = len + 1 /\ h[len + 1] = r
        /\ \A i \in 1 .. len : h[i] = g[i]
    <2>1. g \in Seq(Rows) /\ r \in Rows
      BY <1>3, <1>4
    <2>2. QED
      BY <1>1, <1>2, <2>1, AppendProperties
  <1>6. DOMAIN h = 1 .. len + 1
    BY <1>3, <1>5
  <1>7. \A i \in 1 .. len + 1 : i = len + 1 \/ i \in 1 .. len
    BY <1>3
  <1>8. \A i \in 1 .. len : i \in 1 .. len + 1
    BY <1>3
  <1>9. Grows(h)
    <2>1. ASSUME NEW i \in 1 .. len + 1, NEW j \in 1 .. len + 1, i < j
          PROVE  h[i].sequence < h[j].sequence /\ h[i].key # h[j].key
      <3>1. i \in 1 .. len /\ i # j
        BY <1>3, <2>1
      <3>2. CASE j = len + 1
        <4>1. h[i] = g[i] /\ h[j] = r
          BY <1>5, <3>1, <3>2
        <4>2. QED
          BY <1>4, <3>1, <4>1
      <3>3. CASE j \in 1 .. len
        <4>1. h[i] = g[i] /\ h[j] = g[j]
          BY <1>5, <3>1, <3>3
        <4>2. QED
          BY <1>3, <2>1, <3>1, <3>3, <4>1
      <3>4. QED
        BY <1>7, <3>2, <3>3
    <2>2. QED
      BY <1>6, <2>1 DEF Grows
  <1>10. RowsOf(h) = rows \cup {r}
    <2>1. ASSUME NEW s \in RowsOf(h) PROVE s \in rows \cup {r}
      <3>1. PICK i \in 1 .. len + 1 : h[i] = s
        BY <1>6, <2>1 DEF RowsOf
      <3>2. s = r \/ \E k \in 1 .. len : s = g[k]
        BY <1>5, <1>7, <3>1
      <3>3. QED
        BY <1>3, <3>2 DEF RowsOf
    <2>2. ASSUME NEW s \in rows \cup {r} PROVE s \in RowsOf(h)
      <3>1. len + 1 \in 1 .. len + 1
        BY <1>3
      <3>2. CASE s = r
        BY <1>5, <1>6, <3>1, <3>2 DEF RowsOf
      <3>3. CASE s \in rows
        <4>1. PICK i \in 1 .. len : g[i] = s
          BY <1>3, <3>3 DEF RowsOf
        <4>2. i \in 1 .. len + 1 /\ h[i] = s
          BY <1>5, <1>8, <4>1
        <4>3. QED
          BY <1>6, <4>2 DEF RowsOf
      <3>4. QED
        BY <2>2, <3>2, <3>3
    <2>3. QED
      BY <2>1, <2>2
  <1>11. Lists(h, rows \cup {r})
    BY <1>5, <1>9, <1>10 DEF Lists, RowsOf
  <1>12. Entries(h) = Append(Entries(g), Entry(r))
    <2>1. PICK E : E = [key : Keys, size : Nat, good : BOOLEAN]
      OBVIOUS
    <2>2. PICK q, e : q = Entries(g) /\ e = Entry(r)
      OBVIOUS
    <2>3. q \in Seq(E) /\ Len(q) = len /\ \A i \in 1 .. len : q[i] = Entry(g[i])
      BY <1>1, <1>3, <2>1, <2>2, EntriesFacts
    <2>4. e \in E
      BY <1>4, <2>1, <2>2, CacheAssumption DEF Rows, Entry
    <2>5. PICK a, b : a = Entries(h) /\ b = Append(q, e)
      OBVIOUS
    <2>6. a \in Seq(E) /\ Len(a) = len + 1 /\ \A i \in 1 .. len + 1 : a[i] = Entry(h[i])
      BY <1>5, <2>1, <2>5, EntriesFacts
    <2>7. b \in Seq(E) /\ Len(b) = len + 1 /\ b[len + 1] = e /\ \A i \in 1 .. len : b[i] = q[i]
      BY <2>3, <2>4, <2>5, AppendProperties
    <2>8. \A i \in 1 .. len + 1 : a[i] = b[i]
      BY <1>5, <1>7, <2>2, <2>3, <2>6, <2>7
    <2>9. a = b
      BY <2>6, <2>7, <2>8, SeqEqual
    <2>10. QED
      BY <2>2, <2>5, <2>9
  <1>13. QED
    BY <1>2, <1>11, <1>12

\* A damaged row stays where it is in the list.
Damaged(r) == [r EXCEPT !.good = FALSE]

LEMMA DamageLists ==
  ASSUME NEW g, NEW rows, Lists(g, rows), NEW k \in 1 .. Len(g)
  PROVE  /\ \E h : Lists(h, (rows \ {g[k]}) \cup {Damaged(g[k])})
         /\ k \in DOMAIN QueueOf(rows)
         /\ QueueOf((rows \ {g[k]}) \cup {Damaged(g[k])}) = [QueueOf(rows) EXCEPT ![k].good = FALSE]
  <1>1. PICK len, d : len = Len(g) /\ d = Damaged(g[k])
    OBVIOUS
  <1>2. /\ g \in Seq(Rows) /\ len \in Nat /\ DOMAIN g = 1 .. len /\ rows = RowsOf(g)
        /\ k \in 1 .. len /\ \A i \in 1 .. len : g[i] \in Rows
        /\ \A i, j \in 1 .. len : i < j => g[i].sequence < g[j].sequence
        /\ \A i, j \in 1 .. len : i # j => g[i].key # g[j].key
        /\ \A i, j \in 1 .. len : g[i] = g[j] => i = j
    BY <1>1, ListFacts
  <1>3. /\ d \in Rows /\ d.key = g[k].key /\ d.size = g[k].size
        /\ d.sequence = g[k].sequence /\ d.good = FALSE
    BY <1>1, <1>2 DEF Rows, Damaged
  <1>4. PICK h : h = [g EXCEPT ![k] = d]
    OBVIOUS
  <1>5. /\ h \in Seq(Rows) /\ Len(h) = len
        /\ \A i \in 1 .. len : h[i] = IF i = k THEN d ELSE g[i]
    <2>1. g \in Seq(Rows) /\ d \in Rows /\ k \in 1 .. Len(g)
      BY <1>2, <1>3
    <2>2. QED
      BY <1>1, <1>4, <2>1, ExceptSeq
  <1>6. DOMAIN h = 1 .. len
    BY <1>2, <1>5
  <1>7. \A i \in 1 .. len : h[i].sequence = g[i].sequence /\ h[i].key = g[i].key
    BY <1>3, <1>5
  <1>8. Grows(h)
    <2>1. ASSUME NEW i \in 1 .. len, NEW j \in 1 .. len, i < j
          PROVE  h[i].sequence < h[j].sequence /\ h[i].key # h[j].key
      <3>1. i # j
        BY <1>2, <2>1
      <3>2. QED
        BY <1>2, <1>7, <2>1, <3>1
    <2>2. QED
      BY <1>6, <2>1 DEF Grows
  <1>9. RowsOf(h) = (rows \ {g[k]}) \cup {d}
    <2>1. ASSUME NEW s \in RowsOf(h) PROVE s \in (rows \ {g[k]}) \cup {d}
      <3>1. PICK i \in 1 .. len : h[i] = s
        BY <1>6, <2>1 DEF RowsOf
      <3>2. CASE i = k
        BY <1>5, <3>1, <3>2
      <3>3. CASE i # k
        <4>1. s = g[i] /\ s # g[k]
          BY <1>2, <1>5, <3>1, <3>3
        <4>2. s \in rows
          BY <1>2, <4>1 DEF RowsOf
        <4>3. QED
          BY <4>1, <4>2
      <3>4. QED
        BY <3>2, <3>3
    <2>2. ASSUME NEW s \in (rows \ {g[k]}) \cup {d} PROVE s \in RowsOf(h)
      <3>1. CASE s = d
        <4>1. h[k] = s
          BY <1>2, <1>5, <3>1
        <4>2. QED
          BY <1>2, <1>6, <4>1 DEF RowsOf
      <3>2. CASE s \in rows /\ s # g[k]
        <4>1. PICK i \in 1 .. len : g[i] = s
          BY <1>2, <3>2 DEF RowsOf
        <4>2. i # k
          BY <3>2, <4>1
        <4>3. h[i] = s
          BY <1>5, <4>1, <4>2
        <4>4. QED
          BY <1>6, <4>3 DEF RowsOf
      <3>3. QED
        BY <2>2, <3>1, <3>2
    <2>3. QED
      BY <2>1, <2>2
  <1>10. Lists(h, (rows \ {g[k]}) \cup {d})
    BY <1>5, <1>8, <1>9 DEF Lists, RowsOf
  <1>11. PICK E : E = [key : Keys, size : Nat, good : BOOLEAN]
    OBVIOUS
  <1>12. PICK q : q = Entries(g)
    OBVIOUS
  <1>13. /\ q \in Seq(E) /\ Len(q) = len /\ DOMAIN q = 1 .. len
         /\ \A i \in 1 .. len : q[i] = Entry(g[i])
    BY <1>1, <1>2, <1>11, <1>12, EntriesFacts
  <1>14. QueueOf(rows) = q
    BY <1>12, QueueIs
  <1>15. PICK a, b, e : a = Entries(h) /\ e = [q[k] EXCEPT !.good = FALSE] /\ b = [q EXCEPT ![k] = e]
    OBVIOUS
  <1>16. a \in Seq(E) /\ Len(a) = len /\ \A i \in 1 .. len : a[i] = Entry(h[i])
    BY <1>5, <1>11, <1>15, EntriesFacts
  <1>17. q[k] \in E
    BY <1>2, <1>13
  <1>18. e \in E
    BY <1>11, <1>15, <1>17
  <1>19. b \in Seq(E) /\ Len(b) = len /\ \A i \in 1 .. len : b[i] = IF i = k THEN e ELSE q[i]
    <2>1. k \in 1 .. Len(q)
      BY <1>2, <1>13
    <2>2. QED
      BY <1>13, <1>15, <1>18, <2>1, ExceptSeq
  <1>20. Entry(d) = e
    <2>1. q[k].key = g[k].key /\ q[k].size = g[k].size
      BY <1>2, <1>13 DEF Entry
    <2>2. e.key = q[k].key /\ e.size = q[k].size /\ e.good = FALSE
      BY <1>11, <1>15, <1>17
    <2>3. PICK f : f = Entry(d)
      OBVIOUS
    <2>4. f.key = g[k].key /\ f.size = g[k].size /\ f.good = FALSE
      BY <1>3, <2>3 DEF Entry
    <2>5. f \in E
      BY <1>3, <1>11, <2>3, CacheAssumption DEF Rows, Entry
    <2>6. e.key = f.key /\ e.size = f.size /\ e.good = FALSE /\ f.good = FALSE
      BY <2>1, <2>2, <2>4
    <2>7. e = f
      BY <1>11, <1>18, <2>5, <2>6
    <2>8. QED
      BY <2>3, <2>7
  <1>21. \A i \in 1 .. len : a[i] = b[i]
    BY <1>5, <1>13, <1>16, <1>19, <1>20
  <1>22. a = b
    BY <1>16, <1>19, <1>21, SeqEqual
  <1>23. QueueOf((rows \ {g[k]}) \cup {d}) = a
    BY <1>10, <1>15, QueueIs
  <1>24. b = [q EXCEPT ![k].good = FALSE]
    BY <1>15
  <1>25. QED
    BY <1>1, <1>2, <1>10, <1>13, <1>14, <1>22, <1>23, <1>24

-----------------------------------------------------------------------------
(* Steps of the processes *)

\* Types, and the lock, for every step.
LEMMA LockStep ==
  ASSUME CacheTypeOK, Locked, [Next]_vars
  PROVE  CacheTypeOK' /\ Locked'
  <1> USE CacheAssumption
  <1>1. NoRequest \in [key : Nat, size : Nat]
    BY DEF NoRequest
  <1>2. ASSUME NEW p \in Processes, BeginOpen(p) PROVE CacheTypeOK' /\ Locked'
    <2>1. PICK k \in Keys : request' = [request EXCEPT ![p] = [key |-> k, size |-> 0]]
      BY <1>2 DEF BeginOpen
    <2>2. CacheTypeOK'
      BY <1>2, <2>1 DEF BeginOpen, Begin, CacheTypeOK
    <2>3. Locked'
      BY <1>2 DEF BeginOpen, Begin, CacheTypeOK, Locked
    <2>4. QED
      BY <2>2, <2>3
  <1>3. ASSUME NEW p \in Processes, CommitOpen(p) PROVE CacheTypeOK' /\ Locked'
    <2>1. CacheTypeOK'
      BY <1>3 DEF CommitOpen, CommitDraft, CacheTypeOK
    <2>2. Locked'
      BY <1>3 DEF CommitOpen, CommitDraft, CacheTypeOK, Locked
    <2>3. QED
      BY <2>1, <2>2
  <1>4. ASSUME NEW p \in Processes, Prune(p) PROVE CacheTypeOK' /\ Locked'
    BY <1>4 DEF Prune, CacheTypeOK, Locked
  <1>5. ASSUME NEW p \in Processes, Hit(p) PROVE CacheTypeOK' /\ Locked'
    <2>1. CacheTypeOK'
      BY <1>1, <1>5 DEF Hit, Close, CacheTypeOK
    <2>2. Locked'
      BY <1>5 DEF Hit, Close, CacheTypeOK, Locked
    <2>3. QED
      BY <2>1, <2>2
  <1>6. ASSUME NEW p \in Processes, DiscardUnusable(p) PROVE CacheTypeOK' /\ Locked'
    <2>1. CacheTypeOK'
      BY <1>6 DEF DiscardUnusable, CacheTypeOK
    <2>2. Locked'
      BY <1>6 DEF DiscardUnusable, CacheTypeOK, Locked
    <2>3. QED
      BY <2>1, <2>2
  <1>7. ASSUME NEW p \in Processes, Miss(p) PROVE CacheTypeOK' /\ Locked'
    <2>1. CacheTypeOK'
      BY <1>7 DEF Miss, CacheTypeOK
    <2>2. Locked'
      BY <1>7 DEF Miss, CacheTypeOK, Locked
    <2>3. QED
      BY <2>1, <2>2
  <1>8. ASSUME NEW p \in Processes, NEW s \in Sizes, BeginPut(p, s) PROVE CacheTypeOK' /\ Locked'
    <2>1. CacheTypeOK'
      BY <1>8 DEF BeginPut, Begin, CacheTypeOK
    <2>2. Locked'
      BY <1>8 DEF BeginPut, Begin, CacheTypeOK, Locked
    <2>3. QED
      BY <2>1, <2>2
  <1>9. ASSUME NEW p \in Processes, CommitPut(p) PROVE CacheTypeOK' /\ Locked'
    <2>1. CacheTypeOK'
      BY <1>1, <1>9 DEF CommitPut, CommitDraft, Close, CacheTypeOK
    <2>2. Locked'
      BY <1>9 DEF CommitPut, CommitDraft, Close, CacheTypeOK, Locked
    <2>3. QED
      BY <2>1, <2>2
  <1>10. ASSUME NEW p \in Processes, Abandon(p) PROVE CacheTypeOK' /\ Locked'
    <2>1. CacheTypeOK'
      BY <1>1, <1>10 DEF Abandon, Close, CacheTypeOK
    <2>2. Locked'
      BY <1>10 DEF Abandon, Close, CacheTypeOK, Locked
    <2>3. QED
      BY <2>1, <2>2
  <1>11. ASSUME NEW p \in Processes, Clear(p) PROVE CacheTypeOK' /\ Locked'
    <2>1. CacheTypeOK'
      BY <1>1, <1>11 DEF Clear, Close, CacheTypeOK
    <2>2. Locked'
      BY <1>11 DEF Clear, Close, CacheTypeOK, Locked
    <2>3. QED
      BY <2>1, <2>2
  <1>12. ASSUME NEW r \in table, Damage(r) PROVE CacheTypeOK' /\ Locked'
    BY <1>12 DEF Damage, CacheTypeOK, Locked
  <1>13. ASSUME UNCHANGED vars PROVE CacheTypeOK' /\ Locked'
    BY <1>13 DEF vars, CacheTypeOK, Locked
  <1>14. QED
    BY <1>2, <1>3, <1>4, <1>5, <1>6, <1>7, <1>8, <1>9, <1>10, <1>11, <1>12, <1>13 DEF Next

\* A draft is what it was while the process that holds the database does nothing.
LEMMA DraftKept ==
  ASSUME DraftPruned, table' = table, draft' = draft, writer' = writer,
         writer # Free => /\ pc'[writer] = pc[writer] /\ limits'[writer] = limits[writer]
                          /\ request'[writer] = request[writer]
  PROVE  DraftPruned'
  BY DEF DraftPruned, Base, Reserved

\* A step that leaves the table alone leaves the queue alone.
QueueKept == QueueOf(table)' = QueueOf(table)

LEMMA TableKept ==
  ASSUME table' = table
  PROVE  QueueKept /\ (Listed => Listed')
  BY DEF QueueKept, Listed

\* Beginning a transaction changes nothing yet.
LEMMA BeginOpenStep ==
  ASSUME CacheInv, NEW p \in Processes, BeginOpen(p)
  PROVE  Listed' /\ DraftPruned' /\ QueueKept
  <1>1. table' = table /\ draft' = table /\ writer' = p /\ pc'[p] = "opening"
    BY DEF BeginOpen, Begin, CacheInv, CacheTypeOK
  <1>2. PICK g : Lists(g, table)
    BY DEF CacheInv, Listed
  <1>3. \A lim, entries, bytes : Pruned(table, table, lim, entries, bytes)
    BY <1>2, PrunedNothing
  <1>4. DraftPruned'
    BY <1>1, <1>3 DEF DraftPruned, Base
  <1>5. QED
    BY <1>1, <1>4, TableKept DEF CacheInv

LEMMA BeginPutStep ==
  ASSUME CacheInv, NEW p \in Processes, NEW s \in Sizes, BeginPut(p, s)
  PROVE  Listed' /\ DraftPruned' /\ QueueKept
  <1>1. PICK rows : rows = table \ WithKey(table, request[p].key)
    OBVIOUS
  <1>2. /\ table' = table /\ draft' = rows /\ writer' = p /\ pc'[p] = "replacing"
        /\ request'[p].key = request[p].key
    BY <1>1 DEF BeginPut, Begin, CacheInv, CacheTypeOK
  <1>3. PICK g : Lists(g, table)
    BY DEF CacheInv, Listed
  <1>4. PICK h : Lists(h, rows)
    BY <1>1, <1>3, WithoutKey
  <1>5. \A lim, entries, bytes : Pruned(rows, rows, lim, entries, bytes)
    BY <1>4, PrunedNothing
  <1>6. Base(p)' = rows
    BY <1>1, <1>2 DEF Base, WithKey
  <1>7. DraftPruned'
    BY <1>2, <1>5, <1>6 DEF DraftPruned, Base
  <1>8. QED
    BY <1>2, <1>7, TableKept DEF CacheInv

\* Pruning changes only the draft.
LEMMA PruneStep ==
  ASSUME CacheInv, NEW p \in Processes, Prune(p)
  PROVE  Listed' /\ DraftPruned' /\ QueueKept
  <1>1. /\ writer = p /\ writer' = p /\ table' = table /\ pc' = pc /\ limits' = limits
        /\ request' = request /\ draft' = draft \ Oldest(draft)
        /\ ~Fits(draft, limits[p], Reserved(p).entries, Reserved(p).bytes)
    BY DEF Prune, HasRoom
  <1>2. PICK rows, whole, lim, entries, bytes :
          /\ rows = draft /\ whole = Base(p) /\ lim = limits[p]
          /\ entries = Reserved(p).entries /\ bytes = Reserved(p).bytes
    OBVIOUS
  <1>3. p # Free
    BY CacheAssumption
  <1>4. Pruned(rows, whole, lim, entries, bytes)
    BY <1>1, <1>2, <1>3 DEF CacheInv, DraftPruned
  <1>5. Pruned(rows \ Oldest(rows), whole, lim, entries, bytes)
    BY <1>1, <1>2, <1>4, PruneKeeps
  <1>6. /\ draft' = rows \ Oldest(rows) /\ Base(p)' = whole /\ limits'[p] = lim
        /\ Reserved(p)' = Reserved(p)
    BY <1>1, <1>2 DEF Base, Reserved
  <1>7. DraftPruned'
    BY <1>1, <1>2, <1>5, <1>6 DEF DraftPruned, Base, Reserved
  <1>8. QED
    BY <1>1, <1>7, TableKept DEF CacheInv

\* The committed table of an opened store is the trimmed queue.
LEMMA CommitOpenStep ==
  ASSUME CacheInv, NEW p \in Processes, CommitOpen(p)
  PROVE  Listed' /\ DraftPruned' /\ Fifo!Open
  <1>1. /\ pc[p] = "opening" /\ writer = p /\ writer' = Free /\ table' = draft
        /\ Fits(draft, limits[p], Reserved(p).entries, Reserved(p).bytes)
    BY DEF CommitOpen, CommitDraft, HasRoom
  <1>2. Reserved(p).entries = 0 /\ Reserved(p).bytes = 0 /\ Base(p) = table
    BY <1>1 DEF Reserved, Base
  <1>3. p # Free /\ limits[p] \in Limits
    BY <1>1, CacheAssumption DEF CacheInv, CacheTypeOK
  <1>4. PICK rows, whole, lim : rows = draft /\ whole = table /\ lim = limits[p]
    OBVIOUS
  <1>5. Pruned(rows, whole, lim, 0, 0)
    BY <1>1, <1>2, <1>3, <1>4 DEF CacheInv, DraftPruned
  <1>6. Fits(rows, lim, 0, 0)
    BY <1>1, <1>2, <1>4
  <1>7. (\E h : Lists(h, rows)) /\ Fifo!IsTrimmed(QueueOf(whole), QueueOf(rows), lim, 0, 0)
    BY <1>5, <1>6, CommitTrims
  <1>8. Listed'
    BY <1>1, <1>4, <1>7 DEF Listed
  <1>9. QueueOf(table)' = QueueOf(rows)
    BY <1>1, <1>4
  <1>10. Fifo!Open
    BY <1>3, <1>4, <1>7, <1>9 DEF Fifo!Open
  <1>11. DraftPruned'
    BY <1>1 DEF DraftPruned
  <1>12. QED
    BY <1>8, <1>10, <1>11

\* A put that commits puts, all at once.
LEMMA CommitPutStep ==
  ASSUME CacheInv, NEW p \in Processes, CommitPut(p)
  PROVE  Listed' /\ DraftPruned' /\ \E k \in Keys, s \in Sizes : Fifo!Put(k, s)
  <1>1. /\ pc[p] = "replacing" /\ writer = p /\ writer' = Free
        /\ table' = draft \cup {Row(draft, request[p])}
        /\ Fits(draft, limits[p], Reserved(p).entries, Reserved(p).bytes)
    BY DEF CommitPut, CommitDraft, HasRoom
  <1>2. p # Free /\ limits[p] \in Limits /\ request[p].key \in Keys /\ request[p].size \in Sizes
    BY <1>1, CacheAssumption DEF CacheInv, CacheTypeOK
  <1>3. PICK rows, lim, key, size, row :
          /\ rows = draft /\ lim = limits[p] /\ key = request[p].key
          /\ size = request[p].size /\ row = Row(draft, request[p])
    OBVIOUS
  <1>4. PICK whole : whole = table \ WithKey(table, key)
    OBVIOUS
  <1>5. Reserved(p).entries = 1 /\ Reserved(p).bytes = size /\ Base(p) = whole
    BY <1>1, <1>3, <1>4 DEF Reserved, Base
  <1>6. Pruned(rows, whole, lim, 1, size)
    BY <1>1, <1>2, <1>3, <1>5 DEF CacheInv, DraftPruned
  <1>7. Fits(rows, lim, 1, size)
    BY <1>1, <1>3, <1>5
  <1>8. PICK q, t : q = QueueOf(whole) /\ t = QueueOf(rows)
    OBVIOUS
  <1>9. /\ \E h : Lists(h, rows)
        /\ \E n \in 0 .. Len(q) : t = Fifo!Younger(q, n)
        /\ Fifo!IsTrimmed(q, t, lim, 1, size)
        /\ \A r \in rows : r \in whole
    BY <1>6, <1>7, <1>8, CommitTrims
  <1>10. PICK g : Lists(g, table)
    BY DEF CacheInv, Listed
  <1>11. q = Fifo!Without(QueueOf(table), key) /\ Len(q) <= Len(QueueOf(table))
    BY <1>4, <1>8, <1>10, WithoutKey
  <1>12. PICK h : Lists(h, rows)
    BY <1>9
  <1>13. ComesLast(row, h)
    <2>1. /\ row.key = key /\ row.size = size /\ row.good = TRUE
          /\ row.sequence = NextSequence(rows)
      BY <1>3 DEF Row
    <2>2. row = [key |-> key, size |-> size, good |-> TRUE, sequence |-> NextSequence(rows)]
      BY <1>3 DEF Row
    <2>3. NextSequence(rows) \in Nat /\ \A i \in 1 .. Len(h) : h[i].sequence < NextSequence(rows)
      BY <1>12, NextIsLast
    <2>4. row \in Rows
      BY <1>2, <1>3, <2>2, <2>3 DEF Rows
    <2>5. \A i \in 1 .. Len(h) : h[i] \in rows
      BY <1>12, ListFacts
    <2>6. \A r \in rows : r.key # key
      BY <1>4, <1>9 DEF WithKey
    <2>7. QED
      BY <2>1, <2>3, <2>4, <2>5, <2>6 DEF ComesLast
  <1>14. /\ Lists(Append(h, row), rows \cup {row})
         /\ Entries(Append(h, row)) = Append(Entries(h), Entry(row))
    BY <1>12, <1>13, AppendLists
  <1>15. QueueOf(rows \cup {row}) = Append(t, Entry(row))
    <2>1. PICK l : l = Append(h, row)
      OBVIOUS
    <2>2. Lists(l, rows \cup {row}) /\ Entries(l) = Append(Entries(h), Entry(row))
      BY <1>14, <2>1
    <2>3. QueueOf(rows \cup {row}) = Entries(l) /\ t = Entries(h)
      BY <1>8, <1>12, <2>2, QueueIs
    <2>4. QED
      BY <2>2, <2>3
  <1>16. Listed'
    <2>1. PICK l : Lists(l, rows \cup {row})
      BY <1>14
    <2>2. table' = rows \cup {row}
      BY <1>1, <1>3
    <2>3. QED
      BY <2>1, <2>2 DEF Listed
  <1>17. Entry(row) = [key |-> key, size |-> size, good |-> TRUE]
    <2>1. row = [key |-> key, size |-> size, good |-> TRUE, sequence |-> NextSequence(rows)]
      BY <1>3 DEF Row
    <2>2. QED
      BY <2>1 DEF Entry
  <1>18. Fifo!Put(key, size)
    <2>1. PICK n \in 0 .. Len(q) : t = Fifo!Younger(q, n)
      BY <1>9
    <2>2. n \in 0 .. Len(QueueOf(table))
      <3>1. PICK a, b : a = Len(q) /\ b = Len(QueueOf(table))
        OBVIOUS
      <3>2. a \in Nat /\ b \in Nat
        <4>1. /\ g \in Seq(Rows) /\ QueueOf(table) = Entries(g) /\ Len(g) \in Nat
          BY <1>10, ListFacts, QueueIs
        <4>2. b = Len(g)
          BY <3>1, <4>1, EntriesFacts
        <4>3. PICK f : Lists(f, whole)
          BY <1>4, <1>10, WithoutKey
        <4>4. f \in Seq(Rows) /\ Len(f) \in Nat /\ q = Entries(f)
          BY <1>8, <4>3, ListFacts, QueueIs
        <4>5. a = Len(f)
          BY <3>1, <4>4, EntriesFacts
        <4>6. QED
          BY <4>1, <4>2, <4>4, <4>5
      <3>3. a <= b /\ n \in 0 .. a
        BY <1>11, <2>1, <3>1
      <3>4. n \in 0 .. b
        BY <3>2, <3>3
      <3>5. QED
        BY <3>1, <3>4
    <2>3. QueueOf(table)' = Append(t, Entry(row))
      BY <1>1, <1>3, <1>15
    <2>4. PICK e : e = Entry(row)
      OBVIOUS
    <2>5. e = [key |-> key, size |-> size, good |-> TRUE]
      BY <1>17, <2>4
    <2>6. Fifo!Younger(Fifo!Without(QueueOf(table), key), n) = t
      BY <1>11, <2>1
    <2>7. Fifo!IsTrimmed(Fifo!Without(QueueOf(table), key), t, lim, 1, size)
      BY <1>9, <1>11
    <2>8. lim \in Limits
      BY <1>2, <1>3
    <2>9. QED
      BY <2>2, <2>3, <2>4, <2>5, <2>6, <2>7, <2>8 DEF Fifo!Put
  <1>19. DraftPruned'
    BY <1>1 DEF DraftPruned
  <1>20. QED
    BY <1>2, <1>3, <1>16, <1>18, <1>19

\* A row is deleted at a lookup only because of what it is.
LEMMA DiscardStep ==
  ASSUME CacheInv, NEW p \in Processes, DiscardUnusable(p)
  PROVE  Listed' /\ DraftPruned' /\ \E k \in Keys : Fifo!Discard(k)
  <1>1. PICK key : key = request[p].key
    OBVIOUS
  <1>2. /\ pc[p] = "ready" /\ writer = Free /\ writer' = Free
        /\ key \in Keys /\ limits[p] \in Limits
    BY <1>1 DEF DiscardUnusable, CacheInv, CacheTypeOK
  <1>3. PICK r \in WithKey(table, key) : ~Usable(p, r) /\ table' = table \ {r}
    BY <1>1 DEF DiscardUnusable
  <1>4. PICK g : Lists(g, table)
    BY DEF CacheInv, Listed
  <1>5. PICK n : n = Len(g)
    OBVIOUS
  <1>6. /\ g \in Seq(Rows) /\ n \in Nat /\ DOMAIN g = 1 .. n /\ table = RowsOf(g)
        /\ \A i \in 1 .. n : g[i].size \in Nat
    BY <1>4, <1>5, ListFacts
  <1>7. PICK i \in 1 .. n : g[i] = r
    BY <1>3, <1>6 DEF RowsOf, WithKey
  <1>8. r.key = key
    BY <1>3 DEF WithKey
  <1>9. WithKey(table, key) = {r}
    BY <1>4, <1>5, <1>7, <1>8, KeyIsUnique
  <1>10. table' = table \ WithKey(table, key)
    BY <1>3, <1>9
  <1>11. PICK rows : rows = table \ WithKey(table, key)
    OBVIOUS
  <1>12. (\E h : Lists(h, rows)) /\ QueueOf(rows) = Fifo!Without(QueueOf(table), key)
    BY <1>4, <1>11, WithoutKey
  <1>13. Listed'
    BY <1>10, <1>11, <1>12 DEF Listed
  <1>14. QueueOf(table)' = Fifo!Without(QueueOf(table), key)
    BY <1>10, <1>11, <1>12
  <1>15. PICK q : q = QueueOf(table)
    OBVIOUS
  <1>16. DOMAIN q = 1 .. n /\ q[i] = Entry(r)
    <2>1. q = Entries(g)
      BY <1>4, <1>15, QueueIs
    <2>2. DOMAIN Entries(g) = 1 .. n /\ Entries(g)[i] = Entry(g[i])
      BY <1>5, <1>6, EntriesFacts
    <2>3. QED
      BY <1>7, <2>1, <2>2
  <1>17. q[i].key = key /\ q[i].size = r.size /\ (q[i].good <=> r.good)
    BY <1>8, <1>16 DEF Entry
  <1>18. ~r.good \/ \E lim \in Limits : r.size > lim.bytes
    <2>1. r.size \in Nat /\ limits[p].bytes \in Nat
      BY <1>2, <1>6, <1>7, CacheAssumption
    <2>2. ~(r.size <= limits[p].bytes) \/ ~r.good
      BY <1>3 DEF Usable
    <2>3. CASE ~(r.size <= limits[p].bytes)
      <3>1. r.size > limits[p].bytes
        BY <2>1, <2>3
      <3>2. QED
        BY <1>2, <3>1
    <2>4. QED
      BY <2>2, <2>3
  <1>19. Fifo!Discard(key)
    <2>1. CASE ~r.good
      <3>1. ~q[i].good
        BY <1>17, <2>1
      <3>2. QED
        BY <1>14, <1>15, <1>16, <1>17, <3>1 DEF Fifo!Discard
    <2>2. CASE \E lim \in Limits : r.size > lim.bytes
      <3>1. \E lim \in Limits : q[i].size > lim.bytes
        BY <1>17, <2>2
      <3>2. QED
        BY <1>14, <1>15, <1>16, <1>17, <3>1 DEF Fifo!Discard
    <2>3. QED
      BY <1>18, <2>1, <2>2
  <1>20. DraftPruned'
    BY <1>2 DEF DraftPruned
  <1>21. QED
    BY <1>2, <1>13, <1>19, <1>20

\* Everything is cleared at once.
LEMMA ClearStep ==
  ASSUME CacheInv, NEW p \in Processes, Clear(p)
  PROVE  Listed' /\ DraftPruned' /\ Fifo!Clear
  <1>1. table' = {} /\ writer' = Free
    BY DEF Clear
  <1>2. PICK g : g = <<>>
    OBVIOUS
  <1>3. g \in Seq(Rows) /\ DOMAIN g = {} /\ Len(g) = 0
    BY <1>2
  <1>4. Lists(g, {})
    BY <1>3 DEF Lists, Grows
  <1>5. QueueOf({}) = Entries(g)
    BY <1>4, QueueIs
  <1>6. Entries(g) = <<>>
    BY <1>3 DEF Entries
  <1>7. QueueOf(table)' = QueueOf({})
    BY <1>1
  <1>8. Listed'
    BY <1>1, <1>4 DEF Listed
  <1>9. QED
    BY <1>1, <1>5, <1>6, <1>7, <1>8 DEF DraftPruned, Fifo!Clear

\* A damaged row is the damaged entry.
LEMMA DamageStep ==
  ASSUME CacheInv, NEW r \in table, Damage(r)
  PROVE  Listed' /\ DraftPruned' /\ \E i \in DOMAIN QueueOf(table) : Fifo!Damage(i)
  <1>1. writer' = Free /\ table' = (table \ {r}) \cup {Damaged(r)}
    BY DEF Damage, Damaged
  <1>2. PICK g : Lists(g, table)
    BY DEF CacheInv, Listed
  <1>3. table = RowsOf(g) /\ DOMAIN g = 1 .. Len(g)
    BY <1>2, ListFacts
  <1>4. PICK k \in 1 .. Len(g) : g[k] = r
    BY <1>3 DEF RowsOf
  <1>5. PICK rows : rows = (table \ {g[k]}) \cup {Damaged(g[k])}
    OBVIOUS
  <1>6. /\ \E h : Lists(h, rows)
        /\ k \in DOMAIN QueueOf(table)
        /\ QueueOf(rows) = [QueueOf(table) EXCEPT ![k].good = FALSE]
    BY <1>2, <1>5, DamageLists
  <1>7. table' = rows
    BY <1>1, <1>4, <1>5
  <1>8. QueueOf(table)' = QueueOf(rows)
    BY <1>7
  <1>9. Listed'
    BY <1>6, <1>7 DEF Listed
  <1>10. Fifo!Damage(k)
    BY <1>6, <1>8 DEF Fifo!Damage
  <1>11. QED
    BY <1>1, <1>6, <1>9, <1>10 DEF DraftPruned

\* A process that leaves takes its draft with it; the others keep theirs.
LEMMA LeaveStep ==
  ASSUME CacheInv, NEW p \in Processes, Hit(p) \/ Miss(p) \/ Abandon(p)
  PROVE  Listed' /\ DraftPruned' /\ QueueKept
  <1>1. table' = table
    BY DEF Hit, Miss, Abandon, RollsBack
  <1>2. CASE writer = Free
    <2>1. writer' = Free
      BY <1>2, CacheAssumption DEF Hit, Miss, Abandon
    <2>2. QED
      BY <1>1, <2>1, TableKept DEF CacheInv, DraftPruned
  <1>3. CASE writer = p
    <2>1. pc[p] \in {"opening", "replacing"}
      BY <1>3 DEF CacheInv, Locked
    <2>2. Abandon(p)
      BY <2>1 DEF Hit, Miss
    <2>3. writer' = Free
      BY <1>3, <2>2 DEF Abandon
    <2>4. QED
      BY <1>1, <2>3, TableKept DEF CacheInv, DraftPruned
  <1>4. CASE writer # Free /\ writer # p
    <2>1. writer \in Processes
      BY <1>4 DEF CacheInv, CacheTypeOK
    <2>2. draft' = draft /\ writer' = writer
      BY <1>4 DEF Hit, Miss, Abandon
    <2>3. /\ pc'[writer] = pc[writer] /\ limits'[writer] = limits[writer]
          /\ request'[writer] = request[writer]
      BY <1>4, <2>1 DEF Hit, Miss, Abandon, Close, CacheInv, CacheTypeOK
    <2>4. DraftPruned'
      BY <1>1, <2>2, <2>3, DraftKept DEF CacheInv
    <2>5. QED
      BY <1>1, <2>4, TableKept DEF CacheInv
  <1>5. QED
    BY <1>2, <1>3, <1>4

-----------------------------------------------------------------------------
(* The theorems *)

LEMMA CacheStep ==
  ASSUME CacheInv, [Next]_vars
  PROVE  Listed' /\ DraftPruned' /\ (Fifo!Next \/ QueueKept)
  <1>1. ASSUME NEW p \in Processes, NEW s \in Sizes, BeginPut(p, s)
        PROVE  Listed' /\ DraftPruned' /\ QueueKept
    BY <1>1, BeginPutStep
  <1>2. ASSUME NEW p \in Processes, CommitOpen(p)
        PROVE  Listed' /\ DraftPruned' /\ Fifo!Next
    BY <1>2, CommitOpenStep DEF Fifo!Next
  <1>3. ASSUME NEW p \in Processes, CommitPut(p)
        PROVE  Listed' /\ DraftPruned' /\ Fifo!Next
    BY <1>3, CommitPutStep DEF Fifo!Next
  <1>4. ASSUME NEW p \in Processes, DiscardUnusable(p)
        PROVE  Listed' /\ DraftPruned' /\ Fifo!Next
    BY <1>4, DiscardStep DEF Fifo!Next
  <1>5. ASSUME NEW p \in Processes, Clear(p)
        PROVE  Listed' /\ DraftPruned' /\ Fifo!Next
    BY <1>5, ClearStep DEF Fifo!Next
  <1>6. ASSUME NEW r \in table, Damage(r)
        PROVE  Listed' /\ DraftPruned' /\ Fifo!Next
    BY <1>6, DamageStep DEF Fifo!Next
  <1>7. ASSUME UNCHANGED vars
        PROVE  Listed' /\ DraftPruned' /\ QueueKept
    <2>1. /\ table' = table /\ draft' = draft /\ writer' = writer
          /\ pc' = pc /\ limits' = limits /\ request' = request
      BY <1>7 DEF vars
    <2>2. DraftPruned'
      BY <2>1, DraftKept DEF CacheInv
    <2>3. QED
      BY <2>1, <2>2, TableKept DEF CacheInv
  <1>8. QED
    BY <1>1, <1>2, <1>3, <1>4, <1>5, <1>6, <1>7, BeginOpenStep, PruneStep, LeaveStep DEF Next

LEMMA CacheBegins ==
  ASSUME Init
  PROVE  CacheInv /\ Fifo!Init
  <1>1. /\ table = {} /\ writer = Free /\ pc = [p \in Processes |-> "idle"]
        /\ limits = [p \in Processes |-> NoStore] /\ request = [p \in Processes |-> NoRequest]
    BY DEF Init
  <1>2. CacheTypeOK /\ Locked
    BY <1>1, CacheAssumption DEF CacheTypeOK, Locked, NoRequest
  <1>3. PICK g : g = <<>>
    OBVIOUS
  <1>4. g \in Seq(Rows) /\ DOMAIN g = {} /\ Len(g) = 0
    BY <1>3
  <1>5. Lists(g, table)
    BY <1>1, <1>4 DEF Lists, Grows
  <1>6. QueueOf(table) = Entries(g)
    BY <1>5, QueueIs
  <1>7. Entries(g) = <<>>
    BY <1>4 DEF Entries
  <1>8. Fifo!Init
    BY <1>6, <1>7 DEF Fifo!Init
  <1>9. QED
    BY <1>1, <1>2, <1>5, <1>8 DEF CacheInv, Listed, DraftPruned

\* The database is held by the process in a transaction; no two rows share a key
\* or a sequence number; and a draft is short of nothing but its oldest rows, none
\* of them more than its limits demanded (cache.rs:140-204).
THEOREM CacheInvariant == Spec => []CacheInv
  <1>1. CacheInv /\ [Next]_vars => CacheInv'
    BY LockStep, CacheStep DEF CacheInv
  <1>2. QED
    BY <1>1, CacheBegins, PTL DEF Spec

\* The safety half of StoreServesFifo: whatever processes do in their transactions
\* and wherever they stop, to readers each step is one of a bounded queue, or none
\* (cache.rs:66-204).
THEOREM CacheImplementsFifo == Spec => ImplementsFifo
  <1>1. CacheInv /\ [Next]_vars => [Fifo!Next]_(QueueOf(table))
    BY CacheStep DEF QueueKept
  <1>2. QED
    BY <1>1, CacheBegins, CacheInvariant, PTL DEF Spec, ImplementsFifo, Fifo!Spec
=============================================================================
