----------------------------- MODULE ResultCache -----------------------------
(***************************************************************************)
(* The ranked-result cache (crates/anagram-core/src/cache.rs) as the solve *)
(* pipeline uses it (solve.rs): several processes, desktop and command     *)
(* line, share one SQLite table.                                           *)
(*                                                                         *)
(* A solve opens the store, looks its key up and, unless that hits,        *)
(* computes and puts its result.  Opening and putting are IMMEDIATE        *)
(* transactions of several statements: prune deletes the oldest row until  *)
(* the rest fits.  SQLite lets one process write at a time and, with a     *)
(* busy timeout of zero, tells every other one at once that it is busy;    *)
(* that and every other storage error, a cancellation, a deadline or the   *)
(* death of the process leave the table as it was last committed.          *)
(*                                                                         *)
(* A payload is known by its size: contents matter only through the digest *)
(* that tells a damaged row from a good one.                               *)
(***************************************************************************)
EXTENDS Naturals, FiniteSets, Functions, FiniteSetsExt

CONSTANTS
  Processes,
  Free,         \* the value of writer while no transaction is open
  Keys,         \* ranked_key of a request; ordered, as SQL orders text
  Sizes,        \* payload.len() of results
  Limits,       \* StorageLimits in use, one record for each configuration
  MaxSequence   \* bound: the largest sequence number a row gets

\* Store::open rejects limits of zero.
ASSUME CacheAssumption ==
  /\ Free \notin Processes
  /\ Keys \subseteq Nat
  /\ Sizes \subseteq Nat
  /\ Limits \subseteq [entries : Nat \ {0}, bytes : Nat \ {0}]
  /\ Limits # {}
  /\ MaxSequence \in Nat

VARIABLES
  table,   \* the committed rows
  writer,  \* the process in an IMMEDIATE transaction
  draft,   \* the rows its transaction sees
  pc,      \* where each process is in its solve
  limits,  \* the limits of the store each process has open
  request  \* key and, once computed, payload size of each process's solve

vars == <<table, writer, draft, pc, limits, request>>

NoRequest == [key |-> 0, size |-> 0]
NoStore == [entries |-> 0, bytes |-> 0]

Init ==
  /\ table = {}
  /\ writer = Free
  /\ draft = {}
  /\ pc = [p \in Processes |-> "idle"]
  /\ limits = [p \in Processes |-> NoStore]
  /\ request = [p \in Processes |-> NoRequest]

-----------------------------------------------------------------------------
(* The table *)

Bytes(rows) == SumFunction([r \in rows |-> r.size])

EntriesOnly(rows, lim, entries, bytes) == Cardinality(rows) + entries <= lim.entries

\* The condition on which prune stops.
Fits(rows, lim, entries, bytes) ==
  /\ Cardinality(rows) + entries <= lim.entries
  /\ Bytes(rows) + bytes <= lim.bytes

\* ORDER BY sequence, key
Before(r, s) ==
  \/ r.sequence < s.sequence
  \/ r.sequence = s.sequence /\ r.key < s.key

ByKey(rows) == {r \in rows : \A s \in rows : r.key <= s.key}

\* The row the DELETE of prune names (none of an empty table).
Oldest(rows) == {r \in rows : \A s \in rows \ {r} : Before(r, s)}

WithKey(rows, k) == {r \in rows : r.key = k}

CountPlusOne(rows) == Cardinality(rows) + 1

\* coalesce(max(sequence), 0) + 1
NextSequence(rows) ==
  IF rows = {} THEN 1 ELSE Max({r.sequence : r \in rows}) + 1

\* A row put for a process: what INSERT writes.
Row(rows, req) ==
  [key |-> req.key, size |-> req.size, good |-> TRUE,
   sequence |-> NextSequence(rows)]

-----------------------------------------------------------------------------
(* Transactions *)

Begin(p, rows) ==
  /\ writer = Free
  /\ writer' = p
  /\ draft' = rows

CommitDraft(p, rows) ==
  /\ writer = p
  /\ writer' = Free
  /\ table' = rows
  /\ draft' = {}

\* What the put in progress still has to make room for.
Reserved(p) ==
  IF pc[p] = "replacing" THEN [entries |-> 1, bytes |-> request[p].size]
  ELSE [entries |-> 0, bytes |-> 0]

HasRoom(p) == Fits(draft, limits[p], Reserved(p).entries, Reserved(p).bytes)

\* One turn of the loop in prune.
Prune(p) ==
  /\ writer = p
  /\ ~HasRoom(p)
  /\ draft' = draft \ Oldest(draft)
  /\ UNCHANGED <<table, writer, pc, limits, request>>

-----------------------------------------------------------------------------
(* A solve with the cache *)

\* Store::open with the limits of the current settings.
BeginOpen(p) ==
  /\ pc[p] = "idle"
  /\ Begin(p, table)
  /\ pc' = [pc EXCEPT ![p] = "opening"]
  /\ \E lim \in Limits : limits' = [limits EXCEPT ![p] = lim]
  /\ \E k \in Keys : request' = [request EXCEPT ![p] = [key |-> k, size |-> 0]]
  /\ UNCHANGED table

CommitOpen(p) ==
  /\ pc[p] = "opening"
  /\ HasRoom(p)
  /\ CommitDraft(p, draft)
  /\ pc' = [pc EXCEPT ![p] = "ready"]
  /\ UNCHANGED <<limits, request>>

\* The store goes out of scope.
Close(p) ==
  /\ pc' = [pc EXCEPT ![p] = "idle"]
  /\ limits' = [limits EXCEPT ![p] = NoStore]
  /\ request' = [request EXCEPT ![p] = NoRequest]

\* A row is used only if it is within this process's limit and its digest is
\* the one stored.
Usable(p, r) == r.size <= limits[p].bytes /\ r.good

\* Store::lookup.  Its transaction is one step: nobody sees the table between.
Hit(p) ==
  /\ pc[p] = "ready" /\ writer = Free
  /\ \E r \in WithKey(table, request[p].key) : Usable(p, r)
  /\ Close(p)
  /\ UNCHANGED <<table, writer, draft>>

DiscardUnusable(p) ==
  /\ pc[p] = "ready" /\ writer = Free
  /\ \E r \in WithKey(table, request[p].key) :
       /\ ~Usable(p, r)
       /\ table' = table \ {r}
  /\ pc' = [pc EXCEPT ![p] = "computing"]
  /\ UNCHANGED <<writer, draft, limits, request>>

\* No row, a rebuild, a busy database or another storage error: the solve
\* computes its result.
Miss(p) ==
  /\ pc[p] = "ready"
  /\ pc' = [pc EXCEPT ![p] = "computing"]
  /\ UNCHANGED <<table, writer, draft, limits, request>>

AnySize(p, s) == TRUE

\* put keeps no result larger than its limit.
Keepable(p, s) == s <= limits[p].bytes

\* Store::put: first the row with the same key goes.
\* MaxSequence bounds the model here.
BeginPut(p, s) ==
  /\ pc[p] = "computing"
  /\ Keepable(p, s)
  /\ NextSequence(table) <= MaxSequence
  /\ Begin(p, table \ WithKey(table, request[p].key))
  /\ pc' = [pc EXCEPT ![p] = "replacing"]
  /\ request' = [request EXCEPT ![p].size = s]
  /\ UNCHANGED <<table, limits>>

CommitPut(p) ==
  /\ pc[p] = "replacing"
  /\ HasRoom(p)
  /\ CommitDraft(p, draft \cup {Row(draft, request[p])})
  /\ Close(p)

HalfCommits == table' = IF writer = Free THEN table ELSE draft

\* Dropping a transaction rolls it back, and so does the next process to open
\* the file if this one died.
RollsBack == UNCHANGED table

\* The solve leaves the cache: an error in a transaction, an interruption, a
\* crash, or a result that is not kept.
Abandon(p) ==
  /\ pc[p] # "idle"
  /\ Close(p)
  /\ IF writer = p THEN /\ writer' = Free
                        /\ draft' = {}
                        /\ RollsBack
                   ELSE UNCHANGED <<table, writer, draft>>

\* Store::clear, by the desktop, right after open.
Clear(p) ==
  /\ pc[p] = "ready" /\ writer = Free
  /\ table' = {}
  /\ Close(p)
  /\ UNCHANGED <<writer, draft>>

\* Something outside the program damages a row.
Damage(r) ==
  /\ writer = Free
  /\ table' = (table \ {r}) \cup {[r EXCEPT !.good = FALSE]}
  /\ UNCHANGED <<writer, draft, pc, limits, request>>

-----------------------------------------------------------------------------
Next ==
  \/ \E p \in Processes :
       \/ BeginOpen(p) \/ CommitOpen(p) \/ Prune(p)
       \/ Hit(p) \/ DiscardUnusable(p) \/ Miss(p)
       \/ \E s \in Sizes : BeginPut(p, s)
       \/ CommitPut(p) \/ Abandon(p) \/ Clear(p)
  \/ \E r \in table : Damage(r)

Spec == Init /\ [][Next]_vars

\* A process in a transaction runs on, or dies, which is Abandon.
Fairness ==
  \A p \in Processes :
    WF_vars(Prune(p)) /\ WF_vars(CommitOpen(p)) /\ WF_vars(CommitPut(p))

FairSpec == Spec /\ Fairness
-----------------------------------------------------------------------------
(* Properties *)

\* No transaction prunes for ever: the database becomes free again.
TransactionsEnd == writer # Free ~> writer = Free
=============================================================================
