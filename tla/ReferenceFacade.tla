---------------------------- MODULE ReferenceFacade ----------------------------
(***************************************************************************)
(* What the archived reranker changes in its own modules while it works:   *)
(* the facade archive/anagram_rerank.py and the scoped adapters of         *)
(* archive/anagram_performance.py.                                         *)
(*                                                                         *)
(* Several threads of one process call the facade, a deep analysis has     *)
(* worker threads of its own, and a thread may call the core directly      *)
(* meanwhile.  The names of the core module, the width of the deep         *)
(* analysis and the table of retained orders belong to the process; the    *)
(* wish for corpus cohesion belongs to a thread's context.                 *)
(***************************************************************************)
EXTENDS Integers, Sequences, FiniteSets

CONSTANTS
    Callers,            \* threads that call the facade or the core
    Workers,            \* threads of a deep analysis
    Nobody,             \* no thread
    DefaultWidth,       \* DEFAULT_ORDER_CANDIDATES
    MainWidth,          \* --order-candidates of the command line
    RawWidth(_),        \* raw_pool_size
    MaxCalls            \* bound: calls begun

ASSUME FacadeShape ==
    /\ IsFiniteSet(Callers \cup Workers)
    /\ Nobody \notin Callers \cup Workers /\ Callers \cap Workers = {}
    /\ {DefaultWidth, MainWidth} \subseteq Nat /\ MaxCalls \in Nat

Threads == Callers \cup Workers

VARIABLES
    at,             \* thread -> where it is in its call
    hooks,          \* depth, restore and what the core's names are bound to
    cohesion,       \* thread -> _COHESION_ACTIVE in its context
    tokens,         \* thread -> values to reset it to, innermost first
    pairGrammar,    \* whose cache core.pair_grammar consults: Nobody's or a thread's
    locks,          \* holders of _PREPARE_LOCK and _DEEP_ANALYZE_LOCK
    width,          \* _ORDER_CANDIDATE_COUNT
    kept,           \* thread -> the width its analysis or its main is to restore
    work,           \* worker -> the call and the width it is given
    sideTable,          \* retained orders: whose, of which width, diversified or not
    main,           \* the thread in main, with core names overridden
    used,           \* thread -> what its last inner call was given
    calls

facadeVars == <<at, hooks, cohesion, tokens, pairGrammar, locks, width, kept, work,
                sideTable, main, used, calls>>

NoUse == [pairs |-> Nobody, cohesive |-> FALSE, inside |-> TRUE]
NoWork == [for |-> Nobody, width |-> 0, failed |-> FALSE]

FacadeInit ==
    /\ at = [t \in Threads |-> "idle"]
    /\ hooks = [depth |-> 0, restore |-> "none", bound |-> "core"]
    /\ cohesion = [t \in Threads |-> FALSE] /\ tokens = [t \in Threads |-> <<>>]
    /\ pairGrammar = Nobody /\ locks = [prepare |-> Nobody, deep |-> Nobody]
    /\ width = DefaultWidth /\ kept = [t \in Threads |-> <<>>]
    /\ work = [w \in Workers |-> NoWork]
    /\ sideTable = {} /\ main = Nobody
    /\ used = [t \in Threads |-> NoUse] /\ calls = 0

-----------------------------------------------------------------------------
(* performance_hooks                                                       *)

EnterHooks(t) ==
    /\ cohesion' = [cohesion EXCEPT ![t] = TRUE]
    /\ tokens' = [tokens EXCEPT ![t] = <<cohesion[t]>> \o @]
    /\ hooks' = IF hooks.depth = 0
                THEN [depth |-> 1, restore |-> hooks.bound, bound |-> "fast"]
                ELSE [hooks EXCEPT !.depth = @ + 1]

Restored(h) == [depth |-> h.depth - 1, restore |-> "none", bound |-> h.restore]
AlwaysRestored(h) ==
    IF h.restore = "none" THEN [h EXCEPT !.depth = @ - 1] ELSE Restored(h)
OneOut(h) == IF h.depth = 1 THEN Restored(h) ELSE [h EXCEPT !.depth = @ - 1]

LeaveHooks(t) ==
    /\ cohesion' = [cohesion EXCEPT ![t] = Head(tokens[t])]
    /\ tokens' = [tokens EXCEPT ![t] = Tail(@)]
    /\ hooks' = OneOut(hooks)

KeepHooks == UNCHANGED <<cohesion, tokens, hooks>>

Go(t, from, to) == at[t] = from /\ at' = [at EXCEPT ![t] = to]

\* A call begins in an idle thread; another thread's main has a process of its own.
BeginCall(t, to) ==
    /\ Go(t, "idle", to)
    /\ main \in {Nobody, t} /\ calls < MaxCalls
    /\ calls' = calls + 1

-----------------------------------------------------------------------------
(* Inner calls                                                             *)

\* core.pair_grammar while a preparation has replaced it.
CachedPairGrammar(t) == IF pairGrammar = t THEN t ELSE Nobody

\* The score of a phrase index that the names of the core have given.
CohesionActive(t) == hooks.bound = "fast" /\ cohesion[t]

Use(t) ==
    used' = [used EXCEPT ![t] = [pairs |-> CachedPairGrammar(t), cohesive |-> CohesionActive(t),
                                 inside |-> tokens[t] # <<>>]]

\* A thread that knows nothing of the facade uses the core.
CallCore(t) ==
    /\ at[t] = "idle" /\ main = Nobody
    /\ Use(t)
    /\ UNCHANGED <<at, hooks, cohesion, tokens, pairGrammar, locks, width, kept, work,
                   sideTable, main, calls>>

-----------------------------------------------------------------------------
(* rank_orders, phrase_structure and the other scoped helpers              *)

BeginRank(t) ==
    /\ BeginCall(t, "ranking") /\ EnterHooks(t)
    /\ UNCHANGED <<pairGrammar, locks, width, kept, work, sideTable, main, used>>

\* It returns or raises; either way the hooks are left.
EndRank(t) ==
    /\ Go(t, "ranking", "idle") /\ Use(t) /\ LeaveHooks(t)
    /\ UNCHANGED <<pairGrammar, locks, width, kept, work, sideTable, main, calls>>

-----------------------------------------------------------------------------
(* prepare_rows                                                            *)

BeginPrepare(t) ==
    /\ locks.prepare = Nobody
    /\ BeginCall(t, "prepare") /\ EnterHooks(t)
    /\ locks' = [locks EXCEPT !.prepare = t]
    /\ UNCHANGED <<pairGrammar, width, kept, work, sideTable, main, used>>

PatchPairs(t) ==
    /\ Go(t, "prepare", "prepareRows")
    /\ pairGrammar' = t
    /\ KeepHooks
    /\ UNCHANGED <<locks, width, kept, work, sideTable, main, used, calls>>

\* Rows are prepared, or one of them fails; the name is restored.
UnpatchPairs(t) ==
    /\ Go(t, "prepareRows", "prepared") /\ Use(t)
    /\ pairGrammar' = Nobody
    /\ KeepHooks
    /\ UNCHANGED <<locks, width, kept, work, sideTable, main, calls>>

EndPrepare(t) ==
    /\ Go(t, "prepared", "idle") /\ LeaveHooks(t)
    /\ locks' = [locks EXCEPT !.prepare = Nobody]
    /\ UNCHANGED <<pairGrammar, width, kept, work, sideTable, main, used, calls>>

-----------------------------------------------------------------------------
(* deep_analyze                                                            *)

DeepNeedsNoLock(t) == TRUE
DeepIsFree(t) == locks.deep = Nobody

BeginDeep(t) ==
    /\ DeepIsFree(t)
    /\ BeginCall(t, "deep") /\ EnterHooks(t)
    /\ locks' = [locks EXCEPT !.deep = t]
    /\ UNCHANGED <<pairGrammar, width, kept, work, sideTable, main, used>>

Widen(t) ==
    /\ Go(t, "deep", "widened")
    /\ kept' = [kept EXCEPT ![t] = <<width>> \o @]
    /\ width' = RawWidth(width)
    /\ KeepHooks
    /\ UNCHANGED <<pairGrammar, locks, work, sideTable, main, used, calls>>

\* Every pool in the table is replaced by the diverse part that is retained.
Diversified(entries, retained) ==
    {[e EXCEPT !.width = IF @ < retained THEN @ ELSE retained] : e \in entries}

AnalysedPool(t) == [for |-> t, width |-> width]

\* The serial backend ranks in the calling thread; with nothing selected not
\* even the table is emptied.
AnalyseHere(t, selected) ==
    /\ Go(t, "widened", "narrow") /\ Use(t)
    /\ sideTable' = Diversified(IF selected THEN {AnalysedPool(t)} ELSE sideTable, Head(kept[t]))
    /\ KeepHooks
    /\ UNCHANGED <<pairGrammar, locks, width, kept, work, main, calls>>

\* The table is emptied and the workers are given the width of the moment.
Submit(t) ==
    /\ Go(t, "widened", "collecting")
    /\ sideTable' = {}
    /\ work' = [w \in Workers |-> [NoWork EXCEPT !.for = t, !.width = width]]
    /\ KeepHooks
    /\ UNCHANGED <<pairGrammar, locks, width, kept, main, used, calls>>

BeginBatch(w) ==
    /\ Go(w, "idle", "analysing") /\ work[w].for # Nobody
    /\ EnterHooks(w)
    /\ UNCHANGED <<pairGrammar, locks, width, kept, work, sideTable, main, used, calls>>

\* The worker retains a pool of the width it was given; once one has failed
\* the results of the others are dropped.
EndWorkerBatch(w, failed) ==
    /\ Go(w, "analysing", "idle") /\ Use(w) /\ LeaveHooks(w)
    /\ sideTable' = IF failed \/ \E v \in Workers : work[v].failed THEN sideTable
                ELSE sideTable \cup {[for |-> work[w].for, width |-> work[w].width]}
    /\ work' = [work EXCEPT ![w] = [NoWork EXCEPT !.failed = failed]]
    /\ UNCHANGED <<pairGrammar, locks, width, kept, main, calls>>

\* A failure is raised here, when all workers have ended: no diversification.
Collect(t) ==
    /\ Go(t, "collecting", "narrow")
    /\ \A w \in Workers : work[w].for # t
    /\ sideTable' = IF \E w \in Workers : work[w].failed THEN sideTable
                ELSE Diversified(sideTable, Head(kept[t]))
    /\ work' = [w \in Workers |-> NoWork]
    /\ KeepHooks
    /\ UNCHANGED <<pairGrammar, locks, width, kept, main, used, calls>>

Narrowed(t) == Head(kept[t])

EndDeep(t) ==
    /\ Go(t, "narrow", "idle") /\ LeaveHooks(t)
    /\ width' = Narrowed(t)
    /\ kept' = [kept EXCEPT ![t] = Tail(@)]
    /\ locks' = [locks EXCEPT !.deep = Nobody]
    /\ UNCHANGED <<pairGrammar, work, sideTable, main, used, calls>>

-----------------------------------------------------------------------------
(* apply_phrase_rescore                                                    *)

BeginRescore(t) ==
    /\ BeginCall(t, "rescoring") /\ EnterHooks(t)
    /\ UNCHANGED <<pairGrammar, locks, width, kept, work, sideTable, main, used>>

EndRescore(t) ==
    /\ Go(t, "rescoring", "rescored") /\ Use(t) /\ LeaveHooks(t)
    /\ UNCHANGED <<pairGrammar, locks, width, kept, work, sideTable, main, calls>>

\* _clear_order_side_tables, whoever's they are.
ClearTables(t) ==
    /\ Go(t, "rescored", "idle")
    /\ sideTable' = {}
    /\ KeepHooks
    /\ UNCHANGED <<pairGrammar, locks, width, kept, work, main, used, calls>>

-----------------------------------------------------------------------------
(* main: the command line, in a process of its own                         *)

BeginMain(t) ==
    /\ \A u \in Threads : at[u] = "idle"
    /\ main = Nobody /\ calls = 0
    /\ main' = t /\ calls' = calls + 1
    /\ kept' = [kept EXCEPT ![t] = <<width>>]
    /\ width' = MainWidth
    /\ EnterHooks(t)
    /\ UNCHANGED <<at, pairGrammar, locks, work, sideTable, used>>

EndMain(t) ==
    /\ main = t /\ at[t] = "idle"
    /\ LeaveHooks(t)
    /\ width' = Head(kept[t])
    /\ kept' = [kept EXCEPT ![t] = Tail(@)]
    /\ main' = Nobody /\ sideTable' = {}
    /\ UNCHANGED <<at, pairGrammar, locks, work, used, calls>>

FacadeNext ==
    \/ \E t \in Callers :
        \/ CallCore(t) \/ BeginRank(t) \/ EndRank(t)
        \/ BeginPrepare(t) \/ PatchPairs(t) \/ UnpatchPairs(t) \/ EndPrepare(t)
        \/ BeginDeep(t) \/ Widen(t) \/ Submit(t) \/ EndDeep(t)
        \/ \E selected \in BOOLEAN : AnalyseHere(t, selected)
        \/ Collect(t)
        \/ BeginRescore(t) \/ EndRescore(t) \/ ClearTables(t)
        \/ BeginMain(t) \/ EndMain(t)
    \/ \E w \in Workers : BeginBatch(w) \/ \E failed \in BOOLEAN : EndWorkerBatch(w, failed)

FacadeSpec == FacadeInit /\ [][FacadeNext]_facadeVars

-----------------------------------------------------------------------------
(* Properties                                                              *)

\* The scoped changes are balanced over all threads: while anyone is inside the
\* adapters are installed, when the last one leaves the core has its own names
\* back, and a width or a cached pair grammar outlives neither the call that
\* installed it nor a failure in it ("importing anagram_rerank remains
\* side-effect free", "the original value is always restored",
\* anagram_rerank.py:48, :484).
FacadeLeavesNoTrace ==
    /\ (hooks.bound = "fast") <=> \E t \in Threads : tokens[t] # <<>>
    /\ (\A t \in Callers : at[t] \notin {"prepareRows"}) => pairGrammar = Nobody
    /\ (\A t \in Callers : at[t] \notin {"widened", "collecting", "narrow"}) =>
            width = IF main = Nobody THEN DefaultWidth ELSE MainWidth

\* No thread gets what another asked for: a caller of the core keeps its scores
\* and its pair grammar whoever is inside the facade, and the orders that an
\* analysis leaves are never wider than its pool, whoever analysed meanwhile
\* ("unrelated concurrent threads keep the original PhraseIndex.score
\* semantics", anagram_performance.py:218).
CallersDoNotMeet ==
    /\ \A t \in Threads : /\ used[t].cohesive = used[t].inside \/ used[t] = NoUse
                          /\ used[t].pairs \in {t, Nobody}
    /\ \A e \in sideTable : e.width \in
           LET own == IF main = Nobody THEN DefaultWidth ELSE MainWidth IN {own, RawWidth(own)}
=============================================================================
