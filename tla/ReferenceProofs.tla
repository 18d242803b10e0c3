--------------------------- MODULE ReferenceProofs ---------------------------
(***************************************************************************)
(* Theorems about two components of the archived programs: the process-    *)
(* wide adapters of the reranker (ReferenceFacade) and the runs and caches *)
(* of the solver (ReferenceRuns).                                          *)
(*                                                                         *)
(* Adapters: the scoped changes of the reranker are balanced and private,  *)
(* for every number of threads, every width and every number of calls.     *)
(*                                                                         *)
(* Runs: however runs of the solver interleave, stop, replace the          *)
(* dictionary or meet what others left, a finished run shows its own       *)
(* ranking, and the files a later run takes without asking are what their  *)
(* names say.  The invariant says at which place of a run the shared files *)
(* are what the run relies on.  Two parts are not evident.  A policy with  *)
(* the stamps of the dictionary stands beside its augmented dictionary,    *)
(* which is why the order of the two writes matters and why a refresh,     *)
(* which may come at any time, does no harm outside a derivation.  And the *)
(* key of a ranking knows the corpora it was made from only because it is  *)
(* looked up file by file after the ranking.                               *)
(***************************************************************************)
EXTENDS ReferenceFacade, ReferenceRuns, FunctionSums

-----------------------------------------------------------------------------
(* The adapters of the reranker *)

Inside == {"ranking", "prepare", "prepareRows", "prepared", "deep", "widened", "collecting",
           "narrow", "rescoring", "analysing"}
Preparing == {"prepare", "prepareRows", "prepared"}
Wide == {"widened", "collecting", "narrow"}
Deep == {"deep"} \cup Wide
CallerPlaces == (Inside \cup {"idle", "rescored"}) \ {"analysing"}

\* The width the process works with when nobody has widened it.
Own == IF main = Nobody THEN DefaultWidth ELSE MainWidth

FacadeTypeOK ==
    /\ at \in [Threads -> CallerPlaces \cup {"analysing"}]
    /\ \A c \in Callers : at[c] \in CallerPlaces
    /\ \A w \in Workers : at[w] \in {"idle", "analysing"}
    /\ hooks \in [depth : Nat, restore : {"none", "core"}, bound : {"core", "fast"}]
    /\ cohesion \in [Threads -> BOOLEAN] /\ DOMAIN tokens = Threads
    /\ pairGrammar \in Threads \cup {Nobody}
    /\ locks \in [prepare : Callers \cup {Nobody}, deep : Callers \cup {Nobody}]
    /\ DOMAIN kept = Threads /\ DOMAIN work = Workers
    /\ main \in Callers \cup {Nobody}
    /\ DOMAIN used = Threads
    /\ calls \in Nat

\* How often a thread has entered the scoped adapters: once for its call and
\* once for main.
Depth(t) == (IF at[t] \in Inside THEN 1 ELSE 0) + (IF main = t THEN 1 ELSE 0)
TokensFor(n) == IF n = 0 THEN <<>> ELSE IF n = 1 THEN <<FALSE>> ELSE <<TRUE, FALSE>>

\* The names of the core are bound to the fast adapters exactly while somebody
\* is inside, and each thread can undo what it did to its own context.
HooksInv ==
    /\ \A t \in Threads : tokens[t] = TokensFor(Depth(t)) /\ (cohesion[t] <=> Depth(t) > 0)
    /\ hooks.depth = SumFunction([t \in Threads |-> Depth(t)])
    /\ hooks.depth = 0 => hooks.bound = "core" /\ hooks.restore = "none"
    /\ hooks.depth > 0 => hooks.bound = "fast" /\ hooks.restore = "core"

\* Only the holder of the lock for preparations replaces the pair grammar.
PrepareInv ==
    /\ \A c \in Callers : at[c] \in Preparing <=> locks.prepare = c
    /\ pairGrammar # Nobody => pairGrammar \in Callers /\ at[pairGrammar] = "prepareRows"

\* Only the holder of the lock for analyses is in one.
LockInv == \A c \in Callers : at[c] \in Deep <=> locks.deep = c

\* main is alone in its process and comes before every other call.
AloneInv ==
    /\ \A c \in Callers : main # Nobody /\ c # main => at[c] = "idle"
    /\ calls = 0 => main = Nobody /\ sideTable = {} /\ \A t \in Threads : at[t] = "idle"

\* Whoever changed the width keeps the one to restore.
KeptFor(t) ==
    IF main = t THEN IF at[t] \in Wide THEN <<Own, DefaultWidth>> ELSE <<DefaultWidth>>
    ELSE IF at[t] \in Wide THEN <<Own>> ELSE <<>>
WidthInv ==
    /\ \A t \in Threads : kept[t] = KeptFor(t)
    /\ width = IF \E c \in Callers : at[c] \in Wide THEN RawWidth(Own) ELSE Own

\* Workers work for an analysis that waits for them, on its width, and what
\* is retained is of a width of this process.
WorkInv ==
    /\ \A w \in Workers :
         /\ at[w] = "analysing" => work[w].for # Nobody
         /\ work[w].for # Nobody =>
              /\ work[w].for \in Callers /\ at[work[w].for] = "collecting"
              /\ work[w].width = RawWidth(Own)
    /\ sideTable \subseteq [for : Callers, width : {Own, RawWidth(Own)}]

DeepInv == LockInv /\ AloneInv /\ WidthInv /\ WorkInv

\* What a thread's inner calls were given was its own.
UsedInv ==
    \A t \in Threads : /\ used[t].cohesive = used[t].inside \/ used[t] = NoUse
                       /\ used[t].pairs \in {t, Nobody}

FacadeInv == FacadeTypeOK /\ HooksInv /\ PrepareInv /\ DeepInv /\ UsedInv

-----------------------------------------------------------------------------
(* The hooks *)

\* Two one-element sequences make a pair.
LEMMA PairOfTwo ==
  ASSUME NEW x, NEW y
  PROVE  <<x>> \o <<y>> = <<x, y>>
  <1> DEFINE s == <<x>> \o <<y>>
  <1>1. s \in Seq({x, y}) /\ Len(s) = 2 /\ s[1] = x /\ s[2] = y
    OBVIOUS
  <1>2. <<x, y>> \in Seq({x, y}) /\ Len(<<x, y>>) = 2 /\ <<x, y>>[1] = x /\ <<x, y>>[2] = y
    OBVIOUS
  <1> HIDE DEF s
  <1>3. s = <<x, y>>
    BY <1>1, <1>2
  <1>4. QED
    BY <1>3 DEF s

\* Short sequences, taken apart.
LEMMA ShortSequences ==
  ASSUME NEW x, NEW y
  PROVE  /\ <<x>> \o <<>> = <<x>> /\ <<>> \o <<x>> = <<x>> /\ <<>> \o <<>> = <<>>
         /\ Tail(<<x>>) = <<>> /\ Tail(<<x, y>>) = <<y>>
         /\ Head(<<x>>) = x /\ Head(<<x, y>>) = x
  OBVIOUS

\* Entering and leaving move one value to reset the context to.
LEMMA TokenSteps ==
  /\ <<FALSE>> \o TokensFor(0) = TokensFor(1) /\ <<TRUE>> \o TokensFor(1) = TokensFor(2)
  /\ Tail(TokensFor(1)) = TokensFor(0) /\ Tail(TokensFor(2)) = TokensFor(1)
  /\ Head(TokensFor(1)) = FALSE /\ Head(TokensFor(2)) = TRUE
  <1>1. TokensFor(0) = <<>> /\ TokensFor(1) = <<FALSE>> /\ TokensFor(2) = <<TRUE, FALSE>>
    BY DEF TokensFor
  <1>2. <<FALSE>> \o <<>> = <<FALSE>> /\ <<TRUE>> \o <<FALSE>> = <<TRUE, FALSE>>
    BY ShortSequences, PairOfTwo
  <1>3. Tail(<<FALSE>>) = <<>> /\ Tail(<<TRUE, FALSE>>) = <<FALSE>>
    BY ShortSequences
  <1>4. Head(<<FALSE>>) = FALSE /\ Head(<<TRUE, FALSE>>) = TRUE
    BY ShortSequences, Zenon
  <1>5. QED
    BY <1>1, <1>2, <1>3, <1>4, Zenon

\* The depth is a sum over the threads, so it is zero when nobody is inside.
LEMMA DepthsAreNatural ==
  ASSUME FacadeTypeOK
  PROVE  /\ IsFiniteSet(Threads)
         /\ \A t \in Threads : Depth(t) \in 0 .. 2
         /\ [t \in Threads |-> Depth(t)] \in [Threads -> Nat]
  BY FacadeShape DEF Threads, Depth

\* No thread is deeper inside than the process, which is inside when one is.
LEMMA SomebodyInside ==
  ASSUME FacadeTypeOK, HooksInv
  PROVE  /\ \A t \in Threads : Depth(t) <= hooks.depth
         /\ hooks.depth > 0 <=> \E t \in Threads : Depth(t) > 0
  <1> DEFINE f == [t \in Threads |-> Depth(t)]
  <1>1. /\ IsFiniteSet(Threads) /\ f \in [Threads -> Nat]
        /\ \A t \in Threads : f[t] = Depth(t) /\ Depth(t) \in Nat
        /\ hooks.depth = SumFunction(f)
    BY DepthsAreNatural DEF HooksInv
  <1> HIDE DEF f
  <1>2. \A t \in Threads : f[t] <= SumFunction(f)
    BY <1>1, SumBoundsValues
  <1>3. SumFunction(f) \in Nat
    BY <1>1, SumIsNatural
  <1>4. (\A t \in Threads : f[t] = 0) => SumFunction(f) = 0
    <2>1. (\A t \in Threads : f[t] = 0) => f \in [Threads -> {0}]
      BY <1>1
    <2>2. QED
      BY <1>1, <2>1, SumOfZeros
  <1>5. QED
    BY <1>1, <1>2, <1>3, <1>4

\* One thread goes in or out by one, and the depth with it.
LEMMA DepthMoves ==
  ASSUME FacadeTypeOK, HooksInv, FacadeTypeOK', NEW t \in Threads,
         \A u \in Threads \ {t} : Depth(u)' = Depth(u)
  PROVE  SumFunction([u \in Threads |-> Depth(u)])' = hooks.depth - Depth(t) + Depth(t)'
  <1> DEFINE f == [u \in Threads |-> Depth(u)]
             g == [u \in Threads |-> Depth(u)']
  <1>1. /\ IsFiniteSet(Threads) /\ f \in [Threads -> Nat] /\ f[t] = Depth(t)
        /\ SumFunction(f) = hooks.depth
    BY DepthsAreNatural DEF HooksInv
  <1>2. g \in [Threads -> Nat] /\ g[t] = Depth(t)'
    BY DEF Depth
  <1>3. \A u \in Threads \ {t} : g[u] = f[u]
    OBVIOUS
  <1>4. SumFunction([u \in Threads |-> Depth(u)])' = SumFunction(g)
    OBVIOUS
  <1> HIDE DEF f, g
  <1>5. SumFunction(g) + f[t] = SumFunction(f) + g[t]
    BY <1>1, <1>2, <1>3, SumAfterUpdate
  <1>6. SumFunction(f) \in Nat /\ SumFunction(g) \in Nat /\ f[t] \in Nat /\ g[t] \in Nat
    BY <1>1, <1>2, SumIsNatural
  <1>7. SumFunction(g) = hooks.depth - Depth(t) + Depth(t)'
    BY <1>1, <1>2, <1>5, <1>6
  <1>8. QED
    BY <1>4, <1>7

\* Entering the adapters keeps them balanced.
LEMMA HooksEntered ==
  ASSUME FacadeTypeOK, HooksInv, FacadeTypeOK', NEW t \in Threads, EnterHooks(t),
         Depth(t)' = Depth(t) + 1, \A u \in Threads \ {t} : Depth(u)' = Depth(u)
  PROVE  HooksInv'
  <1>1. Depth(t) \in {0, 1} /\ hooks.depth \in Nat
    BY DEF Depth, FacadeTypeOK
  <1>2. /\ tokens'[t] = <<cohesion[t]>> \o tokens[t] /\ cohesion'[t] = TRUE
        /\ \A u \in Threads \ {t} : tokens'[u] = tokens[u] /\ cohesion'[u] = cohesion[u]
    BY DEF EnterHooks, FacadeTypeOK
  <1>3. tokens[t] = TokensFor(Depth(t)) /\ (cohesion[t] <=> Depth(t) > 0)
    BY DEF HooksInv
  <1>4. tokens'[t] = TokensFor(Depth(t) + 1) /\ (cohesion'[t] <=> Depth(t) + 1 > 0)
    <2>1. CASE Depth(t) = 0
      <3>1. cohesion[t] = FALSE
        BY <1>3, <2>1 DEF FacadeTypeOK
      <3>2. tokens'[t] = <<FALSE>> \o TokensFor(0)
        BY <1>2, <1>3, <2>1, <3>1
      <3>3. tokens'[t] = TokensFor(1) /\ cohesion'[t] = TRUE
        BY <1>2, <3>2, TokenSteps, Zenon
      <3>4. QED
        BY <2>1, <3>3
    <2>2. CASE Depth(t) = 1
      <3>1. cohesion[t] = TRUE
        BY <1>3, <2>2 DEF FacadeTypeOK
      <3>2. tokens'[t] = <<TRUE>> \o TokensFor(1)
        BY <1>2, <1>3, <2>2, <3>1
      <3>3. tokens'[t] = TokensFor(2) /\ cohesion'[t] = TRUE
        BY <1>2, <3>2, TokenSteps, Zenon
      <3>4. QED
        BY <2>2, <3>3
    <2>3. QED
      BY <1>1, <2>1, <2>2
  <1>9. \A u \in Threads : tokens'[u] = TokensFor(Depth(u)') /\ (cohesion'[u] <=> Depth(u)' > 0)
    <2>1. ASSUME NEW u \in Threads \ {t}
          PROVE  tokens'[u] = TokensFor(Depth(u)') /\ (cohesion'[u] <=> Depth(u)' > 0)
      BY <1>2 DEF HooksInv
    <2>2. QED
      BY <1>4, <2>1
  <1>5. hooks'.depth = hooks.depth + 1 /\ hooks'.bound = "fast" /\ hooks'.restore = "core"
    BY <1>1 DEF EnterHooks, HooksInv, FacadeTypeOK
  <1>6. SumFunction([u \in Threads |-> Depth(u)])' = hooks'.depth
    BY <1>1, <1>5, DepthMoves
  <1>7. QED
    BY <1>1, <1>5, <1>6, <1>9 DEF HooksInv, TokensFor

\* Leaving them keeps them balanced: a thread that leaves has entered.
LEMMA HooksLeft ==
  ASSUME FacadeTypeOK, HooksInv, FacadeTypeOK', NEW t \in Threads, LeaveHooks(t),
         Depth(t) = Depth(t)' + 1, \A u \in Threads \ {t} : Depth(u)' = Depth(u)
  PROVE  HooksInv'
  <1>1. Depth(t) \in {1, 2} /\ hooks.depth \in Nat /\ Depth(t)' = Depth(t) - 1
    BY DEF Depth, FacadeTypeOK
  <1>2. /\ tokens'[t] = Tail(tokens[t]) /\ cohesion'[t] = Head(tokens[t])
        /\ \A u \in Threads \ {t} : tokens'[u] = tokens[u] /\ cohesion'[u] = cohesion[u]
    BY DEF LeaveHooks, FacadeTypeOK
  <1>3. tokens'[t] = TokensFor(Depth(t) - 1) /\ (cohesion'[t] <=> Depth(t) - 1 > 0)
    <2>1. CASE Depth(t) = 1
      <3>1. tokens[t] = TokensFor(1) /\ Depth(t) - 1 = 0
        BY <2>1 DEF HooksInv
      <3>2. tokens'[t] = TokensFor(0) /\ cohesion'[t] = FALSE
        BY <1>2, <3>1, TokenSteps, Zenon
      <3>3. QED
        BY <2>1, <3>1, <3>2
    <2>2. CASE Depth(t) = 2
      <3>1. tokens[t] = TokensFor(2) /\ Depth(t) - 1 = 1
        BY <2>2 DEF HooksInv
      <3>2. tokens'[t] = TokensFor(1) /\ cohesion'[t] = TRUE
        BY <1>2, <3>1, TokenSteps, Zenon
      <3>3. QED
        BY <2>2, <3>1, <3>2
    <2>3. QED
      BY <1>1, <2>1, <2>2
  <1>4. \A u \in Threads : tokens'[u] = TokensFor(Depth(u)') /\ (cohesion'[u] <=> Depth(u)' > 0)
    <2>1. ASSUME NEW u \in Threads \ {t}
          PROVE  tokens'[u] = TokensFor(Depth(u)') /\ (cohesion'[u] <=> Depth(u)' > 0)
      BY <1>2 DEF HooksInv
    <2>2. QED
      BY <1>1, <1>3, <2>1
  <1>5. hooks.depth > 0
    BY <1>1, SomebodyInside
  <1>6. /\ hooks'.depth = hooks.depth - 1
        /\ IF hooks.depth = 1 THEN hooks'.bound = "core" /\ hooks'.restore = "none"
                              ELSE hooks'.bound = "fast" /\ hooks'.restore = "core"
    BY <1>1, <1>5 DEF LeaveHooks, OneOut, Restored, HooksInv, FacadeTypeOK
  <1>7. SumFunction([u \in Threads |-> Depth(u)])' = hooks'.depth
    <2>1. SumFunction([u \in Threads |-> Depth(u)])' = hooks.depth - Depth(t) + Depth(t)'
      BY DepthMoves
    <2>2. QED
      BY <1>1, <1>6, <2>1
  <1>8. QED
    BY <1>1, <1>4, <1>5, <1>6, <1>7 DEF HooksInv, TokensFor

\* A step that neither enters nor leaves keeps them balanced.
LEMMA HooksKept ==
  ASSUME FacadeTypeOK, HooksInv, UNCHANGED <<cohesion, tokens, hooks>>,
         \A t \in Threads : Depth(t)' = Depth(t)
  PROVE  HooksInv'
  <1>1. [t \in Threads |-> Depth(t)]' = [t \in Threads |-> Depth(t)]
    OBVIOUS
  <1>2. QED
    BY <1>1 DEF HooksInv, TokensFor

-----------------------------------------------------------------------------
(* Types *)

HooksType ==
    /\ hooks \in [depth : Nat, restore : {"none", "core"}, bound : {"core", "fast"}]
    /\ cohesion \in [Threads -> BOOLEAN] /\ DOMAIN tokens = Threads

\* Going in, going out and staying keep the types.
LEMMA HooksTypes ==
  ASSUME FacadeTypeOK, HooksInv, NEW t \in Threads
  PROVE  /\ EnterHooks(t) => HooksType'
         /\ LeaveHooks(t) /\ (at[t] \in Inside \/ main = t) => HooksType'
         /\ KeepHooks => HooksType'
  <1>1. CASE EnterHooks(t)
    <2>1. hooks.depth = 0 => hooks.bound = "core"
      BY DEF HooksInv
    <2>2. QED
      BY <1>1, <2>1 DEF EnterHooks, FacadeTypeOK, HooksType
  <1>2. CASE LeaveHooks(t) /\ (at[t] \in Inside \/ main = t)
    <2>1. Depth(t) \in {1, 2} /\ hooks.depth > 0
      <3>1. Depth(t) \in {1, 2}
        BY <1>2 DEF Depth
      <3>2. QED
        BY <3>1, SomebodyInside
    <2>2. tokens[t] = TokensFor(1) \/ tokens[t] = TokensFor(2)
      BY <2>1 DEF HooksInv
    <2>3. Head(tokens[t]) \in BOOLEAN
      BY <2>2, TokenSteps, Zenon
    <2>4. cohesion' \in [Threads -> BOOLEAN] /\ DOMAIN tokens' = Threads
      BY <1>2, <2>3 DEF LeaveHooks, FacadeTypeOK
    <2>5. hooks' \in [depth : Nat, restore : {"none", "core"}, bound : {"core", "fast"}]
      <3>1. hooks.restore = "core"
        BY <2>1 DEF HooksInv
      <3>2. QED
        BY <1>2, <2>1, <3>1 DEF LeaveHooks, OneOut, Restored, FacadeTypeOK
    <2>6. QED
      BY <2>4, <2>5 DEF HooksType
  <1>3. CASE KeepHooks
    BY <1>3 DEF KeepHooks, FacadeTypeOK, HooksType
  <1>4. QED
    BY <1>1, <1>2, <1>3

\* Where a step of a caller takes it, and whether that is in or out.
CallerMoves(t) ==
  \/ /\ main \in {Nobody, t} /\ at[t] = "idle" /\ main' = main /\ EnterHooks(t)
     /\ calls' = calls + 1
     /\ \E to \in {"ranking", "prepare", "deep", "rescoring"} : at' = [at EXCEPT ![t] = to]
  \/ /\ at[t] \in Inside /\ main' = main /\ LeaveHooks(t) /\ calls' = calls
     /\ \E to \in {"idle", "rescored"} : at' = [at EXCEPT ![t] = to]
  \/ /\ main' = main /\ KeepHooks /\ calls' = calls
     /\ at[t] \in Inside /\ \E to \in Inside \ {"analysing"} : at' = [at EXCEPT ![t] = to]
  \/ /\ main' = main /\ KeepHooks /\ calls' = calls
     /\ at[t] \notin Inside /\ at' \in {at, [at EXCEPT ![t] = "idle"]}
  \/ /\ main = Nobody /\ main' = t /\ EnterHooks(t) /\ calls' = calls + 1
     /\ at[t] = "idle" /\ at' = at
  \/ main = t /\ main' = Nobody /\ LeaveHooks(t) /\ at[t] = "idle" /\ at' = at /\ calls' = calls

CallerStep(t) ==
  \/ CallCore(t) \/ BeginRank(t) \/ EndRank(t)
  \/ BeginPrepare(t) \/ PatchPairs(t) \/ UnpatchPairs(t) \/ EndPrepare(t)
  \/ BeginDeep(t) \/ Widen(t) \/ Submit(t) \/ EndDeep(t)
  \/ \E selected \in BOOLEAN : AnalyseHere(t, selected)
  \/ Collect(t)
  \/ BeginRescore(t) \/ EndRescore(t) \/ ClearTables(t)
  \/ BeginMain(t) \/ EndMain(t)

WorkerStep(w) == BeginBatch(w) \/ \E failed \in BOOLEAN : EndWorkerBatch(w, failed)

\* The steps of a caller are of these kinds.
LEMMA CallersMove ==
  ASSUME NEW t \in Callers, CallerStep(t)
  PROVE  CallerMoves(t)
  <1> USE DEF CallerMoves, Inside, Go, BeginCall, KeepHooks
  <1>1. CASE BeginRank(t) \/ BeginPrepare(t) \/ BeginDeep(t) \/ BeginRescore(t)
    BY <1>1 DEF BeginRank, BeginPrepare, BeginDeep, BeginRescore
  <1>2. CASE EndRank(t) \/ EndPrepare(t) \/ EndDeep(t) \/ EndRescore(t)
    BY <1>2 DEF EndRank, EndPrepare, EndDeep, EndRescore
  <1>3. CASE PatchPairs(t) \/ UnpatchPairs(t) \/ Widen(t) \/ Submit(t) \/ Collect(t)
    BY <1>3 DEF PatchPairs, UnpatchPairs, Widen, Submit, Collect
  <1>4. CASE \E selected \in BOOLEAN : AnalyseHere(t, selected)
    BY <1>4 DEF AnalyseHere
  <1>5. CASE CallCore(t) \/ ClearTables(t)
    BY <1>5 DEF CallCore, ClearTables
  <1>6. CASE BeginMain(t) \/ EndMain(t)
    BY <1>6 DEF BeginMain, EndMain, Threads
  <1>7. QED
    BY <1>1, <1>2, <1>3, <1>4, <1>5, <1>6 DEF CallerStep

WorkerMoves(w) ==
  /\ main' = main /\ calls' = calls
  /\ \/ at[w] = "idle" /\ EnterHooks(w) /\ at' = [at EXCEPT ![w] = "analysing"]
     \/ at[w] = "analysing" /\ LeaveHooks(w) /\ at' = [at EXCEPT ![w] = "idle"]

\* A worker's step goes in or out.
LEMMA WorkersMove ==
  ASSUME NEW w \in Workers, WorkerStep(w)
  PROVE  WorkerMoves(w)
  BY DEF WorkerStep, WorkerMoves, BeginBatch, EndWorkerBatch, Go

\* A step is a caller's or a worker's.
LEMMA StepKinds ==
  ASSUME [FacadeNext]_facadeVars
  PROVE  \/ \E t \in Callers : CallerStep(t)
         \/ \E w \in Workers : WorkerStep(w)
         \/ UNCHANGED facadeVars
  BY DEF FacadeNext, CallerStep, WorkerStep

\* Every step keeps the types.
LEMMA NextTypeOK ==
  ASSUME FacadeTypeOK, HooksInv, [FacadeNext]_facadeVars
  PROVE  FacadeTypeOK'
  <1> USE FacadeShape DEF FacadeTypeOK, Threads
  <1>1. ASSUME NEW t \in Callers, CallerStep(t) PROVE FacadeTypeOK'
    <2>1. /\ at' \in [Threads -> CallerPlaces \cup {"analysing"}]
          /\ \A c \in Callers : at'[c] \in CallerPlaces
          /\ \A w \in Workers : at'[w] \in {"idle", "analysing"}
          /\ main' \in Callers \cup {Nobody} /\ calls' \in Nat
      BY <1>1, CallersMove DEF CallerMoves, CallerPlaces, Inside
    <2>2. HooksType'
      BY <1>1, CallersMove, HooksTypes DEF CallerMoves
    <2>3. /\ pairGrammar' \in Threads \cup {Nobody}
          /\ locks' \in [prepare : Callers \cup {Nobody}, deep : Callers \cup {Nobody}]
      BY <1>1 DEF CallerStep, CallCore, BeginRank, EndRank, BeginPrepare, PatchPairs, UnpatchPairs,
             EndPrepare, BeginDeep, Widen, Submit, EndDeep, AnalyseHere, Collect, BeginRescore,
             EndRescore, ClearTables, BeginMain, EndMain
    <2>4. DOMAIN kept' = Threads
      BY <1>1 DEF CallerStep, CallCore, BeginRank, EndRank, BeginPrepare, PatchPairs, UnpatchPairs,
             EndPrepare, BeginDeep, Widen, Submit, EndDeep, AnalyseHere, Collect, BeginRescore,
             EndRescore, ClearTables, BeginMain, EndMain
    <2>5. DOMAIN work' = Workers
      BY <1>1 DEF CallerStep, CallCore, BeginRank, EndRank, BeginPrepare, PatchPairs, UnpatchPairs,
             EndPrepare, BeginDeep, Widen, Submit, EndDeep, AnalyseHere, Collect, BeginRescore,
             EndRescore, ClearTables, BeginMain, EndMain
    <2>6. DOMAIN used' = Threads
      BY <1>1 DEF CallerStep, CallCore, BeginRank, EndRank, BeginPrepare, PatchPairs, UnpatchPairs,
             EndPrepare, BeginDeep, Widen, Submit, EndDeep, AnalyseHere, Collect, BeginRescore,
             EndRescore, ClearTables, BeginMain, EndMain, Use
    <2>7. QED
      BY <2>1, <2>2, <2>3, <2>4, <2>5, <2>6 DEF HooksType
  <1>2. ASSUME NEW w \in Workers, WorkerStep(w) PROVE FacadeTypeOK'
    <2>1. /\ at' \in [Threads -> CallerPlaces \cup {"analysing"}]
          /\ \A c \in Callers : at'[c] \in CallerPlaces
          /\ \A v \in Workers : at'[v] \in {"idle", "analysing"}
          /\ main' = main /\ calls' = calls
      BY <1>2, WorkersMove DEF WorkerMoves, CallerPlaces
    <2>2. HooksType'
      BY <1>2, WorkersMove, HooksTypes DEF WorkerMoves, Inside
    <2>3. /\ UNCHANGED <<pairGrammar, locks, kept>>
          /\ DOMAIN work' = Workers /\ DOMAIN used' = Threads
      BY <1>2 DEF WorkerStep, BeginBatch, EndWorkerBatch, Use
    <2>4. QED
      BY <2>1, <2>2, <2>3 DEF HooksType
  <1>3. CASE UNCHANGED facadeVars
    BY <1>3 DEF facadeVars
  <1>4. QED
    BY <1>1, <1>2, <1>3, StepKinds

\* Every step keeps the hooks balanced.
LEMMA NextHooks ==
  ASSUME FacadeTypeOK, HooksInv, FacadeTypeOK', [FacadeNext]_facadeVars
  PROVE  HooksInv'
  <1>1. ASSUME NEW t \in Callers, CallerStep(t) PROVE HooksInv'
    <2>1. t \in Threads /\ t # Nobody /\ at \in [Threads -> CallerPlaces \cup {"analysing"}]
      BY FacadeShape DEF Threads, FacadeTypeOK
    <2>2. \A u \in Threads \ {t} : Depth(u)' = Depth(u)
      BY <1>1, <2>1, CallersMove, FacadeShape DEF CallerMoves, Depth, Threads
    <2>3. \/ EnterHooks(t) /\ Depth(t)' = Depth(t) + 1
          \/ LeaveHooks(t) /\ Depth(t) = Depth(t)' + 1
          \/ KeepHooks /\ Depth(t)' = Depth(t)
      BY <1>1, <2>1, CallersMove DEF CallerMoves, Depth, Inside
    <2>4. QED
      BY <2>1, <2>2, <2>3, HooksEntered, HooksLeft, HooksKept DEF KeepHooks
  <1>2. ASSUME NEW w \in Workers, WorkerStep(w) PROVE HooksInv'
    <2>1. w \in Threads /\ at \in [Threads -> CallerPlaces \cup {"analysing"}]
      BY DEF Threads, FacadeTypeOK
    <2>2. \A u \in Threads \ {w} : Depth(u)' = Depth(u)
      BY <1>2, <2>1, WorkersMove DEF WorkerMoves, Depth
    <2>3. \/ EnterHooks(w) /\ Depth(w)' = Depth(w) + 1
          \/ LeaveHooks(w) /\ Depth(w) = Depth(w)' + 1
      BY <1>2, <2>1, WorkersMove DEF WorkerMoves, Depth, Inside
    <2>4. QED
      BY <2>1, <2>2, <2>3, HooksEntered, HooksLeft
  <1>3. CASE UNCHANGED facadeVars
    BY <1>3, HooksKept DEF facadeVars, Depth
  <1>4. QED
    BY <1>1, <1>2, <1>3, StepKinds

-----------------------------------------------------------------------------
(* Preparations *)

\* Every step keeps the replaced pair grammar with the holder of its lock.
LEMMA NextPrepare ==
  ASSUME FacadeTypeOK, PrepareInv, [FacadeNext]_facadeVars
  PROVE  PrepareInv'
  <1>1. /\ at \in [Threads -> CallerPlaces \cup {"analysing"}]
        /\ locks \in [prepare : Callers \cup {Nobody}, deep : Callers \cup {Nobody}]
        /\ Nobody \notin Callers /\ Callers \cap Workers = {} /\ Callers \subseteq Threads
    BY FacadeShape DEF FacadeTypeOK, Threads
  <1>2. ASSUME NEW t \in Callers, CallerStep(t) PROVE PrepareInv'
    <2>1. CASE BeginPrepare(t)
      BY <1>1, <2>1 DEF BeginPrepare, BeginCall, Go, PrepareInv, Preparing
    <2>2. CASE PatchPairs(t)
      BY <1>1, <2>2 DEF PatchPairs, Go, PrepareInv, Preparing
    <2>3. CASE UnpatchPairs(t)
      BY <1>1, <2>3 DEF UnpatchPairs, Go, PrepareInv, Preparing
    <2>4. CASE EndPrepare(t)
      BY <1>1, <2>4 DEF EndPrepare, Go, PrepareInv, Preparing
    <2>5. CASE ~(BeginPrepare(t) \/ PatchPairs(t) \/ UnpatchPairs(t) \/ EndPrepare(t))
      <3>1. pairGrammar' = pairGrammar /\ locks'.prepare = locks.prepare
        BY <1>1, <1>2, <2>5
           DEF CallerStep, CallCore, BeginRank, EndRank, BeginDeep, Widen, Submit, EndDeep,
               AnalyseHere, Collect, BeginRescore, EndRescore, ClearTables, BeginMain, EndMain
      <3>2. /\ \A c \in Callers \ {t} : at'[c] = at[c]
            /\ at'[t] = at[t] \/ (at[t] \notin Preparing /\ at'[t] \notin Preparing)
        BY <1>1, <1>2, <2>5
           DEF CallerStep, CallCore, BeginRank, EndRank, BeginDeep, Widen, Submit, EndDeep,
               AnalyseHere, Collect, BeginRescore, EndRescore, ClearTables, BeginMain, EndMain,
               Go, BeginCall, Preparing
      <3>3. \A c \in Callers : /\ at'[c] \in Preparing <=> at[c] \in Preparing
                               /\ at[c] = "prepareRows" => at'[c] = "prepareRows"
        BY <1>1, <3>2 DEF Preparing
      <3>4. QED
        BY <3>1, <3>3 DEF PrepareInv
    <2>6. QED
      BY <2>1, <2>2, <2>3, <2>4, <2>5
  <1>3. ASSUME NEW w \in Workers, WorkerStep(w) PROVE PrepareInv'
    <2>1. UNCHANGED <<pairGrammar, locks>> /\ \A c \in Callers : at'[c] = at[c]
      BY <1>1, <1>3 DEF WorkerStep, BeginBatch, EndWorkerBatch, Go
    <2>2. QED
      BY <2>1 DEF PrepareInv
  <1>4. CASE UNCHANGED facadeVars
    BY <1>4 DEF facadeVars, PrepareInv
  <1>5. QED
    BY <1>2, <1>3, <1>4, StepKinds

-----------------------------------------------------------------------------
(* Analyses *)

\* Every step keeps the lock of an analysis with who is in it, and main alone.
LEMMA NextLock ==
  ASSUME FacadeTypeOK, LockInv, [FacadeNext]_facadeVars
  PROVE  LockInv'
  <1>1. /\ at \in [Threads -> CallerPlaces \cup {"analysing"}]
        /\ locks \in [prepare : Callers \cup {Nobody}, deep : Callers \cup {Nobody}]
        /\ Nobody \notin Callers /\ Callers \cap Workers = {} /\ Callers \subseteq Threads
    BY FacadeShape DEF FacadeTypeOK, Threads
  <1>2. ASSUME NEW t \in Callers, CallerStep(t) PROVE LockInv'
    <2>1. CASE BeginDeep(t)
      BY <1>1, <2>1 DEF BeginDeep, DeepIsFree, BeginCall, Go, LockInv, Deep, Wide
    <2>2. CASE EndDeep(t)
      BY <1>1, <2>2 DEF EndDeep, Go, LockInv, Deep, Wide
    <2>3. CASE Widen(t) \/ Submit(t) \/ Collect(t) \/ \E selected \in BOOLEAN : AnalyseHere(t, selected)
      <3>1. /\ locks' = locks
            /\ at[t] \in Deep /\ \E to \in Deep : at' = [at EXCEPT ![t] = to]
        BY <2>3 DEF Widen, Submit, Collect, AnalyseHere, Go, Deep, Wide
      <3>2. QED
        BY <1>1, <3>1 DEF LockInv
    <2>4. CASE ~(BeginDeep(t) \/ EndDeep(t) \/ Widen(t) \/ Submit(t) \/ Collect(t))
               /\ ~\E selected \in BOOLEAN : AnalyseHere(t, selected)
      <3>1. locks'.deep = locks.deep
        BY <1>1, <1>2, <2>4
           DEF CallerStep, CallCore, BeginRank, EndRank, BeginPrepare, PatchPairs, UnpatchPairs,
               EndPrepare, BeginRescore, EndRescore, ClearTables, BeginMain, EndMain
      <3>2. /\ \A c \in Callers \ {t} : at'[c] = at[c]
            /\ at'[t] = at[t] \/ (at[t] \notin Deep /\ at'[t] \notin Deep)
        BY <1>1, <1>2, <2>4
           DEF CallerStep, CallCore, BeginRank, EndRank, BeginPrepare, PatchPairs, UnpatchPairs,
               EndPrepare, BeginRescore, EndRescore, ClearTables, BeginMain, EndMain,
               Go, BeginCall, Deep, Wide
      <3>3. QED
        BY <1>1, <3>1, <3>2 DEF LockInv
    <2>5. QED
      BY <2>1, <2>2, <2>3, <2>4
  <1>3. ASSUME NEW w \in Workers, WorkerStep(w) PROVE LockInv'
    <2>1. UNCHANGED locks /\ \A c \in Callers : at'[c] = at[c]
      BY <1>1, <1>3 DEF WorkerStep, BeginBatch, EndWorkerBatch, Go
    <2>2. QED
      BY <2>1 DEF LockInv
  <1>4. CASE UNCHANGED facadeVars
    BY <1>4 DEF facadeVars, LockInv
  <1>5. QED
    BY <1>2, <1>3, <1>4, StepKinds

\* Every step leaves main alone in its process.
LEMMA NextAlone ==
  ASSUME FacadeTypeOK, AloneInv, WorkInv, [FacadeNext]_facadeVars
  PROVE  AloneInv'
  <1>1. /\ at \in [Threads -> CallerPlaces \cup {"analysing"}] /\ calls \in Nat
        /\ Nobody \notin Threads /\ Callers \cap Workers = {} /\ Callers \subseteq Threads
        /\ Workers \subseteq Threads
    BY FacadeShape DEF FacadeTypeOK, Threads
  <1>2. ASSUME NEW t \in Callers, CallerStep(t) PROVE AloneInv'
    <2>1. calls' = 0 => calls = 0 /\ CallCore(t)
      BY <1>1, <1>2
         DEF CallerStep, CallCore, BeginRank, EndRank, BeginPrepare, PatchPairs, UnpatchPairs,
             EndPrepare, BeginDeep, Widen, Submit, EndDeep, AnalyseHere, Collect, BeginRescore,
             EndRescore, ClearTables, BeginMain, EndMain, Go, BeginCall, AloneInv
    <2>2. calls' = 0 => main' = Nobody /\ sideTable' = {} /\ \A u \in Threads : at'[u] = "idle"
      BY <2>1 DEF CallCore, AloneInv
    <2>3. CASE BeginMain(t)
      BY <1>1, <2>2, <2>3 DEF BeginMain, AloneInv
    <2>4. CASE ~BeginMain(t)
      <3>1. main' \in {main, Nobody}
        BY <1>2, <2>4
           DEF CallerStep, CallCore, BeginRank, EndRank, BeginPrepare, PatchPairs, UnpatchPairs,
               EndPrepare, BeginDeep, Widen, Submit, EndDeep, AnalyseHere, Collect, BeginRescore,
               EndRescore, ClearTables, EndMain
      <3>2. main # Nobody /\ main' = main =>
              \A c \in Callers : c # main => at'[c] = "idle"
        BY <1>1, <1>2, CallersMove DEF CallerMoves, AloneInv, Inside
      <3>3. QED
        BY <2>2, <3>1, <3>2 DEF AloneInv
    <2>5. QED
      BY <2>3, <2>4
  <1>3. ASSUME NEW w \in Workers, WorkerStep(w) PROVE AloneInv'
    <2>1. main' = main /\ calls' = calls /\ \A c \in Callers : at'[c] = at[c]
      BY <1>1, <1>3 DEF WorkerStep, BeginBatch, EndWorkerBatch, Go
    <2>2. work[w].for # Nobody \/ at[w] = "analysing"
      BY <1>3 DEF WorkerStep, BeginBatch, EndWorkerBatch, Go
    <2>3. calls # 0
      <3>1. \E c \in Callers : at[c] = "collecting"
        BY <2>2 DEF WorkInv
      <3>2. QED
        BY <1>1, <3>1 DEF AloneInv
    <2>4. QED
      BY <2>1, <2>3 DEF AloneInv
  <1>4. CASE UNCHANGED facadeVars
    BY <1>4 DEF facadeVars, AloneInv
  <1>5. QED
    BY <1>2, <1>3, <1>4, StepKinds

\* Who leaves the widths alone and goes neither in nor out keeps them restorable.
LEMMA WidthKept ==
  ASSUME WidthInv, UNCHANGED <<width, kept, main>>, Callers \subseteq Threads,
         \A t \in Threads : at'[t] \in Wide <=> at[t] \in Wide
  PROVE  WidthInv'
  <1>1. Own' = Own
    BY DEF Own
  <1>2. \A t \in Threads : KeptFor(t)' = KeptFor(t)
    BY <1>1 DEF KeptFor
  <1>3. (\E c \in Callers : at'[c] \in Wide) <=> \E c \in Callers : at[c] \in Wide
    OBVIOUS
  <1>4. QED
    BY <1>1, <1>2, <1>3 DEF WidthInv

\* Every step keeps the width that its holder will restore.
LEMMA NextWidth ==
  ASSUME FacadeTypeOK, LockInv, AloneInv, WidthInv, [FacadeNext]_facadeVars
  PROVE  WidthInv'
  <1>1. /\ at \in [Threads -> CallerPlaces \cup {"analysing"}]
        /\ \A w \in Workers : at[w] \in {"idle", "analysing"}
        /\ Nobody \notin Threads /\ Callers \cap Workers = {} /\ Callers \subseteq Threads
        /\ Threads = Callers \cup Workers /\ DOMAIN kept = Threads
    BY FacadeShape DEF FacadeTypeOK, Threads
  <1>2. ASSUME NEW t \in Callers, CallerStep(t) PROVE WidthInv'
    <2>1. CASE Widen(t)
      <3>1. /\ at[t] = "deep" /\ at' = [at EXCEPT ![t] = "widened"] /\ main' = main
            /\ kept' = [kept EXCEPT ![t] = <<width>> \o @] /\ width' = RawWidth(width)
        BY <2>1 DEF Widen, Go
      <3>2. \A c \in Callers : at[c] \notin Wide
        BY <3>1 DEF LockInv, Deep, Wide
      <3>3. width = Own /\ Own' = Own
        BY <3>1, <3>2 DEF WidthInv, Own
      <3>4. at'[t] \in Wide /\ \A u \in Threads \ {t} : at'[u] = at[u]
        BY <1>1, <3>1 DEF Wide
      <3>5. kept'[t] = KeptFor(t)'
        <4>1. kept'[t] = <<Own>> \o KeptFor(t)
          BY <1>1, <3>1, <3>3 DEF WidthInv
        <4>2. KeptFor(t) = IF main = t THEN <<DefaultWidth>> ELSE <<>>
          BY <3>2 DEF KeptFor
        <4>3. QED
          BY <3>1, <3>3, <3>4, <4>1, <4>2, PairOfTwo, ShortSequences DEF KeptFor
      <3>6. \A u \in Threads \ {t} : kept'[u] = KeptFor(u)'
        BY <1>1, <3>1, <3>3, <3>4 DEF WidthInv, KeptFor
      <3>7. QED
        BY <3>1, <3>3, <3>4, <3>5, <3>6 DEF WidthInv
    <2>2. CASE EndDeep(t)
      <3>1. /\ at[t] = "narrow" /\ at' = [at EXCEPT ![t] = "idle"] /\ main' = main
            /\ kept' = [kept EXCEPT ![t] = Tail(@)] /\ width' = Head(kept[t])
        BY <2>2 DEF EndDeep, Go, Narrowed
      <3>2. at[t] \in Wide /\ \A c \in Callers \ {t} : at[c] \notin Wide
        BY <3>1 DEF LockInv, Deep, Wide
      <3>3. \A c \in Callers : at'[c] \notin Wide
        BY <1>1, <3>1, <3>2 DEF Wide
      <3>4. Own' = Own
        BY <3>1 DEF Own
      <3>5. KeptFor(t) = IF main = t THEN <<Own, DefaultWidth>> ELSE <<Own>>
        BY <3>2 DEF KeptFor
      <3>6. KeptFor(t)' = IF main = t THEN <<DefaultWidth>> ELSE <<>>
        BY <3>1, <3>3 DEF KeptFor
      <3>10. kept[t] = KeptFor(t) /\ kept'[t] = Tail(kept[t])
        BY <1>1, <3>1 DEF WidthInv
      <3>7. width' = Own /\ kept'[t] = KeptFor(t)'
        <4>1. CASE main = t
          <5>1. kept[t] = <<Own, DefaultWidth>>
            BY <3>5, <3>10, <4>1
          <5>2. Head(kept[t]) = Own /\ Tail(kept[t]) = <<DefaultWidth>>
            BY <5>1, ShortSequences
          <5>3. QED
            BY <3>1, <3>6, <3>10, <4>1, <5>2
        <4>2. CASE main # t
          <5>1. kept[t] = <<Own>>
            BY <3>5, <3>10, <4>2
          <5>2. Head(kept[t]) = Own /\ Tail(kept[t]) = <<>>
            BY <5>1, ShortSequences
          <5>3. QED
            BY <3>1, <3>6, <3>10, <4>2, <5>2
        <4>3. QED
          BY <4>1, <4>2
      <3>8. \A u \in Threads \ {t} : kept'[u] = KeptFor(u)'
        BY <1>1, <3>1, <3>4 DEF WidthInv, KeptFor
      <3>9. QED
        BY <3>3, <3>4, <3>7, <3>8 DEF WidthInv
    <2>3. CASE BeginMain(t)
      <3>1. /\ at' = at /\ main = Nobody /\ main' = t /\ \A u \in Threads : at[u] = "idle"
            /\ kept' = [kept EXCEPT ![t] = <<width>>] /\ width' = MainWidth
        BY <2>3 DEF BeginMain
      <3>2. \A u \in Threads : at[u] \notin Wide
        BY <3>1 DEF Wide
      <3>3. width = DefaultWidth /\ Own' = MainWidth
        BY <1>1, <3>1, <3>2 DEF WidthInv, Own
      <3>4. \A u \in Threads : kept'[u] = KeptFor(u)'
        <4>1. \A u \in Threads : KeptFor(u)' = IF u = t THEN <<DefaultWidth>> ELSE <<>>
          BY <3>1, <3>2 DEF KeptFor
        <4>2. \A u \in Threads : kept[u] = <<>>
          BY <1>1, <3>1, <3>2 DEF WidthInv, KeptFor
        <4>3. QED
          BY <1>1, <3>1, <3>3, <4>1, <4>2
      <3>5. QED
        BY <1>1, <3>1, <3>2, <3>3, <3>4 DEF WidthInv
    <2>4. CASE EndMain(t)
      <3>1. /\ at' = at /\ main = t /\ main' = Nobody /\ at[t] = "idle"
            /\ kept' = [kept EXCEPT ![t] = Tail(@)] /\ width' = Head(kept[t])
        BY <2>4 DEF EndMain
      <3>2. \A u \in Threads : at[u] \notin Wide
        BY <1>1, <3>1 DEF AloneInv, Wide
      <3>3. kept[t] = <<DefaultWidth>> /\ \A u \in Threads \ {t} : kept[u] = <<>>
        BY <1>1, <3>1, <3>2 DEF WidthInv, KeptFor
      <3>4. width' = DefaultWidth /\ Own' = DefaultWidth
        BY <3>1, <3>3, ShortSequences DEF Own
      <3>5. \A u \in Threads : kept'[u] = <<>> /\ KeptFor(u)' = <<>>
        <4>1. \A u \in Threads : KeptFor(u)' = <<>>
          BY <1>1, <3>1, <3>2 DEF KeptFor
        <4>2. \A u \in Threads : kept'[u] = <<>>
          BY <1>1, <3>1, <3>3, ShortSequences
        <4>3. QED
          BY <4>1, <4>2
      <3>6. QED
        BY <1>1, <3>1, <3>2, <3>4, <3>5 DEF WidthInv
    <2>5. CASE ~(Widen(t) \/ EndDeep(t) \/ BeginMain(t) \/ EndMain(t))
      <3>1. /\ UNCHANGED <<width, kept, main>>
            /\ \A u \in Threads \ {t} : at'[u] = at[u]
            /\ at'[t] \in Wide <=> at[t] \in Wide
        BY <1>1, <1>2, <2>5
           DEF CallerStep, CallCore, BeginRank, EndRank, BeginPrepare, PatchPairs, UnpatchPairs,
               EndPrepare, BeginDeep, Submit, AnalyseHere, Collect, BeginRescore,
               EndRescore, ClearTables, Go, BeginCall, Wide
      <3>2. QED
        BY <1>1, <3>1, WidthKept
    <2>6. QED
      BY <2>1, <2>2, <2>3, <2>4, <2>5
  <1>3. ASSUME NEW w \in Workers, WorkerStep(w) PROVE WidthInv'
    <2>1. /\ UNCHANGED <<width, kept, main>>
          /\ \A u \in Threads : at'[u] \in Wide <=> at[u] \in Wide
      BY <1>1, <1>3 DEF WorkerStep, BeginBatch, EndWorkerBatch, Go, Wide
    <2>2. QED
      BY <1>1, <2>1, WidthKept
  <1>4. CASE UNCHANGED facadeVars
    BY <1>1, <1>4, WidthKept DEF facadeVars
  <1>5. QED
    BY <1>2, <1>3, <1>4, StepKinds

\* Diversifying to the width of the process leaves no pool of another width.
LEMMA DiversifiedWidths ==
  ASSUME NEW o, NEW r, NEW entries \in SUBSET [for : Callers, width : {o, r}]
  PROVE  Diversified(entries, o) \in SUBSET [for : Callers, width : {o, r}]
  BY DEF Diversified

\* Every step leaves the workers with the analysis that waits for them.
LEMMA NextWork ==
  ASSUME FacadeTypeOK, LockInv, AloneInv, WidthInv, WorkInv, [FacadeNext]_facadeVars
  PROVE  WorkInv'
  <1>1. /\ at \in [Threads -> CallerPlaces \cup {"analysing"}]
        /\ \A w \in Workers : at[w] \in {"idle", "analysing"}
        /\ Nobody \notin Threads /\ Callers \cap Workers = {} /\ Callers \subseteq Threads
        /\ Workers \subseteq Threads /\ DOMAIN work = Workers
    BY FacadeShape DEF FacadeTypeOK, Threads
  <1>2. \A c, d \in Callers : at[c] \in Deep /\ at[d] \in Deep => c = d
    BY DEF LockInv
  <1>3. ASSUME NEW t \in Callers, at[t] \in Wide
        PROVE  /\ width = RawWidth(Own) /\ Head(kept[t]) = Own
               /\ \A w \in Workers : work[w].for \in {t, Nobody}
    <2>1. width = RawWidth(Own)
      BY <1>3 DEF WidthInv
    <2>2. kept[t] = <<Own, DefaultWidth>> \/ kept[t] = <<Own>>
      BY <1>1, <1>3 DEF WidthInv, KeptFor
    <2>3. \A w \in Workers : work[w].for \in {t, Nobody}
      BY <1>2, <1>3 DEF WorkInv, Deep, Wide
    <2>4. QED
      BY <2>1, <2>2, <2>3, ShortSequences
  <1>4. ASSUME NEW t \in Callers, CallerStep(t) PROVE WorkInv'
    <2>1. CASE Submit(t)
      <3>1. /\ at[t] = "widened" /\ at' = [at EXCEPT ![t] = "collecting"] /\ main' = main
            /\ work' = [w \in Workers |-> [NoWork EXCEPT !.for = t, !.width = width]]
            /\ sideTable' = {}
        BY <2>1 DEF Submit, Go
      <3>2. width = RawWidth(Own) /\ Own' = Own
        BY <1>3, <3>1 DEF Wide, Own
      <3>3. \A w \in Workers : work'[w].for = t /\ work'[w].width = RawWidth(Own)
        BY <3>1, <3>2 DEF NoWork
      <3>4. at'[t] = "collecting" /\ t # Nobody
        BY <1>1, <3>1
      <3>5. QED
        BY <3>1, <3>2, <3>3, <3>4 DEF WorkInv
    <2>2. CASE Collect(t)
      <3>1. /\ at[t] = "collecting" /\ at' = [at EXCEPT ![t] = "narrow"] /\ main' = main
            /\ \A w \in Workers : work[w].for # t
            /\ work' = [w \in Workers |-> NoWork]
            /\ sideTable' \in {sideTable, Diversified(sideTable, Head(kept[t]))}
        BY <2>2 DEF Collect, Go
      <3>2. Head(kept[t]) = Own /\ Own' = Own /\ \A w \in Workers : work[w].for = Nobody
        BY <1>3, <3>1 DEF Wide, Own
      <3>3. \A w \in Workers : at'[w] # "analysing" /\ work'[w].for = Nobody
        BY <1>1, <3>1, <3>2 DEF WorkInv, NoWork
      <3>4. sideTable' \subseteq [for : Callers, width : {Own, RawWidth(Own)}]
        BY <3>1, <3>2, DiversifiedWidths DEF WorkInv
      <3>5. QED
        BY <3>2, <3>3, <3>4 DEF WorkInv
    <2>3. ASSUME NEW selected \in BOOLEAN, AnalyseHere(t, selected) PROVE WorkInv'
      <3>1. /\ at[t] = "widened" /\ at' = [at EXCEPT ![t] = "narrow"] /\ UNCHANGED <<main, work>>
            /\ \E pools \in {{AnalysedPool(t)}, sideTable} :
                 sideTable' = Diversified(pools, Head(kept[t]))
        BY <2>3 DEF AnalyseHere, Go
      <3>2. width = RawWidth(Own) /\ Head(kept[t]) = Own /\ Own' = Own
            /\ \A w \in Workers : work[w].for \in {t, Nobody}
        BY <1>3, <3>1 DEF Wide, Own
      <3>3. AnalysedPool(t) \in [for : Callers, width : {Own, RawWidth(Own)}]
        BY <3>2 DEF AnalysedPool
      <3>4. sideTable' \subseteq [for : Callers, width : {Own, RawWidth(Own)}]
        <4>1. PICK pools \in {{AnalysedPool(t)}, sideTable} : sideTable' = Diversified(pools, Own)
          BY <3>1, <3>2
        <4>2. pools \in SUBSET [for : Callers, width : {Own, RawWidth(Own)}]
          BY <3>3, <4>1 DEF WorkInv
        <4>3. QED
          BY <3>2, <4>1, <4>2, DiversifiedWidths
      <3>5. \A w \in Workers : work[w].for = Nobody /\ at'[w] # "analysing"
        BY <1>1, <3>1, <3>2 DEF WorkInv
      <3>6. QED
        BY <3>1, <3>2, <3>4, <3>5 DEF WorkInv
    <2>4. CASE BeginMain(t) \/ EndMain(t)
      <3>1. at' = at /\ work' = work /\ \A c \in Callers : at[c] = "idle"
        BY <1>1, <2>4 DEF BeginMain, EndMain, AloneInv
      <3>2. \A w \in Workers : work'[w].for = Nobody /\ at'[w] # "analysing"
        BY <3>1 DEF WorkInv
      <3>3. sideTable' = {}
        BY <2>4 DEF BeginMain, EndMain, AloneInv
      <3>4. QED
        BY <3>2, <3>3 DEF WorkInv
    <2>5. CASE /\ ~(Submit(t) \/ Collect(t) \/ BeginMain(t) \/ EndMain(t))
               /\ ~\E selected \in BOOLEAN : AnalyseHere(t, selected)
      <3>1. /\ UNCHANGED <<work, main>> /\ sideTable' \in {sideTable, {}}
            /\ \A u \in Threads \ {t} : at'[u] = at[u]
            /\ at'[t] = at[t] \/ at[t] # "collecting"
        BY <1>1, <1>4, <2>5
           DEF CallerStep, CallCore, BeginRank, EndRank, BeginPrepare, PatchPairs, UnpatchPairs,
               EndPrepare, BeginDeep, Widen, EndDeep, BeginRescore,
               EndRescore, ClearTables, Go, BeginCall
      <3>2. Own' = Own
        BY <3>1 DEF Own
      <3>3. \A w \in Workers : at'[w] = at[w]
        BY <1>1, <3>1
      <3>4. QED
        BY <1>1, <3>1, <3>2, <3>3 DEF WorkInv
    <2>6. QED
      BY <1>4, <2>1, <2>2, <2>3, <2>4, <2>5
  <1>5. ASSUME NEW w \in Workers, WorkerStep(w) PROVE WorkInv'
    <2>1. /\ main' = main /\ \A u \in Threads \ {w} : at'[u] = at[u]
          /\ Own' = Own
      BY <1>1, <1>5 DEF WorkerStep, BeginBatch, EndWorkerBatch, Go, Own
    <2>2. CASE BeginBatch(w)
      BY <1>1, <2>1, <2>2 DEF BeginBatch, WorkInv
    <2>3. ASSUME NEW failed \in BOOLEAN, EndWorkerBatch(w, failed) PROVE WorkInv'
      <3>1. /\ at[w] = "analysing" /\ at'[w] = "idle"
            /\ sideTable' \in {sideTable, sideTable \cup {[for |-> work[w].for, width |-> work[w].width]}}
            /\ work' = [work EXCEPT ![w] = [NoWork EXCEPT !.failed = failed]]
        BY <1>1, <2>3 DEF EndWorkerBatch, Go
      <3>2. work[w].for \in Callers /\ work[w].width = RawWidth(Own)
        BY <3>1 DEF WorkInv
      <3>3. work'[w].for = Nobody /\ \A v \in Workers \ {w} : work'[v] = work[v]
        BY <1>1, <3>1 DEF NoWork
      <3>4. QED
        BY <1>1, <2>1, <3>1, <3>2, <3>3 DEF WorkInv
    <2>4. QED
      BY <1>5, <2>2, <2>3 DEF WorkerStep
  <1>6. CASE UNCHANGED facadeVars
    BY <1>6 DEF facadeVars, WorkInv, Own
  <1>7. QED
    BY <1>4, <1>5, <1>6, StepKinds

-----------------------------------------------------------------------------
(* What inner calls are given *)

\* A thread's context wants cohesion exactly while it is inside, and then the
\* names of the core give it.
LEMMA CohesionIsInside ==
  ASSUME FacadeTypeOK, HooksInv, NEW t \in Threads
  PROVE  CohesionActive(t) <=> tokens[t] # <<>>
  <1>1. Depth(t) \in 0 .. 2 /\ tokens[t] = TokensFor(Depth(t)) /\ (cohesion[t] <=> Depth(t) > 0)
    BY DepthsAreNatural DEF HooksInv
  <1>2. Depth(t) > 0 => hooks.bound = "fast"
    <2>1. Depth(t) > 0 => hooks.depth > 0
      BY SomebodyInside
    <2>2. QED
      BY <2>1 DEF HooksInv
  <1>3. tokens[t] # <<>> <=> Depth(t) > 0
    BY <1>1 DEF TokensFor
  <1>4. QED
    BY <1>1, <1>2, <1>3 DEF CohesionActive

\* A use writes down what belongs to the thread that makes it.
LEMMA UseIsOwn ==
  ASSUME FacadeTypeOK, HooksInv, UsedInv, NEW t \in Threads, Use(t)
  PROVE  UsedInv'
  <1>1. /\ \A u \in Threads \ {t} : used'[u] = used[u]
        /\ used'[t] = [pairs |-> CachedPairGrammar(t), cohesive |-> CohesionActive(t),
                       inside |-> tokens[t] # <<>>]
    BY DEF Use, FacadeTypeOK
  <1>2. used'[t].pairs = CachedPairGrammar(t) /\ CachedPairGrammar(t) \in {t, Nobody}
    BY <1>1 DEF CachedPairGrammar
  <1>3. used'[t].cohesive = CohesionActive(t) /\ used'[t].inside = (tokens[t] # <<>>)
    <2> DEFINE p == CachedPairGrammar(t)
               c == CohesionActive(t)
               i == tokens[t] # <<>>
    <2>1. used'[t] = [pairs |-> p, cohesive |-> c, inside |-> i]
      BY <1>1
    <2> HIDE DEF p, c, i
    <2>2. used'[t].cohesive = c
      BY <2>1
    <2>3. used'[t].inside = i
      BY <2>1
    <2>4. QED
      BY <2>2, <2>3, Zenon DEF c, i
  <1>4. CohesionActive(t) = (tokens[t] # <<>>)
    BY CohesionIsInside, Zenon DEF CohesionActive
  <1>5. used'[t].cohesive = used'[t].inside
    BY <1>3, <1>4, Zenon
  <1>6. QED
    BY <1>1, <1>2, <1>5 DEF UsedInv

\* Every step gives inner calls what belongs to their thread.
LEMMA NextUsed ==
  ASSUME FacadeTypeOK, HooksInv, UsedInv, [FacadeNext]_facadeVars
  PROVE  UsedInv'
  <1>1. \/ UNCHANGED used
        \/ \E t \in Threads : Use(t)
    <2>1. ASSUME NEW t \in Callers, CallerStep(t) PROVE UNCHANGED used \/ Use(t)
      BY <2>1 DEF CallerStep, CallCore, BeginRank, EndRank, BeginPrepare, PatchPairs, UnpatchPairs,
             EndPrepare, BeginDeep, Widen, Submit, EndDeep, AnalyseHere, Collect, BeginRescore,
             EndRescore, ClearTables, BeginMain, EndMain
    <2>2. ASSUME NEW w \in Workers, WorkerStep(w) PROVE UNCHANGED used \/ Use(w)
      BY <2>2 DEF WorkerStep, BeginBatch, EndWorkerBatch
    <2>3. QED
      BY <2>1, <2>2, StepKinds DEF facadeVars, Threads
  <1>2. CASE UNCHANGED used
    BY <1>2 DEF UsedInv
  <1>3. QED
    BY <1>1, <1>2, UseIsOwn

-----------------------------------------------------------------------------
(* Theorems *)

\* Nobody is inside and nothing is replaced at first.
LEMMA InitFacade ==
  ASSUME FacadeInit
  PROVE  FacadeInv
  <1> USE FacadeShape DEF FacadeInit, Threads
  <1>1. FacadeTypeOK
    BY DEF FacadeTypeOK, CallerPlaces
  <1>2. \A t \in Threads : at[t] = "idle" /\ main # t /\ Depth(t) = 0
    BY DEF Depth, Inside
  <1>3. HooksInv
    <2> DEFINE f == [t \in Threads |-> Depth(t)]
    <2>1. f \in [Threads -> {0}] /\ IsFiniteSet(Threads)
      BY <1>2
    <2> HIDE DEF f
    <2>2. SumFunction(f) = 0
      BY <2>1, SumOfZeros
    <2>3. \A t \in Threads : tokens[t] = TokensFor(Depth(t)) /\ (cohesion[t] <=> Depth(t) > 0)
      BY <1>2 DEF TokensFor
    <2>4. hooks.depth = 0 /\ hooks.bound = "core" /\ hooks.restore = "none"
      OBVIOUS
    <2>5. QED
      BY <2>2, <2>3, <2>4 DEF HooksInv, f
  <1>4. PrepareInv /\ LockInv /\ AloneInv
    BY DEF PrepareInv, LockInv, AloneInv, Preparing, Deep, Wide
  <1>5. WidthInv
    <2>1. \A t \in Threads : kept[t] = <<>> /\ KeptFor(t) = <<>>
      BY <1>2 DEF KeptFor, Wide
    <2>2. QED
      BY <2>1 DEF WidthInv, Own, Wide
  <1>6. WorkInv
    BY DEF WorkInv, NoWork
  <1>7. UsedInv
    BY DEF UsedInv, NoUse
  <1>8. QED
    BY <1>1, <1>3, <1>4, <1>5, <1>6, <1>7 DEF FacadeInv, DeepInv

\* Type correctness and what balances the scoped changes hold in every
\* reachable state: the adapters are counted over all threads
\* (anagram_performance.py's _HOOK_DEPTH), each thread can undo its own context,
\* and the locks keep a replaced name and a widened analysis with one caller.
THEOREM FacadeInvariant == FacadeSpec => []FacadeInv
<1>1. FacadeInit => FacadeInv
  BY InitFacade
<1>2. FacadeInv /\ [FacadeNext]_facadeVars => FacadeInv'
  <2> SUFFICES ASSUME FacadeInv, [FacadeNext]_facadeVars PROVE FacadeInv'
    OBVIOUS
  <2>1. FacadeTypeOK /\ HooksInv /\ PrepareInv /\ LockInv /\ AloneInv /\ WidthInv /\ WorkInv /\ UsedInv
    BY DEF FacadeInv, DeepInv
  <2>2. FacadeTypeOK'
    BY <2>1, NextTypeOK
  <2>3. HooksInv'
    BY <2>1, <2>2, NextHooks
  <2>4. PrepareInv' /\ LockInv' /\ AloneInv'
    BY <2>1, NextPrepare, NextLock, NextAlone
  <2>5. WidthInv' /\ WorkInv'
    BY <2>1, NextWidth, NextWork
  <2>6. UsedInv'
    BY <2>1, NextUsed
  <2>7. QED
    BY <2>2, <2>3, <2>4, <2>5, <2>6 DEF FacadeInv, DeepInv
<1>3. QED
  BY <1>1, <1>2, PTL DEF FacadeSpec

\* The fast adapters are installed exactly while somebody is inside, and a
\* replaced pair grammar or a widened analysis outlives no call.
THEOREM NoTraceIsLeft == FacadeSpec => []FacadeLeavesNoTrace
<1>1. FacadeInv => FacadeLeavesNoTrace
  <2> SUFFICES ASSUME FacadeInv PROVE FacadeLeavesNoTrace
    OBVIOUS
  <2>1. FacadeTypeOK /\ HooksInv /\ PrepareInv /\ WidthInv
    BY DEF FacadeInv, DeepInv
  <2>2. (hooks.bound = "fast") <=> \E t \in Threads : tokens[t] # <<>>
    <3>1. \A t \in Threads : tokens[t] # <<>> <=> Depth(t) > 0
      BY <2>1, DepthsAreNatural DEF HooksInv, TokensFor
    <3>2. hooks.depth > 0 <=> \E t \in Threads : Depth(t) > 0
      BY <2>1, SomebodyInside
    <3>3. hooks.bound = "fast" <=> hooks.depth > 0
      BY <2>1 DEF HooksInv, FacadeTypeOK
    <3>4. QED
      BY <3>1, <3>2, <3>3
  <2>3. QED
    BY <2>1, <2>2 DEF FacadeLeavesNoTrace, PrepareInv, WidthInv, Own, Wide
<1>2. QED
  BY <1>1, FacadeInvariant, PTL

\* No thread is scored or parsed by what another one installed, and the orders
\* that are retained are of a width of this process.
THEOREM CallersAreApart == FacadeSpec => []CallersDoNotMeet
<1>1. FacadeInv => CallersDoNotMeet
  BY DEF FacadeInv, DeepInv, UsedInv, WorkInv, CallersDoNotMeet, Own
<1>2. QED
  BY <1>1, FacadeInvariant, PTL
-----------------------------------------------------------------------------
(* Runs of the solver: the invariant *)

Lexical == {"policy", "base", "augment", "savePolicy"}
Ranking == {"hash", "ngrams", "root", "trees", "lookup", "wordnet", "archive", "unpack", "copy",
            "load", "prepared", "parse", "bigrams", "export", "save", "publishRanking"}
Named == {"candidates", "generate", "publish", "verify"} \cup Ranking
Places == {"idle", "done", "dictionary", "download", "stamps"} \cup Lexical \cup Named

Rowsets == [content : File, lexicon : SUBSET WordNet]
Payloads ==
  [content : File, options : STRING \cup {"none"}, lexicon : SUBSET WordNet, rows : 0 .. Rows]
Seen == [content : File, bigrams : BOOLEAN, archive : BOOLEAN, trees : [Trees -> SUBSET WordNet]]
RunStates ==
  [at : Places, request : Requests \cup {NoRun.request}, child : BOOLEAN,
   stamp : File, token : File, text : File, todo : SUBSET (WordNet \cup Trees), torn : BOOLEAN,
   tree : Trees, lexicon : SUBSET WordNet, made : Rowsets,
   rowsKey : [run : File, content : File, lexicon : SUBSET WordNet],
   seen : Seen, ranking : Payloads]

\* Types of what the shared files and a run hold.
FilesTyped ==
  /\ dictionary \in Content \cup {"none"} /\ augmented \in Content \cup {"none"}
  /\ policy \in File /\ candidates \in [Content -> File]
  /\ \A k \in DOMAIN prepared : prepared[k] \in Rowsets
  /\ \A k \in DOMAIN rankings : rankings[k] \in Payloads
  /\ trees \in [Trees -> SUBSET WordNet]
  /\ archive \in BOOLEAN /\ bigrams \in BOOLEAN /\ crossed \in BOOLEAN
RunsTypeOK == FilesTyped /\ run \in [Processes -> RunStates]

\* Unless a derivation was crossed, the policy is of a version that has been the
\* dictionary, and with the stamps of the present one it stands beside that one's
\* augmented dictionary.
Vouching ==
  /\ \A i, j \in DOMAIN Versions : policy = Versions[j] /\ dictionary = Versions[i] => j <= i
  /\ dictionary = "none" => policy \notin Content
  /\ policy = dictionary /\ dictionary \in Content => augmented = dictionary
LexiconInv == crossed \/ Vouching

\* Whole files are what their names say.
FilesInv ==
  /\ CachedFilesMatchTheirKeys
  /\ \A k \in DOMAIN rankings : rankings[k].rows \in {0, Rows}
  /\ crossed \/ \A k \in DOMAIN prepared :
                  prepared[k] # NoRows => prepared[k].content = k.content

\* Whatever there is of WordNet came out of the archive.
ArchiveInv == (\E t \in Trees : trees[t] # {}) => archive

\* What a run may take for granted at each place, whatever the others do.
Sure(p) ==
  LET r == run[p] IN
  /\ r.at # "idle" => r.request \in Requests
  /\ r.at \in {"stamps"} \cup Lexical \cup Named \/ r.child => dictionary \in Content
  /\ r.at \in Lexical => r.stamp \in Content
  /\ r.at \in Named \/ r.child => r.token \in Content
  /\ r.at = "download" => ~r.child
  /\ r.at \in {"augment", "publish"} => r.text \in Content
  /\ r.at \in {"savePolicy", "generate"} => augmented \in Content
  /\ r.at \in {"unpack", "copy", "prepared", "parse", "bigrams", "export"} => archive
  /\ r.at = "export" => bigrams
  /\ r.at \in {"unpack", "copy"} => r.todo \subseteq WordNet

\* The reranker's export has been read.
Exported(r) == r.at # "done" /\ r.ranking # NoPayload

\* What a run is about to save or has shown, and what its key has seen by then.
KnowsRanking(p) ==
  LET r == run[p] IN
  /\ r.at \in {"save", "publishRanking"} => Exported(r)
  /\ Exported(r) => r.at \in Ranking
  /\ Exported(r) =>
       /\ bigrams /\ archive
       /\ r.ranking.options = r.request.options /\ r.ranking.rows = Rows
       /\ r.at \in {"root", "trees", "save"} => r.seen.bigrams
       /\ r.at \in {"trees", "save"} => r.seen.archive
  /\ r.at = "done" /\ Generated(r.ranking.content) > 0 =>
       r.ranking.options = r.request.options /\ r.ranking.rows = r.request.top

\* What a run relies on unless a derivation was crossed: up to its generation the
\* dictionary is the one it has stamped, and from then on everything is of the
\* version its directory is named by.
Tracks(p) ==
  LET r == run[p] IN
  /\ r.at \in Lexical => r.stamp = dictionary
  /\ Deriving(p) /\ (r.child \/ r.at \in {"candidates", "generate"}) => r.token = dictionary
  /\ r.at = "augment" => r.text = dictionary
  /\ r.at \in {"savePolicy", "generate"} => augmented = dictionary
  /\ r.at = "publish" => r.text = r.token
  /\ r.at \in Ranking => candidates[r.token] = r.token
  /\ r.at \in {"ngrams", "root", "trees", "lookup", "save"} => r.seen.content = r.token
  /\ r.at = "parse" => r.rowsKey.content = r.token
  /\ r.at \in {"bigrams", "export"} => r.made.content = r.token
  /\ Exported(r) \/ r.at = "done" => r.ranking.content = r.token

RunInv(p) == Sure(p) /\ KnowsRanking(p) /\ (crossed \/ Tracks(p))

RunsInv ==
  RunsTypeOK /\ LexiconInv /\ FilesInv /\ ArchiveInv /\ \A p \in Processes : RunInv(p)

-----------------------------------------------------------------------------
(* What every step relies on *)

\* A version is neither of the marks, and has one place among the versions.
LEMMA VersionFacts ==
  /\ "none" \notin Content /\ "damaged" \notin Content
  /\ \A v \in Content : \E i \in DOMAIN Versions : v = Versions[i]
  /\ \A i \in DOMAIN Versions : Versions[i] \in Content
  /\ \A i, j \in DOMAIN Versions : Versions[i] = Versions[j] => i = j
  BY RunsShape DEF Content, Range, IsInjective

\* The state no run starts from.
LEMMA NoRunFacts ==
  /\ NoRun \in RunStates /\ NoRun.at = "idle" /\ ~NoRun.child
  /\ NoRun.ranking = NoPayload /\ NoPayload \in Payloads /\ NoRows \in Rowsets /\ NoSeen \in Seen
  <1>1. NoPayload \in Payloads /\ NoRows \in Rowsets /\ NoSeen \in Seen
    BY RunsShape DEF NoPayload, Payloads, File, NoRows, Rowsets, NoSeen, Seen
  <1>2. NoRowsKey \in [run : File, content : File, lexicon : SUBSET WordNet]
    BY DEF NoRowsKey, File
  <1>3. NoRun \in RunStates
    BY <1>1, <1>2 DEF NoRun, RunStates, Places, File, Trees
  <1>4. QED
    BY <1>1, <1>3 DEF NoRun

\* The files the invariant speaks of, and whether a derivation was crossed.
sharedFiles ==
  <<dictionary, augmented, policy, candidates, prepared, rankings, archive, trees, bigrams, crossed>>

\* One run moves on.
Moves(p, r) == run' = [run EXCEPT ![p] = r]

\* A run that stays where it is, but may be told that its copy is torn.
Stays(q) ==
  /\ run'[q] \in RunStates
  /\ run'[q].at = run[q].at /\ run'[q].request = run[q].request
  /\ run'[q].child = run[q].child /\ run'[q].stamp = run[q].stamp
  /\ run'[q].token = run[q].token /\ run'[q].text = run[q].text /\ run'[q].todo = run[q].todo
  /\ run'[q].made = run[q].made /\ run'[q].rowsKey = run[q].rowsKey
  /\ run'[q].seen = run[q].seen /\ run'[q].ranking = run[q].ranking

LEMMA OneMoves ==
  ASSUME run \in [Processes -> RunStates], NEW p \in Processes, NEW r \in RunStates, Moves(p, r)
  PROVE  /\ run' \in [Processes -> RunStates] /\ run'[p] = r
         /\ \A q \in Processes \ {p} : Stays(q)
  BY DEF Moves, Stays

\* Nothing that was there is gone, and unless a derivation is crossed, the
\* dictionary and what is derived from it keep to those who derive.
Grows ==
  /\ dictionary \in Content => dictionary' \in Content
  /\ augmented \in Content => augmented' \in Content
  /\ bigrams => bigrams'
  /\ archive => archive'
  /\ crossed => crossed'
  /\ ~crossed' =>
       /\ dictionary' = dictionary \/ \A q \in Processes : ~Deriving(q)
       /\ dictionary' = dictionary /\ augmented = dictionary => augmented' = dictionary
       /\ \A v \in Content : candidates[v] = v => candidates'[v] = v

\* What a run knows stays true while it stays where it is.
LEMMA OthersKeep ==
  ASSUME RunsInv, Grows, NEW q \in Processes, Stays(q)
  PROVE  RunInv(q)'
  <1>1. RunInv(q)
    BY DEF RunsInv
  <1>2. Sure(q)'
    BY <1>1 DEF RunInv, Sure, Stays, Grows
  <1>3. Exported(run'[q]) <=> Exported(run[q])
    BY DEF Exported, Stays
  <1>4. KnowsRanking(q)'
    BY <1>1, <1>3 DEF RunInv, KnowsRanking, Stays, Grows
  <1>5. ASSUME ~crossed' PROVE Tracks(q)'
    <2>1. Tracks(q) /\ ~crossed
      BY <1>1, <1>5 DEF RunInv, Grows
    <2>2. Deriving(q)' <=> Deriving(q)
      BY DEF Deriving, Stays
    <2>3. \/ dictionary' = dictionary
          \/ /\ run[q].at \notin Lexical \cup {"candidates", "generate"} /\ ~Deriving(q)
      BY <1>5 DEF Grows, Deriving, Lexical
    <2>4. run[q].at \in Ranking => run[q].token \in Content
      BY <1>1 DEF RunInv, Sure, Named
    <2>5. CASE dictionary' = dictionary
      BY <1>3, <1>5, <2>1, <2>2, <2>4, <2>5 DEF Tracks, Stays, Grows
    <2>6. CASE run[q].at \notin Lexical \cup {"candidates", "generate"} /\ ~Deriving(q)
      BY <1>3, <1>5, <2>1, <2>2, <2>4, <2>6 DEF Tracks, Stays, Grows, Lexical
    <2>7. QED
      BY <2>3, <2>5, <2>6
  <1>6. QED
    BY <1>2, <1>4, <1>5 DEF RunInv

\* When no file changes a step has only to account for what its own run knows.
LEMMA QuietMove ==
  ASSUME RunsInv, UNCHANGED sharedFiles, NEW p \in Processes, NEW r \in RunStates,
         Moves(p, r), RunInv(p)'
  PROVE  RunsInv'
  <1>1. /\ dictionary' = dictionary /\ augmented' = augmented /\ policy' = policy
        /\ candidates' = candidates /\ prepared' = prepared /\ rankings' = rankings
        /\ archive' = archive /\ trees' = trees /\ bigrams' = bigrams /\ crossed' = crossed
    BY DEF sharedFiles
  <1>2. run' \in [Processes -> RunStates] /\ \A q \in Processes \ {p} : RunInv(q)'
    <2>1. Grows
      BY <1>1 DEF Grows
    <2>2. QED
      BY <2>1, OneMoves, OthersKeep DEF RunsInv, RunsTypeOK
  <1>3. RunsTypeOK'
    BY <1>1, <1>2 DEF RunsInv, RunsTypeOK, FilesTyped
  <1>4. LexiconInv' /\ FilesInv' /\ ArchiveInv'
    BY <1>1 DEF RunsInv, LexiconInv, Vouching, FilesInv, ArchiveInv, CachedFilesMatchTheirKeys,
                CandidatesMatchTheirRun, RankingsMatchTheirKeys
  <1>5. QED
    BY <1>2, <1>3, <1>4 DEF RunsInv

-----------------------------------------------------------------------------
(* Steps that change no shared file *)

\* What a run has been asked for and found out, kept by a step of its own.
KeepsOrders(p, r) ==
  r.request = run[p].request /\ r.child = run[p].child /\ r.stamp = run[p].stamp
  /\ r.token = run[p].token
KeepsWork(p, r) ==
  r.text = run[p].text /\ r.made = run[p].made /\ r.rowsKey = run[p].rowsKey
  /\ r.seen = run[p].seen /\ r.ranking = run[p].ranking

\* The state of a run that only goes to another place.
Placed(p, place) == [run[p] EXCEPT !.at = place]

LEMMA PlacedFacts ==
  ASSUME RunsInv, NEW p \in Processes, NEW place \in Places
  PROVE  /\ Placed(p, place) \in RunStates /\ Placed(p, place).at = place
         /\ KeepsOrders(p, Placed(p, place)) /\ KeepsWork(p, Placed(p, place))
  <1>1. run[p] \in RunStates
    BY DEF RunsInv, RunsTypeOK
  <1>2. QED
    BY <1>1 DEF Placed, RunStates, KeepsOrders, KeepsWork

\* A run that is stopped, or that fails, knows nothing any more.
LEMMA GivingUpKeeps ==
  ASSUME RunsInv, UNCHANGED sharedFiles, NEW p \in Processes, Moves(p, NoRun)
  PROVE  RunsInv'
  <1>1. run'[p] = NoRun
    BY OneMoves, NoRunFacts DEF RunsInv, RunsTypeOK
  <1>2. RunInv(p)'
    BY <1>1, NoRunFacts DEF RunInv, Sure, KnowsRanking, Tracks, Exported, Deriving, Lexical,
                            Named, Ranking
  <1>3. QED
    BY <1>2, NoRunFacts, QuietMove

\* A run may be stopped anywhere.
LEMMA StopKeeps == ASSUME RunsInv, NEW p \in Processes, Stop(p) PROVE RunsInv'
  BY GivingUpKeeps DEF Stop, Moves, sharedFiles, lexiconFiles, resultFiles, corpora

\* A run begins with nothing but its request.
LEMMA BeginKeeps ==
  ASSUME RunsInv, NEW p \in Processes, NEW request \in Requests, Begin(p, request)
  PROVE  RunsInv'
  <1> DEFINE r == [NoRun EXCEPT !.at = "dictionary", !.request = request]
  <1>1. /\ r \in RunStates /\ r.at = "dictionary" /\ r.request = request /\ ~r.child
        /\ r.ranking = NoPayload
    BY NoRunFacts DEF RunStates, Places
  <1>2. Moves(p, r) /\ UNCHANGED sharedFiles
    BY DEF Begin, Moves, sharedFiles, lexiconFiles, resultFiles, corpora
  <1> HIDE DEF r
  <1>3. run'[p] = r
    BY <1>1, <1>2, OneMoves DEF RunsInv, RunsTypeOK
  <1>4. RunInv(p)'
    BY <1>1, <1>3 DEF RunInv, Sure, KnowsRanking, Tracks, Exported, Deriving, Lexical, Named,
                      Ranking
  <1>5. QED
    BY <1>1, <1>2, <1>4, QuietMove

\* A run that finds a dictionary goes on with it; a run of the generator finds
\* the one its frontend had.
LEMMA FindDictionaryKeeps == ASSUME RunsInv, NEW p \in Processes, FindDictionary(p) PROVE RunsInv'
  <1>1. run[p].at = "dictionary" /\ UNCHANGED sharedFiles /\ RunInv(p)
    BY DEF FindDictionary, At, sharedFiles, lexiconFiles, resultFiles, corpora, RunsInv
  <1>2. PICK place \in {"download", "stamps"} :
          /\ Moves(p, Placed(p, place))
          /\ dictionary = "none" => place = "download"
          /\ dictionary # "none" => place = "stamps"
    BY DEF FindDictionary, Goes, Moves, Placed
  <1> DEFINE r == Placed(p, place)
  <1>3. r \in RunStates /\ r.at = place /\ KeepsOrders(p, r) /\ KeepsWork(p, r)
    BY PlacedFacts DEF Places
  <1>4. Moves(p, r)
    BY <1>2
  <1> HIDE DEF r
  <1>5. run'[p] = r /\ dictionary' = dictionary /\ bigrams' = bigrams /\ archive' = archive
        /\ crossed' = crossed /\ dictionary \in Content \cup {"none"}
    BY <1>1, <1>3, <1>4, OneMoves DEF RunsInv, RunsTypeOK, FilesTyped, sharedFiles
  <1>6. RunInv(p)'
    BY <1>1, <1>2, <1>3, <1>5, VersionFacts
       DEF RunInv, Sure, KnowsRanking, Tracks, Exported, Deriving, Lexical, Named, Ranking,
           KeepsOrders, KeepsWork
  <1>7. QED
    BY <1>1, <1>3, <1>4, <1>6, QuietMove

\* The stamps that are read are those of the dictionary.
LEMMA ReadStampsKeeps == ASSUME RunsInv, NEW p \in Processes, ReadStamps(p) PROVE RunsInv'
  <1> DEFINE r == [run[p] EXCEPT !.at = "policy", !.stamp = dictionary]
  <1>1. /\ run[p] \in RunStates /\ run[p].at = "stamps" /\ UNCHANGED sharedFiles /\ RunInv(p)
        /\ dictionary \in Content
    BY DEF ReadStamps, At, RunsInv, RunsTypeOK, RunInv, Sure, sharedFiles, lexiconFiles,
           resultFiles, corpora
  <1>2. /\ r \in RunStates /\ r.at = "policy" /\ r.stamp = dictionary
        /\ r.request = run[p].request /\ r.child = run[p].child /\ r.token = run[p].token
        /\ KeepsWork(p, r)
    BY <1>1 DEF RunStates, Places, Lexical, KeepsWork, File
  <1>3. Moves(p, r)
    BY <1>1 DEF ReadStamps, Moves, RunsInv, RunsTypeOK
  <1> HIDE DEF r
  <1>4. run'[p] = r /\ dictionary' = dictionary /\ bigrams' = bigrams /\ archive' = archive
        /\ crossed' = crossed
    BY <1>1, <1>2, <1>3, OneMoves DEF RunsInv, RunsTypeOK, sharedFiles
  <1>5. RunInv(p)'
    BY <1>1, <1>2, <1>4
       DEF RunInv, Sure, KnowsRanking, Tracks, Exported, Deriving, Lexical, Named, Ranking,
           KeepsWork
  <1>6. QED
    BY <1>1, <1>2, <1>3, <1>5, QuietMove

\* The lexicon is there for the frontend, which names its directory by it, or for
\* the generator, which reads the augmented dictionary.
LEMMA ReadyFacts ==
  ASSUME RunsInv, NEW p \in Processes, run[p].at \in {"policy", "savePolicy"}, LexiconReady(p)
  PROVE  \E r \in RunStates :
            /\ Moves(p, r) /\ r.request = run[p].request /\ r.child = run[p].child
            /\ KeepsWork(p, r)
            /\ \/ r.child /\ r.at = "generate" /\ r.token = run[p].token
               \/ ~r.child /\ r.at = "candidates" /\ r.token = run[p].stamp
  <1>1. run[p] \in RunStates
    BY DEF RunsInv, RunsTypeOK
  <1>2. CASE run[p].child
    <2> DEFINE r == [run[p] EXCEPT !.at = "generate"]
    <2>1. /\ r \in RunStates /\ r.at = "generate" /\ r.request = run[p].request
          /\ r.child = run[p].child /\ r.token = run[p].token /\ KeepsWork(p, r)
      BY <1>1 DEF RunStates, Places, Named, KeepsWork
    <2>2. Moves(p, r)
      BY <1>2 DEF LexiconReady, Moves, RunsInv, RunsTypeOK
    <2> HIDE DEF r
    <2>3. QED
      BY <1>2, <2>1, <2>2
  <1>3. CASE ~run[p].child
    <2> DEFINE r == [run[p] EXCEPT !.at = "candidates", !.token = run[p].stamp]
    <2>1. /\ r \in RunStates /\ r.at = "candidates" /\ r.request = run[p].request
          /\ r.child = run[p].child /\ r.token = run[p].stamp /\ KeepsWork(p, r)
      BY <1>1 DEF RunStates, Places, Named, KeepsWork
    <2>2. Moves(p, r)
      BY <1>3 DEF LexiconReady, Moves, RunsInv, RunsTypeOK
    <2> HIDE DEF r
    <2>3. QED
      BY <1>3, <2>1, <2>2
  <1>4. QED
    BY <1>2, <1>3

\* A policy with the stamps of the dictionary stands beside its augmented one.
LEMMA LoadPolicyKeeps == ASSUME RunsInv, NEW p \in Processes, LoadPolicy(p) PROVE RunsInv'
  <1>1. /\ run[p] \in RunStates /\ run[p].at = "policy" /\ UNCHANGED sharedFiles /\ RunInv(p)
        /\ augmented \in Content \cup {"none"}
    BY DEF LoadPolicy, At, RunsInv, RunsTypeOK, FilesTyped, sharedFiles, lexiconFiles, resultFiles,
           corpora
  <1>2. /\ run[p].stamp \in Content /\ dictionary \in Content
        /\ crossed \/ run[p].stamp = dictionary
    BY <1>1 DEF RunInv, Sure, Tracks, Lexical
  <1>3. CASE PolicyIsCurrent(run[p].stamp) /\ LexiconReady(p)
    <2>1. PICK r \in RunStates :
            /\ Moves(p, r) /\ r.request = run[p].request /\ r.child = run[p].child
            /\ KeepsWork(p, r)
            /\ \/ r.child /\ r.at = "generate" /\ r.token = run[p].token
               \/ ~r.child /\ r.at = "candidates" /\ r.token = run[p].stamp
      BY <1>1, <1>3, ReadyFacts
    <2>2. /\ run'[p] = r /\ dictionary' = dictionary /\ augmented' = augmented
          /\ bigrams' = bigrams /\ archive' = archive /\ crossed' = crossed
      BY <1>1, <2>1, OneMoves DEF RunsInv, RunsTypeOK, sharedFiles
    <2>3. augmented \in Content /\ (crossed \/ augmented = dictionary)
      BY <1>1, <1>2, <1>3 DEF PolicyIsCurrent, RunsInv, LexiconInv, Vouching
    <2>4. RunInv(p)'
      <3>1. Sure(p)' /\ KnowsRanking(p)'
        BY <1>1, <1>2, <2>1, <2>2, <2>3
           DEF RunInv, Sure, KnowsRanking, Exported, Lexical, Named, Ranking, KeepsWork
      <3>2. ASSUME ~crossed PROVE r.token = dictionary
        BY <1>1, <1>2, <2>1, <3>2 DEF RunInv, Tracks, Deriving
      <3>3. ASSUME ~crossed PROVE Tracks(p)'
        <4>1. ~Exported(r)
          BY <1>1, <2>1 DEF RunInv, KnowsRanking, Exported, KeepsWork, Ranking
        <4>2. QED
          BY <1>1, <2>1, <2>2, <2>3, <3>2, <3>3, <4>1
             DEF RunInv, Tracks, Exported, Lexical, Ranking, KeepsWork
      <3>4. QED
        BY <2>2, <3>1, <3>3 DEF RunInv
    <2>5. QED
      BY <1>1, <2>1, <2>4, QuietMove
  <1>4. CASE Goes(p, "base")
    <2> DEFINE r == Placed(p, "base")
    <2>1. /\ r \in RunStates /\ r.at = "base" /\ KeepsOrders(p, r) /\ KeepsWork(p, r)
      BY PlacedFacts DEF Places, Lexical
    <2>2. Moves(p, r)
      BY <1>4 DEF Goes, Moves, Placed
    <2> HIDE DEF r
    <2>3. /\ run'[p] = r /\ dictionary' = dictionary /\ bigrams' = bigrams
          /\ archive' = archive /\ crossed' = crossed
      BY <1>1, <2>1, <2>2, OneMoves DEF RunsInv, RunsTypeOK, sharedFiles
    <2>4. RunInv(p)'
      BY <1>1, <2>1, <2>3
         DEF RunInv, Sure, KnowsRanking, Tracks, Exported, Deriving, Lexical, Named, Ranking,
             KeepsOrders, KeepsWork
    <2>5. QED
      BY <1>1, <2>1, <2>2, <2>4, QuietMove
  <1>5. QED
    BY <1>3, <1>4 DEF LoadPolicy

\* What is read to be augmented is the dictionary.
LEMMA ReadBaseKeeps == ASSUME RunsInv, NEW p \in Processes, ReadBase(p) PROVE RunsInv'
  <1> DEFINE r == [run[p] EXCEPT !.at = "augment", !.text = dictionary]
  <1>1. /\ run[p] \in RunStates /\ run[p].at = "base" /\ UNCHANGED sharedFiles /\ RunInv(p)
        /\ dictionary \in Content
    BY DEF ReadBase, At, RunsInv, RunsTypeOK, RunInv, Sure, Lexical, sharedFiles, lexiconFiles,
           resultFiles, corpora
  <1>2. /\ r \in RunStates /\ r.at = "augment" /\ r.text = dictionary /\ KeepsOrders(p, r)
        /\ r.ranking = run[p].ranking
    BY <1>1 DEF RunStates, Places, Lexical, KeepsOrders, File
  <1>3. Moves(p, r)
    BY <1>1 DEF ReadBase, Moves, RunsInv, RunsTypeOK
  <1> HIDE DEF r
  <1>4. run'[p] = r /\ dictionary' = dictionary /\ bigrams' = bigrams /\ archive' = archive
        /\ crossed' = crossed
    BY <1>1, <1>2, <1>3, OneMoves DEF RunsInv, RunsTypeOK, sharedFiles
  <1>5. RunInv(p)'
    BY <1>1, <1>2, <1>4
       DEF RunInv, Sure, KnowsRanking, Tracks, Exported, Deriving, Lexical, Named, Ranking,
           KeepsOrders
  <1>6. QED
    BY <1>1, <1>2, <1>3, <1>5, QuietMove

\* A whole export of the run's directory is summarised; one without bags ends it.
LEMMA SummarisedKeeps ==
  ASSUME RunsInv, UNCHANGED sharedFiles, NEW p \in Processes,
         run[p].at \in {"candidates", "verify"}, Whole(candidates[run[p].token]), Summarised(p)
  PROVE  RunsInv'
  <1> DEFINE file == candidates[run[p].token]
  <1>1. /\ run[p] \in RunStates /\ run[p].request \in Requests /\ RunInv(p)
        /\ run[p].token \in Content /\ file \in Content
        /\ crossed \/ file = run[p].token
    BY VersionFacts
       DEF RunsInv, RunsTypeOK, RunInv, Sure, Named, Whole, FilesInv, CachedFilesMatchTheirKeys,
           CandidatesMatchTheirRun
  <1>2. /\ dictionary' = dictionary /\ candidates' = candidates /\ bigrams' = bigrams
        /\ archive' = archive /\ crossed' = crossed
    BY DEF sharedFiles
  <1>3. CASE Generated(file) = 0
    <2> DEFINE r == Done(p, [NoPayload EXCEPT !.content = file])
    <2>1. [NoPayload EXCEPT !.content = file] \in Payloads
      BY <1>1, NoRunFacts DEF Payloads, File
    <2>2. /\ r \in RunStates /\ r.at = "done" /\ r.request = run[p].request
          /\ r.token = run[p].token /\ r.ranking.content = file /\ ~r.child
      BY <1>1, <2>1, NoRunFacts DEF Done, RunStates, Places, Payloads
    <2>3. Moves(p, r)
      BY <1>3 DEF Summarised, Moves
    <2> HIDE DEF r
    <2>4. run'[p] = r
      BY <2>2, <2>3, OneMoves DEF RunsInv, RunsTypeOK
    <2>5. RunInv(p)'
      BY <1>1, <1>2, <1>3, <2>2, <2>4
         DEF RunInv, Sure, KnowsRanking, Tracks, Exported, Deriving, Lexical, Named, Ranking
    <2>6. QED
      BY <2>2, <2>3, <2>5, QuietMove
  <1>4. CASE Generated(file) # 0
    <2> DEFINE r == Placed(p, "hash")
    <2>1. r \in RunStates /\ r.at = "hash" /\ KeepsOrders(p, r) /\ KeepsWork(p, r)
      BY PlacedFacts DEF Places, Named, Ranking
    <2>2. Moves(p, r)
      BY <1>1, <1>4 DEF Summarised, Moves, Placed, RunsInv, RunsTypeOK
    <2> HIDE DEF r
    <2>3. run'[p] = r
      BY <2>1, <2>2, OneMoves DEF RunsInv, RunsTypeOK
    <2>4. RunInv(p)'
      BY <1>1, <1>2, <2>1, <2>3
         DEF RunInv, Sure, KnowsRanking, Tracks, Exported, Deriving, Lexical, Named, Ranking,
             KeepsOrders, KeepsWork
    <2>5. QED
      BY <2>1, <2>2, <2>4, QuietMove
  <1>5. QED
    BY <1>3, <1>4

\* The run looks for an export in its own directory, or starts the generator.
LEMMA FindCandidatesKeeps == ASSUME RunsInv, NEW p \in Processes, FindCandidates(p) PROVE RunsInv'
  <1>1. /\ run[p] \in RunStates /\ run[p].at = "candidates" /\ UNCHANGED sharedFiles /\ RunInv(p)
    BY DEF FindCandidates, At, RunsInv, RunsTypeOK, sharedFiles, lexiconFiles, resultFiles, corpora
  <1>2. CASE Whole(candidates[run[p].token]) /\ Summarised(p)
    BY <1>1, <1>2, SummarisedKeeps
  <1>3. CASE run' = [run EXCEPT ![p].at = "dictionary", ![p].child = TRUE]
    <2> DEFINE r == [run[p] EXCEPT !.at = "dictionary", !.child = TRUE]
    <2>1. /\ r \in RunStates /\ r.at = "dictionary" /\ r.request = run[p].request /\ r.child
          /\ r.token = run[p].token /\ KeepsWork(p, r)
      BY <1>1 DEF RunStates, Places, KeepsWork
    <2>2. Moves(p, r)
      BY <1>1, <1>3 DEF Moves, RunsInv, RunsTypeOK
    <2> HIDE DEF r
    <2>3. /\ run'[p] = r /\ dictionary' = dictionary /\ bigrams' = bigrams
          /\ archive' = archive /\ crossed' = crossed
      BY <1>1, <2>1, <2>2, OneMoves DEF RunsInv, RunsTypeOK, sharedFiles
    <2>4. RunInv(p)'
      BY <1>1, <2>1, <2>3
         DEF RunInv, Sure, KnowsRanking, Tracks, Exported, Deriving, Lexical, Named, Ranking,
             KeepsWork
    <2>5. QED
      BY <1>1, <2>1, <2>2, <2>4, QuietMove
  <1>4. QED
    BY <1>2, <1>3 DEF FindCandidates

\* The generator's export is made from the augmented dictionary.
LEMMA GenerateKeeps == ASSUME RunsInv, NEW p \in Processes, Generate(p) PROVE RunsInv'
  <1> DEFINE r == [run[p] EXCEPT !.at = "publish", !.text = augmented]
  <1>1. /\ run[p] \in RunStates /\ run[p].at = "generate" /\ UNCHANGED sharedFiles /\ RunInv(p)
        /\ augmented \in Content
    BY DEF Generate, At, RunsInv, RunsTypeOK, RunInv, Sure, sharedFiles, lexiconFiles,
           resultFiles, corpora
  <1>2. /\ r \in RunStates /\ r.at = "publish" /\ r.text = augmented /\ KeepsOrders(p, r)
        /\ r.ranking = run[p].ranking
    BY <1>1 DEF RunStates, Places, Named, KeepsOrders, File
  <1>3. Moves(p, r)
    BY <1>1 DEF Generate, Moves, RunsInv, RunsTypeOK
  <1> HIDE DEF r
  <1>4. run'[p] = r /\ dictionary' = dictionary /\ bigrams' = bigrams /\ archive' = archive
        /\ crossed' = crossed
    BY <1>1, <1>2, <1>3, OneMoves DEF RunsInv, RunsTypeOK, sharedFiles
  <1>5. RunInv(p)'
    BY <1>1, <1>2, <1>4
       DEF RunInv, Sure, KnowsRanking, Tracks, Exported, Deriving, Lexical, Named, Ranking,
           KeepsOrders
  <1>6. QED
    BY <1>1, <1>2, <1>3, <1>5, QuietMove

\* The run reads back what is published.
LEMMA VerifyKeeps == ASSUME RunsInv, NEW p \in Processes, Verify(p) PROVE RunsInv'
  <1>1. run[p].at = "verify" /\ UNCHANGED sharedFiles
    BY DEF Verify, At, sharedFiles, lexiconFiles, resultFiles, corpora
  <1>2. CASE Whole(candidates[run[p].token]) /\ Summarised(p)
    BY <1>1, <1>2, SummarisedKeeps
  <1>3. CASE Moves(p, NoRun)
    BY <1>1, <1>3, GivingUpKeeps
  <1>4. QED
    BY <1>2, <1>3 DEF Verify, Moves

-----------------------------------------------------------------------------
(* Steps of the ranking that change no shared file *)

\* What a run with candidates of its own starts from.
LEMMA RankingFacts ==
  ASSUME RunsInv, NEW p \in Processes, run[p].at \in Ranking
  PROVE  /\ run[p] \in RunStates /\ run[p].request \in Requests /\ RunInv(p)
         /\ run[p].token \in Content /\ dictionary \in Content /\ run[p].token \in File
         /\ crossed \/ candidates[run[p].token] = run[p].token
         /\ candidates[run[p].token] \in File
         /\ run[p].request.top \in 1 .. Rows /\ run[p].request.options \in STRING
         /\ Rows \in Nat \ {0} /\ p \in Trees
  <1>1. run[p] \in RunStates /\ RunInv(p) /\ run[p].at \in Named /\ run[p].at # "idle"
    BY DEF RunsInv, RunsTypeOK, Named, Ranking
  <1>2. /\ run[p].request \in Requests /\ run[p].token \in Content /\ dictionary \in Content
        /\ crossed \/ candidates[run[p].token] = run[p].token
    BY <1>1 DEF RunInv, Sure, Tracks
  <1>3. candidates[run[p].token] \in File /\ run[p].token \in File
    BY <1>2 DEF RunsInv, RunsTypeOK, FilesTyped, File
  <1>4. QED
    BY <1>1, <1>2, <1>3, RunsShape DEF Trees

\* The files and the run after a step that changes no file.
LEMMA QuietFacts ==
  ASSUME RunsInv, UNCHANGED sharedFiles, NEW p \in Processes, NEW r \in RunStates, Moves(p, r)
  PROVE  /\ run'[p] = r /\ dictionary' = dictionary /\ augmented' = augmented
         /\ candidates' = candidates /\ bigrams' = bigrams /\ archive' = archive
         /\ crossed' = crossed
  BY OneMoves DEF RunsInv, RunsTypeOK, sharedFiles

\* A key begins with the rows that are in the run's directory.
LEMMA HashKeeps == ASSUME RunsInv, NEW p \in Processes, HashCandidates(p) PROVE RunsInv'
  <1> DEFINE file == candidates[run[p].token]
             seen == [NoSeen EXCEPT !.content = file]
             r == [run[p] EXCEPT !.at = "ngrams", !.seen = seen]
  <1>1. run[p].at = "hash" /\ run[p].at \in Ranking /\ UNCHANGED sharedFiles
    BY DEF HashCandidates, At, Ranking, sharedFiles, lexiconFiles, resultFiles, corpora
  <1>2. /\ run[p] \in RunStates /\ run[p].request \in Requests /\ RunInv(p)
        /\ file \in File /\ (crossed \/ file = run[p].token)
    BY <1>1, RankingFacts
  <1>3. Moves(p, r)
    BY <1>2 DEF HashCandidates, Moves, RunsInv, RunsTypeOK
  <1>4. seen \in Seen /\ seen.content = file
    BY <1>2, NoRunFacts DEF Seen
  <1> HIDE DEF seen
  <1>5. /\ r \in RunStates /\ r.at = "ngrams" /\ KeepsOrders(p, r) /\ r.seen = seen
        /\ r.ranking = run[p].ranking
    BY <1>2, <1>4 DEF RunStates, Places, Named, Ranking, KeepsOrders
  <1> HIDE DEF r
  <1>6. /\ run'[p] = r /\ dictionary' = dictionary /\ augmented' = augmented
        /\ candidates' = candidates /\ bigrams' = bigrams /\ archive' = archive
        /\ crossed' = crossed
    BY <1>1, <1>3, <1>5, QuietFacts
  <1>7. RunInv(p)'
    BY <1>1, <1>2, <1>4, <1>5, <1>6
       DEF RunInv, Sure, KnowsRanking, Tracks, Exported, Deriving, Lexical, Named, Ranking,
           KeepsOrders
  <1>8. QED
    BY <1>1, <1>3, <1>5, <1>7, QuietMove

\* A run that ranked has fetched its n-grams, and its key finds them.
LEMMA ListNgramsKeeps == ASSUME RunsInv, NEW p \in Processes, ListNgrams(p) PROVE RunsInv'
  <1> DEFINE r == [run[p] EXCEPT !.at = "root", !.seen.bigrams = bigrams]
  <1>1. run[p].at = "ngrams" /\ run[p].at \in Ranking /\ UNCHANGED sharedFiles
    BY DEF ListNgrams, At, Ranking, sharedFiles, lexiconFiles, resultFiles, corpora
  <1>2. /\ run[p] \in RunStates /\ run[p].request \in Requests /\ RunInv(p) /\ bigrams \in BOOLEAN
    BY <1>1, RankingFacts DEF RunsInv, RunsTypeOK, FilesTyped
  <1>3. Moves(p, r)
    BY <1>2 DEF ListNgrams, Moves, RunsInv, RunsTypeOK
  <1>4. /\ r \in RunStates /\ r.at = "root" /\ KeepsOrders(p, r) /\ r.ranking = run[p].ranking
        /\ r.seen.bigrams = bigrams /\ r.seen.content = run[p].seen.content
    BY <1>2 DEF RunStates, Places, Named, Ranking, KeepsOrders, Seen
  <1> HIDE DEF r
  <1>5. /\ run'[p] = r /\ dictionary' = dictionary /\ augmented' = augmented
        /\ candidates' = candidates /\ bigrams' = bigrams /\ archive' = archive
        /\ crossed' = crossed
    BY <1>1, <1>3, <1>4, QuietFacts
  <1>6. RunInv(p)'
    BY <1>1, <1>2, <1>4, <1>5
       DEF RunInv, Sure, KnowsRanking, Tracks, Exported, Deriving, Lexical, Named, Ranking,
           KeepsOrders
  <1>7. QED
    BY <1>1, <1>3, <1>4, <1>6, QuietMove

\* A run that ranked has read a WordNet, and its key finds the archive of it.
LEMMA ListRootKeeps == ASSUME RunsInv, NEW p \in Processes, ListRoot(p) PROVE RunsInv'
  <1> DEFINE seen == [run[p].seen EXCEPT !.archive = archive, !.trees[p] = trees[p]]
             r == [run[p] EXCEPT !.at = "trees", !.todo = Trees \ {p}, !.seen = seen]
  <1>1. run[p].at = "root" /\ run[p].at \in Ranking /\ UNCHANGED sharedFiles
    BY DEF ListRoot, At, Ranking, sharedFiles, lexiconFiles, resultFiles, corpora
  <1>2. /\ run[p] \in RunStates /\ run[p].request \in Requests /\ RunInv(p)
        /\ archive \in BOOLEAN /\ p \in Trees /\ trees[p] \in SUBSET WordNet
    BY <1>1, RankingFacts DEF RunsInv, RunsTypeOK, FilesTyped
  <1>3. Moves(p, r)
    BY <1>2 DEF ListRoot, Moves, RunsInv, RunsTypeOK, RunStates, Seen
  <1>4. /\ seen \in Seen /\ seen.archive = archive /\ seen.bigrams = run[p].seen.bigrams
        /\ seen.content = run[p].seen.content
    BY <1>2 DEF RunStates, Seen
  <1> HIDE DEF seen
  <1>5. /\ r \in RunStates /\ r.at = "trees" /\ KeepsOrders(p, r) /\ r.ranking = run[p].ranking
        /\ r.seen = seen
    BY <1>2, <1>4 DEF RunStates, Places, Named, Ranking, KeepsOrders
  <1> HIDE DEF r
  <1>6. /\ run'[p] = r /\ dictionary' = dictionary /\ augmented' = augmented
        /\ candidates' = candidates /\ bigrams' = bigrams /\ archive' = archive
        /\ crossed' = crossed
    BY <1>1, <1>3, <1>5, QuietFacts
  <1>7. RunInv(p)'
    BY <1>1, <1>2, <1>4, <1>5, <1>6
       DEF RunInv, Sure, KnowsRanking, Tracks, Exported, Deriving, Lexical, Named, Ranking,
           KeepsOrders
  <1>8. QED
    BY <1>1, <1>3, <1>5, <1>7, QuietMove

\* The key is complete once the last directory has been looked at.
LEMMA ListTreeKeeps == ASSUME RunsInv, NEW p \in Processes, ListTree(p) PROVE RunsInv'
  <1>1. run[p].at = "trees" /\ run[p].at \in Ranking /\ UNCHANGED sharedFiles
    BY DEF ListTree, At, Ranking, sharedFiles, lexiconFiles, resultFiles, corpora
  <1>2. run[p] \in RunStates /\ run[p].request \in Requests /\ RunInv(p)
    BY <1>1, RankingFacts
  <1>3. PICK t \in run[p].todo :
          run' = [run EXCEPT
              ![p].todo = @ \ {t}, ![p].seen.trees[t] = trees[t],
              ![p].at = IF run[p].todo # {t} THEN "trees"
                        ELSE IF run[p].ranking = NoPayload THEN "lookup" ELSE "save"]
    BY DEF ListTree
  <1> DEFINE place == IF run[p].todo # {t} THEN "trees"
                      ELSE IF run[p].ranking = NoPayload THEN "lookup" ELSE "save"
             seen == [run[p].seen EXCEPT !.trees[t] = trees[t]]
             r == [run[p] EXCEPT !.todo = run[p].todo \ {t}, !.seen = seen, !.at = place]
  <1>4. Moves(p, r)
    BY <1>2, <1>3 DEF Moves, RunsInv, RunsTypeOK, RunStates, Seen
  <1>5. /\ seen \in Seen /\ seen.archive = run[p].seen.archive
        /\ seen.bigrams = run[p].seen.bigrams /\ seen.content = run[p].seen.content
    <2>1. run[p].seen \in Seen /\ (t \in Trees => trees[t] \in SUBSET WordNet)
      BY <1>2 DEF RunStates, RunsInv, RunsTypeOK, FilesTyped
    <2>2. QED
      BY <2>1 DEF Seen
  <1>6. place \in {"trees", "lookup", "save"} /\ (place = "save" => run[p].ranking # NoPayload)
    OBVIOUS
  <1> HIDE DEF seen, place
  <1>7. /\ r \in RunStates /\ r.at = place /\ KeepsOrders(p, r) /\ r.ranking = run[p].ranking
        /\ r.seen = seen
    BY <1>2, <1>5, <1>6 DEF RunStates, Places, Named, Ranking, KeepsOrders
  <1> HIDE DEF r
  <1>8. /\ run'[p] = r /\ dictionary' = dictionary /\ augmented' = augmented
        /\ candidates' = candidates /\ bigrams' = bigrams /\ archive' = archive
        /\ crossed' = crossed
    BY <1>1, <1>4, <1>7, QuietFacts
  <1>9. RunInv(p)'
    BY <1>1, <1>2, <1>5, <1>6, <1>7, <1>8
       DEF RunInv, Sure, KnowsRanking, Tracks, Exported, Deriving, Lexical, Named, Ranking,
           KeepsOrders
  <1>10. QED
    BY <1>1, <1>4, <1>7, <1>9, QuietMove

\* All saved rows are there; the run shows as many as it was asked for.
LEMMA ShownFacts ==
  ASSUME NEW p \in Processes, NEW ranking \in Payloads, ranking.rows = Rows,
         run[p].request.top \in 1 .. Rows, Rows \in Nat
  PROVE  /\ Shown(p, ranking) \in Payloads /\ Shown(p, ranking).content = ranking.content
         /\ Shown(p, ranking).options = ranking.options
         /\ Shown(p, ranking).rows = run[p].request.top
  <1>1. ~(ranking.rows < run[p].request.top) /\ run[p].request.top \in 0 .. Rows
    OBVIOUS
  <1>2. Shown(p, ranking) = [ranking EXCEPT !.rows = run[p].request.top]
    BY <1>1 DEF Shown, Payloads
  <1>3. QED
    BY <1>1, <1>2 DEF Payloads

\* A run ends and shows a ranking under its options.
LEMMA AnswerKeeps ==
  ASSUME RunsInv, UNCHANGED sharedFiles, NEW p \in Processes, run[p].at \in Ranking,
         NEW ranking \in Payloads, ranking.rows = Rows,
         crossed \/ ranking.content = run[p].token, ranking.options = run[p].request.options,
         Moves(p, Done(p, Shown(p, ranking)))
  PROVE  RunsInv'
  <1>1. /\ run[p] \in RunStates /\ run[p].request \in Requests /\ RunInv(p)
        /\ run[p].request.top \in 1 .. Rows /\ Rows \in Nat
    BY RankingFacts
  <1> DEFINE shown == Shown(p, ranking)
             r == Done(p, shown)
  <1>2. /\ shown \in Payloads /\ shown.content = ranking.content
        /\ shown.options = run[p].request.options /\ shown.rows = run[p].request.top
    BY <1>1, ShownFacts
  <1> HIDE DEF shown
  <1>3. /\ r \in RunStates /\ r.at = "done" /\ r.request = run[p].request
        /\ r.token = run[p].token /\ r.ranking = shown /\ ~r.child
    BY <1>1, <1>2, NoRunFacts DEF Done, RunStates, Places
  <1>4. Moves(p, r)
    BY DEF shown
  <1> HIDE DEF r
  <1>5. /\ run'[p] = r /\ dictionary' = dictionary /\ augmented' = augmented
        /\ candidates' = candidates /\ bigrams' = bigrams /\ archive' = archive
        /\ crossed' = crossed
    BY <1>3, <1>4, QuietFacts
  <1>6. RunInv(p)'
    BY <1>1, <1>2, <1>3, <1>5
       DEF RunInv, Sure, KnowsRanking, Tracks, Exported, Deriving, Lexical, Named, Ranking
  <1>7. QED
    BY <1>3, <1>4, <1>6, QuietMove

\* A saved ranking that is found is one under the run's options.
LEMMA FindRankingKeeps == ASSUME RunsInv, NEW p \in Processes, FindRanking(p) PROVE RunsInv'
  <1> DEFINE key == RankingKey(p)
  <1>1. run[p].at = "lookup" /\ run[p].at \in Ranking /\ UNCHANGED sharedFiles
    BY DEF FindRanking, At, Ranking, sharedFiles, lexiconFiles, resultFiles, corpora
  <1>2. /\ run[p] \in RunStates /\ run[p].request \in Requests /\ RunInv(p)
        /\ Rows \in Nat \ {0}
    BY <1>1, RankingFacts
  <1>3. /\ crossed \/ key.content = run[p].token
        /\ key.options = run[p].request.options
    BY <1>1, <1>2 DEF RankingKey, RunInv, Tracks
  <1>4. CASE Readable(key) /\ Moves(p, Done(p, Shown(p, rankings[key])))
    <2> HIDE DEF key
    <2>1. key \in DOMAIN rankings /\ rankings[key].rows > 0
      BY <1>4 DEF Readable
    <2>2. rankings[key] \in Payloads /\ rankings[key].rows \in {0, Rows}
      BY <2>1 DEF RunsInv, RunsTypeOK, FilesTyped, FilesInv
    <2>3. /\ rankings[key].rows = Rows /\ rankings[key].options = run[p].request.options
          /\ crossed \/ rankings[key].content = run[p].token
      BY <1>2, <1>3, <2>1, <2>2
         DEF RunsInv, FilesInv, CachedFilesMatchTheirKeys, RankingsMatchTheirKeys
    <2>4. QED
      BY <1>1, <1>4, <2>2, <2>3, AnswerKeeps
  <1>5. CASE run' = [run EXCEPT ![p].at = "wordnet", ![p].seen = NoSeen]
    <2> DEFINE r == [run[p] EXCEPT !.at = "wordnet", !.seen = NoSeen]
    <2>1. /\ r \in RunStates /\ r.at = "wordnet" /\ KeepsOrders(p, r)
          /\ r.ranking = run[p].ranking
      BY <1>2, NoRunFacts DEF RunStates, Places, Named, Ranking, KeepsOrders
    <2>2. Moves(p, r)
      BY <1>2, <1>5 DEF Moves, RunsInv, RunsTypeOK
    <2> HIDE DEF r
    <2>3. /\ run'[p] = r /\ dictionary' = dictionary /\ augmented' = augmented
          /\ candidates' = candidates /\ bigrams' = bigrams /\ archive' = archive
          /\ crossed' = crossed
      BY <1>1, <2>1, <2>2, QuietFacts
    <2>4. RunInv(p)'
      BY <1>1, <1>2, <2>1, <2>3
         DEF RunInv, Sure, KnowsRanking, Tracks, Exported, Deriving, Lexical, Named, Ranking,
             KeepsOrders
    <2>5. QED
      BY <1>1, <2>1, <2>2, <2>4, QuietMove
  <1>6. QED
    BY <1>4, <1>5 DEF FindRanking, Moves

\* A directory with the index files is taken for WordNet, whoever made it.
LEMMA FindWordNetKeeps == ASSUME RunsInv, NEW p \in Processes, FindWordNet(p) PROVE RunsInv'
  <1>1. run[p].at = "wordnet" /\ run[p].at \in Ranking /\ UNCHANGED sharedFiles
    BY DEF FindWordNet, At, Ranking, sharedFiles, lexiconFiles, resultFiles, corpora
  <1>2. run[p] \in RunStates /\ run[p].request \in Requests /\ RunInv(p)
    BY <1>1, RankingFacts
  <1>3. PICK r \in RunStates :
          Moves(p, r) /\ r.at \in {"load", "archive"} /\ KeepsOrders(p, r)
          /\ r.ranking = run[p].ranking
    <2>1. ASSUME NEW t \in FoundTrees, run' = [run EXCEPT ![p].at = "load", ![p].tree = t]
          PROVE  \E r \in RunStates :
                    Moves(p, r) /\ r.at \in {"load", "archive"} /\ KeepsOrders(p, r)
                    /\ r.ranking = run[p].ranking
      <3> DEFINE r == [run[p] EXCEPT !.at = "load", !.tree = t]
      <3>1. r \in RunStates /\ r.at = "load" /\ KeepsOrders(p, r) /\ r.ranking = run[p].ranking
        BY <1>2 DEF RunStates, Places, Named, Ranking, FoundTrees, KeepsOrders
      <3>2. Moves(p, r)
        BY <1>2, <2>1 DEF Moves, RunsInv, RunsTypeOK
      <3> HIDE DEF r
      <3>3. QED
        BY <3>1, <3>2
    <2>2. CASE Goes(p, "archive")
      <3> DEFINE r == Placed(p, "archive")
      <3>1. r \in RunStates /\ r.at = "archive" /\ KeepsOrders(p, r) /\ KeepsWork(p, r)
        BY PlacedFacts DEF Places, Named, Ranking
      <3>2. Moves(p, r)
        BY <2>2 DEF Goes, Moves, Placed
      <3> HIDE DEF r
      <3>3. QED
        BY <3>1, <3>2 DEF KeepsWork
    <2>3. QED
      BY <2>1, <2>2 DEF FindWordNet
  <1>4. /\ run'[p] = r /\ dictionary' = dictionary /\ augmented' = augmented
        /\ candidates' = candidates /\ bigrams' = bigrams /\ archive' = archive
        /\ crossed' = crossed
    BY <1>1, <1>3, QuietFacts
  <1>5. RunInv(p)'
    BY <1>1, <1>2, <1>3, <1>4
       DEF RunInv, Sure, KnowsRanking, Tracks, Exported, Deriving, Lexical, Named, Ranking,
           KeepsOrders
  <1>6. QED
    BY <1>1, <1>3, <1>5, QuietMove

\* What is loaded came out of the archive, whoever unpacked it.
LEMMA LoadWordNetKeeps == ASSUME RunsInv, NEW p \in Processes, LoadWordNet(p) PROVE RunsInv'
  <1>1. run[p].at = "load" /\ run[p].at \in Ranking /\ UNCHANGED sharedFiles
    BY DEF LoadWordNet, At, Ranking, sharedFiles, lexiconFiles, resultFiles, corpora
  <1>2. run[p] \in RunStates /\ run[p].request \in Requests /\ RunInv(p)
    BY <1>1, RankingFacts
  <1>3. CASE /\ "index" \in trees[run[p].tree]
             /\ run' = [run EXCEPT ![p].at = "prepared", ![p].lexicon = trees[run[p].tree]]
    <2> DEFINE tree == run[p].tree
               r == [run[p] EXCEPT !.at = "prepared", !.lexicon = trees[tree]]
    <2>1. tree \in Trees /\ trees[tree] \in SUBSET WordNet /\ trees[tree] # {}
      BY <1>2, <1>3 DEF RunStates, RunsInv, RunsTypeOK
    <2>2. archive
      BY <2>1 DEF RunsInv, ArchiveInv
    <2>3. r \in RunStates /\ r.at = "prepared" /\ KeepsOrders(p, r) /\ r.ranking = run[p].ranking
      BY <1>2, <2>1 DEF RunStates, Places, Named, Ranking, KeepsOrders
    <2>4. Moves(p, r)
      BY <1>2, <1>3 DEF Moves, RunsInv, RunsTypeOK
    <2> HIDE DEF r, tree
    <2>5. /\ run'[p] = r /\ dictionary' = dictionary /\ augmented' = augmented
          /\ candidates' = candidates /\ bigrams' = bigrams /\ archive' = archive
          /\ crossed' = crossed
      BY <1>1, <2>3, <2>4, QuietFacts
    <2>6. RunInv(p)'
      BY <1>1, <1>2, <2>2, <2>3, <2>5
         DEF RunInv, Sure, KnowsRanking, Tracks, Exported, Deriving, Lexical, Named, Ranking,
             KeepsOrders
    <2>7. QED
      BY <1>1, <2>3, <2>4, <2>6, QuietMove
  <1>4. CASE Moves(p, NoRun)
    BY <1>1, <1>4, GivingUpKeeps
  <1>5. QED
    BY <1>3, <1>4 DEF LoadWordNet, Moves

\* Prepared rows that are taken are of the candidates their key names; without
\* them the key that was computed is kept for the rows to be made.
LEMMA FindPreparedKeeps == ASSUME RunsInv, NEW p \in Processes, FindPrepared(p) PROVE RunsInv'
  <1> DEFINE key == PreparedKey(p)
  <1>1. run[p].at = "prepared" /\ run[p].at \in Ranking /\ UNCHANGED sharedFiles
    BY DEF FindPrepared, At, Ranking, sharedFiles, lexiconFiles, resultFiles, corpora
  <1>2. /\ run[p] \in RunStates /\ run[p].request \in Requests /\ RunInv(p)
        /\ run[p].token \in File /\ candidates[run[p].token] \in File
        /\ crossed \/ candidates[run[p].token] = run[p].token
    BY <1>1, RankingFacts
  <1>3. trees[run[p].tree] \in SUBSET WordNet
    BY <1>2 DEF RunsInv, RunsTypeOK, FilesTyped, RunStates
  <1>4. /\ key \in [run : File, content : File, lexicon : SUBSET WordNet]
        /\ crossed \/ key.content = run[p].token
    BY <1>2, <1>3 DEF PreparedKey
  <1>5. CASE /\ ValidRows(key)
             /\ run' = [run EXCEPT ![p].at = "bigrams", ![p].made = prepared[key]]
    <2> DEFINE made == prepared[key]
               r == [run[p] EXCEPT !.at = "bigrams", !.made = made]
    <2> HIDE DEF key
    <2>1. made \in Rowsets /\ (crossed \/ made.content = run[p].token)
      BY <1>4, <1>5 DEF ValidRows, RunsInv, RunsTypeOK, FilesTyped, FilesInv
    <2>2. Moves(p, r)
      BY <1>2, <1>5 DEF Moves, RunsInv, RunsTypeOK
    <2> HIDE DEF made
    <2>3. /\ r \in RunStates /\ r.at = "bigrams" /\ KeepsOrders(p, r) /\ r.made = made
          /\ r.ranking = run[p].ranking
      BY <1>2, <2>1 DEF RunStates, Places, Named, Ranking, KeepsOrders
    <2> HIDE DEF r
    <2>4. /\ run'[p] = r /\ dictionary' = dictionary /\ augmented' = augmented
          /\ candidates' = candidates /\ bigrams' = bigrams /\ archive' = archive
          /\ crossed' = crossed
      BY <1>1, <2>2, <2>3, QuietFacts
    <2>5. RunInv(p)'
      BY <1>1, <1>2, <2>1, <2>3, <2>4
         DEF RunInv, Sure, KnowsRanking, Tracks, Exported, Deriving, Lexical, Named, Ranking,
             KeepsOrders
    <2>6. QED
      BY <1>1, <2>2, <2>3, <2>5, QuietMove
  <1>6. CASE run' = [run EXCEPT ![p].at = "parse", ![p].rowsKey = key]
    <2> DEFINE r == [run[p] EXCEPT !.at = "parse", !.rowsKey = key]
    <2> HIDE DEF key
    <2>1. Moves(p, r)
      BY <1>2, <1>6 DEF Moves, RunsInv, RunsTypeOK
    <2>2. /\ r \in RunStates /\ r.at = "parse" /\ KeepsOrders(p, r) /\ r.rowsKey = key
          /\ r.ranking = run[p].ranking
      BY <1>2, <1>4 DEF RunStates, Places, Named, Ranking, KeepsOrders
    <2> HIDE DEF r
    <2>3. /\ run'[p] = r /\ dictionary' = dictionary /\ augmented' = augmented
          /\ candidates' = candidates /\ bigrams' = bigrams /\ archive' = archive
          /\ crossed' = crossed
      BY <1>1, <2>1, <2>2, QuietFacts
    <2>4. RunInv(p)'
      BY <1>1, <1>2, <1>4, <2>2, <2>3
         DEF RunInv, Sure, KnowsRanking, Tracks, Exported, Deriving, Lexical, Named, Ranking,
             KeepsOrders
    <2>5. QED
      BY <1>1, <2>1, <2>2, <2>4, QuietMove
  <1>7. QED
    BY <1>5, <1>6 DEF FindPrepared

\* The reranker's export is made of the rows and the corpora the run has read.
LEMMA ExportKeeps == ASSUME RunsInv, NEW p \in Processes, Export(p) PROVE RunsInv'
  <1>1. run[p].at = "export" /\ run[p].at \in Ranking /\ UNCHANGED sharedFiles
    BY DEF Export, At, Ranking, sharedFiles, lexiconFiles, resultFiles, corpora
  <1>2. /\ run[p] \in RunStates /\ run[p].request \in Requests /\ RunInv(p)
        /\ run[p].request.options \in STRING /\ Rows \in Nat
    BY <1>1, RankingFacts
  <1>3. bigrams /\ archive /\ (crossed \/ run[p].made.content = run[p].token)
    BY <1>1, <1>2 DEF RunInv, Sure, Tracks
  <1> DEFINE made == [content |-> run[p].made.content, options |-> run[p].request.options,
                      lexicon |-> run[p].made.lexicon \cap run[p].lexicon, rows |-> Rows]
             r == [run[p] EXCEPT !.at = "hash", !.ranking = made]
  <1>4. made \in Payloads
    BY <1>2 DEF RunStates, Payloads, Rowsets
  <1>5. /\ made.content = run[p].made.content /\ made.options = run[p].request.options
        /\ made.rows = Rows
    OBVIOUS
  <1>6. Moves(p, r)
    BY <1>2 DEF Export, Moves, RunsInv, RunsTypeOK
  <1> HIDE DEF made
  <1>7. r \in RunStates /\ r.at = "hash" /\ KeepsOrders(p, r) /\ r.ranking = made
    BY <1>2, <1>4 DEF RunStates, Places, Named, Ranking, KeepsOrders
  <1> HIDE DEF r
  <1>8. /\ run'[p] = r /\ dictionary' = dictionary /\ augmented' = augmented
        /\ candidates' = candidates /\ bigrams' = bigrams /\ archive' = archive
        /\ crossed' = crossed
    BY <1>1, <1>6, <1>7, QuietFacts
  <1>9. RunInv(p)'
    BY <1>1, <1>2, <1>3, <1>5, <1>7, <1>8
       DEF RunInv, Sure, KnowsRanking, Tracks, Exported, Deriving, Lexical, Named, Ranking,
           KeepsOrders
  <1>10. QED
    BY <1>1, <1>6, <1>7, <1>9, QuietMove

\* The run answers from its own export.
LEMMA PublishRankingKeeps ==
  ASSUME RunsInv, NEW p \in Processes, PublishRanking(p) PROVE RunsInv'
  <1>1. run[p].at = "publishRanking" /\ run[p].at \in Ranking /\ UNCHANGED sharedFiles
    BY DEF PublishRanking, At, Ranking, sharedFiles, lexiconFiles, corpora
  <1>2. run[p] \in RunStates /\ RunInv(p)
    BY <1>1, RankingFacts
  <1>3. /\ run[p].ranking \in Payloads /\ run[p].ranking.rows = Rows
        /\ crossed \/ run[p].ranking.content = run[p].token
        /\ run[p].ranking.options = run[p].request.options
    BY <1>1, <1>2 DEF RunInv, KnowsRanking, Tracks, RunStates
  <1>4. Moves(p, Done(p, Shown(p, run[p].ranking)))
    BY DEF PublishRanking, Answer, Moves
  <1>5. QED
    BY <1>1, <1>3, <1>4, AnswerKeeps

-----------------------------------------------------------------------------
(* Steps that publish a file *)

\* When files change a step has to account for them and for its own run.
LEMMA FileMove ==
  ASSUME RunsInv, NEW p \in Processes, NEW r \in RunStates, Moves(p, r), Grows, RunInv(p)',
         FilesTyped', LexiconInv', FilesInv', ArchiveInv'
  PROVE  RunsInv'
  <1>1. run' \in [Processes -> RunStates] /\ \A q \in Processes \ {p} : Stays(q)
    BY OneMoves DEF RunsInv, RunsTypeOK
  <1>2. \A q \in Processes \ {p} : RunInv(q)'
    BY <1>1, OthersKeep
  <1>3. QED
    BY <1>1, <1>2 DEF RunsInv, RunsTypeOK

\* What was read to be augmented becomes the augmented dictionary.
LEMMA WriteAugmentedKeeps ==
  ASSUME RunsInv, NEW p \in Processes, WriteAugmented(p) PROVE RunsInv'
  <1> DEFINE r == [run[p] EXCEPT !.at = "savePolicy", !.text = "none"]
  <1>1. /\ run[p] \in RunStates /\ run[p].at = "augment" /\ RunInv(p)
        /\ augmented' = run[p].text
        /\ UNCHANGED <<dictionary, policy, candidates, prepared, rankings, archive, trees, bigrams>>
        /\ UNCHANGED crossed
    BY DEF WriteAugmented, At, RunsInv, RunsTypeOK, resultFiles, corpora
  <1>2. run[p].text \in Content /\ (crossed \/ run[p].text = dictionary)
    BY <1>1 DEF RunInv, Sure, Tracks
  <1>3. /\ r \in RunStates /\ r.at = "savePolicy" /\ KeepsOrders(p, r)
        /\ r.ranking = run[p].ranking
    BY <1>1 DEF RunStates, Places, Lexical, KeepsOrders, File
  <1>4. Moves(p, r)
    BY <1>1 DEF WriteAugmented, Moves, RunsInv, RunsTypeOK
  <1> HIDE DEF r
  <1>5. run'[p] = r
    BY <1>3, <1>4, OneMoves DEF RunsInv, RunsTypeOK
  <1>6. Grows
    BY <1>1, <1>2 DEF Grows
  <1>7. RunInv(p)'
    BY <1>1, <1>2, <1>3, <1>5
       DEF RunInv, Sure, KnowsRanking, Tracks, Exported, Deriving, Lexical, Named, Ranking,
           KeepsOrders
  <1>8. FilesTyped' /\ FilesInv' /\ ArchiveInv'
    BY <1>1, <1>2 DEF RunsInv, RunsTypeOK, FilesTyped, FilesInv, ArchiveInv,
                      CachedFilesMatchTheirKeys, CandidatesMatchTheirRun, RankingsMatchTheirKeys
  <1>9. LexiconInv'
    BY <1>1, <1>2 DEF RunsInv, LexiconInv, Vouching
  <1>10. QED
    BY <1>3, <1>4, <1>6, <1>7, <1>8, <1>9, FileMove

\* The policy gets the stamps that were read before the dictionary was augmented.
LEMMA SavePolicyKeeps == ASSUME RunsInv, NEW p \in Processes, SavePolicy(p) PROVE RunsInv'
  <1>1. /\ run[p] \in RunStates /\ run[p].at = "savePolicy" /\ RunInv(p) /\ LexiconReady(p)
        /\ policy' = run[p].stamp
        /\ UNCHANGED <<dictionary, augmented, candidates, prepared, rankings, archive, trees>>
        /\ UNCHANGED <<bigrams, crossed>>
    BY DEF SavePolicy, At, RunsInv, RunsTypeOK, resultFiles, corpora
  <1>2. /\ run[p].stamp \in Content /\ augmented \in Content /\ dictionary \in Content
        /\ crossed \/ (run[p].stamp = dictionary /\ augmented = dictionary)
    BY <1>1 DEF RunInv, Sure, Tracks, Lexical
  <1>3. PICK r \in RunStates :
          /\ Moves(p, r) /\ r.request = run[p].request /\ r.child = run[p].child
          /\ KeepsWork(p, r)
          /\ \/ r.child /\ r.at = "generate" /\ r.token = run[p].token
             \/ ~r.child /\ r.at = "candidates" /\ r.token = run[p].stamp
    BY <1>1, ReadyFacts
  <1>4. run'[p] = r
    BY <1>3, OneMoves DEF RunsInv, RunsTypeOK
  <1>5. Grows
    BY <1>1 DEF Grows
  <1>6. RunInv(p)'
    <2>1. Sure(p)' /\ KnowsRanking(p)'
      BY <1>1, <1>2, <1>3, <1>4
         DEF RunInv, Sure, KnowsRanking, Exported, Lexical, Named, Ranking, KeepsWork
    <2>2. ASSUME ~crossed PROVE Tracks(p)'
      <3>1. r.token = dictionary
        BY <1>1, <1>2, <1>3, <2>2 DEF RunInv, Tracks, Deriving
      <3>2. ~Exported(r)
        BY <1>1, <1>3 DEF RunInv, KnowsRanking, Exported, KeepsWork, Ranking
      <3>3. QED
        BY <1>1, <1>2, <1>3, <1>4, <2>2, <3>1, <3>2
           DEF Tracks, Lexical, Ranking
    <2>3. QED
      BY <1>1, <2>1, <2>2 DEF RunInv
  <1>7. FilesTyped' /\ FilesInv' /\ ArchiveInv'
    BY <1>1, <1>2 DEF RunsInv, RunsTypeOK, FilesTyped, FilesInv, ArchiveInv, File,
                      CachedFilesMatchTheirKeys, CandidatesMatchTheirRun, RankingsMatchTheirKeys
  <1>8. LexiconInv'
    <2>1. ASSUME ~crossed PROVE Vouching'
      <3>1. /\ dictionary' = dictionary /\ augmented' = dictionary /\ policy' = dictionary
            /\ dictionary # "none"
        BY <1>1, <1>2, <2>1, VersionFacts
      <3>2. ASSUME NEW i \in DOMAIN Versions, NEW j \in DOMAIN Versions,
                   dictionary = Versions[j], dictionary = Versions[i]
            PROVE  j <= i
        <4>1. i = j
          BY <3>2, VersionFacts
        <4>2. i \in Nat
          BY RunsShape
        <4>3. QED
          BY <4>1, <4>2
      <3>3. QED
        BY <3>1, <3>2 DEF Vouching
    <2>2. QED
      BY <1>1, <2>1 DEF LexiconInv
  <1>9. QED
    BY <1>3, <1>5, <1>6, <1>7, <1>8, FileMove

\* The generator's export replaces whatever the run's directory had.
LEMMA PublishCandidatesKeeps ==
  ASSUME RunsInv, NEW p \in Processes, PublishCandidates(p)
  PROVE  /\ RunsInv'
         /\ \A v \in Content : Whole(candidates[v]) => Whole(candidates'[v])
  <1> DEFINE r == [run[p] EXCEPT !.at = "verify", !.text = "none"]
             token == run[p].token
             text == run[p].text
  <1>1. /\ run[p] \in RunStates /\ run[p].at = "publish" /\ RunInv(p)
        /\ UNCHANGED <<dictionary, augmented, policy, prepared, rankings, archive, trees, bigrams>>
        /\ UNCHANGED crossed
    BY DEF PublishCandidates, At, RunsInv, RunsTypeOK, lexiconFiles, corpora
  <1>2. token \in Content /\ text \in Content /\ (crossed \/ text = token)
    BY <1>1 DEF RunInv, Sure, Tracks, Named
  <1>3. /\ r \in RunStates /\ r.at = "verify" /\ KeepsOrders(p, r) /\ r.ranking = run[p].ranking
    BY <1>1 DEF RunStates, Places, Named, KeepsOrders, File
  <1>4. Moves(p, r)
    BY <1>1 DEF PublishCandidates, Moves, RunsInv, RunsTypeOK
  <1>5. candidates' = Published(candidates, token, text)
    BY DEF PublishCandidates
  <1> HIDE DEF r, token, text
  <1>6. /\ candidates' \in [Content -> File] /\ candidates'[token] = text
        /\ \A v \in Content : v # token => candidates'[v] = candidates[v]
    BY <1>2, <1>5 DEF Published, RunsInv, RunsTypeOK, FilesTyped, File
  <1>7. run'[p] = r
    BY <1>3, <1>4, OneMoves DEF RunsInv, RunsTypeOK
  <1>8. Grows
    BY <1>1, <1>2, <1>6 DEF Grows
  <1>9. RunInv(p)'
    BY <1>1, <1>2, <1>3, <1>7
       DEF RunInv, Sure, KnowsRanking, Tracks, Exported, Deriving, Lexical, Named, Ranking,
           KeepsOrders
  <1>10. FilesTyped' /\ LexiconInv' /\ ArchiveInv'
    BY <1>1, <1>6 DEF RunsInv, RunsTypeOK, FilesTyped, LexiconInv, Vouching, ArchiveInv
  <1>11. FilesInv'
    BY <1>1, <1>2, <1>6 DEF RunsInv, FilesInv, CachedFilesMatchTheirKeys,
                            CandidatesMatchTheirRun, RankingsMatchTheirKeys
  <1>12. RunsInv'
    BY <1>3, <1>4, <1>8, <1>9, <1>10, <1>11, FileMove
  <1>13. QED
    BY <1>2, <1>6, <1>12 DEF Whole

\* Rows are saved under the candidates they were parsed from.
LEMMA PrepareKeeps == ASSUME RunsInv, NEW p \in Processes, Prepare(p) PROVE RunsInv'
  <1> DEFINE file == candidates[run[p].token]
             rows == [content |-> file, lexicon |-> run[p].lexicon]
             key == run[p].rowsKey
  <1>1. /\ run[p].at = "parse" /\ run[p].at \in Ranking
        /\ UNCHANGED <<dictionary, augmented, policy, candidates, rankings, archive, trees>>
        /\ UNCHANGED <<bigrams, crossed>>
    BY DEF Prepare, At, Ranking, lexiconFiles, corpora
  <1>2. /\ run[p] \in RunStates /\ run[p].request \in Requests /\ RunInv(p)
        /\ file \in File /\ (crossed \/ file = run[p].token)
    BY <1>1, RankingFacts
  <1>3. crossed \/ key.content = run[p].token
    BY <1>1, <1>2 DEF RunInv, Tracks
  <1>4. CASE UNCHANGED prepared /\ Moves(p, NoRun)
    BY <1>1, <1>4, GivingUpKeeps DEF sharedFiles
  <1>5. CASE /\ prepared' = Published(prepared, key, rows)
             /\ run' = [run EXCEPT ![p].at = "bigrams", ![p].made = rows]
    <2> DEFINE r == [run[p] EXCEPT !.at = "bigrams", !.made = rows]
    <2>1. rows \in Rowsets /\ rows.content = file
      BY <1>2 DEF Rowsets, RunStates
    <2>2. Moves(p, r)
      BY <1>2, <1>5 DEF Moves, RunsInv, RunsTypeOK
    <2> HIDE DEF rows, key
    <2>3. /\ r \in RunStates /\ r.at = "bigrams" /\ KeepsOrders(p, r) /\ r.made = rows
          /\ r.ranking = run[p].ranking
      BY <1>2, <2>1 DEF RunStates, Places, Named, Ranking, KeepsOrders
    <2> HIDE DEF r, file
    <2>4. run'[p] = r
      BY <2>2, <2>3, OneMoves DEF RunsInv, RunsTypeOK
    <2>5. /\ DOMAIN prepared' = DOMAIN prepared \cup {key} /\ prepared'[key] = rows
          /\ \A k \in DOMAIN prepared : k # key => prepared'[k] = prepared[k]
      BY <1>5 DEF Published
    <2>6. Grows
      BY <1>1 DEF Grows
    <2>7. RunInv(p)'
      BY <1>1, <1>2, <2>1, <2>3, <2>4
         DEF RunInv, Sure, KnowsRanking, Tracks, Exported, Deriving, Lexical, Named, Ranking,
             KeepsOrders
    <2>8. FilesTyped'
      BY <1>1, <2>1, <2>5 DEF RunsInv, RunsTypeOK, FilesTyped
    <2>9. LexiconInv' /\ ArchiveInv'
      BY <1>1 DEF RunsInv, LexiconInv, Vouching, ArchiveInv
    <2>10. FilesInv'
      <3>1. CachedFilesMatchTheirKeys' /\ \A k \in DOMAIN rankings' : rankings'[k].rows \in {0, Rows}
        BY <1>1 DEF RunsInv, FilesInv, CachedFilesMatchTheirKeys, CandidatesMatchTheirRun,
                    RankingsMatchTheirKeys
      <3>2. ASSUME ~crossed, NEW k \in DOMAIN prepared', prepared'[k] # NoRows
            PROVE  prepared'[k].content = k.content
        <4>1. CASE k = key
          BY <1>2, <1>3, <2>1, <2>5, <3>2, <4>1
        <4>2. CASE k # key
          BY <2>5, <3>2, <4>2 DEF RunsInv, FilesInv
        <4>3. QED
          BY <4>1, <4>2
      <3>3. QED
        BY <1>1, <3>1, <3>2 DEF FilesInv
    <2>11. QED
      BY <2>2, <2>3, <2>6, <2>7, <2>8, <2>9, <2>10, FileMove
  <1>6. QED
    BY <1>4, <1>5 DEF Prepare, Moves

\* The n-grams are there before anything is exported.
LEMMA FetchBigramsKeeps == ASSUME RunsInv, NEW p \in Processes, FetchBigrams(p) PROVE RunsInv'
  <1> DEFINE r == Placed(p, "export")
  <1>1. /\ run[p].at = "bigrams" /\ run[p].at \in Ranking /\ bigrams' = TRUE
        /\ UNCHANGED <<dictionary, augmented, policy, candidates, prepared, rankings, archive>>
        /\ UNCHANGED <<trees, crossed>>
    BY DEF FetchBigrams, At, Ranking, lexiconFiles, resultFiles
  <1>2. run[p] \in RunStates /\ run[p].request \in Requests /\ RunInv(p)
    BY <1>1, RankingFacts
  <1>3. r \in RunStates /\ r.at = "export" /\ KeepsOrders(p, r) /\ KeepsWork(p, r)
    BY PlacedFacts DEF Places, Named, Ranking
  <1>4. Moves(p, r)
    BY DEF FetchBigrams, Goes, Moves, Placed
  <1> HIDE DEF r
  <1>5. run'[p] = r
    BY <1>3, <1>4, OneMoves DEF RunsInv, RunsTypeOK
  <1>6. Grows
    BY <1>1 DEF Grows
  <1>7. RunInv(p)'
    BY <1>1, <1>2, <1>3, <1>5
       DEF RunInv, Sure, KnowsRanking, Tracks, Exported, Deriving, Lexical, Named, Ranking,
           KeepsOrders, KeepsWork
  <1>8. FilesTyped' /\ LexiconInv' /\ FilesInv' /\ ArchiveInv'
    BY <1>1 DEF RunsInv, RunsTypeOK, FilesTyped, LexiconInv, Vouching, FilesInv, ArchiveInv,
                CachedFilesMatchTheirKeys, CandidatesMatchTheirRun, RankingsMatchTheirKeys
  <1>9. QED
    BY <1>3, <1>4, <1>6, <1>7, <1>8, FileMove

\* A ranking is saved under its options and the candidates it was made from, with
\* a key that knows of the n-grams and of the archive.
LEMMA SaveResultsKeeps == ASSUME RunsInv, NEW p \in Processes, SaveResults(p) PROVE RunsInv'
  <1> DEFINE r == Placed(p, "publishRanking")
             key == RankingKey(p)
             ranking == run[p].ranking
  <1>1. /\ run[p].at = "save" /\ run[p].at \in Ranking
        /\ UNCHANGED <<dictionary, augmented, policy, candidates, prepared, archive, trees>>
        /\ UNCHANGED <<bigrams, crossed>>
        /\ rankings' = Published(rankings, key, ranking)
    BY DEF SaveResults, Saved, At, Ranking, lexiconFiles, corpora
  <1>2. run[p] \in RunStates /\ run[p].request \in Requests /\ RunInv(p)
    BY <1>1, RankingFacts
  <1>3. /\ ranking \in Payloads /\ ranking.rows = Rows
        /\ ranking.options = key.options /\ key.bigrams /\ key.archive
        /\ crossed \/ ranking.content = key.content
    BY <1>1, <1>2 DEF RunInv, KnowsRanking, Tracks, Exported, RankingKey, RunStates
  <1>4. r \in RunStates /\ r.at = "publishRanking" /\ KeepsOrders(p, r) /\ KeepsWork(p, r)
    BY PlacedFacts DEF Places, Named, Ranking
  <1>5. Moves(p, r)
    BY DEF SaveResults, Goes, Moves, Placed
  <1> HIDE DEF r, key, ranking
  <1>6. run'[p] = r
    BY <1>4, <1>5, OneMoves DEF RunsInv, RunsTypeOK
  <1>7. Grows
    BY <1>1 DEF Grows
  <1>8. RunInv(p)'
    BY <1>1, <1>2, <1>4, <1>6
       DEF RunInv, Sure, KnowsRanking, Tracks, Exported, Deriving, Lexical, Named, Ranking,
           KeepsOrders, KeepsWork
  <1>9. /\ DOMAIN rankings' = DOMAIN rankings \cup {key} /\ rankings'[key] = ranking
        /\ \A k \in DOMAIN rankings : k # key => rankings'[k] = rankings[k]
    BY <1>1 DEF Published
  <1>10. FilesTyped'
    BY <1>1, <1>3, <1>9 DEF RunsInv, RunsTypeOK, FilesTyped
  <1>11. LexiconInv' /\ ArchiveInv'
    BY <1>1 DEF RunsInv, LexiconInv, Vouching, ArchiveInv
  <1>12. FilesInv'
    <2>1. RankingsMatchTheirKeys'
      <3>1. ASSUME NEW k \in DOMAIN rankings', rankings'[k].rows > 0
            PROVE  /\ rankings'[k].options = k.options /\ k.bigrams /\ k.archive
                   /\ crossed \/ rankings'[k].content = k.content
        <4>1. CASE k = key
          BY <1>3, <1>9, <4>1
        <4>2. CASE k # key
          BY <1>9, <3>1, <4>2 DEF RunsInv, FilesInv, CachedFilesMatchTheirKeys,
                                  RankingsMatchTheirKeys
        <4>3. QED
          BY <4>1, <4>2
      <3>2. QED
        BY <1>1, <3>1 DEF RankingsMatchTheirKeys
    <2>2. \A k \in DOMAIN rankings' : rankings'[k].rows \in {0, Rows}
      BY <1>3, <1>9 DEF RunsInv, FilesInv
    <2>3. QED
      BY <1>1, <2>1, <2>2 DEF RunsInv, FilesInv, CachedFilesMatchTheirKeys,
                              CandidatesMatchTheirRun
  <1>13. QED
    BY <1>4, <1>5, <1>7, <1>8, <1>10, <1>11, <1>12, FileMove

-----------------------------------------------------------------------------
(* Steps that change WordNet's directories *)

\* Only the archive and what the run itself knows bear on a step of these.
LEMMA TreeMove ==
  ASSUME RunsInv, NEW p \in Processes, NEW r \in RunStates, Moves(p, r), RunInv(p)',
         UNCHANGED <<dictionary, augmented, policy, candidates, prepared, rankings, bigrams>>,
         UNCHANGED crossed, trees' \in [Trees -> SUBSET WordNet], archive' \in BOOLEAN,
         archive => archive', ArchiveInv'
  PROVE  RunsInv'
  <1>1. Grows
    BY DEF Grows
  <1>2. FilesTyped' /\ LexiconInv' /\ FilesInv'
    BY DEF RunsInv, RunsTypeOK, FilesTyped, LexiconInv, Vouching, FilesInv,
           CachedFilesMatchTheirKeys, CandidatesMatchTheirRun, RankingsMatchTheirKeys
  <1>3. QED
    BY <1>1, <1>2, FileMove

\* The archive is there before anything is unpacked.
LEMMA FetchArchiveKeeps == ASSUME RunsInv, NEW p \in Processes, FetchArchive(p) PROVE RunsInv'
  <1> DEFINE r == [run[p] EXCEPT !.at = "unpack", !.todo = WordNet]
  <1>1. /\ run[p].at = "archive" /\ run[p].at \in Ranking /\ trees' = [trees EXCEPT ![p] = {}]
        /\ archive' = TRUE
        /\ UNCHANGED <<dictionary, augmented, policy, candidates, prepared, rankings, bigrams>>
        /\ UNCHANGED crossed
    BY DEF FetchArchive, At, Ranking, lexiconFiles, resultFiles
  <1>2. run[p] \in RunStates /\ run[p].request \in Requests /\ RunInv(p)
    BY <1>1, RankingFacts
  <1>3. /\ r \in RunStates /\ r.at = "unpack" /\ KeepsOrders(p, r) /\ r.ranking = run[p].ranking
        /\ r.todo = WordNet
    BY <1>2 DEF RunStates, Places, Named, Ranking, KeepsOrders
  <1>4. Moves(p, r)
    BY <1>2 DEF FetchArchive, Moves, RunsInv, RunsTypeOK
  <1> HIDE DEF r
  <1>5. run'[p] = r
    BY <1>3, <1>4, OneMoves DEF RunsInv, RunsTypeOK
  <1>6. trees' \in [Trees -> SUBSET WordNet]
    BY <1>1 DEF RunsInv, RunsTypeOK, FilesTyped
  <1>7. RunInv(p)'
    BY <1>1, <1>2, <1>3, <1>5
       DEF RunInv, Sure, KnowsRanking, Tracks, Exported, Deriving, Lexical, Named, Ranking,
           KeepsOrders
  <1>8. QED
    BY <1>1, <1>3, <1>4, <1>6, <1>7, TreeMove DEF ArchiveInv

\* A file is unpacked into the run's own directory, or copied into the shared one.
LEMMA FileKeeps ==
  ASSUME RunsInv, NEW p \in Processes, run[p].at \in {"unpack", "copy"}, NEW t \in Trees,
         NEW file \in run[p].todo,
         trees' = [trees EXCEPT ![t] = @ \cup {file}],
         run' = [run EXCEPT ![p].todo = @ \ {file}],
         UNCHANGED <<dictionary, augmented, policy, candidates, prepared, rankings, bigrams>>,
         UNCHANGED <<archive, crossed>>
  PROVE  RunsInv'
  <1> DEFINE r == [run[p] EXCEPT !.todo = run[p].todo \ {file}]
  <1>1. run[p].at \in Ranking
    BY DEF Ranking
  <1>2. run[p] \in RunStates /\ run[p].request \in Requests /\ RunInv(p)
    BY <1>1, RankingFacts
  <1>3. /\ r \in RunStates /\ r.at = run[p].at /\ KeepsOrders(p, r)
        /\ r.ranking = run[p].ranking /\ r.todo \subseteq run[p].todo
    BY <1>2 DEF RunStates, KeepsOrders
  <1>4. Moves(p, r)
    BY <1>2 DEF Moves, RunsInv, RunsTypeOK
  <1> HIDE DEF r
  <1>5. run'[p] = r
    BY <1>3, <1>4, OneMoves DEF RunsInv, RunsTypeOK
  <1>6. trees' \in [Trees -> SUBSET WordNet]
    <2>1. file \in WordNet
      BY <1>2 DEF RunInv, Sure
    <2>2. QED
      BY <2>1 DEF RunsInv, RunsTypeOK, FilesTyped
  <1>7. archive /\ archive' = TRUE
    BY <1>2 DEF RunInv, Sure, RunsInv, RunsTypeOK, FilesTyped
  <1>8. RunInv(p)'
    BY <1>1, <1>2, <1>3, <1>5, <1>7
       DEF RunInv, Sure, KnowsRanking, Tracks, Exported, Deriving, Lexical, Named, Ranking,
           KeepsOrders
  <1>9. QED
    BY <1>3, <1>4, <1>6, <1>7, <1>8, TreeMove DEF ArchiveInv

\* Both are the same step in another directory.
LEMMA UnpackKeeps == ASSUME RunsInv, NEW p \in Processes, Unpack(p) PROVE RunsInv'
  <1>1. PICK file \in run[p].todo :
          /\ trees' = [trees EXCEPT ![p] = @ \cup {file}]
          /\ run' = [run EXCEPT ![p].todo = @ \ {file}]
    BY DEF Unpack
  <1>2. p \in Trees /\ run[p].at \in {"unpack", "copy"}
    BY DEF Unpack, At, Trees
  <1>3. QED
    BY <1>1, <1>2, FileKeeps DEF Unpack, lexiconFiles, resultFiles

LEMMA CopyKeeps == ASSUME RunsInv, NEW p \in Processes, Copy(p) PROVE RunsInv'
  <1>1. PICK file \in run[p].todo :
          /\ trees' = [trees EXCEPT !["dict"] = @ \cup {file}]
          /\ run' = [run EXCEPT ![p].todo = @ \ {file}]
    BY DEF Copy
  <1>2. "dict" \in Trees /\ run[p].at \in {"unpack", "copy"}
    BY DEF Copy, At, Trees
  <1>3. QED
    BY <1>1, <1>2, FileKeeps DEF Copy, lexiconFiles, resultFiles

\* The unpacking directory goes, and the run looks for WordNet again or fails.
LEMMA EndCopyKeeps == ASSUME RunsInv, NEW p \in Processes, EndCopy(p) PROVE RunsInv'
  <1>1. /\ run[p].at = "copy" /\ run[p].at \in Ranking /\ trees' = [trees EXCEPT ![p] = {}]
        /\ UNCHANGED <<dictionary, augmented, policy, candidates, prepared, rankings, bigrams>>
        /\ UNCHANGED <<archive, crossed>>
    BY DEF EndCopy, At, Ranking, lexiconFiles, resultFiles
  <1>2. run[p] \in RunStates /\ run[p].request \in Requests /\ RunInv(p)
    BY <1>1, RankingFacts
  <1>3. PICK r \in RunStates :
          /\ Moves(p, r)
          /\ r = NoRun \/ (r.at = "wordnet" /\ KeepsOrders(p, r) /\ r.ranking = run[p].ranking)
    <2>1. CASE Goes(p, "wordnet")
      <3> DEFINE r == Placed(p, "wordnet")
      <3>1. r \in RunStates /\ r.at = "wordnet" /\ KeepsOrders(p, r) /\ KeepsWork(p, r)
        BY PlacedFacts DEF Places, Named, Ranking
      <3>2. Moves(p, r)
        BY <2>1 DEF Goes, Moves, Placed
      <3> HIDE DEF r
      <3>3. QED
        BY <3>1, <3>2 DEF KeepsWork
    <2>2. CASE Moves(p, NoRun)
      BY <2>2, NoRunFacts
    <2>3. QED
      BY <2>1, <2>2 DEF EndCopy, Moves
  <1>4. run'[p] = r
    BY <1>3, OneMoves DEF RunsInv, RunsTypeOK
  <1>5. /\ trees' \in [Trees -> SUBSET WordNet] /\ archive' \in BOOLEAN
        /\ archive /\ archive' = archive
    BY <1>1, <1>2 DEF RunsInv, RunsTypeOK, FilesTyped, RunInv, Sure
  <1>6. RunInv(p)'
    <2>1. CASE r = NoRun
      BY <1>4, <2>1, NoRunFacts
         DEF RunInv, Sure, KnowsRanking, Tracks, Exported, Deriving, Lexical, Named, Ranking
    <2>2. CASE r.at = "wordnet" /\ KeepsOrders(p, r) /\ r.ranking = run[p].ranking
      BY <1>1, <1>2, <1>4, <2>2
         DEF RunInv, Sure, KnowsRanking, Tracks, Exported, Deriving, Lexical, Named, Ranking,
             KeepsOrders
    <2>3. QED
      BY <1>3, <2>1, <2>2
  <1>7. QED
    BY <1>1, <1>3, <1>5, <1>6, TreeMove DEF ArchiveInv

\* The shared directory is removed; whoever was copying into it is told.
LEMMA StartCopyKeeps == ASSUME RunsInv, NEW p \in Processes, StartCopy(p) PROVE RunsInv'
  <1>1. /\ run[p].at = "unpack" /\ run[p].at \in Ranking /\ trees' = [trees EXCEPT !["dict"] = {}]
        /\ UNCHANGED <<dictionary, augmented, policy, candidates, prepared, rankings, bigrams>>
        /\ UNCHANGED <<archive, crossed>>
    BY DEF StartCopy, At, Ranking, lexiconFiles, resultFiles
  <1>2. run[p] \in RunStates /\ run[p].request \in Requests /\ RunInv(p)
    BY <1>1, RankingFacts
  <1> DEFINE r == [run[p] EXCEPT !.at = "copy", !.todo = WordNet, !.torn = FALSE]
             told(q) == [run[q] EXCEPT !.torn = run[q].torn \/ run[q].at = "copy"]
  <1>3. run' = [q \in Processes |-> IF q = p THEN r ELSE told(q)]
    BY <1>2 DEF StartCopy, RunsInv, RunsTypeOK, RunStates
  <1>4. /\ r \in RunStates /\ r.at = "copy" /\ KeepsOrders(p, r) /\ r.todo = WordNet
        /\ r.ranking = run[p].ranking
    BY <1>2 DEF RunStates, Places, Named, Ranking, KeepsOrders
  <1>5. ASSUME NEW q \in Processes
        PROVE  /\ told(q) \in RunStates
               /\ run'[q] = told(q) => Stays(q)
    <2>1. (run[q].torn \/ run[q].at = "copy") \in BOOLEAN
      BY Zenon
    <2>2. run[q] \in RunStates
      BY DEF RunsInv, RunsTypeOK
    <2>3. QED
      BY <2>1, <2>2 DEF RunStates, Stays
  <1> HIDE DEF r, told
  <1>6. run' \in [Processes -> RunStates] /\ run'[p] = r
    BY <1>3, <1>4, <1>5
  <1>7. \A q \in Processes \ {p} : Stays(q)
    BY <1>3, <1>5
  <1>8. Grows
    BY <1>1 DEF Grows
  <1>9. \A q \in Processes \ {p} : RunInv(q)'
    BY <1>7, <1>8, OthersKeep
  <1>10. RunInv(p)'
    BY <1>1, <1>2, <1>4, <1>6
       DEF RunInv, Sure, KnowsRanking, Tracks, Exported, Deriving, Lexical, Named, Ranking,
           KeepsOrders
  <1>11. FilesTyped' /\ archive'
    BY <1>1, <1>2 DEF RunsInv, RunsTypeOK, FilesTyped, RunInv, Sure
  <1>12. LexiconInv' /\ FilesInv' /\ ArchiveInv'
    BY <1>1, <1>11 DEF RunsInv, LexiconInv, Vouching, FilesInv, ArchiveInv,
                CachedFilesMatchTheirKeys, CandidatesMatchTheirRun, RankingsMatchTheirKeys
  <1>13. QED
    BY <1>6, <1>9, <1>10, <1>11, <1>12 DEF RunsInv, RunsTypeOK

-----------------------------------------------------------------------------
(* What happens around the runs *)

\* A run that stays where it is through a change of the files.
LEMMA AllStay ==
  ASSUME RunsInv, Grows, run' = run
  PROVE  run' \in [Processes -> RunStates] /\ \A q \in Processes : RunInv(q)'
  <1>1. \A q \in Processes : Stays(q)
    BY DEF RunsInv, RunsTypeOK, Stays
  <1>2. QED
    BY <1>1, OthersKeep DEF RunsInv, RunsTypeOK

\* The next version of the dictionary has never been the dictionary, so no policy
\* vouches for it; a run that is deriving is crossed.
LEMMA NextDictionary ==
  ASSUME RunsInv, PublishDictionary,
         UNCHANGED <<augmented, policy, candidates, prepared, rankings, archive, trees, bigrams>>
  PROVE  /\ Grows /\ FilesTyped' /\ LexiconInv' /\ FilesInv' /\ ArchiveInv'
         /\ dictionary' \in Content
         /\ ~crossed' => ~crossed /\ \A q \in Processes : ~Deriving(q)
  <1>1. dictionary \in Content \cup {"none"} /\ crossed \in BOOLEAN
    BY DEF RunsInv, RunsTypeOK, FilesTyped
  <1>2. crossed' \in BOOLEAN /\ (~crossed' => ~crossed /\ \A q \in Processes : ~Deriving(q))
    BY DEF PublishDictionary
  <1>3. dictionary' \in Content /\ (~crossed' => Vouching')
    <2>1. CASE dictionary = "none" /\ dictionary' = Versions[1]
      <3>1. 1 \in DOMAIN Versions
        BY RunsShape
      <3>2. dictionary' \in Content
        BY <2>1, <3>1, VersionFacts
      <3>3. ASSUME ~crossed' PROVE Vouching'
        <4>1. policy' \notin Content
          BY <1>2, <2>1, <3>3 DEF RunsInv, LexiconInv, Vouching
        <4>2. QED
          BY <3>2, <4>1, VersionFacts DEF Vouching
      <3>4. QED
        BY <3>2, <3>3
    <2>2. ASSUME NEW i \in DOMAIN Versions \ {Len(Versions)},
                 dictionary = Versions[i], dictionary' = Versions[i + 1]
          PROVE  dictionary' \in Content /\ (~crossed' => Vouching')
      <3>1. i \in Nat /\ i + 1 \in DOMAIN Versions /\ DOMAIN Versions \subseteq Nat
        BY RunsShape
      <3>2. dictionary' \in Content
        BY <2>2, <3>1, VersionFacts
      <3>3. ASSUME ~crossed', NEW k \in DOMAIN Versions, NEW j \in DOMAIN Versions,
                   policy = Versions[j], dictionary' = Versions[k]
            PROVE  j <= k /\ j # k
        <4>1. j <= i
          BY <1>2, <2>2, <3>3 DEF RunsInv, LexiconInv, Vouching
        <4>2. k = i + 1
          BY <2>2, <3>1, <3>3, VersionFacts
        <4>3. QED
          BY <3>1, <4>1, <4>2
      <3>4. ASSUME ~crossed' PROVE policy # dictionary'
        BY <2>2, <3>1, <3>3, <3>4
      <3>5. ASSUME ~crossed' PROVE Vouching'
        <4>1. dictionary' # "none"
          BY <3>2, VersionFacts
        <4>2. QED
          BY <3>3, <3>4, <3>5, <4>1 DEF Vouching
      <3>6. QED
        BY <3>2, <3>5
    <2>3. QED
      BY <2>1, <2>2 DEF PublishDictionary
  <1>4. Grows
    BY <1>2, <1>3, VersionFacts DEF Grows
  <1>5. FilesTyped'
    BY <1>2, <1>3 DEF RunsInv, RunsTypeOK, FilesTyped
  <1>6. FilesInv' /\ ArchiveInv'
    BY <1>2 DEF RunsInv, FilesInv, ArchiveInv, CachedFilesMatchTheirKeys,
                CandidatesMatchTheirRun, RankingsMatchTheirKeys
  <1>7. QED
    BY <1>2, <1>3, <1>4, <1>5, <1>6 DEF LexiconInv

\* A refresh replaces the dictionary under whoever runs.
LEMMA ReplaceKeeps == ASSUME RunsInv, ReplaceDictionary PROVE RunsInv'
  <1>1. /\ PublishDictionary /\ run' = run
        /\ UNCHANGED <<augmented, policy, candidates, prepared, rankings, archive, trees, bigrams>>
    BY DEF ReplaceDictionary, resultFiles, corpora
  <1>2. Grows /\ FilesTyped' /\ LexiconInv' /\ FilesInv' /\ ArchiveInv'
    BY <1>1, NextDictionary
  <1>3. QED
    BY <1>1, <1>2, AllStay DEF RunsInv, RunsTypeOK

\* So does a cold run that ends its download.
LEMMA DownloadKeeps == ASSUME RunsInv, NEW p \in Processes, Download(p) PROVE RunsInv'
  <1> DEFINE r == Placed(p, "stamps")
  <1>1. /\ PublishDictionary /\ run[p].at = "download" /\ RunInv(p) /\ run[p] \in RunStates
        /\ UNCHANGED <<augmented, policy, candidates, prepared, rankings, archive, trees, bigrams>>
    BY DEF Download, At, resultFiles, corpora, RunsInv, RunsTypeOK
  <1>2. /\ Grows /\ FilesTyped' /\ LexiconInv' /\ FilesInv' /\ ArchiveInv'
        /\ dictionary' \in Content /\ (~crossed' => ~crossed)
    BY <1>1, NextDictionary
  <1>3. r \in RunStates /\ r.at = "stamps" /\ KeepsOrders(p, r) /\ KeepsWork(p, r)
    BY PlacedFacts DEF Places
  <1>4. Moves(p, r)
    BY DEF Download, Goes, Moves, Placed
  <1> HIDE DEF r
  <1>5. run'[p] = r
    BY <1>3, <1>4, OneMoves DEF RunsInv, RunsTypeOK
  <1>6. ~r.child /\ ~Exported(r)
    BY <1>1, <1>3 DEF RunInv, Sure, KnowsRanking, Exported, Ranking, KeepsOrders, KeepsWork
  <1>7. RunInv(p)'
    BY <1>1, <1>2, <1>3, <1>5, <1>6
       DEF RunInv, Sure, KnowsRanking, Tracks, Deriving, Lexical, Named, Ranking, KeepsOrders
  <1>8. QED
    BY <1>2, <1>3, <1>4, <1>7, FileMove

\* A run that has not begun or is over relies on no file.
LEMMA AtRest ==
  ASSUME RunsInv, Idle, run' = run, UNCHANGED <<dictionary, crossed>>
  PROVE  \A p \in Processes : RunInv(p)'
  <1> SUFFICES ASSUME NEW p \in Processes PROVE RunInv(p)'
    OBVIOUS
  <1>1. run[p].at \in {"idle", "done"} /\ RunInv(p) /\ run'[p] = run[p]
    BY DEF Idle, RunsInv
  <1>2. ~Exported(run[p])
    BY <1>1 DEF RunInv, KnowsRanking, Exported, Ranking
  <1>3. QED
    BY <1>1, <1>2 DEF RunInv, Sure, KnowsRanking, Tracks, Deriving, Lexical, Named, Ranking,
                      Exported

\* Damage is seen for what it is: a file that is damaged no longer says anything.
LEMMA DamageKeeps == ASSUME RunsInv, Damage PROVE RunsInv'
  <1>1. Idle /\ UNCHANGED <<dictionary, augmented, archive, trees, bigrams, run, crossed>>
    BY DEF Damage, corpora
  <1>2. ArchiveInv' /\ \A p \in Processes : RunInv(p)'
    BY <1>1, AtRest DEF RunsInv, ArchiveInv
  <1>3. CASE policy' = "damaged" /\ UNCHANGED <<candidates, prepared, rankings>>
    <2>1. policy' \in File /\ policy' \notin Content
      BY <1>3, VersionFacts DEF File
    <2>2. RunsTypeOK' /\ FilesInv'
      BY <1>1, <1>3, <2>1 DEF RunsInv, RunsTypeOK, FilesTyped, FilesInv,
                              CachedFilesMatchTheirKeys, CandidatesMatchTheirRun,
                              RankingsMatchTheirKeys
    <2>3. LexiconInv'
      BY <1>1, <2>1, VersionFacts DEF LexiconInv, Vouching
    <2>4. QED
      BY <1>2, <2>2, <2>3 DEF RunsInv
  <1>4. CASE UNCHANGED policy
    <2>1. LexiconInv'
      BY <1>1, <1>4 DEF RunsInv, LexiconInv, Vouching
    <2>2. CASE /\ \E v \in Content : candidates' = [candidates EXCEPT ![v] = "damaged"]
               /\ UNCHANGED <<prepared, rankings>>
      <3>1. /\ candidates' \in [Content -> File]
            /\ \A v \in Content : candidates'[v] \in {candidates[v], "damaged"}
        BY <2>2 DEF RunsInv, RunsTypeOK, FilesTyped, File
      <3>2. RunsTypeOK'
        BY <1>1, <1>4, <2>2, <3>1 DEF RunsInv, RunsTypeOK, FilesTyped
      <3>3. FilesInv'
        BY <1>1, <2>2, <3>1 DEF RunsInv, FilesInv, CachedFilesMatchTheirKeys,
                                CandidatesMatchTheirRun, RankingsMatchTheirKeys
      <3>4. QED
        BY <1>2, <2>1, <3>2, <3>3 DEF RunsInv
    <2>3. CASE /\ \E k \in DOMAIN prepared : prepared' = [prepared EXCEPT ![k] = NoRows]
               /\ UNCHANGED <<candidates, rankings>>
      <3>1. /\ DOMAIN prepared' = DOMAIN prepared
            /\ \A k \in DOMAIN prepared : prepared'[k] \in {prepared[k], NoRows}
        BY <2>3
      <3>2. RunsTypeOK'
        BY <1>1, <1>4, <2>3, <3>1, NoRunFacts DEF RunsInv, RunsTypeOK, FilesTyped
      <3>3. FilesInv'
        BY <1>1, <2>3, <3>1 DEF RunsInv, FilesInv, CachedFilesMatchTheirKeys,
                                CandidatesMatchTheirRun, RankingsMatchTheirKeys
      <3>4. QED
        BY <1>2, <2>1, <3>2, <3>3 DEF RunsInv
    <2>4. CASE /\ \E k \in DOMAIN rankings : rankings' = [rankings EXCEPT ![k].rows = 0]
               /\ UNCHANGED <<candidates, prepared>>
      <3>1. PICK k \in DOMAIN rankings : rankings' = [rankings EXCEPT ![k].rows = 0]
        BY <2>4
      <3> DEFINE damaged == [rankings[k] EXCEPT !.rows = 0]
      <3>2. damaged \in Payloads /\ damaged.rows = 0
        <4>1. rankings[k] \in Payloads
          BY DEF RunsInv, RunsTypeOK, FilesTyped
        <4>2. 0 \in 0 .. Rows
          BY RunsShape
        <4>3. QED
          BY <4>1, <4>2 DEF Payloads
      <3>3. /\ DOMAIN rankings' = DOMAIN rankings /\ rankings'[k] = damaged
            /\ \A j \in DOMAIN rankings : j # k => rankings'[j] = rankings[j]
        BY <3>1
      <3> HIDE DEF damaged
      <3>4. RunsTypeOK'
        BY <1>1, <1>4, <2>4, <3>2, <3>3 DEF RunsInv, RunsTypeOK, FilesTyped
      <3>5. RankingsMatchTheirKeys'
        <4>1. ASSUME NEW j \in DOMAIN rankings', rankings'[j].rows > 0
              PROVE  j # k /\ j \in DOMAIN rankings /\ rankings'[j] = rankings[j]
          BY <3>2, <3>3, <4>1
        <4>2. QED
          BY <1>1, <4>1 DEF RunsInv, FilesInv, CachedFilesMatchTheirKeys, RankingsMatchTheirKeys
      <3>6. FilesInv'
        BY <1>1, <2>4, <3>2, <3>3, <3>5 DEF RunsInv, FilesInv, CachedFilesMatchTheirKeys,
                                            CandidatesMatchTheirRun
      <3>7. QED
        BY <1>2, <2>1, <3>4, <3>6 DEF RunsInv
    <2>5. QED
      BY <1>3, <1>4, <2>2, <2>3, <2>4 DEF Damage
  <1>5. QED
    BY <1>3, <1>4 DEF Damage

-----------------------------------------------------------------------------
(* Theorems *)

\* Every step keeps what the runs rely on.
LEMMA RunsStep == ASSUME RunsInv, [RunsNext]_runVars PROVE RunsInv'
  <1>1. CASE UNCHANGED runVars
    <2>1. /\ UNCHANGED <<dictionary, augmented, policy, candidates, prepared, rankings>>
          /\ UNCHANGED <<archive, trees, bigrams, crossed, run>>
      BY <1>1 DEF runVars, lexiconFiles, resultFiles, corpora
    <2>2. Grows
      BY <2>1 DEF Grows
    <2>3. FilesTyped' /\ LexiconInv' /\ FilesInv' /\ ArchiveInv'
      BY <2>1 DEF RunsInv, RunsTypeOK, FilesTyped, LexiconInv, Vouching, FilesInv, ArchiveInv,
                  CachedFilesMatchTheirKeys, CandidatesMatchTheirRun, RankingsMatchTheirKeys
    <2>4. QED
      BY <2>1, <2>2, <2>3, AllStay DEF RunsInv, RunsTypeOK
  <1>2. ASSUME NEW p \in Processes,
               \/ \E r \in Requests : Begin(p, r)
               \/ FindDictionary(p) \/ Download(p) \/ ReadStamps(p)
               \/ LoadPolicy(p) \/ ReadBase(p) \/ WriteAugmented(p) \/ SavePolicy(p)
        PROVE  RunsInv'
    BY <1>2, BeginKeeps, FindDictionaryKeeps, DownloadKeeps, ReadStampsKeeps, LoadPolicyKeeps,
       ReadBaseKeeps, WriteAugmentedKeeps, SavePolicyKeeps
  <1>3. ASSUME NEW p \in Processes,
               \/ FindCandidates(p) \/ Generate(p) \/ PublishCandidates(p) \/ Verify(p)
               \/ HashCandidates(p) \/ ListNgrams(p) \/ ListRoot(p) \/ ListTree(p)
        PROVE  RunsInv'
    BY <1>3, FindCandidatesKeeps, GenerateKeeps, PublishCandidatesKeeps, VerifyKeeps, HashKeeps,
       ListNgramsKeeps, ListRootKeeps, ListTreeKeeps
  <1>4. ASSUME NEW p \in Processes,
               \/ FindRanking(p) \/ FindWordNet(p) \/ FetchArchive(p) \/ Unpack(p)
               \/ StartCopy(p) \/ Copy(p) \/ EndCopy(p) \/ LoadWordNet(p)
        PROVE  RunsInv'
    BY <1>4, FindRankingKeeps, FindWordNetKeeps, FetchArchiveKeeps, UnpackKeeps, StartCopyKeeps,
       CopyKeeps, EndCopyKeeps, LoadWordNetKeeps
  <1>5. ASSUME NEW p \in Processes,
               \/ FindPrepared(p) \/ Prepare(p) \/ FetchBigrams(p) \/ Export(p)
               \/ SaveResults(p) \/ PublishRanking(p) \/ Stop(p)
        PROVE  RunsInv'
    BY <1>5, FindPreparedKeeps, PrepareKeeps, FetchBigramsKeeps, ExportKeeps, SaveResultsKeeps,
       PublishRankingKeeps, StopKeeps
  <1>6. QED
    BY <1>1, <1>2, <1>3, <1>4, <1>5, ReplaceKeeps, DamageKeeps DEF RunsNext

\* At every place of a run the shared files are what the run relies on, whoever
\* else runs, is stopped, replaces the dictionary or left something behind.  What
\* it relies on of the dictionary's versions ends with the first replacement under
\* a run that is deriving.
THEOREM RunsInvariant == RunsSpec => []RunsInv
<1>1. RunsInit => RunsInv
  <2> SUFFICES ASSUME RunsInit PROVE RunsInv
    OBVIOUS
  <2>1. /\ dictionary \in Content \cup {"none"} /\ augmented = "none" /\ policy = "none"
        /\ archive \in BOOLEAN /\ bigrams \in BOOLEAN /\ crossed = FALSE
    <3>1. PICK start \in Starts : /\ dictionary = start.dictionary
                                  /\ archive = start.archive /\ bigrams = start.bigrams
      BY DEF RunsInit
    <3>2. start.dictionary \in {"none", Versions[1]} /\ start.archive \in BOOLEAN
          /\ start.bigrams \in BOOLEAN
      BY RunsShape
    <3>3. Versions[1] \in Content
      <4>1. 1 \in DOMAIN Versions
        BY RunsShape
      <4>2. QED
        BY <4>1, VersionFacts
    <3>4. QED
      BY <3>1, <3>2, <3>3 DEF RunsInit
  <2>2. /\ candidates \in [Content -> File] /\ \A v \in Content : candidates[v] = "none"
        /\ DOMAIN prepared = {} /\ DOMAIN rankings = {}
    BY DEF RunsInit, File
  <2>3. /\ trees \in [Trees -> SUBSET WordNet] /\ ((\E t \in Trees : trees[t] # {}) => archive)
        /\ run = [p \in Processes |-> NoRun]
    BY DEF RunsInit
  <2>4. RunsTypeOK
    BY <2>1, <2>2, <2>3, NoRunFacts DEF RunsTypeOK, FilesTyped, File
  <2>5. LexiconInv
    <3>1. policy \notin Content
      BY <2>1, VersionFacts
    <3>2. QED
      BY <3>1, VersionFacts DEF LexiconInv, Vouching
  <2>6. FilesInv /\ ArchiveInv
    BY <2>2, <2>3 DEF FilesInv, CachedFilesMatchTheirKeys, CandidatesMatchTheirRun,
                      RankingsMatchTheirKeys, ArchiveInv
  <2>7. \A p \in Processes : RunInv(p)
    BY <2>3, NoRunFacts DEF RunInv, Sure, KnowsRanking, Tracks, Exported, Deriving, Lexical,
                            Named, Ranking
  <2>8. QED
    BY <2>4, <2>5, <2>6, <2>7 DEF RunsInv
<1>2. RunsInv /\ [RunsNext]_runVars => RunsInv'
  BY RunsStep
<1>3. QED
  BY <1>1, <1>2, PTL DEF RunsSpec

\* Simultaneous runs cannot return each other's results: what a finished run shows
\* is a ranking under its options, cut at its own number of rows, and of the
\* dictionary its key names unless that was replaced under a deriving run
\* (anagram_solver.py:550-552).
THEOREM ResultsAreAlwaysOwn == RunsSpec => []ResultsAreOwn
<1>1. RunsInv => ResultsAreOwn
  BY DEF RunsInv, RunInv, KnowsRanking, Tracks, ResultsAreOwn
<1>2. QED
  BY <1>1, RunsInvariant, PTL

\* The files a later run takes without asking are what their names say: rankings
\* of the options of their key, which knows their corpora, and with the same
\* exception candidates of the version of their directory
\* (anagram_solver.py:498-500, 562).
THEOREM CachedFilesAlwaysMatch == RunsSpec => []CachedFilesMatchTheirKeys
<1>1. RunsInv => CachedFilesMatchTheirKeys
  BY DEF RunsInv, FilesInv
<1>2. QED
  BY <1>1, RunsInvariant, PTL

\* No run takes away a whole export that another one may be ranking: it is
\* replaced by a whole one, also across a refresh (anagram_solver.py:454-467).
THEOREM ExportsStayWhole == RunsSpec => WholeExportsStay
<1> DEFINE Lasts == ~worn' => \A v \in Content : Whole(candidates[v]) => Whole(candidates'[v])
<1>1. RunsInv /\ [RunsNext]_runVars => [Lasts]_candidates
  <2> SUFFICES ASSUME RunsInv, [RunsNext]_runVars, candidates' # candidates PROVE Lasts
    OBVIOUS
  <2>1. ASSUME NEW p \in Processes, PublishCandidates(p) PROVE Lasts
    BY <2>1, PublishCandidatesKeeps
  <2>2. CASE Damage
    BY <2>2 DEF Damage
  <2>3. UNCHANGED runVars => FALSE
    BY DEF runVars, resultFiles
  <2>4. ASSUME NEW p \in Processes, \E r \in Requests : Begin(p, r) PROVE FALSE
    BY <2>4 DEF Begin, resultFiles
  <2>5. ASSUME NEW p \in Processes,
               \/ FindDictionary(p) \/ Download(p) \/ ReadStamps(p) \/ LoadPolicy(p)
               \/ ReadBase(p) \/ WriteAugmented(p) \/ SavePolicy(p) \/ FindCandidates(p)
               \/ Generate(p) \/ Verify(p)
        PROVE  FALSE
    BY <2>5 DEF FindDictionary, Download, ReadStamps, LoadPolicy, ReadBase, WriteAugmented,
                SavePolicy, FindCandidates, Generate, Verify, resultFiles
  <2>6. ASSUME NEW p \in Processes,
               \/ HashCandidates(p) \/ ListNgrams(p) \/ ListRoot(p) \/ ListTree(p)
               \/ FindRanking(p) \/ FindWordNet(p) \/ FetchArchive(p) \/ Unpack(p)
               \/ StartCopy(p) \/ Copy(p) \/ EndCopy(p) \/ LoadWordNet(p)
        PROVE  FALSE
    BY <2>6 DEF HashCandidates, ListNgrams, ListRoot, ListTree, FindRanking, FindWordNet,
                FetchArchive, Unpack, StartCopy, Copy, EndCopy, LoadWordNet, resultFiles
  <2>7. ASSUME NEW p \in Processes,
               \/ FindPrepared(p) \/ Prepare(p) \/ FetchBigrams(p) \/ Export(p)
               \/ SaveResults(p) \/ PublishRanking(p) \/ Stop(p)
        PROVE  FALSE
    BY <2>7 DEF FindPrepared, Prepare, FetchBigrams, Export, SaveResults, PublishRanking, Stop,
                resultFiles
  <2>8. ReplaceDictionary => FALSE
    BY DEF ReplaceDictionary, resultFiles
  <2>9. QED
    BY <2>1, <2>2, <2>3, <2>4, <2>5, <2>6, <2>7, <2>8 DEF RunsNext
<1>2. QED
  BY <1>1, RunsInvariant, PTL DEF RunsSpec, WholeExportsStay
=============================================================================
