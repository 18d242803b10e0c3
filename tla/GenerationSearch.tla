-------------------------- MODULE GenerationSearch --------------------------
(***************************************************************************)
(* The exact enumeration of word bags                                      *)
(* (crates/anagram-core/src/generation.rs).                                *)
(*                                                                         *)
(* A search runs one or more streams in turns.  A stream is a depth-first  *)
(* search with an explicit stack that chooses candidates by increasing     *)
(* index, and remembers states it has found to be dead.  Every turn of its *)
(* loop looks at the control first; pushing the root of a word count,      *)
(* which the code does in the same turn as its first step, is a turn here. *)
(*                                                                         *)
(* Words are known by their index among the admitted candidates; 0 stands  *)
(* for a clue that is no candidate.  A bag is the sequence of the indices  *)
(* chosen.  Groups of clues come in the order of indices, the code's in    *)
(* the order of the words.                                                 *)
(***************************************************************************)
EXTENDS Naturals, Sequences, FiniteSets, Functions, SequencesExt

CONSTANTS
  Letters,
  Problems, \* the searches: see ProblemShape
  MaxDead   \* MAX_DEAD_STATES

\* Letters of the target or of a candidate.
Size(inv) == SumFunction(inv)

Fits(word, inv) == \A l \in Letters : word[l] <= inv[l]

\* What request.rs passes: candidates fit the target and are not empty, counts
\* are in order, and those met by required words are among the clues.
ProblemShape(p) ==
  /\ p.target \in [Letters -> Nat] /\ Size(p.target) > 0
  /\ p.words \in Seq([Letters -> Nat])
  /\ \A i \in DOMAIN p.words : Fits(p.words[i], p.target) /\ Size(p.words[i]) > 0
  /\ p.min \in Nat \ {0} /\ p.max \in Nat /\ p.min <= p.max
  /\ p.budget \in Nat
  /\ p.repeat \in BOOLEAN
  /\ p.clues \subseteq 0..Len(p.words) /\ p.initial \subseteq p.clues
  /\ p.one \in BOOLEAN      \* HintMode::ExactlyOne
  /\ p.diverse \in BOOLEAN  \* Strategy::Diverse

ASSUME SearchAssumption ==
  IsFiniteSet(Letters) /\ MaxDead \in Nat /\ \A p \in Problems : ProblemShape(p)

VARIABLES
  problem,  \* the search
  streams,  \* streams that may have more bags; the first one has its turn
  bags,     \* the bags found, in order
  stop      \* why the search ended ("running" while it has not)

vars == <<problem, streams, bags, stop>>

Words == problem.words
Indices == DOMAIN Words

-----------------------------------------------------------------------------
(* The streams of a search *)

\* Frame::next starts at start; entry is the stream's produced at that time.
Frame(remaining, left, start, chosen, matched, produced) ==
  [remaining |-> remaining, left |-> left, next |-> start, start |-> start,
   entry |-> produced, chosen |-> chosen, matched |-> matched]

NewStream(clues, low, high) ==
  [clues |-> clues, count |-> low, max |-> high, frames |-> <<>>,
   dead |-> {}, produced |-> 0]

\* Every word has a letter, so no bag is longer than the target.
High(p) == IF p.max <= Size(p.target) THEN p.max ELSE Size(p.target)

\* Each clue of an open choice among them has streams of its own.
ClueGroups(p) ==
  IF p.clues # {} /\ p.initial = {} /\ ~p.one
    THEN [i \in 1..Cardinality(p.clues) |->
            {c \in p.clues : Cardinality({d \in p.clues : d < c}) = i - 1}]
    ELSE <<p.clues>>

StreamsOf(p) ==
  IF ~p.diverse \/ p.budget = 0
    THEN <<NewStream(p.clues, p.min, High(p))>>
    ELSE LET groups == ClueGroups(p)
             g == Len(groups)
             total == g * Cardinality(p.min..High(p))
         IN [i \in 1..total |->
               LET count == p.min + ((i - 1) \div g) IN
               NewStream(groups[((i - 1) % g) + 1], count, count)]

Init ==
  /\ problem \in Problems
  /\ streams = StreamsOf(problem)
  /\ bags = <<>>
  /\ stop = "running"

-----------------------------------------------------------------------------
(* One turn of the loop of Stream::next *)

Stream == streams[1]
Top == Last(Stream.frames)
Below == Front(Stream.frames)

Sizes == {Size(Words[i]) : i \in Indices}
MinLength == IF Indices = {} THEN 1 ELSE CHOOSE m \in Sizes : \A n \in Sizes : m <= n
MaxLength == IF Indices = {} THEN 1 ELSE CHOOSE m \in Sizes : \A n \in Sizes : n <= m

Less(inv, word) == [l \in Letters |-> inv[l] - word[l]]
Minus(m, n) == IF m >= n THEN m - n ELSE 0

\* The stream at the head goes on as s; nothing comes of this turn.
Continue(s) ==
  /\ streams' = [streams EXCEPT ![1] = s]
  /\ UNCHANGED <<problem, bags, stop>>

\* A turn with a frame on the stack.
InFrame == stop = "running" /\ streams # <<>> /\ Stream.frames # <<>>

\* The key of a dead state: what the rest of a branch depends on.
StateWithoutClues(f) == <<f.remaining, f.start, f.left, {}>>
StateOf(f) == <<f.remaining, f.start, f.left, f.matched>>

KnownDead == Top.next = Top.start /\ StateOf(Top) \in Stream.dead

\* The next word count.
PushRoot ==
  /\ stop = "running" /\ streams # <<>>
  /\ Stream.frames = <<>>
  /\ Stream.count <= Stream.max
  /\ Continue([Stream EXCEPT
       !.frames = <<Frame(problem.target, Stream.count, 1, <<>>,
                          problem.initial \cap Stream.clues, Stream.produced)>>,
       !.count = @ + 1])

SkipDead ==
  /\ InFrame
  /\ KnownDead
  /\ Continue([Stream EXCEPT !.frames = Below])

\* Whether the clues of a complete bag are as requested.
CluesMet(clues, matched) ==
  clues # {} => IF problem.one THEN Cardinality(matched) = 1 ELSE matched # {}

IsBag == (\A l \in Letters : Top.remaining[l] = 0) /\ CluesMet(Stream.clues, Top.matched)

Reject ==
  /\ InFrame /\ ~KnownDead
  /\ Top.left = 0
  /\ ~IsBag
  /\ Continue([Stream EXCEPT !.frames = Below])

\* No word that would meet an outstanding clue is ahead and fits.
ClueOutOfReach ==
  /\ Stream.clues # {} /\ Top.matched = {}
  /\ ~\E i \in Indices \cap Stream.clues : i >= Top.next /\ Fits(Words[i], Top.remaining)

\* The first index from next on whose word uses up the rest.
Finisher == {i \in Indices : i >= Top.next /\ Words[i] = Top.remaining}
First(s) == CHOOSE i \in s : \A j \in s : i <= j
Final(s) == CHOOSE i \in s : \A j \in s : i >= j

Hopeless ==
  LET length == Size(Top.remaining) IN
  \/ ClueOutOfReach
  \/ Top.next > Len(Words)
  \/ length = 0
  \/ length < Top.left * MinLength
  \/ length > Top.left * MaxLength
  \/ problem.one /\ Cardinality(Top.matched) > 1
  \/ Top.left = 1 /\ Finisher = {}

AnythingIsBarren == TRUE
\* A branch that gave no bag is remembered, as long as there is room.
Barren == Top.entry = Stream.produced

\* retire_dead_branch
Retire ==
  /\ InFrame /\ ~KnownDead
  /\ Top.left > 0
  /\ Hopeless
  /\ Continue([Stream EXCEPT
       !.frames = Below,
       !.dead = IF Barren /\ Cardinality(@) < MaxDead THEN @ \cup {StateOf(Top)} ELSE @])

LastFinisher == IF Top.left = 1 THEN Final(Finisher) ELSE Top.next
\* The candidate this turn is about.
Candidate == IF Top.left = 1 THEN First(Finisher) ELSE Top.next

\* Its length leaves the other words enough and not too many letters, it fits,
\* and it is not a second clue where one is asked for.
Useful(i) ==
  LET length == Size(Top.remaining)
      after == Top.left - 1
      size == Size(Words[i])
  IN /\ size >= Minus(length, after * MaxLength)
     /\ size <= Minus(length, after * MinLength)
     /\ Fits(Words[i], Top.remaining)
     /\ ~ /\ problem.one /\ Top.matched # {}
          /\ i \in Stream.clues /\ i \notin Top.matched

Advanced == [Top EXCEPT !.next = Candidate + 1]

PassOver ==
  /\ InFrame /\ ~KnownDead
  /\ Top.left > 0 /\ ~Hopeless
  /\ ~Useful(Candidate)
  /\ Continue([Stream EXCEPT !.frames = Append(Below, Advanced)])

\* Where the choice of the following words begins.
StartAfter(i) == IF problem.repeat THEN i ELSE i + 1

Choose ==
  LET i == Candidate IN
  /\ InFrame /\ ~KnownDead
  /\ Top.left > 0 /\ ~Hopeless
  /\ Useful(i)
  /\ Continue([Stream EXCEPT !.frames = Below \o
       <<Advanced,
         Frame(Less(Top.remaining, Words[i]), Top.left - 1, StartAfter(i),
               Append(Top.chosen, i), Top.matched \cup ({i} \cap Stream.clues),
               Stream.produced)>>])

-----------------------------------------------------------------------------
(* The search *)

Produced == [Stream EXCEPT !.frames = Below, !.produced = @ + 1]
Seen == Top.chosen \in ToSet(bags)

CapReachedAtBudget == problem.budget > 0 /\ Len(bags) + 1 = problem.budget
\* One bag more than the budget is found but not kept.
CapReached == problem.budget > 0 /\ Len(bags) = problem.budget

Yields == InFrame /\ ~KnownDead /\ Top.left = 0 /\ IsBag

\* Another stream found this bag before.
Duplicate ==
  /\ Yields /\ Seen
  /\ Continue(Produced)

SameStreamAgain == <<Produced>> \o Tail(streams)
\* Streams take turns, one new bag each.
NextInTurn == Append(Tail(streams), Produced)

Keep ==
  /\ Yields /\ ~Seen
  /\ ~CapReached
  /\ bags' = Append(bags, Top.chosen)
  /\ streams' = NextInTurn
  /\ UNCHANGED <<problem, stop>>

Cap ==
  /\ Yields /\ ~Seen
  /\ CapReached
  /\ stop' = "candidate_cap"
  /\ streams' = <<>>
  /\ UNCHANGED <<problem, bags>>

StreamEnds ==
  /\ stop = "running" /\ streams # <<>>
  /\ Stream.frames = <<>>
  /\ Stream.count > Stream.max
  /\ streams' = Tail(streams)
  /\ UNCHANGED <<problem, bags, stop>>

Exhaust ==
  /\ stop = "running" /\ streams = <<>>
  /\ stop' = "exhausted"
  /\ UNCHANGED <<problem, streams, bags>>

\* A turn, or a step of the setup, found the control stopped.
Interrupt ==
  /\ stop = "running"
  /\ streams # <<>> \/ streams = StreamsOf(problem)
  /\ stop' = "interrupted"
  /\ streams' = <<>>
  /\ UNCHANGED <<problem, bags>>

Search ==
  \/ PushRoot \/ SkipDead \/ Reject \/ Retire \/ PassOver \/ Choose
  \/ Duplicate \/ Keep \/ Cap \/ StreamEnds \/ Exhaust

Next == Search \/ Interrupt

Spec == Init /\ [][Next]_vars

-----------------------------------------------------------------------------
(* Properties *)

\* The letters a choice of words uses.
Used(p, bag) ==
  [l \in Letters |-> SumFunction([k \in DOMAIN bag |-> p.words[bag[k]][l]])]

\* Indices in the order in which a stream chooses them, from start on.
InOrder(p, bag, start) ==
  /\ \A k \in DOMAIN bag : bag[k] >= start
  /\ \A k \in 1..(Len(bag) - 1) :
       bag[k] < bag[k + 1] \/ (p.repeat /\ bag[k] = bag[k + 1])

\* Whether clues that are met are as the search asks.
Allowed(p, clues, matched) ==
  clues = {} \/ (matched # {} /\ (p.one => Cardinality(matched) = 1))

WordLists(p, n) == [1..n -> DOMAIN p.words]

\* The definition of what a search is for, with no order, pruning or memory.
SolutionsOf(p) ==
  {bag \in UNION {WordLists(p, n) : n \in p.min..High(p)} :
     /\ InOrder(p, bag, 1)
     /\ Used(p, bag) = p.target
     /\ Allowed(p, p.clues, p.initial \cup (ToSet(bag) \cap p.clues))}

Reference == [p \in Problems |-> SolutionsOf(p)]
Solutions == Reference[problem]

\* What a stream remembers as dead is dead: no choice of the remaining number
\* of words, from the remembered index on, completes it, whatever order, word
\* count or clue state the branch was first met in (generation.rs:148-154).
DeadStatesAreBarren ==
  \A i \in DOMAIN streams : \A dead \in streams[i].dead :
    LET clues == streams[i].clues IN
    ~\E rest \in WordLists(problem, dead[3]) :
       /\ InOrder(problem, rest, dead[2])
       /\ Used(problem, rest) = dead[1]
       /\ Allowed(problem, clues, dead[4] \cup (ToSet(rest) \cap clues))

\* The reason a search gives for its end is true (generation.rs:455-484): the
\* bags are solutions and none is there twice; "exhausted" says they are all;
\* "candidate_cap" says the budget is used up and there is at least one more.
StopIsTruthful ==
  /\ IsInjective(bags) /\ ToSet(bags) \subseteq Solutions
  /\ stop = "exhausted" => ToSet(bags) = Solutions
  /\ stop = "candidate_cap" =>
       Len(bags) = problem.budget /\ ToSet(bags) # Solutions

\* Pruning and the reported end are both true: a branch given up as dead was
\* dead, and the reason of the end is the real one.
SearchIsTruthful == DeadStatesAreBarren /\ StopIsTruthful

\* By number of words, then by the first index in which they differ.
Before(a, b) ==
  \/ Len(a) < Len(b)
  \/ /\ Len(a) = Len(b)
     /\ \E k \in DOMAIN a : a[k] < b[k] /\ \A j \in 1..(k - 1) : a[j] = b[j]

\* "Bounded prefixes are observable" (generation.rs:1-2): wherever a search of
\* the prefix strategy is stopped, it has the first of the solutions in the
\* order of the candidates, with no gap.
PrefixHasNoGap ==
  ~problem.diverse =>
    \A i \in DOMAIN bags : \A bag \in Solutions :
      Before(bag, bags[i]) <=> \E j \in 1..(i - 1) : bags[j] = bag

\* A bag of the word count and the clues of a stream.
InStratum(p, stratum, bag) ==
  /\ Len(bag) = stratum.count
  /\ Allowed(p, stratum.clues, (p.initial \cup ToSet(bag)) \cap stratum.clues)

Served(stratum) ==
  (\E bag \in Solutions : InStratum(problem, stratum, bag))
    => \E bag \in ToSet(bags) : InStratum(problem, stratum, bag)

\* A diverse search whose budget allows each of its streams a bag leaves no
\* word count and no open clue out that has a solution (generation.rs:449-476).
EveryStratumIsServed ==
  problem.diverse /\ stop \in {"exhausted", "candidate_cap"}
    /\ problem.budget >= Len(StreamsOf(problem)) =>
      \A i \in DOMAIN StreamsOf(problem) : Served(StreamsOf(problem)[i])
=============================================================================
