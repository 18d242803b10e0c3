----------------------- MODULE GenerationSearchProofs -----------------------
(***************************************************************************)
(* The properties of GenerationSearch for every finite alphabet, every set *)
(* of searches and every bound on the dead states: what pruning and memory *)
(* leave out was no bag, nothing is found twice, the reason of the end is  *)
(* true, a prefix has no gap, and a diverse search serves every stratum.   *)
(*                                                                         *)
(* Two statements carry the proof of the first.  What a branch has not     *)
(* looked at yet and what it gave up are together all its completions; and *)
(* a solution that is not found is among what some stream has yet to look  *)
(* at.  For the order, the frames of a stream are a line of choices, each  *)
(* the beginning of the next, so that what is pending comes after what is  *)
(* found.  For the strata, the first round gives each stream one turn.     *)
(***************************************************************************)
EXTENDS GenerationSearch, FunctionSums, SequenceTheorems

-----------------------------------------------------------------------------
(* The invariant *)

Stock == [Letters -> Nat]
Frames(p) ==
  [remaining : Stock, left : Nat, next : Nat \ {0}, start : Nat \ {0}, entry : Nat,
   chosen : Seq(DOMAIN p.words), matched : SUBSET (0 .. Len(p.words))]
Streams(p) ==
  [clues : SUBSET (0 .. Len(p.words)), count : Nat, max : Nat, frames : Seq(Frames(p)),
   dead : SUBSET (Stock \X Nat \X Nat \X SUBSET (0 .. Len(p.words))), produced : Nat]

\* What completes the choices of a frame, from an index on.
Completions(p, clues, f, from) ==
  {rest \in WordLists(p, f.left) :
     /\ InOrder(p, rest, from)
     /\ Used(p, rest) = f.remaining
     /\ Allowed(p, clues, f.matched \cup (ToSet(rest) \cap clues))}

After(p, i) == IF p.repeat THEN i ELSE i + 1

\* A frame stands for choices that can be part of a bag of the search.
FrameInv(p, s, f) ==
  /\ f.start <= f.next
  /\ f.entry <= s.produced
  /\ Len(f.chosen) + f.left = s.count - 1
  /\ InOrder(p, f.chosen, 1)
  /\ f.start = IF f.chosen = <<>> THEN 1 ELSE After(p, Last(f.chosen))
  /\ \A l \in Letters : p.target[l] = Used(p, f.chosen)[l] + f.remaining[l]
  /\ f.matched = (p.initial \cup ToSet(f.chosen)) \cap s.clues

\* A frame above another one is for the word that was chosen last below it.
ChildInv(p, s, f, g) ==
  LET i == f.next - 1 IN
  /\ f.start <= i /\ i \in DOMAIN p.words
  /\ f.left = g.left + 1
  /\ g.start = After(p, i)
  /\ \A l \in Letters : f.remaining[l] = p.words[i][l] + g.remaining[l]
  /\ g.matched = f.matched \cup ({i} \cap s.clues)
  /\ f.entry <= g.entry

\* As long as a branch has given no bag, all its completions are ahead of it
\* or in the branch above it.
ExploredInv(p, s, k) ==
  LET f == s.frames[k] IN
  f.entry = s.produced =>
    \A rest \in Completions(p, s.clues, f, f.start) :
      \/ f.left = 0
      \/ rest[1] >= f.next
      \/ k < Len(s.frames) /\ rest[1] = f.next - 1

\* What a stream looks for: all clues, or one of several that may be chosen.
CluesInv(p, s) ==
  \/ s.clues = p.clues
  \/ p.initial = {} /\ ~p.one /\ \E c \in p.clues : s.clues = {c}

\* Nothing completes a remembered state.
NoCompletion(p, clues, d) ==
  ~\E rest \in WordLists(p, d[3]) :
     /\ InOrder(p, rest, d[2])
     /\ Used(p, rest) = d[1]
     /\ Allowed(p, clues, d[4] \cup (ToSet(rest) \cap clues))

StreamInv(p, s) ==
  /\ CluesInv(p, s)
  /\ p.min <= s.count /\ s.max <= High(p)
  /\ s.frames # <<>> => s.count - 1 \in p.min .. s.max
  /\ \A k \in DOMAIN s.frames : FrameInv(p, s, s.frames[k])
  /\ \A k \in 1 .. Len(s.frames) - 1 : ChildInv(p, s, s.frames[k], s.frames[k + 1])
  /\ \A k \in DOMAIN s.frames : ExploredInv(p, s, k)
  /\ \A d \in s.dead : NoCompletion(p, s.clues, d)

\* What is left of a choice of words after the first m.
RestOf(bag, m) == [k \in 1 .. Len(bag) - m |-> bag[m + k]]

\* A bag is ahead of a frame when it begins with the frame's choices and goes
\* on from where the frame is.
Ahead(p, clues, f, bag) ==
  /\ Len(bag) = Len(f.chosen) + f.left
  /\ \A k \in 1 .. Len(f.chosen) : bag[k] = f.chosen[k]
  /\ RestOf(bag, Len(f.chosen)) \in Completions(p, clues, f, f.next)

\* A stream will come to a bag unless it is stopped.
Pending(p, s, bag) ==
  \/ /\ Len(bag) \in s.count .. s.max
     /\ Allowed(p, s.clues, (p.initial \cup ToSet(bag)) \cap s.clues)
  \/ \E k \in DOMAIN s.frames : Ahead(p, s.clues, s.frames[k], bag)

SearchInv ==
  /\ problem \in Problems
  /\ streams \in Seq(Streams(problem))
  /\ \A i \in DOMAIN streams : StreamInv(problem, streams[i])
  /\ bags \in Seq(Seq(DOMAIN problem.words))
  /\ StopIsTruthful
  /\ stop = "running" => \A bag \in Solutions :
       bag \in ToSet(bags) \/ \E i \in DOMAIN streams : Pending(problem, streams[i], bag)
  /\ stop # "running" => streams = <<>>

\* A frame has chosen what one below it had chosen when it passed its word on.
Extends(f, g) ==
  /\ Len(f.chosen) < Len(g.chosen)
  /\ \A k \in 1 .. Len(f.chosen) : g.chosen[k] = f.chosen[k]
  /\ g.chosen[Len(f.chosen) + 1] = f.next - 1

LineInv(s) ==
  \A j \in DOMAIN s.frames : \A k \in 1 .. j - 1 : Extends(s.frames[k], s.frames[j])

\* A search for a prefix has one stream; it finds the solutions in their order.
OrderInv ==
  /\ \A i \in DOMAIN streams : LineInv(streams[i])
  /\ ~problem.diverse =>
       /\ Len(streams) <= 1
       /\ \A j \in DOMAIN bags : \A i \in 1 .. j - 1 : Before(bags[i], bags[j])
       /\ \A bag \in Solutions \ ToSet(bags) : \A i \in DOMAIN bags : Before(bags[i], bag)

\* A stream of its own looks for the bags of a stratum.
Waits(stratum, s) ==
  /\ s.clues = stratum.clues /\ s.max = stratum.count /\ stratum.count <= s.count
  /\ s.frames # <<>> => stratum.count < s.count
  /\ \A bag \in Solutions :
       InStratum(problem, stratum, bag) => Pending(problem, s, bag) \/ bag \in ToSet(bags)

\* In the first round the strata that had their turn are served, with a bag each
\* at most, and the others wait for theirs in order.
FirstRound(all, done) ==
  /\ \A i \in 1 .. done : Served(all[i])
  /\ Len(all) - done <= Len(streams)
  /\ done < Len(all) => Len(bags) <= done
  /\ \A k \in 1 .. Len(all) - done : Waits(all[done + k], streams[k])

RoundInv ==
  LET all == StreamsOf(problem) IN
  problem.diverse /\ problem.budget >= Len(all) =>
    /\ stop = "running" => \E done \in 0 .. Len(all) : FirstRound(all, done)
    /\ stop \in {"exhausted", "candidate_cap"} => \A i \in DOMAIN all : Served(all[i])

\* The steps of a branch: its next candidate, its frame for a word, and the
\* stack with both.
AdvancedTo(f, c) == [f EXCEPT !.next = c + 1]
FrameFor(p, s, f, i) ==
  Frame(Less(f.remaining, p.words[i]), f.left - 1, After(p, i), Append(f.chosen, i),
        f.matched \cup ({i} \cap s.clues), s.produced)
Pushed(stack, f, g) == Front(stack) \o <<f, g>>

\* A stack that has the other's frames below these two.
PushedOn(stack, new, f, g) ==
  /\ Len(new) = Len(stack) + 1
  /\ \A k \in 1 .. Len(stack) - 1 : new[k] = stack[k]
  /\ new[Len(stack)] = f /\ new[Len(stack) + 1] = g

\* A stream that differs in its stack only.
SameButStack(s, t) ==
  /\ t.clues = s.clues /\ t.count = s.count /\ t.max = s.max /\ t.dead = s.dead
  /\ t.produced = s.produced

\* What the frame for a word takes over.
ChosenAfter(p, s, f, i, g) ==
  /\ f.left = g.left + 1 /\ g.start = After(p, i) /\ g.next = g.start
  /\ \A l \in Letters : f.remaining[l] = p.words[i][l] + g.remaining[l]
  /\ g.matched = f.matched \cup ({i} \cap s.clues)
  /\ g.entry = s.produced /\ g.chosen = Append(f.chosen, i)

-----------------------------------------------------------------------------
(* Letters and words *)

\* What a search is given.
LEMMA Shape ==
  ASSUME NEW p \in Problems
  PROVE  /\ p.target \in Stock
         /\ p.words \in Seq(Stock) /\ p.words \in [1 .. Len(p.words) -> Stock]
         /\ DOMAIN p.words = 1 .. Len(p.words) /\ Len(p.words) \in Nat
         /\ \A i \in DOMAIN p.words : p.words[i] \in Stock
         /\ \A i \in DOMAIN p.words : \A l \in Letters : p.words[i][l] <= p.target[l]
         /\ \A i \in DOMAIN p.words : Size(p.words[i]) > 0
         /\ p.min \in Nat \ {0} /\ p.max \in Nat /\ p.min <= p.max
         /\ p.budget \in Nat /\ p.repeat \in BOOLEAN /\ p.one \in BOOLEAN
         /\ p.clues \subseteq 0 .. Len(p.words) /\ p.initial \subseteq p.clues
         /\ IsFiniteSet(Letters)
  <1>1. ProblemShape(p)
    BY SearchAssumption
  <1>2. p.words \in Seq([Letters -> Nat])
    BY <1>1 DEF ProblemShape
  <1>3. /\ Len(p.words) \in Nat /\ DOMAIN p.words = 1 .. Len(p.words)
        /\ p.words \in [1 .. Len(p.words) -> Stock]
        /\ \A i \in DOMAIN p.words : p.words[i] \in Stock
    BY <1>2 DEF Stock
  <1>4. QED
    BY <1>1, <1>2, <1>3, SearchAssumption DEF ProblemShape, Fits, Stock

\* A size is a number of letters.
LEMMA SizeIsNatural ==
  ASSUME NEW inv \in Stock
  PROVE  Size(inv) \in Nat
  BY SearchAssumption, SumIsNatural DEF Size, Stock

\* The letters of two stocks together.
LEMMA SizeAdds ==
  ASSUME NEW a \in Stock, NEW b \in Stock, NEW c \in Stock,
         \A l \in Letters : c[l] = a[l] + b[l]
  PROVE  Size(c) = Size(a) + Size(b)
  <1>1. c = [l \in Letters |-> a[l] + b[l]]
    BY DEF Stock
  <1>2. QED
    BY <1>1, SearchAssumption, SumAdds DEF Size, Stock

\* A part has no more letters than the whole.
LEMMA SizeGrows ==
  ASSUME NEW a \in Stock, NEW b \in Stock, \A l \in Letters : a[l] <= b[l]
  PROVE  Size(a) <= Size(b)
  BY SearchAssumption, SumIsMonotonic DEF Size, Stock

\* The letters a list of words has of one kind.
Column(p, list, l) == [k \in DOMAIN list |-> p.words[list[k]][l]]

\* A list of words uses letters.
LEMMA UsedIsStock ==
  ASSUME NEW p \in Problems, NEW n \in Nat, NEW list \in WordLists(p, n)
  PROVE  /\ Used(p, list) \in Stock
         /\ \A l \in Letters : /\ Used(p, list)[l] = SumFunction(Column(p, list, l))
                               /\ Column(p, list, l) \in [1 .. n -> Nat]
  <1>1. \A l \in Letters : Column(p, list, l) \in [1 .. n -> Nat]
    BY Shape DEF WordLists, Column, Stock
  <1>2. IsFiniteSet(1 .. n)
    BY FS_Interval
  <1>3. \A l \in Letters : SumFunction(Column(p, list, l)) \in Nat
    BY <1>1, <1>2, SumIsNatural
  <1>4. Used(p, list) = [l \in Letters |-> SumFunction(Column(p, list, l))]
    BY DEF Used, Column
  <1>5. QED
    BY <1>1, <1>3, <1>4 DEF Stock

\* No words use no letters.
LEMMA UsedByNone ==
  ASSUME NEW p \in Problems, NEW list \in WordLists(p, 0)
  PROVE  \A l \in Letters : Used(p, list)[l] = 0
  <1>1. ASSUME NEW l \in Letters PROVE Used(p, list)[l] = 0
    <2>1. /\ Used(p, list)[l] = SumFunction(Column(p, list, l))
          /\ Column(p, list, l) \in [1 .. 0 -> Nat]
      BY UsedIsStock
    <2>2. 1 .. 0 = {}
      OBVIOUS
    <2>3. QED
      BY <2>1, <2>2, SumOfNothing
  <1>2. QED
    BY <1>1

\* The letters of a list are those of its first word and of the rest.
LEMMA UsedByRest ==
  ASSUME NEW p \in Problems, NEW n \in Nat, NEW list \in WordLists(p, n + 1)
  PROVE  /\ RestOf(list, 1) \in WordLists(p, n)
         /\ list[1] \in DOMAIN p.words
         /\ \A l \in Letters : Used(p, list)[l] = p.words[list[1]][l] + Used(p, RestOf(list, 1))[l]
  <1> DEFINE rest == RestOf(list, 1)
  <1>1. rest = [k \in 1 .. n |-> list[k + 1]] /\ Len(list) = n + 1
    BY DEF RestOf, WordLists
  <1>2. rest \in WordLists(p, n) /\ list[1] \in DOMAIN p.words /\ n + 1 \in Nat
    BY <1>1 DEF WordLists
  <1> HIDE DEF rest
  <1>3. ASSUME NEW l \in Letters
        PROVE  Used(p, list)[l] = p.words[list[1]][l] + Used(p, rest)[l]
    <2>1. /\ Used(p, list)[l] = SumFunction(Column(p, list, l))
          /\ Column(p, list, l) \in [1 .. n + 1 -> Nat]
      BY <1>2, UsedIsStock
    <2>2. Used(p, rest)[l] = SumFunction(Column(p, rest, l))
      BY <1>2, UsedIsStock
    <2>3. /\ Column(p, rest, l) = [k \in 1 .. n |-> Column(p, list, l)[k + 1]]
          /\ Column(p, list, l)[1] = p.words[list[1]][l]
      BY <1>1 DEF Column, WordLists
    <2>4. QED
      BY <2>1, <2>2, <2>3, SumOfTail
  <1>4. QED
    BY <1>2, <1>3 DEF rest

\* The letters of a list are those of its last word and of the others.
LEMMA UsedByFront ==
  ASSUME NEW p \in Problems, NEW n \in Nat, NEW list \in WordLists(p, n + 1),
         NEW front \in WordLists(p, n), \A k \in 1 .. n : front[k] = list[k]
  PROVE  \A l \in Letters : Used(p, list)[l] = Used(p, front)[l] + p.words[list[n + 1]][l]
  <1>1. ASSUME NEW l \in Letters
        PROVE  Used(p, list)[l] = Used(p, front)[l] + p.words[list[n + 1]][l]
    <2>1. /\ Used(p, list)[l] = SumFunction(Column(p, list, l))
          /\ Column(p, list, l) \in [1 .. n + 1 -> Nat]
      BY UsedIsStock
    <2>2. Used(p, front)[l] = SumFunction(Column(p, front, l))
      BY UsedIsStock
    <2>3. /\ Column(p, front, l) = [k \in 1 .. n |-> Column(p, list, l)[k]]
          /\ Column(p, list, l)[n + 1] = p.words[list[n + 1]][l]
      BY DEF Column, WordLists
    <2>4. QED
      BY <2>1, <2>2, <2>3, SumOfFront
  <1>2. QED
    BY <1>1

\* Each word of a list fits what the list uses.
LEMMA WordsFitTheirUse ==
  ASSUME NEW p \in Problems, NEW n \in Nat, NEW list \in WordLists(p, n), NEW k \in 1 .. n
  PROVE  \A l \in Letters : p.words[list[k]][l] <= Used(p, list)[l]
  <1>1. IsFiniteSet(1 .. n)
    BY FS_Interval
  <1>2. \A l \in Letters : p.words[list[k]][l] = Column(p, list, l)[k]
    BY DEF Column, WordLists
  <1>3. QED
    BY <1>1, <1>2, UsedIsStock, SumBoundsValues

\* The shortest and the longest word bound the length of all.
LEMMA LengthBounds ==
  ASSUME problem \in Problems
  PROVE  /\ MinLength \in Nat \ {0} /\ MaxLength \in Nat
         /\ \A i \in Indices : MinLength <= Size(Words[i]) /\ Size(Words[i]) <= MaxLength
  <1>1. \A i \in Indices : Size(Words[i]) \in Nat \ {0} /\ Size(Words[i]) <= Size(problem.target)
    BY Shape, SizeIsNatural, SizeGrows DEF Indices, Words
  <1>2. CASE Indices = {}
    BY <1>2 DEF MinLength, MaxLength
  <1>3. CASE Indices # {}
    <2>1. Sizes # {} /\ Sizes \in SUBSET Nat /\ \A m \in Sizes : m > 0
      BY <1>1, <1>3 DEF Sizes
    <2>2. PICK m \in Sizes : \A n \in Sizes : m <= n
      BY <2>1, LeastNatural
    <2>3. MinLength \in Sizes /\ \A n \in Sizes : MinLength <= n
      BY <1>3, <2>2 DEF MinLength
    <2> DEFINE B == {b \in Nat : \A n \in Sizes : n <= b}
    <2>4. Size(problem.target) \in B
      BY <1>1, Shape, SizeIsNatural DEF Sizes
    <2>5. PICK b \in B : \A c \in B : b <= c
      BY <2>4, LeastNatural
    <2>6. b \in Sizes /\ \A n \in Sizes : n <= b
      <3>1. SUFFICES ASSUME b \notin Sizes PROVE FALSE
        BY <2>5
      <3>2. b \in Nat /\ \A n \in Sizes : n <= b /\ n \in Nat
        BY <2>1, <2>5
      <3>3. \A n \in Sizes : n <= b - 1
        BY <3>1, <3>2
      <3>4. b - 1 \in Nat
        BY <2>1, <3>2, <3>3
      <3>5. b - 1 \in B
        BY <3>3, <3>4
      <3> HIDE DEF B
      <3>6. QED
        BY <2>5, <3>2, <3>5
    <2>7. MaxLength \in Sizes /\ \A n \in Sizes : n <= MaxLength
      BY <1>3, <2>6 DEF MaxLength
    <2>8. QED
      BY <2>1, <2>3, <2>7 DEF Sizes
  <1>4. QED
    BY <1>2, <1>3

\* One word more adds to a product.
LEMMA OneMore ==
  ASSUME NEW n \in Nat, NEW m \in Nat
  PROVE  (n + 1) * m = n * m + m /\ n * m \in Nat
  OBVIOUS

\* Bounds of the letters that a number of words uses.
LEMMA UsedBounds ==
  ASSUME problem \in Problems, NEW n \in Nat, NEW list \in WordLists(problem, n)
  PROVE  /\ Size(Used(problem, list)) \in Nat
         /\ n * MinLength <= Size(Used(problem, list))
         /\ Size(Used(problem, list)) <= n * MaxLength
  <1> DEFINE to(m) == [k \in 1 .. m |-> list[k]]
             used(m) == Size(Used(problem, to(m)))
             Bounded(m) == m * MinLength <= used(m) /\ used(m) <= m * MaxLength
             B == {m \in 0 .. n : ~Bounded(m)}
  <1>1. \A m \in 0 .. n : to(m) \in WordLists(problem, m)
    BY DEF WordLists
  <1>2. \A m \in 0 .. n : Used(problem, to(m)) \in Stock /\ used(m) \in Nat
    <2> HIDE DEF to
    <2>1. QED
      BY <1>1, UsedIsStock, SizeIsNatural
  <1>3. Bounded(0)
    <2> HIDE DEF to
    <2>1. to(0) \in WordLists(problem, 0)
      <3>1. 0 \in 0 .. n
        OBVIOUS
      <3>2. QED
        BY <1>1, <3>1
    <2>2. \A l \in Letters : Used(problem, to(0))[l] = 0
      BY <2>1, UsedByNone
    <2>3. used(0) = 0
      <3>1. Used(problem, to(0)) \in [Letters -> {0}]
        BY <1>2, <2>2 DEF Stock
      <3>2. QED
        BY <3>1, SearchAssumption, SumOfZeros DEF Size
    <2> HIDE DEF used
    <2>4. QED
      BY <2>3, LengthBounds
  <1>4. ASSUME NEW m \in 0 .. n, m + 1 \in 0 .. n, Bounded(m)
        PROVE  Bounded(m + 1)
    <2> DEFINE i == list[m + 1]
    <2>1. /\ to(m) \in WordLists(problem, m) /\ to(m + 1) \in WordLists(problem, m + 1)
          /\ \A k \in 1 .. m : to(m)[k] = to(m + 1)[k]
          /\ to(m + 1)[m + 1] = i /\ i \in DOMAIN problem.words /\ m \in Nat
      BY <1>1, <1>4 DEF WordLists
    <2> HIDE DEF to, i
    <2>2. \A l \in Letters : Used(problem, to(m + 1))[l]
                               = Used(problem, to(m))[l] + problem.words[i][l]
      BY <2>1, UsedByFront
    <2>3. problem.words[i] \in Stock
      BY <2>1, Shape
    <2>4. used(m + 1) = used(m) + Size(problem.words[i])
      BY <1>2, <1>4, <2>2, <2>3, SizeAdds
    <2>5. /\ MinLength <= Size(problem.words[i]) /\ Size(problem.words[i]) <= MaxLength
          /\ MinLength \in Nat /\ MaxLength \in Nat /\ Size(problem.words[i]) \in Nat
      BY <2>1, <2>3, LengthBounds, SizeIsNatural DEF Indices, Words
    <2>6. /\ (m + 1) * MinLength = m * MinLength + MinLength /\ m * MinLength \in Nat
          /\ (m + 1) * MaxLength = m * MaxLength + MaxLength /\ m * MaxLength \in Nat
      BY <2>1, <2>5, OneMore
    <2>7. used(m) \in Nat
      BY <1>2
    <2>8. m * MinLength <= used(m) /\ used(m) <= m * MaxLength
      BY <1>4
    <2> HIDE DEF used
    <2>9. QED
      BY <2>4, <2>5, <2>6, <2>7, <2>8
  <1>5. B = {}
    <2> SUFFICES ASSUME B # {} PROVE FALSE
      OBVIOUS
    <2>1. PICK m \in B : \A j \in B : m <= j
      <3>1. B \in SUBSET Nat
        OBVIOUS
      <3> HIDE DEF B
      <3>2. QED
        BY <3>1, LeastNatural
    <2>2. m \in 0 .. n /\ ~Bounded(m)
      BY <2>1
    <2>3. m # 0
      <3> HIDE DEF Bounded
      <3>1. QED
        BY <1>3, <2>2
    <2> DEFINE j == m - 1
    <2>4. j \in 0 .. n /\ j + 1 = m /\ ~(m <= j)
      BY <2>2, <2>3
    <2> HIDE DEF j
    <2>5. j \notin B
      <3> HIDE DEF B
      <3>1. QED
        BY <2>1, <2>4
    <2>6. Bounded(j)
      <3> HIDE DEF Bounded
      <3>1. QED
        BY <2>4, <2>5
    <2>7. Bounded(j + 1)
      <3> HIDE DEF Bounded
      <3>1. QED
        BY <1>4, <2>2, <2>4, <2>6
    <2> HIDE DEF Bounded
    <2>8. QED
      BY <2>2, <2>4, <2>7
  <1>6. Bounded(n)
    <2> HIDE DEF Bounded
    <2>1. n \in 0 .. n
      OBVIOUS
    <2>2. QED
      BY <1>5, <2>1
  <1>7. to(n) = list
    BY DEF WordLists
  <1>8. used(n) \in Nat
    <2>1. n \in 0 .. n
      OBVIOUS
    <2>2. QED
      BY <1>2, <2>1
  <1> HIDE DEF to
  <1>9. QED
    BY <1>6, <1>7, <1>8

-----------------------------------------------------------------------------
(* Completions *)

\* Words chosen in order stay behind the first.
LEMMA InOrderFrom ==
  ASSUME NEW p \in Problems, NEW n \in Nat, NEW list \in WordLists(p, n),
         NEW start, InOrder(p, list, start), NEW from \in Nat,
         n > 0 => list[1] >= from
  PROVE  InOrder(p, list, from)
  <1> DEFINE B == {k \in 1 .. n : ~(list[k] >= from)}
  <1>1. Len(list) = n /\ DOMAIN list = 1 .. n /\ \A k \in 1 .. n : list[k] \in Nat
    BY Shape DEF WordLists
  <1>2. B = {}
    <2> SUFFICES ASSUME B # {} PROVE FALSE
      OBVIOUS
    <2>1. PICK k \in B : \A j \in B : k <= j
      <3>1. B \in SUBSET Nat
        OBVIOUS
      <3> HIDE DEF B
      <3>2. QED
        BY <3>1, LeastNatural
    <2>2. k \in 1 .. n /\ ~(list[k] >= from) /\ k # 1
      BY <2>1
    <2> DEFINE j == k - 1
    <2>3. j \in 1 .. n - 1 /\ j \in 1 .. n /\ j + 1 = k /\ ~(k <= j)
      BY <2>2
    <2> HIDE DEF j
    <2>4. j \notin B
      <3> HIDE DEF B
      <3>1. QED
        BY <2>1, <2>3
    <2>5. list[j] >= from
      BY <2>3, <2>4
    <2>6. list[j] <= list[j + 1]
      <3>1. j \in 1 .. Len(list) - 1 /\ InOrder(p, list, start)
        BY <1>1, <2>3
      <3>2. list[j] < list[j + 1] \/ list[j] = list[j + 1]
        BY <3>1 DEF InOrder
      <3>3. list[j] \in Nat /\ list[j + 1] \in Nat
        BY <1>1, <2>2, <2>3
      <3>4. QED
        BY <3>2, <3>3
    <2>7. QED
      BY <1>1, <2>2, <2>3, <2>5, <2>6
  <1>3. QED
    BY <1>1, <1>2 DEF InOrder

\* The rest of a list in order begins after the first word.
LEMMA RestInOrder ==
  ASSUME NEW p \in Problems, NEW n \in Nat, NEW list \in WordLists(p, n + 1),
         NEW start, InOrder(p, list, start)
  PROVE  InOrder(p, RestOf(list, 1), After(p, list[1]))
  <1> DEFINE rest == RestOf(list, 1)
  <1>1. /\ Len(list) = n + 1 /\ rest = [k \in 1 .. n |-> list[1 + k]]
        /\ \A k \in 1 .. n + 1 : list[k] \in Nat
    BY Shape DEF RestOf, WordLists
  <1>2. rest \in WordLists(p, n) /\ Len(rest) = n
    BY <1>1, UsedByRest DEF WordLists
  <1>3. \A k \in 1 .. n : list[k] < list[k + 1] \/ (p.repeat /\ list[k] = list[k + 1])
    BY <1>1 DEF InOrder
  <1>4. \A k \in 1 .. n - 1 : rest[k] < rest[k + 1] \/ (p.repeat /\ rest[k] = rest[k + 1])
    <2>1. \A k \in 1 .. n - 1 : /\ k \in 1 .. n /\ k + 1 \in 1 .. n
                                /\ rest[k] = list[k + 1] /\ rest[k + 1] = list[(k + 1) + 1]
      BY <1>1
    <2>2. QED
      BY <1>3, <2>1
  <1>5. InOrder(p, rest, 0)
    BY <1>1, <1>2, <1>4 DEF InOrder, WordLists
  <1>6. After(p, list[1]) \in Nat
    BY <1>1 DEF After
  <1>7. n > 0 => rest[1] >= After(p, list[1])
    <2>1. SUFFICES ASSUME n > 0 PROVE rest[1] >= After(p, list[1])
      OBVIOUS
    <2>2. rest[1] = list[2] /\ 1 \in 1 .. n /\ list[1] \in Nat /\ list[2] \in Nat
      BY <1>1, <2>1
    <2>3. list[1] < list[2] \/ (p.repeat /\ list[1] = list[2])
      BY <1>3, <2>2
    <2>4. QED
      BY <2>2, <2>3 DEF After
  <1> HIDE DEF rest
  <1>8. QED
    BY <1>2, <1>5, <1>6, <1>7, InOrderFrom DEF rest

\* What completes the choices of a frame with a word completes those of the
\* frame for that word with the rest.
LEMMA RestCompletes ==
  ASSUME NEW p \in Problems, NEW clues, NEW f \in Frames(p), NEW g \in Frames(p), NEW from,
         NEW rest \in Completions(p, clues, f, from),
         NEW i \in DOMAIN p.words, rest[1] = i,
         f.left = g.left + 1, g.start = After(p, i),
         \A l \in Letters : f.remaining[l] = p.words[i][l] + g.remaining[l],
         g.matched = f.matched \cup ({i} \cap clues)
  PROVE  RestOf(rest, 1) \in Completions(p, clues, g, g.start)
  <1> DEFINE n == g.left
             tail == RestOf(rest, 1)
  <1>1. /\ n \in Nat /\ f.left = n + 1 /\ rest \in WordLists(p, n + 1)
        /\ InOrder(p, rest, from) /\ Used(p, rest) = f.remaining
        /\ Allowed(p, clues, f.matched \cup (ToSet(rest) \cap clues))
    BY DEF Completions, Frames
  <1> HIDE DEF n
  <1>2. /\ tail \in WordLists(p, n)
        /\ \A l \in Letters : Used(p, rest)[l] = p.words[i][l] + Used(p, tail)[l]
    BY <1>1, UsedByRest
  <1>3. InOrder(p, tail, g.start)
    BY <1>1, RestInOrder
  <1>4. Used(p, tail) = g.remaining
    <2>1. Used(p, tail) \in Stock /\ g.remaining \in Stock /\ p.words[i] \in Stock
      <3> HIDE DEF tail
      <3>1. QED
        BY <1>1, <1>2, UsedIsStock, Shape DEF Frames
    <2>2. ASSUME NEW l \in Letters PROVE Used(p, tail)[l] = g.remaining[l]
      <3>1. /\ f.remaining[l] = p.words[i][l] + Used(p, tail)[l]
            /\ f.remaining[l] = p.words[i][l] + g.remaining[l]
        BY <1>1, <1>2
      <3>2. Used(p, tail)[l] \in Nat /\ g.remaining[l] \in Nat /\ p.words[i][l] \in Nat
        BY <2>1 DEF Stock
      <3> HIDE DEF tail
      <3>3. QED
        BY <3>1, <3>2
    <2> HIDE DEF tail
    <2>3. QED
      BY <2>1, <2>2 DEF Stock
  <1>5. g.matched \cup (ToSet(tail) \cap clues) = f.matched \cup (ToSet(rest) \cap clues)
    <2>1. tail = [k \in 1 .. n |-> rest[1 + k]] /\ DOMAIN rest = 1 .. n + 1
      BY <1>1 DEF RestOf, WordLists
    <2>2. ToSet(rest) = {i} \cup ToSet(tail)
      <3>1. ASSUME NEW x \in ToSet(rest) PROVE x \in {i} \cup ToSet(tail)
        <4>1. PICK k \in 1 .. n + 1 : x = rest[k]
          BY <2>1 DEF ToSet
        <4>2. CASE k # 1
          <5>1. k - 1 \in 1 .. n /\ tail[k - 1] = rest[k]
            BY <1>1, <2>1, <4>1, <4>2
          <5>2. QED
            BY <2>1, <4>1, <5>1 DEF ToSet
        <4>3. QED
          BY <4>1, <4>2
      <3>2. ASSUME NEW x \in {i} \cup ToSet(tail) PROVE x \in ToSet(rest)
        <4>1. CASE x = i
          BY <1>1, <2>1, <4>1 DEF ToSet
        <4>2. CASE x \in ToSet(tail)
          <5>1. PICK k \in 1 .. n : x = tail[k]
            BY <2>1, <4>2 DEF ToSet
          <5>2. 1 + k \in 1 .. n + 1 /\ x = rest[1 + k]
            BY <1>1, <2>1, <5>1
          <5>3. QED
            BY <2>1, <5>2 DEF ToSet
        <4>3. QED
          BY <3>2, <4>1, <4>2
      <3>3. QED
        BY <3>1, <3>2
    <2>3. QED
      BY <2>2
  <1>6. Allowed(p, clues, g.matched \cup (ToSet(tail) \cap clues))
    BY <1>1, <1>5
  <1> HIDE DEF tail
  <1>7. QED
    BY <1>2, <1>3, <1>4, <1>6 DEF Completions, n, tail

\* The first word of a completion, and what it leaves to the others.
LEMMA FirstWord ==
  ASSUME problem \in Problems, NEW clues, NEW f \in Frames(problem), f.left > 0,
         NEW from \in Nat, NEW rest \in Completions(problem, clues, f, from)
  PROVE  /\ rest[1] \in Indices /\ rest[1] >= from /\ rest[1] \in Nat
         /\ Fits(Words[rest[1]], f.remaining)
         /\ Size(f.remaining) \in Nat /\ Size(Words[rest[1]]) \in Nat
         /\ f.left * MinLength <= Size(f.remaining) /\ Size(f.remaining) <= f.left * MaxLength
         /\ Size(Words[rest[1]]) + (f.left - 1) * MinLength <= Size(f.remaining)
         /\ Size(f.remaining) <= Size(Words[rest[1]]) + (f.left - 1) * MaxLength
         /\ f.left = 1 => Words[rest[1]] = f.remaining
  <1> DEFINE n == f.left - 1
             tail == RestOf(rest, 1)
             i == rest[1]
  <1>1. /\ n \in Nat /\ f.left = n + 1 /\ rest \in WordLists(problem, n + 1)
        /\ InOrder(problem, rest, from) /\ Used(problem, rest) = f.remaining
        /\ f.remaining \in Stock
    BY DEF Completions, Frames
  <1>2. i \in Indices /\ i >= from /\ i \in Nat
    BY <1>1, Shape DEF WordLists, InOrder, Indices, Words
  <1>3. Fits(Words[i], f.remaining)
    <2>1. 1 \in 1 .. n + 1 /\ n + 1 \in Nat
      BY <1>1
    <2>2. \A l \in Letters : problem.words[rest[1]][l] <= Used(problem, rest)[l]
      <3> HIDE DEF n, i
      <3>1. QED
        BY <1>1, <2>1, WordsFitTheirUse
    <2>3. QED
      BY <1>1, <2>2 DEF Fits, Words
  <1>4. /\ tail \in WordLists(problem, n)
        /\ \A l \in Letters : f.remaining[l] = Words[i][l] + Used(problem, tail)[l]
    <2> HIDE DEF n
    <2>1. QED
      BY <1>1, UsedByRest DEF Words
  <1> HIDE DEF n, tail, i
  <1>5. Used(problem, tail) \in Stock /\ Words[i] \in Stock
    BY <1>1, <1>2, <1>4, UsedIsStock, Shape DEF Indices, Words
  <1>6. Size(f.remaining) = Size(Words[i]) + Size(Used(problem, tail))
    BY <1>1, <1>4, <1>5, SizeAdds
  <1>7. /\ Size(Used(problem, tail)) \in Nat /\ Size(Words[i]) \in Nat /\ Size(f.remaining) \in Nat
    BY <1>1, <1>5, SizeIsNatural
  <1>8. /\ n * MinLength <= Size(Used(problem, tail))
        /\ Size(Used(problem, tail)) <= n * MaxLength
        /\ n * MinLength \in Nat /\ n * MaxLength \in Nat
    BY <1>1, <1>4, UsedBounds, LengthBounds, OneMore
  <1>9. /\ f.left * MinLength <= Size(f.remaining)
        /\ Size(f.remaining) <= f.left * MaxLength
    <2>1. n + 1 \in Nat
      BY <1>1
    <2>2. QED
      BY <1>1, <2>1, UsedBounds
  <1>10. n = 0 => Words[i] = f.remaining
    <2>1. SUFFICES ASSUME n = 0 PROVE Words[i] = f.remaining
      OBVIOUS
    <2>2. \A l \in Letters : Used(problem, tail)[l] = 0
      BY <1>4, <2>1, UsedByNone
    <2>3. \A l \in Letters : f.remaining[l] = Words[i][l]
      BY <1>4, <1>5, <2>2 DEF Stock
    <2>4. QED
      BY <1>1, <1>5, <2>3 DEF Stock
  <1>11. /\ Size(Words[i]) + n * MinLength <= Size(f.remaining)
         /\ Size(f.remaining) <= Size(Words[i]) + n * MaxLength
    BY <1>6, <1>7, <1>8
  <1>12. f.left = 1 => n = 0
    BY <1>1
  <1>13. QED
    BY <1>2, <1>3, <1>7, <1>9, <1>10, <1>11, <1>12 DEF n, i

-----------------------------------------------------------------------------
(* What the turns of a stream leave out *)

\* The frame and the clues of a turn.
TurnTyped ==
  /\ problem \in Problems
  /\ Stream.clues \subseteq 0 .. Len(Words)
  /\ Top \in Frames(problem)

\* A set of clues with more than one member is not of size one.
LEMMA OneClue ==
  ASSUME NEW S, IsFiniteSet(S), Cardinality(S) = 1
  PROVE  \A x, y \in S : x = y
  BY FS_Singleton

\* The clues of a completion are no more than the search asks for.
LEMMA CluesOfCompletion ==
  ASSUME TurnTyped, NEW rest \in Completions(problem, Stream.clues, Top, Top.next)
  PROVE  LET met == Top.matched \cup (ToSet(rest) \cap Stream.clues) IN
         /\ Allowed(problem, Stream.clues, met)
         /\ IsFiniteSet(met)
         /\ rest \in WordLists(problem, Top.left)
  <1>1. IsFiniteSet(0 .. Len(Words))
    BY Shape, FS_Interval DEF TurnTyped, Words
  <1>2. Top.matched \cup (ToSet(rest) \cap Stream.clues) \subseteq 0 .. Len(Words)
    BY DEF TurnTyped, Frames, Words
  <1>3. QED
    BY <1>1, <1>2, FS_Subset DEF Completions

\* A branch that is given up has no completion from where it is
\* (generation.rs:238-286).
LEMMA HopelessHasNone ==
  ASSUME TurnTyped, Top.left > 0, Hopeless, Top.matched \subseteq Stream.clues
  PROVE  Completions(problem, Stream.clues, Top, Top.next) = {}
  <1> SUFFICES ASSUME NEW rest \in Completions(problem, Stream.clues, Top, Top.next)
               PROVE  FALSE
    OBVIOUS
  <1> DEFINE met == Top.matched \cup (ToSet(rest) \cap Stream.clues)
             i == rest[1]
  <1>1. /\ problem \in Problems /\ Top \in Frames(problem) /\ Top.next \in Nat /\ Top.left \in Nat
    BY DEF TurnTyped, Frames
  <1>2. /\ i \in Indices /\ i >= Top.next /\ i \in Nat /\ Fits(Words[i], Top.remaining)
        /\ Size(Top.remaining) \in Nat
        /\ Top.left * MinLength <= Size(Top.remaining)
        /\ Size(Top.remaining) <= Top.left * MaxLength
        /\ Top.left = 1 => Words[i] = Top.remaining
    BY <1>1, FirstWord
  <1>3. /\ Allowed(problem, Stream.clues, met) /\ IsFiniteSet(met)
        /\ rest \in WordLists(problem, Top.left)
    BY CluesOfCompletion
  <1>4. ~ClueOutOfReach
    <2>1. SUFFICES ASSUME ClueOutOfReach PROVE FALSE
      OBVIOUS
    <2>2. Stream.clues # {} /\ Top.matched = {} /\ met # {}
      BY <1>3, <2>1 DEF ClueOutOfReach, Allowed
    <2>3. PICK k \in DOMAIN rest : rest[k] \in Stream.clues
      BY <2>2 DEF ToSet
    <2>4. k \in 1 .. Top.left /\ rest[k] \in Indices
      BY <1>3, <2>3 DEF WordLists, Indices, Words
    <2>5. rest[k] >= Top.next /\ Used(problem, rest) = Top.remaining
      BY <2>3 DEF Completions, InOrder
    <2>6. Fits(Words[rest[k]], Top.remaining)
      BY <1>1, <1>3, <2>4, <2>5, WordsFitTheirUse DEF Fits, Words
    <2>7. QED
      BY <2>1, <2>3, <2>4, <2>5, <2>6 DEF ClueOutOfReach
  <1>5. ~(Top.next > Len(Words))
    BY <1>1, <1>2, Shape DEF Indices, Words
  <1>6. Size(Top.remaining) # 0
    <2>1. Fits(Words[i], Top.remaining) /\ Size(Words[i]) > 0
      BY <1>1, <1>2, Shape DEF Indices, Words
    <2>2. Size(Words[i]) <= Size(Top.remaining) /\ Size(Words[i]) \in Nat
      BY <1>1, <1>2, <2>1, Shape, SizeGrows, SizeIsNatural DEF Fits, Frames, Indices, Words
    <2>3. QED
      BY <1>2, <2>1, <2>2
  <1>7. ~(problem.one /\ Cardinality(Top.matched) > 1)
    <2>1. SUFFICES ASSUME problem.one, Cardinality(Top.matched) > 1 PROVE FALSE
      OBVIOUS
    <2>2. CASE Stream.clues = {}
      BY <2>1, <2>2, FS_EmptySet
    <2>3. CASE Stream.clues # {}
      <3>1. Cardinality(met) = 1
        BY <1>3, <2>1, <2>3 DEF Allowed
      <3>2. Cardinality(Top.matched) <= Cardinality(met) /\ Cardinality(Top.matched) \in Nat
        BY <1>3, FS_Subset, FS_CardinalityType
      <3> HIDE DEF met
      <3>3. QED
        BY <2>1, <3>1, <3>2
    <2>4. QED
      BY <2>2, <2>3
  <1>8. ~(Top.left = 1 /\ Finisher = {})
    BY <1>2 DEF Finisher
  <1>9. /\ ~(Size(Top.remaining) < Top.left * MinLength)
        /\ ~(Size(Top.remaining) > Top.left * MaxLength)
    <2>1. Top.left * MinLength \in Nat /\ Top.left * MaxLength \in Nat
      BY <1>1, LengthBounds, OneMore
    <2>2. QED
      BY <1>2, <2>1
  <1> HIDE DEF met, i
  <1>10. QED
    BY <1>4, <1>5, <1>6, <1>7, <1>8, <1>9 DEF Hopeless

\* The candidate of a turn comes before whatever completes the branch.
LEMMA CandidateIsNext ==
  ASSUME TurnTyped, Top.left > 0, ~Hopeless
  PROVE  /\ Candidate \in Indices /\ Candidate \in Nat /\ Candidate >= Top.next
         /\ \A rest \in Completions(problem, Stream.clues, Top, Top.next) : Candidate <= rest[1]
  <1>1. /\ problem \in Problems /\ Top \in Frames(problem) /\ Top.left \in Nat
        /\ Top.next \in Nat \ {0} /\ Indices = 1 .. Len(Words) /\ Len(Words) \in Nat
    BY Shape DEF TurnTyped, Frames, Indices, Words
  <1>2. CASE Top.left = 1
    <2>1. Finisher # {} /\ Finisher \in SUBSET Nat
      BY <1>1, <1>2 DEF Hopeless, Finisher
    <2>2. PICK i \in Finisher : \A j \in Finisher : i <= j
      BY <2>1, LeastNatural
    <2>3. Candidate \in Finisher /\ \A j \in Finisher : Candidate <= j
      BY <1>2, <2>2 DEF Candidate, First
    <2>4. ASSUME NEW rest \in Completions(problem, Stream.clues, Top, Top.next)
          PROVE  rest[1] \in Finisher
      BY <1>1, <1>2, FirstWord DEF Finisher
    <2>5. QED
      BY <1>1, <2>3, <2>4 DEF Finisher
  <1>3. CASE Top.left # 1
    <2>1. Candidate = Top.next /\ Top.next <= Len(Words)
      BY <1>1, <1>3 DEF Candidate, Hopeless
    <2>2. ASSUME NEW rest \in Completions(problem, Stream.clues, Top, Top.next)
          PROVE  Top.next <= rest[1]
      BY <1>1, FirstWord
    <2>3. QED
      BY <1>1, <2>1, <2>2
  <1>4. QED
    BY <1>2, <1>3

\* A candidate that is passed over begins no completion (generation.rs:292-316).
LEMMA UselessBeginsNone ==
  ASSUME TurnTyped, Top.left > 0, ~Hopeless, ~Useful(Candidate),
         NEW rest \in Completions(problem, Stream.clues, Top, Top.next)
  PROVE  rest[1] # Candidate
  <1> SUFFICES ASSUME rest[1] = Candidate PROVE FALSE
    OBVIOUS
  <1> DEFINE i == rest[1]
             met == Top.matched \cup (ToSet(rest) \cap Stream.clues)
             length == Size(Top.remaining)
             size == Size(Words[i])
             most == (Top.left - 1) * MaxLength
             least == (Top.left - 1) * MinLength
  <1>1. /\ problem \in Problems /\ Top \in Frames(problem) /\ Top.next \in Nat /\ Top.left \in Nat
    BY DEF TurnTyped, Frames
  <1>2. /\ Fits(Words[i], Top.remaining) /\ length \in Nat /\ size \in Nat
        /\ size + least <= length /\ length <= size + most
    BY <1>1, FirstWord
  <1>3. least \in Nat /\ most \in Nat
    <2>1. Top.left - 1 \in Nat
      BY <1>1
    <2>2. QED
      BY <1>1, <2>1, LengthBounds, OneMore
  <1>4. /\ Allowed(problem, Stream.clues, met) /\ IsFiniteSet(met)
        /\ rest \in WordLists(problem, Top.left)
    BY CluesOfCompletion
  <1>5. ~ /\ problem.one /\ Top.matched # {}
          /\ i \in Stream.clues /\ i \notin Top.matched
    <2>1. SUFFICES ASSUME problem.one, Top.matched # {}, i \in Stream.clues, i \notin Top.matched
                   PROVE  FALSE
      OBVIOUS
    <2>2. Cardinality(met) = 1
      BY <1>4, <2>1 DEF Allowed
    <2>3. i \in met
      BY <1>1, <1>4, <2>1 DEF ToSet, WordLists
    <2>4. PICK x \in Top.matched : x \in met
      BY <2>1
    <2> HIDE DEF met, i
    <2>5. QED
      BY <1>4, <2>1, <2>2, <2>3, <2>4, OneClue
  <1>6. size >= Minus(length, most) /\ size <= Minus(length, least)
    <2> HIDE DEF length, size, most, least
    <2>1. QED
      BY <1>2, <1>3 DEF Minus
  <1> HIDE DEF met
  <1>7. QED
    BY <1>2, <1>5, <1>6 DEF Useful

-----------------------------------------------------------------------------
(* The stack of a stream *)

\* The top of a stack and what is below it.
LEMMA StackFacts ==
  ASSUME NEW S, NEW s \in Seq(S), s # <<>>
  PROVE  /\ Len(s) \in Nat \ {0} /\ DOMAIN s = 1 .. Len(s) /\ \A k \in 1 .. Len(s) : s[k] \in S
         /\ Last(s) = s[Len(s)] /\ Last(s) \in S
         /\ Front(s) \in Seq(S) /\ Len(Front(s)) = Len(s) - 1
         /\ DOMAIN Front(s) = 1 .. Len(s) - 1
         /\ \A k \in 1 .. Len(s) - 1 : Front(s)[k] = s[k]
  <1> DEFINE n == Len(s)
  <1>1. n \in Nat \ {0} /\ DOMAIN s = 1 .. n /\ \A k \in 1 .. n : s[k] \in S
    OBVIOUS
  <1>2. Last(s) = s[n]
    BY DEF Last
  <1>3. n - 1 \in Nat /\ n \in 1 .. n /\ \A k \in 1 .. n - 1 : k \in 1 .. n
    BY <1>1
  <1>4. Front(s) = SubSeq(s, 1, n - 1)
    BY DEF Front
  <1> HIDE DEF n
  <1>5. SubSeq(s, 1, n - 1) = [k \in 1 .. n - 1 |-> s[k]]
    <2>1. (n - 1) - 1 + 1 = n - 1
      BY <1>1
    <2>2. SubSeq(s, 1, n - 1) = [k \in 1 .. ((n - 1) - 1 + 1) |-> s[k + 1 - 1]]
      BY <1>1
    <2>3. \A k \in 1 .. n - 1 : k + 1 - 1 = k
      BY <1>1
    <2>4. QED
      BY <2>1, <2>2, <2>3
  <1>6. [k \in 1 .. n - 1 |-> s[k]] \in Seq(S) /\ Len([k \in 1 .. n - 1 |-> s[k]]) = n - 1
    BY <1>1, <1>3
  <1>7. QED
    BY <1>1, <1>2, <1>3, <1>4, <1>5, <1>6 DEF n

\* A stack whose top is replaced.
LEMMA ReplacedTop ==
  ASSUME NEW S, NEW s \in Seq(S), s # <<>>, NEW f \in S
  PROVE  LET t == Append(Front(s), f) IN
         /\ t \in Seq(S) /\ Len(t) = Len(s) /\ DOMAIN t = 1 .. Len(s)
         /\ \A k \in 1 .. Len(s) - 1 : t[k] = s[k]
         /\ t[Len(s)] = f
  <1>1. /\ Front(s) \in Seq(S) /\ Len(Front(s)) = Len(s) - 1 /\ Len(s) \in Nat \ {0}
        /\ \A k \in 1 .. Len(s) - 1 : Front(s)[k] = s[k]
    BY StackFacts
  <1> DEFINE below == Front(s)
  <1> HIDE DEF below
  <1>2. below \in Seq(S) /\ Len(below) = Len(s) - 1 /\ \A k \in 1 .. Len(s) - 1 : below[k] = s[k]
    BY <1>1 DEF below
  <1>3. /\ Append(below, f) \in Seq(S) /\ Len(Append(below, f)) = Len(s)
        /\ \A k \in 1 .. Len(s) - 1 : Append(below, f)[k] = s[k]
        /\ Append(below, f)[Len(s)] = f
    BY <1>1, <1>2
  <1>4. QED
    BY <1>3 DEF below

\* A stack whose top is replaced and that grows by one.
LEMMA PushedTop ==
  ASSUME NEW S, NEW s \in Seq(S), s # <<>>, NEW f \in S, NEW g \in S,
         NEW t, t = Pushed(s, f, g)
  PROVE  t \in Seq(S) /\ PushedOn(s, t, f, g)
  <1>1. /\ Front(s) \in Seq(S) /\ Len(Front(s)) = Len(s) - 1 /\ Len(s) \in Nat \ {0}
        /\ \A k \in 1 .. Len(s) - 1 : Front(s)[k] = s[k]
    BY StackFacts
  <1> DEFINE below == Front(s)
  <1> HIDE DEF below
  <1>2. below \in Seq(S) /\ Len(below) = Len(s) - 1 /\ \A k \in 1 .. Len(s) - 1 : below[k] = s[k]
    BY <1>1 DEF below
  <1> DEFINE two == <<f, g>>
  <1>3. two \in Seq(S) /\ Len(two) = 2 /\ two[1] = f /\ two[2] = g
    OBVIOUS
  <1> HIDE DEF two
  <1>4. /\ below \o two \in Seq(S) /\ Len(below \o two) = Len(below) + Len(two)
        /\ \A k \in 1 .. Len(below) + Len(two) :
             (below \o two)[k] = IF k <= Len(below) THEN below[k] ELSE two[k - Len(below)]
    BY <1>2, <1>3, ConcatProperties
  <1>5. Len(below) + Len(two) = Len(s) + 1
    BY <1>1, <1>2, <1>3
  <1> DEFINE n == Len(s)
  <1>6. t = below \o two
    BY DEF below, two, Pushed
  <1>7. /\ n \in Nat \ {0} /\ Len(below) = n - 1
        /\ \A k \in 1 .. n + 1 : t[k] = IF k <= Len(below) THEN below[k] ELSE two[k - Len(below)]
    BY <1>1, <1>2, <1>4, <1>5, <1>6
  <1>8. t \in Seq(S) /\ Len(t) = n + 1
    BY <1>4, <1>5, <1>6
  <1> HIDE DEF n
  <1>9. ASSUME NEW k \in 1 .. n - 1 PROVE t[k] = below[k]
    <2>1. k \in 1 .. n + 1 /\ k <= Len(below)
      BY <1>7
    <2>2. QED
      BY <1>7, <2>1
  <1>10. t[n] = two[1]
    <2>1. n \in 1 .. n + 1 /\ ~(n <= n - 1) /\ n - (n - 1) = 1
      BY <1>7
    <2>2. QED
      BY <1>7, <2>1
  <1>11. t[n + 1] = two[2]
    <2>1. n + 1 \in 1 .. n + 1 /\ ~(n + 1 <= n - 1) /\ (n + 1) - (n - 1) = 2
      BY <1>7
    <2>2. QED
      BY <1>7, <2>1
  <1>12. DOMAIN t = 1 .. n + 1
    BY <1>7, <1>8
  <1>13. QED
    BY <1>2, <1>3, <1>8, <1>9, <1>10, <1>11, <1>12 DEF n, PushedOn

\* A completion from the start that begins no earlier than next is one from next.
LEMMA CompletionFrom ==
  ASSUME NEW p \in Problems, NEW clues, NEW f \in Frames(p), NEW start,
         NEW rest \in Completions(p, clues, f, start), NEW from \in Nat,
         f.left > 0 => rest[1] >= from
  PROVE  rest \in Completions(p, clues, f, from)
  BY InOrderFrom DEF Completions, Frames

\* A branch that is left leaves the stack in order, when it had no bag to give
\* or has given one.
LEMMA PopKeeps ==
  ASSUME NEW p \in Problems, NEW s \in Streams(p), StreamInv(p, s), s.frames # <<>>,
         NEW t \in Streams(p), t.frames = Front(s.frames),
         t.clues = s.clues, t.count = s.count, t.max = s.max,
         \A d \in t.dead : NoCompletion(p, s.clues, d),
         \/ /\ t.produced = s.produced
            /\ Last(s.frames).entry = s.produced =>
                 Completions(p, s.clues, Last(s.frames), Last(s.frames).start) = {}
         \/ t.produced = s.produced + 1
  PROVE  /\ StreamInv(p, t)
         /\ \A bag : Pending(p, s, bag) /\ ~Ahead(p, s.clues, Last(s.frames), bag)
                       => Pending(p, t, bag)
  <1> DEFINE n == Len(s.frames)
             top == Last(s.frames)
  <1>1. /\ n \in Nat \ {0} /\ DOMAIN s.frames = 1 .. n /\ top = s.frames[n]
        /\ \A k \in 1 .. n : s.frames[k] \in Frames(p)
        /\ Len(t.frames) = n - 1 /\ DOMAIN t.frames = 1 .. n - 1
        /\ \A k \in 1 .. n - 1 : t.frames[k] = s.frames[k]
        /\ s.produced \in Nat /\ t.produced \in Nat
    <2>1. s.frames \in Seq(Frames(p)) /\ s.produced \in Nat /\ t.produced \in Nat
      BY DEF Streams
    <2>2. QED
      BY <2>1, StackFacts
  <1>2. \A k \in 1 .. n : FrameInv(p, s, s.frames[k]) /\ ExploredInv(p, s, k)
    BY <1>1 DEF StreamInv
  <1>3. \A k \in 1 .. n - 1 : ChildInv(p, s, s.frames[k], s.frames[k + 1])
    BY <1>1 DEF StreamInv
  <1> HIDE DEF n
  <1>4. ASSUME NEW k \in 1 .. n - 1 PROVE FrameInv(p, t, t.frames[k])
    <2>1. k \in 1 .. n /\ s.frames[k].entry \in Nat /\ t.produced >= s.produced
      BY <1>1 DEF Frames
    <2>2. QED
      BY <1>1, <1>2, <1>4, <2>1 DEF FrameInv
  <1>5. ASSUME NEW k \in 1 .. (n - 1) - 1 PROVE ChildInv(p, t, t.frames[k], t.frames[k + 1])
    <2>1. k \in 1 .. n - 1 /\ k + 1 \in 1 .. n - 1
      BY <1>1
    <2>2. t.frames[k] = s.frames[k] /\ t.frames[k + 1] = s.frames[k + 1]
      BY <1>1, <2>1
    <2>3. ChildInv(p, s, s.frames[k], s.frames[k + 1])
      BY <1>3, <2>1
    <2>4. t.clues = s.clues
      BY <1>1
    <2>5. QED
      BY <2>2, <2>3, <2>4 DEF ChildInv
  <1>6. ASSUME NEW k \in 1 .. n - 1 PROVE ExploredInv(p, t, k)
    <2> DEFINE f == s.frames[k]
    <2>1. k \in 1 .. n /\ k + 1 \in 1 .. n /\ t.frames[k] = f /\ f \in Frames(p) /\ f.entry \in Nat
      <3>1. k \in 1 .. n /\ k + 1 \in 1 .. n /\ t.frames[k] = f /\ f \in Frames(p)
        BY <1>1
      <3> HIDE DEF f
      <3>2. f.entry \in Nat
        BY <3>1 DEF Frames
      <3>3. QED
        BY <3>1, <3>2
    <2>2. CASE t.produced = s.produced + 1
      <3>1. f.entry <= s.produced
        BY <1>2, <2>1 DEF FrameInv
      <3>2. f.entry # t.produced
        BY <1>1, <2>1, <2>2, <3>1
      <3> HIDE DEF f
      <3>3. QED
        BY <2>1, <3>2 DEF ExploredInv
    <2>3. CASE t.produced = s.produced
      <3>1. SUFFICES ASSUME f.entry = s.produced,
                            NEW rest \in Completions(p, s.clues, f, f.start),
                            f.left # 0, ~(rest[1] >= f.next)
                     PROVE  k < n - 1 /\ rest[1] = f.next - 1
        BY <1>1, <2>1, <2>3 DEF ExploredInv
      <3>2. rest[1] = f.next - 1
        BY <1>1, <1>2, <2>1, <3>1 DEF ExploredInv
      <3>3. k # n - 1
        <4>1. SUFFICES ASSUME k = n - 1 PROVE FALSE
          OBVIOUS
        <4>2. ChildInv(p, s, f, top)
          BY <1>1, <1>3, <4>1
        <4>3. top \in Frames(p) /\ FrameInv(p, s, top)
          BY <1>1, <1>2
        <4>4. RestOf(rest, 1) \in Completions(p, s.clues, top, top.start)
          <5>1. /\ rest[1] \in DOMAIN p.words /\ f.left = top.left + 1
                /\ top.start = After(p, rest[1])
                /\ \A l \in Letters : f.remaining[l] = p.words[rest[1]][l] + top.remaining[l]
                /\ top.matched = f.matched \cup ({rest[1]} \cap s.clues)
            BY <3>2, <4>2 DEF ChildInv
          <5> HIDE DEF f, top
          <5>2. QED
            BY <2>1, <3>1, <4>3, <5>1, RestCompletes
        <4>5. top.entry = s.produced
          <5>1. f.entry <= top.entry
            BY <4>2 DEF ChildInv
          <5>2. top.entry <= s.produced
            BY <4>3 DEF FrameInv
          <5>3. top.entry \in Nat
            BY <4>3 DEF Frames
          <5>4. s.produced \in Nat /\ f.entry = s.produced
            BY <1>1, <3>1
          <5> HIDE DEF f, top
          <5>5. QED
            BY <5>1, <5>2, <5>3, <5>4
        <4>6. QED
          BY <1>1, <2>3, <4>4, <4>5
      <3>4. QED
        BY <1>1, <3>2, <3>3
    <2>4. QED
      BY <2>2, <2>3
  <1>7. StreamInv(p, t)
    <2>1. /\ CluesInv(p, t) /\ p.min <= t.count /\ t.max <= High(p)
          /\ t.count - 1 \in p.min .. t.max
      BY DEF StreamInv, CluesInv
    <2>2. QED
      BY <1>1, <1>4, <1>5, <1>6, <2>1 DEF StreamInv
  <1>8. ASSUME NEW bag, Pending(p, s, bag), ~Ahead(p, s.clues, top, bag)
        PROVE  Pending(p, t, bag)
    <2>1. CASE \E k \in DOMAIN s.frames : Ahead(p, s.clues, s.frames[k], bag)
      <3>1. PICK k \in 1 .. n : Ahead(p, s.clues, s.frames[k], bag)
        BY <1>1, <2>1
      <3>2. k # n
        BY <1>1, <1>8, <3>1
      <3>3. k \in 1 .. n - 1
        BY <1>1, <3>2
      <3>4. QED
        BY <1>1, <3>1, <3>3 DEF Pending
    <2>2. QED
      BY <1>8, <2>1 DEF Pending
  <1>9. QED
    BY <1>7, <1>8

\* A branch that goes on with a later candidate, when no completion begins
\* before that, leaves the stack in order.
LEMMA AdvanceKeeps ==
  ASSUME NEW p \in Problems, NEW s \in Streams(p), StreamInv(p, s), s.frames # <<>>,
         Last(s.frames).left > 0,
         NEW c \in Nat, Last(s.frames).next <= c,
         \A rest \in Completions(p, s.clues, Last(s.frames), Last(s.frames).next) : c + 1 <= rest[1],
         NEW t \in Streams(p),
         t.frames = Append(Front(s.frames), [Last(s.frames) EXCEPT !.next = c + 1]),
         t.clues = s.clues, t.count = s.count, t.max = s.max, t.dead = s.dead,
         t.produced = s.produced
  PROVE  /\ StreamInv(p, t)
         /\ \A bag : Pending(p, s, bag) => Pending(p, t, bag)
  <1> DEFINE n == Len(s.frames)
             top == Last(s.frames)
             adv == [top EXCEPT !.next = c + 1]
  <1>1. /\ n \in Nat \ {0} /\ DOMAIN s.frames = 1 .. n /\ top = s.frames[n]
        /\ \A k \in 1 .. n : s.frames[k] \in Frames(p)
        /\ s.produced \in Nat /\ s.frames \in Seq(Frames(p)) /\ top \in Frames(p)
    <2>1. s.frames \in Seq(Frames(p)) /\ s.produced \in Nat
      BY DEF Streams
    <2>2. QED
      BY <2>1, StackFacts
  <1>2. adv \in Frames(p)
    <2>1. c + 1 \in Nat \ {0}
      OBVIOUS
    <2> HIDE DEF top
    <2>2. QED
      BY <1>1, <2>1 DEF Frames
  <1>3. /\ adv.left = top.left /\ adv.start = top.start /\ adv.entry = top.entry
        /\ adv.remaining = top.remaining /\ adv.matched = top.matched /\ adv.chosen = top.chosen
        /\ adv.next = c + 1
    BY <1>1 DEF Frames
  <1>4. /\ top.start \in Nat /\ top.next \in Nat /\ top.left \in Nat /\ top.entry \in Nat
        /\ top.left > 0
    BY <1>1 DEF Frames
  <1> HIDE DEF adv
  <1>5. /\ Len(t.frames) = n /\ DOMAIN t.frames = 1 .. n
        /\ \A k \in 1 .. n - 1 : t.frames[k] = s.frames[k]
        /\ t.frames[n] = adv
    BY <1>1, <1>2, ReplacedTop DEF adv
  <1>6. \A k \in 1 .. n : FrameInv(p, s, s.frames[k]) /\ ExploredInv(p, s, k)
    BY <1>1 DEF StreamInv
  <1>7. \A k \in 1 .. n - 1 : ChildInv(p, s, s.frames[k], s.frames[k + 1])
    BY <1>1 DEF StreamInv
  <1>8. \A from : Completions(p, s.clues, adv, from) = Completions(p, s.clues, top, from)
    BY <1>3 DEF Completions
  <1>9. \A rest \in Completions(p, s.clues, top, top.next) :
           c + 1 <= rest[1] /\ rest \in Completions(p, s.clues, top, c + 1)
    <2>1. c + 1 \in Nat
      OBVIOUS
    <2>2. \A rest \in Completions(p, s.clues, top, top.next) : rest[1] \in Nat
      <3>1. 1 \in 1 .. top.left /\ DOMAIN p.words \subseteq Nat
        BY <1>4, Shape
      <3> HIDE DEF top
      <3>2. QED
        BY <3>1 DEF Completions, WordLists
    <2>3. ASSUME NEW rest \in Completions(p, s.clues, top, top.next)
          PROVE  c + 1 <= rest[1] /\ rest[1] >= c + 1
      BY <2>1, <2>2
    <2> HIDE DEF top
    <2>4. QED
      BY <1>1, <2>1, <2>3, CompletionFrom
  <1> HIDE DEF n, top
  <1>10. ASSUME NEW k \in 1 .. n PROVE FrameInv(p, t, t.frames[k])
    <2>1. CASE k = n
      <3>1. FrameInv(p, s, top)
        BY <1>1, <1>6
      <3>2. FrameInv(p, t, adv)
        BY <1>3, <1>4, <3>1 DEF FrameInv, top
      <3>3. QED
        BY <1>5, <2>1, <3>2
    <2>2. CASE k # n
      <3>1. k \in 1 .. n - 1 /\ k \in 1 .. n
        BY <1>1, <2>2
      <3>2. QED
        BY <1>5, <1>6, <3>1 DEF FrameInv
    <2>3. QED
      BY <2>1, <2>2
  <1>11. ASSUME NEW k \in 1 .. n - 1 PROVE ChildInv(p, t, t.frames[k], t.frames[k + 1])
    <2>1. ChildInv(p, s, s.frames[k], s.frames[k + 1]) /\ t.frames[k] = s.frames[k]
      BY <1>5, <1>7
    <2>2. CASE k + 1 = n
      <3>1. ChildInv(p, s, s.frames[k], top) /\ t.frames[k + 1] = adv
        BY <1>1, <1>5, <2>1, <2>2
      <3>2. ChildInv(p, t, s.frames[k], adv)
        BY <1>3, <3>1 DEF ChildInv
      <3>3. QED
        BY <2>1, <3>1, <3>2
    <2>3. CASE k + 1 # n
      <3>1. k + 1 \in 1 .. n - 1
        BY <1>1, <2>3
      <3>2. QED
        BY <1>5, <2>1, <3>1 DEF ChildInv
    <2>4. QED
      BY <2>2, <2>3
  <1>12. ASSUME NEW k \in 1 .. n PROVE ExploredInv(p, t, k)
    <2>1. CASE k = n
      <3>1. SUFFICES ASSUME adv.entry = s.produced,
                            NEW rest \in Completions(p, s.clues, adv, adv.start)
                     PROVE  rest[1] >= c + 1
        BY <1>3, <1>5, <2>1 DEF ExploredInv
      <3>2. rest \in Completions(p, s.clues, top, top.start)
        BY <1>3, <1>8
      <3>3. rest[1] >= top.next
        <4>1. ExploredInv(p, s, n) /\ s.frames[n] = top /\ ~(n < n) /\ top.left # 0
          BY <1>1, <1>4, <1>6
        <4>2. top.entry = s.produced /\ n = Len(s.frames)
          BY <1>3, <3>1 DEF n
        <4>3. QED
          BY <3>2, <4>1, <4>2 DEF ExploredInv
      <3>4. rest \in Completions(p, s.clues, top, top.next)
        BY <1>1, <1>4, <3>2, <3>3, CompletionFrom
      <3>5. rest[1] \in Nat /\ c + 1 <= rest[1]
        <4>1. 1 \in 1 .. top.left /\ DOMAIN p.words \subseteq Nat
          BY <1>4, Shape
        <4>2. QED
          BY <1>9, <3>4, <4>1 DEF Completions, WordLists
      <3>6. QED
        BY <3>5
    <2>2. CASE k # n
      <3>1. k \in 1 .. n - 1 /\ k \in 1 .. n
        BY <1>1, <2>2
      <3>2. QED
        BY <1>5, <1>6, <3>1 DEF ExploredInv, n
    <2>3. QED
      BY <2>1, <2>2
  <1>13. StreamInv(p, t)
    <2>1. /\ CluesInv(p, t) /\ p.min <= t.count /\ t.max <= High(p)
          /\ t.count - 1 \in p.min .. t.max
          /\ \A d \in t.dead : NoCompletion(p, t.clues, d)
      BY DEF StreamInv, CluesInv
    <2>2. QED
      BY <1>5, <1>10, <1>11, <1>12, <2>1 DEF StreamInv
  <1>14. ASSUME NEW bag, Pending(p, s, bag) PROVE Pending(p, t, bag)
    <2>1. CASE \E k \in DOMAIN s.frames : Ahead(p, s.clues, s.frames[k], bag)
      <3>1. PICK k \in 1 .. n : Ahead(p, s.clues, s.frames[k], bag)
        BY <1>1, <2>1
      <3>2. CASE k = n
        <4>1. Ahead(p, s.clues, adv, bag)
          BY <1>1, <1>3, <1>8, <1>9, <3>1, <3>2 DEF Ahead
        <4>2. QED
          BY <1>1, <1>5, <4>1 DEF Pending
      <3>3. CASE k # n
        <4>1. k \in 1 .. n - 1 /\ k \in 1 .. n
          BY <1>1, <3>3
        <4>2. QED
          BY <1>5, <3>1, <4>1 DEF Pending
      <3>4. QED
        BY <3>2, <3>3
    <2>2. QED
      BY <1>14, <2>1 DEF Pending
  <1>15. QED
    BY <1>13, <1>14

\* The frame for a word that fits, chosen after those of another frame.
LEMMA ChosenGrows ==
  ASSUME NEW p \in Problems, NEW s \in Streams(p), NEW f \in Frames(p), FrameInv(p, s, f),
         f.left > 0, NEW i \in DOMAIN p.words, f.next <= i, Fits(p.words[i], f.remaining),
         NEW g, g = FrameFor(p, s, f, i)
  PROVE  g \in Frames(p) /\ FrameInv(p, s, g) /\ ChosenAfter(p, s, f, i, g)
  <1> DEFINE m == Len(f.chosen)
             list == Append(f.chosen, i)
             less == Less(f.remaining, p.words[i])
  <1>1. /\ f.remaining \in Stock /\ f.left \in Nat /\ f.next \in Nat /\ f.start \in Nat
        /\ f.chosen \in Seq(DOMAIN p.words) /\ f.matched \in SUBSET (0 .. Len(p.words))
        /\ p.words[i] \in Stock /\ i \in Nat \ {0} /\ i \in 0 .. Len(p.words)
        /\ s.clues \in SUBSET (0 .. Len(p.words)) /\ s.produced \in Nat /\ s.count \in Nat
    <2>1. /\ f.remaining \in Stock /\ f.left \in Nat /\ f.next \in Nat /\ f.start \in Nat
          /\ f.chosen \in Seq(DOMAIN p.words) /\ f.matched \in SUBSET (0 .. Len(p.words))
      BY DEF Frames
    <2>2. s.clues \in SUBSET (0 .. Len(p.words)) /\ s.produced \in Nat /\ s.count \in Nat
      BY DEF Streams
    <2>3. p.words \in Seq(Stock)
      BY Shape
    <2>4. p.words[i] \in Stock /\ i \in Nat \ {0} /\ i \in 0 .. Len(p.words)
      BY <2>3
    <2>5. QED
      BY <2>1, <2>2, <2>4
  <1>2. /\ g.remaining = less /\ g.left = f.left - 1 /\ g.start = After(p, i) /\ g.next = After(p, i)
        /\ g.chosen = list /\ g.matched = f.matched \cup ({i} \cap s.clues) /\ g.entry = s.produced
    BY DEF Frame, FrameFor
  <1>3. less \in Stock /\ \A l \in Letters : f.remaining[l] = p.words[i][l] + less[l]
    <2>1. \A l \in Letters : /\ f.remaining[l] \in Nat /\ p.words[i][l] \in Nat
                             /\ p.words[i][l] <= f.remaining[l]
      BY <1>1 DEF Stock, Fits
    <2>2. \A l \in Letters : /\ f.remaining[l] - p.words[i][l] \in Nat
                             /\ f.remaining[l] = p.words[i][l] + (f.remaining[l] - p.words[i][l])
      BY <2>1
    <2>3. QED
      BY <2>2 DEF Less, Stock
  <1>4. /\ m \in Nat /\ f.chosen \in WordLists(p, m)
        /\ list \in Seq(DOMAIN p.words) /\ Len(list) = m + 1 /\ list \in WordLists(p, m + 1)
        /\ list[m + 1] = i /\ \A k \in 1 .. m : list[k] = f.chosen[k]
    <2> DEFINE chosen == f.chosen
               grown == Append(chosen, i)
    <2>1. chosen \in Seq(DOMAIN p.words)
      BY <1>1
    <2> HIDE DEF chosen
    <2>2. /\ Len(chosen) \in Nat /\ chosen \in [1 .. Len(chosen) -> DOMAIN p.words]
          /\ grown \in Seq(DOMAIN p.words) /\ Len(grown) = Len(chosen) + 1
          /\ grown[Len(chosen) + 1] = i /\ \A k \in 1 .. Len(chosen) : grown[k] = chosen[k]
      BY <2>1
    <2>3. m = Len(chosen) /\ list = grown /\ f.chosen = chosen
      BY DEF chosen
    <2> HIDE DEF grown, m, list
    <2>4. list \in [1 .. m + 1 -> DOMAIN p.words]
      BY <2>2, <2>3
    <2>5. QED
      BY <2>2, <2>3, <2>4 DEF WordLists
  <1>5. After(p, i) \in Nat \ {0}
    BY <1>1 DEF After
  <1> HIDE DEF less, list
  <1>6. g \in Frames(p)
    <2>1. /\ f.left - 1 \in Nat
          /\ f.matched \cup ({i} \cap s.clues) \in SUBSET (0 .. Len(p.words))
      BY <1>1
    <2>2. g = Frame(less, f.left - 1, After(p, i), list, f.matched \cup ({i} \cap s.clues), s.produced)
      BY DEF less, list, FrameFor
    <2>3. QED
      BY <1>1, <1>3, <1>4, <1>5, <2>1, <2>2 DEF Frame, Frames
  <1> HIDE DEF m
  <1>7. InOrder(p, list, 1)
    <2>1. \A k \in 1 .. m + 1 : list[k] \in Nat \ {0}
      BY <1>4, Shape DEF WordLists
    <2>2. ASSUME NEW k \in 1 .. m PROVE list[k] < list[k + 1] \/ (p.repeat /\ list[k] = list[k + 1])
      <3>1. CASE k = m
        <4>1. f.start = After(p, Last(f.chosen)) /\ Last(f.chosen) = list[m] /\ f.start <= i
          <5>1. f.chosen # <<>> /\ Last(f.chosen) = f.chosen[m] /\ list[m] = f.chosen[m]
            <6>1. m # 0 /\ list[m] = f.chosen[m]
              BY <1>4, <3>1
            <6>2. f.chosen # <<>>
              BY <6>1 DEF m
            <6>3. QED
              BY <6>1, <6>2 DEF Last, m
          <5>2. f.start <= f.next /\ f.start = After(p, Last(f.chosen))
            BY <5>1 DEF FrameInv
          <5>3. QED
            BY <1>1, <5>1, <5>2
        <4>2. list[m] \in Nat /\ i \in Nat /\ list[k + 1] = i
          BY <1>1, <1>4, <2>1, <3>1
        <4>3. p.repeat \in BOOLEAN
          BY Shape
        <4>4. CASE p.repeat
          BY <3>1, <4>1, <4>2, <4>4 DEF After
        <4>5. CASE ~p.repeat
          BY <3>1, <4>1, <4>2, <4>5 DEF After
        <4>6. QED
          BY <4>3, <4>4, <4>5
      <3>2. CASE k # m
        <4>1. k \in 1 .. m - 1 /\ k \in 1 .. m /\ k + 1 \in 1 .. m
          BY <1>4, <3>2
        <4>2. f.chosen[k] < f.chosen[k + 1] \/ (p.repeat /\ f.chosen[k] = f.chosen[k + 1])
          BY <4>1 DEF FrameInv, InOrder, m
        <4>3. QED
          BY <1>4, <4>1, <4>2
      <3>3. QED
        BY <3>1, <3>2
    <2>3. DOMAIN list = 1 .. m + 1 /\ Len(list) - 1 = m
      BY <1>4
    <2>4. QED
      BY <2>1, <2>2, <2>3 DEF InOrder
  <1>8. \A l \in Letters : p.target[l] = Used(p, list)[l] + less[l]
    <2>1. \A l \in Letters : Used(p, list)[l] = Used(p, f.chosen)[l] + p.words[i][l]
      BY <1>4, UsedByFront
    <2>2. Used(p, f.chosen) \in Stock
      BY <1>4, UsedIsStock
    <2>3. ASSUME NEW l \in Letters PROVE p.target[l] = Used(p, list)[l] + less[l]
      <3>1. /\ p.target[l] = Used(p, f.chosen)[l] + f.remaining[l]
            /\ f.remaining[l] = p.words[i][l] + less[l]
            /\ Used(p, list)[l] = Used(p, f.chosen)[l] + p.words[i][l]
        BY <1>3, <2>1 DEF FrameInv
      <3>2. Used(p, f.chosen)[l] \in Nat /\ p.words[i][l] \in Nat /\ less[l] \in Nat
        BY <1>1, <1>3, <2>2 DEF Stock
      <3>3. QED
        BY <3>1, <3>2
    <2>4. QED
      BY <2>3
  <1>9. f.matched \cup ({i} \cap s.clues) = (p.initial \cup ToSet(list)) \cap s.clues
    <2>1. ToSet(list) = ToSet(f.chosen) \cup {i}
      <3>1. DOMAIN list = 1 .. m + 1 /\ DOMAIN f.chosen = 1 .. m
        BY <1>4 DEF WordLists
      <3>2. ASSUME NEW x \in ToSet(list) PROVE x \in ToSet(f.chosen) \cup {i}
        <4>1. PICK k \in 1 .. m + 1 : x = list[k]
          BY <3>1 DEF ToSet
        <4>2. k = m + 1 \/ k \in 1 .. m
          BY <1>4
        <4>3. QED
          BY <1>4, <3>1, <4>1, <4>2 DEF ToSet
      <3>3. ASSUME NEW x \in ToSet(f.chosen) \cup {i} PROVE x \in ToSet(list)
        <4>1. m + 1 \in 1 .. m + 1 /\ \A k \in 1 .. m : k \in 1 .. m + 1
          BY <1>4
        <4>2. CASE x = i
          BY <1>4, <3>1, <4>1, <4>2 DEF ToSet
        <4>3. CASE x \in ToSet(f.chosen)
          BY <1>4, <3>1, <4>1, <4>3 DEF ToSet
        <4>4. QED
          BY <3>3, <4>2, <4>3
      <3>4. QED
        BY <3>2, <3>3
    <2>2. f.matched = (p.initial \cup ToSet(f.chosen)) \cap s.clues
      BY DEF FrameInv
    <2>3. QED
      BY <2>1, <2>2
  <1>10. FrameInv(p, s, g)
    <2>1. list # <<>> /\ Last(list) = i
      BY <1>4 DEF Last
    <2>2. Len(list) + (f.left - 1) = s.count - 1
      <3>1. m + f.left = s.count - 1
        BY DEF FrameInv, m
      <3>2. Len(list) = m + 1 /\ m \in Nat /\ f.left \in Nat
        BY <1>1, <1>4
      <3>3. QED
        BY <3>1, <3>2
    <2>3. g.start <= g.next /\ g.entry <= s.produced
      BY <1>1, <1>2, <1>5
    <2>4. QED
      BY <1>2, <1>7, <1>8, <1>9, <2>1, <2>2, <2>3 DEF FrameInv
  <1>11. f.left = g.left + 1
    BY <1>1, <1>2
  <1>12. QED
    BY <1>2, <1>3, <1>6, <1>10, <1>11 DEF list, ChosenAfter

\* What is left of a bag after one word more.
LEMMA RestOfMore ==
  ASSUME NEW bag, Len(bag) \in Nat, NEW m \in Nat, m + 1 <= Len(bag)
  PROVE  /\ RestOf(bag, m)[1] = bag[m + 1]
         /\ RestOf(bag, m + 1) = RestOf(RestOf(bag, m), 1)
  <1> DEFINE n == Len(bag)
             r == RestOf(bag, m)
  <1>1. n \in Nat /\ m + 1 <= n
    OBVIOUS
  <1>2. r = [k \in 1 .. n - m |-> bag[m + k]]
    BY DEF RestOf
  <1>3. RestOf(bag, m + 1) = [k \in 1 .. n - (m + 1) |-> bag[(m + 1) + k]]
    BY DEF RestOf
  <1>4. RestOf(r, 1) = [k \in 1 .. Len(r) - 1 |-> r[1 + k]]
    BY DEF RestOf
  <1> HIDE DEF n, r
  <1>5. Len(r) = n - m /\ 1 \in 1 .. n - m /\ r[1] = bag[m + 1]
    BY <1>1, <1>2
  <1>6. n - (m + 1) = (n - m) - 1 /\ n - m \in Nat
    BY <1>1
  <1>7. \A k \in 1 .. (n - m) - 1 : 1 + k \in 1 .. n - m /\ (m + 1) + k = m + (1 + k)
    BY <1>6
  <1>8. \A k \in 1 .. (n - m) - 1 : r[1 + k] = bag[(m + 1) + k]
    BY <1>2, <1>7
  <1>9. RestOf(bag, m + 1) = RestOf(r, 1)
    BY <1>3, <1>4, <1>5, <1>6, <1>8
  <1>10. QED
    BY <1>5, <1>9 DEF r

\* A branch that chooses a candidate leaves the stack in order.
LEMMA PushKeeps ==
  ASSUME NEW p \in Problems, NEW s \in Streams(p), StreamInv(p, s),
         NEW n \in Nat \ {0}, n = Len(s.frames), NEW top, top = s.frames[n], top.left > 0,
         NEW c \in DOMAIN p.words, top.next <= c,
         \A rest \in Completions(p, s.clues, top, top.next) : c <= rest[1],
         NEW g \in Frames(p), FrameInv(p, s, g), ChosenAfter(p, s, top, c, g),
         NEW t \in Streams(p), NEW adv, adv = AdvancedTo(top, c),
         PushedOn(s.frames, t.frames, adv, g), SameButStack(s, t)
  PROVE  /\ StreamInv(p, t)
         /\ \A bag : Pending(p, s, bag) => Pending(p, t, bag)
  <1>1. /\ Len(t.frames) = n + 1 /\ \A k \in 1 .. n - 1 : t.frames[k] = s.frames[k]
        /\ t.frames[n] = adv /\ t.frames[n + 1] = g
        /\ t.clues = s.clues /\ t.count = s.count /\ t.max = s.max /\ t.dead = s.dead
        /\ t.produced = s.produced
    BY DEF PushedOn, SameButStack
  <1>2. /\ n \in Nat \ {0} /\ DOMAIN s.frames = 1 .. n /\ top = s.frames[n]
        /\ \A k \in 1 .. n : s.frames[k] \in Frames(p)
        /\ s.produced \in Nat /\ s.frames \in Seq(Frames(p)) /\ top \in Frames(p)
    <2>1. s.frames \in Seq(Frames(p)) /\ s.produced \in Nat
      BY DEF Streams
    <2> DEFINE stack == s.frames
    <2>2. stack \in Seq(Frames(p)) /\ Len(stack) = n /\ top = stack[n]
      BY <2>1
    <2> HIDE DEF stack
    <2>3. n \in 1 .. n /\ DOMAIN stack = 1 .. n /\ \A k \in 1 .. n : stack[k] \in Frames(p)
      BY <2>2
    <2>4. QED
      BY <2>1, <2>2, <2>3 DEF stack
  <1>3. c \in Nat \ {0} /\ DOMAIN p.words \subseteq Nat
    BY Shape
  <1>4. adv \in Frames(p)
    <2>1. c + 1 \in Nat \ {0}
      BY <1>3
    <2>2. QED
      BY <1>2, <2>1 DEF Frames, AdvancedTo
  <1>5. /\ adv.left = top.left /\ adv.start = top.start /\ adv.entry = top.entry
        /\ adv.remaining = top.remaining /\ adv.matched = top.matched /\ adv.chosen = top.chosen
        /\ adv.next = c + 1
    BY <1>2 DEF Frames, AdvancedTo
  <1>6. /\ top.start \in Nat /\ top.next \in Nat /\ top.left \in Nat /\ top.entry \in Nat
        /\ top.left > 0 /\ top.next <= c
    BY <1>2 DEF Frames
  <1>7. \A k \in 1 .. n : FrameInv(p, s, s.frames[k]) /\ ExploredInv(p, s, k)
    BY <1>2 DEF StreamInv
  <1>8. \A k \in 1 .. n - 1 : ChildInv(p, s, s.frames[k], s.frames[k + 1])
    BY <1>2 DEF StreamInv
  <1>9. /\ g \in Frames(p) /\ FrameInv(p, s, g)
        /\ top.left = g.left + 1 /\ g.start = After(p, c) /\ g.next = g.start
        /\ \A l \in Letters : top.remaining[l] = p.words[c][l] + g.remaining[l]
        /\ g.matched = top.matched \cup ({c} \cap s.clues)
        /\ g.entry = s.produced /\ g.chosen = Append(top.chosen, c)
    BY DEF ChosenAfter
  <1>10. /\ Len(t.frames) = n + 1 /\ DOMAIN t.frames = 1 .. n + 1
        /\ \A k \in 1 .. n - 1 : t.frames[k] = s.frames[k]
        /\ t.frames[n] = adv /\ t.frames[n + 1] = g
    <2>1. t.frames \in Seq(Frames(p))
      BY DEF Streams
    <2>2. DOMAIN t.frames = 1 .. Len(t.frames)
      BY <2>1
    <2>3. QED
      BY <1>1, <2>2
  <1>11. \A from : Completions(p, s.clues, adv, from) = Completions(p, s.clues, top, from)
    BY <1>5 DEF Completions
  <1>12. \A from : \A rest \in Completions(p, s.clues, top, from) : rest[1] \in Nat
    <2>1. 1 \in 1 .. top.left
      BY <1>6
    <2>2. QED
      BY <1>3, <2>1 DEF Completions, WordLists
  <1>13. \A rest \in Completions(p, s.clues, top, top.next) :
           /\ c <= rest[1] /\ rest[1] \in Nat
           /\ rest[1] # c => rest \in Completions(p, s.clues, top, c + 1)
    <2>1. c + 1 \in Nat
      BY <1>3
    <2>2. ASSUME NEW rest \in Completions(p, s.clues, top, top.next)
          PROVE  c <= rest[1] /\ rest[1] \in Nat /\ (rest[1] # c => rest[1] >= c + 1)
      BY <1>3, <1>12
    <2>3. QED
      BY <1>2, <2>1, <2>2, CompletionFrom
  <1>14. FrameInv(p, t, g) /\ FrameInv(p, t, adv)
    <2>1. FrameInv(p, s, top)
      BY <1>2, <1>7
    <2>2. c + 1 \in Nat /\ top.start <= c + 1
      BY <1>3, <1>6, <2>1 DEF FrameInv
    <2>3. FrameInv(p, t, adv)
      <3>1. t.count = s.count /\ t.clues = s.clues /\ t.produced = s.produced
        BY <1>1
      <3>2. adv.start <= adv.next
        BY <1>5, <2>2
      <3>3. QED
        BY <1>5, <2>1, <3>1, <3>2 DEF FrameInv
    <2>4. FrameInv(p, t, g)
      BY <1>1, <1>9 DEF FrameInv
    <2>5. QED
      BY <2>3, <2>4
  <1>15. ASSUME NEW k \in 1 .. n + 1 PROVE FrameInv(p, t, t.frames[k])
    <2>1. k = n \/ k = n + 1 \/ (k \in 1 .. n - 1 /\ k \in 1 .. n)
      BY <1>2
    <2>2. CASE k \in 1 .. n - 1 /\ k \in 1 .. n
      <3>1. FrameInv(p, s, s.frames[k]) /\ t.frames[k] = s.frames[k]
        BY <1>7, <1>10, <2>2
      <3>2. QED
        BY <1>1, <3>1 DEF FrameInv
    <2>3. CASE k = n
      <3>1. t.frames[k] = adv
        BY <1>1, <2>3
      <3>2. QED
        BY <1>14, <3>1
    <2>4. CASE k = n + 1
      <3>1. t.frames[k] = g
        BY <1>1, <2>4
      <3>2. QED
        BY <1>14, <3>1
    <2>5. QED
      BY <2>1, <2>2, <2>3, <2>4
  <1>16. ASSUME NEW k \in 1 .. (n + 1) - 1 PROVE ChildInv(p, t, t.frames[k], t.frames[k + 1])
    <2>1. k = n \/ (k \in 1 .. n - 1 /\ (k + 1 = n \/ k + 1 \in 1 .. n - 1))
      BY <1>2
    <2>2. CASE k = n
      <3>1. adv.next - 1 = c /\ top.start <= c
        <4>1. FrameInv(p, s, top)
          BY <1>2, <1>7
        <4>2. QED
          BY <1>3, <1>5, <1>6, <4>1 DEF FrameInv
      <3>2. top.entry <= s.produced
        <4>1. FrameInv(p, s, top)
          BY <1>2, <1>7
        <4>2. QED
          BY <4>1 DEF FrameInv
      <3>3. ChildInv(p, t, adv, g)
        BY <1>1, <1>5, <1>9, <3>1, <3>2 DEF ChildInv
      <3>4. t.frames[k] = adv /\ t.frames[k + 1] = g
        BY <1>1, <2>2
      <3>5. QED
        BY <3>3, <3>4
    <2>3. CASE k \in 1 .. n - 1 /\ k + 1 = n
      <3>1. ChildInv(p, s, s.frames[k], top) /\ t.frames[k + 1] = adv /\ t.frames[k] = s.frames[k]
        BY <1>2, <1>8, <1>10, <2>3
      <3>2. ChildInv(p, t, s.frames[k], adv)
        <4>1. ChildInv(p, s, s.frames[k], top) /\ t.clues = s.clues
          BY <1>1, <3>1
        <4>2. QED
          BY <1>5, <4>1 DEF ChildInv
      <3>3. QED
        BY <3>1, <3>2
    <2>4. CASE k \in 1 .. n - 1 /\ k + 1 \in 1 .. n - 1
      <3>1. /\ ChildInv(p, s, s.frames[k], s.frames[k + 1])
            /\ t.frames[k] = s.frames[k] /\ t.frames[k + 1] = s.frames[k + 1]
        BY <1>8, <1>10, <2>4
      <3>2. QED
        BY <1>1, <3>1 DEF ChildInv
    <2>5. QED
      BY <2>1, <2>2, <2>3, <2>4
  <1>17. ASSUME NEW k \in 1 .. n + 1 PROVE ExploredInv(p, t, k)
    <2>1. k = n \/ k = n + 1 \/ (k \in 1 .. n - 1 /\ k \in 1 .. n)
      BY <1>2
    <2>2. CASE k = n
      <3>1. SUFFICES ASSUME adv.entry = s.produced,
                            NEW rest \in Completions(p, s.clues, adv, adv.start)
                     PROVE  rest[1] >= c + 1 \/ (n < n + 1 /\ rest[1] = (c + 1) - 1)
        <4>1. t.frames[k] = adv /\ k = n /\ Len(t.frames) = n + 1
          BY <1>1, <2>2
        <4>2. adv.next = c + 1
          BY <1>5
        <4>3. QED
          BY <1>1, <4>1, <4>2 DEF ExploredInv
      <3>2. rest \in Completions(p, s.clues, top, top.start)
        BY <1>5, <1>11
      <3>3. rest[1] >= top.next
        <4>1. ExploredInv(p, s, n) /\ s.frames[n] = top /\ ~(n < n) /\ top.left # 0
          BY <1>2, <1>6, <1>7
        <4>2. top.entry = s.produced
          BY <1>5, <3>1
        <4>3. QED
          BY <3>2, <4>1, <4>2 DEF ExploredInv
      <3>4. rest \in Completions(p, s.clues, top, top.next)
        BY <1>2, <1>6, <3>2, <3>3, CompletionFrom
      <3>5. c <= rest[1] /\ rest[1] \in Nat
        BY <1>13, <3>4
      <3>6. QED
        BY <1>2, <1>3, <3>5
    <2>3. CASE k = n + 1
      <3>1. SUFFICES ASSUME NEW rest \in Completions(p, s.clues, g, g.start), g.left # 0
                     PROVE  rest[1] >= g.next
        BY <1>1, <1>10, <2>3 DEF ExploredInv
      <3>2. 1 \in 1 .. g.left
        <4>1. g.left \in Nat
          BY <1>9 DEF Frames
        <4>2. QED
          BY <3>1, <4>1
      <3>3. QED
        BY <1>9, <3>1, <3>2 DEF Completions, WordLists, InOrder
    <2>4. CASE k \in 1 .. n - 1 /\ k \in 1 .. n
      <3>1. ExploredInv(p, s, k) /\ t.frames[k] = s.frames[k] /\ k < Len(t.frames)
        <4>1. ExploredInv(p, s, k)
          BY <1>7, <2>4
        <4>2. t.frames[k] = s.frames[k] /\ Len(t.frames) = n + 1
          BY <1>1, <2>4
        <4>3. k < n + 1
          BY <1>2, <2>4
        <4>4. QED
          BY <4>1, <4>2, <4>3
      <3>2. QED
        BY <1>1, <3>1 DEF ExploredInv
    <2>5. QED
      BY <2>1, <2>2, <2>3, <2>4
  <1>18. StreamInv(p, t)
    <2>1. /\ CluesInv(p, t) /\ p.min <= t.count /\ t.max <= High(p)
          /\ t.count - 1 \in p.min .. t.max
          /\ \A d \in t.dead : NoCompletion(p, t.clues, d)
      BY <1>1 DEF StreamInv, CluesInv
    <2>2. QED
      BY <1>10, <1>15, <1>16, <1>17, <2>1 DEF StreamInv
  <1>19. ASSUME NEW bag, Ahead(p, s.clues, top, bag)
         PROVE  Ahead(p, s.clues, adv, bag) \/ Ahead(p, s.clues, g, bag)
    <2> DEFINE m == Len(top.chosen)
               rest == RestOf(bag, m)
    <2>1. rest \in Completions(p, s.clues, top, top.next)
      BY <1>19 DEF Ahead
    <2>2. CASE rest[1] # c
      <3>1. rest \in Completions(p, s.clues, adv, adv.next)
        BY <1>5, <1>11, <1>13, <2>1, <2>2
      <3> HIDE DEF rest
      <3>2. adv.chosen = top.chosen /\ adv.left = top.left
        BY <1>5
      <3>3. Ahead(p, s.clues, adv, bag)
        BY <1>19, <3>1, <3>2 DEF Ahead, rest
      <3>4. QED
        BY <3>3
    <2>3. CASE rest[1] = c
      <3>1. /\ m \in Nat /\ Len(bag) = m + top.left /\ Len(g.chosen) = m + 1
            /\ g.chosen[m + 1] = c /\ \A k \in 1 .. m : g.chosen[k] = top.chosen[k]
        <4>1. top.chosen \in Seq(DOMAIN p.words) /\ Len(bag) = m + top.left
          BY <1>2, <1>19 DEF Frames, Ahead
        <4> DEFINE chosen == top.chosen
        <4>2. chosen \in Seq(DOMAIN p.words) /\ g.chosen = Append(chosen, c)
          BY <1>9, <4>1
        <4> HIDE DEF chosen
        <4>3. /\ Len(chosen) \in Nat /\ Len(Append(chosen, c)) = Len(chosen) + 1
              /\ Append(chosen, c)[Len(chosen) + 1] = c
              /\ \A k \in 1 .. Len(chosen) : Append(chosen, c)[k] = chosen[k]
          BY <4>2
        <4>4. QED
          BY <4>1, <4>2, <4>3 DEF chosen
      <3> HIDE DEF m
      <3>2. Len(bag) \in Nat /\ m + 1 <= Len(bag) /\ Len(bag) = (m + 1) + g.left
        <4>1. g.left \in Nat
          BY <1>9 DEF Frames
        <4>2. top.left = g.left + 1
          BY <1>9
        <4>3. Len(bag) = m + (g.left + 1) /\ m \in Nat
          BY <3>1, <4>2
        <4>4. QED
          BY <4>1, <4>3
      <3>3. bag[m + 1] = c /\ RestOf(bag, m + 1) = RestOf(rest, 1)
        BY <2>3, <3>1, <3>2, RestOfMore
      <3>4. RestOf(rest, 1) \in Completions(p, s.clues, g, g.start)
        <4>1. /\ top \in Frames(p) /\ g \in Frames(p) /\ top.left = g.left + 1
              /\ g.start = After(p, c)
              /\ \A l \in Letters : top.remaining[l] = p.words[c][l] + g.remaining[l]
              /\ g.matched = top.matched \cup ({c} \cap s.clues)
          BY <1>2, <1>9
        <4> HIDE DEF rest
        <4>2. QED
          BY <2>1, <2>3, <4>1, RestCompletes
      <3>5. ASSUME NEW k \in 1 .. m + 1 PROVE bag[k] = g.chosen[k]
        <4>1. k = m + 1 \/ k \in 1 .. m
          BY <3>1
        <4>2. \A j \in 1 .. m : bag[j] = top.chosen[j]
          BY <1>19 DEF Ahead, m
        <4>3. QED
          BY <3>1, <3>3, <4>1, <4>2
      <3>6. QED
        <4>1. g.next = g.start
          BY <1>9
        <4>2. RestOf(bag, Len(g.chosen)) \in Completions(p, s.clues, g, g.next)
          BY <3>1, <3>3, <3>4, <4>1
        <4>3. Len(bag) = Len(g.chosen) + g.left /\ \A k \in 1 .. Len(g.chosen) : bag[k] = g.chosen[k]
          BY <3>1, <3>2, <3>5
        <4>4. Ahead(p, s.clues, g, bag)
          BY <4>2, <4>3 DEF Ahead
        <4>5. QED
          BY <4>4
    <2>4. QED
      BY <2>2, <2>3
  <1>20. ASSUME NEW bag, Pending(p, s, bag) PROVE Pending(p, t, bag)
    <2>1. CASE \E k \in DOMAIN s.frames : Ahead(p, s.clues, s.frames[k], bag)
      <3>1. PICK k \in 1 .. n : Ahead(p, s.clues, s.frames[k], bag)
        BY <1>2, <2>1
      <3>2. CASE k = n
        <4>1. Ahead(p, s.clues, adv, bag) \/ Ahead(p, s.clues, g, bag)
          BY <1>2, <1>19, <3>1, <3>2
        <4>2. n \in 1 .. n + 1 /\ n + 1 \in 1 .. n + 1
          BY <1>2
        <4>3. \E j \in DOMAIN t.frames : Ahead(p, t.clues, t.frames[j], bag)
          BY <1>1, <1>10, <4>1, <4>2
        <4>4. QED
          BY <4>3 DEF Pending
      <3>3. CASE k # n
        <4>1. k \in 1 .. n - 1 /\ k \in 1 .. n + 1
          BY <1>2, <3>3
        <4>2. QED
          BY <1>1, <1>10, <3>1, <4>1 DEF Pending
      <3>4. QED
        BY <3>2, <3>3
    <2>2. QED
      BY <1>1, <1>20, <2>1 DEF Pending
  <1>21. QED
    BY <1>18, <1>20

-----------------------------------------------------------------------------
(* Bags and branches *)

\* The largest word count is a number.
LEMMA HighIsNatural ==
  ASSUME NEW p \in Problems
  PROVE  High(p) \in Nat
  BY Shape, SizeIsNatural DEF High

\* What a solution is.
LEMMA SolutionFacts ==
  ASSUME NEW p \in Problems, NEW bag \in SolutionsOf(p)
  PROVE  /\ Len(bag) \in Nat /\ Len(bag) \in p.min .. High(p)
         /\ bag \in WordLists(p, Len(bag)) /\ bag \in Seq(DOMAIN p.words)
         /\ DOMAIN bag = 1 .. Len(bag)
         /\ InOrder(p, bag, 1) /\ Used(p, bag) = p.target
         /\ Allowed(p, p.clues, p.initial \cup (ToSet(bag) \cap p.clues))
  <1>1. PICK n \in p.min .. High(p) : bag \in WordLists(p, n)
    BY DEF SolutionsOf
  <1>2. n \in Nat
    BY <1>1, HighIsNatural, Shape
  <1>3. Len(bag) = n /\ bag \in Seq(DOMAIN p.words)
    BY <1>1, <1>2 DEF WordLists
  <1>4. QED
    BY <1>1, <1>2, <1>3 DEF SolutionsOf, WordLists

\* The clues that a bag meets, as a branch keeps them.
LEMMA CluesAgree ==
  ASSUME NEW p \in Problems, NEW s, CluesInv(p, s), NEW met,
         Allowed(p, s.clues, (p.initial \cup met) \cap s.clues)
  PROVE  Allowed(p, p.clues, p.initial \cup (met \cap p.clues))
  <1>1. p.initial \subseteq p.clues
    BY Shape
  <1>2. CASE s.clues = p.clues
    <2>1. (p.initial \cup met) \cap s.clues = p.initial \cup (met \cap p.clues)
      BY <1>1, <1>2
    <2>2. QED
      BY <1>2, <2>1
  <1>3. CASE p.initial = {} /\ ~p.one /\ \E c \in p.clues : s.clues = {c}
    BY <1>3 DEF Allowed
  <1>4. QED
    BY <1>2, <1>3 DEF CluesInv

\* What a complete branch yields is a solution (generation.rs:225-236).
LEMMA YieldIsSolution ==
  ASSUME NEW p \in Problems, NEW s \in Streams(p), StreamInv(p, s),
         NEW f \in Frames(p), FrameInv(p, s, f), s.frames # <<>>, f.left = 0,
         \A l \in Letters : f.remaining[l] = 0, Allowed(p, s.clues, f.matched)
  PROVE  f.chosen \in SolutionsOf(p)
  <1> DEFINE bag == f.chosen
             n == Len(bag)
  <1>1. bag \in Seq(DOMAIN p.words)
    BY DEF Frames
  <1>2. n + f.left = s.count - 1
    BY DEF FrameInv
  <1>3. s.count - 1 \in p.min .. s.max /\ s.max <= High(p)
    BY DEF StreamInv
  <1> HIDE DEF bag
  <1>4. n \in Nat /\ bag \in WordLists(p, n)
    BY <1>1 DEF WordLists
  <1>5. s.max \in Nat /\ p.min \in Nat /\ High(p) \in Nat /\ s.count \in Nat
    BY HighIsNatural, Shape DEF Streams
  <1> HIDE DEF n
  <1>6. n \in p.min .. High(p)
    BY <1>2, <1>3, <1>4, <1>5
  <1>7. InOrder(p, bag, 1)
    BY DEF FrameInv, bag
  <1>8. Used(p, bag) = p.target
    <2>1. Used(p, bag) \in Stock /\ p.target \in Stock
      BY <1>4, UsedIsStock, Shape
    <2>2. \A l \in Letters : p.target[l] = Used(p, bag)[l] + f.remaining[l]
      BY DEF FrameInv, bag
    <2>3. \A l \in Letters : p.target[l] = Used(p, bag)[l]
      BY <2>1, <2>2 DEF Stock
    <2>4. QED
      BY <2>1, <2>3 DEF Stock
  <1>9. Allowed(p, p.clues, p.initial \cup (ToSet(bag) \cap p.clues))
    <2>1. f.matched = (p.initial \cup ToSet(bag)) \cap s.clues /\ CluesInv(p, s)
      BY DEF FrameInv, bag, StreamInv
    <2>2. QED
      BY <2>1, CluesAgree
  <1>10. bag \in UNION {WordLists(p, k) : k \in p.min .. High(p)}
    BY <1>4, <1>6
  <1>11. bag \in SolutionsOf(p)
    BY <1>7, <1>8, <1>9, <1>10 DEF SolutionsOf
  <1>12. QED
    BY <1>11 DEF bag

\* A complete branch has its own choices ahead and no others.
LEMMA CompleteBranchHasOne ==
  ASSUME NEW p \in Problems, NEW clues, NEW f \in Frames(p), f.left = 0,
         NEW bag \in SolutionsOf(p), Ahead(p, clues, f, bag)
  PROVE  bag = f.chosen
  <1> DEFINE chosen == f.chosen
             n == Len(bag)
  <1>1. chosen \in Seq(DOMAIN p.words)
    BY DEF Frames
  <1>2. Len(bag) = Len(chosen) + f.left /\ \A k \in 1 .. Len(chosen) : bag[k] = chosen[k]
    BY DEF Ahead
  <1>3. bag \in [1 .. n -> DOMAIN p.words] /\ n \in Nat
    BY SolutionFacts DEF WordLists
  <1> HIDE DEF chosen, n
  <1>4. Len(chosen) = n /\ chosen \in [1 .. n -> DOMAIN p.words]
    BY <1>1, <1>2, <1>3 DEF n
  <1>5. bag = chosen
    BY <1>2, <1>3, <1>4
  <1>6. QED
    BY <1>5 DEF chosen

\* No choice of no words uses letters or meets clues.
LEMMA CompletionOfComplete ==
  ASSUME NEW p \in Problems, NEW clues, NEW f \in Frames(p), f.left = 0, NEW from,
         NEW rest \in Completions(p, clues, f, from)
  PROVE  (\A l \in Letters : f.remaining[l] = 0) /\ Allowed(p, clues, f.matched)
  <1>1. rest \in WordLists(p, 0) /\ Used(p, rest) = f.remaining
        /\ Allowed(p, clues, f.matched \cup (ToSet(rest) \cap clues))
    BY DEF Completions
  <1>2. \A l \in Letters : Used(p, rest)[l] = 0
    BY <1>1, UsedByNone
  <1>3. ToSet(rest) = {}
    <2>1. DOMAIN rest = {}
      BY <1>1 DEF WordLists
    <2>2. QED
      BY <2>1 DEF ToSet
  <1>4. f.matched \cup (ToSet(rest) \cap clues) = f.matched
    BY <1>3
  <1>5. QED
    BY <1>1, <1>2, <1>4

\* The branch that a word count begins with.
LEMMA RootFrame ==
  ASSUME NEW p \in Problems, NEW s \in Streams(p),
         NEW f, f = Frame(p.target, s.count, 1, <<>>, p.initial \cap s.clues, s.produced)
  PROVE  /\ f \in Frames(p)
         /\ f.left = s.count /\ f.next = 1 /\ f.start = 1 /\ f.chosen = <<>>
         /\ f.remaining = p.target /\ f.entry = s.produced
         /\ f.matched = p.initial \cap s.clues
  <1>1. /\ p.target \in Stock /\ s.count \in Nat /\ 1 \in Nat \ {0} /\ s.produced \in Nat
        /\ <<>> \in Seq(DOMAIN p.words)
        /\ p.initial \cap s.clues \in SUBSET (0 .. Len(p.words))
    BY Shape DEF Streams
  <1>2. QED
    BY <1>1 DEF Frame, Frames

\* The next word count of a stream takes over the bags of that many words.
LEMMA RootKeeps ==
  ASSUME NEW p \in Problems, NEW s \in Streams(p), StreamInv(p, s),
         s.frames = <<>>, s.count <= s.max,
         NEW f, f = Frame(p.target, s.count, 1, <<>>, p.initial \cap s.clues, s.produced),
         NEW t \in Streams(p), Len(t.frames) = 1, t.frames[1] = f,
         t.clues = s.clues, t.count = s.count + 1, t.max = s.max, t.dead = s.dead,
         t.produced = s.produced
  PROVE  /\ StreamInv(p, t)
         /\ \A bag \in SolutionsOf(p) : Pending(p, s, bag) => Pending(p, t, bag)
  <1>1. /\ f \in Frames(p)
        /\ f.left = s.count /\ f.next = 1 /\ f.start = 1 /\ f.chosen = <<>>
        /\ f.remaining = p.target /\ f.entry = s.produced
        /\ f.matched = p.initial \cap s.clues
    BY RootFrame
  <1>2. DOMAIN t.frames = {1}
    <2>1. t.frames \in Seq(Frames(p))
      BY DEF Streams
    <2>2. DOMAIN t.frames = 1 .. Len(t.frames)
      BY <2>1
    <2>3. QED
      BY <2>2
  <1>3. s.count \in Nat /\ s.max \in Nat /\ s.produced \in Nat /\ p.min \in Nat /\ p.min <= s.count
    BY Shape DEF Streams, StreamInv
  <1>4. /\ f.chosen \in WordLists(p, 0) /\ DOMAIN f.chosen = {} /\ Len(f.chosen) = 0
        /\ \A k : k \notin 1 .. 0 /\ k \notin 1 .. 0 - 1
    <2> DEFINE none == f.chosen
    <2>1. none \in Seq(DOMAIN p.words) /\ Len(none) = 0
      BY <1>1 DEF Frames
    <2> HIDE DEF none
    <2>2. none \in [1 .. 0 -> DOMAIN p.words] /\ 1 .. 0 = {} /\ 1 .. 0 - 1 = {}
      BY <2>1
    <2>3. QED
      BY <2>1, <2>2 DEF none, WordLists
  <1>5. FrameInv(p, t, f)
    <2>1. Len(f.chosen) + f.left = t.count - 1
      BY <1>1, <1>3
    <2>2. InOrder(p, f.chosen, 1) /\ ToSet(f.chosen) = {}
      BY <1>4 DEF InOrder, ToSet
    <2>3. \A l \in Letters : p.target[l] = Used(p, f.chosen)[l] + f.remaining[l]
      <3>1. ASSUME NEW l \in Letters PROVE p.target[l] = Used(p, f.chosen)[l] + f.remaining[l]
        <4>1. Used(p, f.chosen)[l] = 0 /\ p.target[l] \in Nat
          BY <1>4, UsedByNone, Shape DEF Stock
        <4>2. f.remaining[l] = p.target[l]
          BY <1>1
        <4>3. QED
          BY <4>1, <4>2
      <3>2. QED
        BY <3>1
    <2>4. f.matched = (p.initial \cup ToSet(f.chosen)) \cap t.clues
      BY <1>1, <2>2
    <2>5. f.start <= f.next /\ f.entry <= t.produced
      BY <1>1, <1>3
    <2>6. QED
      BY <1>1, <2>1, <2>2, <2>3, <2>4, <2>5 DEF FrameInv
  <1>6. ExploredInv(p, t, 1)
    <2>1. SUFFICES ASSUME NEW rest \in Completions(p, t.clues, f, f.start), f.left # 0
                   PROVE  rest[1] >= f.next
      BY DEF ExploredInv
    <2>2. 1 \in 1 .. f.left
      BY <1>1, <1>3, <2>1
    <2>3. QED
      BY <1>1, <2>1, <2>2 DEF Completions, WordLists, InOrder
  <1>7. StreamInv(p, t)
    <2>1. /\ CluesInv(p, t) /\ t.max <= High(p)
          /\ \A d \in t.dead : NoCompletion(p, t.clues, d)
      BY DEF StreamInv, CluesInv
    <2>2. p.min <= t.count /\ t.count - 1 \in p.min .. t.max
      BY <1>3
    <2>3. 1 .. Len(t.frames) - 1 = {}
      OBVIOUS
    <2>4. QED
      BY <1>2, <1>5, <1>6, <2>1, <2>2, <2>3 DEF StreamInv
  <1>8. ASSUME NEW bag \in SolutionsOf(p), Pending(p, s, bag)
        PROVE  Pending(p, t, bag)
    <2>1. /\ Len(bag) \in s.count .. s.max
          /\ Allowed(p, s.clues, (p.initial \cup ToSet(bag)) \cap s.clues)
      <3>1. DOMAIN s.frames = {}
        OBVIOUS
      <3>2. QED
        BY <1>8, <3>1 DEF Pending
    <2>2. CASE Len(bag) # s.count
      <3>1. Len(bag) \in t.count .. t.max
        BY <1>3, <2>1, <2>2
      <3>2. QED
        BY <2>1, <3>1 DEF Pending
    <2>3. CASE Len(bag) = s.count
      <3> DEFINE n == Len(bag)
      <3>1. /\ n \in Nat /\ bag \in [1 .. n -> DOMAIN p.words]
            /\ InOrder(p, bag, 1) /\ Used(p, bag) = p.target
        BY SolutionFacts DEF WordLists
      <3>2. RestOf(bag, 0) = [k \in 1 .. n - 0 |-> bag[0 + k]]
        BY DEF RestOf
      <3>3. n = s.count
        BY <2>3
      <3> HIDE DEF n
      <3>4. n - 0 = n /\ \A k \in 1 .. n : 0 + k = k
        BY <3>1
      <3>5. RestOf(bag, 0) = bag
        BY <3>1, <3>2, <3>4
      <3>6. f.matched \cup (ToSet(bag) \cap s.clues) = (p.initial \cup ToSet(bag)) \cap s.clues
        BY <1>1
      <3>7. bag \in Completions(p, s.clues, f, f.next)
        BY <1>1, <2>1, <3>1, <3>3, <3>6 DEF Completions, WordLists
      <3>8. Ahead(p, t.clues, f, bag)
        <4>1. Len(f.chosen) = 0 /\ Len(bag) = Len(f.chosen) + f.left
          BY <1>1, <1>3, <2>3
        <4>2. QED
          BY <1>4, <3>5, <3>7, <4>1 DEF Ahead
      <3>9. QED
        BY <1>2, <3>8 DEF Pending
    <2>4. QED
      BY <2>2, <2>3
  <1>9. QED
    BY <1>7, <1>8

-----------------------------------------------------------------------------
(* The line of the choices on a stack *)

\* The frames below the top are in line.
LEMMA PopLine ==
  ASSUME NEW S, NEW s, NEW t, s.frames \in Seq(S), s.frames # <<>>,
         t.frames = Front(s.frames), LineInv(s)
  PROVE  LineInv(t)
  <1> DEFINE n == Len(s.frames)
  <1>1. /\ n \in Nat \ {0} /\ DOMAIN s.frames = 1 .. n /\ DOMAIN t.frames = 1 .. n - 1
        /\ \A k \in 1 .. n - 1 : t.frames[k] = s.frames[k]
    BY StackFacts
  <1> HIDE DEF n
  <1>2. ASSUME NEW j \in 1 .. n - 1, NEW k \in 1 .. j - 1 PROVE Extends(t.frames[k], t.frames[j])
    <2>1. k \in 1 .. n - 1 /\ j \in 1 .. n
      BY <1>1
    <2>2. Extends(s.frames[k], s.frames[j])
      BY <1>1, <2>1 DEF LineInv
    <2>3. t.frames[k] = s.frames[k] /\ t.frames[j] = s.frames[j]
      BY <1>1, <2>1
    <2>4. QED
      BY <2>2, <2>3
  <1>3. QED
    BY <1>1, <1>2 DEF LineInv

\* So is a top that goes on to its next candidate.
LEMMA AdvanceLine ==
  ASSUME NEW S, NEW s, NEW t, s.frames \in Seq(S), s.frames # <<>>, NEW adv \in S,
         t.frames = Append(Front(s.frames), adv), adv.chosen = Last(s.frames).chosen, LineInv(s)
  PROVE  LineInv(t)
  <1> DEFINE n == Len(s.frames)
  <1>1. /\ n \in Nat \ {0} /\ DOMAIN s.frames = 1 .. n /\ Last(s.frames) = s.frames[n]
        /\ Front(s.frames) \in Seq(S) /\ Len(Front(s.frames)) = n - 1
        /\ \A k \in 1 .. n - 1 : Front(s.frames)[k] = s.frames[k]
    BY StackFacts
  <1>2. PICK below : below = Front(s.frames)
    OBVIOUS
  <1> HIDE DEF n
  <1>3. /\ DOMAIN t.frames = 1 .. n /\ t.frames[n] = adv
        /\ \A k \in 1 .. n - 1 : t.frames[k] = s.frames[k]
    <2>1. below \in Seq(S) /\ Len(below) = n - 1 /\ t.frames = Append(below, adv)
      BY <1>1, <1>2
    <2>2. /\ DOMAIN t.frames = 1 .. (n - 1) + 1 /\ t.frames[(n - 1) + 1] = adv
          /\ \A k \in 1 .. n - 1 : t.frames[k] = below[k]
      BY <1>1, <2>1
    <2>3. (n - 1) + 1 = n
      BY <1>1
    <2>4. QED
      BY <1>1, <1>2, <2>2, <2>3
  <1>4. ASSUME NEW j \in 1 .. n, NEW k \in 1 .. j - 1 PROVE Extends(t.frames[k], t.frames[j])
    <2>1. k \in 1 .. n - 1 /\ (j = n \/ j \in 1 .. n - 1)
      BY <1>1
    <2>2. Extends(s.frames[k], s.frames[j]) /\ t.frames[k] = s.frames[k]
      BY <1>1, <1>3, <2>1 DEF LineInv
    <2>3. t.frames[j].chosen = s.frames[j].chosen
      BY <1>1, <1>3, <2>1
    <2>4. QED
      BY <2>2, <2>3 DEF Extends
  <1>5. QED
    BY <1>3, <1>4 DEF LineInv

\* A choice of words with one more.
OneMoreWord(old, new, c) ==
  /\ Len(old) \in Nat /\ Len(new) = Len(old) + 1 /\ new[Len(old) + 1] = c
  /\ \A k \in 1 .. Len(old) : new[k] = old[k]

\* A stream that chooses a word for its top.
ChosenOnTop(s, t, adv, g, c) ==
  LET top == s.frames[Len(s.frames)] IN
  /\ PushedOn(s.frames, t.frames, adv, g)
  /\ OneMoreWord(top.chosen, g.chosen, c)
  /\ adv.chosen = top.chosen /\ adv.next - 1 = c
  /\ \A k \in DOMAIN s.frames : Len(s.frames[k].chosen) \in Nat

\* And so is the frame of a word that is chosen.
LEMMA PushLine ==
  ASSUME NEW S, NEW s, NEW t, s.frames \in Seq(S), s.frames # <<>>, t.frames \in Seq(S),
         NEW adv, NEW g, NEW c, ChosenOnTop(s, t, adv, g, c), LineInv(s)
  PROVE  LineInv(t)
  <1> DEFINE n == Len(s.frames)
             top == s.frames[n]
  <1>1. /\ PushedOn(s.frames, t.frames, adv, g) /\ OneMoreWord(top.chosen, g.chosen, c)
        /\ adv.chosen = top.chosen /\ adv.next - 1 = c
        /\ \A k \in DOMAIN s.frames : Len(s.frames[k].chosen) \in Nat
    BY DEF ChosenOnTop
  <1>2. n \in Nat \ {0} /\ DOMAIN s.frames = 1 .. n
    BY StackFacts
  <1>3. /\ DOMAIN t.frames = 1 .. n + 1 /\ t.frames[n] = adv /\ t.frames[n + 1] = g
        /\ \A k \in 1 .. n - 1 : t.frames[k] = s.frames[k]
    <2>1. DOMAIN t.frames = 1 .. Len(t.frames)
      OBVIOUS
    <2>2. QED
      BY <1>1, <1>2, <2>1 DEF PushedOn
  <1> HIDE DEF n, top
  <1>4. top = s.frames[n]
    BY DEF top
  <1>5. PICK old, new, m : old = top.chosen /\ new = g.chosen /\ m = Len(old)
    OBVIOUS
  <1>6. /\ m \in Nat /\ Len(new) = m + 1 /\ new[m + 1] = c
        /\ \A k \in 1 .. m : new[k] = old[k]
    <2>1. OneMoreWord(old, new, c)
      BY <1>1, <1>5
    <2>2. QED
      BY <1>5, <2>1 DEF OneMoreWord
  <1>7. Extends(adv, g)
    <2>1. adv.chosen = old /\ g.chosen = new /\ adv.next - 1 = c
      BY <1>1, <1>5
    <2>2. QED
      BY <1>5, <1>6, <2>1 DEF Extends
  <1>8. ASSUME NEW f, Extends(f, top), Len(f.chosen) \in Nat PROVE Extends(f, g) /\ Extends(f, adv)
    <2>1. PICK few, l : few = f.chosen /\ l = Len(few)
      OBVIOUS
    <2>2. /\ l \in Nat /\ l < m /\ old[l + 1] = f.next - 1
          /\ \A k \in 1 .. l : old[k] = few[k]
      BY <1>5, <1>8, <2>1 DEF Extends
    <2>3. /\ l < m + 1 /\ l + 1 \in 1 .. m /\ \A k \in 1 .. l : k \in 1 .. m
      BY <1>6, <2>2
    <2>4. new[l + 1] = f.next - 1 /\ \A k \in 1 .. l : new[k] = few[k]
      BY <1>6, <2>2, <2>3
    <2>5. Extends(f, g)
      BY <1>5, <1>6, <2>1, <2>3, <2>4 DEF Extends
    <2>6. QED
      BY <1>1, <1>8, <2>5 DEF Extends
  <1>9. ASSUME NEW j \in 1 .. n + 1, NEW k \in 1 .. j - 1 PROVE Extends(t.frames[k], t.frames[j])
    <2>1. \/ j = n + 1 /\ k = n
          \/ j = n + 1 /\ k \in 1 .. n - 1
          \/ j = n /\ k \in 1 .. n - 1
          \/ j \in 1 .. n - 1 /\ k \in 1 .. n - 1
      BY <1>2
    <2>2. CASE j = n + 1 /\ k = n
      BY <1>3, <1>7, <2>2
    <2>3. CASE k \in 1 .. n - 1 /\ (j = n \/ j = n + 1)
      <3>1. Extends(s.frames[k], top)
        <4>1. n \in DOMAIN s.frames
          BY <1>2
        <4>2. QED
          BY <1>4, <2>3, <4>1 DEF LineInv
      <3>2. Len(s.frames[k].chosen) \in Nat
        BY <1>1, <1>2, <2>3
      <3>3. QED
        BY <1>3, <1>8, <2>3, <3>1, <3>2
    <2>4. CASE j \in 1 .. n - 1 /\ k \in 1 .. n - 1
      <3>1. Extends(s.frames[k], s.frames[j])
        <4>1. j \in DOMAIN s.frames /\ k \in 1 .. j - 1
          BY <1>2, <2>4
        <4>2. QED
          BY <4>1 DEF LineInv
      <3>2. QED
        BY <1>3, <2>4, <3>1
    <2>5. QED
      BY <2>1, <2>2, <2>3, <2>4
  <1>10. QED
    BY <1>3, <1>9 DEF LineInv

-----------------------------------------------------------------------------
(* The turns of a search *)

\* After a turn that finds nothing new, the stream goes on in order and forgets
\* no solution.
HeadStep(t) ==
  /\ t \in Streams(problem) /\ StreamInv(problem, t)
  /\ t.clues = Stream.clues /\ t.max = Stream.max /\ Stream.count <= t.count
  /\ Stream.frames = <<>> => Stream.count < t.count
  /\ LineInv(Stream) => LineInv(t)
  /\ \A bag \in Solutions :
       Pending(problem, Stream, bag) => Pending(problem, t, bag) \/ bag \in ToSet(bags)
  /\ streams' = [streams EXCEPT ![1] = t]
  /\ problem' = problem /\ bags' = bags /\ stop' = stop

\* The stream that has its turn.
LEMMA HeadFacts ==
  ASSUME SearchInv, streams # <<>>
  PROVE  /\ problem \in Problems /\ Stream \in Streams(problem) /\ StreamInv(problem, Stream)
         /\ Len(streams) \in Nat \ {0} /\ DOMAIN streams = 1 .. Len(streams)
         /\ Solutions = SolutionsOf(problem)
  <1>1. /\ problem \in Problems /\ streams \in Seq(Streams(problem))
        /\ \A i \in DOMAIN streams : StreamInv(problem, streams[i])
    BY DEF SearchInv
  <1>2. Len(streams) \in Nat \ {0} /\ DOMAIN streams = 1 .. Len(streams)
    BY <1>1
  <1>3. 1 \in DOMAIN streams
    BY <1>2
  <1>4. streams[1] \in Streams(problem) /\ StreamInv(problem, streams[1])
    BY <1>1, <1>3
  <1>5. Solutions = SolutionsOf(problem)
    BY <1>1 DEF Solutions, Reference
  <1>6. QED
    BY <1>1, <1>2, <1>4, <1>5 DEF Stream

\* The frame that a turn is about.
LEMMA TopFacts ==
  ASSUME SearchInv, InFrame
  PROVE  /\ Stream.frames \in Seq(Frames(problem)) /\ Stream.frames # <<>>
         /\ Len(Stream.frames) \in Nat \ {0} /\ DOMAIN Stream.frames = 1 .. Len(Stream.frames)
         /\ Top = Stream.frames[Len(Stream.frames)]
         /\ Top \in Frames(problem) /\ FrameInv(problem, Stream, Top)
         /\ ExploredInv(problem, Stream, Len(Stream.frames))
         /\ TurnTyped /\ Top.matched \subseteq Stream.clues
         /\ Below \in Seq(Frames(problem))
  <1> DEFINE s == Stream
             stack == Stream.frames
  <1>1. problem \in Problems /\ s \in Streams(problem) /\ StreamInv(problem, s)
    BY HeadFacts DEF InFrame
  <1>2. stack \in Seq(Frames(problem)) /\ stack # <<>> /\ s.clues \subseteq 0 .. Len(problem.words)
    BY <1>1 DEF Streams, InFrame
  <1> HIDE DEF stack
  <1>3. /\ Len(stack) \in Nat \ {0} /\ DOMAIN stack = 1 .. Len(stack)
        /\ Last(stack) = stack[Len(stack)] /\ Last(stack) \in Frames(problem)
        /\ Front(stack) \in Seq(Frames(problem))
    BY <1>2, StackFacts
  <1>4. Len(stack) \in DOMAIN stack
    BY <1>3
  <1> HIDE DEF s
  <1>5. FrameInv(problem, s, stack[Len(stack)]) /\ ExploredInv(problem, s, Len(stack))
    BY <1>1, <1>4 DEF StreamInv, stack, s
  <1>6. stack[Len(stack)].matched \subseteq s.clues
    BY <1>5 DEF FrameInv
  <1>7. Top = stack[Len(stack)] /\ Below = Front(stack)
    BY <1>3 DEF Top, Below, stack
  <1>8. TurnTyped
    BY <1>1, <1>2, <1>3, <1>7 DEF TurnTyped, Words, s
  <1>9. QED
    BY <1>2, <1>3, <1>5, <1>6, <1>7, <1>8 DEF s, stack

\* The streams of the head and the others stay in order.
LEMMA HeadGoesOn ==
  ASSUME SearchInv, stop = "running", streams # <<>>, NEW t, HeadStep(t)
  PROVE  SearchInv'
  <1>1. /\ t \in Streams(problem) /\ StreamInv(problem, t)
        /\ \A bag \in Solutions :
             Pending(problem, Stream, bag) => Pending(problem, t, bag) \/ bag \in ToSet(bags)
        /\ streams' = [streams EXCEPT ![1] = t] /\ UNCHANGED <<problem, bags, stop>>
    BY DEF HeadStep
  <1> DEFINE n == Len(streams)
  <1>2. /\ problem \in Problems /\ n \in Nat \ {0} /\ DOMAIN streams = 1 .. n
        /\ streams \in Seq(Streams(problem))
    BY HeadFacts DEF SearchInv
  <1>3. PICK new : new = streams'
    OBVIOUS
  <1>4. /\ new \in Seq(Streams(problem)) /\ Len(new) = n /\ DOMAIN new = 1 .. n
        /\ new[1] = t /\ \A i \in 1 .. n : i # 1 => new[i] = streams[i]
    BY <1>1, <1>2, <1>3
  <1>5. \A i \in 1 .. n : StreamInv(problem, new[i])
    BY <1>1, <1>2, <1>4 DEF SearchInv
  <1>6. ASSUME NEW bag \in Solutions, bag \notin ToSet(bags)
        PROVE  \E i \in 1 .. n : Pending(problem, new[i], bag)
    <2>1. PICK i \in 1 .. n : Pending(problem, streams[i], bag)
      BY <1>2, <1>6 DEF SearchInv
    <2>2. CASE i = 1
      BY <1>1, <1>4, <1>6, <2>1, <2>2 DEF Stream
    <2>3. CASE i # 1
      BY <1>4, <2>1, <2>3
    <2>4. QED
      BY <2>2, <2>3
  <1>7. /\ bags \in Seq(Seq(DOMAIN problem.words)) /\ StopIsTruthful
    BY DEF SearchInv
  <1>8. StopIsTruthful' /\ Solutions' = Solutions
    BY <1>1, <1>7 DEF StopIsTruthful, Solutions
  <1> HIDE DEF n
  <1>9. QED
    BY <1>1, <1>2, <1>3, <1>4, <1>5, <1>6, <1>7, <1>8 DEF SearchInv

\* The next word count.
LEMMA PushRootGoesOn ==
  ASSUME SearchInv, PushRoot
  PROVE  \E t : HeadStep(t)
  <1>1. stop = "running" /\ streams # <<>> /\ Stream.frames = <<>> /\ Stream.count <= Stream.max
    BY DEF PushRoot
  <1>2. /\ problem \in Problems /\ Stream \in Streams(problem) /\ StreamInv(problem, Stream)
        /\ Solutions = SolutionsOf(problem)
    BY <1>1, HeadFacts
  <1>3. PICK f : f = Frame(problem.target, Stream.count, 1, <<>>,
                           problem.initial \cap Stream.clues, Stream.produced)
    OBVIOUS
  <1>4. PICK root : root = <<f>>
    OBVIOUS
  <1>5. PICK t : t = [Stream EXCEPT !.frames = root, !.count = Stream.count + 1]
    OBVIOUS
  <1>6. f \in Frames(problem)
    BY <1>2, <1>3, RootFrame
  <1>7. root \in Seq(Frames(problem)) /\ Len(root) = 1 /\ root[1] = f
    BY <1>4, <1>6
  <1>8. /\ t \in Streams(problem) /\ t.frames = root /\ t.count = Stream.count + 1
        /\ t.clues = Stream.clues /\ t.max = Stream.max /\ t.dead = Stream.dead
        /\ t.produced = Stream.produced
    <2>1. PICK next : next = Stream.count + 1
      OBVIOUS
    <2>2. next \in Nat
      BY <1>2, <2>1 DEF Streams
    <2>3. t = [Stream EXCEPT !.frames = root, !.count = next]
      BY <1>5, <2>1
    <2>4. /\ t \in Streams(problem) /\ t.frames = root /\ t.count = next
          /\ t.clues = Stream.clues /\ t.max = Stream.max /\ t.dead = Stream.dead
          /\ t.produced = Stream.produced
      BY <1>2, <1>7, <2>2, <2>3 DEF Streams
    <2>5. QED
      BY <2>1, <2>4
  <1>9. /\ StreamInv(problem, t)
        /\ \A bag \in Solutions : Pending(problem, Stream, bag) => Pending(problem, t, bag)
    BY <1>1, <1>2, <1>3, <1>7, <1>8, RootKeeps
  <1>10. streams' = [streams EXCEPT ![1] = t] /\ UNCHANGED <<problem, bags, stop>>
    BY <1>3, <1>4, <1>5 DEF PushRoot, Continue
  <1>11. LineInv(t) /\ Stream.count < t.count /\ Stream.count <= t.count
    <2>1. DOMAIN t.frames = {1} /\ Stream.count \in Nat
      BY <1>2, <1>7, <1>8 DEF Streams
    <2>2. \A j \in DOMAIN t.frames : 1 .. j - 1 = {}
      BY <2>1
    <2>3. QED
      BY <1>8, <2>1, <2>2 DEF LineInv
  <1>12. QED
    BY <1>8, <1>9, <1>10, <1>11 DEF HeadStep

\* A turn that leaves its branch.
LEMMA LeaveGoesOn ==
  ASSUME SearchInv, InFrame,
         NEW t \in Streams(problem), t.frames = Below,
         t.clues = Stream.clues, t.count = Stream.count, t.max = Stream.max,
         \A d \in t.dead : NoCompletion(problem, Stream.clues, d),
         \/ /\ t.produced = Stream.produced
            /\ Top.entry = Stream.produced =>
                 Completions(problem, Stream.clues, Top, Top.start) = {}
         \/ t.produced = Stream.produced + 1,
         \A bag \in Solutions :
           Ahead(problem, Stream.clues, Top, bag) => bag \in ToSet(bags),
         Continue(t)
  PROVE  HeadStep(t)
  <1>1. stop = "running" /\ streams # <<>> /\ Stream.frames # <<>>
    BY DEF InFrame
  <1>2. problem \in Problems /\ Stream \in Streams(problem) /\ StreamInv(problem, Stream)
    BY <1>1, HeadFacts
  <1>3. /\ StreamInv(problem, t)
        /\ \A bag : Pending(problem, Stream, bag) /\ ~Ahead(problem, Stream.clues, Top, bag)
                      => Pending(problem, t, bag)
    BY <1>1, <1>2, PopKeeps DEF Top, Below
  <1>4. Stream.frames \in Seq(Frames(problem)) /\ Stream.count \in Nat
    BY <1>2 DEF Streams
  <1>5. LineInv(Stream) => LineInv(t)
    BY <1>1, <1>4, PopLine DEF Below
  <1>6. QED
    BY <1>1, <1>3, <1>4, <1>5 DEF Continue, HeadStep

\* Nothing is ahead of a branch without completions.
LEMMA NothingAhead ==
  ASSUME SearchInv, InFrame, Completions(problem, Stream.clues, Top, Top.next) = {}
  PROVE  \A bag \in Solutions : ~Ahead(problem, Stream.clues, Top, bag)
  BY DEF Ahead

\* A branch whose completions from where it is are none, and that has given no
\* bag, has none at all.
LEMMA BranchWasBarren ==
  ASSUME SearchInv, InFrame, Top.left > 0, Top.entry = Stream.produced,
         Completions(problem, Stream.clues, Top, Top.next) = {}
  PROVE  Completions(problem, Stream.clues, Top, Top.start) = {}
  <1> SUFFICES ASSUME NEW rest \in Completions(problem, Stream.clues, Top, Top.start)
               PROVE  FALSE
    OBVIOUS
  <1> DEFINE n == Len(Stream.frames)
  <1>1. /\ Top = Stream.frames[n] /\ Top \in Frames(problem) /\ ExploredInv(problem, Stream, n)
        /\ n \in Nat /\ problem \in Problems
    BY TopFacts DEF SearchInv
  <1>2. Top.next \in Nat /\ ~(n < n) /\ Top.left # 0
    BY <1>1 DEF Frames
  <1> HIDE DEF n
  <1>3. rest[1] >= Top.next
    BY <1>1, <1>2 DEF ExploredInv, n
  <1>4. rest \in Completions(problem, Stream.clues, Top, Top.next)
    BY <1>1, <1>2, <1>3, CompletionFrom
  <1>5. QED
    BY <1>4

\* A branch in a state that is known to be dead.
LEMMA SkipDeadGoesOn ==
  ASSUME SearchInv, SkipDead
  PROVE  \E t : HeadStep(t)
  <1>1. InFrame /\ Top.next = Top.start /\ StateOf(Top) \in Stream.dead
    BY DEF SkipDead, KnownDead
  <1>2. problem \in Problems /\ Stream \in Streams(problem) /\ StreamInv(problem, Stream)
    BY <1>1, HeadFacts DEF InFrame
  <1>3. Below \in Seq(Frames(problem)) /\ Top \in Frames(problem)
    BY <1>1, TopFacts
  <1>4. PICK t : t = [Stream EXCEPT !.frames = Below]
    OBVIOUS
  <1>5. /\ t \in Streams(problem) /\ t.frames = Below /\ t.count = Stream.count
        /\ t.clues = Stream.clues /\ t.max = Stream.max /\ t.dead = Stream.dead
        /\ t.produced = Stream.produced
    BY <1>2, <1>3, <1>4 DEF Streams
  <1>6. \A d \in Stream.dead : NoCompletion(problem, Stream.clues, d)
    BY <1>2 DEF StreamInv
  <1>7. Completions(problem, Stream.clues, Top, Top.start) = {}
    BY <1>1, <1>6 DEF StateOf, NoCompletion, Completions
  <1>8. \A bag \in Solutions : ~Ahead(problem, Stream.clues, Top, bag)
    BY <1>1, <1>7, NothingAhead
  <1>9. Continue(t)
    BY <1>4 DEF SkipDead
  <1>10. QED
    BY <1>1, <1>5, <1>6, <1>7, <1>8, <1>9, LeaveGoesOn

\* What the clues of a complete bag are asked to be.
LEMMA CluesMetIsAllowed ==
  ASSUME problem \in Problems, NEW clues, NEW met
  PROVE  CluesMet(clues, met) <=> Allowed(problem, clues, met)
  <1>1. problem.one \in BOOLEAN
    BY Shape
  <1>2. met = {} => Cardinality(met) = 0
    BY FS_EmptySet
  <1>3. CASE problem.one
    BY <1>2, <1>3 DEF CluesMet, Allowed
  <1>4. CASE ~problem.one
    BY <1>4 DEF CluesMet, Allowed
  <1>5. QED
    BY <1>1, <1>3, <1>4

\* A complete choice of words that is no bag.
LEMMA RejectGoesOn ==
  ASSUME SearchInv, Reject
  PROVE  \E t : HeadStep(t)
  <1>1. InFrame /\ Top.left = 0 /\ ~IsBag
    BY DEF Reject
  <1>2. problem \in Problems /\ Stream \in Streams(problem) /\ StreamInv(problem, Stream)
    BY <1>1, HeadFacts DEF InFrame
  <1>3. Below \in Seq(Frames(problem)) /\ Top \in Frames(problem)
    BY <1>1, TopFacts
  <1>4. PICK t : t = [Stream EXCEPT !.frames = Below]
    OBVIOUS
  <1>5. /\ t \in Streams(problem) /\ t.frames = Below /\ t.count = Stream.count
        /\ t.clues = Stream.clues /\ t.max = Stream.max /\ t.dead = Stream.dead
        /\ t.produced = Stream.produced
    BY <1>2, <1>3, <1>4 DEF Streams
  <1>6. \A d \in Stream.dead : NoCompletion(problem, Stream.clues, d)
    BY <1>2 DEF StreamInv
  <1>7. \A from : Completions(problem, Stream.clues, Top, from) = {}
    <2>1. SUFFICES ASSUME NEW from, NEW rest \in Completions(problem, Stream.clues, Top, from)
                   PROVE  FALSE
      OBVIOUS
    <2>2. (\A l \in Letters : Top.remaining[l] = 0) /\ Allowed(problem, Stream.clues, Top.matched)
      BY <1>1, <1>2, <1>3, <2>1, CompletionOfComplete
    <2>3. QED
      BY <1>1, <1>2, <2>2, CluesMetIsAllowed DEF IsBag
  <1>8. \A bag \in Solutions : ~Ahead(problem, Stream.clues, Top, bag)
    BY <1>1, <1>7, NothingAhead
  <1>9. Continue(t)
    BY <1>4 DEF Reject
  <1>10. QED
    BY <1>1, <1>5, <1>6, <1>7, <1>8, <1>9, LeaveGoesOn

\* A branch that cannot be completed is given up and, when it gave no bag,
\* remembered.
LEMMA RetireGoesOn ==
  ASSUME SearchInv, Retire
  PROVE  \E t : HeadStep(t)
  <1>1. InFrame /\ Top.left > 0 /\ Hopeless
    BY DEF Retire
  <1>2. problem \in Problems /\ Stream \in Streams(problem) /\ StreamInv(problem, Stream)
    BY <1>1, HeadFacts DEF InFrame
  <1>3. /\ Below \in Seq(Frames(problem)) /\ Top \in Frames(problem) /\ TurnTyped
        /\ Top.matched \subseteq Stream.clues
    BY <1>1, TopFacts
  <1>4. PICK dead : dead = IF Barren /\ Cardinality(Stream.dead) < MaxDead
                             THEN Stream.dead \cup {StateOf(Top)} ELSE Stream.dead
    OBVIOUS
  <1>5. PICK t : t = [Stream EXCEPT !.frames = Below, !.dead = dead]
    OBVIOUS
  <1>6. Completions(problem, Stream.clues, Top, Top.next) = {}
    BY <1>1, <1>3, HopelessHasNone
  <1>7. Top.entry = Stream.produced => Completions(problem, Stream.clues, Top, Top.start) = {}
    BY <1>1, <1>6, BranchWasBarren
  <1>8. \A d \in dead : NoCompletion(problem, Stream.clues, d)
    <2>1. \A d \in Stream.dead : NoCompletion(problem, Stream.clues, d)
      BY <1>2 DEF StreamInv
    <2>2. Barren => NoCompletion(problem, Stream.clues, StateOf(Top))
      BY <1>7 DEF Barren, StateOf, NoCompletion, Completions
    <2>3. CASE Barren /\ Cardinality(Stream.dead) < MaxDead
      <3>1. dead = Stream.dead \cup {StateOf(Top)}
        BY <1>4, <2>3
      <3>2. QED
        BY <2>1, <2>2, <2>3, <3>1
    <2>4. CASE ~(Barren /\ Cardinality(Stream.dead) < MaxDead)
      BY <1>4, <2>1, <2>4
    <2>5. QED
      BY <2>3, <2>4
  <1>9. dead \in SUBSET (Stock \X Nat \X Nat \X SUBSET (0 .. Len(problem.words)))
    <2>1. /\ Stream.dead \in SUBSET (Stock \X Nat \X Nat \X SUBSET (0 .. Len(problem.words)))
          /\ StateOf(Top) \in Stock \X Nat \X Nat \X SUBSET (0 .. Len(problem.words))
      BY <1>2, <1>3 DEF Streams, Frames, StateOf
    <2>2. QED
      BY <1>4, <2>1
  <1>10. /\ t \in Streams(problem) /\ t.frames = Below /\ t.count = Stream.count
         /\ t.clues = Stream.clues /\ t.max = Stream.max /\ t.dead = dead
         /\ t.produced = Stream.produced
    BY <1>2, <1>3, <1>5, <1>9 DEF Streams
  <1>11. \A bag \in Solutions : ~Ahead(problem, Stream.clues, Top, bag)
    BY <1>1, <1>6, NothingAhead
  <1>12. Continue(t)
    BY <1>4, <1>5 DEF Retire
  <1>13. QED
    BY <1>1, <1>7, <1>8, <1>10, <1>11, <1>12, LeaveGoesOn

\* A candidate that is of no use is passed over.
LEMMA PassOverGoesOn ==
  ASSUME SearchInv, PassOver
  PROVE  \E t : HeadStep(t)
  <1>1. InFrame /\ Top.left > 0 /\ ~Hopeless /\ ~Useful(Candidate)
    BY DEF PassOver
  <1>2. /\ problem \in Problems /\ Stream \in Streams(problem) /\ StreamInv(problem, Stream)
        /\ Stream.frames # <<>> /\ stop = "running" /\ streams # <<>>
    BY <1>1, HeadFacts DEF InFrame
  <1>3. /\ Stream.frames \in Seq(Frames(problem)) /\ Top \in Frames(problem) /\ TurnTyped
    BY <1>1, TopFacts
  <1>4. /\ Candidate \in Nat /\ Candidate >= Top.next
        /\ \A rest \in Completions(problem, Stream.clues, Top, Top.next) :
             Candidate <= rest[1] /\ rest[1] # Candidate
    BY <1>1, <1>3, CandidateIsNext, UselessBeginsNone
  <1>5. PICK c : c = Candidate
    OBVIOUS
  <1>6. PICK adv : adv = [Top EXCEPT !.next = c + 1]
    OBVIOUS
  <1>7. adv \in Frames(problem)
    <2>1. PICK next : next = c + 1
      OBVIOUS
    <2>2. next \in Nat \ {0} /\ adv = [Top EXCEPT !.next = next]
      BY <1>4, <1>5, <1>6, <2>1
    <2>3. QED
      BY <1>3, <2>2 DEF Frames
  <1>8. PICK stack : stack = Append(Below, adv)
    OBVIOUS
  <1>9. stack \in Seq(Frames(problem))
    BY <1>2, <1>3, <1>7, <1>8, ReplacedTop DEF Below
  <1>10. PICK t : t = [Stream EXCEPT !.frames = stack]
    OBVIOUS
  <1>11. /\ t \in Streams(problem) /\ t.frames = stack /\ t.count = Stream.count
         /\ t.clues = Stream.clues /\ t.max = Stream.max /\ t.dead = Stream.dead
         /\ t.produced = Stream.produced
    BY <1>2, <1>9, <1>10 DEF Streams
  <1>12. \A rest \in Completions(problem, Stream.clues, Top, Top.next) : c + 1 <= rest[1]
    <2>1. \A rest \in Completions(problem, Stream.clues, Top, Top.next) : rest[1] \in Nat
      <3>1. Top.next \in Nat
        BY <1>3 DEF Frames
      <3>2. QED
        BY <1>1, <1>2, <1>3, <3>1, FirstWord
    <2>2. QED
      BY <1>4, <1>5, <2>1
  <1>13. Top.next <= c /\ c \in Nat
    <2>1. Top.next \in Nat
      BY <1>3 DEF Frames
    <2>2. QED
      BY <1>4, <1>5, <2>1
  <1>14. /\ StreamInv(problem, t)
         /\ \A bag : Pending(problem, Stream, bag) => Pending(problem, t, bag)
    BY <1>1, <1>2, <1>6, <1>8, <1>11, <1>12, <1>13, AdvanceKeeps DEF Top, Below
  <1>15. streams' = [streams EXCEPT ![1] = t] /\ UNCHANGED <<problem, bags, stop>>
    BY <1>5, <1>6, <1>8, <1>10 DEF PassOver, Continue, Advanced
  <1>16. LineInv(Stream) => LineInv(t)
    <2>1. adv.chosen = Last(Stream.frames).chosen
      BY <1>3, <1>6 DEF Frames, Top
    <2>2. t.frames = Append(Front(Stream.frames), adv)
      BY <1>8, <1>11 DEF Below
    <2>3. QED
      BY <1>2, <1>3, <1>7, <2>1, <2>2, AdvanceLine
  <1>17. Stream.count <= t.count
    BY <1>2, <1>11 DEF Streams
  <1>18. QED
    BY <1>2, <1>11, <1>14, <1>15, <1>16, <1>17 DEF HeadStep

\* A candidate is chosen.
LEMMA ChooseGoesOn ==
  ASSUME SearchInv, Choose
  PROVE  \E t : HeadStep(t)
  <1>1. InFrame /\ Top.left > 0 /\ ~Hopeless /\ Useful(Candidate)
    BY DEF Choose
  <1>2. /\ problem \in Problems /\ Stream \in Streams(problem) /\ StreamInv(problem, Stream)
        /\ Stream.frames # <<>> /\ stop = "running" /\ streams # <<>>
    BY <1>1, HeadFacts DEF InFrame
  <1>3. /\ Stream.frames \in Seq(Frames(problem)) /\ Top \in Frames(problem) /\ TurnTyped
        /\ FrameInv(problem, Stream, Top)
        /\ Len(Stream.frames) \in Nat \ {0} /\ Top = Stream.frames[Len(Stream.frames)]
    BY <1>1, TopFacts
  <1>4. /\ Candidate \in Indices /\ Candidate \in Nat /\ Candidate >= Top.next
        /\ \A rest \in Completions(problem, Stream.clues, Top, Top.next) : Candidate <= rest[1]
    BY <1>1, <1>3, CandidateIsNext
  <1>5. Fits(Words[Candidate], Top.remaining)
    BY <1>1 DEF Useful
  <1>6. PICK c : c = Candidate
    OBVIOUS
  <1>7. /\ c \in DOMAIN problem.words /\ Top.next <= c /\ Fits(problem.words[c], Top.remaining)
        /\ c \in Nat
    <2>1. Top.next \in Nat
      BY <1>3 DEF Frames
    <2>2. QED
      BY <1>4, <1>5, <1>6, <2>1 DEF Indices, Words
  <1>8. PICK adv : adv = AdvancedTo(Top, c)
    OBVIOUS
  <1>9. adv \in Frames(problem)
    <2>1. PICK next : next = c + 1
      OBVIOUS
    <2>2. next \in Nat \ {0} /\ adv = [Top EXCEPT !.next = next]
      BY <1>7, <1>8, <2>1 DEF AdvancedTo
    <2>3. QED
      BY <1>3, <2>2 DEF Frames
  <1>10. PICK g : g = FrameFor(problem, Stream, Top, c)
    OBVIOUS
  <1>11. /\ g \in Frames(problem) /\ FrameInv(problem, Stream, g)
         /\ ChosenAfter(problem, Stream, Top, c, g)
    BY <1>1, <1>2, <1>3, <1>7, <1>10, ChosenGrows
  <1>12. PICK frames, n : frames = Stream.frames /\ n = Len(frames)
    OBVIOUS
  <1>13. PICK stack : stack = Pushed(frames, adv, g)
    OBVIOUS
  <1>14. /\ frames \in Seq(Frames(problem)) /\ frames # <<>> /\ n \in Nat \ {0}
         /\ Top = frames[n]
    BY <1>2, <1>3, <1>12
  <1>15. stack \in Seq(Frames(problem)) /\ PushedOn(frames, stack, adv, g)
    BY <1>9, <1>11, <1>13, <1>14, PushedTop
  <1>17. PICK t : t = [Stream EXCEPT !.frames = stack]
    OBVIOUS
  <1>18. /\ t \in Streams(problem) /\ t.frames = stack /\ t.count = Stream.count
         /\ t.clues = Stream.clues /\ t.max = Stream.max /\ t.dead = Stream.dead
         /\ t.produced = Stream.produced
    BY <1>2, <1>15, <1>17 DEF Streams
  <1>19. /\ StreamInv(problem, t)
         /\ \A bag : Pending(problem, Stream, bag) => Pending(problem, t, bag)
    <2>1. /\ n \in Nat \ {0} /\ n = Len(Stream.frames) /\ Top = Stream.frames[n]
          /\ \A rest \in Completions(problem, Stream.clues, Top, Top.next) : c <= rest[1]
      BY <1>4, <1>6, <1>12, <1>14
    <2>2. PushedOn(Stream.frames, t.frames, adv, g) /\ SameButStack(Stream, t)
      BY <1>12, <1>15, <1>18 DEF SameButStack
    <2>3. QED
      BY <1>1, <1>2, <1>7, <1>8, <1>11, <1>18, <2>1, <2>2, PushKeeps
  <1>20. streams' = [streams EXCEPT ![1] = t] /\ UNCHANGED <<problem, bags, stop>>
    <2>1. g = Frame(Less(Top.remaining, Words[c]), Top.left - 1, StartAfter(c),
                    Append(Top.chosen, c), Top.matched \cup ({c} \cap Stream.clues),
                    Stream.produced)
      BY <1>10 DEF Words, StartAfter, After, FrameFor
    <2>2. adv = Advanced
      BY <1>6, <1>8 DEF Advanced, AdvancedTo
    <2>3. t = [Stream EXCEPT !.frames = Below \o <<Advanced, g>>]
      BY <1>12, <1>13, <1>17, <2>2 DEF Pushed, Below
    <2>4. QED
      BY <1>6, <2>1, <2>3 DEF Choose, Continue
  <1>21. LineInv(Stream) => LineInv(t)
    <2>1. /\ adv.chosen = Top.chosen /\ adv.next - 1 = c
      BY <1>3, <1>7, <1>8 DEF Frames, AdvancedTo
    <2>2. OneMoreWord(Top.chosen, g.chosen, c)
      <3>1. PICK old, new, W : old = Top.chosen /\ new = g.chosen /\ W = DOMAIN problem.words
        OBVIOUS
      <3>2. new = Append(old, c) /\ old \in Seq(W) /\ c \in W
        BY <1>3, <1>7, <1>11, <3>1 DEF ChosenAfter, Frames
      <3>3. OneMoreWord(old, new, c)
        BY <3>2 DEF OneMoreWord
      <3>4. QED
        BY <3>1, <3>3
    <2>3. PushedOn(Stream.frames, t.frames, adv, g)
      BY <1>12, <1>15, <1>18
    <2>4. t.frames \in Seq(Frames(problem))
      BY <1>15, <1>18
    <2>5. \A k \in DOMAIN Stream.frames : Len(Stream.frames[k].chosen) \in Nat
      <3>1. \A f \in Frames(problem) : Len(f.chosen) \in Nat
        BY DEF Frames
      <3>2. \A k \in DOMAIN frames : frames[k] \in Frames(problem)
        BY <1>14
      <3>3. QED
        BY <1>12, <3>1, <3>2
    <2>6. PICK S, s, top : S = Frames(problem) /\ s = Stream /\ top = Top
      OBVIOUS
    <2>7. /\ s.frames \in Seq(S) /\ s.frames # <<>> /\ t.frames \in Seq(S)
          /\ PushedOn(s.frames, t.frames, adv, g) /\ top = s.frames[Len(s.frames)]
          /\ OneMoreWord(top.chosen, g.chosen, c) /\ adv.chosen = top.chosen /\ adv.next - 1 = c
          /\ \A k \in DOMAIN s.frames : Len(s.frames[k].chosen) \in Nat
      BY <1>2, <1>3, <2>1, <2>2, <2>3, <2>4, <2>5, <2>6
    <2>8. ChosenOnTop(s, t, adv, g, c)
      BY <2>7 DEF ChosenOnTop
    <2>9. s.frames \in Seq(S) /\ s.frames # <<>> /\ t.frames \in Seq(S)
      BY <2>7
    <2>10. LineInv(s) => LineInv(t)
      BY <2>8, <2>9, PushLine
    <2>11. QED
      BY <2>6, <2>10
  <1>22. Stream.count <= t.count
    BY <1>2, <1>18 DEF Streams
  <1>23. QED
    BY <1>2, <1>18, <1>19, <1>20, <1>21, <1>22 DEF HeadStep

\* A complete bag has been found, and the branch is left.
LEMMA YieldFacts ==
  ASSUME SearchInv, Yields, NEW t, t = Produced
  PROVE  /\ problem \in Problems /\ Stream \in Streams(problem) /\ streams # <<>>
         /\ stop = "running"
         /\ Top.chosen \in Solutions /\ Top.chosen \in Seq(DOMAIN problem.words)
         /\ t \in Streams(problem) /\ StreamInv(problem, t)
         /\ t.clues = Stream.clues /\ t.max = Stream.max /\ Stream.count <= t.count
         /\ LineInv(Stream) => LineInv(t)
         /\ \A bag \in Solutions :
              Pending(problem, Stream, bag) => Pending(problem, t, bag) \/ bag = Top.chosen
  <1>1. InFrame /\ Top.left = 0 /\ IsBag
    BY DEF Yields
  <1>2. /\ problem \in Problems /\ Stream \in Streams(problem) /\ StreamInv(problem, Stream)
        /\ Stream.frames # <<>> /\ stop = "running" /\ streams # <<>>
        /\ Solutions = SolutionsOf(problem)
    BY <1>1, HeadFacts DEF InFrame
  <1>3. /\ Below \in Seq(Frames(problem)) /\ Top \in Frames(problem)
        /\ FrameInv(problem, Stream, Top)
    BY <1>1, TopFacts
  <1>4. Top.chosen \in Solutions
    <2>1. (\A l \in Letters : Top.remaining[l] = 0) /\ Allowed(problem, Stream.clues, Top.matched)
      BY <1>1, <1>2, CluesMetIsAllowed DEF IsBag
    <2>2. QED
      BY <1>1, <1>2, <1>3, <2>1, YieldIsSolution
  <1>5. PICK more : more = Stream.produced + 1
    OBVIOUS
  <1>6. more \in Nat
    BY <1>2, <1>5 DEF Streams
  <1>7. t = [Stream EXCEPT !.frames = Below, !.produced = more]
    BY <1>5 DEF Produced
  <1>8. /\ t \in Streams(problem) /\ t.frames = Below /\ t.count = Stream.count
        /\ t.clues = Stream.clues /\ t.max = Stream.max /\ t.dead = Stream.dead
        /\ t.produced = more
    BY <1>2, <1>3, <1>6, <1>7 DEF Streams
  <1>9. \A d \in t.dead : NoCompletion(problem, Stream.clues, d)
    BY <1>2, <1>8 DEF StreamInv
  <1>10. /\ StreamInv(problem, t)
         /\ \A bag : Pending(problem, Stream, bag) /\ ~Ahead(problem, Stream.clues, Top, bag)
                       => Pending(problem, t, bag)
    BY <1>2, <1>5, <1>8, <1>9, PopKeeps DEF Top, Below
  <1>11. \A bag \in Solutions : Ahead(problem, Stream.clues, Top, bag) => bag = Top.chosen
    BY <1>1, <1>2, <1>3, CompleteBranchHasOne
  <1>12. Top.chosen \in Seq(DOMAIN problem.words)
    BY <1>3 DEF Frames
  <1>13. Stream.frames \in Seq(Frames(problem)) /\ Stream.count \in Nat
    BY <1>2 DEF Streams
  <1>14. LineInv(Stream) => LineInv(t)
    BY <1>2, <1>8, <1>13, PopLine DEF Below
  <1>15. QED
    BY <1>2, <1>4, <1>8, <1>10, <1>11, <1>12, <1>13, <1>14

\* A bag that another stream found before.
LEMMA DuplicateGoesOn ==
  ASSUME SearchInv, Duplicate
  PROVE  \E t : HeadStep(t)
  <1>1. Yields /\ Top.chosen \in ToSet(bags)
    BY DEF Duplicate, Seen
  <1>2. PICK t : t = Produced
    OBVIOUS
  <1>3. streams' = [streams EXCEPT ![1] = t] /\ UNCHANGED <<problem, bags, stop>>
    BY <1>2 DEF Duplicate, Continue
  <1>4. QED
    BY <1>1, <1>2, <1>3, YieldFacts DEF HeadStep, Yields, InFrame

\* What is left of the streams without the first.
LEMMA TailFacts ==
  ASSUME NEW S, NEW s \in Seq(S), s # <<>>
  PROVE  /\ Tail(s) \in Seq(S) /\ Len(s) \in Nat \ {0} /\ Len(Tail(s)) = Len(s) - 1
         /\ DOMAIN Tail(s) = 1 .. Len(s) - 1 /\ DOMAIN s = 1 .. Len(s)
         /\ \A k \in 1 .. Len(s) - 1 : k + 1 \in 1 .. Len(s) /\ Tail(s)[k] = s[k + 1]
  OBVIOUS

\* The streams without the first are in order and have pending what it has not.
LEMMA OthersKeep ==
  ASSUME SearchInv, streams # <<>>, NEW others, others = Tail(streams)
  PROVE  /\ others \in Seq(Streams(problem))
         /\ DOMAIN others = 1 .. Len(others) /\ Len(others) \in Nat
         /\ \A i \in DOMAIN others : StreamInv(problem, others[i])
         /\ \A bag : (\E i \in DOMAIN streams : Pending(problem, streams[i], bag))
                       => \/ Pending(problem, Stream, bag)
                          \/ \E i \in DOMAIN others : Pending(problem, others[i], bag)
  <1>1. /\ streams \in Seq(Streams(problem))
        /\ \A i \in DOMAIN streams : StreamInv(problem, streams[i])
    BY DEF SearchInv
  <1>2. PICK s : s = streams
    OBVIOUS
  <1>3. s \in Seq(Streams(problem)) /\ s # <<>> /\ others = Tail(s)
    BY <1>1, <1>2
  <1>4. /\ others \in Seq(Streams(problem)) /\ Len(s) \in Nat \ {0} /\ Len(others) = Len(s) - 1
        /\ DOMAIN others = 1 .. Len(s) - 1 /\ DOMAIN s = 1 .. Len(s)
        /\ \A k \in 1 .. Len(s) - 1 : k + 1 \in 1 .. Len(s) /\ others[k] = s[k + 1]
    BY <1>3, TailFacts
  <1>5. \A i \in DOMAIN others : StreamInv(problem, others[i])
    BY <1>1, <1>2, <1>4
  <1>6. ASSUME NEW bag, NEW i \in DOMAIN s, Pending(problem, s[i], bag)
        PROVE  \/ Pending(problem, s[1], bag)
               \/ \E k \in DOMAIN others : Pending(problem, others[k], bag)
    <2>1. CASE i = 1
      BY <1>6, <2>1
    <2>2. CASE i # 1
      <3>1. i - 1 \in 1 .. Len(s) - 1 /\ (i - 1) + 1 = i
        BY <1>4, <2>2
      <3>2. others[i - 1] = s[i]
        BY <1>4, <3>1
      <3>3. QED
        BY <1>4, <1>6, <3>1, <3>2
    <2>3. QED
      BY <2>1, <2>2
  <1>7. Stream = s[1]
    BY <1>2 DEF Stream
  <1>8. DOMAIN others = 1 .. Len(others) /\ Len(others) \in Nat
    BY <1>4
  <1>9. QED
    BY <1>2, <1>4, <1>5, <1>6, <1>7, <1>8

\* A new bag is kept and the next stream has its turn.
LEMMA KeepKeeps ==
  ASSUME SearchInv, Keep
  PROVE  SearchInv'
  <1>1. Yields /\ Top.chosen \notin ToSet(bags)
    BY DEF Keep, Seen
  <1>2. PICK t : t = Produced
    OBVIOUS
  <1>3. PICK others : others = Tail(streams)
    OBVIOUS
  <1>4. PICK new, bag, kept : new = Append(others, t) /\ bag = Top.chosen /\ kept = Append(bags, bag)
    OBVIOUS
  <1>5. /\ problem \in Problems /\ streams # <<>> /\ stop = "running"
        /\ bag \in Solutions /\ bag \in Seq(DOMAIN problem.words)
        /\ t \in Streams(problem) /\ StreamInv(problem, t)
        /\ \A b \in Solutions : Pending(problem, Stream, b) => Pending(problem, t, b) \/ b = bag
    BY <1>1, <1>2, <1>4, YieldFacts
  <1>6. /\ others \in Seq(Streams(problem))
        /\ DOMAIN others = 1 .. Len(others) /\ Len(others) \in Nat
        /\ \A i \in DOMAIN others : StreamInv(problem, others[i])
        /\ \A b : (\E i \in DOMAIN streams : Pending(problem, streams[i], b))
                    => \/ Pending(problem, Stream, b)
                       \/ \E i \in DOMAIN others : Pending(problem, others[i], b)
    BY <1>3, <1>5, OthersKeep
  <1>7. /\ new \in Seq(Streams(problem)) /\ DOMAIN new = 1 .. Len(others) + 1
        /\ new[Len(others) + 1] = t /\ \A i \in 1 .. Len(others) : new[i] = others[i]
    BY <1>4, <1>5, <1>6
  <1>8. \A i \in DOMAIN new : StreamInv(problem, new[i])
    <2>1. \A i \in DOMAIN new : i = Len(others) + 1 \/ i \in 1 .. Len(others)
      BY <1>6, <1>7
    <2>2. QED
      BY <1>5, <1>6, <1>7, <2>1
  <1>9. /\ bags \in Seq(Seq(DOMAIN problem.words))
        /\ IsInjective(bags) /\ ToSet(bags) \subseteq Solutions
        /\ \A b \in Solutions :
             b \in ToSet(bags) \/ \E i \in DOMAIN streams : Pending(problem, streams[i], b)
    BY <1>5 DEF SearchInv, StopIsTruthful
  <1>10. /\ kept \in Seq(Seq(DOMAIN problem.words)) /\ Len(bags) \in Nat
         /\ DOMAIN kept = 1 .. Len(bags) + 1 /\ DOMAIN bags = 1 .. Len(bags)
         /\ kept[Len(bags) + 1] = bag /\ \A k \in 1 .. Len(bags) : kept[k] = bags[k]
    <2>1. PICK S, all : S = Seq(DOMAIN problem.words) /\ all = bags
      OBVIOUS
    <2>2. all \in Seq(S) /\ bag \in S /\ kept = Append(all, bag)
      BY <1>4, <1>5, <1>9, <2>1
    <2>3. /\ kept \in Seq(S) /\ Len(all) \in Nat
          /\ DOMAIN kept = 1 .. Len(all) + 1 /\ DOMAIN all = 1 .. Len(all)
          /\ kept[Len(all) + 1] = bag /\ \A k \in 1 .. Len(all) : kept[k] = all[k]
      BY <2>2
    <2>4. QED
      BY <2>1, <2>3
  <1>11. \A k \in DOMAIN kept : k = Len(bags) + 1 \/ k \in DOMAIN bags
    BY <1>10
  <1>12. ToSet(kept) = ToSet(bags) \cup {bag}
    <2>1. \A k \in DOMAIN bags : k \in DOMAIN kept /\ Len(bags) + 1 \in DOMAIN kept
      BY <1>10
    <2>2. Len(bags) + 1 \in DOMAIN kept
      BY <1>10
    <2>3. QED
      BY <1>10, <1>11, <2>1, <2>2 DEF ToSet
  <1>13. IsInjective(kept)
    <2>1. SUFFICES ASSUME NEW j \in DOMAIN kept, NEW k \in DOMAIN kept, kept[j] = kept[k]
                   PROVE  j = k
      BY DEF IsInjective
    <2>2. \A i \in DOMAIN bags : bags[i] # bag
      BY <1>1, <1>4 DEF ToSet
    <2>3. CASE j \in DOMAIN bags /\ k \in DOMAIN bags
      BY <1>9, <1>10, <2>1, <2>3 DEF IsInjective
    <2>4. QED
      BY <1>10, <1>11, <2>1, <2>2, <2>3
  <1>14. ASSUME NEW b \in Solutions, b \notin ToSet(kept)
         PROVE  \E i \in DOMAIN new : Pending(problem, new[i], b)
    <2>1. b \notin ToSet(bags) /\ b # bag
      BY <1>12, <1>14
    <2>2. Pending(problem, t, b) \/ \E i \in DOMAIN others : Pending(problem, others[i], b)
      BY <1>5, <1>6, <1>9, <2>1
    <2>3. Len(others) + 1 \in DOMAIN new /\ \A i \in DOMAIN others : i \in DOMAIN new
      BY <1>6, <1>7
    <2>4. QED
      BY <1>6, <1>7, <2>2, <2>3
  <1>15. streams' = new /\ bags' = kept /\ problem' = problem /\ stop' = stop
    BY <1>2, <1>3, <1>4 DEF Keep, NextInTurn
  <1>16. Solutions' = Solutions
    BY <1>15 DEF Solutions
  <1>17. StopIsTruthful'
    <2>1. ToSet(kept) \subseteq Solutions
      BY <1>5, <1>9, <1>12
    <2>2. stop' = "running"
      BY <1>5, <1>15
    <2>3. QED
      BY <1>13, <1>15, <1>16, <2>1, <2>2 DEF StopIsTruthful
  <1>18. QED
    BY <1>5, <1>7, <1>8, <1>10, <1>14, <1>15, <1>16, <1>17 DEF SearchInv

\* One bag more than the budget has been found.
LEMMA CapKeeps ==
  ASSUME SearchInv, Cap
  PROVE  SearchInv'
  <1>1. /\ Yields /\ Top.chosen \notin ToSet(bags) /\ Len(bags) = problem.budget
        /\ stop' = "candidate_cap" /\ streams' = <<>> /\ problem' = problem /\ bags' = bags
    BY DEF Cap, Seen, CapReached
  <1>2. PICK t : t = Produced
    OBVIOUS
  <1>3. Top.chosen \in Solutions
    BY <1>1, <1>2, YieldFacts
  <1>4. Solutions' = Solutions
    BY <1>1 DEF Solutions
  <1>5. StopIsTruthful'
    BY <1>1, <1>3, <1>4 DEF SearchInv, StopIsTruthful
  <1>6. <<>> \in Seq(Streams(problem)) /\ \A i \in DOMAIN <<>> : FALSE
    OBVIOUS
  <1>7. QED
    BY <1>1, <1>4, <1>5, <1>6 DEF SearchInv

\* A stream that has no word count left has nothing pending.
LEMMA StreamEndsKeeps ==
  ASSUME SearchInv, StreamEnds
  PROVE  SearchInv'
  <1>1. /\ stop = "running" /\ streams # <<>> /\ Stream.frames = <<>> /\ Stream.count > Stream.max
        /\ streams' = Tail(streams) /\ problem' = problem /\ bags' = bags /\ stop' = stop
    BY DEF StreamEnds
  <1>2. PICK others : others = Tail(streams)
    OBVIOUS
  <1>3. /\ others \in Seq(Streams(problem))
        /\ \A i \in DOMAIN others : StreamInv(problem, others[i])
        /\ \A b : (\E i \in DOMAIN streams : Pending(problem, streams[i], b))
                    => \/ Pending(problem, Stream, b)
                       \/ \E i \in DOMAIN others : Pending(problem, others[i], b)
    BY <1>1, <1>2, OthersKeep
  <1>4. \A b : ~Pending(problem, Stream, b)
    <2>1. DOMAIN Stream.frames = {}
      BY <1>1
    <2>2. Stream.count \in Nat /\ Stream.max \in Nat
      BY <1>1, HeadFacts DEF Streams
    <2>3. Stream.count .. Stream.max = {}
      BY <1>1, <2>2
    <2>4. QED
      BY <2>1, <2>3 DEF Pending
  <1>5. streams' = others
    BY <1>1, <1>2
  <1>6. Solutions' = Solutions /\ StopIsTruthful'
    BY <1>1 DEF Solutions, SearchInv, StopIsTruthful
  <1>7. QED
    BY <1>1, <1>3, <1>4, <1>5, <1>6 DEF SearchInv

\* No stream is left.
LEMMA ExhaustKeeps ==
  ASSUME SearchInv, Exhaust
  PROVE  SearchInv'
  <1>1. /\ stop = "running" /\ streams = <<>> /\ stop' = "exhausted"
        /\ streams' = streams /\ problem' = problem /\ bags' = bags
    BY DEF Exhaust
  <1>2. DOMAIN streams = {}
    BY <1>1
  <1>3. ToSet(bags) = Solutions
    BY <1>1, <1>2 DEF SearchInv, StopIsTruthful
  <1>4. Solutions' = Solutions
    BY <1>1 DEF Solutions
  <1>5. StopIsTruthful'
    BY <1>1, <1>3, <1>4 DEF SearchInv, StopIsTruthful
  <1>6. QED
    BY <1>1, <1>2, <1>4, <1>5 DEF SearchInv

\* A search that is interrupted says so, and says no more.
LEMMA InterruptKeeps ==
  ASSUME SearchInv, Interrupt
  PROVE  SearchInv'
  <1>1. /\ stop = "running" /\ stop' = "interrupted" /\ streams' = <<>>
        /\ problem' = problem /\ bags' = bags
    BY DEF Interrupt
  <1>2. Solutions' = Solutions
    BY <1>1 DEF Solutions
  <1>3. StopIsTruthful'
    BY <1>1, <1>2 DEF SearchInv, StopIsTruthful
  <1>4. <<>> \in Seq(Streams(problem)) /\ \A i \in DOMAIN <<>> : FALSE
    OBVIOUS
  <1>5. QED
    BY <1>1, <1>2, <1>3, <1>4 DEF SearchInv

\* The turns that find nothing new.
HeadTurn == PushRoot \/ SkipDead \/ Reject \/ Retire \/ PassOver \/ Choose \/ Duplicate

LEMMA HeadTurns ==
  ASSUME SearchInv, HeadTurn
  PROVE  stop = "running" /\ streams # <<>> /\ \E t : HeadStep(t)
  <1>1. stop = "running" /\ streams # <<>>
    BY DEF HeadTurn, PushRoot, SkipDead, Reject, Retire, PassOver, Choose, Duplicate, Yields, InFrame
  <1>2. \E t : HeadStep(t)
    BY PushRootGoesOn, SkipDeadGoesOn, RejectGoesOn, RetireGoesOn, PassOverGoesOn, ChooseGoesOn,
       DuplicateGoesOn DEF HeadTurn
  <1>3. QED
    BY <1>1, <1>2

\* A turn, or its end, keeps the invariant.
LEMMA SearchKeeps ==
  ASSUME SearchInv, [Next]_vars
  PROVE  SearchInv'
  <1>1. CASE UNCHANGED vars
    <2>1. problem' = problem /\ streams' = streams /\ bags' = bags /\ stop' = stop
      BY <1>1 DEF vars
    <2>2. Solutions' = Solutions /\ StopIsTruthful' = StopIsTruthful
      BY <2>1 DEF Solutions, StopIsTruthful
    <2>3. QED
      BY <2>1, <2>2 DEF SearchInv
  <1>2. CASE Next
    <2>1. HeadTurn \/ Keep \/ Cap \/ StreamEnds \/ Exhaust \/ Interrupt
      BY <1>2 DEF Next, Search, HeadTurn
    <2>2. ASSUME HeadTurn PROVE SearchInv'
      BY <2>2, HeadTurns, HeadGoesOn
    <2>3. QED
      BY <2>1, <2>2, KeepKeeps, CapKeeps, StreamEndsKeeps, ExhaustKeeps, InterruptKeeps
  <1>3. QED
    BY <1>1, <1>2

-----------------------------------------------------------------------------
(* The streams that a search begins with *)

\* Division undoes multiplication.
LEMMA Division ==
  ASSUME NEW g \in Nat \ {0}, NEW m \in Nat
  PROVE  /\ m \div g \in Nat /\ m % g \in 0 .. g - 1
         /\ m = g * (m \div g) + (m % g)
  <1>1. m = g * (m \div g) + (m % g)
    OBVIOUS
  <1>2. m \div g \in Nat
    OBVIOUS
  <1>3. m % g \in Nat /\ m % g < g
    OBVIOUS
  <1>4. \A e \in Nat : e < g => e \in 0 .. g - 1
    OBVIOUS
  <1>5. m % g \in 0 .. g - 1
    BY <1>3, <1>4
  <1>6. QED
    BY <1>1, <1>2, <1>5

\* Products grow with their factors.
LEMMA ProductGrows ==
  ASSUME NEW g \in Nat, NEW a \in Nat, NEW b \in Nat, a < b
  PROVE  g * a + g <= g * b /\ g * a \in Nat /\ g * b \in Nat
  <1>1. PICK k : k = b - a - 1
    OBVIOUS
  <1>2. k \in Nat /\ b = a + 1 + k
    BY <1>1
  <1>3. /\ g * (a + 1 + k) = g * a + g + g * k
        /\ g * k \in Nat /\ g * a \in Nat /\ g * b \in Nat
    BY <1>2
  <1>4. g * b = g * a + g + g * k
    BY <1>2, <1>3
  <1>5. PICK x, y, z : x = g * a /\ y = g * b /\ z = g * k
    OBVIOUS
  <1>6. x \in Nat /\ y \in Nat /\ z \in Nat /\ y = x + g + z
    BY <1>3, <1>4, <1>5
  <1>7. x + g <= y
    BY <1>6
  <1>8. QED
    BY <1>5, <1>6, <1>7

\* And multiplication with a remainder undoes division.
LEMMA DivisionOf ==
  ASSUME NEW g \in Nat \ {0}, NEW q \in Nat, NEW r \in 0 .. g - 1
  PROVE  /\ g * q + r \in Nat /\ g * q \in Nat
         /\ (g * q + r) \div g = q /\ (g * q + r) % g = r
  <1>1. PICK m : m = g * q + r
    OBVIOUS
  <1>2. g * q \in Nat
    OBVIOUS
  <1>3. m \in Nat
    <2>1. PICK x : x = g * q
      OBVIOUS
    <2>2. x \in Nat /\ m = x + r
      BY <1>1, <1>2, <2>1
    <2>3. QED
      BY <2>2
  <1>4. PICK d, e : d = m \div g /\ e = m % g
    OBVIOUS
  <1>5. d \in Nat /\ e \in 0 .. g - 1 /\ m = g * d + e
    BY <1>3, <1>4, Division
  <1>6. PICK x, y : x = g * q /\ y = g * d
    OBVIOUS
  <1>7. x \in Nat /\ m = x + r /\ m = y + e
    BY <1>1, <1>2, <1>5, <1>6
  <1>8. ~(d < q)
    <2>1. d < q => y + g <= x /\ y \in Nat
      BY <1>5, <1>6, ProductGrows
    <2>2. QED
      BY <1>5, <1>7, <2>1
  <1>9. ~(q < d)
    <2>1. q < d => x + g <= y /\ y \in Nat
      BY <1>5, <1>6, ProductGrows
    <2>2. QED
      BY <1>5, <1>7, <2>1
  <1>10. d = q
    BY <1>5, <1>8, <1>9
  <1>11. e = r
    BY <1>5, <1>6, <1>7, <1>10
  <1>12. QED
    BY <1>1, <1>2, <1>3, <1>4, <1>10, <1>11

\* The place of a member of a set among the others.
Rank(S, c) == Cardinality({d \in S : d < c})

\* Every place among the members of a finite set of numbers is taken, by one.
LEMMA Ranks ==
  ASSUME NEW S \in SUBSET Nat, IsFiniteSet(S)
  PROVE  /\ Cardinality(S) \in Nat
         /\ \A c \in S : Rank(S, c) \in 0 .. Cardinality(S) - 1
         /\ \A c, d \in S : Rank(S, c) = Rank(S, d) => c = d
         /\ \A i \in 0 .. Cardinality(S) - 1 : \E c \in S : Rank(S, c) = i
  <1> DEFINE K == Cardinality(S)
             less(c) == {d \in S : d < c}
  <1>1. K \in Nat
    BY FS_CardinalityType
  <1>2. ASSUME NEW c \in S PROVE IsFiniteSet(less(c)) /\ Cardinality(less(c)) \in Nat
    BY FS_Subset, FS_CardinalityType
  <1>3. ASSUME NEW c \in S PROVE Rank(S, c) \in 0 .. K - 1
    <2>1. IsFiniteSet(S \ {c}) /\ Cardinality(S \ {c}) = K - 1
      BY FS_RemoveElement
    <2>2. less(c) \in SUBSET (S \ {c})
      OBVIOUS
    <2> HIDE DEF less
    <2>3. Cardinality(less(c)) <= K - 1
      BY <2>1, <2>2, FS_Subset
    <2> HIDE DEF K
    <2>4. Cardinality(less(c)) \in 0 .. K - 1
      BY <1>1, <1>2, <2>3
    <2>5. QED
      BY <2>4 DEF Rank, less
  <1>4. ASSUME NEW c \in S, NEW d \in S, c < d PROVE Rank(S, c) < Rank(S, d)
    <2>1. c \notin less(c) /\ less(c) \cup {c} \in SUBSET less(d)
      <3>1. c \in Nat /\ d \in Nat /\ ~(c < c)
        OBVIOUS
      <3>2. \A x \in S : x < c => x < d
        BY <1>4, <3>1
      <3>3. QED
        BY <1>4, <3>1, <3>2
    <2> HIDE DEF less
    <2>2. Cardinality(less(c) \cup {c}) = Cardinality(less(c)) + 1
      BY <1>2, <2>1, FS_AddElement
    <2>3. Cardinality(less(c) \cup {c}) <= Cardinality(less(d))
      BY <1>2, <2>1, FS_Subset
    <2>4. Cardinality(less(c)) < Cardinality(less(d))
      BY <1>2, <2>2, <2>3
    <2>5. QED
      BY <2>4 DEF Rank, less
  <1>5. ASSUME NEW c \in S, NEW d \in S, Rank(S, c) = Rank(S, d) PROVE c = d
    <2>1. /\ c \in Nat /\ d \in Nat /\ Rank(S, c) \in Nat /\ Rank(S, d) \in Nat
          /\ c < d => Rank(S, c) < Rank(S, d)
          /\ d < c => Rank(S, d) < Rank(S, c)
      BY <1>1, <1>3, <1>4
    <2>2. QED
      BY <1>5, <2>1
  <1>6. ASSUME NEW i \in 0 .. K - 1 PROVE \E c \in S : Rank(S, c) = i
    <2>1. SUFFICES ASSUME \A c \in S : Rank(S, c) # i PROVE FALSE
      OBVIOUS
    <2> DEFINE T == (0 .. K - 1) \ {i}
               f == [c \in S |-> Rank(S, c)]
    <2>2. K - 1 \in Int /\ ~(0 > K - 1) /\ (K - 1) - 0 + 1 = K
      BY <1>1, <1>6
    <2>3. IsFiniteSet(0 .. K - 1) /\ Cardinality(0 .. K - 1) = K
      BY <2>2, FS_Interval
    <2>4. IsFiniteSet(T) /\ Cardinality(T) = K - 1
      BY <1>6, <2>3, FS_RemoveElement
    <2>5. f \in [S -> T]
      BY <1>3, <2>1
    <2>6. Cardinality(T) < Cardinality(S)
      BY <1>1, <2>4
    <2> HIDE DEF T, f
    <2>7. PICK c \in S, d \in S : c # d /\ f[c] = f[d]
      BY <2>4, <2>5, <2>6, FS_PigeonHole
    <2>8. QED
      BY <1>5, <2>7 DEF f
  <1>7. QED
    BY <1>1, <1>3, <1>5, <1>6 DEF K

\* Each group asks for all clues, or for one clue that may be chosen, and each
\* solution has the clues that some group asks for.
GroupsServe(p, groups) ==
  /\ Len(groups) \in Nat \ {0}
  /\ \A j \in 1 .. Len(groups) :
       /\ groups[j] \in SUBSET (0 .. Len(p.words))
       /\ \/ groups[j] = p.clues
          \/ p.initial = {} /\ ~p.one /\ \E c \in p.clues : groups[j] = {c}
  /\ \A bag \in SolutionsOf(p) : \E j \in 1 .. Len(groups) :
       Allowed(p, groups[j], (p.initial \cup ToSet(bag)) \cap groups[j])

\* The groups of the strata serve every solution (generation.rs:392-414).
LEMMA Strata ==
  ASSUME NEW p \in Problems, NEW groups, groups = ClueGroups(p)
  PROVE  GroupsServe(p, groups)
  <1>1. /\ p.clues \subseteq 0 .. Len(p.words) /\ p.initial \subseteq p.clues
        /\ p.one \in BOOLEAN /\ Len(p.words) \in Nat
    BY Shape
  <1>2. \A bag \in SolutionsOf(p) : Allowed(p, p.clues, (p.initial \cup ToSet(bag)) \cap p.clues)
    <2>1. \A bag : (p.initial \cup ToSet(bag)) \cap p.clues = p.initial \cup (ToSet(bag) \cap p.clues)
      BY <1>1
    <2>2. QED
      BY <2>1, SolutionFacts
  <1>3. CASE ~(p.clues # {} /\ p.initial = {} /\ ~p.one)
    <2>1. groups = <<p.clues>>
      BY <1>3 DEF ClueGroups
    <2>2. Len(groups) = 1 /\ groups[1] = p.clues
      BY <2>1
    <2>3. \A j \in 1 .. Len(groups) : groups[j] = p.clues /\ groups[j] \in SUBSET (0 .. Len(p.words))
      BY <1>1, <2>2
    <2>4. 1 \in 1 .. Len(groups) /\ Len(groups) \in Nat \ {0}
      BY <2>2
    <2>5. ASSUME NEW bag \in SolutionsOf(p)
          PROVE  Allowed(p, groups[1], (p.initial \cup ToSet(bag)) \cap groups[1])
      BY <1>2, <2>2
    <2>6. QED
      BY <2>3, <2>4, <2>5 DEF GroupsServe
  <1>4. CASE p.clues # {} /\ p.initial = {} /\ ~p.one
    <2> DEFINE K == Cardinality(p.clues)
    <2>1. IsFiniteSet(0 .. Len(p.words))
      BY <1>1, FS_Interval
    <2>2. p.clues \in SUBSET Nat /\ IsFiniteSet(p.clues)
      BY <1>1, <2>1, FS_Subset
    <2>3. groups = [i \in 1 .. K |-> {c \in p.clues : Rank(p.clues, c) = i - 1}]
      BY <1>4 DEF ClueGroups, Rank
    <2>4. /\ K \in Nat /\ \A c \in p.clues : Rank(p.clues, c) \in 0 .. K - 1
          /\ \A c, d \in p.clues : Rank(p.clues, c) = Rank(p.clues, d) => c = d
          /\ \A i \in 0 .. K - 1 : \E c \in p.clues : Rank(p.clues, c) = i
      BY <2>2, Ranks
    <2>5. K # 0
      BY <1>4, <2>2, FS_EmptySet
    <2> HIDE DEF K
    <2>6. Len(groups) = K
      BY <2>3, <2>4
    <2>7. ASSUME NEW j \in 1 .. K
          PROVE  \E c \in p.clues : groups[j] = {c}
      <3>1. j - 1 \in 0 .. K - 1
        BY <2>4, <2>7
      <3>2. PICK c \in p.clues : Rank(p.clues, c) = j - 1
        BY <2>4, <3>1
      <3>3. groups[j] = {c}
        BY <2>3, <2>4, <2>7, <3>2
      <3>4. QED
        BY <3>3
    <2>8. ASSUME NEW bag \in SolutionsOf(p)
          PROVE  \E j \in 1 .. K : Allowed(p, groups[j], (p.initial \cup ToSet(bag)) \cap groups[j])
      <3>1. PICK c \in p.clues : c \in ToSet(bag)
        BY <1>2, <1>4, <2>8 DEF Allowed
      <3>2. PICK j : j = Rank(p.clues, c) + 1
        OBVIOUS
      <3>3. j \in 1 .. K /\ j - 1 = Rank(p.clues, c)
        BY <2>4, <3>2
      <3>4. c \in groups[j]
        BY <2>3, <3>3
      <3>5. QED
        BY <1>4, <3>1, <3>3, <3>4 DEF Allowed
    <2>9. QED
      <3>1. Len(groups) \in Nat \ {0}
        BY <2>4, <2>5, <2>6
      <3>2. ASSUME NEW j \in 1 .. Len(groups)
            PROVE  /\ groups[j] \in SUBSET (0 .. Len(p.words))
                   /\ p.initial = {} /\ ~p.one /\ \E c \in p.clues : groups[j] = {c}
        <4>1. PICK c \in p.clues : groups[j] = {c}
          BY <2>6, <2>7
        <4>2. c \in 0 .. Len(p.words)
          BY <1>1
        <4>3. QED
          BY <1>4, <4>1, <4>2
      <3>3. QED
        BY <2>6, <2>8, <3>1, <3>2 DEF GroupsServe
  <1>5. QED
    BY <1>3, <1>4

\* A stream that has not begun is in order and will come to the bags of its
\* word counts that have its clues.
LEMMA FreshStream ==
  ASSUME NEW p \in Problems, NEW clues \in SUBSET (0 .. Len(p.words)),
         \/ clues = p.clues
         \/ p.initial = {} /\ ~p.one /\ \E c \in p.clues : clues = {c},
         NEW low \in Nat, p.min <= low, NEW high \in Nat, high <= High(p),
         NEW t, t = NewStream(clues, low, high)
  PROVE  /\ t \in Streams(p) /\ StreamInv(p, t)
         /\ \A bag : Len(bag) \in low .. high
                       /\ Allowed(p, clues, (p.initial \cup ToSet(bag)) \cap clues)
                     => Pending(p, t, bag)
  <1>1. /\ t.clues = clues /\ t.count = low /\ t.max = high /\ t.frames = <<>> /\ t.dead = {}
        /\ t.produced = 0
    BY DEF NewStream
  <1>2. <<>> \in Seq(Frames(p)) /\ 0 \in Nat
    OBVIOUS
  <1>3. t \in Streams(p)
    BY <1>2 DEF NewStream, Streams
  <1>4. CluesInv(p, t)
    BY <1>1 DEF CluesInv
  <1>5. DOMAIN t.frames = {} /\ 1 .. Len(t.frames) - 1 = {}
    BY <1>1
  <1>6. StreamInv(p, t)
    BY <1>1, <1>4, <1>5 DEF StreamInv
  <1>7. QED
    BY <1>1, <1>3, <1>6 DEF Pending

\* The streams of a search are in order and will come to every solution.
LEMMA StreamsStart ==
  ASSUME NEW p \in Problems, NEW all, all = StreamsOf(p)
  PROVE  /\ all \in Seq(Streams(p))
         /\ \A i \in DOMAIN all : StreamInv(p, all[i])
         /\ \A bag \in SolutionsOf(p) : \E i \in DOMAIN all : Pending(p, all[i], bag)
  <1>1. /\ p.min \in Nat \ {0} /\ High(p) \in Nat /\ p.clues \in SUBSET (0 .. Len(p.words))
        /\ p.initial \subseteq p.clues
    BY Shape, HighIsNatural
  <1>2. CASE ~p.diverse \/ p.budget = 0
    <2>1. PICK t : t = NewStream(p.clues, p.min, High(p))
      OBVIOUS
    <2>2. /\ t \in Streams(p) /\ StreamInv(p, t)
          /\ \A bag : Len(bag) \in p.min .. High(p)
                        /\ Allowed(p, p.clues, (p.initial \cup ToSet(bag)) \cap p.clues)
                      => Pending(p, t, bag)
      <3>1. PICK low, high, clues : low = p.min /\ high = High(p) /\ clues = p.clues
        OBVIOUS
      <3>2. /\ clues \in SUBSET (0 .. Len(p.words)) /\ clues = p.clues
            /\ low \in Nat /\ p.min <= low /\ high \in Nat /\ high <= High(p)
            /\ t = NewStream(clues, low, high)
        BY <1>1, <2>1, <3>1
      <3>3. /\ t \in Streams(p) /\ StreamInv(p, t)
            /\ \A bag : Len(bag) \in low .. high
                          /\ Allowed(p, clues, (p.initial \cup ToSet(bag)) \cap clues)
                        => Pending(p, t, bag)
        BY <3>2, FreshStream
      <3>4. QED
        BY <3>1, <3>3
    <2>3. all = <<t>>
      BY <1>2, <2>1 DEF StreamsOf
    <2>4. all \in Seq(Streams(p)) /\ DOMAIN all = {1} /\ all[1] = t
      BY <2>2, <2>3
    <2>5. ASSUME NEW bag \in SolutionsOf(p) PROVE Pending(p, t, bag)
      <3>1. (p.initial \cup ToSet(bag)) \cap p.clues = p.initial \cup (ToSet(bag) \cap p.clues)
        BY <1>1
      <3>2. QED
        BY <2>2, <3>1, SolutionFacts
    <2>6. QED
      BY <2>2, <2>4, <2>5
  <1>3. CASE ~(~p.diverse \/ p.budget = 0)
    <2>1. PICK groups, g, span : /\ groups = ClueGroups(p) /\ g = Len(groups)
                                 /\ span = Cardinality(p.min .. High(p))
      OBVIOUS
    <2>2. PICK stream : stream = [i \in 1 .. g * span |->
                          NewStream(groups[((i - 1) % g) + 1], p.min + ((i - 1) \div g),
                                    p.min + ((i - 1) \div g))]
      OBVIOUS
    <2>3. all = stream
      BY <1>3, <2>1, <2>2 DEF StreamsOf
    <2>4. /\ g \in Nat \ {0}
          /\ \A j \in 1 .. g :
               /\ groups[j] \in SUBSET (0 .. Len(p.words))
               /\ \/ groups[j] = p.clues
                  \/ p.initial = {} /\ ~p.one /\ \E c \in p.clues : groups[j] = {c}
          /\ \A bag \in SolutionsOf(p) : \E j \in 1 .. g :
               Allowed(p, groups[j], (p.initial \cup ToSet(bag)) \cap groups[j])
      <3>1. groups = ClueGroups(p) /\ g = Len(groups)
        BY <2>1
      <3>2. /\ Len(groups) \in Nat \ {0}
            /\ \A j \in 1 .. Len(groups) :
                 /\ groups[j] \in SUBSET (0 .. Len(p.words))
                 /\ \/ groups[j] = p.clues
                    \/ p.initial = {} /\ ~p.one /\ \E c \in p.clues : groups[j] = {c}
            /\ \A bag \in SolutionsOf(p) : \E j \in 1 .. Len(groups) :
                 Allowed(p, groups[j], (p.initial \cup ToSet(bag)) \cap groups[j])
        <4>1. GroupsServe(p, groups)
          BY <3>1, Strata
        <4>2. QED
          BY <4>1 DEF GroupsServe
      <3>3. QED
        BY <3>1, <3>2
    <2>5. /\ span \in Nat
          /\ \A n \in p.min .. High(p) : n - p.min \in Nat /\ n - p.min < span /\ p.min + (n - p.min) = n
          /\ \A q \in Nat : q < span => p.min + q \in p.min .. High(p) /\ p.min + q \in Nat
      <3>1. p.min \in Int /\ High(p) \in Int
        BY <1>1
      <3>2. span = IF p.min > High(p) THEN 0 ELSE High(p) - p.min + 1
        BY <2>1, <3>1, FS_Interval
      <3>3. PICK low, high : low = p.min /\ high = High(p)
        OBVIOUS
      <3>4. /\ low \in Nat /\ high \in Nat
            /\ span = IF low > high THEN 0 ELSE high - low + 1
        BY <1>1, <3>2, <3>3
      <3>5. /\ span \in Nat
            /\ \A n \in low .. high : n - low \in Nat /\ n - low < span /\ low + (n - low) = n
            /\ \A q \in Nat : q < span => low + q \in low .. high /\ low + q \in Nat
        BY <3>4
      <3>6. QED
        BY <3>3, <3>5
    <2>6. ASSUME NEW i \in 1 .. g * span
          PROVE  /\ (i - 1) \div g \in Nat /\ (i - 1) \div g < span
                 /\ ((i - 1) % g) + 1 \in 1 .. g
      <3>1. PICK m : m = i - 1
        OBVIOUS
      <3>2. PICK x : x = g * span
        OBVIOUS
      <3>3. x \in Nat
        BY <2>4, <2>5, <3>2
      <3>4. m \in Nat /\ m < x
        BY <3>1, <3>2, <3>3
      <3>5. PICK d, e : d = m \div g /\ e = m % g
        OBVIOUS
      <3>6. d \in Nat /\ e \in 0 .. g - 1 /\ m = g * d + e
        BY <2>4, <3>4, <3>5, Division
      <3>7. d < span
        <4>1. SUFFICES ASSUME ~(d < span) PROVE FALSE
          OBVIOUS
        <4>2. d = span \/ span < d
          BY <2>5, <3>6, <4>1
        <4>3. PICK y : y = g * d
          OBVIOUS
        <4>4. y \in Nat /\ m = y + e
          BY <2>4, <3>6, <4>3
        <4>5. CASE d = span
          BY <3>2, <3>4, <3>6, <4>3, <4>4, <4>5
        <4>6. CASE span < d
          <5>1. x + g <= y
            BY <2>4, <2>5, <3>2, <3>6, <4>3, <4>6, ProductGrows
          <5>2. QED
            BY <2>4, <3>3, <3>4, <3>6, <4>4, <5>1
        <4>7. QED
          BY <4>2, <4>5, <4>6
      <3>8. e + 1 \in 1 .. g
        BY <2>4, <3>6
      <3>9. QED
        BY <3>1, <3>5, <3>6, <3>7, <3>8
    <2>7. ASSUME NEW i \in 1 .. g * span,
                 NEW j \in 1 .. g, j = ((i - 1) % g) + 1,
                 NEW q \in Nat, q < span, q = (i - 1) \div g
          PROVE  /\ stream[i] \in Streams(p) /\ StreamInv(p, stream[i])
                 /\ \A bag : Len(bag) = p.min + q
                               /\ Allowed(p, groups[j], (p.initial \cup ToSet(bag)) \cap groups[j])
                             => Pending(p, stream[i], bag)
      <3>1. PICK n, t : n = p.min + q /\ t = stream[i]
        OBVIOUS
      <3>2. n \in Nat /\ p.min <= n /\ n <= High(p)
        BY <1>1, <2>5, <2>7, <3>1
      <3>3. t = NewStream(groups[j], n, n)
        BY <2>2, <2>7, <3>1
      <3>4. /\ groups[j] \in SUBSET (0 .. Len(p.words))
            /\ \/ groups[j] = p.clues
               \/ p.initial = {} /\ ~p.one /\ \E c \in p.clues : groups[j] = {c}
        BY <2>4, <2>7
      <3>5. /\ t \in Streams(p) /\ StreamInv(p, t)
            /\ \A bag : Len(bag) \in n .. n
                          /\ Allowed(p, groups[j], (p.initial \cup ToSet(bag)) \cap groups[j])
                        => Pending(p, t, bag)
        BY <3>2, <3>3, <3>4, FreshStream
      <3>6. n \in n .. n
        BY <3>2
      <3>7. QED
        BY <3>1, <3>5, <3>6
    <2>8. \A i \in 1 .. g * span : stream[i] \in Streams(p) /\ StreamInv(p, stream[i])
      BY <2>6, <2>7
    <2>9. DOMAIN stream = 1 .. g * span /\ stream \in Seq(Streams(p))
      <3>1. PICK x : x = g * span
        OBVIOUS
      <3>2. x \in Nat
        BY <2>4, <2>5, <3>1
      <3>3. DOMAIN stream = 1 .. x
        BY <2>2, <3>1
      <3>4. stream \in [1 .. x -> Streams(p)]
        BY <2>2, <2>8, <3>1
      <3>5. QED
        BY <3>1, <3>2, <3>3, <3>4
    <2>10. ASSUME NEW bag \in SolutionsOf(p)
           PROVE  \E i \in DOMAIN stream : Pending(p, stream[i], bag)
      <3>1. PICK j \in 1 .. g : Allowed(p, groups[j], (p.initial \cup ToSet(bag)) \cap groups[j])
        BY <2>4
      <3>2. PICK q, r : q = Len(bag) - p.min /\ r = j - 1
        OBVIOUS
      <3>3. q \in Nat /\ q < span /\ p.min + q = Len(bag)
        BY <2>5, <3>2, SolutionFacts
      <3>4. r \in 0 .. g - 1 /\ r + 1 = j
        BY <2>4, <3>1, <3>2
      <3>5. PICK m : m = g * q + r
        OBVIOUS
      <3>6. m \in Nat /\ m \div g = q /\ m % g = r
        BY <2>4, <3>3, <3>4, <3>5, DivisionOf
      <3>7. m + 1 \in 1 .. g * span
        <4>1. PICK x, y : x = g * span /\ y = g * q
          OBVIOUS
        <4>2. y + g <= x /\ x \in Nat /\ y \in Nat /\ m = y + r
          BY <2>4, <2>5, <3>3, <3>5, <4>1, ProductGrows
        <4>3. m + 1 \in 1 .. x
          <5>1. r \in Nat /\ r + 1 <= g /\ g \in Nat
            BY <2>4, <3>4
          <5>2. m + 1 = y + (r + 1) /\ m + 1 <= x
            BY <4>2, <5>1
          <5>3. QED
            BY <4>2, <5>1, <5>2
        <4>4. QED
          BY <4>1, <4>3
      <3>8. PICK i : i = m + 1
        OBVIOUS
      <3>9. i \in 1 .. g * span /\ i - 1 = m
        BY <3>6, <3>7, <3>8
      <3>10. j = ((i - 1) % g) + 1 /\ q = (i - 1) \div g
        BY <3>4, <3>6, <3>9
      <3>11. Pending(p, stream[i], bag)
        BY <2>7, <3>1, <3>3, <3>9, <3>10
      <3>12. QED
        BY <2>9, <3>9, <3>11
    <2>11. QED
      BY <2>3, <2>8, <2>9, <2>10
  <1>4. QED
    BY <1>2, <1>3

\* The invariant holds when a search begins.
LEMMA SearchStarts ==
  ASSUME Init
  PROVE  SearchInv
  <1>1. problem \in Problems /\ streams = StreamsOf(problem) /\ bags = <<>> /\ stop = "running"
    BY DEF Init
  <1>2. /\ streams \in Seq(Streams(problem))
        /\ \A i \in DOMAIN streams : StreamInv(problem, streams[i])
        /\ \A bag \in SolutionsOf(problem) :
             \E i \in DOMAIN streams : Pending(problem, streams[i], bag)
    BY <1>1, StreamsStart
  <1>3. Solutions = SolutionsOf(problem)
    BY <1>1 DEF Solutions, Reference
  <1>4. bags \in Seq(Seq(DOMAIN problem.words)) /\ DOMAIN bags = {}
    BY <1>1
  <1>5. StopIsTruthful
    BY <1>1, <1>4 DEF StopIsTruthful, IsInjective, ToSet
  <1>6. QED
    BY <1>1, <1>2, <1>3, <1>4, <1>5 DEF SearchInv

-----------------------------------------------------------------------------
(* The order in which a prefix is found *)

\* The order is strict.
LEMMA BeforeIsAsymmetric ==
  ASSUME NEW a \in Seq(Nat), NEW b \in Seq(Nat), Before(a, b), Before(b, a)
  PROVE  FALSE
  <1>1. PICK n, m : n = Len(a) /\ m = Len(b)
    OBVIOUS
  <1>2. n \in Nat /\ m \in Nat /\ DOMAIN a = 1 .. n /\ DOMAIN b = 1 .. m
    BY <1>1
  <1>3. (n < m \/ n = m) /\ (m < n \/ m = n)
    BY <1>1 DEF Before
  <1>4. n = m
    BY <1>2, <1>3
  <1>5. ~(n < m) /\ ~(m < n)
    BY <1>2, <1>4
  <1>6. /\ \E k \in DOMAIN a : a[k] < b[k] /\ \A j \in 1 .. k - 1 : a[j] = b[j]
        /\ \E k \in DOMAIN b : b[k] < a[k] /\ \A j \in 1 .. k - 1 : b[j] = a[j]
    BY <1>1, <1>5 DEF Before
  <1>7. PICK k \in 1 .. n : a[k] < b[k] /\ \A j \in 1 .. k - 1 : a[j] = b[j]
    BY <1>2, <1>6
  <1>8. PICK l \in 1 .. n : b[l] < a[l] /\ \A j \in 1 .. l - 1 : b[j] = a[j]
    BY <1>2, <1>4, <1>6
  <1>9. a[k] \in Nat /\ b[k] \in Nat /\ a[l] \in Nat /\ b[l] \in Nat /\ k \in Nat /\ l \in Nat
    BY <1>2, <1>4
  <1>10. k = l \/ k \in 1 .. l - 1 \/ l \in 1 .. k - 1
    BY <1>2
  <1>11. QED
    BY <1>7, <1>8, <1>9, <1>10

\* Bags are sequences of numbers.
LEMMA SolutionsAreLists ==
  ASSUME NEW p \in Problems, NEW bag \in SolutionsOf(p)
  PROVE  bag \in Seq(Nat) /\ DOMAIN bag = 1 .. Len(bag) /\ Len(bag) \in Nat
  <1>1. /\ Len(bag) \in Nat /\ bag \in [1 .. Len(bag) -> DOMAIN p.words]
    BY SolutionFacts DEF WordLists
  <1>2. DOMAIN p.words \subseteq Nat
    BY Shape
  <1>3. bag \in [1 .. Len(bag) -> Nat]
    BY <1>1, <1>2
  <1>4. QED
    BY <1>1, <1>3

\* The bag that a stream comes to is the first of those it has pending.
LEMMA NextIsFirst ==
  ASSUME SearchInv, Yields, LineInv(Stream),
         NEW bag \in Solutions, Pending(problem, Stream, bag), bag # Top.chosen
  PROVE  Before(Top.chosen, bag)
  <1>1. InFrame /\ Top.left = 0
    BY DEF Yields
  <1>2. /\ problem \in Problems /\ Stream \in Streams(problem) /\ StreamInv(problem, Stream)
        /\ Solutions = SolutionsOf(problem)
    BY <1>1, HeadFacts DEF InFrame
  <1>3. PICK frames, n, top, b, m : /\ frames = Stream.frames /\ n = Len(frames) /\ top = Top
                                    /\ b = Top.chosen /\ m = Len(b)
    OBVIOUS
  <1>4. /\ n \in Nat \ {0} /\ DOMAIN frames = 1 .. n /\ top = frames[n]
        /\ top \in Frames(problem) /\ FrameInv(problem, Stream, top)
        /\ \A k \in 1 .. n : frames[k] \in Frames(problem)
    <2>1. /\ frames \in Seq(Frames(problem)) /\ n \in Nat \ {0} /\ DOMAIN frames = 1 .. n
          /\ top = frames[n] /\ top \in Frames(problem) /\ FrameInv(problem, Stream, top)
      BY <1>1, <1>3, TopFacts
    <2>2. QED
      BY <2>1
  <1>5. b \in Seq(DOMAIN problem.words) /\ m \in Nat /\ DOMAIN b = 1 .. m
    <2>1. b \in Seq(DOMAIN problem.words)
      BY <1>3, <1>4 DEF Frames
    <2>2. QED
      BY <1>3, <2>1
  <1>6. m = Stream.count - 1 /\ Stream.count \in Nat /\ Stream.max \in Nat
    <2>1. Len(top.chosen) + top.left = Stream.count - 1
      BY <1>4 DEF FrameInv
    <2>2. Stream.count \in Nat /\ Stream.max \in Nat
      BY <1>2 DEF Streams
    <2>3. top.chosen = b /\ top.left = 0
      BY <1>1, <1>3
    <2>4. QED
      BY <1>3, <1>5, <2>1, <2>2, <2>3
  <1>7. bag \in Seq(Nat) /\ Len(bag) \in Nat /\ DOMAIN bag = 1 .. Len(bag)
    BY <1>2, SolutionsAreLists
  <1>8. CASE Len(bag) \in Stream.count .. Stream.max
    <2>1. Len(b) < Len(bag)
      BY <1>3, <1>5, <1>6, <1>7, <1>8
    <2>2. QED
      BY <1>3, <2>1 DEF Before
  <1>9. ASSUME NEW k \in 1 .. n, Ahead(problem, Stream.clues, frames[k], bag)
        PROVE  Before(b, bag)
    <2>1. CASE k = n
      <3>1. Ahead(problem, Stream.clues, top, bag)
        BY <1>4, <1>9, <2>1
      <3>2. bag = b
        BY <1>1, <1>2, <1>3, <1>4, <3>1, CompleteBranchHasOne
      <3>3. QED
        BY <1>3, <3>2
    <2>2. CASE k # n
      <3>1. PICK f, few, l, r : /\ f = frames[k] /\ few = f.chosen /\ l = Len(few)
                                /\ r = RestOf(bag, l)
        OBVIOUS
      <3>2. f \in Frames(problem) /\ FrameInv(problem, Stream, f)
        BY <1>2, <1>3, <1>4, <3>1 DEF StreamInv
      <3>3. f.left \in Nat /\ f.next \in Nat /\ l \in Nat
        <4>1. f.left \in Nat /\ f.next \in Nat /\ few \in Seq(DOMAIN problem.words)
          BY <3>1, <3>2 DEF Frames
        <4>2. QED
          BY <3>1, <4>1
      <3>4. l + f.left = m
        BY <1>6, <3>1, <3>2 DEF FrameInv
      <3>5. l < m /\ b[l + 1] = f.next - 1 /\ \A j \in 1 .. l : b[j] = few[j]
        <4>1. k \in 1 .. n - 1 /\ n \in 1 .. n
          BY <1>4, <2>2
        <4>2. Extends(f, top)
          BY <1>3, <1>4, <3>1, <4>1 DEF LineInv
        <4>3. top.chosen = b
          BY <1>3
        <4>4. QED
          BY <1>3, <3>1, <4>2, <4>3 DEF Extends
      <3>6. /\ Len(bag) = l + f.left /\ \A j \in 1 .. l : bag[j] = few[j]
            /\ r \in Completions(problem, Stream.clues, f, f.next)
        BY <1>9, <3>1 DEF Ahead
      <3>7. r[1] >= f.next
        <4>1. 1 \in 1 .. f.left
          BY <1>5, <3>3, <3>4, <3>5
        <4>2. QED
          BY <3>6, <4>1 DEF Completions, WordLists, InOrder
      <3>8. r[1] = bag[l + 1]
        <4>1. 1 \in 1 .. Len(bag) - l
          BY <1>5, <3>3, <3>4, <3>5, <3>6
        <4>2. QED
          BY <3>1, <4>1 DEF RestOf
      <3>9. /\ l + 1 \in DOMAIN b /\ b[l + 1] < bag[l + 1] /\ Len(b) = Len(bag)
        <4>1. l + 1 \in 1 .. m /\ l + 1 \in 1 .. Len(bag)
          BY <1>5, <3>3, <3>4, <3>5, <3>6
        <4>2. bag[l + 1] \in Nat
          BY <1>7, <4>1
        <4>3. QED
          BY <1>3, <1>5, <3>3, <3>4, <3>5, <3>6, <3>7, <3>8, <4>1, <4>2
      <3>10. \A j \in 1 .. (l + 1) - 1 : b[j] = bag[j]
        BY <3>3, <3>5, <3>6
      <3>11. QED
        BY <3>9, <3>10 DEF Before
    <2>3. QED
      BY <2>1, <2>2
  <1>10. \/ Len(bag) \in Stream.count .. Stream.max
         \/ \E k \in 1 .. n : Ahead(problem, Stream.clues, frames[k], bag)
    BY <1>3, <1>4 DEF Pending
  <1>11. QED
    BY <1>3, <1>8, <1>9, <1>10

\* What a sequence is with one more at its end.
LEMMA AppendFacts ==
  ASSUME NEW S, NEW s \in Seq(S), NEW e \in S, NEW new, new = Append(s, e)
  PROVE  /\ new \in Seq(S) /\ Len(s) \in Nat /\ Len(new) = Len(s) + 1
         /\ DOMAIN new = 1 .. Len(s) + 1 /\ DOMAIN s = 1 .. Len(s)
         /\ new[Len(s) + 1] = e /\ \A k \in 1 .. Len(s) : new[k] = s[k]
  OBVIOUS

\* The turns that find nothing new keep the order.
LEMMA OrderGoesOn ==
  ASSUME SearchInv, OrderInv, HeadTurn
  PROVE  OrderInv'
  <1>1. PICK t : HeadStep(t)
    BY HeadTurns
  <1>2. PICK new : new = streams'
    OBVIOUS
  <1>3. streams # <<>>
    BY HeadTurns
  <1>4. /\ streams \in Seq(Streams(problem)) /\ Len(streams) \in Nat \ {0}
        /\ DOMAIN streams = 1 .. Len(streams)
    BY <1>3, HeadFacts DEF SearchInv
  <1>5. new = [streams EXCEPT ![1] = t] /\ (LineInv(Stream) => LineInv(t))
    BY <1>1, <1>2 DEF HeadStep
  <1>6. /\ Len(new) = Len(streams) /\ DOMAIN new = 1 .. Len(streams)
        /\ new[1] = t /\ \A i \in 1 .. Len(streams) : i # 1 => new[i] = streams[i]
    BY <1>4, <1>5
  <1>7. \A i \in DOMAIN new : LineInv(new[i])
    <2>1. 1 \in DOMAIN streams /\ \A i \in DOMAIN streams : LineInv(streams[i])
      BY <1>4 DEF OrderInv
    <2>2. LineInv(t)
      BY <1>5, <2>1 DEF Stream
    <2>3. QED
      BY <1>4, <1>6, <2>1, <2>2
  <1>8. problem' = problem /\ bags' = bags /\ stop' = stop
    BY <1>1 DEF HeadStep
  <1>9. Solutions' = Solutions
    BY <1>8 DEF Solutions
  <1>10. QED
    BY <1>2, <1>6, <1>7, <1>8, <1>9 DEF OrderInv

\* A bag that is kept comes after those found before, and before those to come.
LEMMA OrderOfKept ==
  ASSUME SearchInv, OrderInv, Keep
  PROVE  OrderInv'
  <1>1. Yields /\ Top.chosen \notin ToSet(bags)
    BY DEF Keep, Seen
  <1>2. PICK t, others, bag : t = Produced /\ others = Tail(streams) /\ bag = Top.chosen
    OBVIOUS
  <1>3. PICK new, kept : new = Append(others, t) /\ kept = Append(bags, bag)
    OBVIOUS
  <1>4. /\ streams # <<>> /\ stop = "running" /\ bag \in Solutions
        /\ bag \in Seq(DOMAIN problem.words)
        /\ t \in Streams(problem) /\ (LineInv(Stream) => LineInv(t))
    BY <1>1, <1>2, YieldFacts
  <1>5. /\ streams \in Seq(Streams(problem)) /\ bags \in Seq(Seq(DOMAIN problem.words))
        /\ \A b \in Solutions :
             b \in ToSet(bags) \/ \E i \in DOMAIN streams : Pending(problem, streams[i], b)
    BY <1>4 DEF SearchInv
  <1>6. /\ others \in Seq(Streams(problem)) /\ Len(streams) \in Nat \ {0}
        /\ Len(others) = Len(streams) - 1
        /\ DOMAIN others = 1 .. Len(streams) - 1 /\ DOMAIN streams = 1 .. Len(streams)
        /\ \A k \in 1 .. Len(streams) - 1 :
             k + 1 \in 1 .. Len(streams) /\ others[k] = streams[k + 1]
    BY <1>2, <1>4, <1>5, TailFacts
  <1>7. /\ Len(new) = Len(others) + 1 /\ DOMAIN new = 1 .. Len(others) + 1
        /\ new[Len(others) + 1] = t /\ \A k \in 1 .. Len(others) : new[k] = others[k]
    BY <1>3, <1>4, <1>6, AppendFacts
  <1>8. /\ Len(bags) \in Nat /\ DOMAIN kept = 1 .. Len(bags) + 1 /\ DOMAIN bags = 1 .. Len(bags)
        /\ kept[Len(bags) + 1] = bag /\ \A k \in 1 .. Len(bags) : kept[k] = bags[k]
        /\ ToSet(kept) = ToSet(bags) \cup {bag}
    <2>1. PICK S, all : S = Seq(DOMAIN problem.words) /\ all = bags
      OBVIOUS
    <2>2. all \in Seq(S) /\ bag \in S /\ kept = Append(all, bag)
      BY <1>3, <1>4, <1>5, <2>1
    <2>3. /\ Len(all) \in Nat /\ DOMAIN kept = 1 .. Len(all) + 1 /\ DOMAIN all = 1 .. Len(all)
          /\ kept[Len(all) + 1] = bag /\ \A k \in 1 .. Len(all) : kept[k] = all[k]
      BY <2>2, AppendFacts
    <2>4. \A k \in DOMAIN kept : k = Len(all) + 1 \/ k \in DOMAIN all
      BY <2>3
    <2>5. Len(all) + 1 \in DOMAIN kept /\ \A k \in DOMAIN all : k \in DOMAIN kept
      BY <2>3
    <2>6. ToSet(kept) = ToSet(all) \cup {bag}
      BY <2>3, <2>4, <2>5 DEF ToSet
    <2>7. QED
      BY <2>1, <2>3, <2>6
  <1>9. \A i \in DOMAIN new : LineInv(new[i])
    <2>1. \A i \in DOMAIN streams : LineInv(streams[i])
      BY DEF OrderInv
    <2>2. 1 \in DOMAIN streams
      BY <1>6
    <2>3. LineInv(t)
      BY <1>4, <2>1, <2>2 DEF Stream
    <2>4. \A k \in 1 .. Len(others) : LineInv(others[k])
      BY <1>6, <2>1
    <2>5. \A k \in DOMAIN new : k = Len(others) + 1 \/ k \in 1 .. Len(others)
      BY <1>6, <1>7
    <2>6. QED
      BY <1>7, <2>3, <2>4, <2>5
  <1>10. streams' = new /\ bags' = kept /\ problem' = problem
    BY <1>2, <1>3 DEF Keep, NextInTurn
  <1>11. Solutions' = Solutions
    BY <1>10 DEF Solutions
  <1>12. ASSUME ~problem.diverse
         PROVE  /\ Len(new) <= 1
                /\ \A j \in DOMAIN kept : \A i \in 1 .. j - 1 : Before(kept[i], kept[j])
                /\ \A b \in Solutions \ ToSet(kept) : \A i \in DOMAIN kept : Before(kept[i], b)
    <2>1. /\ Len(streams) <= 1
          /\ \A j \in DOMAIN bags : \A i \in 1 .. j - 1 : Before(bags[i], bags[j])
          /\ \A b \in Solutions \ ToSet(bags) : \A i \in DOMAIN bags : Before(bags[i], b)
      BY <1>12 DEF OrderInv
    <2>2. Len(new) <= 1
      BY <1>6, <1>7, <2>1
    <2>3. ASSUME NEW j \in DOMAIN kept, NEW i \in 1 .. j - 1 PROVE Before(kept[i], kept[j])
      <3>1. i \in 1 .. Len(bags) /\ (j = Len(bags) + 1 \/ j \in 1 .. Len(bags))
        BY <1>8
      <3>2. CASE j \in 1 .. Len(bags)
        BY <1>8, <2>1, <3>1, <3>2
      <3>3. CASE j = Len(bags) + 1
        <4>1. bag \in Solutions \ ToSet(bags)
          BY <1>1, <1>2, <1>4
        <4>2. Before(bags[i], bag)
          BY <1>8, <2>1, <3>1, <4>1
        <4>3. QED
          BY <1>8, <3>1, <3>3, <4>2
      <3>4. QED
        BY <3>1, <3>2, <3>3
    <2>4. ASSUME NEW b \in Solutions \ ToSet(kept), NEW i \in DOMAIN kept
          PROVE  Before(kept[i], b)
      <3>1. b \in Solutions \ ToSet(bags) /\ b # bag
        BY <1>8
      <3>2. i = Len(bags) + 1 \/ i \in 1 .. Len(bags)
        BY <1>8
      <3>3. CASE i \in 1 .. Len(bags)
        BY <1>8, <2>1, <3>1, <3>3
      <3>4. CASE i = Len(bags) + 1
        <4>1. PICK k \in DOMAIN streams : Pending(problem, streams[k], b)
          BY <1>5, <3>1
        <4>2. k = 1 /\ LineInv(streams[k])
          BY <1>6, <2>1 DEF OrderInv
        <4>3. Before(Top.chosen, b)
          BY <1>1, <1>2, <3>1, <4>1, <4>2, NextIsFirst DEF Stream
        <4>4. QED
          BY <1>2, <1>8, <3>4, <4>3
      <3>5. QED
        BY <3>2, <3>3, <3>4
    <2>5. QED
      BY <2>2, <2>3, <2>4
  <1>13. QED
    BY <1>9, <1>10, <1>11, <1>12 DEF OrderInv

\* Every step keeps the order.
LEMMA OrderKeeps ==
  ASSUME SearchInv, OrderInv, [Next]_vars
  PROVE  OrderInv'
  <1>1. ASSUME NEW new, streams' = new, problem' = problem, bags' = bags,
               Len(new) <= 1 \/ Len(new) <= Len(streams), Len(new) \in Nat, Len(streams) \in Nat,
               \A i \in DOMAIN new : LineInv(new[i])
        PROVE  OrderInv'
    <2>1. Solutions' = Solutions
      BY <1>1 DEF Solutions
    <2>2. Len(streams) <= 1 => Len(new) <= 1
      BY <1>1
    <2>3. QED
      BY <1>1, <2>1, <2>2 DEF OrderInv
  <1>2. /\ streams \in Seq(Streams(problem)) /\ Len(streams) \in Nat
        /\ \A i \in DOMAIN streams : LineInv(streams[i])
    BY DEF SearchInv, OrderInv
  <1>3. CASE streams' = streams /\ problem' = problem /\ bags' = bags
    BY <1>1, <1>2, <1>3
  <1>4. CASE streams' = <<>> /\ problem' = problem /\ bags' = bags
    <2>1. Len(<<>>) = 0 /\ DOMAIN <<>> = {}
      OBVIOUS
    <2>2. QED
      BY <1>1, <1>2, <1>4, <2>1
  <1>5. CASE StreamEnds
    <2>1. streams # <<>> /\ streams' = Tail(streams) /\ problem' = problem /\ bags' = bags
      BY <1>5 DEF StreamEnds
    <2>2. PICK others : others = Tail(streams)
      OBVIOUS
    <2>3. /\ Len(streams) \in Nat \ {0} /\ Len(others) = Len(streams) - 1
          /\ DOMAIN others = 1 .. Len(streams) - 1 /\ DOMAIN streams = 1 .. Len(streams)
          /\ \A k \in 1 .. Len(streams) - 1 :
               k + 1 \in 1 .. Len(streams) /\ others[k] = streams[k + 1]
      BY <1>2, <2>1, <2>2, TailFacts
    <2>4. \A i \in DOMAIN others : LineInv(others[i])
      BY <1>2, <2>3
    <2>5. Len(others) \in Nat /\ Len(others) <= Len(streams)
      BY <2>3
    <2>6. QED
      BY <1>1, <1>2, <2>1, <2>2, <2>4, <2>5
  <1>6. HeadTurn \/ Keep \/ Cap \/ StreamEnds \/ Exhaust \/ Interrupt \/ UNCHANGED vars
    BY DEF Next, Search, HeadTurn
  <1>7. (Cap \/ Interrupt) => streams' = <<>> /\ problem' = problem /\ bags' = bags
    BY DEF Cap, Interrupt
  <1>8. (Exhaust \/ UNCHANGED vars) => streams' = streams /\ problem' = problem /\ bags' = bags
    BY DEF Exhaust, vars
  <1>9. QED
    BY <1>3, <1>4, <1>5, <1>6, <1>7, <1>8, OrderGoesOn, OrderOfKept

\* Nothing is found and nothing chosen yet, and a search for a prefix has one
\* stream.
LEMMA OrderStarts ==
  ASSUME Init
  PROVE  OrderInv
  <1>1. problem \in Problems /\ streams = StreamsOf(problem) /\ bags = <<>>
    BY DEF Init
  <1>2. \A i \in DOMAIN streams : streams[i].frames = <<>>
    <2>1. \A clues, low, high : NewStream(clues, low, high).frames = <<>>
      BY DEF NewStream
    <2>2. CASE ~problem.diverse \/ problem.budget = 0
      <3>1. streams = <<NewStream(problem.clues, problem.min, High(problem))>>
        BY <1>1, <2>2 DEF StreamsOf
      <3>2. QED
        BY <2>1, <3>1
    <2>3. CASE ~(~problem.diverse \/ problem.budget = 0)
      BY <1>1, <2>1, <2>3 DEF StreamsOf
    <2>4. QED
      BY <2>2, <2>3
  <1>3. \A i \in DOMAIN streams : LineInv(streams[i])
    <2>1. DOMAIN <<>> = {}
      OBVIOUS
    <2>2. QED
      BY <1>2, <2>1 DEF LineInv
  <1>4. ~problem.diverse => Len(streams) <= 1
    BY <1>1 DEF StreamsOf
  <1>5. DOMAIN bags = {}
    BY <1>1
  <1>6. QED
    BY <1>3, <1>4, <1>5 DEF OrderInv

\* Where the bags are in order, and the solutions not found come after them,
\* there is no gap.
LEMMA OrderHasNoGap ==
  ASSUME SearchInv, OrderInv
  PROVE  PrefixHasNoGap
  <1>1. SUFFICES ASSUME ~problem.diverse, NEW i \in DOMAIN bags, NEW bag \in Solutions
                 PROVE  Before(bag, bags[i]) <=> \E j \in 1 .. i - 1 : bags[j] = bag
    BY DEF PrefixHasNoGap
  <1>2. /\ problem \in Problems /\ bags \in Seq(Seq(DOMAIN problem.words))
        /\ \A k \in DOMAIN bags : bags[k] \in Solutions
    BY DEF SearchInv, StopIsTruthful, ToSet
  <1>3. /\ \A j \in DOMAIN bags : \A k \in 1 .. j - 1 : Before(bags[k], bags[j])
        /\ \A b \in Solutions \ ToSet(bags) : \A k \in DOMAIN bags : Before(bags[k], b)
    BY <1>1 DEF OrderInv
  <1>4. DOMAIN bags = 1 .. Len(bags) /\ Len(bags) \in Nat
    BY <1>2
  <1>5. Solutions = SolutionsOf(problem)
    BY <1>2 DEF Solutions, Reference
  <1>6. bag \in Seq(Nat) /\ bags[i] \in Seq(Nat)
    BY <1>2, <1>5, SolutionsAreLists
  <1>7. ASSUME Before(bag, bags[i])
        PROVE  \E j \in 1 .. i - 1 : bags[j] = bag
    <2>1. ~Before(bags[i], bag)
      BY <1>6, <1>7, BeforeIsAsymmetric
    <2>2. bag \in ToSet(bags)
      BY <1>3, <2>1
    <2>3. PICK j \in DOMAIN bags : bags[j] = bag
      BY <2>2 DEF ToSet
    <2>4. j # i
      BY <1>7, <2>1, <2>3
    <2>5. ~(i < j)
      <3>1. SUFFICES ASSUME i < j PROVE FALSE
        OBVIOUS
      <3>2. i \in 1 .. j - 1
        BY <1>4, <3>1
      <3>3. QED
        BY <1>3, <2>1, <2>3, <3>2
    <2>6. j \in 1 .. i - 1
      BY <1>4, <2>4, <2>5
    <2>7. QED
      BY <2>3, <2>6
  <1>8. QED
    BY <1>3, <1>7

-----------------------------------------------------------------------------
(* The first round of a diverse search *)

\* What is served stays served.
LEMMA ServedStays ==
  ASSUME problem' = problem, NEW kept, bags' = kept, ToSet(bags) \subseteq ToSet(kept),
         NEW stratum, Served(stratum)
  PROVE  Served(stratum)'
  <1>1. Solutions' = Solutions
    BY DEF Solutions
  <1>2. QED
    BY <1>1 DEF Served

\* A stream that waits for its turn goes on waiting.
LEMMA WaitsStays ==
  ASSUME problem' = problem, NEW kept, bags' = kept, ToSet(bags) \subseteq ToSet(kept),
         NEW stratum, NEW s, Waits(stratum, s)
  PROVE  Waits(stratum, s)'
  <1>1. Solutions' = Solutions
    BY DEF Solutions
  <1>2. QED
    BY <1>1 DEF Waits

\* The first round as it is after a step.
LEMMA RoundAfter ==
  ASSUME problem' = problem, NEW kept, bags' = kept, ToSet(bags) \subseteq ToSet(kept),
         NEW new, streams' = new, NEW all, NEW done,
         \A i \in 1 .. done : Served(all[i])',
         Len(all) - done <= Len(new), done < Len(all) => Len(kept) <= done,
         \A k \in 1 .. Len(all) - done : Waits(all[done + k], new[k])'
  PROVE  FirstRound(all, done)'
  BY DEF FirstRound

\* The turns that find nothing new.
LEMMA RoundGoesOn ==
  ASSUME SearchInv, HeadTurn, NEW all \in Seq(Streams(problem)), NEW done \in 0 .. Len(all),
         FirstRound(all, done)
  PROVE  FirstRound(all, done)'
  <1>1. PICK t : HeadStep(t)
    BY HeadTurns
  <1>2. PICK new, kept : new = streams' /\ kept = bags
    OBVIOUS
  <1>3. streams # <<>>
    BY HeadTurns
  <1>4. /\ streams \in Seq(Streams(problem)) /\ Len(streams) \in Nat \ {0}
        /\ DOMAIN streams = 1 .. Len(streams) /\ Stream \in Streams(problem)
    BY <1>3, HeadFacts DEF SearchInv
  <1>5. /\ new = [streams EXCEPT ![1] = t] /\ problem' = problem /\ bags' = kept
        /\ t \in Streams(problem)
        /\ t.clues = Stream.clues /\ t.max = Stream.max /\ Stream.count <= t.count
        /\ Stream.frames = <<>> => Stream.count < t.count
        /\ \A bag \in Solutions :
             Pending(problem, Stream, bag) => Pending(problem, t, bag) \/ bag \in ToSet(bags)
    BY <1>1, <1>2 DEF HeadStep
  <1>6. /\ Len(new) = Len(streams)
        /\ new[1] = t /\ \A i \in 1 .. Len(streams) : i # 1 => new[i] = streams[i]
    BY <1>4, <1>5
  <1>7. PICK n : n = Len(all)
    OBVIOUS
  <1>8. n \in Nat /\ done \in Nat /\ done <= n /\ DOMAIN all = 1 .. n
    BY <1>7
  <1>9. /\ \A i \in 1 .. done : Served(all[i])
        /\ n - done <= Len(streams) /\ (done < n => Len(bags) <= done)
        /\ \A k \in 1 .. n - done : Waits(all[done + k], streams[k])
    BY <1>7 DEF FirstRound
  <1>10. ToSet(bags) \subseteq ToSet(kept)
    BY <1>2
  <1>11. ASSUME NEW k \in 1 .. n - done PROVE Waits(all[done + k], new[k])'
    <2>1. PICK stratum : stratum = all[done + k]
      OBVIOUS
    <2>2. k \in 1 .. Len(streams) /\ done + k \in 1 .. n
      BY <1>4, <1>8, <1>9, <1>11
    <2>3. CASE k # 1
      <3>1. Waits(stratum, streams[k])
        BY <1>9, <2>1
      <3>2. PICK s : s = streams[k]
        OBVIOUS
      <3>3. Waits(stratum, s)'
        BY <1>5, <1>10, <3>1, <3>2, WaitsStays
      <3>4. QED
        BY <1>6, <2>1, <2>2, <2>3, <3>2, <3>3
    <2>4. CASE k = 1
      <3>1. Waits(stratum, Stream)
        BY <1>9, <2>1, <2>4 DEF Stream
      <3>2. stratum \in Streams(problem)
        BY <1>8, <2>1, <2>2
      <3>3. stratum.count \in Nat /\ Stream.count \in Nat /\ t.count \in Nat
        BY <1>4, <1>5, <3>2 DEF Streams
      <3>4. /\ t.clues = stratum.clues /\ t.max = stratum.count /\ stratum.count <= t.count
            /\ t.frames # <<>> => stratum.count < t.count
        BY <1>5, <3>1, <3>3 DEF Waits
      <3>5. \A bag \in Solutions :
              InStratum(problem, stratum, bag) => Pending(problem, t, bag) \/ bag \in ToSet(bags)
        BY <1>5, <3>1 DEF Waits
      <3>6. Waits(stratum, t)
        BY <3>4, <3>5 DEF Waits
      <3>7. Waits(stratum, t)'
        BY <1>5, <1>10, <3>6, WaitsStays
      <3>8. QED
        BY <1>6, <2>1, <2>4, <3>7
    <2>5. QED
      BY <2>3, <2>4
  <1>12. \A i \in 1 .. done : Served(all[i])'
    BY <1>5, <1>9, <1>10, ServedStays
  <1>13. QED
    BY <1>2, <1>5, <1>6, <1>7, <1>9, <1>10, <1>11, <1>12, RoundAfter

\* The bag that a stream comes to in the first round is one of its stratum.
LEMMA NextIsInStratum ==
  ASSUME SearchInv, Yields, NEW stratum \in Streams(problem), Waits(stratum, Stream)
  PROVE  InStratum(problem, stratum, Top.chosen)
  <1>1. InFrame /\ Top.left = 0 /\ IsBag
    BY DEF Yields
  <1>2. /\ problem \in Problems /\ Stream \in Streams(problem) /\ StreamInv(problem, Stream)
        /\ Stream.frames # <<>>
    BY <1>1, HeadFacts DEF InFrame
  <1>3. Top \in Frames(problem) /\ FrameInv(problem, Stream, Top)
    BY <1>1, TopFacts
  <1>4. PICK b, n : b = Top.chosen /\ n = Len(b)
    OBVIOUS
  <1>5. n \in Nat
    <2>1. b \in Seq(DOMAIN problem.words)
      BY <1>3, <1>4 DEF Frames
    <2>2. QED
      BY <1>4, <2>1
  <1>6. n = Stream.count - 1
    BY <1>1, <1>3, <1>4, <1>5 DEF FrameInv
  <1>7. /\ Stream.count \in Nat /\ Stream.max \in Nat /\ stratum.count \in Nat
        /\ problem.min \in Nat
    BY <1>2, Shape DEF Streams
  <1>8. Stream.count - 1 \in problem.min .. Stream.max
    BY <1>2 DEF StreamInv
  <1>9. stratum.count < Stream.count /\ Stream.max = stratum.count /\ Stream.clues = stratum.clues
    BY <1>2 DEF Waits
  <1>10. n = stratum.count
    BY <1>6, <1>7, <1>8, <1>9
  <1>11. Allowed(problem, Stream.clues, Top.matched)
    BY <1>1, <1>2, CluesMetIsAllowed DEF IsBag
  <1>12. Top.matched = (problem.initial \cup ToSet(b)) \cap Stream.clues
    BY <1>3, <1>4 DEF FrameInv
  <1>13. QED
    BY <1>4, <1>9, <1>10, <1>11, <1>12 DEF InStratum

\* A bag that is kept ends the turn of its stratum.
LEMMA RoundOfKept ==
  ASSUME SearchInv, Keep, NEW all \in Seq(Streams(problem)), NEW done \in 0 .. Len(all),
         FirstRound(all, done)
  PROVE  \E d \in 0 .. Len(all) : FirstRound(all, d)'
  <1>1. Yields /\ Top.chosen \notin ToSet(bags)
    BY DEF Keep, Seen
  <1>2. PICK t, others, bag : t = Produced /\ others = Tail(streams) /\ bag = Top.chosen
    OBVIOUS
  <1>3. PICK new, kept : new = Append(others, t) /\ kept = Append(bags, bag)
    OBVIOUS
  <1>4. /\ streams # <<>> /\ bag \in Solutions /\ bag \in Seq(DOMAIN problem.words)
        /\ t \in Streams(problem) /\ Stream \in Streams(problem)
    BY <1>1, <1>2, YieldFacts
  <1>5. streams \in Seq(Streams(problem)) /\ bags \in Seq(Seq(DOMAIN problem.words))
    BY DEF SearchInv
  <1>6. /\ others \in Seq(Streams(problem)) /\ Len(streams) \in Nat \ {0}
        /\ Len(others) = Len(streams) - 1
        /\ \A k \in 1 .. Len(streams) - 1 :
             k + 1 \in 1 .. Len(streams) /\ others[k] = streams[k + 1]
    BY <1>2, <1>4, <1>5, TailFacts
  <1>7. Len(new) = Len(streams) /\ \A k \in 1 .. Len(streams) - 1 : new[k] = streams[k + 1]
    <2>1. Len(new) = Len(others) + 1 /\ \A k \in 1 .. Len(others) : new[k] = others[k]
      BY <1>3, <1>4, <1>6, AppendFacts
    <2>2. QED
      BY <1>6, <2>1
  <1>8. /\ Len(bags) \in Nat /\ Len(kept) = Len(bags) + 1
        /\ ToSet(bags) \subseteq ToSet(kept) /\ bag \in ToSet(kept)
    <2>1. PICK S, old : S = Seq(DOMAIN problem.words) /\ old = bags
      OBVIOUS
    <2>2. old \in Seq(S) /\ bag \in S /\ kept = Append(old, bag)
      BY <1>3, <1>4, <1>5, <2>1
    <2>3. /\ Len(old) \in Nat /\ Len(kept) = Len(old) + 1
          /\ DOMAIN kept = 1 .. Len(old) + 1 /\ DOMAIN old = 1 .. Len(old)
          /\ kept[Len(old) + 1] = bag /\ \A k \in 1 .. Len(old) : kept[k] = old[k]
      BY <2>2, AppendFacts
    <2>4. Len(old) + 1 \in DOMAIN kept /\ \A k \in DOMAIN old : k \in DOMAIN kept
      BY <2>3
    <2>5. ToSet(old) \subseteq ToSet(kept) /\ bag \in ToSet(kept)
      BY <2>3, <2>4 DEF ToSet
    <2>6. QED
      BY <2>1, <2>3, <2>5
  <1>9. streams' = new /\ bags' = kept /\ problem' = problem
    BY <1>2, <1>3 DEF Keep, NextInTurn
  <1>10. PICK n : n = Len(all)
    OBVIOUS
  <1>11. n \in Nat /\ done \in Nat /\ done <= n /\ DOMAIN all = 1 .. n
    BY <1>10
  <1>12. /\ \A i \in 1 .. done : Served(all[i])
         /\ n - done <= Len(streams) /\ (done < n => Len(bags) <= done)
         /\ \A k \in 1 .. n - done : Waits(all[done + k], streams[k])
    BY <1>10 DEF FirstRound
  <1>13. \A i \in 1 .. done : Served(all[i])'
    BY <1>8, <1>9, <1>12, ServedStays
  <1>14. CASE done = n
    <2>1. n - done = 0 /\ 1 .. n - done = {} /\ ~(done < n)
      BY <1>11, <1>14
    <2>2. n - done <= Len(new)
      BY <1>6, <1>7, <2>1
    <2>3. FirstRound(all, done)'
      BY <1>8, <1>9, <1>10, <1>13, <2>1, <2>2, RoundAfter
    <2>4. QED
      BY <2>3
  <1>15. CASE done < n
    <2>1. PICK d, stratum : d = done + 1 /\ stratum = all[d]
      OBVIOUS
    <2>2. d \in 0 .. n /\ d \in 1 .. n /\ 1 \in 1 .. n - done /\ d \in Nat
      BY <1>11, <1>15, <2>1
    <2>3. Waits(stratum, Stream)
      BY <1>12, <2>1, <2>2 DEF Stream
    <2>4. stratum \in Streams(problem)
      BY <1>11, <2>1, <2>2
    <2>5. InStratum(problem, stratum, bag)
      BY <1>1, <1>2, <2>3, <2>4, NextIsInStratum
    <2>6. Served(stratum)'
      BY <1>8, <1>9, <2>5 DEF Served
    <2>7. \A i \in 1 .. d : Served(all[i])'
      <3>1. \A i \in 1 .. d : i = d \/ i \in 1 .. done
        BY <1>11, <2>1
      <3>2. QED
        BY <1>13, <2>1, <2>6, <3>1
    <2>8. n - d <= Len(new) /\ (d < n => Len(kept) <= d)
      BY <1>6, <1>7, <1>8, <1>11, <1>12, <1>15, <2>1, <2>2
    <2>9. ASSUME NEW k \in 1 .. n - d PROVE Waits(all[d + k], new[k])'
      <3>1. /\ k + 1 \in 1 .. n - done /\ done + (k + 1) = d + k
            /\ k \in 1 .. Len(streams) - 1
        BY <1>6, <1>11, <1>12, <2>1, <2>2
      <3>2. PICK s, waiting : s = streams[k + 1] /\ waiting = all[d + k]
        OBVIOUS
      <3>3. Waits(waiting, s)
        BY <1>12, <3>1, <3>2
      <3>4. Waits(waiting, s)'
        BY <1>8, <1>9, <3>3, WaitsStays
      <3>5. QED
        BY <1>7, <3>1, <3>2, <3>4
    <2>10. FirstRound(all, d)'
      BY <1>8, <1>9, <1>10, <2>7, <2>8, <2>9, RoundAfter
    <2>11. QED
      BY <1>10, <2>2, <2>10
  <1>16. QED
    BY <1>11, <1>14, <1>15

\* A stream that ends in its first turn has found every bag of its stratum found.
LEMMA RoundOfEnded ==
  ASSUME SearchInv, StreamEnds, NEW all \in Seq(Streams(problem)), NEW done \in 0 .. Len(all),
         FirstRound(all, done)
  PROVE  \E d \in 0 .. Len(all) : FirstRound(all, d)'
  <1>1. /\ streams # <<>> /\ Stream.frames = <<>> /\ Stream.count > Stream.max
        /\ streams' = Tail(streams) /\ problem' = problem /\ bags' = bags
    BY DEF StreamEnds
  <1>2. PICK new, kept : new = Tail(streams) /\ kept = bags
    OBVIOUS
  <1>3. /\ streams \in Seq(Streams(problem)) /\ bags \in Seq(Seq(DOMAIN problem.words))
        /\ Stream \in Streams(problem)
    BY <1>1, HeadFacts DEF SearchInv
  <1>4. /\ Len(streams) \in Nat \ {0} /\ Len(new) = Len(streams) - 1
        /\ \A k \in 1 .. Len(streams) - 1 :
             k + 1 \in 1 .. Len(streams) /\ new[k] = streams[k + 1]
    BY <1>1, <1>2, <1>3, TailFacts
  <1>5. Len(bags) \in Nat
    BY <1>3
  <1>6. streams' = new /\ bags' = kept /\ problem' = problem /\ ToSet(bags) \subseteq ToSet(kept)
    BY <1>1, <1>2
  <1>7. PICK n : n = Len(all)
    OBVIOUS
  <1>8. n \in Nat /\ done \in Nat /\ done <= n /\ DOMAIN all = 1 .. n
    BY <1>7
  <1>9. /\ \A i \in 1 .. done : Served(all[i])
        /\ n - done <= Len(streams) /\ (done < n => Len(bags) <= done)
        /\ \A k \in 1 .. n - done : Waits(all[done + k], streams[k])
    BY <1>7 DEF FirstRound
  <1>10. \A i \in 1 .. done : Served(all[i])'
    BY <1>6, <1>9, ServedStays
  <1>11. CASE done = n
    <2>1. n - done = 0 /\ 1 .. n - done = {} /\ ~(done < n)
      BY <1>8, <1>11
    <2>2. n - done <= Len(new)
      BY <1>4, <2>1
    <2>3. FirstRound(all, done)'
      BY <1>6, <1>7, <1>10, <2>1, <2>2, RoundAfter
    <2>4. QED
      BY <2>3
  <1>12. CASE done < n
    <2>1. PICK d, stratum : d = done + 1 /\ stratum = all[d]
      OBVIOUS
    <2>2. d \in 0 .. n /\ d \in 1 .. n /\ 1 \in 1 .. n - done /\ d \in Nat
      BY <1>8, <1>12, <2>1
    <2>3. Waits(stratum, Stream)
      BY <1>9, <2>1, <2>2 DEF Stream
    <2>4. \A bag : ~Pending(problem, Stream, bag)
      <3>1. DOMAIN Stream.frames = {}
        BY <1>1
      <3>2. Stream.count \in Nat /\ Stream.max \in Nat
        BY <1>3 DEF Streams
      <3>3. Stream.count .. Stream.max = {}
        BY <1>1, <3>2
      <3>4. QED
        BY <3>1, <3>3 DEF Pending
    <2>5. Served(stratum)
      BY <2>3, <2>4 DEF Waits, Served
    <2>6. Served(stratum)'
      BY <1>6, <2>5, ServedStays
    <2>7. \A i \in 1 .. d : Served(all[i])'
      <3>1. \A i \in 1 .. d : i = d \/ i \in 1 .. done
        BY <1>8, <2>1
      <3>2. QED
        BY <1>10, <2>1, <2>6, <3>1
    <2>8. n - d <= Len(new) /\ (d < n => Len(kept) <= d)
      BY <1>2, <1>4, <1>5, <1>8, <1>9, <1>12, <2>1, <2>2
    <2>9. ASSUME NEW k \in 1 .. n - d PROVE Waits(all[d + k], new[k])'
      <3>1. /\ k + 1 \in 1 .. n - done /\ done + (k + 1) = d + k
            /\ k \in 1 .. Len(streams) - 1
        <4>1. PICK l : l = Len(streams)
          OBVIOUS
        <4>2. l \in Nat /\ n - done <= l /\ d = done + 1
          BY <1>4, <1>9, <2>1, <4>1
        <4>3. /\ k + 1 \in 1 .. n - done /\ done + (k + 1) = d + k
              /\ k \in 1 .. l - 1
          BY <1>8, <2>2, <4>2
        <4>4. QED
          BY <4>1, <4>3
      <3>2. PICK s, waiting : s = streams[k + 1] /\ waiting = all[d + k]
        OBVIOUS
      <3>3. Waits(waiting, s)
        BY <1>9, <3>1, <3>2
      <3>4. Waits(waiting, s)'
        BY <1>6, <3>3, WaitsStays
      <3>5. QED
        BY <1>4, <3>1, <3>2, <3>4
    <2>10. FirstRound(all, d)'
      BY <1>6, <1>7, <2>7, <2>8, <2>9, RoundAfter
    <2>11. QED
      BY <1>7, <2>2, <2>10
  <1>13. QED
    BY <1>8, <1>11, <1>12

\* Every step keeps the first round, and a search that ends has ended it.
LEMMA RoundKeeps ==
  ASSUME SearchInv, RoundInv, [Next]_vars
  PROVE  RoundInv'
  <1>1. PICK all : all = StreamsOf(problem)
    OBVIOUS
  <1>2. problem \in Problems /\ all \in Seq(Streams(problem))
    BY <1>1, StreamsStart DEF SearchInv
  <1>3. problem' = problem
    <2>1. HeadTurn => problem' = problem
      BY HeadTurns DEF HeadStep
    <2>2. (Keep \/ Cap \/ StreamEnds \/ Exhaust \/ Interrupt \/ UNCHANGED vars) => problem' = problem
      BY DEF Keep, Cap, StreamEnds, Exhaust, Interrupt, vars
    <2>3. QED
      BY <2>1, <2>2 DEF Next, Search, HeadTurn
  <1>4. all = StreamsOf(problem)'
    BY <1>1, <1>3
  <1>5. CASE ~(problem.diverse /\ problem.budget >= Len(all))
    BY <1>1, <1>3, <1>4, <1>5 DEF RoundInv
  <1>6. CASE problem.diverse /\ problem.budget >= Len(all)
    <2>1. /\ stop = "running" => \E done \in 0 .. Len(all) : FirstRound(all, done)
          /\ stop \in {"exhausted", "candidate_cap"} => \A i \in DOMAIN all : Served(all[i])
      BY <1>1, <1>6 DEF RoundInv
    <2>2. SUFFICES
            /\ stop' = "running" => \E done \in 0 .. Len(all) : FirstRound(all, done)'
            /\ stop' \in {"exhausted", "candidate_cap"} => \A i \in DOMAIN all : Served(all[i])'
      BY <1>4 DEF RoundInv
    <2>3. DOMAIN all = 1 .. Len(all) /\ Len(all) \in Nat
      BY <1>2
    <2>4. CASE UNCHANGED vars
      <3>1. problem' = problem /\ streams' = streams /\ bags' = bags /\ stop' = stop
        BY <2>4 DEF vars
      <3>2. Solutions' = Solutions
        BY <3>1 DEF Solutions
      <3>3. (\A i : Served(all[i])' = Served(all[i])) /\ \A d : FirstRound(all, d)' = FirstRound(all, d)
        BY <3>1, <3>2 DEF FirstRound, Served, Waits
      <3>4. QED
        BY <2>1, <3>1, <3>3
    <2>5. CASE HeadTurn
      <3>1. stop = "running" /\ stop' = stop
        BY <2>5, HeadTurns DEF HeadStep
      <3>2. PICK done \in 0 .. Len(all) : FirstRound(all, done)
        BY <2>1, <3>1
      <3>3. FirstRound(all, done)'
        BY <1>2, <2>5, <3>2, RoundGoesOn
      <3>4. QED
        BY <3>1, <3>3
    <2>6. CASE Keep
      <3>1. stop = "running" /\ stop' = stop
        BY <2>6 DEF Keep, Yields, InFrame
      <3>2. PICK done \in 0 .. Len(all) : FirstRound(all, done)
        BY <2>1, <3>1
      <3>3. \E d \in 0 .. Len(all) : FirstRound(all, d)'
        BY <1>2, <2>6, <3>2, RoundOfKept
      <3>4. QED
        BY <3>1, <3>3
    <2>7. CASE StreamEnds
      <3>1. stop = "running" /\ stop' = stop
        BY <2>7 DEF StreamEnds
      <3>2. PICK done \in 0 .. Len(all) : FirstRound(all, done)
        BY <2>1, <3>1
      <3>3. \E d \in 0 .. Len(all) : FirstRound(all, d)'
        BY <1>2, <2>7, <3>2, RoundOfEnded
      <3>4. QED
        BY <3>1, <3>3
    <2>8. CASE Cap \/ Exhaust
      <3>1. /\ stop = "running" /\ stop' # "running" /\ bags' = bags
            /\ Len(bags) = problem.budget \/ streams = <<>>
        BY <2>8 DEF Cap, CapReached, Exhaust, Yields, InFrame
      <3>2. PICK done \in 0 .. Len(all) : FirstRound(all, done)
        BY <2>1, <3>1
      <3>3. Len(all) - done <= Len(streams) /\ (done < Len(all) => Len(bags) <= done)
        BY <3>2 DEF FirstRound
      <3>4. problem.budget \in Nat
        BY <1>2, Shape
      <3>5. done = Len(all)
        <4>1. PICK n, found, left : n = Len(all) /\ found = Len(bags) /\ left = Len(streams)
          OBVIOUS
        <4>2. /\ n \in Nat /\ done \in 0 .. n /\ problem.budget >= n
              /\ n - done <= left /\ (done < n => found <= done)
          BY <1>6, <2>3, <3>3, <4>1
        <4>3. found = problem.budget \/ left = 0
          BY <3>1, <4>1
        <4>4. found = problem.budget => done = n
          BY <3>4, <4>2
        <4>5. left = 0 => done = n
          BY <4>2
        <4>6. QED
          BY <4>1, <4>3, <4>4, <4>5
      <3>6. \A i \in DOMAIN all : Served(all[i])
        BY <2>3, <3>2, <3>5 DEF FirstRound
      <3>7. PICK kept : kept = bags
        OBVIOUS
      <3>8. bags' = kept /\ ToSet(bags) \subseteq ToSet(kept)
        BY <3>1, <3>7
      <3>9. \A i \in DOMAIN all : Served(all[i])'
        BY <1>3, <3>6, <3>8, ServedStays
      <3>10. QED
        BY <3>1, <3>9
    <2>9. CASE Interrupt
      <3>1. stop' = "interrupted"
        BY <2>9 DEF Interrupt
      <3>2. QED
        BY <3>1
    <2>10. HeadTurn \/ Keep \/ Cap \/ StreamEnds \/ Exhaust \/ Interrupt \/ UNCHANGED vars
      BY DEF Next, Search, HeadTurn
    <2>11. QED
      BY <2>4, <2>5, <2>6, <2>7, <2>8, <2>9, <2>10
  <1>7. QED
    BY <1>5, <1>6

\* Each stream of a diverse search begins with nothing on its stack, and has one
\* word count.
LEMMA StrataStart ==
  ASSUME NEW p \in Problems, p.diverse, p.budget # 0, NEW all, all = StreamsOf(p)
  PROVE  \A i \in DOMAIN all : all[i].frames = <<>> /\ all[i].max = all[i].count
  <1>1. \A clues, count : /\ NewStream(clues, count, count).frames = <<>>
                          /\ NewStream(clues, count, count).max = NewStream(clues, count, count).count
    BY DEF NewStream
  <1>2. QED
    BY <1>1 DEF StreamsOf

\* Before the first turn all strata wait for theirs.
LEMMA RoundStarts ==
  ASSUME Init
  PROVE  RoundInv
  <1>1. PICK all : all = StreamsOf(problem)
    OBVIOUS
  <1>2. problem \in Problems /\ streams = all /\ bags = <<>> /\ stop = "running"
    BY <1>1 DEF Init
  <1>3. all \in Seq(Streams(problem)) /\ problem.budget \in Nat
    BY <1>1, <1>2, StreamsStart, Shape
  <1>4. SUFFICES ASSUME problem.diverse, problem.budget >= Len(all)
                 PROVE  FirstRound(all, 0) /\ 0 \in 0 .. Len(all)
    <2>1. Len(all) \in Nat
      BY <1>3
    <2>2. QED
      BY <1>1, <1>2, <2>1 DEF RoundInv
  <1>5. problem.budget # 0
    <2>1. SUFFICES ASSUME problem.budget = 0 PROVE FALSE
      OBVIOUS
    <2>2. all = <<NewStream(problem.clues, problem.min, High(problem))>>
      BY <1>1, <2>1 DEF StreamsOf
    <2>3. Len(all) = 1
      BY <2>2
    <2>4. QED
      BY <1>4, <2>1, <2>3
  <1>6. Len(all) \in Nat /\ DOMAIN all = 1 .. Len(all) /\ Len(bags) = 0
    BY <1>2, <1>3
  <1>7. ASSUME NEW k \in 1 .. Len(all) PROVE Waits(all[k], all[k])
    <2>1. PICK s : s = all[k]
      OBVIOUS
    <2>2. s \in Streams(problem) /\ s.frames = <<>> /\ s.max = s.count
      BY <1>1, <1>2, <1>3, <1>4, <1>5, <1>6, <2>1, StrataStart
    <2>3. s.count \in Nat
      BY <2>2 DEF Streams
    <2>4. s.count \in s.count .. s.max
      BY <2>2, <2>3
    <2>5. \A bag : InStratum(problem, s, bag) => Pending(problem, s, bag)
      BY <2>4 DEF InStratum, Pending
    <2>6. QED
      BY <2>1, <2>2, <2>3, <2>5 DEF Waits
  <1>8. 1 .. 0 = {} /\ Len(all) - 0 = Len(all) /\ \A k \in 1 .. Len(all) : 0 + k = k
    BY <1>6
  <1>9. 0 \in 0 .. Len(all) /\ (0 < Len(all) => Len(bags) <= 0) /\ Len(all) <= Len(streams)
    BY <1>2, <1>6
  <1>10. \A k \in 1 .. Len(all) - 0 : Waits(all[0 + k], streams[k])
    BY <1>2, <1>7, <1>8
  <1>11. QED
    BY <1>8, <1>9, <1>10 DEF FirstRound

-----------------------------------------------------------------------------
(* The theorems *)

\* A turn leaves nothing out: what a stream has not come to yet, and what it
\* gave up, are all there is (generation.rs:183-320).
THEOREM SearchInvariant == Spec => []SearchInv
  <1>1. Init => SearchInv
    BY SearchStarts
  <1>2. SearchInv /\ [Next]_vars => SearchInv'
    BY SearchKeeps
  <1>3. QED
    BY <1>1, <1>2, PTL DEF Spec

\* For every alphabet, every list of words, every clue and strategy and every
\* budget: a state that is remembered as dead is dead, nothing that is no
\* solution is found, nothing is found twice, and the reason of the end is the
\* real one (generation.rs:148-154, 455-484).
THEOREM SearchIsAlwaysTruthful == Spec => []SearchIsTruthful
  <1>1. SearchInv => SearchIsTruthful
    <2>1. SUFFICES ASSUME SearchInv PROVE DeadStatesAreBarren /\ StopIsTruthful
      BY DEF SearchIsTruthful
    <2>2. \A i \in DOMAIN streams : \A d \in streams[i].dead :
             NoCompletion(problem, streams[i].clues, d)
      BY <2>1 DEF SearchInv, StreamInv
    <2>3. DeadStatesAreBarren
      BY <2>2 DEF DeadStatesAreBarren, NoCompletion
    <2>4. QED
      BY <2>1, <2>3 DEF SearchInv
  <1>2. QED
    BY <1>1, SearchInvariant, PTL

\* The order is kept: what a stream has on its stack is a line of choices, each
\* of which begins what comes next (generation.rs:183-320).
THEOREM OrderInvariant == Spec => [](SearchInv /\ OrderInv)
  <1>1. Init => SearchInv /\ OrderInv
    BY SearchStarts, OrderStarts
  <1>2. (SearchInv /\ OrderInv) /\ [Next]_vars => (SearchInv /\ OrderInv)'
    BY SearchKeeps, OrderKeeps
  <1>3. QED
    BY <1>1, <1>2, PTL DEF Spec

\* For every alphabet, every list of words and every budget: a search of the
\* prefix strategy finds the solutions in the order of the candidates, and
\* wherever it is stopped nothing before its last bag is missing
\* (generation.rs:1-2).
THEOREM PrefixNeverHasGaps == Spec => []PrefixHasNoGap
  BY OrderInvariant, OrderHasNoGap, PTL

\* The first round is kept: the strata that had their turn are served, with a bag
\* each at most, and the others wait in order (generation.rs:449-476).
THEOREM RoundInvariant == Spec => [](SearchInv /\ RoundInv)
  <1>1. Init => SearchInv /\ RoundInv
    BY SearchStarts, RoundStarts
  <1>2. (SearchInv /\ RoundInv) /\ [Next]_vars => (SearchInv /\ RoundInv)'
    BY SearchKeeps, RoundKeeps
  <1>3. QED
    BY <1>1, <1>2, PTL DEF Spec

\* For every alphabet, every list of words and every clue: a diverse search whose
\* budget allows each of its streams a bag, and which is not interrupted, leaves
\* out no word count and no open clue that has a solution
\* (generation.rs:449-476).
THEOREM StrataAreAlwaysServed == Spec => []EveryStratumIsServed
  <1>1. RoundInv => EveryStratumIsServed
    BY DEF RoundInv, EveryStratumIsServed
  <1>2. QED
    BY <1>1, RoundInvariant, PTL
=============================================================================
