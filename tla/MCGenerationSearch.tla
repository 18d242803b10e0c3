------------------------- MODULE MCGenerationSearch -------------------------
(***************************************************************************)
(* GenerationSearch for TLC: six small vocabularies over two letters, with     *)
(* words that are anagrams of each other (a state is met again by another  *)
(* branch), words that use up the target, and a vocabulary with no bag;    *)
(* every strategy and clue mode, budgets below, at and above the number of *)
(* bags, and word counts that leave out the shortest or the longest ones.  *)
(***************************************************************************)
EXTENDS GenerationSearch

MCLetters == {"a", "b"}

W(a, b) == [l \in MCLetters |-> IF l = "a" THEN a ELSE b]

MCVocabularies ==
  { [target |-> W(3, 2), words |-> <<W(1, 1), W(1, 1), W(1, 0), W(2, 0), W(0, 1)>>],
    [target |-> W(2, 2), words |-> <<W(1, 1), W(1, 1), W(1, 0), W(0, 1)>>],
    [target |-> W(3, 1), words |-> <<W(1, 0), W(2, 0), W(2, 0), W(1, 1)>>],
    [target |-> W(2, 1), words |-> <<W(2, 1), W(1, 0), W(0, 1), W(1, 1)>>],
    [target |-> W(3, 0), words |-> <<W(2, 0)>>],
    [target |-> W(1, 1), words |-> <<>>] }

MCClues == { <<{}, {}>>, <<{0}, {}>>, <<{0, 2}, {0}>>, <<{1}, {}>>, <<{1, 4}, {}>>,
             <<{1, 2}, {2}>> }

MCCounts == { <<1, 2>>, <<1, 4>>, <<2, 3>>, <<4, 6>> }

MCProblems ==
  { [target |-> v.target, words |-> v.words, clues |-> c[1], initial |-> c[2],
     min |-> n[1], max |-> n[2], budget |-> b, repeat |-> r, one |-> o, diverse |-> d] :
      v \in MCVocabularies,
      c \in MCClues, n \in MCCounts,
      b \in {0, 1, 2, 4}, r \in BOOLEAN, o \in BOOLEAN, d \in BOOLEAN }

\* A clue is a candidate or 0.
MCSearches == {p \in MCProblems : p.clues \subseteq 0..Len(p.words)}
=============================================================================
