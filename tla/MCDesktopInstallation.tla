----------------------- MODULE MCDesktopInstallation -----------------------
(***************************************************************************)
(* DesktopInstallation for TLC: what an installation may find.  Files are  *)
(* known by what they are; two files of a corpus share a directory.        *)
(***************************************************************************)
EXTENDS DesktopInstallation, TLC

MCCorpusFiles == <<<<"ngrams", "unigrams">>, <<"ngrams", "bigrams">>>>

\* A tree of files, with the directories they are in.
Tree(files) ==
  LET paths == DOMAIN files
      dirs == UNION {{SubSeq(p, 1, i) : i \in 1..(Len(p) - 1)} : p \in paths}
  IN files @@ [p \in dirs |-> Dir]

\* One of the files of a list, by the path from a root.
Rooted(root, files) == [p \in {root \o q : q \in DOMAIN files} |->
                          files[SubSeq(p, Len(root) + 1, Len(p))]]

NoFile == [p \in {} |-> Dir]

Programs(exe) ==
  { <<"backup", "TajsAnagrams.exe">> :> "older release" @@ exe :> "release",
    <<"backup", "AnagramSolver.exe">> :> "older legacy release" @@ exe :> "release",
    exe :> "release",
    <<"notes.txt">> :> "file of the user" }

Corpora == { NoFile, <<"corpora", "ngrams", "unigrams">> :> "corpus of the user" }

Profile == <<"settings.json">> :> "settings" @@ <<"results.sqlite">> :> "results"

\* An installation, current, legacy or none, with its corpus and profile.
Installations ==
  {NoFile}
    \cup {Rooted(Install, f @@ c @@ p) : f \in Programs(<<"TajsAnagrams.exe">>),
            c \in Corpora, p \in {NoFile, Rooted(<<"user-data">>, Profile)}}
    \cup {Rooted(Legacy, f @@ c @@ p) :
            f \in UNION {Programs(<<e>>) : e \in {"TajsAnagrams.exe", "AnagramSolver.exe"}},
            c \in Corpora, p \in {NoFile, Rooted(<<"user-data">>, Profile)}}

\* A profile of an earlier release, complete, recreated for diagnostics, or none.
OldProfiles ==
  {NoFile, Rooted(OldProfile, <<"EBWebView.log">> :> "diagnostics")}
    \cup {Rooted(OldProfile, Profile @@ c) : c \in Corpora}

Links == { NoFile, Link :> "shortcut", LegacyLink :> "legacy shortcut" }

MCTrees ==
  { <<"Programs">> :> Dir @@ Tree(i @@ p @@ l) : i \in Installations, p \in OldProfiles, l \in Links }
=============================================================================
