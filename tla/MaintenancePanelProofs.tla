----------------------- MODULE MaintenancePanelProofs -----------------------
(***************************************************************************)
(* Whatever the delays and the order of answers, for any number of runs,   *)
(* calls and failures: the panel shows the operation that is under way.    *)
(***************************************************************************)
EXTENDS MaintenancePanel, FiniteSetTheorems, SequenceTheorems, TLAPS

Names == {"status", "manage", "cancel", "readReport"}
Reports == Nat \cup {Opened}
Calls == [call : Names, fresh : BOOLEAN]
Answers == [call : Names, fresh : BOOLEAN, ok : BOOLEAN, active : BOOLEAN, report : Nat]

PanelTypeOK ==
  /\ busy \in BOOLEAN /\ cancelling \in BOOLEAN /\ report \in Reports
  /\ timer \in BOOLEAN /\ disposed \in BOOLEAN
  /\ requests \in Seq(Calls) /\ replies \in Seq(Answers)
  /\ active \in BOOLEAN /\ started \in Nat /\ outcome \in {0, started}
  /\ mine \in BOOLEAN

AtMostOne(S) == \A i, j \in S : i = j

\* Where a call to start an operation is on its way, or its answer.
Managing(calls) == {i \in DOMAIN calls : calls[i].call = "manage"}
Refusals == {i \in Managing(replies) : ~replies[i].ok}

\* Only one of the calls that move the panel on is under way: the start of an
\* operation, a status call that counts, or a timer that will send one.
OneWayInv ==
  /\ AtMostOne(Managing(requests)) /\ AtMostOne(Managing(replies))
  /\ AtMostOne(Counting(requests)) /\ AtMostOne(Counting(replies))
  /\ Managing(requests) = {} \/ Managing(replies) = {}
  /\ Counting(requests) = {} \/ Counting(replies) = {}
  /\ Managing(requests) \cup Managing(replies) # {} =>
       busy /\ ~timer /\ Counting(requests) \cup Counting(replies) = {}
  /\ timer => busy /\ Counting(requests) \cup Counting(replies) = {}

\* What an answer that counts says is still so, unless the operation has ended.
AnswersInv ==
  \A i \in Counting(replies) : /\ replies[i].report \in {0, started}
                               /\ active => replies[i].active

\* The panel is busy for what it has started, and shows no older operation's
\* report; nor does it while the start of one is on its way.
BusyInv ==
  /\ busy => ~disposed
  /\ report \in {0, started, Opened}
  /\ Managing(requests) \cup Managing(replies) # {} => report \in {0, Opened}
  /\ active /\ mine => busy
  /\ Managing(requests) \cup Refusals # {} => ~(active /\ mine)

PanelInv == PanelTypeOK /\ OneWayInv /\ AnswersInv /\ BusyInv

-----------------------------------------------------------------------------
(* Calls under way *)

\* A call that is sent comes last.
LEMMA AppendPositions ==
  ASSUME NEW S, NEW s \in Seq(S), NEW e \in S
  PROVE  /\ Append(s, e) \in Seq(S) /\ Len(Append(s, e)) = Len(s) + 1
         /\ \A i \in 1 .. Len(s) : Append(s, e)[i] = s[i]
         /\ Append(s, e)[Len(s) + 1] = e
  OBVIOUS

\* When the first call is taken the others move up.
LEMMA TailPositions ==
  ASSUME NEW S, NEW s \in Seq(S), s # <<>>
  PROVE  /\ Tail(s) \in Seq(S) /\ Len(Tail(s)) = Len(s) - 1 /\ Len(s) \in Nat \ {0}
         /\ \A i \in 1 .. (Len(s) - 1) : Tail(s)[i] = s[i + 1]
         /\ Head(s) = s[1]
  OBVIOUS

\* When an answer is handled those behind it move up.
LEMMA RemovePositions ==
  ASSUME NEW S, NEW s \in Seq(S), NEW i \in 1 .. Len(s)
  PROVE  /\ RemoveAt(s, i) \in Seq(S) /\ Len(RemoveAt(s, i)) = Len(s) - 1
         /\ \A k \in 1 .. (Len(s) - 1) : RemoveAt(s, i)[k] = s[IF k < i THEN k ELSE k + 1]
  <1> DEFINE left == SubSeq(s, 1, i - 1)
             right == SubSeq(s, i + 1, Len(s))
  <1>1. left \in Seq(S) /\ Len(left) = i - 1 /\ \A k \in 1 .. (i - 1) : left[k] = s[k]
    OBVIOUS
  <1>2. /\ right \in Seq(S) /\ Len(right) = Len(s) - i
        /\ \A k \in 1 .. (Len(s) - i) : right[k] = s[i + k]
    OBVIOUS
  <1>3. RemoveAt(s, i) = left \o right
    BY DEF RemoveAt
  <1> HIDE DEF left, right
  <1>4. left \o right \in Seq(S) /\ Len(left \o right) = Len(s) - 1
    <2>1. left \o right \in Seq(S) /\ Len(left \o right) = Len(left) + Len(right)
      BY <1>1, <1>2, ConcatProperties
    <2>2. Len(s) \in Nat /\ i \in Nat
      OBVIOUS
    <2>3. QED
      BY <1>1, <1>2, <2>1, <2>2
  <1>5. ASSUME NEW k \in 1 .. (Len(s) - 1)
        PROVE  (left \o right)[k] = s[IF k < i THEN k ELSE k + 1]
    <2>1. CASE k < i
      BY <1>1, <1>2, <2>1
    <2>2. CASE ~(k < i)
      <3>1. k - (i - 1) \in 1 .. (Len(s) - i) /\ i + (k - (i - 1)) = k + 1
        BY <2>2
      <3>2. (left \o right)[k] = right[k - (i - 1)]
        BY <1>1, <1>2, <2>2, <3>1
      <3>3. right[k - (i - 1)] = s[i + (k - (i - 1))]
        BY <1>2, <3>1
      <3>4. QED
        BY <2>2, <3>1, <3>2, <3>3
    <2>3. QED
      BY <2>1, <2>2
  <1>6. QED
    BY <1>3, <1>4, <1>5

\* A call that has become stale is still the same call.
LEMMA StalePositions ==
  ASSUME NEW S, NEW s \in Seq(S), S \in {Calls, Answers}
  PROVE  /\ Stale(s) \in Seq(S) /\ Len(Stale(s)) = Len(s)
         /\ \A i \in 1 .. Len(s) : /\ Stale(s)[i].call = s[i].call /\ ~Stale(s)[i].fresh
                                   /\ S = Answers => Stale(s)[i].ok = s[i].ok
  <1>1. \A i \in 1 .. Len(s) : s[i] \in S
    OBVIOUS
  <1>2. \A i \in 1 .. Len(s) : [s[i] EXCEPT !.fresh = FALSE] \in S
    BY <1>1 DEF Calls, Answers
  <1>3. Stale(s) = [i \in 1 .. Len(s) |-> [s[i] EXCEPT !.fresh = FALSE]]
    BY DEF Stale
  <1>4. Stale(s) \in Seq(S) /\ Len(Stale(s)) = Len(s)
    BY <1>2, <1>3
  <1>5. QED
    <2>1. \A i \in 1 .. Len(s) : Stale(s)[i] = [s[i] EXCEPT !.fresh = FALSE]
      BY <1>3
    <2>2. \A i \in 1 .. Len(s) : /\ [s[i] EXCEPT !.fresh = FALSE].call = s[i].call
                                 /\ ~[s[i] EXCEPT !.fresh = FALSE].fresh
                                 /\ S = Answers => [s[i] EXCEPT !.fresh = FALSE].ok = s[i].ok
      BY <1>1 DEF Calls, Answers
    <2>3. QED
      BY <1>4, <2>1, <2>2

\* What each change of a queue leaves of the calls that matter.
LEMMA Sent ==
  ASSUME NEW s \in Seq(Calls), NEW name \in Names
  PROVE  LET t == Append(Stale(s), Call(name)) IN
         /\ t \in Seq(Calls)
         /\ Managing(t) = Managing(s) \cup (IF name = "manage" THEN {Len(s) + 1} ELSE {})
         /\ Counting(t) = IF name = "status" THEN {Len(s) + 1} ELSE {}
  <1> DEFINE u == Stale(s)
             t == Append(u, Call(name))
  <1>1. /\ u \in Seq(Calls) /\ Len(u) = Len(s)
        /\ \A i \in 1 .. Len(s) : u[i].call = s[i].call /\ ~u[i].fresh
    BY StalePositions
  <1>2. Call(name) \in Calls /\ Call(name).call = name /\ Call(name).fresh
    BY DEF Call, Calls
  <1>3. /\ t \in Seq(Calls) /\ Len(t) = Len(s) + 1
        /\ \A i \in 1 .. Len(s) : t[i] = u[i]
        /\ t[Len(s) + 1] = Call(name)
    BY <1>1, <1>2, AppendPositions
  <1> HIDE DEF t, u
  <1>4. DOMAIN t = 1 .. (Len(s) + 1) /\ DOMAIN s = 1 .. Len(s) /\ Len(s) \in Nat
    BY <1>3
  <1>5. \A i \in 1 .. Len(s) : t[i].call = s[i].call /\ ~t[i].fresh
    BY <1>1, <1>3
  <1>6. t[Len(s) + 1].call = name /\ t[Len(s) + 1].fresh
    BY <1>2, <1>3
  <1>7. Managing(t) = Managing(s) \cup (IF name = "manage" THEN {Len(s) + 1} ELSE {})
    BY <1>4, <1>5, <1>6 DEF Managing
  <1>8. Counting(t) = IF name = "status" THEN {Len(s) + 1} ELSE {}
    BY <1>4, <1>5, <1>6 DEF Counting
  <1>9. QED
    BY <1>3, <1>7, <1>8 DEF t, u

\* What is left when the i-th is gone.
IsWithout(t, s, i) ==
  /\ Len(t) = Len(s) - 1
  /\ \A k \in 1 .. (Len(s) - 1) : t[k] = s[IF k < i THEN k ELSE k + 1]

\* No call or answer appears by another one's going.
LEMMA Removed ==
  ASSUME NEW S, NEW s \in Seq(S), NEW t \in Seq(S), NEW i \in 1 .. Len(s), IsWithout(t, s, i)
  PROVE  /\ \A k \in DOMAIN t : \E j \in DOMAIN s \ {i} : t[k] = s[j]
         /\ Managing(s) = {} => Managing(t) = {}
         /\ Counting(s) = {} => Counting(t) = {}
         /\ AtMostOne(Managing(s)) =>
              AtMostOne(Managing(t)) /\ (i \in Managing(s) => Managing(t) = {})
         /\ AtMostOne(Counting(s)) =>
              AtMostOne(Counting(t)) /\ (i \in Counting(s) => Counting(t) = {})
  <1> DEFINE from(k) == IF k < i THEN k ELSE k + 1
  <1>1. DOMAIN t = 1 .. (Len(s) - 1) /\ DOMAIN s = 1 .. Len(s) /\ Len(s) \in Nat
    BY DEF IsWithout
  <1>2. \A k \in DOMAIN t : from(k) \in DOMAIN s \ {i} /\ t[k] = s[from(k)]
    BY <1>1 DEF IsWithout
  <1>3. \A k, l \in DOMAIN t : from(k) = from(l) => k = l
    BY <1>1
  <1> HIDE DEF from
  <1>4. QED
    BY <1>2, <1>3 DEF Managing, Counting, AtMostOne

\* An answer that has been handled is gone, and no other appears.
LEMMA Handled ==
  ASSUME NEW s \in Seq(Answers), NEW i \in DOMAIN s,
         AtMostOne(Managing(s)), AtMostOne(Counting(s))
  PROVE  LET t == RemoveAt(s, i) IN
         /\ t \in Seq(Answers)
         /\ \A k \in DOMAIN t : \E j \in DOMAIN s \ {i} : t[k] = s[j]
         /\ Managing(s) = {} => Managing(t) = {}
         /\ Counting(s) = {} => Counting(t) = {}
         /\ AtMostOne(Managing(t)) /\ AtMostOne(Counting(t))
         /\ i \in Managing(s) => Managing(t) = {}
         /\ i \in Counting(s) => Counting(t) = {}
  <1> DEFINE t == RemoveAt(s, i)
  <1>1. i \in 1 .. Len(s)
    OBVIOUS
  <1>2. t \in Seq(Answers) /\ IsWithout(t, s, i)
    BY <1>1, RemovePositions DEF IsWithout
  <1> HIDE DEF t
  <1>3. QED
    BY <1>1, <1>2, Removed DEF t

\* An answer that is given comes last.
LEMMA Given ==
  ASSUME NEW s \in Seq(Answers), NEW r \in Answers
  PROVE  LET t == Append(s, r) IN
         /\ t \in Seq(Answers) /\ Len(t) = Len(s) + 1 /\ t[Len(s) + 1] = r
         /\ \A i \in DOMAIN s : t[i] = s[i]
         /\ DOMAIN t = DOMAIN s \cup {Len(s) + 1} /\ Len(s) + 1 \notin DOMAIN s
         /\ Managing(t) = Managing(s) \cup (IF r.call = "manage" THEN {Len(s) + 1} ELSE {})
         /\ Counting(t) = Counting(s) \cup
                             (IF r.call = "status" /\ r.fresh THEN {Len(s) + 1} ELSE {})
  <1> DEFINE t == Append(s, r)
  <1>1. /\ t \in Seq(Answers) /\ Len(t) = Len(s) + 1 /\ t[Len(s) + 1] = r
        /\ \A i \in 1 .. Len(s) : t[i] = s[i]
    BY AppendPositions
  <1> HIDE DEF t
  <1>2. DOMAIN t = 1 .. (Len(s) + 1) /\ DOMAIN s = 1 .. Len(s) /\ Len(s) \in Nat
    BY <1>1
  <1>3. DOMAIN t = DOMAIN s \cup {Len(s) + 1} /\ Len(s) + 1 \notin DOMAIN s
    BY <1>2
  <1>4. Managing(t) = Managing(s) \cup (IF r.call = "manage" THEN {Len(s) + 1} ELSE {})
    BY <1>1, <1>2, <1>3 DEF Managing
  <1>5. Counting(t) = Counting(s) \cup
                        (IF r.call = "status" /\ r.fresh THEN {Len(s) + 1} ELSE {})
    BY <1>1, <1>2, <1>3 DEF Counting
  <1>6. QED
    BY <1>1, <1>2, <1>3, <1>4, <1>5 DEF t

\* Making answers stale leaves them in place.
LEMMA MadeStale ==
  ASSUME NEW s \in Seq(Answers)
  PROVE  /\ Stale(s) \in Seq(Answers)
         /\ DOMAIN Stale(s) = DOMAIN s
         /\ Managing(Stale(s)) = Managing(s) /\ Counting(Stale(s)) = {}
         /\ \A i \in DOMAIN s : Stale(s)[i].ok = s[i].ok
  <1> DEFINE t == Stale(s)
  <1>1. /\ t \in Seq(Answers) /\ Len(t) = Len(s)
        /\ \A i \in 1 .. Len(s) : t[i].call = s[i].call /\ ~t[i].fresh /\ t[i].ok = s[i].ok
    BY StalePositions
  <1> HIDE DEF t
  <1>2. DOMAIN t = DOMAIN s /\ DOMAIN s = 1 .. Len(s)
    BY <1>1
  <1>3. QED
    BY <1>1, <1>2 DEF Managing, Counting, t

\* Asking for a cancellation, or for a manifest, leaves the calls that move the
\* panel on alone.
LEMMA Asked ==
  ASSUME NEW s \in Seq(Calls), NEW name \in {"cancel", "readReport"}
  PROVE  LET t == Append(s, Call(name)) IN
         t \in Seq(Calls) /\ Managing(t) = Managing(s) /\ Counting(t) = Counting(s)
  <1> DEFINE t == Append(s, Call(name))
  <1>1. Call(name) \in Calls /\ Call(name).call = name
    BY DEF Call, Calls, Names
  <1>2. /\ t \in Seq(Calls) /\ Len(t) = Len(s) + 1 /\ t[Len(s) + 1] = Call(name)
        /\ \A i \in 1 .. Len(s) : t[i] = s[i]
    BY <1>1, AppendPositions
  <1> HIDE DEF t
  <1>3. DOMAIN t = 1 .. (Len(s) + 1) /\ DOMAIN s = 1 .. Len(s) /\ Len(s) \in Nat
    BY <1>2
  <1>4. Managing(t) = Managing(s) /\ Counting(t) = Counting(s)
    BY <1>1, <1>2, <1>3 DEF Managing, Counting
  <1>5. QED
    BY <1>2, <1>4 DEF t

-----------------------------------------------------------------------------
(* The panel *)

\* Starting an operation makes the panel busy and every other call stale.
LEMMA RunKeeps == ASSUME PanelInv, Run PROVE PanelInv'
  <1> USE DEF PanelInv, PanelTypeOK
  <1>1. /\ requests' = Append(Stale(requests), Call("manage")) /\ replies' = Stale(replies)
        /\ ~disposed /\ ~busy /\ timer' = FALSE /\ busy' = TRUE /\ report' = 0
        /\ UNCHANGED <<cancelling, disposed, active, started, outcome, mine>>
    BY DEF Run, Send, backend
  <1>2. Managing(requests) = {} /\ Managing(replies) = {} /\ ~(active /\ mine)
    BY <1>1 DEF OneWayInv, BusyInv
  <1>3. /\ requests' \in Seq(Calls) /\ Managing(requests') = {Len(requests) + 1}
        /\ Counting(requests') = {}
    BY <1>1, <1>2, Sent DEF Names
  <1>4. replies' \in Seq(Answers) /\ Managing(replies') = {} /\ Counting(replies') = {}
    BY <1>1, <1>2, MadeStale
  <1>5. PanelTypeOK'
    BY <1>1, <1>3, <1>4 DEF Reports
  <1>6. OneWayInv'
    BY <1>1, <1>3, <1>4 DEF OneWayInv, AtMostOne
  <1>7. AnswersInv' /\ BusyInv'
    BY <1>1, <1>2, <1>4 DEF AnswersInv, BusyInv, Refusals
  <1>8. QED
    BY <1>5, <1>6, <1>7

\* Pressing Cancel sends one more call; nothing else the invariant speaks of moves.
LEMMA CancelKeeps == ASSUME PanelInv, Cancel PROVE PanelInv'
  <1> USE DEF PanelInv, PanelTypeOK
  <1>1. /\ requests' = Append(requests, Call("cancel"))
        /\ UNCHANGED <<busy, cancelling, report, timer, disposed, replies, active, started, outcome, mine>>
    BY DEF Cancel, panel, backend
  <1>2. /\ requests' \in Seq(Calls) /\ Managing(requests') = Managing(requests)
        /\ Counting(requests') = Counting(requests)
    BY <1>1, Asked
  <1>3. QED
    BY <1>1, <1>2 DEF OneWayInv, AnswersInv, BusyInv, Refusals

\* A file dialog that opens, and one that closes, move nothing the invariant
\* speaks of but the calls under way.
LEMMA ReopenKeeps == ASSUME PanelInv, Reopen \/ Choose PROVE PanelInv'
  <1> USE DEF PanelInv, PanelTypeOK
  <1>1. /\ requests' = Append(requests, Call("readReport")) \/ UNCHANGED requests
        /\ UNCHANGED <<busy, cancelling, report, timer, disposed, replies, active, started, outcome, mine>>
    BY DEF Reopen, Choose, backend, history
  <1>2. /\ requests' \in Seq(Calls) /\ Managing(requests') = Managing(requests)
        /\ Counting(requests') = Counting(requests)
    <2>1. CASE requests' = Append(requests, Call("readReport"))
      BY <2>1, Asked
    <2>2. CASE UNCHANGED requests
      BY <2>2
    <2>3. QED
      BY <1>1, <2>1, <2>2
  <1>3. QED
    BY <1>1, <1>2 DEF OneWayInv, AnswersInv, BusyInv, Refusals

\* The timer's call is the only one that counts.
LEMMA PollKeeps == ASSUME PanelInv, Poll PROVE PanelInv'
  <1> USE DEF PanelInv, PanelTypeOK
  <1>1. /\ requests' = Append(Stale(requests), Call("status")) /\ replies' = Stale(replies)
        /\ timer /\ timer' = FALSE
        /\ UNCHANGED <<busy, cancelling, report, disposed, active, started, outcome, mine>>
    BY DEF Poll, Send, backend, history
  <1>2. Managing(requests) = {} /\ Managing(replies) = {}
    BY <1>1 DEF OneWayInv
  <1>3. /\ requests' \in Seq(Calls) /\ Managing(requests') = {}
        /\ Counting(requests') = {Len(requests) + 1}
    BY <1>1, <1>2, Sent DEF Names
  <1>4. replies' \in Seq(Answers) /\ Managing(replies') = {} /\ Counting(replies') = {}
    BY <1>1, <1>2, MadeStale
  <1>5. PanelTypeOK'
    BY <1>1, <1>3, <1>4
  <1>6. OneWayInv'
    BY <1>1, <1>3, <1>4 DEF OneWayInv, AtMostOne
  <1>7. AnswersInv' /\ BusyInv'
    BY <1>1, <1>3, <1>4 DEF AnswersInv, BusyInv, Refusals
  <1>8. QED
    BY <1>5, <1>6, <1>7

\* Nothing this panel started runs when it goes.
LEMMA DisposeKeeps == ASSUME PanelInv, Dispose PROVE PanelInv'
  <1>1. /\ ~busy /\ disposed' = TRUE /\ timer' = FALSE
        /\ UNCHANGED <<busy, cancelling, report, requests, replies, active, started, outcome, mine>>
    BY DEF Dispose, backend, history
  <1>2. QED
    BY <1>1 DEF PanelInv, PanelTypeOK, OneWayInv, AnswersInv, BusyInv, Refusals

-----------------------------------------------------------------------------
(* Answers *)

\* An answer is about the present while it counts, so a panel that unlocks
\* itself has nothing running.
LEMMA StatusKeeps ==
  ASSUME PanelInv, NEW i \in DOMAIN replies, replies[i].call = "status",
         StatusReply(replies[i], RemoveAt(replies, i)), UNCHANGED <<backend, history>>
  PROVE  PanelInv'
  <1> USE DEF PanelInv, PanelTypeOK
  <1> DEFINE r == replies[i]
  <1>1. /\ replies' = RemoveAt(replies, i) /\ requests' = requests
        /\ UNCHANGED <<active, started, outcome, mine>>
    BY DEF StatusReply, backend, history
  <1>3. /\ replies' \in Seq(Answers)
        /\ \A k \in DOMAIN replies' : \E j \in DOMAIN replies \ {i} : replies'[k] = replies[j]
        /\ Managing(replies) = {} => Managing(replies') = {}
        /\ Counting(replies) = {} => Counting(replies') = {}
        /\ AtMostOne(Managing(replies')) /\ AtMostOne(Counting(replies'))
        /\ i \in Counting(replies) => Counting(replies') = {}
    <2> DEFINE others == RemoveAt(replies, i)
    <2>1. AtMostOne(Managing(replies)) /\ AtMostOne(Counting(replies))
      BY DEF OneWayInv
    <2>2. /\ others \in Seq(Answers)
          /\ \A k \in DOMAIN others : \E j \in DOMAIN replies \ {i} : others[k] = replies[j]
          /\ Managing(replies) = {} => Managing(others) = {}
          /\ Counting(replies) = {} => Counting(others) = {}
          /\ AtMostOne(Managing(others)) /\ AtMostOne(Counting(others))
          /\ i \in Counting(replies) => Counting(others) = {}
      BY <2>1, Handled
    <2> HIDE DEF others
    <2>3. replies' = others
      BY <1>1 DEF others
    <2>4. QED
      BY <2>2, <2>3
  <1>4. Refusals = {} => Refusals' = {}
    BY <1>3 DEF Refusals, Managing
  <1>5. AnswersInv'
    BY <1>1, <1>3 DEF AnswersInv, Counting
  <1>6. CASE ~Current(r)
    <2>1. UNCHANGED <<busy, cancelling, report, timer, disposed>>
      BY <1>6 DEF StatusReply, panel
    <2>2. OneWayInv'
      BY <1>1, <1>3, <2>1 DEF OneWayInv
    <2>3. BusyInv'
      BY <1>1, <1>3, <1>4, <2>1 DEF BusyInv
    <2>4. QED
      BY <1>1, <1>3, <1>5, <2>1, <2>2, <2>3
  <1>7. CASE Current(r)
    <2>1. /\ i \in Counting(replies) /\ Counting(replies') = {} /\ Counting(requests) = {}
          /\ Managing(requests) = {} /\ Managing(replies) = {} /\ ~timer /\ ~disposed
      BY <1>3, <1>7 DEF Current, Counting, OneWayInv
    <2>2. r.report \in {0, started} /\ (active => r.active) /\ r \in Answers
      BY <2>1 DEF AnswersInv
    <2>3. /\ disposed' = disposed /\ busy' \in BOOLEAN /\ timer' \in BOOLEAN /\ cancelling' \in BOOLEAN
          /\ report' \in {0, started, Opened} /\ report' \in Reports
          /\ timer' => busy'
          /\ active /\ mine => busy'
      <3>1. CASE r.ok
        BY <1>7, <2>2, <3>1 DEF StatusReply, Answers, Reports
      <3>2. CASE ~r.ok
        BY <1>7, <2>2, <3>2 DEF StatusReply, RetriesIfBusy, BusyInv
      <3>3. QED
        BY <3>1, <3>2
    <2>4. OneWayInv'
      BY <1>1, <1>3, <2>1, <2>3 DEF OneWayInv
    <2>5. BusyInv'
      <3>1. Managing(requests') = {} /\ Managing(replies') = {} /\ Refusals' = {}
        BY <1>1, <1>3, <2>1 DEF Refusals
      <3>2. /\ busy' => ~disposed'
            /\ report' \in {0, started', Opened}
            /\ active' /\ mine' => busy'
        BY <1>1, <2>1, <2>3
      <3>3. QED
        BY <3>1, <3>2 DEF BusyInv
    <2>6. QED
      BY <1>1, <1>3, <1>5, <2>3, <2>4, <2>5
  <1>8. QED
    BY <1>6, <1>7

\* The answer to a start sends a status call, or unlocks the panel when nothing
\* was started; it was the only one.
LEMMA ManageKeeps ==
  ASSUME PanelInv, NEW i \in DOMAIN replies, replies[i].call = "manage",
         ManageReply(replies[i], RemoveAt(replies, i)), UNCHANGED <<backend, history>>
  PROVE  PanelInv'
  <1> USE DEF PanelInv, PanelTypeOK
  <1> DEFINE others == RemoveAt(replies, i)
  <1>1. UNCHANGED <<active, started, outcome, mine>>
    BY DEF backend, history
  <1>2. /\ i \in Managing(replies) /\ busy /\ ~disposed /\ ~timer /\ report \in {0, Opened}
        /\ Managing(requests) = {} /\ Counting(requests) = {} /\ Counting(replies) = {}
    BY DEF Managing, OneWayInv, BusyInv
  <1>3. others \in Seq(Answers) /\ Managing(others) = {} /\ Counting(others) = {}
    <2>1. AtMostOne(Managing(replies)) /\ AtMostOne(Counting(replies))
      BY DEF OneWayInv
    <2>2. QED
      BY <1>2, <2>1, Handled
  <1> HIDE DEF others
  <1>4. CASE replies[i].ok
    <2>1. /\ requests' = Append(Stale(requests), Call("status")) /\ replies' = Stale(others)
          /\ UNCHANGED <<busy, cancelling, report, timer, disposed>>
      BY <1>2, <1>4 DEF ManageReply, Send, panel, others
    <2>2. /\ requests' \in Seq(Calls) /\ Managing(requests') = {}
          /\ Counting(requests') = {Len(requests) + 1}
      BY <1>2, <2>1, Sent DEF Names
    <2>3. replies' \in Seq(Answers) /\ Managing(replies') = {} /\ Counting(replies') = {}
      BY <1>3, <2>1, MadeStale
    <2>4. PanelTypeOK'
      BY <1>1, <2>1, <2>2, <2>3
    <2>5. OneWayInv'
      BY <1>2, <2>1, <2>2, <2>3 DEF OneWayInv, AtMostOne
    <2>6. AnswersInv' /\ BusyInv'
      BY <1>1, <1>2, <2>1, <2>2, <2>3 DEF AnswersInv, BusyInv, Refusals
    <2>7. QED
      BY <2>4, <2>5, <2>6
  <1>5. CASE ~replies[i].ok
    <2>1. /\ busy' = FALSE /\ replies' = others
          /\ UNCHANGED <<cancelling, report, timer, disposed, requests>>
      BY <1>2, <1>5 DEF ManageReply, others
    <2>2. ~(active /\ mine)
      <3>1. i \in Refusals
        BY <1>2, <1>5 DEF Refusals
      <3>2. QED
        BY <3>1 DEF BusyInv
    <2>3. OneWayInv'
      BY <1>2, <1>3, <2>1 DEF OneWayInv, AtMostOne
    <2>4. AnswersInv' /\ BusyInv'
      BY <1>1, <1>2, <1>3, <2>1, <2>2 DEF AnswersInv, BusyInv, Refusals
    <2>5. QED
      BY <1>1, <1>3, <2>1, <2>3, <2>4
  <1>6. QED
    BY <1>4, <1>5

\* The answer to a cancellation changes only the button, and that to the reading
\* of a manifest only what is on display, whatever the panel does meanwhile.
LEMMA OtherReplyKeeps ==
  ASSUME PanelInv, NEW i \in DOMAIN replies, UNCHANGED <<backend, history>>,
         \/ CancelReply(replies[i], RemoveAt(replies, i))
         \/ ReadReply(replies[i], RemoveAt(replies, i))
  PROVE  PanelInv'
  <1> USE DEF PanelInv, PanelTypeOK
  <1> DEFINE others == RemoveAt(replies, i)
  <1>1. /\ replies' = others /\ cancelling' \in BOOLEAN /\ report' \in {report, Opened}
        /\ UNCHANGED <<busy, timer, disposed, requests, active, started, outcome, mine>>
    BY DEF CancelReply, ReadReply, backend, history, Answers
  <1>2. /\ others \in Seq(Answers)
        /\ \A k \in DOMAIN others : \E j \in DOMAIN replies \ {i} : others[k] = replies[j]
        /\ Managing(replies) = {} => Managing(others) = {}
        /\ Counting(replies) = {} => Counting(others) = {}
        /\ AtMostOne(Managing(others)) /\ AtMostOne(Counting(others))
    <2>1. AtMostOne(Managing(replies)) /\ AtMostOne(Counting(replies))
      BY DEF OneWayInv
    <2>2. QED
      BY <2>1, Handled
  <1> HIDE DEF others
  <1>3. Refusals = {} => Refusals' = {}
    BY <1>1, <1>2 DEF Refusals, Managing
  <1>4. AnswersInv'
    BY <1>1, <1>2 DEF AnswersInv, Counting
  <1>5. OneWayInv' /\ BusyInv'
    BY <1>1, <1>2, <1>3 DEF OneWayInv, BusyInv
  <1>6. report' \in Reports
    BY <1>1 DEF Reports
  <1>7. QED
    BY <1>1, <1>2, <1>4, <1>5, <1>6

-----------------------------------------------------------------------------
(* The backend *)

\* Taking a call leaves the rest of the queue.
LEMMA Taken ==
  ASSUME NEW s \in Seq(Calls), s # <<>>, AtMostOne(Managing(s)), AtMostOne(Counting(s))
  PROVE  /\ Tail(s) \in Seq(Calls) /\ Head(s) \in Calls /\ Head(s) = s[1] /\ 1 \in DOMAIN s
         /\ Managing(s) = {} => Managing(Tail(s)) = {}
         /\ Counting(s) = {} => Counting(Tail(s)) = {}
         /\ AtMostOne(Managing(Tail(s))) /\ AtMostOne(Counting(Tail(s)))
         /\ Head(s).call = "manage" => 1 \in Managing(s) /\ Managing(Tail(s)) = {}
         /\ Head(s).call = "status" /\ Head(s).fresh =>
              1 \in Counting(s) /\ Counting(Tail(s)) = {}
  <1> DEFINE t == Tail(s)
  <1>1. /\ t \in Seq(Calls) /\ Len(t) = Len(s) - 1 /\ Len(s) \in Nat \ {0}
        /\ \A k \in 1 .. (Len(s) - 1) : t[k] = s[k + 1]
        /\ Head(s) = s[1]
    BY TailPositions
  <1>2. 1 \in 1 .. Len(s) /\ DOMAIN s = 1 .. Len(s) /\ s[1] \in Calls
    BY <1>1
  <1> HIDE DEF t
  <1>3. IsWithout(t, s, 1)
    BY <1>1 DEF IsWithout
  <1>4. /\ Managing(s) = {} => Managing(t) = {}
        /\ Counting(s) = {} => Counting(t) = {}
        /\ AtMostOne(Managing(t)) /\ AtMostOne(Counting(t))
        /\ 1 \in Managing(s) => Managing(t) = {}
        /\ 1 \in Counting(s) => Counting(t) = {}
    BY <1>1, <1>2, <1>3, Removed
  <1>5. /\ Head(s).call = "manage" => 1 \in Managing(s)
        /\ Head(s).call = "status" /\ Head(s).fresh => 1 \in Counting(s)
    BY <1>1, <1>2 DEF Managing, Counting
  <1>6. QED
    BY <1>1, <1>2, <1>4, <1>5 DEF t

\* An answer tells what the backend knows as it takes the call.
LEMMA ReplyFacts ==
  ASSUME PanelTypeOK, NEW c \in Calls, NEW ok \in BOOLEAN
  PROVE  /\ Reply(c, ok) \in Answers /\ Reply(c, ok).call = c.call
         /\ Reply(c, ok).fresh = c.fresh
         /\ Reply(c, ok).active = active /\ Reply(c, ok).report = outcome /\ Reply(c, ok).ok = ok
  BY DEF Reply, Answers, Calls, PanelTypeOK

\* A start that is accepted is one the panel is busy for; one that is refused
\* finds nothing of its own running.
LEMMA HandleKeeps == ASSUME PanelInv, Handle PROVE PanelInv'
  <1> USE DEF PanelInv, PanelTypeOK
  <1> DEFINE c == Head(requests)
             rest == Tail(requests)
  <1>1. /\ requests # <<>> /\ requests' = rest
        /\ UNCHANGED <<busy, cancelling, report, timer, disposed>>
    BY DEF Handle, panel
  <1>2. AtMostOne(Managing(requests)) /\ AtMostOne(Counting(requests))
    BY DEF OneWayInv
  <1>3. /\ rest \in Seq(Calls) /\ c \in Calls /\ c = requests[1] /\ 1 \in DOMAIN requests
        /\ Managing(requests) = {} => Managing(rest) = {}
        /\ Counting(requests) = {} => Counting(rest) = {}
        /\ AtMostOne(Managing(rest)) /\ AtMostOne(Counting(rest))
        /\ c.call = "manage" => 1 \in Managing(requests) /\ Managing(rest) = {}
        /\ c.call = "status" /\ c.fresh => 1 \in Counting(requests) /\ Counting(rest) = {}
    BY <1>1, <1>2, Taken
  <1>4. (c.call = "manage" /\ Manage(c)) \/ (c.call # "manage" /\ Answer(c))
    BY DEF Handle
  <1> HIDE DEF c, rest
  <1>5. CASE c.call = "manage" /\ Manage(c)
    <2>1. /\ busy /\ ~timer /\ report \in {0, Opened} /\ ~(active /\ mine)
          /\ Managing(replies) = {} /\ Counting(requests) = {} /\ Counting(replies) = {}
          /\ Managing(rest) = {} /\ Counting(rest) = {}
      BY <1>3, <1>5 DEF OneWayInv, BusyInv
    <2>2. PICK ok \in BOOLEAN :
            /\ replies' = Append(replies, Reply(c, ok))
            /\ IF ok THEN active' = TRUE /\ started' = started + 1 /\ outcome' = 0 /\ mine' = TRUE
                     ELSE UNCHANGED <<active, started, outcome, mine>>
      BY <1>5 DEF Manage, NoReport, backend
    <2>3. /\ replies' \in Seq(Answers) /\ Managing(replies') = {Len(replies) + 1}
          /\ Counting(replies') = {} /\ replies'[Len(replies) + 1].ok = ok
      <3> DEFINE r == Reply(c, ok)
                 t == Append(replies, r)
      <3>1. r \in Answers /\ r.call = "manage" /\ r.ok = ok
        BY <1>3, <1>5, ReplyFacts
      <3> HIDE DEF r
      <3>2. /\ t \in Seq(Answers) /\ t[Len(replies) + 1] = r
            /\ Managing(t) = Managing(replies) \cup
                                (IF r.call = "manage" THEN {Len(replies) + 1} ELSE {})
            /\ Counting(t) = Counting(replies) \cup
                 (IF r.call = "status" /\ r.fresh THEN {Len(replies) + 1} ELSE {})
        BY <3>1, Given
      <3> HIDE DEF t
      <3>3. replies' = t
        BY <2>2 DEF t, r
      <3>4. QED
        BY <2>1, <3>1, <3>2, <3>3
    <2>4. PanelTypeOK'
      <3>1. active' \in BOOLEAN /\ started' \in Nat /\ outcome' \in {0, started'} /\ mine' \in BOOLEAN
        <4>1. CASE ok
          BY <2>2, <4>1
        <4>2. CASE ~ok
          BY <2>2, <4>2
        <4>3. QED
          BY <4>1, <4>2
      <3>2. QED
        BY <1>1, <1>3, <2>3, <3>1
    <2>5. OneWayInv'
      BY <1>1, <2>1, <2>3 DEF OneWayInv, AtMostOne
    <2>6. AnswersInv'
      BY <2>3 DEF AnswersInv
    <2>7. BusyInv'
      <3>1. Managing(requests') = {} /\ (ok => Refusals' = {})
        BY <1>1, <2>1, <2>3 DEF Refusals
      <3>2. CASE ok
        BY <1>1, <2>1, <2>2, <3>1, <3>2 DEF BusyInv
      <3>3. CASE ~ok
        BY <1>1, <2>1, <2>2, <3>3 DEF BusyInv
      <3>4. QED
        BY <3>2, <3>3
    <2>8. QED
      BY <2>4, <2>5, <2>6, <2>7
  <1>6. CASE c.call # "manage" /\ Answer(c)
    <2>1. PICK ok \in BOOLEAN : replies' = Append(replies, Reply(c, ok))
      BY <1>6 DEF Answer
    <2>2. UNCHANGED <<active, started, outcome, mine>>
      BY <1>6 DEF Answer, backend
    <2>3. /\ replies' \in Seq(Answers) /\ Managing(replies') = Managing(replies)
          /\ DOMAIN replies' = DOMAIN replies \cup {Len(replies) + 1}
          /\ \A i \in DOMAIN replies : replies'[i] = replies[i]
          /\ replies'[Len(replies) + 1] = Reply(c, ok) /\ Len(replies) + 1 \notin DOMAIN replies
          /\ Counting(replies') = Counting(replies) \cup
                (IF c.call = "status" /\ c.fresh THEN {Len(replies) + 1} ELSE {})
      <3> DEFINE r == Reply(c, ok)
                 t == Append(replies, r)
      <3>1. r \in Answers /\ r.call = c.call /\ r.fresh = c.fresh
        BY <1>3, ReplyFacts
      <3> HIDE DEF r
      <3>2. /\ t \in Seq(Answers) /\ t[Len(replies) + 1] = r
            /\ \A i \in DOMAIN replies : t[i] = replies[i]
            /\ DOMAIN t = DOMAIN replies \cup {Len(replies) + 1}
            /\ Len(replies) + 1 \notin DOMAIN replies
            /\ Managing(t) = Managing(replies) \cup
                                (IF r.call = "manage" THEN {Len(replies) + 1} ELSE {})
            /\ Counting(t) = Counting(replies) \cup
                 (IF r.call = "status" /\ r.fresh THEN {Len(replies) + 1} ELSE {})
        BY <3>1, Given
      <3> HIDE DEF t
      <3>3. replies' = t
        BY <2>1 DEF t, r
      <3>4. QED
        BY <1>6, <3>1, <3>2, <3>3 DEF r
    <2>4. PanelTypeOK'
      BY <1>1, <1>3, <2>2, <2>3
    <2>5. OneWayInv'
      BY <1>1, <1>3, <2>3 DEF OneWayInv, AtMostOne
    <2>6. AnswersInv'
      <3>1. Reply(c, ok).report \in {0, started} /\ (active => Reply(c, ok).active)
        BY <1>3, ReplyFacts
      <3>2. QED
        BY <2>2, <2>3, <3>1 DEF AnswersInv, Counting
    <2>7. BusyInv'
      <3>1. Refusals' = Refusals
        BY <2>3 DEF Refusals, Managing
      <3>2. Managing(requests') # {} => Managing(requests) # {}
        BY <1>1, <1>3
      <3>3. QED
        BY <1>1, <2>2, <2>3, <3>1, <3>2 DEF BusyInv
    <2>8. QED
      BY <2>4, <2>5, <2>6, <2>7
  <1>7. QED
    BY <1>4, <1>5, <1>6

\* An operation that ends makes no answer untrue.
LEMMA SettleKeeps == ASSUME PanelInv, Settle PROVE PanelInv'
  <1>1. /\ active' = FALSE /\ outcome' \in {0, started}
        /\ UNCHANGED <<busy, cancelling, report, timer, disposed, requests, replies, started, mine>>
    BY DEF Settle, panel, history
  <1>2. QED
    BY <1>1 DEF PanelInv, PanelTypeOK, OneWayInv, AnswersInv, BusyInv, Refusals

-----------------------------------------------------------------------------
(* Theorems *)

\* Types, the one call or timer that moves the panel on, and the truth of the
\* answers that count hold in every reachable state.
THEOREM PanelInvariant == Spec => []PanelInv
<1>1. Init => PanelInv
  <2> SUFFICES ASSUME Init PROVE PanelInv
    OBVIOUS
  <2>1. /\ requests = <<Call("status")>> /\ replies = <<>> /\ busy = FALSE /\ timer = FALSE
        /\ report = 0 /\ mine = FALSE
    BY DEF Init
  <2>2. requests \in Seq(Calls) /\ Len(requests) = 1 /\ requests[1].call = "status"
    BY <2>1 DEF Call, Calls, Names
  <2>3. replies \in Seq(Answers) /\ Managing(replies) = {} /\ Counting(replies) = {}
    BY <2>1 DEF Managing, Counting
  <2>4. Managing(requests) = {} /\ AtMostOne(Counting(requests))
    BY <2>2 DEF Managing, Counting, AtMostOne
  <2>5. PanelTypeOK
    <3>1. active \in BOOLEAN
      BY PanelAssumption DEF Init
    <3>2. started \in Nat /\ outcome \in {0, started}
      BY DEF Init
    <3>3. QED
      BY <2>2, <2>3, <3>1, <3>2 DEF Init, PanelTypeOK, Reports
  <2>6. QED
    BY <2>1, <2>3, <2>4, <2>5 DEF PanelInv, OneWayInv, AtMostOne, AnswersInv, BusyInv, Refusals
<1>2. PanelInv /\ [Next]_vars => PanelInv'
  <2> SUFFICES ASSUME PanelInv, [Next]_vars PROVE PanelInv'
    OBVIOUS
  <2>1. ASSUME NEW i \in DOMAIN replies, Deliver(i) PROVE PanelInv'
    BY <2>1, StatusKeeps, ManageKeeps, OtherReplyKeeps DEF Deliver
  <2>2. CASE UNCHANGED vars
    BY <2>2 DEF vars, panel, backend, history, PanelInv, PanelTypeOK, OneWayInv, AnswersInv,
                BusyInv, Refusals
  <2>3. QED
    BY <2>1, <2>2, RunKeeps, CancelKeeps, PollKeeps, DisposeKeeps, ReopenKeeps, HandleKeeps,
       SettleKeeps
       DEF Next
<1>3. QED
  BY <1>1, <1>2, PTL DEF Spec

\* At most one status call counts, and none when none is under way.
LEMMA OneCallCounts ==
  ASSUME PanelTypeOK, OneWayInv
  PROVE  StatusCalls \in {0, 1} /\ (StatusCalls = 0 <=> Counting(requests) \cup Counting(replies) = {})
  <1>1. ASSUME NEW S, AtMostOne(S)
        PROVE  Cardinality(S) \in {0, 1} /\ (Cardinality(S) = 0 <=> S = {})
    <2>1. CASE S = {}
      BY <2>1, FS_EmptySet
    <2>2. CASE S # {}
      <3>1. PICK x : S = {x}
        BY <1>1, <2>2 DEF AtMostOne
      <3>2. Cardinality({x}) = 1
        BY FS_Singleton
      <3>3. QED
        BY <3>1, <3>2
    <2>3. QED
      BY <2>1, <2>2
  <1>2. /\ AtMostOne(Counting(requests)) /\ AtMostOne(Counting(replies))
        /\ Counting(requests) = {} \/ Counting(replies) = {}
    BY DEF OneWayInv
  <1>3. QED
    BY <1>1, <1>2 DEF StatusCalls

\* Whatever the delays and the order of answers, the panel is locked while what
\* it started runs, polls that once at a time and shows its report and no older
\* operation's (Management.svelte:10-25).
THEOREM PanelAlwaysFollows == Spec => []PanelFollowsTheOperation
<1>1. PanelInv => PanelFollowsTheOperation
  <2> SUFFICES ASSUME PanelInv PROVE PanelFollowsTheOperation
    OBVIOUS
  <2>1. LockedWhileRunning /\ ReportIsLatest
    BY DEF PanelInv, BusyInv, LockedWhileRunning, ReportIsLatest
  <2>2. OnePollingChain
    <3>1. StatusCalls <= 1
      BY OneCallCounts DEF PanelInv
    <3>2. timer => StatusCalls = 0 /\ busy
      BY OneCallCounts DEF PanelInv, OneWayInv
    <3>3. QED
      BY <3>1, <3>2 DEF OnePollingChain
  <2>3. QED
    BY <2>1, <2>2 DEF PanelFollowsTheOperation
<1>2. QED
  BY <1>1, PanelInvariant, PTL
=============================================================================
