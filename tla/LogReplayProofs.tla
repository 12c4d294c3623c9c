-------------------------- MODULE LogReplayProofs --------------------------
(***************************************************************************)
(* The two replay filters of the log stream, end to end: no stamped line   *)
(* is shown twice (LogFollow!ShownOnce).                                   *)
(***************************************************************************)
EXTENDS LogFollowProofs

-----------------------------------------------------------------------------
(* Lines of one log, and how often a text stands at a stamp among them.    *)

Marked(lg) == {n \in DOMAIN lg : lg[n].at # 0}
At(lg, n)  == IF n = 0 THEN -1 ELSE lg[n].at

Tied(lg, stamp, text)     == {n \in DOMAIN lg : lg[n].at = stamp /\ lg[n].text = text}
Tally(lg, S, stamp, text) == Cardinality(S \cap Tied(lg, stamp, text))

\* The stamps of a log never go back, and one of them is the last.
Ordered(lg) ==
  /\ \A m, n \in Marked(lg) : m <= n => lg[m].at <= lg[n].at
  /\ lg = <<>> \/ \E m \in DOMAIN lg : \A n \in DOMAIN lg : lg[n].at <= lg[m].at

-----------------------------------------------------------------------------
(* What the server sent of a source, f the last stamped line of it.        *)

\* The record counts what a re-opened tail may send again.
Recording(lg, start, R, f) ==
  \/ f = 0 /\ R = NoResume
  \/ /\ f > 0 /\ R.stamp = At(lg, f)
     /\ \A t \in Texts : Tally(lg, start .. f, At(lg, f), t) <= R.lines[t]

\* A read in progress at line nx, with its own copy C of the record.
Reading(lg, start, R, C, nx, f) ==
  /\ nx <= f => /\ C.stamp = At(lg, f)
                /\ \A t \in Texts : Tally(lg, nx .. f, At(lg, f), t) <= C.lines[t]
  /\ C.stamp <= At(lg, f)
  /\ C.stamp < At(lg, f) => f < nx
  /\ f > 0 => \A t \in Texts :
       Tally(lg, start .. nx - 1, At(lg, f), t)
         + (IF C.stamp = At(lg, f) THEN C.lines[t] ELSE 0) <= R.lines[t]
  /\ \A m \in Marked(lg) : start <= m /\ m < nx => m <= f \/ lg[m].at <= C.stamp

-----------------------------------------------------------------------------
(* What the tab has of it, a the last stamped line it accepted; Q the      *)
(* lines on their way, L and D its record and the snapshot it filters by.  *)

Tracking(lg, start, L, a) ==
  \/ a = 0 /\ L = NoResume
  \/ /\ a > 0 /\ L.stamp = At(lg, a)
     /\ \A t \in Texts : Tally(lg, start .. a, At(lg, a), t) <= L.lines[t]

\* Old lines that are on their way, or that the server may send from lo on.
Coming(lg, Q, lo, f, a) ==
  {n \in Marked(lg) : n <= a /\ (n \in Q \/ (n > f /\ n >= lo))}

Filtering(lg, Q, lo, D, f, a) ==
  Coming(lg, Q, lo, f, a) # {} =>
    /\ D.stamp = At(lg, a)
    /\ \A t \in Texts : Tally(lg, Coming(lg, Q, lo, f, a), At(lg, a), t) <= D.lines[t]

\* How many lines at a stamp were passed to the tab over this connection.
Passed(L, D, stamp, t) ==
  IF L.stamp # stamp THEN 0
  ELSE L.lines[t] - (IF D.stamp = stamp THEN D.lines[t] ELSE 0)

\* Every line the tail holds was passed, is on its way, or is counted.
Accounted(lg, start, Q, L, D, a) ==
  \A n \in Q : At(lg, n) >= At(lg, a) =>
    \A t \in Texts :
      Tally(lg, start .. n, At(lg, n), t)
        <= Tally(lg, {m \in Q : m <= n}, At(lg, n), t) + Passed(L, D, At(lg, n), t)

Balanced(lg, R, Q, L, D, f, a) ==
  f > 0 /\ R.stamp # -1 /\ At(lg, f) >= At(lg, a) =>
    \A t \in Texts :
      R.lines[t] <= Tally(lg, Q, At(lg, f), t) + Passed(L, D, At(lg, f), t)

Below(D, L) ==
  /\ D.stamp <= L.stamp
  /\ D.stamp = L.stamp => \A t \in Texts : D.lines[t] <= L.lines[t]

\* The stamped lines of s in a sequence; on their way, those in `lines`.
PlacesIn(sq, s, lg) == {n \in Marked(lg) : \E i \in DOMAIN sq : sq[i].src = s /\ sq[i].n = n}
Queued(s)           == PlacesIn(lines, s, log[s])

\* The places of s in a sequence of lines, stamped ones, are in their order.
InOrder(sq, s, lg) ==
  \A i, j \in DOMAIN sq :
    i < j /\ sq[i].src = s /\ sq[j].src = s /\ sq[i].n \in Marked(lg) /\ sq[j].n \in Marked(lg)
      => sq[i].n < sq[j].n

Lo(s) == IF streamer[s].at = "reading" /\ streamer[s].next < Start(s)
         THEN streamer[s].next ELSE Start(s)

-----------------------------------------------------------------------------
\* The snapshot shows no pod before it is there, and the past for good.
WorldInv ==
  /\ viewRoot <= root
  /\ \A s \in Src :
       /\ Alive(owner[s]) /\ owner[s] <= root
       /\ viewPod[s].pod # "none" => pod[s] # "none"
       /\ viewPod[s].pod = "deleted" => pod[s] = "deleted"

Seen(s) == viewPod[s].pod # "none" /\ owner[s] <= viewRoot

\* A source no resolve of this connection will stream again.
Retired(s) ==
  /\ streamer[s] = Off
  /\ \/ drained[s].terminal
     \/ s \notin DOMAIN plan /\ (owner[s] < viewRoot \/ viewPod[s].pod = "deleted")

ServerInv(s, f) ==
  /\ f \in Marked(log[s]) \cup {0}
  /\ s \in DOMAIN plan \/ streamer[s] # Off \/ resumes[s] # NoResume \/ f > 0 => Seen(s)
  /\ Retired(s) \/ Recording(log[s], Start(s), resumes[s], f)
  /\ streamer[s].at = "reading" =>
       /\ streamer[s].next <= Len(log[s]) + 1
       /\ Reading(log[s], Start(s), resumes[s], streamer[s].resume, streamer[s].next, f)
  /\ \A m \in Queued(s) : m <= f
  /\ ~connected => f = 0

\* The stamped lines of s on screen are in order, and a is none before them.
OnScreen(s, a) ==
  /\ InOrder(shown, s, log[s])
  /\ \A n \in PlacesIn(shown, s, log[s]) : n <= a

TabInv(s, f, a) ==
  /\ a \in Marked(log[s]) \cup {0}
  /\ OnScreen(s, a)
  /\ Tracking(log[s], Start(s), LiveOf(s), a)
  /\ connected =>
       /\ Filtering(log[s], Queued(s), Lo(s), SnapshotOf(s), f, a)
       /\ Accounted(log[s], Start(s), Queued(s), LiveOf(s), SnapshotOf(s), a)
       /\ Balanced(log[s], resumes[s], Queued(s), LiveOf(s), SnapshotOf(s), f, a)
       /\ Below(SnapshotOf(s), LiveOf(s))

SourceInv(s) ==
  /\ Ordered(log[s])
  /\ InOrder(lines, s, log[s])
  /\ \E f \in Nat : ServerInv(s, f) /\ (s \notin forgot => \E a \in Nat : TabInv(s, f, a))

QuietInv == ~connected => /\ plan = <<>> /\ lines = <<>>
                          /\ \A s \in Src : streamer[s] = Off /\ resumes[s] = NoResume

FollowInv == WorldInv /\ QuietInv /\ \A s \in Src : SourceInv(s)

-----------------------------------------------------------------------------
(* Counting lines.                                                         *)

Hit(line, stamp, text) == IF line.at = stamp /\ line.text = text THEN 1 ELSE 0

\* A tally is finite.
LEMMA TallyNat ==
  ASSUME NEW lg \in Seq(Entry), NEW S, NEW stamp, NEW text
  PROVE  IsFiniteSet(S \cap Tied(lg, stamp, text)) /\ Tally(lg, S, stamp, text) \in Nat
<1>1. IsFiniteSet(1 .. Len(lg)) BY FS_Interval
<1>2. S \cap Tied(lg, stamp, text) \subseteq 1 .. Len(lg) BY DEF Tied
<1>3. IsFiniteSet(S \cap Tied(lg, stamp, text)) BY <1>1, <1>2, FS_Subset
<1> QED BY <1>3, FS_CardinalityType DEF Tally

\* Fewer lines, no larger a tally.
LEMMA TallySub ==
  ASSUME NEW lg \in Seq(Entry), NEW S, NEW T, NEW stamp, NEW text,
         S \cap Tied(lg, stamp, text) \subseteq T
  PROVE  Tally(lg, S, stamp, text) <= Tally(lg, T, stamp, text)
<1>1. S \cap Tied(lg, stamp, text) \subseteq T \cap Tied(lg, stamp, text) OBVIOUS
<1>2. IsFiniteSet(T \cap Tied(lg, stamp, text)) BY TallyNat
<1> QED BY <1>1, <1>2, FS_Subset DEF Tally

\* No line of that stamp and text, no tally.
LEMMA TallyNone ==
  ASSUME NEW lg \in Seq(Entry), NEW S, NEW stamp, NEW text, S \cap Tied(lg, stamp, text) = {}
  PROVE  Tally(lg, S, stamp, text) = 0
BY FS_EmptySet DEF Tally

\* One line more counts if it has the stamp and the text.
LEMMA TallyStep ==
  ASSUME NEW lg \in Seq(Entry), NEW S, NEW n \in DOMAIN lg, n \notin S, NEW stamp, NEW text
  PROVE  Tally(lg, S \cup {n}, stamp, text) = Tally(lg, S, stamp, text) + Hit(lg[n], stamp, text)
<1> DEFINE T == S \cap Tied(lg, stamp, text)
<1>1. IsFiniteSet(T) BY TallyNat
<1>2. CASE n \in Tied(lg, stamp, text)
  <2>1. (S \cup {n}) \cap Tied(lg, stamp, text) = T \cup {n} /\ n \notin T BY <1>2
  <2>2. Hit(lg[n], stamp, text) = 1 BY <1>2 DEF Hit, Tied
  <2> QED BY <1>1, <2>1, <2>2, FS_AddElement DEF Tally
<1>3. CASE n \notin Tied(lg, stamp, text)
  <2>1. (S \cup {n}) \cap Tied(lg, stamp, text) = T BY <1>3
  <2>2. Hit(lg[n], stamp, text) = 0 BY <1>3 DEF Hit, Tied
  <2>3. Tally(lg, S, stamp, text) \in Nat BY TallyNat
  <2>4. Tally(lg, S \cup {n}, stamp, text) = Tally(lg, S, stamp, text) BY <2>1 DEF Tally
  <2> QED BY <2>2, <2>3, <2>4
<1> QED BY <1>2, <1>3

\* One line less, likewise.
LEMMA TallyLess ==
  ASSUME NEW lg \in Seq(Entry), NEW S, NEW n \in DOMAIN lg, n \in S, NEW stamp, NEW text
  PROVE  Tally(lg, S, stamp, text) = Tally(lg, S \ {n}, stamp, text) + Hit(lg[n], stamp, text)
<1>1. S = (S \ {n}) \cup {n} OBVIOUS
<1>2. Tally(lg, (S \ {n}) \cup {n}, stamp, text) =
        Tally(lg, S \ {n}, stamp, text) + Hit(lg[n], stamp, text)
  BY TallyStep
<1> QED BY <1>1, <1>2

\* A log that grew: what stood in it still stands there.
Extends(lg2, lg) ==
  Len(lg) <= Len(lg2) /\ \A n \in 1 .. Len(lg) : lg2[n] = lg[n]

\* Lines of a log count the same once it has grown.
LEMMA TallyGrown ==
  ASSUME NEW lg \in Seq(Entry), NEW lg2 \in Seq(Entry), Extends(lg2, lg),
         NEW S, \A n \in S \cap DOMAIN lg2 : n <= Len(lg), NEW stamp, NEW text
  PROVE  Tally(lg2, S, stamp, text) = Tally(lg, S, stamp, text)
<1>1. Len(lg) \in Nat /\ Len(lg2) \in Nat /\ DOMAIN lg = 1 .. Len(lg) /\ DOMAIN lg2 = 1 .. Len(lg2)
  OBVIOUS
<1>2. \A n \in S : n \in DOMAIN lg2 <=> n \in DOMAIN lg BY <1>1 DEF Extends
<1>3. \A n \in S \cap DOMAIN lg : lg2[n] = lg[n] BY <1>1 DEF Extends
<1>4. S \cap Tied(lg2, stamp, text) = S \cap Tied(lg, stamp, text) BY <1>2, <1>3 DEF Tied
<1> QED BY <1>4 DEF Tally

\* What recording a stamped line does to stamp and counts.
LEMMA RecordedIs ==
  ASSUME NEW R \in Resume, NEW line \in Entry, line.at # 0
  PROVE  /\ line.at > R.stamp =>
              /\ Recorded(R, line).stamp = line.at
              /\ \A t \in Texts : Recorded(R, line).lines[t] = Hit(line, line.at, t)
         /\ line.at = R.stamp =>
              /\ Recorded(R, line).stamp = line.at
              /\ \A t \in Texts : Recorded(R, line).lines[t] = R.lines[t] + Hit(line, line.at, t)
<1>1. /\ line.at \in Nat /\ line.text \in Texts /\ R.lines \in [Texts -> Nat]
      /\ R.stamp \in Nat \cup {-1}
  BY DEF Entry, Resume
<1>2. CASE line.at > R.stamp
  <2>1. Recorded(R, line) = [stamp |-> line.at, lines |-> [NoCount EXCEPT ![line.text] = 1]]
    BY <1>1, <1>2 DEF Recorded
  <2>2. \A t \in Texts : [NoCount EXCEPT ![line.text] = 1][t] = Hit(line, line.at, t)
    BY DEF NoCount, Hit
  <2> QED BY <1>1, <1>2, <2>1, <2>2
<1>3. CASE line.at = R.stamp
  <2>1. Recorded(R, line) = [R EXCEPT !.lines[line.text] = @ + 1]
    BY <1>1, <1>3 DEF Recorded
  <2>2. R = [stamp |-> R.stamp, lines |-> R.lines] BY DEF Resume
  <2>3. Recorded(R, line).stamp = R.stamp
        /\ Recorded(R, line).lines = [R.lines EXCEPT ![line.text] = @ + 1]
    BY <2>1, <2>2
  <2>4. \A t \in Texts : [R.lines EXCEPT ![line.text] = @ + 1][t] = R.lines[t] + Hit(line, line.at, t)
    BY <1>1 DEF Hit
  <2> QED BY <1>1, <1>3, <2>3, <2>4
<1> QED BY <1>1, <1>2, <1>3

\* What matching a replay does to stamp and counts.
LEMMA MatchedIs ==
  ASSUME NEW R \in Resume, NEW line \in Entry
  PROVE  /\ Matched(R, line).stamp = R.stamp
         /\ \A t \in Texts : Matched(R, line).lines[t] = R.lines[t] - Hit(line, R.stamp, t)
<1>1. /\ line.at \in Nat /\ line.text \in Texts /\ R.lines \in [Texts -> Nat]
      /\ R.stamp \in Nat \cup {-1}
  BY DEF Entry, Resume
<1>2. CASE line.at # R.stamp
  <2>1. \A t \in Texts : Hit(line, R.stamp, t) = 0 /\ R.lines[t] \in Nat BY <1>1, <1>2 DEF Hit
  <2>2. Matched(R, line) = R BY <1>2 DEF Matched
  <2> QED BY <2>1, <2>2
<1>3. CASE line.at = R.stamp
  <2>1. Matched(R, line) = [R EXCEPT !.lines[line.text] = @ - 1]
    BY <1>3 DEF Matched
  <2>2. R = [stamp |-> R.stamp, lines |-> R.lines] BY DEF Resume
  <2>3. Matched(R, line).stamp = R.stamp
        /\ Matched(R, line).lines = [R.lines EXCEPT ![line.text] = @ - 1]
    BY <2>1, <2>2
  <2>4. \A t \in Texts : [R.lines EXCEPT ![line.text] = @ - 1][t] = R.lines[t] - Hit(line, R.stamp, t)
    BY <1>1, <1>3 DEF Hit
  <2> QED BY <2>3, <2>4
<1> QED BY <1>2, <1>3

\* Places of stamped lines are ordered as their stamps are.
Placed(lg)  == Marked(lg) \cup {0}

\* In an ordered log, later places have no smaller stamps.
LEMMA AtFacts ==
  ASSUME NEW lg \in Seq(Entry), Ordered(lg)
  PROVE  /\ \A n \in Placed(lg) : n \in Nat /\ At(lg, n) \in Nat \cup {-1}
         /\ \A n \in Marked(lg) : n \in 1 .. Len(lg) /\ lg[n] \in Entry /\ At(lg, n) = lg[n].at
                                  /\ At(lg, n) \in Nat \ {0}
         /\ \A m, n \in Placed(lg) : m <= n => At(lg, m) <= At(lg, n)
         /\ At(lg, 0) = -1
<1>1. \A n \in Marked(lg) : n \in 1 .. Len(lg) /\ lg[n] \in Entry /\ lg[n].at # 0 BY DEF Marked
<1>2. \A n \in Marked(lg) : lg[n].at \in Nat \ {0} BY <1>1 DEF Entry
<1>3. \A n \in Marked(lg) : At(lg, n) = lg[n].at BY <1>1 DEF At
<1>4. At(lg, 0) = -1 BY DEF At
<1>5. \A m, n \in Placed(lg) : m <= n => At(lg, m) <= At(lg, n)
  <2> SUFFICES ASSUME NEW m \in Placed(lg), NEW n \in Placed(lg), m <= n
               PROVE  At(lg, m) <= At(lg, n)
    OBVIOUS
  <2>1. CASE m = 0 /\ n = 0 BY <2>1, <1>4
  <2>2. CASE m = 0 /\ n \in Marked(lg)
    <3>1. At(lg, n) \in Nat BY <2>2, <1>2, <1>3
    <3>2. At(lg, m) = -1 BY <2>2, <1>4
    <3> QED BY <3>1, <3>2
  <2>3. CASE m \in Marked(lg) /\ n \in Marked(lg) BY <2>3, <1>3 DEF Ordered
  <2>4. CASE m \in Marked(lg) /\ n = 0
    <3>1. m \in DOMAIN lg BY <2>4 DEF Marked
    <3>2. m \in 1 .. Len(lg) BY <3>1
    <3>3. m >= 1 BY <3>2
    <3> QED BY <3>3, <2>4
  <2> QED BY <2>1, <2>2, <2>3, <2>4 DEF Placed
<1> QED BY <1>1, <1>2, <1>3, <1>4, <1>5 DEF Placed

-----------------------------------------------------------------------------
(* The server's record under growth of the log.                            *)

\* A grown log keeps its places and their stamps.
LEMMA ExtendsFacts ==
  ASSUME NEW lg \in Seq(Entry), NEW lg2 \in Seq(Entry), Extends(lg2, lg)
  PROVE  /\ \A n \in Marked(lg) : n \in Marked(lg2)
         /\ \A n \in Marked(lg2) : n <= Len(lg) => n \in Marked(lg)
         /\ \A n \in Placed(lg) : n \in Placed(lg2) /\ At(lg2, n) = At(lg, n) /\ n <= Len(lg)
                                  /\ n \in Nat
         /\ \A n \in Placed(lg2) : n <= Len(lg) => n \in Placed(lg)
<1>1. Len(lg) \in Nat /\ Len(lg2) \in Nat /\ DOMAIN lg = 1 .. Len(lg) /\ DOMAIN lg2 = 1 .. Len(lg2)
  OBVIOUS
<1>2. \A n \in 1 .. Len(lg) : n \in DOMAIN lg2 /\ lg2[n] = lg[n] /\ n \in Nat /\ n <= Len(lg)
  BY <1>1 DEF Extends
<1>3. \A n \in Marked(lg) : n \in Marked(lg2) BY <1>1, <1>2 DEF Marked
<1>4. \A n \in Marked(lg2) : n <= Len(lg) => n \in Marked(lg) BY <1>1, <1>2 DEF Marked
<1>5. \A n \in Marked(lg) : At(lg2, n) = At(lg, n) /\ n <= Len(lg) /\ n \in Nat
  BY <1>1, <1>2 DEF Marked, At
<1>6. At(lg2, 0) = At(lg, 0) /\ 0 <= Len(lg) BY <1>1 DEF At
<1> QED BY <1>3, <1>4, <1>5, <1>6 DEF Placed

\* The record stays right when the log grows and its tail moves on.
LEMMA RecordingGrown ==
  ASSUME NEW lg \in Seq(Entry), NEW lg2 \in Seq(Entry), Extends(lg2, lg),
         NEW R \in Resume, NEW f \in Placed(lg),
         NEW start \in Nat, NEW start2 \in Nat, start <= start2,
         Recording(lg, start, R, f)
  PROVE  Recording(lg2, start2, R, f)
<1>1. At(lg2, f) = At(lg, f) /\ f <= Len(lg) /\ f \in Nat /\ Len(lg) \in Nat BY ExtendsFacts
<1>2. CASE f = 0 BY <1>2 DEF Recording
<1>3. CASE f > 0
  <2>1. R.stamp = At(lg2, f) BY <1>1, <1>3 DEF Recording
  <2>2. ASSUME NEW t \in Texts PROVE Tally(lg2, start2 .. f, At(lg2, f), t) <= R.lines[t]
    <3>0. PICK A : A = At(lg, f) OBVIOUS
    <3>1. Tally(lg2, start2 .. f, A, t) = Tally(lg, start2 .. f, A, t)
      <4>1. \A n \in (start2 .. f) \cap DOMAIN lg2 : n <= Len(lg) BY <1>1
      <4> QED BY <1>1, <4>1, TallyGrown
    <3>2. Tally(lg, start2 .. f, A, t) <= Tally(lg, start .. f, A, t)
      <4>1. (start2 .. f) \subseteq start .. f BY <1>1
      <4> QED BY <4>1, TallySub
    <3>3. Tally(lg, start .. f, A, t) <= R.lines[t] BY <3>0, <1>1, <1>3 DEF Recording
    <3>4. /\ Tally(lg, start2 .. f, A, t) \in Nat /\ Tally(lg, start .. f, A, t) \in Nat
          /\ R.lines[t] \in Nat
      BY TallyNat DEF Resume
    <3>5. Tally(lg2, start2 .. f, A, t) <= R.lines[t] BY <3>1, <3>2, <3>3, <3>4
    <3> QED BY <3>0, <3>5, <1>1
  <2> QED BY <2>1, <2>2, <1>3 DEF Recording
<1> QED BY <1>1, <1>2, <1>3

\* So does a read that is under way.
LEMMA ReadingGrown ==
  ASSUME NEW lg \in Seq(Entry), NEW lg2 \in Seq(Entry), Extends(lg2, lg),
         NEW R \in Resume, NEW C \in Resume, NEW f \in Placed(lg),
         NEW start \in Nat, NEW start2 \in Nat, start <= start2,
         NEW nx \in Nat, nx <= Len(lg) + 1,
         Reading(lg, start, R, C, nx, f)
  PROVE  Reading(lg2, start2, R, C, nx, f)
<1>0. PICK A : A = At(lg, f) OBVIOUS
<1>1. At(lg2, f) = A /\ f <= Len(lg) /\ f \in Nat /\ Len(lg) \in Nat BY <1>0, ExtendsFacts
<1>2. nx <= f => \A t \in Texts : Tally(lg2, nx .. f, A, t) <= C.lines[t]
  <2> SUFFICES ASSUME nx <= f, NEW t \in Texts PROVE Tally(lg2, nx .. f, A, t) <= C.lines[t]
    OBVIOUS
  <2>1. \A n \in (nx .. f) \cap DOMAIN lg2 : n <= Len(lg) BY <1>1
  <2>2. Tally(lg2, nx .. f, A, t) = Tally(lg, nx .. f, A, t) BY <1>1, <2>1, TallyGrown
  <2> QED BY <1>0, <2>2 DEF Reading
<1>3. ASSUME f > 0, NEW t \in Texts
      PROVE  Tally(lg2, start2 .. nx - 1, A, t)
               + (IF C.stamp = A THEN C.lines[t] ELSE 0) <= R.lines[t]
  <2>1. \A n \in (start2 .. nx - 1) \cap DOMAIN lg2 : n <= Len(lg) BY <1>1
  <2>2. Tally(lg2, start2 .. nx - 1, A, t) = Tally(lg, start2 .. nx - 1, A, t)
    BY <2>1, TallyGrown
  <2>3. start2 .. nx - 1 \subseteq start .. nx - 1 BY <1>1
  <2>4. Tally(lg, start2 .. nx - 1, A, t) <= Tally(lg, start .. nx - 1, A, t) BY <2>3, TallySub
  <2>5. Tally(lg, start .. nx - 1, A, t)
          + (IF C.stamp = A THEN C.lines[t] ELSE 0) <= R.lines[t]
    BY <1>0, <1>3 DEF Reading
  <2>6. /\ Tally(lg, start2 .. nx - 1, A, t) \in Nat /\ Tally(lg, start .. nx - 1, A, t) \in Nat
        /\ R.lines[t] \in Nat /\ C.lines[t] \in Nat
    BY TallyNat DEF Resume
  <2> QED BY <2>2, <2>4, <2>5, <2>6
<1>4. ASSUME NEW m \in Marked(lg2), start2 <= m, m < nx PROVE m <= f \/ lg2[m].at <= C.stamp
  <2>1. m \in Nat BY DEF Marked
  <2>2. m \in Marked(lg) BY <1>1, <1>4, <2>1, ExtendsFacts
  <2>3. lg2[m] = lg[m] BY <2>2 DEF Marked, Extends
  <2>4. m <= f \/ lg[m].at <= C.stamp BY <1>4, <2>1, <2>2 DEF Reading
  <2> QED BY <2>3, <2>4
<1>5. /\ nx <= f => C.stamp = A
      /\ C.stamp <= A /\ (C.stamp < A => f < nx)
  BY <1>0 DEF Reading
<1> QED BY <1>1, <1>2, <1>3, <1>4, <1>5 DEF Reading

-----------------------------------------------------------------------------
(* The server's record over an open and over the turns of a read.          *)

\* A read that opens at the tail with a clone of the record is right.
LEMMA ReadingOpens ==
  ASSUME NEW lg \in Seq(Entry), Ordered(lg), NEW R \in Resume, NEW f \in Placed(lg),
         NEW start \in Nat, Recording(lg, start, R, f)
  PROVE  Reading(lg, start, R, R, start, f)
<1>1. f \in Nat /\ At(lg, f) \in Int /\ At(lg, 0) = -1 BY AtFacts
<1>2. R.stamp = At(lg, f)
  <2>1. CASE f = 0 BY <2>1, <1>1 DEF Recording, NoResume
  <2>2. CASE f # 0 BY <2>2 DEF Recording
  <2> QED BY <2>1, <2>2
<1>3. start <= f => \A t \in Texts : Tally(lg, start .. f, At(lg, f), t) <= R.lines[t]
  <2>1. CASE f = 0
    <3> SUFFICES ASSUME NEW t \in Texts PROVE Tally(lg, start .. f, At(lg, f), t) <= R.lines[t]
      OBVIOUS
    <3>1. (start .. f) \cap Tied(lg, At(lg, f), t) = {} BY <2>1, <1>1 DEF Tied
    <3>2. Tally(lg, start .. f, At(lg, f), t) = 0 BY <3>1, TallyNone
    <3>3. R.lines[t] \in Nat BY DEF Resume
    <3> QED BY <3>2, <3>3
  <2>2. CASE f # 0 BY <2>2 DEF Recording
  <2> QED BY <2>1, <2>2
<1>4. ASSUME NEW t \in Texts
      PROVE  Tally(lg, start .. start - 1, At(lg, f), t)
               + (IF R.stamp = At(lg, f) THEN R.lines[t] ELSE 0) <= R.lines[t]
  <2>1. (start .. start - 1) \cap Tied(lg, At(lg, f), t) = {} OBVIOUS
  <2>2. Tally(lg, start .. start - 1, At(lg, f), t) = 0 BY <2>1, TallyNone
  <2>3. R.lines[t] \in Nat BY DEF Resume
  <2> QED BY <2>2, <2>3
<1>5. \A m \in Marked(lg) : ~(start <= m /\ m < start)
  <2>1. \A m \in Marked(lg) : m \in Nat BY DEF Marked
  <2> QED BY <2>1
<1> QED BY <1>1, <1>2, <1>3, <1>4, <1>5 DEF Reading

\* One more line at the end of a range.
LEMMA TallyNext ==
  ASSUME NEW lg \in Seq(Entry), NEW start \in Nat, NEW nx \in DOMAIN lg, NEW stamp, NEW text
  PROVE  Tally(lg, start .. (nx + 1) - 1, stamp, text)
           <= Tally(lg, start .. nx - 1, stamp, text) + Hit(lg[nx], stamp, text)
<1> DEFINE S == start .. nx - 1
<1>1. nx \in Nat /\ nx \notin S OBVIOUS
<1>2. start .. (nx + 1) - 1 \subseteq S \cup {nx} BY <1>1
<1> HIDE DEF S
<1>3. Tally(lg, S \cup {nx}, stamp, text) = Tally(lg, S, stamp, text) + Hit(lg[nx], stamp, text)
  BY <1>1, TallyStep
<1>4. (start .. (nx + 1) - 1) \cap Tied(lg, stamp, text) \subseteq S \cup {nx} BY <1>2
<1>5. Tally(lg, start .. (nx + 1) - 1, stamp, text) <= Tally(lg, S \cup {nx}, stamp, text)
  BY <1>4, TallySub
<1> QED BY <1>3, <1>5 DEF S

\* One line less at its beginning.
LEMMA TallyPrevious ==
  ASSUME NEW lg \in Seq(Entry), NEW f \in Nat, NEW nx \in DOMAIN lg, nx <= f, NEW stamp, NEW text
  PROVE  Tally(lg, nx .. f, stamp, text)
           = Tally(lg, nx + 1 .. f, stamp, text) + Hit(lg[nx], stamp, text)
<1> DEFINE S == nx + 1 .. f
<1>1. nx \in Nat /\ nx \notin S OBVIOUS
<1>2. nx .. f = S \cup {nx} BY <1>1
<1> HIDE DEF S
<1>3. Tally(lg, S \cup {nx}, stamp, text) = Tally(lg, S, stamp, text) + Hit(lg[nx], stamp, text)
  BY <1>1, TallyStep
<1> QED BY <1>2, <1>3 DEF S

\* A line hits once or not at all.
LEMMA HitNat ==
  ASSUME NEW line, NEW stamp, NEW text PROVE Hit(line, stamp, text) \in {0, 1}
BY DEF Hit

\* A replayed line is dropped: it was delivered, and the clone counted it.
LEMMA ReadingDrops ==
  ASSUME NEW lg \in Seq(Entry), Ordered(lg), NEW R \in Resume, NEW C \in Resume,
         NEW f \in Placed(lg), NEW start \in Nat, NEW nx \in DOMAIN lg,
         Replayed(C, lg[nx]), Reading(lg, start, R, C, nx, f)
  PROVE  Reading(lg, start, R, Matched(C, lg[nx]), nx + 1, f)
<1>0. PICK A, line, D : A = At(lg, f) /\ line = lg[nx] /\ D = Matched(C, line) OBVIOUS
<1>1. f \in Nat /\ A \in Int /\ nx \in Nat /\ line \in Entry /\ C.stamp \in Int
      /\ (f > 0 => A \in Nat \ {0})
  BY <1>0, AtFacts DEF Placed, Resume
<1>2. line.at \in Nat /\ line.at # 0 /\ line.at <= C.stamp
  BY <1>0, <1>1 DEF Replayed, Entry
<1>3. D.stamp = C.stamp /\ \A t \in Texts : D.lines[t] = C.lines[t] - Hit(line, C.stamp, t)
  BY <1>0, <1>1, MatchedIs
<1>4. /\ nx <= f => C.stamp = A /\ \A t \in Texts : Tally(lg, nx .. f, A, t) <= C.lines[t]
      /\ C.stamp <= A /\ (C.stamp < A => f < nx)
      /\ f > 0 => \A t \in Texts :
           Tally(lg, start .. nx - 1, A, t) + (IF C.stamp = A THEN C.lines[t] ELSE 0) <= R.lines[t]
      /\ \A m \in Marked(lg) : start <= m /\ m < nx => m <= f \/ lg[m].at <= C.stamp
  BY <1>0 DEF Reading
<1>5. nx + 1 <= f => D.stamp = A BY <1>1, <1>3, <1>4
<1>10. ASSUME nx + 1 <= f, NEW t \in Texts PROVE Tally(lg, nx + 1 .. f, A, t) <= D.lines[t]
  <2>1. nx <= f BY <1>1, <1>10
  <2>2. Tally(lg, nx .. f, A, t) = Tally(lg, nx + 1 .. f, A, t) + Hit(line, A, t)
    BY <1>0, <1>1, <2>1, TallyPrevious
  <2>3. C.stamp = A /\ Tally(lg, nx .. f, A, t) <= C.lines[t] BY <1>4, <2>1
  <2>4. D.lines[t] = C.lines[t] - Hit(line, A, t) BY <1>3, <2>3
  <2>5. /\ Tally(lg, nx + 1 .. f, A, t) \in Nat /\ C.lines[t] \in Nat /\ Hit(line, A, t) \in {0, 1}
    BY TallyNat, HitNat DEF Resume
  <2> QED BY <1>3, <2>2, <2>3, <2>4, <2>5
<1>6. D.stamp <= A /\ (D.stamp < A => f < nx + 1) BY <1>1, <1>3, <1>4
<1>7. ASSUME f > 0, NEW t \in Texts
      PROVE  Tally(lg, start .. (nx + 1) - 1, A, t) + (IF D.stamp = A THEN D.lines[t] ELSE 0) <= R.lines[t]
  <2>1. Tally(lg, start .. (nx + 1) - 1, A, t) <= Tally(lg, start .. nx - 1, A, t) + Hit(line, A, t)
    BY <1>0, TallyNext
  <2>2. /\ Tally(lg, start .. (nx + 1) - 1, A, t) \in Nat /\ Tally(lg, start .. nx - 1, A, t) \in Nat
        /\ C.lines[t] \in Nat /\ R.lines[t] \in Nat /\ Hit(line, A, t) \in {0, 1}
    BY TallyNat, HitNat DEF Resume
  <2>3. Tally(lg, start .. nx - 1, A, t) + (IF C.stamp = A THEN C.lines[t] ELSE 0) <= R.lines[t]
    BY <1>4, <1>7
  <2>4. CASE C.stamp = A
    <3>1. D.lines[t] = C.lines[t] - Hit(line, A, t) BY <1>3, <2>4
    <3> QED BY <1>3, <2>1, <2>2, <2>3, <2>4, <3>1
  <2>5. CASE C.stamp # A
    <3>1. Hit(line, A, t) = 0 BY <1>1, <1>2, <1>4, <2>5 DEF Hit
    <3> QED BY <1>3, <2>1, <2>2, <2>3, <2>5, <3>1
  <2> QED BY <2>4, <2>5
<1>8. ASSUME NEW m \in Marked(lg), start <= m, m < nx + 1 PROVE m <= f \/ lg[m].at <= D.stamp
  <2>1. m \in Nat BY DEF Marked
  <2>2. CASE m = nx BY <1>0, <1>2, <1>3, <2>2
  <2>3. CASE m # nx BY <1>1, <1>3, <1>4, <1>8, <2>1, <2>3
  <2> QED BY <2>2, <2>3
<1>9. Reading(lg, start, R, D, nx + 1, f)
  BY <1>0, <1>5, <1>10, <1>6, <1>7, <1>8 DEF Reading
<1> QED BY <1>0, <1>9

\* A line without a stamp passes unrecorded.
LEMMA ReadingPasses ==
  ASSUME NEW lg \in Seq(Entry), Ordered(lg), NEW R \in Resume, NEW C \in Resume,
         NEW f \in Placed(lg), NEW start \in Nat, NEW nx \in DOMAIN lg,
         lg[nx].at = 0, Reading(lg, start, R, C, nx, f)
  PROVE  Reading(lg, start, R, C, nx + 1, f)
<1>0. PICK A, line : A = At(lg, f) /\ line = lg[nx] OBVIOUS
<1>1. f \in Nat /\ A \in Int /\ nx \in Nat /\ C.stamp \in Int /\ (f > 0 => A \in Nat \ {0})
  BY <1>0, AtFacts DEF Placed, Resume
<1>4. /\ nx <= f => C.stamp = A /\ \A t \in Texts : Tally(lg, nx .. f, A, t) <= C.lines[t]
      /\ C.stamp <= A /\ (C.stamp < A => f < nx)
      /\ f > 0 => \A t \in Texts :
           Tally(lg, start .. nx - 1, A, t) + (IF C.stamp = A THEN C.lines[t] ELSE 0) <= R.lines[t]
      /\ \A m \in Marked(lg) : start <= m /\ m < nx => m <= f \/ lg[m].at <= C.stamp
  BY <1>0 DEF Reading
<1>5. nx + 1 <= f => C.stamp = A BY <1>1, <1>4
<1>10. ASSUME nx + 1 <= f, NEW t \in Texts PROVE Tally(lg, nx + 1 .. f, A, t) <= C.lines[t]
  <2>1. nx <= f BY <1>1, <1>10
  <2>2. Tally(lg, nx .. f, A, t) = Tally(lg, nx + 1 .. f, A, t) + Hit(line, A, t)
    BY <1>0, <1>1, <2>1, TallyPrevious
  <2>3. C.stamp = A /\ Tally(lg, nx .. f, A, t) <= C.lines[t] BY <1>4, <2>1
  <2>4. /\ Tally(lg, nx + 1 .. f, A, t) \in Nat /\ C.lines[t] \in Nat /\ Hit(line, A, t) \in {0, 1}
    BY TallyNat, HitNat DEF Resume
  <2> QED BY <2>2, <2>3, <2>4
<1>6. C.stamp <= A /\ (C.stamp < A => f < nx + 1) BY <1>1, <1>4
<1>7. ASSUME f > 0, NEW t \in Texts
      PROVE  Tally(lg, start .. (nx + 1) - 1, A, t) + (IF C.stamp = A THEN C.lines[t] ELSE 0) <= R.lines[t]
  <2>1. Tally(lg, start .. (nx + 1) - 1, A, t) <= Tally(lg, start .. nx - 1, A, t) + Hit(line, A, t)
    BY <1>0, TallyNext
  <2>2. /\ Tally(lg, start .. (nx + 1) - 1, A, t) \in Nat /\ Tally(lg, start .. nx - 1, A, t) \in Nat
        /\ C.lines[t] \in Nat /\ R.lines[t] \in Nat
    BY TallyNat DEF Resume
  <2>3. Tally(lg, start .. nx - 1, A, t) + (IF C.stamp = A THEN C.lines[t] ELSE 0) <= R.lines[t]
    BY <1>4, <1>7
  <2>4. Hit(line, A, t) = 0 BY <1>0, <1>1, <1>7 DEF Hit
  <2> QED BY <2>1, <2>2, <2>3, <2>4
<1>8. ASSUME NEW m \in Marked(lg), start <= m, m < nx + 1 PROVE m <= f \/ lg[m].at <= C.stamp
  <2>1. m \in Nat /\ m # nx BY DEF Marked
  <2> QED BY <1>1, <1>4, <1>8, <2>1
<1> QED BY <1>0, <1>5, <1>10, <1>6, <1>7, <1>8 DEF Reading

\* A line that is no replay is new: nothing at or behind it was sent.
LEMMA ReadingSends ==
  ASSUME NEW lg \in Seq(Entry), Ordered(lg), NEW R \in Resume, NEW C \in Resume,
         NEW f \in Placed(lg), NEW start \in Nat, NEW nx \in DOMAIN lg,
         lg[nx].at # 0, ~Replayed(C, lg[nx]),
         Recording(lg, start, R, f), Reading(lg, start, R, C, nx, f)
  PROVE  /\ f < nx
         /\ Recording(lg, start, Recorded(R, lg[nx]), nx)
         /\ Reading(lg, start, Recorded(R, lg[nx]), C, nx + 1, nx)
<1>0. PICK A, line, B, N : A = At(lg, f) /\ line = lg[nx] /\ B = At(lg, nx) /\ N = Recorded(R, line)
  OBVIOUS
<1>1. f \in Nat /\ A \in Int /\ nx \in Nat \ {0} /\ line \in Entry /\ C.stamp \in Int
      /\ R.stamp \in Int /\ nx \in Marked(lg) /\ nx \in Placed(lg) /\ line.at # 0
  BY <1>0, AtFacts DEF Placed, Resume, Marked
<1>2. B = line.at /\ B \in Nat \ {0} /\ line.text \in Texts
  BY <1>0, <1>1, AtFacts DEF Entry
<1>4. /\ nx <= f => C.stamp = A /\ \A t \in Texts : Tally(lg, nx .. f, A, t) <= C.lines[t]
      /\ C.stamp <= A /\ (C.stamp < A => f < nx)
      /\ f > 0 => \A t \in Texts :
           Tally(lg, start .. nx - 1, A, t) + (IF C.stamp = A THEN C.lines[t] ELSE 0) <= R.lines[t]
      /\ \A m \in Marked(lg) : start <= m /\ m < nx => m <= f \/ lg[m].at <= C.stamp
  BY <1>0 DEF Reading
<1>5. f < nx
  <2> SUFFICES ASSUME nx <= f PROVE FALSE BY <1>1
  <2>1. B <= A BY <1>0, <1>1, AtFacts
  <2>2. C.stamp = A /\ Tally(lg, nx .. f, A, line.text) <= C.lines[line.text] BY <1>2, <1>4
  <2>3. Tally(lg, nx .. f, A, line.text)
          = Tally(lg, nx + 1 .. f, A, line.text) + Hit(line, A, line.text)
    BY <1>0, <1>1, TallyPrevious
  <2>4. Tally(lg, nx + 1 .. f, A, line.text) \in Nat BY TallyNat
  <2>5. CASE B = A
    <3>1. Hit(line, A, line.text) = 1 BY <1>2, <2>5 DEF Hit
    <3>2. C.lines[line.text] > 0
      <4>1. C.lines[line.text] \in Nat BY <1>2 DEF Resume
      <4> QED BY <2>2, <2>3, <2>4, <3>1, <4>1
    <3> QED BY <3>2, <1>0, <1>1, <1>2, <2>2, <2>5 DEF Replayed
  <2>6. CASE B # A BY <1>0, <1>1, <1>2, <2>1, <2>2, <2>6 DEF Replayed
  <2> QED BY <2>5, <2>6
<1>6. A <= B BY <1>0, <1>1, <1>5, AtFacts
<1>7. R.stamp = A /\ (f = 0 => A = -1)
  <2>1. CASE f = 0 BY <2>1, <1>0, AtFacts DEF Recording, NoResume
  <2>2. CASE f # 0 BY <2>2, <1>0 DEF Recording
  <2> QED BY <2>1, <2>2
<1>8. N.stamp = B BY <1>0, <1>1, <1>2, <1>6, <1>7, RecordedIs
<1>9. ASSUME NEW t \in Texts
      PROVE  Tally(lg, start .. (nx + 1) - 1, B, t) + (IF C.stamp = B THEN C.lines[t] ELSE 0) <= N.lines[t]
  <2>1. Tally(lg, start .. (nx + 1) - 1, B, t) <= Tally(lg, start .. nx - 1, B, t) + Hit(line, B, t)
    BY <1>0, TallyNext
  <2>2. /\ Tally(lg, start .. (nx + 1) - 1, B, t) \in Nat /\ Tally(lg, start .. nx - 1, B, t) \in Nat
        /\ C.lines[t] \in Nat /\ R.lines[t] \in Nat /\ Hit(line, B, t) \in {0, 1}
    BY TallyNat, HitNat DEF Resume
  <2>3. CASE A = B
    <3>1. f > 0 BY <1>1, <1>2, <1>7, <2>3
    <3>2. Tally(lg, start .. nx - 1, B, t) + (IF C.stamp = B THEN C.lines[t] ELSE 0) <= R.lines[t]
      BY <1>4, <2>3, <3>1
    <3>3. N.lines[t] = R.lines[t] + Hit(line, B, t)
      BY <1>0, <1>1, <1>2, <1>7, <2>3, RecordedIs
    <3>4. CASE C.stamp = B BY <2>1, <2>2, <3>2, <3>3, <3>4
    <3>5. CASE C.stamp # B BY <2>1, <2>2, <3>2, <3>3, <3>5
    <3> QED BY <3>4, <3>5
  <2>4. CASE A # B
    <3>1. C.stamp < B BY <1>1, <1>2, <1>4, <1>6, <2>4
    <3>2. (start .. nx - 1) \cap Tied(lg, B, t) = {}
      <4> SUFFICES ASSUME NEW m \in start .. nx - 1, m \in Tied(lg, B, t) PROVE FALSE OBVIOUS
      <4>1. lg[m].at = B /\ m \in Marked(lg) BY <1>2 DEF Tied, Marked
      <4>2. start <= m /\ m < nx /\ m \in Nat BY <1>1
      <4>3. CASE m <= f
        <5>1. At(lg, m) <= A /\ At(lg, m) = B BY <4>1, <4>3, <1>0, AtFacts DEF Placed
        <5> QED BY <5>1, <1>1, <1>2, <1>6, <2>4
      <4>4. CASE lg[m].at <= C.stamp BY <4>1, <4>4, <3>1, <1>1, <1>2
      <4> QED BY <4>1, <4>2, <4>3, <4>4, <1>4
    <3>3. Tally(lg, start .. nx - 1, B, t) = 0 BY <3>2, TallyNone
    <3>4. N.lines[t] = Hit(line, B, t)
      BY <1>0, <1>1, <1>2, <1>6, <1>7, <2>4, RecordedIs
    <3> QED BY <1>1, <2>1, <2>2, <3>1, <3>3, <3>4
  <2> QED BY <2>3, <2>4
<1>10. Recording(lg, start, N, nx)
  <2>1. \A t \in Texts : Tally(lg, start .. nx, B, t) <= N.lines[t]
    <3> SUFFICES ASSUME NEW t \in Texts PROVE Tally(lg, start .. nx, B, t) <= N.lines[t] OBVIOUS
    <3>1. (nx + 1) - 1 = nx BY <1>1
    <3>2. Tally(lg, start .. nx, B, t) + (IF C.stamp = B THEN C.lines[t] ELSE 0) <= N.lines[t]
      BY <1>9, <3>1
    <3>3. N \in Resume BY <1>0, <1>1, RecordedTyped
    <3>4. Tally(lg, start .. nx, B, t) \in Nat /\ C.lines[t] \in Nat /\ N.lines[t] \in Nat
      BY <3>3, TallyNat DEF Resume
    <3> QED BY <3>2, <3>4
  <2> QED BY <2>1, <1>0, <1>1, <1>8 DEF Recording
<1>11. Reading(lg, start, N, C, nx + 1, nx)
  <2>1. ~(nx + 1 <= nx) /\ nx < nx + 1 BY <1>1
  <2>2. C.stamp <= B BY <1>1, <1>2, <1>4, <1>6
  <2>3. \A m \in Marked(lg) : m < nx + 1 => m <= nx
    <3>1. \A m \in Marked(lg) : m \in Nat BY DEF Marked
    <3> QED BY <3>1, <1>1
  <2> QED BY <2>1, <2>2, <2>3, <1>0, <1>9 DEF Reading
<1> QED BY <1>0, <1>5, <1>10, <1>11

-----------------------------------------------------------------------------
(* The tab's record while the log grows and the server sends.              *)

\* Tracking a source is recording it, with the same rule.
LEMMA TrackingIsRecording ==
  ASSUME NEW lg, NEW start, NEW L, NEW a
  PROVE  Tracking(lg, start, L, a) <=> Recording(lg, start, L, a)
BY DEF Tracking, Recording

\* Fewer old lines to come, and the filter still hides them all.
LEMMA FilteringShrinks ==
  ASSUME NEW lg \in Seq(Entry), NEW lg2 \in Seq(Entry), Extends(lg2, lg), NEW a \in Placed(lg),
         NEW D \in Resume, NEW Q, NEW Q2, NEW lo, NEW lo2, NEW f, NEW f2,
         Coming(lg2, Q2, lo2, f2, a) \subseteq Coming(lg, Q, lo, f, a),
         Filtering(lg, Q, lo, D, f, a)
  PROVE  Filtering(lg2, Q2, lo2, D, f2, a)
<1>0. PICK A, X, Y : A = At(lg, a) /\ X = Coming(lg, Q, lo, f, a) /\ Y = Coming(lg2, Q2, lo2, f2, a)
  OBVIOUS
<1>1. At(lg2, a) = A /\ a <= Len(lg) /\ a \in Nat /\ Len(lg) \in Nat BY <1>0, ExtendsFacts
<1>2. X # {} => D.stamp = A /\ \A t \in Texts : Tally(lg, X, A, t) <= D.lines[t]
  BY <1>0 DEF Filtering
<1>3. Y \subseteq X BY <1>0
<1>4. \A n \in X : n \in Nat /\ n <= Len(lg)
  <2>1. \A n \in Marked(lg) : n \in Nat /\ n <= Len(lg) BY DEF Marked
  <2> QED BY <2>1, <1>0 DEF Coming
<1>5. ASSUME X # {}, NEW t \in Texts PROVE Tally(lg2, Y, A, t) <= D.lines[t]
  <2>1. \A n \in Y \cap DOMAIN lg2 : n <= Len(lg) BY <1>3, <1>4
  <2>2. Tally(lg2, Y, A, t) = Tally(lg, Y, A, t) BY <2>1, TallyGrown
  <2>3. Tally(lg, Y, A, t) <= Tally(lg, X, A, t) BY <1>3, TallySub
  <2>4. Tally(lg, Y, A, t) \in Nat /\ Tally(lg, X, A, t) \in Nat /\ D.lines[t] \in Nat
    BY TallyNat DEF Resume
  <2> QED BY <2>2, <2>3, <2>4, <1>2, <1>5
<1> QED BY <1>0, <1>1, <1>2, <1>3, <1>5 DEF Filtering

\* The account stays right when the log grows and its tail moves on.
LEMMA AccountedGrown ==
  ASSUME NEW lg \in Seq(Entry), NEW lg2 \in Seq(Entry), Extends(lg2, lg),
         NEW a \in Placed(lg), NEW Q, Q \subseteq Marked(lg),
         NEW start \in Nat, NEW start2 \in Nat, start <= start2, NEW L, NEW D,
         \A stamp : \A t \in Texts : Passed(L, D, stamp, t) \in Int,
         Accounted(lg, start, Q, L, D, a)
  PROVE  Accounted(lg2, start2, Q, L, D, a)
<1> SUFFICES ASSUME NEW n \in Q, At(lg2, n) >= At(lg2, a), NEW t \in Texts
             PROVE  Tally(lg2, start2 .. n, At(lg2, n), t)
                      <= Tally(lg2, {m \in Q : m <= n}, At(lg2, n), t)
                         + Passed(L, D, At(lg2, n), t)
  BY DEF Accounted
<1>0. PICK A, X : A = At(lg, n) /\ X = {m \in Q : m <= n} OBVIOUS
<1>1. n \in Placed(lg) BY DEF Placed
<1>2. At(lg2, n) = A /\ At(lg2, a) = At(lg, a) /\ n <= Len(lg) /\ n \in Nat /\ Len(lg) \in Nat
  BY <1>0, <1>1, ExtendsFacts
<1>3. Tally(lg, start .. n, A, t) <= Tally(lg, X, A, t) + Passed(L, D, A, t)
  BY <1>0, <1>2 DEF Accounted
<1>4. Tally(lg2, start2 .. n, A, t) = Tally(lg, start2 .. n, A, t)
  <2>1. \A m \in (start2 .. n) \cap DOMAIN lg2 : m <= Len(lg) BY <1>2
  <2> QED BY <1>2, <2>1, TallyGrown
<1>5. Tally(lg, start2 .. n, A, t) <= Tally(lg, start .. n, A, t)
  <2>1. (start2 .. n) \subseteq start .. n BY <1>2
  <2> QED BY <2>1, TallySub
<1>6. Tally(lg2, X, A, t) = Tally(lg, X, A, t)
  <2>1. \A m \in X \cap DOMAIN lg2 : m <= Len(lg)
    <3>1. \A m \in Marked(lg) : m <= Len(lg) BY DEF Marked
    <3> QED BY <3>1, <1>0
  <2> QED BY <2>1, TallyGrown
<1>7. /\ Tally(lg, start2 .. n, A, t) \in Nat /\ Tally(lg, start .. n, A, t) \in Nat
      /\ Tally(lg, X, A, t) \in Nat /\ Passed(L, D, A, t) \in Int
  BY TallyNat
<1>8. Tally(lg2, start2 .. n, A, t) <= Tally(lg2, X, A, t) + Passed(L, D, A, t)
  BY <1>3, <1>4, <1>5, <1>6, <1>7
<1> QED BY <1>0, <1>2, <1>8

\* So does the balance.
LEMMA BalancedGrown ==
  ASSUME NEW lg \in Seq(Entry), NEW lg2 \in Seq(Entry), Extends(lg2, lg),
         NEW a \in Placed(lg), NEW f \in Placed(lg), NEW Q, Q \subseteq Marked(lg),
         NEW R, NEW L, NEW D, Balanced(lg, R, Q, L, D, f, a)
  PROVE  Balanced(lg2, R, Q, L, D, f, a)
<1>0. PICK A : A = At(lg, f) OBVIOUS
<1>1. At(lg2, f) = A /\ At(lg2, a) = At(lg, a) BY <1>0, ExtendsFacts
<1>2. \A t : Tally(lg2, Q, A, t) = Tally(lg, Q, A, t)
  <2>1. \A m \in Q \cap DOMAIN lg2 : m <= Len(lg)
    <3>1. \A m \in Marked(lg) : m <= Len(lg) BY DEF Marked
    <3> QED BY <3>1
  <2> QED BY <2>1, TallyGrown
<1> QED BY <1>0, <1>1, <1>2 DEF Balanced

\* No count of passed lines is negative.
LEMMA PassedNat ==
  ASSUME NEW L \in Resume, NEW D \in Resume, Below(D, L), NEW stamp, NEW t \in Texts
  PROVE  Passed(L, D, stamp, t) \in Nat
<1>1. L.lines[t] \in Nat /\ D.lines[t] \in Nat BY DEF Resume
<1> QED BY <1>1 DEF Passed, Below

\* A sent line is on the server's record and on its way: in balance.
LEMMA BalancedSends ==
  ASSUME NEW lg \in Seq(Entry), Ordered(lg), NEW R \in Resume, NEW f \in Placed(lg),
         NEW a \in Placed(lg), NEW L \in Resume, NEW D \in Resume, Below(D, L),
         NEW Q, Q \subseteq Marked(lg), NEW start, \A m \in Q : m <= f,
         NEW nx \in Marked(lg), f < nx,
         Recording(lg, start, R, f), Balanced(lg, R, Q, L, D, f, a)
  PROVE  Balanced(lg, Recorded(R, lg[nx]), Q \cup {nx}, L, D, nx, a)
<1>0. PICK A, line, B, N : A = At(lg, f) /\ line = lg[nx] /\ B = At(lg, nx) /\ N = Recorded(R, line)
  OBVIOUS
<1>1. f \in Nat /\ A \in Int /\ nx \in Nat \ {0} /\ line \in Entry /\ nx \in DOMAIN lg
      /\ R.stamp \in Int /\ nx \in Placed(lg) /\ line.at # 0
  BY <1>0, AtFacts DEF Placed, Resume, Marked
<1>2. B = line.at /\ B \in Nat \ {0} BY <1>0, <1>1, AtFacts DEF Entry
<1>3. A <= B BY <1>0, <1>1, AtFacts
<1>4. R.stamp = A /\ (f = 0 => A = -1)
  <2>1. CASE f = 0 BY <2>1, <1>0, AtFacts DEF Recording, NoResume
  <2>2. CASE f # 0 BY <2>2, <1>0 DEF Recording
  <2> QED BY <2>1, <2>2
<1>5. nx \notin Q
  <2>1. \A m \in Q : m \in Nat BY DEF Marked
  <2> QED BY <2>1, <1>1
<1>6. ASSUME B >= At(lg, a), NEW t \in Texts
      PROVE  N.lines[t] <= Tally(lg, Q \cup {nx}, B, t) + Passed(L, D, B, t)
  <2>1. Tally(lg, Q \cup {nx}, B, t) = Tally(lg, Q, B, t) + Hit(line, B, t)
    BY <1>0, <1>1, <1>5, TallyStep
  <2>2. /\ Tally(lg, Q, B, t) \in Nat /\ Hit(line, B, t) \in {0, 1} /\ Passed(L, D, B, t) \in Nat
        /\ R.lines[t] \in Nat
    BY TallyNat, HitNat, PassedNat DEF Resume
  <2>3. CASE A = B
    <3>1. f > 0 /\ R.stamp # -1 BY <1>1, <1>2, <1>4, <2>3
    <3>2. R.lines[t] <= Tally(lg, Q, B, t) + Passed(L, D, B, t)
      BY <1>0, <1>6, <2>3, <3>1 DEF Balanced
    <3>3. N.lines[t] = R.lines[t] + Hit(line, B, t) BY <1>0, <1>1, <1>2, <1>4, <2>3, RecordedIs
    <3> QED BY <2>1, <2>2, <3>2, <3>3
  <2>4. CASE A # B
    <3>1. N.lines[t] = Hit(line, B, t) BY <1>0, <1>1, <1>2, <1>3, <1>4, <2>4, RecordedIs
    <3> QED BY <2>1, <2>2, <3>1
  <2> QED BY <2>3, <2>4
<1> QED BY <1>0, <1>6 DEF Balanced

\* The account covers the sent line as well.
LEMMA AccountedSends ==
  ASSUME NEW lg \in Seq(Entry), Ordered(lg), NEW N \in Resume, NEW f \in Nat,
         NEW a \in Placed(lg), NEW L \in Resume, NEW D \in Resume, Below(D, L),
         NEW Q, Q \subseteq Marked(lg), NEW start \in Nat, \A m \in Q : m <= f,
         NEW nx \in Marked(lg), f < nx,
         Recording(lg, start, N, nx), Balanced(lg, N, Q \cup {nx}, L, D, nx, a),
         Accounted(lg, start, Q, L, D, a)
  PROVE  Accounted(lg, start, Q \cup {nx}, L, D, a)
<1> SUFFICES ASSUME NEW n \in Q \cup {nx}, At(lg, n) >= At(lg, a), NEW t \in Texts
             PROVE  Tally(lg, start .. n, At(lg, n), t)
                      <= Tally(lg, {m \in Q \cup {nx} : m <= n}, At(lg, n), t)
                         + Passed(L, D, At(lg, n), t)
  BY DEF Accounted
<1>1. nx \in Nat \ {0} /\ \A m \in Q : m \in Nat BY DEF Marked
<1>2. CASE n = nx
  <2>1. {m \in Q \cup {nx} : m <= n} = Q \cup {nx}
    <3>1. \A m \in Q : m <= nx BY <1>1
    <3>2. nx <= nx BY <1>1
    <3>3. \A m \in Q \cup {nx} : m <= n BY <3>1, <3>2, <1>2
    <3> QED BY <3>3
  <2>2. PICK B, X : B = At(lg, nx) /\ X = Q \cup {nx} OBVIOUS
  <2>3. B \in Nat \ {0} BY <2>2, AtFacts
  <2>4. N.stamp = B /\ Tally(lg, start .. nx, B, t) <= N.lines[t]
    BY <2>2, <1>1 DEF Recording
  <2>5. N.lines[t] <= Tally(lg, X, B, t) + Passed(L, D, B, t)
    <3>1. nx > 0 /\ N.stamp # -1 /\ B >= At(lg, a) BY <2>2, <2>3, <2>4, <1>1, <1>2
    <3> QED BY <2>2, <3>1 DEF Balanced
  <2>6. /\ Tally(lg, start .. nx, B, t) \in Nat /\ Tally(lg, X, B, t) \in Nat
        /\ N.lines[t] \in Nat /\ Passed(L, D, B, t) \in Nat
    BY TallyNat, PassedNat DEF Resume
  <2>7. Tally(lg, start .. nx, B, t) <= Tally(lg, X, B, t) + Passed(L, D, B, t)
    BY <2>4, <2>5, <2>6
  <2> QED BY <2>1, <2>2, <2>7, <1>2
<1>3. CASE n # nx
  <2>1. n \in Q /\ n < nx BY <1>1, <1>3
  <2>2. {m \in Q \cup {nx} : m <= n} = {m \in Q : m <= n} BY <1>1, <2>1
  <2> QED BY <2>1, <2>2 DEF Accounted
<1> QED BY <1>2, <1>3

-----------------------------------------------------------------------------
(* What the tab does with the oldest line on its way.                      *)

\* A record has the stamp of the last line sent.
LEMMA RecordingStamp ==
  ASSUME NEW lg, NEW start, NEW R, NEW f, Recording(lg, start, R, f)
  PROVE  R.stamp = At(lg, f)
BY DEF Recording, NoResume, At

\* To drop a line as a replay is to have passed it.
LEMMA PassedDrop ==
  ASSUME NEW L \in Resume, NEW D \in Resume, Below(D, L), NEW line \in Entry, Replayed(D, line),
         NEW stamp \in Int, L.stamp <= stamp, NEW t \in Texts
  PROVE  Passed(L, Matched(D, line), stamp, t) = Passed(L, D, stamp, t) + Hit(line, stamp, t)
<1>0. PICK E : E = Matched(D, line) OBVIOUS
<1>1. E.stamp = D.stamp /\ E.lines[t] = D.lines[t] - Hit(line, D.stamp, t) BY <1>0, MatchedIs
<1>2. /\ L.lines[t] \in Nat /\ D.lines[t] \in Nat /\ Hit(line, D.stamp, t) \in {0, 1}
      /\ L.stamp \in Int /\ D.stamp \in Int /\ D.stamp <= L.stamp
      /\ line.at \in Nat /\ line.at <= D.stamp
  BY HitNat DEF Resume, Below, Replayed, Entry
<1>3. CASE D.stamp = stamp
  <2>1. L.stamp = stamp BY <1>2, <1>3
  <2>2. Passed(L, D, stamp, t) = L.lines[t] - D.lines[t] BY <1>3, <2>1 DEF Passed
  <2>3. Passed(L, E, stamp, t) = L.lines[t] - E.lines[t] BY <1>1, <1>3, <2>1 DEF Passed
  <2> QED BY <1>0, <1>1, <1>2, <1>3, <2>2, <2>3
<1>4. CASE D.stamp # stamp
  <2>1. Hit(line, stamp, t) = 0 BY <1>2, <1>4 DEF Hit
  <2>2. Passed(L, E, stamp, t) = Passed(L, D, stamp, t) BY <1>1, <1>4 DEF Passed
  <2>3. Passed(L, D, stamp, t) \in Nat BY PassedNat
  <2> QED BY <1>0, <2>1, <2>2, <2>3
<1> QED BY <1>3, <1>4

\* So is to accept and record it.
LEMMA PassedAccept ==
  ASSUME NEW L \in Resume, NEW D \in Resume, Below(D, L), NEW line \in Entry, line.at # 0,
         L.stamp <= line.at, NEW stamp \in Int, line.at <= stamp, NEW t \in Texts
  PROVE  Passed(Recorded(L, line), D, stamp, t) = Passed(L, D, stamp, t) + Hit(line, stamp, t)
<1>0. PICK N : N = Recorded(L, line) OBVIOUS
<1>1. /\ L.lines[t] \in Nat /\ D.lines[t] \in Nat /\ L.stamp \in Int /\ D.stamp \in Int
      /\ line.at \in Nat /\ D.stamp <= L.stamp /\ Hit(line, line.at, t) \in {0, 1}
  BY HitNat DEF Resume, Below, Entry
<1>2. N.stamp = line.at
  <2>1. CASE L.stamp = line.at BY <1>0, <2>1, RecordedIs
  <2>2. CASE L.stamp < line.at BY <1>0, <1>1, <2>2, RecordedIs
  <2> QED BY <1>1, <2>1, <2>2
<1>3. CASE stamp # line.at
  <2>1. L.stamp # stamp BY <1>1, <1>3
  <2>2. Passed(L, D, stamp, t) = 0 BY <2>1 DEF Passed
  <2>3. Passed(N, D, stamp, t) = 0 BY <1>2, <1>3 DEF Passed
  <2>4. Hit(line, stamp, t) = 0 BY <1>3 DEF Hit
  <2> QED BY <1>0, <2>2, <2>3, <2>4
<1>4. CASE stamp = line.at
  <2>0. Passed(N, D, stamp, t) = N.lines[t] - (IF D.stamp = stamp THEN D.lines[t] ELSE 0)
    BY <1>2, <1>4 DEF Passed
  <2>1. CASE L.stamp = line.at
    <3>1. N.lines[t] = L.lines[t] + Hit(line, line.at, t) BY <1>0, <2>1, RecordedIs
    <3>2. Passed(L, D, stamp, t) = L.lines[t] - (IF D.stamp = stamp THEN D.lines[t] ELSE 0)
      BY <1>4, <2>1 DEF Passed
    <3> QED BY <1>0, <1>1, <1>4, <2>0, <3>1, <3>2
  <2>2. CASE L.stamp < line.at
    <3>1. N.lines[t] = Hit(line, line.at, t) BY <1>0, <1>1, <2>2, RecordedIs
    <3>2. D.stamp # stamp BY <1>1, <1>4, <2>2
    <3>3. Passed(L, D, stamp, t) = 0 BY <1>1, <1>4, <2>2 DEF Passed
    <3> QED BY <1>0, <1>1, <1>4, <2>0, <3>1, <3>2, <3>3
  <2> QED BY <1>1, <2>1, <2>2
<1> QED BY <1>3, <1>4

\* The lines up to m, the least of them taken.
LEMMA LeastTaken ==
  ASSUME NEW lg \in Seq(Entry), NEW Q, Q \subseteq Marked(lg), NEW n \in Q,
         NEW m \in Q, n <= m, NEW stamp, NEW t
  PROVE  Tally(lg, {k \in Q : k <= m}, stamp, t)
           = Tally(lg, {k \in Q \ {n} : k <= m}, stamp, t) + Hit(lg[n], stamp, t)
<1>1. n \in DOMAIN lg /\ n \in {k \in Q : k <= m} BY DEF Marked
<1>2. {k \in Q : k <= m} \ {n} = {k \in Q \ {n} : k <= m} OBVIOUS
<1> QED BY <1>1, <1>2, TallyLess

\* The tab drops a replay: its snapshot counted the line, and counts one less.
LEMMA PassDrop ==
  ASSUME NEW lg \in Seq(Entry), Ordered(lg), NEW f \in Placed(lg), NEW a \in Placed(lg),
         NEW Q, Q \subseteq Marked(lg), \A m \in Q : m <= f,
         NEW n \in Q, \A m \in Q : n <= m,
         NEW L \in Resume, NEW D \in Resume, Below(D, L), L.stamp = At(lg, a),
         Replayed(D, lg[n]), NEW lo, NEW start, NEW R,
         Filtering(lg, Q, lo, D, f, a), Accounted(lg, start, Q, L, D, a),
         Balanced(lg, R, Q, L, D, f, a)
  PROVE  /\ Filtering(lg, Q \ {n}, lo, Matched(D, lg[n]), f, a)
         /\ Accounted(lg, start, Q \ {n}, L, Matched(D, lg[n]), a)
         /\ Balanced(lg, R, Q \ {n}, L, Matched(D, lg[n]), f, a)
         /\ Below(Matched(D, lg[n]), L)
<1>0. PICK A, line, E, F : /\ A = At(lg, a) /\ line = lg[n] /\ E = Matched(D, line)
                           /\ F = At(lg, f)
  OBVIOUS
<1>1. /\ n \in Nat \ {0} /\ n \in DOMAIN lg /\ line \in Entry /\ a \in Nat /\ f \in Nat
      /\ A \in Int /\ F \in Int /\ At(lg, n) = line.at
      /\ \A m \in Q : m \in Nat /\ At(lg, m) \in Nat
  BY <1>0, AtFacts DEF Placed, Marked
<1>2. E.stamp = D.stamp /\ \A t \in Texts : E.lines[t] = D.lines[t] - Hit(line, D.stamp, t)
  BY <1>0, <1>1, MatchedIs
<1>3. D.stamp \in Int /\ L.stamp \in Int /\ \A t \in Texts : D.lines[t] \in Nat /\ L.lines[t] \in Nat
  BY DEF Resume
<1>4. Below(E, L)
  <2>1. \A t \in Texts : Hit(line, D.stamp, t) \in {0, 1} BY HitNat
  <2> QED BY <1>2, <1>3, <2>1 DEF Below
<1>5. \A stamp \in Int : \A t \in Texts : A <= stamp =>
        /\ Passed(L, E, stamp, t) = Passed(L, D, stamp, t) + Hit(line, stamp, t)
        /\ Passed(L, D, stamp, t) \in Nat /\ Hit(line, stamp, t) \in {0, 1}
  BY <1>0, <1>1, PassedDrop, PassedNat, HitNat
<1>6. Balanced(lg, R, Q \ {n}, L, E, f, a)
  <2> SUFFICES ASSUME f > 0 /\ R.stamp # -1 /\ F >= A, NEW t \in Texts
               PROVE  R.lines[t] <= Tally(lg, Q \ {n}, F, t) + Passed(L, E, F, t)
    BY <1>0 DEF Balanced
  <2>1. R.lines[t] <= Tally(lg, Q, F, t) + Passed(L, D, F, t) BY <1>0 DEF Balanced
  <2>2. Tally(lg, Q, F, t) = Tally(lg, Q \ {n}, F, t) + Hit(line, F, t)
    BY <1>0, <1>1, TallyLess
  <2>3. Tally(lg, Q, F, t) \in Nat /\ Tally(lg, Q \ {n}, F, t) \in Nat BY TallyNat
  <2>4. /\ Passed(L, E, F, t) = Passed(L, D, F, t) + Hit(line, F, t)
        /\ Passed(L, D, F, t) \in Nat /\ Hit(line, F, t) \in {0, 1}
    BY <1>1, <1>5
  <2>5. Tally(lg, Q, F, t) + Passed(L, D, F, t) = Tally(lg, Q \ {n}, F, t) + Passed(L, E, F, t)
    BY <2>2, <2>3, <2>4
  <2> QED BY <2>1, <2>5
<1>7. Accounted(lg, start, Q \ {n}, L, E, a)
  <2> SUFFICES ASSUME NEW m \in Q \ {n}, At(lg, m) >= A, NEW t \in Texts
               PROVE  Tally(lg, start .. m, At(lg, m), t)
                        <= Tally(lg, {k \in Q \ {n} : k <= m}, At(lg, m), t)
                           + Passed(L, E, At(lg, m), t)
    BY <1>0 DEF Accounted
  <2>0. PICK B : B = At(lg, m) OBVIOUS
  <2>1. Tally(lg, start .. m, B, t) <= Tally(lg, {k \in Q : k <= m}, B, t) + Passed(L, D, B, t)
    BY <1>0, <2>0 DEF Accounted
  <2>2. Tally(lg, {k \in Q : k <= m}, B, t)
          = Tally(lg, {k \in Q \ {n} : k <= m}, B, t) + Hit(line, B, t)
    BY <1>0, LeastTaken
  <2>3. /\ Tally(lg, {k \in Q : k <= m}, B, t) \in Nat
        /\ Tally(lg, {k \in Q \ {n} : k <= m}, B, t) \in Nat
    BY TallyNat
  <2>4. B \in Int /\ A <= B BY <1>1, <2>0
  <2>5. /\ Passed(L, E, B, t) = Passed(L, D, B, t) + Hit(line, B, t)
        /\ Passed(L, D, B, t) \in Nat /\ Hit(line, B, t) \in {0, 1}
    BY <1>5, <2>4
  <2>6. Tally(lg, {k \in Q : k <= m}, B, t) + Passed(L, D, B, t)
          = Tally(lg, {k \in Q \ {n} : k <= m}, B, t) + Passed(L, E, B, t)
    BY <2>2, <2>3, <2>5
  <2> QED BY <2>0, <2>1, <2>6
<1>8. Filtering(lg, Q \ {n}, lo, E, f, a)
  <2>0. PICK X, Y : X = Coming(lg, Q, lo, f, a) /\ Y = Coming(lg, Q \ {n}, lo, f, a) OBVIOUS
  <2>1. X # {} => D.stamp = A /\ \A t \in Texts : Tally(lg, X, A, t) <= D.lines[t]
    BY <1>0, <2>0 DEF Filtering
  <2>2. n <= a => n \in X /\ Y = X \ {n} BY <2>0, <1>1 DEF Coming
  <2>3. ~(n <= a) => Y = {}
    <3> SUFFICES ASSUME ~(n <= a), NEW m \in Y PROVE FALSE OBVIOUS
    <3>1. m \in Nat BY <2>0 DEF Coming, Marked
    <3>2. m <= a /\ (m \in Q \/ m > f) BY <2>0 DEF Coming
    <3>3. m \in Q => n <= m OBVIOUS
    <3>4. n <= f OBVIOUS
    <3> QED BY <3>1, <3>2, <3>3, <3>4, <1>1
  <2>4. ASSUME Y # {}, NEW t \in Texts PROVE E.stamp = A /\ Tally(lg, Y, A, t) <= E.lines[t]
    <3>1. n \in X /\ Y = X \ {n} /\ D.stamp = A BY <2>1, <2>2, <2>3, <2>4
    <3>2. Tally(lg, X, A, t) = Tally(lg, Y, A, t) + Hit(line, A, t)
      BY <1>0, <1>1, <3>1, TallyLess
    <3>3. Tally(lg, X, A, t) <= D.lines[t] BY <2>1, <3>1
    <3>4. E.stamp = A /\ E.lines[t] = D.lines[t] - Hit(line, A, t) BY <1>2, <3>1
    <3>5. /\ Tally(lg, X, A, t) \in Nat /\ Tally(lg, Y, A, t) \in Nat /\ Hit(line, A, t) \in {0, 1}
          /\ D.lines[t] \in Nat
      BY <1>3, TallyNat, HitNat
    <3> QED BY <3>2, <3>3, <3>4, <3>5
  <2>5. Y # {} => E.stamp = A BY <1>2, <2>1, <2>2, <2>3
  <2> QED BY <1>0, <2>0, <2>4, <2>5 DEF Filtering
<1> QED BY <1>0, <1>4, <1>6, <1>7, <1>8

\* The tab accepts a line: it is newer than all it had accepted.
LEMMA PassAccept ==
  ASSUME NEW lg \in Seq(Entry), Ordered(lg), NEW f \in Placed(lg), NEW a \in Placed(lg),
         NEW Q, Q \subseteq Marked(lg), \A m \in Q : m <= f,
         NEW n \in Q, \A m \in Q : n <= m,
         NEW L \in Resume, NEW D \in Resume, Below(D, L), L.stamp = At(lg, a),
         ~Replayed(D, lg[n]), NEW lo, NEW start \in Nat, NEW R,
         Filtering(lg, Q, lo, D, f, a), Accounted(lg, start, Q, L, D, a),
         Balanced(lg, R, Q, L, D, f, a)
  PROVE  /\ a < n
         /\ Tracking(lg, start, Recorded(L, lg[n]), n)
         /\ Filtering(lg, Q \ {n}, lo, D, f, n)
         /\ Accounted(lg, start, Q \ {n}, Recorded(L, lg[n]), D, n)
         /\ Balanced(lg, R, Q \ {n}, Recorded(L, lg[n]), D, f, n)
         /\ Below(D, Recorded(L, lg[n]))
<1>0. PICK A, line, N, F, B : /\ A = At(lg, a) /\ line = lg[n] /\ N = Recorded(L, line)
                              /\ F = At(lg, f) /\ B = At(lg, n)
  OBVIOUS
<1>1. /\ n \in Nat \ {0} /\ n \in DOMAIN lg /\ line \in Entry /\ a \in Nat /\ f \in Nat
      /\ A \in Int /\ F \in Int /\ B = line.at /\ B \in Nat \ {0} /\ line.text \in Texts
      /\ \A m \in Q : m \in Nat /\ At(lg, m) \in Nat /\ B <= At(lg, m)
  <2>1. /\ n \in Nat \ {0} /\ n \in DOMAIN lg /\ line \in Entry /\ a \in Nat /\ f \in Nat
        /\ A \in Int /\ F \in Int /\ B = line.at /\ B \in Nat \ {0}
    BY <1>0, AtFacts DEF Placed, Marked
  <2>2. line.text \in Texts BY <2>1 DEF Entry
  <2>3. ASSUME NEW m \in Q PROVE m \in Nat /\ At(lg, m) \in Nat /\ B <= At(lg, m)
    <3>1. m \in Placed(lg) /\ n \in Placed(lg) /\ n <= m /\ m \in Marked(lg) BY DEF Placed
    <3> QED BY <1>0, <3>1, AtFacts
  <2> QED BY <2>1, <2>2, <2>3
<1>2. /\ D.stamp \in Int /\ L.stamp \in Int /\ N \in Resume /\ D.stamp <= L.stamp
      /\ \A t \in Texts : D.lines[t] \in Nat /\ L.lines[t] \in Nat /\ N.lines[t] \in Nat
  <2>1. N \in Resume BY <1>0, <1>1, RecordedTyped
  <2>2. D.stamp <= L.stamp BY DEF Below
  <2>3. D.stamp \in Int /\ L.stamp \in Int BY DEF Resume
  <2>4. \A t \in Texts : D.lines[t] \in Nat /\ L.lines[t] \in Nat /\ N.lines[t] \in Nat
    BY <2>1 DEF Resume
  <2> QED BY <2>1, <2>2, <2>3, <2>4
<1>3. a < n
  <2> SUFFICES ASSUME n <= a PROVE FALSE BY <1>1
  <2>1. PICK X : X = Coming(lg, Q, lo, f, a) OBVIOUS
  <2>2. n \in X BY <2>1 DEF Coming
  <2>3. D.stamp = A /\ Tally(lg, X, A, line.text) <= D.lines[line.text]
    BY <1>0, <1>1, <2>1, <2>2 DEF Filtering
  <2>4. n \in Placed(lg) BY DEF Placed
  <2>5. B <= A BY <1>0, <2>4, AtFacts
  <2>6. B = A /\ ~(D.lines[line.text] > 0) BY <1>0, <1>1, <2>3, <2>5 DEF Replayed
  <2>7. Tally(lg, X, A, line.text) = Tally(lg, X \ {n}, A, line.text) + Hit(line, A, line.text)
    BY <1>0, <1>1, <2>2, TallyLess
  <2>8. Tally(lg, X \ {n}, A, line.text) \in Nat BY TallyNat
  <2>9. Hit(line, A, line.text) = 1 BY <1>1, <2>6 DEF Hit
  <2>10. D.lines[line.text] \in Nat BY <1>1, <1>2
  <2> QED BY <2>3, <2>6, <2>7, <2>8, <2>9, <2>10
<1>4. A <= B
  <2>1. n \in Placed(lg) BY DEF Placed
  <2> QED BY <1>0, <1>1, <1>3, <2>1, AtFacts
<1>5. N.stamp = B
  <2>1. CASE A = B BY <1>0, <1>1, <2>1, RecordedIs
  <2>2. CASE A < B BY <1>0, <1>1, <2>2, RecordedIs
  <2> QED BY <1>1, <1>4, <2>1, <2>2
<1>6. Below(D, N)
  <2> SUFFICES ASSUME D.stamp = B PROVE \A t \in Texts : D.lines[t] <= N.lines[t]
    BY <1>0, <1>1, <1>2, <1>4, <1>5 DEF Below
  <2>1. L.stamp = B BY <1>0, <1>1, <1>2, <1>4
  <2>2. \A t \in Texts : N.lines[t] = L.lines[t] + Hit(line, B, t)
    BY <1>0, <1>1, <2>1, RecordedIs
  <2>3. \A t \in Texts : Hit(line, B, t) \in {0, 1} BY HitNat
  <2>4. \A t \in Texts : D.lines[t] <= L.lines[t] BY <2>1 DEF Below
  <2> QED BY <1>2, <2>2, <2>3, <2>4
<1>7. \A stamp \in Int : \A t \in Texts : B <= stamp =>
        /\ Passed(N, D, stamp, t) = Passed(L, D, stamp, t) + Hit(line, stamp, t)
        /\ Passed(L, D, stamp, t) \in Nat /\ Hit(line, stamp, t) \in {0, 1}
  BY <1>0, <1>1, <1>4, PassedAccept, PassedNat, HitNat
<1>8. Tracking(lg, start, N, n)
  <2>1. ASSUME NEW t \in Texts PROVE Tally(lg, start .. n, B, t) <= N.lines[t]
    <3>1. Tally(lg, start .. n, B, t) <= Tally(lg, {m \in Q : m <= n}, B, t) + Passed(L, D, B, t)
      BY <1>0, <1>4 DEF Accounted
    <3>2. Tally(lg, {m \in Q : m <= n}, B, t)
            = Tally(lg, {m \in Q \ {n} : m <= n}, B, t) + Hit(line, B, t)
      <4>1. n <= n BY <1>1
      <4> QED BY <1>0, <4>1, LeastTaken
    <3>3. {m \in Q \ {n} : m <= n} = {}
      <4>1. \A m \in Q \ {n} : m \in Nat /\ n <= m /\ m # n BY <1>1
      <4>2. \A m \in Q \ {n} : ~(m <= n) BY <4>1, <1>1
      <4> QED BY <4>2
    <3>4. Tally(lg, {m \in Q \ {n} : m <= n}, B, t) = 0 BY <3>3, TallyNone
    <3>5. /\ Passed(N, D, B, t) = Passed(L, D, B, t) + Hit(line, B, t)
          /\ Passed(L, D, B, t) \in Nat /\ Hit(line, B, t) \in {0, 1}
      BY <1>1, <1>7
    <3>6. Passed(N, D, B, t) <= N.lines[t] BY <1>2, <1>5, <1>1 DEF Passed
    <3>7. Tally(lg, start .. n, B, t) \in Nat BY TallyNat
    <3>8. N.lines[t] \in Nat BY <1>2
    <3> QED BY <3>1, <3>2, <3>4, <3>5, <3>6, <3>7, <3>8
  <2> QED BY <2>1, <1>0, <1>1, <1>5 DEF Tracking
<1>9. Filtering(lg, Q \ {n}, lo, D, f, n)
  <2>1. ASSUME NEW m \in Coming(lg, Q \ {n}, lo, f, n) PROVE FALSE
    <3>1. m \in Nat BY DEF Coming, Marked
    <3>2. m <= n /\ (m \in Q \ {n} \/ m > f) BY DEF Coming
    <3>3. m \in Q => n <= m OBVIOUS
    <3>4. n <= f OBVIOUS
    <3> QED BY <3>1, <3>2, <3>3, <3>4, <1>1
  <2> QED BY <2>1 DEF Filtering
<1>10. Accounted(lg, start, Q \ {n}, N, D, n)
  <2> SUFFICES ASSUME NEW m \in Q \ {n}, NEW t \in Texts
               PROVE  Tally(lg, start .. m, At(lg, m), t)
                        <= Tally(lg, {k \in Q \ {n} : k <= m}, At(lg, m), t)
                           + Passed(N, D, At(lg, m), t)
    BY DEF Accounted
  <2>0. PICK G : G = At(lg, m) OBVIOUS
  <2>1. G \in Int /\ B <= G /\ A <= G BY <1>1, <1>4, <2>0
  <2>2. Tally(lg, start .. m, G, t) <= Tally(lg, {k \in Q : k <= m}, G, t) + Passed(L, D, G, t)
    BY <1>0, <1>1, <2>0, <2>1 DEF Accounted
  <2>3. Tally(lg, {k \in Q : k <= m}, G, t)
          = Tally(lg, {k \in Q \ {n} : k <= m}, G, t) + Hit(line, G, t)
    BY <1>0, LeastTaken
  <2>4. /\ Tally(lg, {k \in Q : k <= m}, G, t) \in Nat
        /\ Tally(lg, {k \in Q \ {n} : k <= m}, G, t) \in Nat
    BY TallyNat
  <2>5. /\ Passed(N, D, G, t) = Passed(L, D, G, t) + Hit(line, G, t)
        /\ Passed(L, D, G, t) \in Nat /\ Hit(line, G, t) \in {0, 1}
    BY <1>7, <2>1
  <2>6. Tally(lg, {k \in Q : k <= m}, G, t) + Passed(L, D, G, t)
          = Tally(lg, {k \in Q \ {n} : k <= m}, G, t) + Passed(N, D, G, t)
    BY <2>3, <2>4, <2>5
  <2> QED BY <2>0, <2>2, <2>6
<1>11. Balanced(lg, R, Q \ {n}, N, D, f, n)
  <2> SUFFICES ASSUME f > 0 /\ R.stamp # -1 /\ F >= B, NEW t \in Texts
               PROVE  R.lines[t] <= Tally(lg, Q \ {n}, F, t) + Passed(N, D, F, t)
    BY <1>0 DEF Balanced
  <2>0. F >= A BY <1>1, <1>4
  <2>1. R.lines[t] <= Tally(lg, Q, F, t) + Passed(L, D, F, t) BY <1>0, <2>0 DEF Balanced
  <2>2. Tally(lg, Q, F, t) = Tally(lg, Q \ {n}, F, t) + Hit(line, F, t)
    BY <1>0, <1>1, TallyLess
  <2>3. Tally(lg, Q, F, t) \in Nat /\ Tally(lg, Q \ {n}, F, t) \in Nat BY TallyNat
  <2>4. /\ Passed(N, D, F, t) = Passed(L, D, F, t) + Hit(line, F, t)
        /\ Passed(L, D, F, t) \in Nat /\ Hit(line, F, t) \in {0, 1}
    BY <1>1, <1>7
  <2>5. Tally(lg, Q, F, t) + Passed(L, D, F, t) = Tally(lg, Q \ {n}, F, t) + Passed(N, D, F, t)
    BY <2>2, <2>3, <2>4
  <2> QED BY <2>1, <2>5
<1> QED BY <1>0, <1>3, <1>6, <1>8, <1>9, <1>10, <1>11

\* A connection opens: the snapshot is the record, and the server starts over.
LEMMA FilterOpens ==
  ASSUME NEW lg \in Seq(Entry), Ordered(lg), NEW a \in Placed(lg), NEW L \in Resume,
         NEW start \in Nat, Tracking(lg, start, L, a), NEW R
  PROVE  /\ Filtering(lg, {}, start, L, 0, a)
         /\ Accounted(lg, start, {}, L, L, a)
         /\ Balanced(lg, R, {}, L, L, 0, a)
         /\ Below(L, L)
<1>1. Filtering(lg, {}, start, L, 0, a)
  <2>0. PICK A, X : A = At(lg, a) /\ X = Coming(lg, {}, start, 0, a) OBVIOUS
  <2>1. L.stamp = A BY <2>0, TrackingIsRecording, RecordingStamp
  <2>2. \A m \in Marked(lg) : m \in Nat \ {0} BY DEF Marked
  <2>3. a \in Nat BY AtFacts
  <2>4. ASSUME X # {}, NEW t \in Texts PROVE Tally(lg, X, A, t) <= L.lines[t]
    <3>1. a > 0 BY <2>0, <2>2, <2>3, <2>4 DEF Coming
    <3>2. X \subseteq start .. a BY <2>0, <2>2, <2>3 DEF Coming
    <3>3. Tally(lg, X, A, t) <= Tally(lg, start .. a, A, t) BY <3>2, TallySub
    <3>4. Tally(lg, start .. a, A, t) <= L.lines[t] BY <2>0, <3>1 DEF Tracking
    <3>5. /\ Tally(lg, X, A, t) \in Nat /\ Tally(lg, start .. a, A, t) \in Nat
          /\ L.lines[t] \in Nat
      BY TallyNat DEF Resume
    <3> QED BY <3>3, <3>4, <3>5
  <2> QED BY <2>0, <2>1, <2>4 DEF Filtering
<1>2. Below(L, L)
  <2>1. L.stamp \in Int /\ \A t \in Texts : L.lines[t] \in Nat BY DEF Resume
  <2> QED BY <2>1 DEF Below
<1> QED BY <1>1, <1>2 DEF Accounted, Balanced

-----------------------------------------------------------------------------
(* What every step leaves of the past.                                     *)

\* A source's log is a sequence of entries.
LEMMA LogOf == ASSUME TypeInv, NEW s \in Src PROVE log[s] \in Seq(Entry)
BY DEF TypeInv, ClusterTypes

\* No step takes a line out of a log.
LEMMA LogGrows ==
  ASSUME TypeInv, [Next]_vars, NEW s \in Src PROVE Extends(log'[s], log[s])
BY LogsKeep DEF Extends

\* An instance only ever begins behind the last line.
LEMMA BeginsGrow ==
  ASSUME TypeInv, [Next]_vars, NEW s \in Src
  PROVE  \/ begins'[s] = begins[s]
         \/ log' = log /\ begins'[s] = Append(begins[s], Len(log[s]) + 1)
<1>1. CASE begins' = begins BY <1>1
<1>2. ASSUME NEW t \in Src, Restart(t)
      PROVE  \/ begins'[s] = begins[s]
             \/ log' = log /\ begins'[s] = Append(begins[s], Len(log[s]) + 1)
  <2>1. begins' = [begins EXCEPT ![t] = Append(@, Len(log[t]) + 1)] /\ log' = log
    BY <1>2 DEF Restart, PodMoves
  <2> QED BY <2>1 DEF TypeInv, ClusterTypes
<1>3. begins' = begins \/ \E t \in Src : Restart(t)
  <2>1. CASE Cluster
    <3>1. CASE RootMoves BY <3>1 DEF RootMoves
    <3>2. CASE \E t \in Src : Create(t) \/ Run(t) \/ Write(t) \/ Stop(t) \/ Finish(t) \/ Delete(t)
      BY <3>2 DEF Create, Run, Write, Stop, Finish, Delete, PodMoves
    <3> QED BY <2>1, <3>1, <3>2 DEF Cluster
  <2>2. CASE Sync BY <2>2 DEF Sync, SyncRoot, SyncPod, env
  <2>3. CASE Resolve \/ PassLine \/ PassGone \/ Connect \/ Break
    BY <2>3 DEF Resolve, PassLine, PassGone, Connect, Break, env
  <2>4. CASE \E t \in Src : Streamer(t) \/ Interrupt(t)
    BY <2>4 DEF Streamer, Interrupt, Consider, Open, Scan, Eof, Ends, env
  <2>5. CASE UNCHANGED vars BY <2>5 DEF vars, env
  <2> QED BY <2>1, <2>2, <2>3, <2>4, <2>5 DEF Next
<1> QED BY <1>1, <1>2, <1>3

\* A tail never begins earlier than it did.
LEMMA StartGrows ==
  ASSUME TypeInv, TypeInv', [Next]_vars, NEW s \in Src PROVE Start(s) <= Start(s)'
<1>1. limit' = limit /\ limit.tail \in Nat
  BY LimitFixed, LimitTyped DEF TypeInv, ClusterTypes
<1>2. /\ Len(log[s]) \in Nat /\ Len(log'[s]) \in Nat /\ Len(log[s]) <= Len(log'[s])
      /\ Begin(s) \in Nat /\ Begin(s)' \in Nat
  <2>1. Len(log[s]) \in Nat /\ Begin(s) \in Nat BY StartTyped DEF TypeInv
  <2>2. begins'[s] \in Seq(Nat \ {0}) /\ begins'[s] # <<>> /\ log'[s] \in Seq(Entry)
    BY DEF TypeInv, ClusterTypes
  <2>3. Begin(s)' \in Nat BY <2>2 DEF Begin
  <2> QED BY <2>1, <2>2, <2>3, LogsKeep
<1>3. Begin(s) <= Begin(s)'
  <2>1. CASE begins'[s] = begins[s] BY <2>1, <1>2 DEF Begin
  <2>2. CASE begins'[s] = Append(begins[s], Len(log[s]) + 1)
    <3>1. begins[s] \in Seq(Nat \ {0}) /\ begins[s] # <<>>
          /\ \A g \in DOMAIN begins[s] : begins[s][g] <= Len(log[s]) + 1
      BY DEF TypeInv, ClusterTypes
    <3>2. Begin(s) <= Len(log[s]) + 1 BY <3>1 DEF Begin
    <3>3. Begin(s)' = Len(log[s]) + 1 BY <2>2, <3>1 DEF Begin
    <3> QED BY <3>2, <3>3
  <2> QED BY <2>1, <2>2, BeginsGrow
<1>4. Start(s)' = LET first == Len(log'[s]) - limit.tail + 1 IN
                  IF first > Begin(s)' THEN first ELSE Begin(s)'
  BY <1>1 DEF Start
<1> QED BY <1>1, <1>2, <1>3, <1>4 DEF Start

\* A line whose stamp is no smaller than any keeps a log ordered.
LEMMA OrderedGrows ==
  ASSUME NEW lg \in Seq(Entry), Ordered(lg), NEW e \in Entry,
         e.at # 0 => \A n \in DOMAIN lg : lg[n].at <= e.at
  PROVE  Ordered(Append(lg, e))
<1>0. PICK new : new = Append(lg, e) OBVIOUS
<1>1. /\ new \in Seq(Entry) /\ Len(new) = Len(lg) + 1 /\ new[Len(lg) + 1] = e
      /\ \A n \in 1 .. Len(lg) : new[n] = lg[n]
  BY <1>0, AppendFacts
<1>2. Len(lg) \in Nat /\ DOMAIN lg = 1 .. Len(lg) /\ DOMAIN new = 1 .. Len(lg) + 1 BY <1>1
<1>3. e.at \in Nat /\ \A n \in DOMAIN lg : lg[n].at \in Nat
  <2>1. \A n \in DOMAIN lg : lg[n] \in Entry OBVIOUS
  <2> QED BY <2>1 DEF Entry
<1>4. \A n \in DOMAIN new : n \in DOMAIN lg \/ n = Len(lg) + 1 BY <1>2
<1>5. ASSUME NEW m \in Marked(new), NEW n \in Marked(new), m <= n PROVE new[m].at <= new[n].at
  <2>1. m \in DOMAIN new /\ n \in DOMAIN new /\ new[m].at # 0 /\ new[n].at # 0 BY DEF Marked
  <2>2. CASE n \in DOMAIN lg
    <3>1. m \in DOMAIN lg BY <2>1, <2>2, <1>2, <1>5
    <3>2. new[m] = lg[m] /\ new[n] = lg[n] BY <2>2, <3>1, <1>1, <1>2
    <3>3. m \in Marked(lg) /\ n \in Marked(lg) BY <2>1, <2>2, <3>1, <3>2 DEF Marked
    <3> QED BY <3>2, <3>3, <1>5 DEF Ordered
  <2>3. CASE n = Len(lg) + 1
    <3>1. new[n] = e BY <2>3, <1>1
    <3>2. CASE m = Len(lg) + 1 BY <3>1, <3>2, <2>3, <1>3
    <3>3. CASE m \in DOMAIN lg
      <4>1. new[m] = lg[m] BY <3>3, <1>1, <1>2
      <4> QED BY <4>1, <3>1, <3>3, <2>1
    <3> QED BY <3>2, <3>3, <2>1, <1>4
  <2> QED BY <2>1, <2>2, <2>3, <1>4
<1>6. \E m \in DOMAIN new : \A n \in DOMAIN new : new[n].at <= new[m].at
  <2>1. CASE lg = <<>>
    <3>1. DOMAIN new = {Len(lg) + 1} BY <2>1, <1>2
    <3> QED BY <3>1, <1>1, <1>3
  <2>2. CASE lg # <<>> /\ e.at = 0
    <3>1. PICK m \in DOMAIN lg : \A n \in DOMAIN lg : lg[n].at <= lg[m].at
      BY <2>2 DEF Ordered
    <3>2. m \in DOMAIN new /\ new[m] = lg[m] BY <1>1, <1>2
    <3>3. ASSUME NEW n \in DOMAIN new PROVE new[n].at <= new[m].at
      <4>1. CASE n \in DOMAIN lg BY <4>1, <3>1, <3>2, <1>1, <1>2
      <4>2. CASE n = Len(lg) + 1
        <5>1. new[n].at = 0 BY <4>2, <1>1, <2>2
        <5> QED BY <5>1, <3>2, <1>3
      <4> QED BY <4>1, <4>2, <1>4
    <3> QED BY <3>2, <3>3
  <2>3. CASE lg # <<>> /\ e.at # 0
    <3>1. Len(lg) + 1 \in DOMAIN new BY <1>2
    <3>2. ASSUME NEW n \in DOMAIN new PROVE new[n].at <= new[Len(lg) + 1].at
      <4>1. CASE n \in DOMAIN lg
        <5>1. new[n] = lg[n] BY <4>1, <1>1, <1>2
        <5> QED BY <5>1, <4>1, <1>1, <2>3
      <4>2. CASE n = Len(lg) + 1 BY <4>2, <1>1, <1>3
      <4> QED BY <4>1, <4>2, <1>4
    <3> QED BY <3>1, <3>2
  <2> QED BY <2>1, <2>2, <2>3
<1> QED BY <1>0, <1>5, <1>6 DEF Ordered

\* LastStamp is the greatest stamp of the log: no line is stamped before it.
LEMMA OrderedKept ==
  ASSUME TypeInv, [Next]_vars, NEW s \in Src, Ordered(log[s]) PROVE Ordered(log'[s])
<1>1. log[s] \in Seq(Entry) BY LogOf
<1>2. ASSUME NEW t \in Src, Write(t) PROVE Ordered(log'[s])
  <2>1. PICK at \in limit.stamps, text \in limit.texts :
          /\ at # 0 => LastStamp(t, Len(log[t])) <= at
          /\ log' = [log EXCEPT ![t] = Append(@, [at |-> at, text |-> text])]
    BY <1>2 DEF Write
  <2>2. PICK e : e = [at |-> at, text |-> text] OBVIOUS
  <2>3. e \in Entry /\ e.at = at BY <2>2, LimitTyped DEF Entry, TypeInv, ClusterTypes
  <2>4. CASE t # s
    <3>1. log'[s] = log[s] BY <2>1, <2>4 DEF TypeInv, ClusterTypes
    <3> QED BY <3>1
  <2>5. CASE t = s
    <3>1. log'[s] = Append(log[s], e) BY <2>1, <2>2, <2>5 DEF TypeInv, ClusterTypes
    <3>2. ASSUME at # 0, NEW n \in DOMAIN log[s] PROVE log[s][n].at <= at
      <4>1. PICK X : X = {log[s][i].at : i \in 1 .. Len(log[s])} OBVIOUS
      <4>2. DOMAIN log[s] = 1 .. Len(log[s]) /\ Len(log[s]) \in Nat BY <1>1
      <4>3. log[s][n].at \in X BY <4>1, <4>2
      <4>4. PICK m \in DOMAIN log[s] : \A k \in DOMAIN log[s] : log[s][k].at <= log[s][m].at
        BY <4>2, <1>1 DEF Ordered
      <4>5. \E p \in X : \A q \in X : q <= p BY <4>1, <4>2, <4>4
      <4>6. LastStamp(s, Len(log[s])) = CHOOSE p \in X : \A q \in X : q <= p
        BY <4>1, <4>3 DEF LastStamp
      <4>7. LastStamp(s, Len(log[s])) \in X /\ log[s][n].at <= LastStamp(s, Len(log[s]))
        BY <4>3, <4>5, <4>6
      <4>8. \A p \in X : p \in Nat
        <5>1. \A i \in 1 .. Len(log[s]) : log[s][i] \in Entry BY <1>1
        <5> QED BY <5>1, <4>1 DEF Entry
      <4> QED BY <4>3, <4>7, <4>8, <2>1, <2>3, <2>5, <3>2 DEF Entry
    <3> QED BY <3>1, <3>2, <1>1, <2>3, OrderedGrows
  <2> QED BY <2>4, <2>5
<1> QED BY <1>2, OnlyWrites

\* The places of s that a sequence held when the log was shorter.
LEMMA PlacesKept ==
  ASSUME NEW s \in Src, NEW lg \in Seq(Entry), NEW lg2 \in Seq(Entry), Extends(lg2, lg),
         NEW sq \in Seq(Line), \A i \in DOMAIN sq : sq[i].src = s => sq[i].n <= Len(lg)
  PROVE  /\ PlacesIn(sq, s, lg2) = PlacesIn(sq, s, lg)
         /\ InOrder(sq, s, lg) => InOrder(sq, s, lg2)
<1>1. \A i \in DOMAIN sq : sq[i].src = s => (sq[i].n \in Marked(lg2) <=> sq[i].n \in Marked(lg))
  BY ExtendsFacts
<1>2. \A n \in Marked(lg) : n \in Marked(lg2) BY ExtendsFacts
<1>3. PlacesIn(sq, s, lg2) = PlacesIn(sq, s, lg) BY <1>1, <1>2 DEF PlacesIn
<1>4. InOrder(sq, s, lg) => InOrder(sq, s, lg2) BY <1>1 DEF InOrder
<1> QED BY <1>3, <1>4

-----------------------------------------------------------------------------
(* The world and the quiet between two connections.                        *)

\* Without a connection there is no supervisor and nothing on its way.
LEMMA QuietKept == ASSUME QuietInv, [Next]_vars PROVE QuietInv'
<1>1. CASE connected' BY <1>1 DEF QuietInv
<1>2. CASE ~connected' /\ connected
  <2>1. Break
    <3>1. ~(Cluster \/ Sync \/ Resolve \/ PassLine \/ PassGone \/ Connect)
      BY <1>2 DEF Cluster, Sync, Create, Run, Write, Stop, Restart, Finish, Delete, PodMoves, RootMoves,
                  SyncRoot, SyncPod, Resolve, PassLine, PassGone, Connect, tab
    <3>2. \A s \in Src : ~(Streamer(s) \/ Interrupt(s))
      BY <1>2 DEF Streamer, Interrupt, Consider, Open, Scan, Eof, Ends, tab
    <3>3. ~(UNCHANGED vars) BY <1>2 DEF vars, tab
    <3> QED BY <3>1, <3>2, <3>3 DEF Next
  <2> QED BY <2>1 DEF Break, Fresh, QuietInv
<1>3. CASE ~connected' /\ ~connected
  <2>1. ~(Resolve \/ PassLine \/ PassGone \/ Connect \/ Break)
    BY <1>3 DEF Resolve, PassLine, PassGone, Connect, Break
  <2>2. plan = <<>> /\ lines = <<>> /\ \A s \in Src : streamer[s] = Off /\ resumes[s] = NoResume
    BY <1>3 DEF QuietInv
  <2>3. Off.at = "off" BY DEF Off
  <2>4. \A s \in Src : ~(Streamer(s) \/ Interrupt(s))
    <3>1. \A s \in Src : s \notin DOMAIN plan BY <2>2
    <3> QED BY <2>2, <2>3, <3>1 DEF Streamer, Interrupt, Consider, Open, Scan, Eof
  <2>5. Cluster \/ Sync \/ UNCHANGED vars BY <2>1, <2>4 DEF Next
  <2>6. plan' = plan /\ lines' = lines /\ streamer' = streamer /\ resumes' = resumes
    BY <2>5 DEF Cluster, Sync, Create, Run, Write, Stop, Restart, Finish, Delete, PodMoves, RootMoves,
                SyncRoot, SyncPod, vars, sup, chan
  <2> QED BY <2>2, <2>6 DEF QuietInv
<1> QED BY <1>1, <1>2, <1>3 DEF QuietInv

\* Only the cluster and the informers move the world.
LEMMA WorldFixed ==
  ASSUME [Next]_vars, ~Cluster, ~Sync
  PROVE  UNCHANGED <<pod, owner, root, viewPod, viewRoot>>
<1>1. Resolve \/ PassLine \/ PassGone \/ Connect \/ Break
        => UNCHANGED <<pod, owner, root, viewPod, viewRoot>>
  BY DEF Resolve, PassLine, PassGone, Connect, Break, env, view
<1>2. \A s \in Src : Streamer(s) \/ Interrupt(s) => UNCHANGED <<pod, owner, root, viewPod, viewRoot>>
  BY DEF Streamer, Interrupt, Consider, Open, Scan, Eof, Ends, env, view
<1>3. UNCHANGED vars => UNCHANGED <<pod, owner, root, viewPod, viewRoot>> BY DEF vars, env, view
<1> QED BY <1>1, <1>2, <1>3 DEF Next

\* A pod that is there does not go back to not being there, a deleted one
\* stays deleted, and only a pod that is not there gets an owner.
LEMMA PodMoved ==
  ASSUME TypeInv, Cluster, NEW s \in Src
  PROVE  /\ viewPod' = viewPod /\ viewRoot' = viewRoot
         /\ root <= root'
         /\ pod[s] # "none" => pod'[s] # "none" /\ owner'[s] = owner[s]
         /\ pod[s] = "deleted" => pod'[s] = "deleted"
         /\ owner'[s] = owner[s] \/ (owner'[s] = root /\ Alive(root))
<1>0. root \in Nat /\ pod \in [Src -> PodStates] /\ owner \in [Src -> Nat]
  BY DEF TypeInv, ClusterTypes
<1>1. CASE RootMoves BY <1>0, <1>1 DEF RootMoves, view
<1>2. CASE \E t \in Src : Write(t) BY <1>0, <1>2 DEF Write, view
<1>3. ASSUME NEW t \in Src, Create(t)
      PROVE  /\ viewPod' = viewPod /\ viewRoot' = viewRoot /\ root' = root
             /\ pod[s] # "none" => pod'[s] = pod[s] /\ owner'[s] = owner[s]
             /\ owner'[s] = owner[s] \/ (owner'[s] = root /\ Alive(root))
  <2>1. /\ pod[t] = "none" /\ Alive(root)
        /\ \E to \in {"waiting", "running"} : pod' = [pod EXCEPT ![t] = to]
        /\ owner' = [owner EXCEPT ![t] = root]
        /\ viewPod' = viewPod /\ viewRoot' = viewRoot /\ root' = root
    BY <1>3 DEF Create, PodMoves, view
  <2> QED BY <1>0, <2>1
<1>4. ASSUME NEW t \in Src, Run(t) \/ Stop(t) \/ Finish(t) \/ Delete(t) \/ Restart(t)
      PROVE  /\ viewPod' = viewPod /\ viewRoot' = viewRoot /\ root' = root /\ owner' = owner
             /\ pod[s] # "none" => pod'[s] # "none"
             /\ pod[s] = "deleted" => pod'[s] = "deleted"
  <2>1. viewPod' = viewPod /\ viewRoot' = viewRoot /\ root' = root /\ owner' = owner
    BY <1>4 DEF Run, Stop, Finish, Delete, Restart, PodMoves, view
  <2>2. \E to \in PodStates : /\ pod' = [pod EXCEPT ![t] = to] /\ to # "none"
                              /\ pod[t] # "deleted"
    BY <1>4 DEF Run, Stop, Finish, Delete, Restart, PodMoves, PodStates
  <2> QED BY <1>0, <2>1, <2>2
<1> QED BY <1>0, <1>1, <1>2, <1>3, <1>4 DEF Cluster

\* What an informer may change of what is seen of a source.
LEMMA Synced ==
  ASSUME TypeInv, Sync, NEW s \in Src
  PROVE  /\ pod' = pod /\ owner' = owner /\ root' = root
         /\ viewRoot' = viewRoot \/ viewRoot' = root
         /\ viewPod'[s] = viewPod[s] \/ viewPod'[s].pod = pod[s]
<1>1. CASE SyncRoot BY <1>1 DEF SyncRoot, env
<1>2. ASSUME NEW t \in Src, SyncPod(t)
      PROVE  /\ pod' = pod /\ owner' = owner /\ root' = root /\ viewRoot' = viewRoot
             /\ viewPod'[s] = viewPod[s] \/ viewPod'[s].pod = pod[s]
  <2>1. viewPod' = [viewPod EXCEPT ![t] = Status(t)] /\ viewPod \in [Src -> View]
    BY <1>2 DEF SyncPod, TypeInv, ClusterTypes
  <2>2. Status(s).pod = pod[s] BY DEF Status
  <2> QED BY <1>2, <2>1, <2>2 DEF SyncPod, env
<1> QED BY <1>1, <1>2 DEF Sync

\* The snapshot never shows what is not there yet.
LEMMA WorldKept == ASSUME TypeInv, WorldInv, [Next]_vars PROVE WorldInv'
<1>0. root \in Nat /\ viewRoot \in Nat /\ \A s \in Src : owner[s] \in Nat
  BY DEF TypeInv, ClusterTypes
<1>1. CASE Cluster
  <2>1. viewRoot' <= root'
    <3>1. CASE Src = {}
      <4>1. RootMoves BY <1>1, <3>1 DEF Cluster
      <4> QED BY <4>1, <1>0 DEF RootMoves, view, WorldInv
    <3>2. ASSUME NEW s \in Src PROVE viewRoot' <= root'
      <4>1. viewRoot' = viewRoot /\ root <= root' BY <1>1, PodMoved
      <4>2. root' \in Nat
        <5>1. root' = root \/ root' = root + 1
          BY <1>1 DEF Cluster, Create, Run, Write, Stop, Restart, Finish, Delete, PodMoves, RootMoves
        <5> QED BY <5>1, <1>0
      <4> QED BY <4>1, <4>2, <1>0 DEF WorldInv
    <3> QED BY <3>1, <3>2
  <2>2. ASSUME NEW s \in Src
        PROVE  /\ Alive(owner'[s]) /\ owner'[s] <= root'
               /\ viewPod'[s].pod # "none" => pod'[s] # "none"
               /\ viewPod'[s].pod = "deleted" => pod'[s] = "deleted"
    <3>1. root' \in Nat
      <4>1. root' = root \/ root' = root + 1
        BY <1>1 DEF Cluster, Create, Run, Write, Stop, Restart, Finish, Delete, PodMoves, RootMoves
      <4> QED BY <4>1, <1>0
    <3> QED BY <3>1, <1>0, <1>1, PodMoved DEF WorldInv
  <2> QED BY <2>1, <2>2 DEF WorldInv, Alive
<1>2. CASE Sync
  <2>1. viewRoot' <= root'
    <3>1. CASE SyncRoot BY <3>1, <1>0 DEF SyncRoot, env
    <3>2. CASE \E s \in Src : SyncPod(s) BY <3>2 DEF SyncPod, env, WorldInv
    <3> QED BY <1>2, <3>1, <3>2 DEF Sync
  <2>2. ASSUME NEW s \in Src
        PROVE  /\ Alive(owner'[s]) /\ owner'[s] <= root'
               /\ viewPod'[s].pod # "none" => pod'[s] # "none"
               /\ viewPod'[s].pod = "deleted" => pod'[s] = "deleted"
    BY <1>2, Synced DEF WorldInv
  <2> QED BY <2>1, <2>2 DEF WorldInv, Alive
<1>3. CASE ~Cluster /\ ~Sync BY <1>3, WorldFixed DEF WorldInv
<1> QED BY <1>1, <1>2, <1>3

\* A source that the snapshot has shown stays where it is in the world.
LEMMA PastKept ==
  ASSUME TypeInv, WorldInv, [Next]_vars, NEW s \in Src, Seen(s)
  PROVE  /\ owner'[s] = owner[s] /\ viewRoot <= viewRoot'
         /\ viewPod[s].pod = "deleted" => viewPod'[s].pod = "deleted"
         /\ Seen(s)'
<1>0. root \in Nat /\ viewRoot \in Nat /\ owner[s] \in Nat /\ viewRoot <= root
  BY DEF TypeInv, ClusterTypes, WorldInv
<1>1. pod[s] # "none" /\ (viewPod[s].pod = "deleted" => pod[s] = "deleted")
      /\ viewPod[s].pod # "none" /\ owner[s] <= viewRoot
  BY DEF Seen, WorldInv
<1>2. CASE Cluster BY <1>0, <1>1, <1>2, PodMoved DEF Seen
<1>3. CASE Sync BY <1>0, <1>1, <1>3, Synced DEF Seen
<1>4. CASE ~Cluster /\ ~Sync BY <1>0, <1>1, <1>4, WorldFixed DEF Seen
<1> QED BY <1>2, <1>3, <1>4

-----------------------------------------------------------------------------
(* A source that a step does not touch.                                    *)

\* The types of all that concerns one source.
LEMMA TypesOf ==
  ASSUME TypeInv, NEW s \in Src
  PROVE  /\ log[s] \in Seq(Entry) /\ Len(log[s]) \in Nat /\ Start(s) \in Nat
         /\ resumes[s] \in Resume /\ LiveOf(s) \in Resume /\ SnapshotOf(s) \in Resume
         /\ streamer[s].at = "reading" =>
              /\ streamer[s].next \in Nat /\ streamer[s].resume \in Resume
              /\ streamer[s] \in ReadingStream
         /\ Lo(s) \in Nat
<1>1. log[s] \in Seq(Entry) /\ resumes[s] \in Resume BY DEF TypeInv, ClusterTypes, ServerTypes
<1>2. Len(log[s]) \in Nat /\ Start(s) \in Nat BY StartTyped DEF TypeInv
<1>3. LiveOf(s) \in Resume BY LiveOfTyped
<1>4. SnapshotOf(s) \in Resume BY NoResumeTyped DEF SnapshotOf, TypeInv, TabTypes
<1>5. streamer[s].at = "reading" =>
        /\ streamer[s].next \in Nat /\ streamer[s].resume \in Resume
        /\ streamer[s] \in ReadingStream
  BY StreamerOf DEF StreamerStates, ReadingStream, Off
<1>6. Lo(s) \in Nat BY <1>2, <1>5 DEF Lo
<1> QED BY <1>1, <1>2, <1>3, <1>4, <1>5, <1>6

\* And after the step.
LEMMA TypesNext ==
  TypeInv' => \A s \in Src : /\ Start(s)' \in Nat /\ Lo(s)' \in Nat /\ log'[s] \in Seq(Entry)
                              /\ resumes'[s] \in Resume
<1> DEFINE P == \A s \in Src : /\ Start(s) \in Nat /\ Lo(s) \in Nat /\ log[s] \in Seq(Entry)
                                /\ resumes[s] \in Resume
<1>1. TypeInv => P BY TypesOf
<1> HIDE DEF P
<1>2. TypeInv' => P' BY <1>1, PTL
<1> QED BY <1>2 DEF P

\* Lines on their way and lines shown are places of the logs.
LEMMA PlacesTyped ==
  ASSUME TypeInv, NEW s \in Src
  PROVE  /\ lines \in Seq(Line) /\ \A i \in DOMAIN lines : lines[i].src = s => lines[i].n <= Len(log[s])
         /\ shown \in Seq(Line) /\ \A i \in DOMAIN shown : shown[i].src = s => shown[i].n <= Len(log[s])
BY DEF TypeInv, ServerTypes, TabTypes, Place

\* What steps must respect that leave a source's streamer alone.
LEMMA ServerKept ==
  ASSUME TypeInv, TypeInv', WorldInv, [Next]_vars, NEW s \in Src, NEW f \in Nat,
         Ordered(log[s]), ServerInv(s, f),
         streamer'[s] = streamer[s], drained'[s] = drained[s],
         \/ resumes'[s] = resumes[s]
         \/ resumes'[s] = NoResume /\ streamer[s] = Off /\ (f = 0 \/ Retired(s)'),
         Queued(s)' \subseteq Queued(s),
         s \in DOMAIN plan' => s \in DOMAIN plan
                               \/ (Seen(s)' /\ owner'[s] = viewRoot' /\ viewPod'[s].pod # "deleted"
                                   /\ viewRoot' = viewRoot),
         connected => connected'
  PROVE  ServerInv(s, f)'
<1> DEFINE lg == log[s]
           lg2 == log'[s]
<1>1. lg \in Seq(Entry) /\ lg2 \in Seq(Entry) /\ Extends(lg2, lg) /\ Start(s) \in Nat
      /\ Start(s)' \in Nat /\ Start(s) <= Start(s)' /\ resumes[s] \in Resume
  <2>1. lg \in Seq(Entry) /\ Start(s) \in Nat /\ resumes[s] \in Resume BY TypesOf
  <2>2. lg2 \in Seq(Entry) BY DEF TypeInv, ClusterTypes
  <2>3. Start(s)' \in Nat /\ Start(s) <= Start(s)' BY StartGrows, TypesNext
  <2> QED BY <2>1, <2>2, <2>3, LogGrows
<1>2. f \in Placed(lg) BY DEF ServerInv, Placed
<1>3. f \in Marked(lg2) \cup {0} BY <1>1, <1>2, ExtendsFacts DEF Placed
<1>4. (s \in DOMAIN plan' \/ streamer'[s] # Off \/ resumes'[s] # NoResume \/ f > 0) => Seen(s)'
  <2>1. Seen(s) => Seen(s)' BY PastKept
  <2> QED BY <2>1 DEF ServerInv
<1>5. Retired(s)' \/ Recording(lg2, Start(s)', resumes'[s], f)
  <2>1. CASE ~Seen(s)
    <3>1. f = 0 /\ resumes[s] = NoResume BY <2>1 DEF ServerInv
    <3>2. resumes'[s] = NoResume BY <3>1
    <3> QED BY <3>1, <3>2 DEF Recording
  <2>2. CASE Seen(s) /\ Retired(s)
    <3>1. /\ owner'[s] = owner[s] /\ viewRoot <= viewRoot'
          /\ viewPod[s].pod = "deleted" => viewPod'[s].pod = "deleted"
      BY <2>2, PastKept
    <3>2. viewRoot \in Nat /\ viewRoot' \in Nat /\ owner[s] \in Nat BY DEF TypeInv, ClusterTypes
    <3>3. streamer'[s] = Off BY <2>2 DEF Retired
    <3>4. CASE drained[s].terminal BY <3>3, <3>4 DEF Retired
    <3>5. CASE s \notin DOMAIN plan /\ owner[s] < viewRoot BY <3>1, <3>2, <3>3, <3>5 DEF Retired
    <3>6. CASE s \notin DOMAIN plan /\ viewPod[s].pod = "deleted"
      BY <3>1, <3>2, <3>3, <3>6 DEF Retired
    <3> QED BY <2>2, <3>4, <3>5, <3>6 DEF Retired
  <2>3. CASE ~Retired(s) /\ resumes'[s] = resumes[s]
    <3>1. Recording(lg, Start(s), resumes[s], f) BY <2>3 DEF ServerInv
    <3>2. Recording(lg2, Start(s)', resumes[s], f) BY <1>1, <1>2, <3>1, RecordingGrown
    <3> QED BY <3>2, <2>3
  <2>4. CASE resumes'[s] = NoResume /\ f = 0 BY <2>4 DEF Recording
  <2> QED BY <2>1, <2>2, <2>3, <2>4
<1>6. ASSUME streamer'[s].at = "reading"
      PROVE  /\ streamer'[s].next <= Len(lg2) + 1
             /\ Reading(lg2, Start(s)', resumes'[s], streamer'[s].resume, streamer'[s].next, f)
  <2>1. streamer[s].at = "reading" /\ streamer[s] # Off BY <1>6 DEF Off
  <2>2. /\ streamer[s].next <= Len(lg) + 1
        /\ Reading(lg, Start(s), resumes[s], streamer[s].resume, streamer[s].next, f)
    BY <2>1 DEF ServerInv
  <2>3. resumes'[s] = resumes[s] BY <2>1
  <2>4. streamer[s].next \in Nat /\ streamer[s].resume \in Resume BY <2>1, TypesOf
  <2>5. Reading(lg2, Start(s)', resumes[s], streamer[s].resume, streamer[s].next, f)
    BY <1>1, <1>2, <2>2, <2>4, ReadingGrown
  <2>6. Len(lg) \in Nat /\ Len(lg2) \in Nat /\ Len(lg) <= Len(lg2) BY <1>1 DEF Extends
  <2> QED BY <2>2, <2>3, <2>4, <2>5, <2>6
<1>7. \A m \in Queued(s)' : m <= f BY DEF ServerInv
<1>8. ~connected' => f = 0 BY DEF ServerInv
<1> QED BY <1>3, <1>4, <1>5, <1>6, <1>7, <1>8 DEF ServerInv

\* What steps must respect that leave the tab's records alone.
LEMMA TabKept ==
  ASSUME TypeInv, TypeInv', [Next]_vars, NEW s \in Src, NEW f \in Nat, NEW a \in Nat,
         ServerInv(s, f), TabInv(s, f, a), OnScreen(s, a)', Lo(s) <= Lo(s)',
         LiveOf(s)' = LiveOf(s), SnapshotOf(s)' = SnapshotOf(s),
         resumes'[s] = resumes[s] \/ resumes'[s] = NoResume,
         Queued(s)' = Queued(s), connected' => connected
  PROVE  TabInv(s, f, a)'
<1> DEFINE lg == log[s]
           lg2 == log'[s]
<1>0. PICK L, D, Q, R, start, start2, lo, lo2 :
        /\ L = LiveOf(s) /\ D = SnapshotOf(s) /\ Q = Queued(s) /\ R = resumes[s]
        /\ start = Start(s) /\ start2 = Start(s)' /\ lo = Lo(s) /\ lo2 = Lo(s)'
  OBVIOUS
<1>1. lg \in Seq(Entry) /\ lg2 \in Seq(Entry) /\ Extends(lg2, lg) /\ start \in Nat
      /\ start2 \in Nat /\ start <= start2 /\ L \in Resume /\ D \in Resume
      /\ lo \in Nat /\ lo2 \in Nat /\ lo <= lo2
  <2>1. lg \in Seq(Entry) /\ start \in Nat /\ L \in Resume /\ D \in Resume /\ lo \in Nat
    BY <1>0, TypesOf
  <2>2. lg2 \in Seq(Entry) BY DEF TypeInv, ClusterTypes
  <2>3. start2 \in Nat /\ start <= start2 /\ lo2 \in Nat BY <1>0, StartGrows, TypesNext
  <2> QED BY <1>0, <2>1, <2>2, <2>3, LogGrows
<1>2. f \in Placed(lg) /\ a \in Placed(lg) BY DEF ServerInv, TabInv, Placed
<1>3. a \in Marked(lg2) \cup {0} BY <1>1, <1>2, ExtendsFacts DEF Placed
<1>4. Tracking(lg2, start2, L, a)
  <2>1. Recording(lg, start, L, a) BY <1>0, TrackingIsRecording DEF TabInv
  <2>2. Recording(lg2, start2, L, a) BY <1>1, <1>2, <2>1, RecordingGrown
  <2> QED BY <2>2, TrackingIsRecording
<1>5. Q \subseteq Marked(lg) BY <1>0 DEF Queued, PlacesIn
<1>6. ASSUME connected'
      PROVE  /\ Filtering(lg2, Q, lo2, D, f, a)
             /\ Accounted(lg2, start2, Q, L, D, a)
             /\ Balanced(lg2, resumes'[s], Q, L, D, f, a)
             /\ Below(D, L)
  <2>1. /\ Filtering(lg, Q, lo, D, f, a) /\ Accounted(lg, start, Q, L, D, a)
        /\ Balanced(lg, R, Q, L, D, f, a) /\ Below(D, L)
    BY <1>0, <1>6 DEF TabInv
  <2>2. Coming(lg2, Q, lo2, f, a) \subseteq Coming(lg, Q, lo, f, a)
    <3> SUFFICES ASSUME NEW n \in Coming(lg2, Q, lo2, f, a) PROVE n \in Coming(lg, Q, lo, f, a)
      OBVIOUS
    <3>1. n \in Marked(lg2) /\ n <= a /\ (n \in Q \/ (n > f /\ n >= lo2)) BY DEF Coming
    <3>2. n \in Nat /\ a <= Len(lg) /\ Len(lg) \in Nat
      <4>1. a <= Len(lg) BY <1>1, <1>2, ExtendsFacts
      <4>2. n \in DOMAIN lg2 BY <3>1 DEF Marked
      <4> QED BY <4>1, <4>2, <1>1
    <3>3. n \in Marked(lg)
      <4>1. n <= Len(lg) BY <3>1, <3>2
      <4> QED BY <4>1, <3>1, <1>1, ExtendsFacts
    <3>4. n >= lo2 => n >= lo BY <1>1, <3>2
    <3> QED BY <3>1, <3>3, <3>4 DEF Coming
  <2>3. Filtering(lg2, Q, lo2, D, f, a) BY <1>1, <1>2, <2>1, <2>2, FilteringShrinks
  <2>4. \A stamp : \A t \in Texts : Passed(L, D, stamp, t) \in Int
    BY <1>1, <2>1, PassedNat
  <2>5. Accounted(lg2, start2, Q, L, D, a) BY <1>1, <1>2, <1>5, <2>1, <2>4, AccountedGrown
  <2>6. Balanced(lg2, R, Q, L, D, f, a) BY <1>1, <1>2, <1>5, <2>1, BalancedGrown
  <2>7. Balanced(lg2, resumes'[s], Q, L, D, f, a)
    <3>1. CASE resumes'[s] = resumes[s] BY <3>1, <2>6, <1>0
    <3>2. CASE resumes'[s] = NoResume
      <4>1. resumes'[s].stamp = -1 BY <3>2 DEF NoResume
      <4> QED BY <4>1 DEF Balanced
    <3> QED BY <3>1, <3>2
  <2> QED BY <2>1, <2>3, <2>5, <2>7
<1> HIDE DEF lg, lg2
<1> QED BY <1>0, <1>3, <1>4, <1>6 DEF TabInv, lg2

\* A source is never read from further back than before.
LEMMA LoKept ==
  ASSUME TypeInv, TypeInv', [Next]_vars, NEW s \in Src,
         streamer'[s] = streamer[s] \/ streamer'[s].at # "reading"
                                    \/ (streamer'[s].at = "reading" /\ streamer[s].at = "reading"
                                        /\ streamer'[s].next = streamer[s].next + 1)
                                    \/ (streamer[s].at # "reading" /\ streamer'[s].at = "reading"
                                        /\ streamer'[s].next = Start(s)')
  PROVE  Lo(s) <= Lo(s)'
<1>1. Start(s) \in Nat /\ Start(s)' \in Nat /\ Start(s) <= Start(s)'
  BY TypesOf, TypesNext, StartGrows
<1>2. streamer[s].at = "reading" => streamer[s].next \in Nat BY TypesOf
<1>3. Lo(s)' = IF streamer'[s].at = "reading" /\ streamer'[s].next < Start(s)'
               THEN streamer'[s].next ELSE Start(s)'
  BY DEF Lo
<1>4. CASE streamer[s].at = "reading" BY <1>1, <1>2, <1>3, <1>4 DEF Lo
<1>5. CASE streamer[s].at # "reading"
  <2>1. Lo(s) = Start(s) BY <1>5 DEF Lo
  <2>2. Lo(s)' = Start(s)' BY <1>1, <1>3, <1>5
  <2> QED BY <2>1, <2>2, <1>1
<1> QED BY <1>4, <1>5

\* A screen that does not change stays in order.
LEMMA ScreenKept ==
  ASSUME TypeInv, TypeInv', [Next]_vars, NEW s \in Src, NEW a, OnScreen(s, a), shown' = shown
  PROVE  OnScreen(s, a)'
<1>1. /\ log[s] \in Seq(Entry) /\ log'[s] \in Seq(Entry) /\ Extends(log'[s], log[s])
      /\ shown \in Seq(Line) /\ \A i \in DOMAIN shown : shown[i].src = s => shown[i].n <= Len(log[s])
  BY TypesOf, TypesNext, LogGrows, PlacesTyped
<1>2. /\ PlacesIn(shown, s, log'[s]) = PlacesIn(shown, s, log[s])
      /\ InOrder(shown, s, log'[s])
  BY <1>1, PlacesKept DEF OnScreen
<1> QED BY <1>2 DEF OnScreen

\* A wire that does not change stays in order.
LEMMA QueueKept ==
  ASSUME TypeInv, TypeInv', [Next]_vars, NEW s \in Src, InOrder(lines, s, log[s]), lines' = lines
  PROVE  Queued(s)' = Queued(s) /\ InOrder(lines', s, log'[s])
<1>1. /\ log[s] \in Seq(Entry) /\ log'[s] \in Seq(Entry) /\ Extends(log'[s], log[s])
      /\ lines \in Seq(Line) /\ \A i \in DOMAIN lines : lines[i].src = s => lines[i].n <= Len(log[s])
  BY TypesOf, TypesNext, LogGrows, PlacesTyped
<1>2. /\ PlacesIn(lines, s, log'[s]) = PlacesIn(lines, s, log[s])
      /\ InOrder(lines, s, log'[s])
  BY <1>1, PlacesKept
<1> QED BY <1>2 DEF Queued

\* Record and snapshot are functions of `live` and `delivered`.
LEMMA TabUntouched ==
  ASSUME UNCHANGED <<live, delivered>>, NEW s
  PROVE  LiveOf(s)' = LiveOf(s) /\ SnapshotOf(s)' = SnapshotOf(s)
BY DEF LiveOf, Known, SnapshotOf

\* A step of somebody else keeps what holds of a source.
LEMMA Bystander ==
  ASSUME TypeInv, TypeInv', WorldInv, [Next]_vars, NEW s \in Src, SourceInv(s),
         streamer'[s] = streamer[s], drained'[s] = drained[s],
         \/ resumes'[s] = resumes[s]
         \/ resumes'[s] = NoResume /\ streamer[s] = Off
            /\ \A f \in Nat : ServerInv(s, f) => f = 0 \/ Retired(s)',
         Queued(s)' = Queued(s), InOrder(lines', s, log'[s]),
         UNCHANGED <<live, shown, delivered, forgot>>, connected' = connected,
         s \in DOMAIN plan' => s \in DOMAIN plan
                               \/ (Seen(s)' /\ owner'[s] = viewRoot' /\ viewPod'[s].pod # "deleted"
                                   /\ viewRoot' = viewRoot)
  PROVE  SourceInv(s)'
<1>1. PICK f \in Nat : ServerInv(s, f) /\ (s \notin forgot => \E a \in Nat : TabInv(s, f, a))
  BY DEF SourceInv
<1>2. Ordered(log[s]) /\ Ordered(log'[s]) BY OrderedKept DEF SourceInv
<1>3. ServerInv(s, f)' BY <1>1, <1>2, ServerKept
<1>4. ASSUME s \notin forgot PROVE \E a \in Nat : TabInv(s, f, a)'
  <2>1. PICK a \in Nat : TabInv(s, f, a) BY <1>1, <1>4
  <2>2. OnScreen(s, a)' BY <2>1, ScreenKept DEF TabInv
  <2>3. Lo(s) <= Lo(s)' BY LoKept
  <2>4. LiveOf(s)' = LiveOf(s) /\ SnapshotOf(s)' = SnapshotOf(s) BY TabUntouched
  <2>5. TabInv(s, f, a)' BY <1>1, <2>1, <2>2, <2>3, <2>4, TabKept
  <2> QED BY <2>5
<1> QED BY <1>2, <1>3, <1>4 DEF SourceInv

-----------------------------------------------------------------------------
(* The supervisor and the streamer, one step each.                         *)

\* Pruning forgets a record only when the source cannot be streamed again.
LEMMA ResolveKeeps ==
  ASSUME TypeInv, TypeInv', WorldInv, [Next]_vars, Resolve, NEW s \in Src, SourceInv(s)
  PROVE  SourceInv(s)'
<1>1. /\ UNCHANGED <<owner, viewPod, viewRoot, streamer, drained, lines, live, shown, delivered,
                     forgot, connected>>
      /\ DOMAIN plan' = Resolved /\ resumes' = Pruned(Resolved) /\ plan = <<>>
  BY DEF Resolve, env, view, tab
<1>2. streamer'[s] = streamer[s] /\ drained'[s] = drained[s] BY <1>1
<1>3. Queued(s)' = Queued(s) /\ InOrder(lines', s, log'[s]) BY <1>1, QueueKept DEF SourceInv
<1>4. s \in DOMAIN plan' => /\ Seen(s)' /\ owner'[s] = viewRoot' /\ viewPod'[s].pod # "deleted"
                            /\ viewRoot' = viewRoot
  <2>1. viewRoot \in Nat BY DEF TypeInv, ClusterTypes
  <2> QED BY <1>1, <2>1 DEF Resolved, Seen
<1>5. CASE s \in Resolved \/ streamer[s] # Off
  <2>1. resumes'[s] = resumes[s] BY <1>1, <1>5 DEF Pruned
  <2> QED BY <2>1, <1>1, <1>2, <1>3, <1>4, Bystander
<1>6. CASE s \notin Resolved /\ streamer[s] = Off
  <2>1. resumes'[s] = NoResume BY <1>1, <1>6 DEF Pruned
  <2>2. ASSUME NEW f \in Nat, ServerInv(s, f) PROVE f = 0 \/ Retired(s)'
    <3> SUFFICES ASSUME f > 0 PROVE Retired(s)' OBVIOUS
    <3>1. Seen(s) BY <2>2 DEF ServerInv
    <3>2. owner[s] < viewRoot \/ viewPod[s].pod = "deleted"
      <4>1. Alive(owner[s]) /\ owner[s] \in Nat /\ viewRoot \in Nat
        BY DEF WorldInv, TypeInv, ClusterTypes
      <4>2. owner[s] <= viewRoot /\ viewPod[s].pod # "none" BY <3>1 DEF Seen
      <4>3. CASE owner[s] = viewRoot BY <4>1, <4>2, <4>3, <1>6 DEF Resolved
      <4>4. CASE owner[s] # viewRoot BY <4>1, <4>2, <4>4
      <4> QED BY <4>3, <4>4
    <3> QED BY <3>2, <1>1, <1>6 DEF Retired
  <2> QED BY <2>1, <2>2, <1>1, <1>2, <1>3, <1>4, <1>6, Bystander
<1> QED BY <1>5, <1>6

\* A turn of the streamer of s that sends nothing.
TurnsTo(s, f) ==
  /\ streamer'[s] # Off \/ resumes'[s] # NoResume => Seen(s)
  /\ Retired(s)' \/ Recording(log[s], Start(s), resumes'[s], f)
  /\ streamer'[s].at = "reading" =>
       /\ streamer'[s].next <= Len(log[s]) + 1
       /\ Reading(log[s], Start(s), resumes'[s], streamer'[s].resume, streamer'[s].next, f)

\* A step of a source's streamer that puts no line on the wire.
LEMMA Turn ==
  ASSUME TypeInv, TypeInv', [Next]_vars, NEW s \in Src, SourceInv(s),
         UNCHANGED <<limit, env, view, tab>>,
         Queued(s)' = Queued(s), InOrder(lines', s, log'[s]),
         s \in DOMAIN plan' => s \in DOMAIN plan,
         resumes'[s] = resumes[s] \/ resumes'[s] = NoResume,
         Lo(s) <= Lo(s)', \A f \in Nat : ServerInv(s, f) => TurnsTo(s, f)
  PROVE  SourceInv(s)'
<1>1. PICK f \in Nat : ServerInv(s, f) /\ (s \notin forgot => \E a \in Nat : TabInv(s, f, a))
  BY DEF SourceInv
<1>2. Ordered(log'[s]) BY OrderedKept DEF SourceInv
<1>3. /\ log' = log /\ Start(s)' = Start(s) /\ (Seen(s)' <=> Seen(s)) /\ connected' = connected
      /\ forgot' = forgot /\ shown' = shown /\ live' = live /\ delivered' = delivered
  BY DEF env, view, tab, Start, Begin, Seen
<1>4. TurnsTo(s, f) BY <1>1
<1>5. ServerInv(s, f)'
  <2>1. f \in Marked(log'[s]) \cup {0} BY <1>1, <1>3 DEF ServerInv
  <2>2. (s \in DOMAIN plan' \/ streamer'[s] # Off \/ resumes'[s] # NoResume \/ f > 0) => Seen(s)'
    BY <1>1, <1>3, <1>4 DEF ServerInv, TurnsTo
  <2>3. Retired(s)' \/ Recording(log'[s], Start(s)', resumes'[s], f)
    BY <1>3, <1>4 DEF TurnsTo
  <2>4. streamer'[s].at = "reading" =>
          /\ streamer'[s].next <= Len(log'[s]) + 1
          /\ Reading(log'[s], Start(s)', resumes'[s], streamer'[s].resume, streamer'[s].next, f)
    BY <1>3, <1>4 DEF TurnsTo
  <2>5. (\A m \in Queued(s)' : m <= f) /\ (~connected' => f = 0) BY <1>1, <1>3 DEF ServerInv
  <2> QED BY <2>1, <2>2, <2>3, <2>4, <2>5 DEF ServerInv
<1>6. ASSUME s \notin forgot PROVE \E a \in Nat : TabInv(s, f, a)'
  <2>1. PICK a \in Nat : TabInv(s, f, a) BY <1>1, <1>6
  <2>2. OnScreen(s, a)' BY <1>3, <2>1, ScreenKept DEF TabInv
  <2>3. LiveOf(s)' = LiveOf(s) /\ SnapshotOf(s)' = SnapshotOf(s) BY <1>3, TabUntouched
  <2>4. TabInv(s, f, a)' BY <1>1, <1>3, <2>1, <2>2, <2>3, TabKept
  <2> QED BY <2>4
<1> QED BY <1>2, <1>3, <1>5, <1>6 DEF SourceInv

\* A target is only considered once, and skipped while it is streamed.
LEMMA ConsiderKeeps ==
  ASSUME TypeInv, TypeInv', WorldInv, [Next]_vars, NEW s \in Src, Consider(s), SourceInv(s)
  PROVE  SourceInv(s)'
<1>1. /\ UNCHANGED <<limit, env, view, lines, tab>> /\ resumes' = resumes /\ drained' = drained
      /\ s \in DOMAIN plan /\ DOMAIN plan' = DOMAIN plan \ {s}
  BY DEF Consider, chan
<1>4. Queued(s)' = Queued(s) /\ InOrder(lines', s, log'[s]) BY <1>1, QueueKept DEF SourceInv
<1>2. CASE Skipped(s, plan[s])
  <2>1. streamer'[s] = streamer[s] BY <1>2 DEF Consider
  <2> QED BY <1>1, <2>1, <1>4, Bystander DEF tab
<1>3. CASE ~Skipped(s, plan[s])
  <2>1. streamer[s] = Off /\ ~drained[s].terminal BY <1>3 DEF Skipped
  <2>2. ~Retired(s) BY <1>1, <2>1 DEF Retired
  <2>3. streamer'[s] = [at |-> "opening", seen |-> plan[s]]
    BY <1>3 DEF Consider, TypeInv, ServerTypes
  <2>4. streamer'[s].at # "reading" BY <2>3
  <2>5. Lo(s) <= Lo(s)' BY <2>4, LoKept
  <2>6. ASSUME NEW f \in Nat, ServerInv(s, f) PROVE TurnsTo(s, f)
    BY <1>1, <2>2, <2>4, <2>6 DEF ServerInv, TurnsTo
  <2> QED BY <1>1, <1>4, <2>5, <2>6, Turn
<1> QED BY <1>2, <1>3

\* A re-opened tail meets the record of what was sent of it.
LEMMA OpenKeeps ==
  ASSUME TypeInv, TypeInv', [Next]_vars, NEW s \in Src, Open(s), SourceInv(s)
  PROVE  SourceInv(s)'
<1>1. /\ UNCHANGED <<limit, env, view, lines, tab>> /\ resumes' = resumes /\ plan' = plan
      /\ streamer[s].at = "opening"
  BY DEF Open, chan
<1>2. streamer[s] # Off /\ streamer[s].at # "reading" /\ Off.at # "reading" BY <1>1 DEF Off
<1>3. streamer'[s] = IF HasLog(s) THEN Opened(s) ELSE Off
  BY DEF Open, TypeInv, ServerTypes
<1>4. Start(s)' = Start(s) BY <1>1 DEF env, Start, Begin
<1>5. /\ log[s] \in Seq(Entry) /\ Len(log[s]) \in Nat /\ Start(s) \in Nat /\ resumes[s] \in Resume
      /\ Ordered(log[s])
  BY TypesOf DEF SourceInv
<1>6. Start(s) <= Len(log[s]) + 1
  <2>1. begins[s] \in Seq(Nat \ {0}) /\ begins[s] # <<>>
        /\ \A g \in DOMAIN begins[s] : begins[s][g] <= Len(log[s]) + 1
    BY DEF TypeInv, ClusterTypes
  <2>2. Begin(s) <= Len(log[s]) + 1 BY <2>1 DEF Begin
  <2>3. limit.tail \in Nat \ {0} BY LimitTyped DEF TypeInv, ClusterTypes
  <2> QED BY <1>5, <2>2, <2>3 DEF Start
<1>9. Queued(s)' = Queued(s) /\ InOrder(lines', s, log'[s]) BY <1>1, QueueKept DEF SourceInv
<1>7. CASE HasLog(s)
  <2>1. /\ streamer'[s].at = "reading" /\ streamer'[s].next = Start(s)
        /\ streamer'[s].resume = resumes[s]
    BY <1>3, <1>7 DEF Opened
  <2>2. Lo(s) <= Lo(s)' BY <1>2, <1>4, <2>1, LoKept
  <2>3. ASSUME NEW f \in Nat, ServerInv(s, f) PROVE TurnsTo(s, f)
    <3>1. Recording(log[s], Start(s), resumes[s], f) /\ f \in Placed(log[s]) /\ Seen(s)
      BY <1>2, <2>3 DEF ServerInv, Retired, Placed
    <3>2. Reading(log[s], Start(s), resumes[s], resumes[s], Start(s), f)
      BY <1>5, <3>1, ReadingOpens
    <3> QED BY <1>1, <1>6, <2>1, <3>1, <3>2 DEF TurnsTo
  <2> QED BY <1>1, <1>9, <2>2, <2>3, Turn
<1>8. CASE ~HasLog(s)
  <2>1. streamer'[s] = Off /\ streamer'[s].at # "reading" BY <1>2, <1>3, <1>8
  <2>2. Lo(s) <= Lo(s)' BY <2>1, LoKept
  <2>3. ASSUME NEW f \in Nat, ServerInv(s, f) PROVE TurnsTo(s, f)
    <3>1. Recording(log[s], Start(s), resumes[s], f) /\ Seen(s)
      BY <1>2, <2>3 DEF ServerInv, Retired
    <3> QED BY <1>1, <2>1, <3>1 DEF TurnsTo
  <2> QED BY <1>1, <1>9, <2>2, <2>3, Turn
<1> QED BY <1>7, <1>8

\* The end of a stream: only a container that will not run again is forgotten.
LEMMA EndsKeeps ==
  ASSUME TypeInv, TypeInv', [Next]_vars, NEW s \in Src, NEW clean \in BOOLEAN,
         streamer[s] # Off, Ends(s, clean), SourceInv(s)
  PROVE  SourceInv(s)'
<1>1. /\ UNCHANGED <<limit, env, view, lines, tab>> /\ plan' = plan
  BY DEF Ends, chan
<1>2. streamer'[s] = Off /\ Off.at # "reading"
  BY DEF Ends, TypeInv, ServerTypes, Off
<1>3. \/ resumes'[s] = resumes[s]
      \/ resumes'[s] = NoResume /\ drained'[s].terminal
  <2>1. CASE clean /\ streamer[s].seen.pod = "finished"
    <3>1. resumes'[s] = NoResume BY <2>1 DEF Ends, TypeInv, ServerTypes
    <3>2. drained'[s] = [NoMark EXCEPT !.terminal = TRUE]
      BY <2>1 DEF Ends, TypeInv, ServerTypes
    <3> QED BY <3>1, <3>2 DEF NoMark
  <2>2. CASE ~(clean /\ streamer[s].seen.pod = "finished")
    BY <2>2 DEF Ends, TypeInv, ServerTypes
  <2> QED BY <2>1, <2>2
<1>4. Lo(s) <= Lo(s)' BY <1>2, LoKept
<1>5. ASSUME NEW f \in Nat, ServerInv(s, f) PROVE TurnsTo(s, f)
  <2>1. Recording(log[s], Start(s), resumes[s], f) /\ Seen(s)
    BY <1>5 DEF ServerInv, Retired
  <2>2. Retired(s)' \/ Recording(log[s], Start(s), resumes'[s], f)
    BY <1>2, <1>3, <2>1 DEF Retired
  <2> QED BY <1>2, <2>1, <2>2 DEF TurnsTo
<1>6. Queued(s)' = Queued(s) /\ InOrder(lines', s, log'[s]) BY <1>1, QueueKept DEF SourceInv
<1> QED BY <1>1, <1>3, <1>4, <1>5, <1>6, Turn

\* The stamped lines of a source in a sequence with one line more.
LEMMA Appended ==
  ASSUME NEW sq \in Seq(Line), NEW l \in Line, NEW s, NEW lg
  PROVE  /\ PlacesIn(Append(sq, l), s, lg)
              = IF l.src = s /\ l.n \in Marked(lg) THEN PlacesIn(sq, s, lg) \cup {l.n}
                ELSE PlacesIn(sq, s, lg)
         /\ /\ InOrder(sq, s, lg)
            /\ l.src = s /\ l.n \in Marked(lg) => \A m \in PlacesIn(sq, s, lg) : m < l.n
            => InOrder(Append(sq, l), s, lg)
<1>0. PICK new : new = Append(sq, l) OBVIOUS
<1>1. /\ Len(sq) \in Nat /\ DOMAIN sq = 1 .. Len(sq) /\ DOMAIN new = 1 .. Len(sq) + 1
      /\ new[Len(sq) + 1] = l /\ \A i \in DOMAIN sq : new[i] = sq[i]
  BY <1>0
<1>2. \A i \in DOMAIN new : i \in DOMAIN sq \/ i = Len(sq) + 1 BY <1>1
<1>3. Len(sq) + 1 \in DOMAIN new /\ \A i \in DOMAIN sq : i \in DOMAIN new BY <1>1
<1>4. \A n \in Marked(lg) :
        (\E i \in DOMAIN new : new[i].src = s /\ new[i].n = n)
          <=> (\E i \in DOMAIN sq : sq[i].src = s /\ sq[i].n = n) \/ (l.src = s /\ l.n = n)
  BY <1>1, <1>2, <1>3
<1>5. PlacesIn(new, s, lg) = IF l.src = s /\ l.n \in Marked(lg) THEN PlacesIn(sq, s, lg) \cup {l.n}
                             ELSE PlacesIn(sq, s, lg)
  BY <1>4 DEF PlacesIn
<1>6. ASSUME InOrder(sq, s, lg),
             l.src = s /\ l.n \in Marked(lg) => \A m \in PlacesIn(sq, s, lg) : m < l.n
      PROVE  InOrder(new, s, lg)
  <2> SUFFICES ASSUME NEW i \in DOMAIN new, NEW j \in DOMAIN new, i < j,
                      new[i].src = s, new[j].src = s, new[i].n \in Marked(lg), new[j].n \in Marked(lg)
               PROVE  new[i].n < new[j].n
    BY DEF InOrder
  <2>1. i \in DOMAIN sq BY <1>1
  <2>2. CASE j \in DOMAIN sq BY <2>1, <2>2, <1>1, <1>6 DEF InOrder
  <2>3. CASE j = Len(sq) + 1
    <3>1. new[j] = l /\ new[i] = sq[i] BY <2>1, <2>3, <1>1
    <3>2. sq[i].n \in PlacesIn(sq, s, lg) BY <2>1, <3>1 DEF PlacesIn
    <3> QED BY <3>1, <3>2, <1>6
  <2> QED BY <1>2, <2>2, <2>3
<1> QED BY <1>0, <1>5, <1>6

\* A stamped line that the filter let through.
LEMMA Sent ==
  ASSUME TypeInv, TypeInv', [Next]_vars, QuietInv, NEW s \in Src, SourceInv(s),
         NEW nx, nx = streamer[s].next, nx \in Marked(log[s]), streamer[s].at = "reading",
         ~Replayed(streamer[s].resume, log[s][nx]),
         UNCHANGED <<limit, env, view, plan, tab>>,
         lines' = Append(lines, [src |-> s, n |-> nx]),
         resumes'[s] = Recorded(resumes[s], log[s][nx]),
         streamer'[s].at = "reading", streamer'[s].next = nx + 1,
         streamer'[s].resume = streamer[s].resume
  PROVE  SourceInv(s)'
<1>1. PICK f \in Nat : ServerInv(s, f) /\ (s \notin forgot => \E a \in Nat : TabInv(s, f, a))
  BY DEF SourceInv
<1>2. PICK lg, start, R, C, Q, N : /\ lg = log[s] /\ start = Start(s) /\ R = resumes[s]
                                   /\ C = streamer[s].resume /\ Q = Queued(s)
                                   /\ N = Recorded(R, lg[nx])
  OBVIOUS
<1>3. /\ log' = log /\ Start(s)' = Start(s) /\ (Seen(s)' <=> Seen(s)) /\ connected' = connected
      /\ forgot' = forgot /\ shown' = shown /\ live' = live /\ delivered' = delivered
  BY DEF env, view, tab, Start, Begin, Seen
<1>4. /\ lg \in Seq(Entry) /\ Len(lg) \in Nat /\ start \in Nat /\ R \in Resume /\ C \in Resume
      /\ Ordered(lg) /\ f \in Placed(lg) /\ Q \subseteq Marked(lg) /\ \A m \in Q : m <= f
  BY <1>1, <1>2, TypesOf DEF SourceInv, ServerInv, Placed, Queued, PlacesIn
<1>5. streamer[s] # Off /\ streamer'[s] # Off BY DEF Off
<1>6. connected BY <1>5 DEF QuietInv
<1>7. nx \in DOMAIN lg /\ lg[nx].at # 0 /\ lg[nx] \in Entry /\ nx \in Nat
  BY <1>2, <1>4 DEF Marked
<1>8. Recording(lg, start, R, f) /\ Reading(lg, start, R, C, nx, f) /\ Seen(s)
  BY <1>1, <1>2, <1>5 DEF ServerInv, Retired
<1>9. f < nx /\ Recording(lg, start, N, nx) /\ Reading(lg, start, N, C, nx + 1, nx)
  BY <1>2, <1>4, <1>7, <1>8, ReadingSends
<1>10. Queued(s)' = Q \cup {nx} /\ InOrder(lines', s, log'[s])
  <2>1. PICK l \in Line : l = [src |-> s, n |-> nx]
    <3>1. nx \in Nat \ {0} BY <1>4, <1>7
    <3> QED BY <3>1 DEF Line
  <2>2. l.src = s /\ l.n = nx /\ nx \in Marked(lg) BY <2>1, <1>2
  <2>3. lines \in Seq(Line) BY PlacesTyped
  <2>4. PlacesIn(lines, s, lg) = Q /\ InOrder(lines, s, lg) BY <1>2 DEF Queued, SourceInv
  <2>5. \A m \in Q : m < nx
    <3>1. \A m \in Q : m \in Nat BY <1>4 DEF Marked
    <3> QED BY <3>1, <1>4, <1>7, <1>9
  <2>6. PlacesIn(Append(lines, l), s, lg) = Q \cup {nx} /\ InOrder(Append(lines, l), s, lg)
    BY <2>2, <2>3, <2>4, <2>5, Appended
  <2> QED BY <2>1, <2>6, <1>2, <1>3 DEF Queued
<1>11. ServerInv(s, nx)'
  <2>1. nx <= Len(lg) BY <1>4, <1>7
  <2>2. \A m \in Q \cup {nx} : m <= nx
    <3>1. \A m \in Q : m \in Nat BY <1>4 DEF Marked
    <3> QED BY <3>1, <1>4, <1>7, <1>9
  <2>3. nx + 1 <= Len(lg) + 1 BY <1>4, <1>7, <2>1
  <2> QED BY <1>2, <1>3, <1>6, <1>8, <1>9, <1>10, <2>2, <2>3 DEF ServerInv
<1>12. ASSUME s \notin forgot PROVE \E a \in Nat : TabInv(s, nx, a)'
  <2>1. PICK a \in Nat : TabInv(s, f, a) BY <1>1, <1>12
  <2>2. PICK L, D, lo, lo2 : L = LiveOf(s) /\ D = SnapshotOf(s) /\ lo = Lo(s) /\ lo2 = Lo(s)'
    OBVIOUS
  <2>3. /\ L \in Resume /\ D \in Resume /\ lo \in Nat /\ lo2 \in Nat /\ a \in Placed(lg)
    BY <1>2, <2>1, <2>2, TypesOf, TypesNext DEF TabInv, Placed
  <2>4. lo <= lo2 BY <2>2, LoKept
  <2>5. lo <= nx
    <3>1. lo = IF nx < start THEN nx ELSE start BY <1>2, <2>2 DEF Lo
    <3> QED BY <3>1, <1>4, <1>7
  <2>6. /\ Filtering(lg, Q, lo, D, f, a) /\ Accounted(lg, start, Q, L, D, a)
        /\ Balanced(lg, R, Q, L, D, f, a) /\ Below(D, L)
    BY <1>2, <1>6, <2>1, <2>2 DEF TabInv
  <2>7. Coming(lg, Q \cup {nx}, lo2, nx, a) \subseteq Coming(lg, Q, lo, f, a)
    <3> SUFFICES ASSUME NEW n \in Coming(lg, Q \cup {nx}, lo2, nx, a)
                 PROVE  n \in Coming(lg, Q, lo, f, a)
      OBVIOUS
    <3>1. n \in Marked(lg) /\ n <= a /\ (n \in Q \cup {nx} \/ (n > nx /\ n >= lo2)) BY DEF Coming
    <3>2. n \in Nat BY <3>1, <1>4 DEF Marked
    <3>3. n \in Q \/ (n > f /\ n >= lo)
      BY <3>1, <3>2, <1>7, <1>9, <2>3, <2>4, <2>5
    <3> QED BY <3>1, <3>3 DEF Coming
  <2>8. Extends(lg, lg) BY <1>4 DEF Extends
  <2>9. Filtering(lg, Q \cup {nx}, lo2, D, nx, a)
    BY <1>4, <2>3, <2>6, <2>7, <2>8, FilteringShrinks
  <2>10. nx \in Marked(lg) BY <1>2
  <2>11. Balanced(lg, N, Q \cup {nx}, L, D, nx, a)
    BY <1>2, <1>4, <1>8, <1>9, <2>3, <2>6, <2>10, BalancedSends
  <2>12. N \in Resume BY <1>2, <1>4, <1>7, RecordedTyped
  <2>13. Accounted(lg, start, Q \cup {nx}, L, D, a)
    BY <1>4, <1>9, <2>3, <2>6, <2>10, <2>11, <2>12, AccountedSends
  <2>14. OnScreen(s, a)' BY <1>3, <2>1, ScreenKept DEF TabInv
  <2>15. LiveOf(s)' = L /\ SnapshotOf(s)' = D BY <1>3, <2>2, TabUntouched
  <2>16. Tracking(lg, start, L, a) BY <1>2, <2>1, <2>2 DEF TabInv
  <2>17. a \in Marked(log'[s]) \cup {0} BY <1>3, <2>1 DEF TabInv
  <2> QED BY <1>2, <1>3, <1>10, <2>2, <2>6, <2>9, <2>11, <2>13, <2>14, <2>15, <2>16, <2>17
          DEF TabInv
<1>13. Ordered(log'[s]) BY <1>2, <1>3, <1>4
<1>14. \E g \in Nat : /\ ServerInv(s, g)'
                      /\ s \notin forgot' => \E a \in Nat : TabInv(s, g, a)'
  BY <1>3, <1>7, <1>11, <1>12
<1> QED BY <1>10, <1>13, <1>14 DEF SourceInv

\* A turn of scanLogStream, dropped or sent.
LEMMA ScanKeeps ==
  ASSUME TypeInv, TypeInv', [Next]_vars, QuietInv, NEW s \in Src, Scan(s), SourceInv(s)
  PROVE  SourceInv(s)'
<1>1. /\ UNCHANGED <<limit, env, view, plan, tab>>
      /\ streamer[s].at = "reading" /\ streamer[s].next <= LastOf(s, streamer[s].instance)
  BY DEF Scan
<1>2. PICK nx, C, line : nx = streamer[s].next /\ C = streamer[s].resume /\ line = log[s][nx]
  OBVIOUS
<1>3. /\ streamer[s] \in ReadingStream /\ nx \in 1 .. Len(log[s]) /\ line \in Entry
      /\ nx <= Len(log[s])
  BY <1>1, <1>2, NextInLog
<1>4. /\ log[s] \in Seq(Entry) /\ Len(log[s]) \in Nat /\ Start(s) \in Nat /\ resumes[s] \in Resume
      /\ C \in Resume /\ Ordered(log[s]) /\ nx \in DOMAIN log[s] /\ nx \in Nat
      /\ streamer[s] # Off /\ Off.at # "reading"
  BY <1>1, <1>2, <1>3, TypesOf DEF SourceInv, Off
<1>5. ASSUME NEW f \in Nat, ServerInv(s, f)
      PROVE  /\ Recording(log[s], Start(s), resumes[s], f) /\ Seen(s) /\ f \in Placed(log[s])
             /\ Reading(log[s], Start(s), resumes[s], C, nx, f)
  BY <1>1, <1>2, <1>4, <1>5 DEF ServerInv, Retired, Placed
<1>6. PICK st : st = streamer[s] OBVIOUS
<1>7. streamer \in [Src -> StreamerStates] /\ resumes \in [Src -> Resume] /\ lines \in Seq(Line)
  BY DEF TypeInv, ServerTypes
<1>8. CASE Replayed(C, line)
  <2>1. /\ streamer' = [streamer EXCEPT ![s].next = nx + 1, ![s].resume = Matched(@, line)]
        /\ lines' = lines /\ resumes' = resumes
    BY <1>2, <1>8 DEF Scan
  <2>2. /\ streamer'[s].at = "reading" /\ streamer'[s].next = nx + 1
        /\ streamer'[s].resume = Matched(C, line)
    BY <1>1, <1>2, <1>3, <1>7, <2>1 DEF ReadingStream
  <2>3. Lo(s) <= Lo(s)' BY <1>1, <1>2, <2>2, LoKept
  <2>4. Queued(s)' = Queued(s) /\ InOrder(lines', s, log'[s]) BY <2>1, QueueKept DEF SourceInv
  <2>5. ASSUME NEW f \in Nat, ServerInv(s, f) PROVE TurnsTo(s, f)
    <3>1. Reading(log[s], Start(s), resumes[s], Matched(C, line), nx + 1, f)
      BY <1>2, <1>4, <1>5, <1>8, <2>5, ReadingDrops
    <3>2. nx + 1 <= Len(log[s]) + 1 BY <1>3, <1>4
    <3>3. resumes'[s] = resumes[s] BY <2>1
    <3> QED BY <1>5, <2>2, <2>5, <3>1, <3>2, <3>3 DEF TurnsTo
  <2> QED BY <1>1, <2>1, <2>3, <2>4, <2>5, Turn
<1>9. CASE ~Replayed(C, line)
  <2>1. /\ streamer' = [streamer EXCEPT ![s].next = nx + 1]
        /\ lines' = Append(lines, [src |-> s, n |-> nx])
        /\ resumes' = [resumes EXCEPT ![s] = Recorded(@, line)]
    BY <1>2, <1>9 DEF Scan
  <2>2. /\ streamer'[s].at = "reading" /\ streamer'[s].next = nx + 1
        /\ streamer'[s].resume = C /\ resumes'[s] = Recorded(resumes[s], line)
    BY <1>1, <1>2, <1>3, <1>7, <2>1 DEF ReadingStream
  <2>3. CASE line.at # 0
    <3>1. nx \in Marked(log[s]) BY <1>2, <1>4, <2>3 DEF Marked
    <3> QED BY <1>1, <1>2, <1>9, <2>1, <2>2, <3>1, Sent
  <2>4. CASE line.at = 0
    <3>1. resumes'[s] = resumes[s] BY <2>2, <2>4 DEF Recorded
    <3>2. Lo(s) <= Lo(s)' BY <1>1, <1>2, <2>2, LoKept
    <3>3. Queued(s)' = Queued(s) /\ InOrder(lines', s, log'[s])
      <4>0. nx \in Nat \ {0} BY <1>3, <1>4
      <4>1. PICK l \in Line : l = [src |-> s, n |-> nx] BY <4>0 DEF Line
      <4>2. l.src = s /\ l.n = nx /\ nx \notin Marked(log[s])
        BY <4>1, <1>2, <2>4 DEF Marked
      <4>3. /\ PlacesIn(Append(lines, l), s, log[s]) = PlacesIn(lines, s, log[s])
            /\ InOrder(Append(lines, l), s, log[s])
        BY <1>7, <4>2, Appended DEF SourceInv
      <4> QED BY <1>1, <2>1, <4>1, <4>3 DEF Queued, env
    <3>4. ASSUME NEW f \in Nat, ServerInv(s, f) PROVE TurnsTo(s, f)
      <4>1. Reading(log[s], Start(s), resumes[s], C, nx + 1, f)
        BY <1>2, <1>4, <1>5, <2>4, <3>4, ReadingPasses
      <4>2. nx + 1 <= Len(log[s]) + 1 BY <1>3, <1>4
      <4> QED BY <1>5, <2>2, <3>1, <3>4, <4>1, <4>2 DEF TurnsTo
    <3> QED BY <1>1, <2>2, <3>1, <3>2, <3>3, <3>4, Turn
  <2> QED BY <2>3, <2>4
<1> QED BY <1>8, <1>9

\* The same, seen from another source.
LEMMA ScanOther ==
  ASSUME TypeInv, TypeInv', WorldInv, [Next]_vars, NEW s \in Src, NEW t \in Src, t # s, Scan(t),
         SourceInv(s)
  PROVE  SourceInv(s)'
<1>1. UNCHANGED <<limit, env, plan, tab, drained>> BY DEF Scan
<1>2. /\ streamer'[s] = streamer[s] /\ resumes'[s] = resumes[s]
      /\ \/ lines' = lines
         \/ lines' = Append(lines, [src |-> t, n |-> streamer[t].next])
  BY DEF Scan, TypeInv, ServerTypes
<1>3. Queued(s)' = Queued(s) /\ InOrder(lines', s, log'[s])
  <2>1. CASE lines' = lines BY <2>1, QueueKept DEF SourceInv
  <2>2. CASE lines' = Append(lines, [src |-> t, n |-> streamer[t].next])
    <3>1. streamer[t].next \in Nat \ {0} BY TypesOf DEF Scan, ReadingStream
    <3>2. PICK l \in Line : l = [src |-> t, n |-> streamer[t].next] BY <3>1 DEF Line
    <3>3. l.src # s /\ lines \in Seq(Line) BY <3>2, PlacesTyped
    <3>4. /\ PlacesIn(Append(lines, l), s, log[s]) = PlacesIn(lines, s, log[s])
          /\ InOrder(Append(lines, l), s, log[s])
      BY <3>3, Appended DEF SourceInv
    <3> QED BY <1>1, <2>2, <3>2, <3>4 DEF Queued, env
  <2> QED BY <1>2, <2>1, <2>2
<1> QED BY <1>1, <1>2, <1>3, Bystander DEF tab

\* The other steps of a streamer, seen from another source.
LEMMA StreamerOther ==
  ASSUME TypeInv, TypeInv', WorldInv, [Next]_vars, NEW s \in Src, NEW t \in Src, t # s,
         Consider(t) \/ Open(t) \/ Eof(t) \/ Interrupt(t), SourceInv(s)
  PROVE  SourceInv(s)'
<1>1. /\ UNCHANGED <<lines, tab>> /\ streamer'[s] = streamer[s] /\ resumes'[s] = resumes[s]
      /\ drained'[s] = drained[s] /\ (s \in DOMAIN plan' => s \in DOMAIN plan)
  <2>1. CASE Consider(t) BY <2>1 DEF Consider, chan, TypeInv, ServerTypes
  <2>2. CASE Open(t) BY <2>2 DEF Open, chan, TypeInv, ServerTypes
  <2>3. ASSUME NEW clean \in BOOLEAN, Ends(t, clean)
        PROVE  /\ UNCHANGED <<lines, tab>> /\ streamer'[s] = streamer[s] /\ resumes'[s] = resumes[s]
               /\ drained'[s] = drained[s] /\ (s \in DOMAIN plan' => s \in DOMAIN plan)
    BY <2>3 DEF Ends, chan, TypeInv, ServerTypes
  <2>4. Eof(t) \/ Interrupt(t) => Ends(t, TRUE) \/ Ends(t, FALSE) BY DEF Eof, Interrupt
  <2> QED BY <2>1, <2>2, <2>3, <2>4
<1>2. Queued(s)' = Queued(s) /\ InOrder(lines', s, log'[s]) BY <1>1, QueueKept DEF SourceInv
<1> QED BY <1>1, <1>2, Bystander DEF tab

-----------------------------------------------------------------------------
(* The tab takes a line.                                                   *)

\* The stamped lines of a source behind the first line of the wire.
LEMMA Taken ==
  ASSUME NEW sq \in Seq(Line), sq # <<>>, NEW s, NEW lg \in Seq(Entry), InOrder(sq, s, lg)
  PROVE  /\ InOrder(Tail(sq), s, lg)
         /\ IF Head(sq).src = s /\ Head(sq).n \in Marked(lg)
            THEN /\ PlacesIn(Tail(sq), s, lg) = PlacesIn(sq, s, lg) \ {Head(sq).n}
                 /\ Head(sq).n \in PlacesIn(sq, s, lg)
                 /\ \A m \in PlacesIn(sq, s, lg) : Head(sq).n <= m
            ELSE PlacesIn(Tail(sq), s, lg) = PlacesIn(sq, s, lg)
<1>0. PICK rest, h : rest = Tail(sq) /\ h = Head(sq) OBVIOUS
<1>1. /\ Len(sq) \in Nat \ {0} /\ DOMAIN sq = 1 .. Len(sq) /\ DOMAIN rest = 1 .. Len(sq) - 1
      /\ h = sq[1] /\ \A j \in DOMAIN rest : rest[j] = sq[j + 1]
  BY <1>0, TailFacts
<1>2. /\ 1 \in DOMAIN sq /\ \A j \in DOMAIN rest : j \in Nat /\ j + 1 \in DOMAIN sq /\ 1 < j + 1
      /\ \A i \in DOMAIN sq : i \in Nat /\ (i # 1 => i - 1 \in DOMAIN rest /\ (i - 1) + 1 = i)
  BY <1>1
<1>3. InOrder(rest, s, lg)
  <2> SUFFICES ASSUME NEW i \in DOMAIN rest, NEW j \in DOMAIN rest, i < j,
                      rest[i].src = s, rest[j].src = s,
                      rest[i].n \in Marked(lg), rest[j].n \in Marked(lg)
               PROVE  rest[i].n < rest[j].n
    BY DEF InOrder
  <2>1. rest[i] = sq[i + 1] /\ rest[j] = sq[j + 1] /\ i + 1 < j + 1 BY <1>1, <1>2
  <2>2. i + 1 \in DOMAIN sq /\ j + 1 \in DOMAIN sq BY <1>2
  <2> QED BY <2>1, <2>2 DEF InOrder
<1>4. ASSUME NEW n
      PROVE  (\E i \in DOMAIN sq : sq[i].src = s /\ sq[i].n = n)
               <=> (h.src = s /\ h.n = n) \/ \E j \in DOMAIN rest : rest[j].src = s /\ rest[j].n = n
  <2>1. ASSUME NEW i \in DOMAIN sq, sq[i].src = s, sq[i].n = n, i # 1
        PROVE  \E j \in DOMAIN rest : rest[j].src = s /\ rest[j].n = n
    <3>1. i - 1 \in DOMAIN rest /\ rest[i - 1] = sq[i] BY <2>1, <1>1, <1>2
    <3> QED BY <3>1, <2>1
  <2>2. ASSUME NEW j \in DOMAIN rest, rest[j].src = s, rest[j].n = n
        PROVE  \E i \in DOMAIN sq : sq[i].src = s /\ sq[i].n = n
    <3>1. j + 1 \in DOMAIN sq /\ sq[j + 1] = rest[j] BY <1>1, <1>2
    <3> QED BY <3>1, <2>2
  <2> QED BY <2>1, <2>2, <1>1, <1>2
<1>5. CASE ~(h.src = s /\ h.n \in Marked(lg))
  <2>1. \A n \in Marked(lg) : ~(h.src = s /\ h.n = n) BY <1>5
  <2>2. PlacesIn(rest, s, lg) = PlacesIn(sq, s, lg) BY <2>1, <1>4 DEF PlacesIn
  <2> QED BY <2>2, <1>0, <1>3, <1>5
<1>6. CASE h.src = s /\ h.n \in Marked(lg)
  <2>1. \A m \in Marked(lg) : m \in Nat BY DEF Marked
  <2>2. ASSUME NEW m \in PlacesIn(rest, s, lg) PROVE h.n < m
    <3>1. PICK j \in DOMAIN rest : rest[j].src = s /\ rest[j].n = m BY DEF PlacesIn
    <3>2. sq[j + 1] = rest[j] /\ j + 1 \in DOMAIN sq /\ 1 \in DOMAIN sq /\ 1 < j + 1
      BY <1>1, <1>2
    <3>3. m \in Marked(lg) BY DEF PlacesIn
    <3> QED BY <3>1, <3>2, <3>3, <1>1, <1>6 DEF InOrder
  <2>3. h.n \notin PlacesIn(rest, s, lg) BY <2>1, <2>2, <1>6
  <2>4. \A n : n \in PlacesIn(sq, s, lg) <=> n = h.n \/ n \in PlacesIn(rest, s, lg)
    BY <1>4, <1>6 DEF PlacesIn
  <2>5. PlacesIn(rest, s, lg) = PlacesIn(sq, s, lg) \ {h.n} /\ h.n \in PlacesIn(sq, s, lg)
    BY <2>3, <2>4
  <2>6. ASSUME NEW m \in PlacesIn(sq, s, lg) PROVE h.n <= m
    <3>1. CASE m = h.n BY <3>1, <2>1, <1>6
    <3>2. CASE m # h.n
      <4>1. m \in PlacesIn(rest, s, lg) /\ m \in Marked(lg) BY <3>2, <2>4 DEF PlacesIn
      <4> QED BY <4>1, <2>1, <2>2, <1>6
    <3> QED BY <3>1, <3>2
  <2> QED BY <2>5, <2>6, <1>0, <1>3, <1>6
<1> QED BY <1>5, <1>6

\* A newer line keeps the screen in order, whatever the buffer drops.
LEMMA BufferedOrder ==
  ASSUME TypeInv, Len(shown) <= limit.buffer, NEW l \in Line, NEW B, B = Buffered(l),
         NEW s, NEW lg, InOrder(shown, s, lg),
         l.src = s /\ l.n \in Marked(lg) => \A m \in PlacesIn(shown, s, lg) : m < l.n
  PROVE  /\ InOrder(B, s, lg)
         /\ \A n \in PlacesIn(B, s, lg) :
              n \in PlacesIn(shown, s, lg) \/ (l.src = s /\ n = l.n)
<1>1. /\ B \in Seq(Line) /\ Len(B) > 0 /\ B[Len(B)] = l
      /\ \A i \in DOMAIN B : i # Len(B) =>
           \E j \in DOMAIN shown : B[i] = shown[j] /\ Len(B) - i = Len(shown) - j + 1
  BY BufferedFacts
<1>2. /\ Len(B) \in Nat /\ DOMAIN B = 1 .. Len(B) /\ Len(shown) \in Nat
      /\ DOMAIN shown = 1 .. Len(shown)
  BY <1>1 DEF TypeInv, TabTypes
<1>3. InOrder(B, s, lg)
  <2> SUFFICES ASSUME NEW i \in DOMAIN B, NEW j \in DOMAIN B, i < j, B[i].src = s, B[j].src = s,
                      B[i].n \in Marked(lg), B[j].n \in Marked(lg)
               PROVE  B[i].n < B[j].n
    BY DEF InOrder
  <2>1. i # Len(B) BY <1>2
  <2>2. PICK p \in DOMAIN shown : B[i] = shown[p] /\ Len(B) - i = Len(shown) - p + 1
    BY <1>1, <2>1
  <2>3. CASE j = Len(B)
    <3>1. B[j] = l BY <1>1, <2>3
    <3>2. B[i].n \in PlacesIn(shown, s, lg) BY <2>2 DEF PlacesIn
    <3> QED BY <3>1, <3>2
  <2>4. CASE j # Len(B)
    <3>1. PICK q \in DOMAIN shown : B[j] = shown[q] /\ Len(B) - j = Len(shown) - q + 1
      BY <1>1, <2>4
    <3>2. p < q BY <1>2, <2>2, <3>1
    <3> QED BY <2>2, <3>1, <3>2 DEF InOrder
  <2> QED BY <2>3, <2>4
<1>4. ASSUME NEW n \in PlacesIn(B, s, lg)
      PROVE  n \in PlacesIn(shown, s, lg) \/ (l.src = s /\ n = l.n)
  <2>1. PICK i \in DOMAIN B : B[i].src = s /\ B[i].n = n BY DEF PlacesIn
  <2>2. CASE i = Len(B) BY <1>1, <2>1, <2>2
  <2>3. CASE i # Len(B)
    <3>1. PICK j \in DOMAIN shown : B[i] = shown[j] BY <1>1, <2>3
    <3> QED BY <2>1, <3>1 DEF PlacesIn
  <2> QED BY <2>2, <2>3
<1> QED BY <1>3, <1>4

\* The record of s in a memory that holds each source once.
Found(records, s) ==
  LET known == {i \in DOMAIN records : records[i].src = s}
  IN  IF known = {} THEN NoResume ELSE records[CHOOSE i \in known : TRUE].resume

\* Where sources are unique, the record found is the one there is.
LEMMA FoundFacts ==
  ASSUME NEW records, Unique(records), NEW s
  PROVE  /\ \A k \in DOMAIN records : records[k].src = s => Found(records, s) = records[k].resume
         /\ (\A k \in DOMAIN records : records[k].src # s) => Found(records, s) = NoResume
BY DEF Found, Unique

\* The tab looks its record up in `live`.
LEMMA LiveIsFound == ASSUME NEW s PROVE LiveOf(s) = Found(live, s) /\ LiveOf(s)' = Found(live', s)
BY DEF LiveOf, Known, Found

\* What an accepted line makes of the record of each source not forgotten.
LEMMA Remembered ==
  ASSUME TypeInv, MemoryInv, NEW t \in Src, NEW line \in Entry, live' = Renewed(t, line)
  PROVE  /\ LiveOf(t)' = Recorded(LiveOf(t), line)
         /\ \A s \in Src : s # t /\ s \notin Sources(live) \ Sources(live')
              => LiveOf(s)' = LiveOf(s)
<1>0. PICK R, e : R = Recorded(LiveOf(t), line) /\ e = [src |-> t, resume |-> R] OBVIOUS
<1>1. Unique(live) /\ LiveOf(t) \in Resume BY LiveOfTyped DEF MemoryInv
<1>2. IF R = NoResume THEN live' = live ELSE Outcome(live', t, e)
  BY <1>0, RenewedFacts DEF MemoryInv
<1>3. CASE R = NoResume
  <2>1. live' = live BY <1>2, <1>3
  <2>2. \A s : LiveOf(s)' = LiveOf(s) BY <2>1, LiveIsFound
  <2>3. R = LiveOf(t)
    <3>1. R.stamp = -1 BY <1>3 DEF NoResume
    <3>2. line.at \in Nat BY DEF Entry
    <3>3. ~(line.at # 0 /\ line.at > LiveOf(t).stamp)
      <4>1. line.at # 0 /\ line.at > LiveOf(t).stamp => R.stamp = line.at
        BY <1>0, <1>1, RecordedIs
      <4> QED BY <4>1, <3>1, <3>2
    <3>4. ~(line.at # 0 /\ line.at = LiveOf(t).stamp)
      <4>1. line.at # 0 /\ line.at = LiveOf(t).stamp => R.stamp = line.at
        BY <1>0, <1>1, RecordedIs
      <4> QED BY <4>1, <3>1, <3>2
    <3> QED BY <1>0, <3>3, <3>4 DEF Recorded
  <2> QED BY <1>0, <2>2, <2>3
<1>4. CASE R # NoResume
  <2>1. Outcome(live', t, e) BY <1>2, <1>4
  <2>2. Unique(live') /\ Len(live') \in DOMAIN live' /\ live'[Len(live')] = e
    BY <2>1 DEF Outcome
  <2>3. LiveOf(t)' = R
    <3>1. live'[Len(live')].src = t /\ live'[Len(live')].resume = R BY <1>0, <2>2
    <3> QED BY <2>2, <3>1, FoundFacts, LiveIsFound
  <2>4. ASSUME NEW s \in Src, s # t, s \notin Sources(live) \ Sources(live')
        PROVE  LiveOf(s)' = LiveOf(s)
    <3>1. CASE \A k \in DOMAIN live : live[k].src # s
      <4>1. ASSUME NEW j \in DOMAIN live', live'[j].src = s PROVE FALSE
        <5>1. live'[j] # e BY <1>0, <2>4, <4>1
        <5>2. \E k \in DOMAIN live : live[k] = live'[j] BY <5>1, <2>1 DEF Outcome
        <5> QED BY <5>2, <4>1, <3>1
      <4> QED BY <4>1, <3>1, <1>1, <2>2, FoundFacts, LiveIsFound
    <3>2. CASE \E k \in DOMAIN live : live[k].src = s
      <4>1. PICK k \in DOMAIN live : live[k].src = s BY <3>2
      <4>2. s \in Sources(live') BY <2>4, <4>1 DEF Sources
      <4>3. \E j \in DOMAIN live' : live'[j].src = live[k].src BY <4>1, <4>2 DEF Sources
      <4>4. PICK j \in DOMAIN live' : live'[j] = live[k]
        BY <2>1, <2>4, <4>1, <4>3 DEF Outcome
      <4> QED BY <4>1, <4>4, <1>1, <2>2, FoundFacts, LiveIsFound
    <3> QED BY <3>1, <3>2
  <2> QED BY <1>0, <2>3, <2>4
<1> QED BY <1>3, <1>4

\* The facts about the oldest line on its way that every case needs.
LEMMA HeadLine ==
  ASSUME TypeInv, PassLine
  PROVE  /\ Head(lines) \in Line /\ Head(lines).src \in Src /\ lines # <<>> /\ connected
         /\ log[Head(lines).src][Head(lines).n] \in Entry
         /\ lines' = Tail(lines) /\ OnLog(Head(lines)) /\ connected'
         /\ UNCHANGED <<limit, env, view, sup>>
<1>1. /\ lines # <<>> /\ connected /\ connected' /\ lines' = Tail(lines) /\ OnLog(Head(lines))
      /\ UNCHANGED <<limit, env, view, sup>>
  BY DEF PassLine
<1>2. Place(log, Head(lines)) BY <1>1, TailFacts DEF TypeInv, ServerTypes
<1>3. Head(lines) \in Line /\ Head(lines).src \in Src BY <1>2 DEF Place, Line
<1>4. Head(lines).n \in 1 .. Len(log[Head(lines).src]) /\ log[Head(lines).src] \in Seq(Entry)
  BY <1>2, <1>3 DEF Place, Line, TypeInv, ClusterTypes
<1> QED BY <1>1, <1>3, <1>4

\* Taking a line off the wire leaves the server's side right.
LEMMA PassServer ==
  ASSUME TypeInv, TypeInv', WorldInv, [Next]_vars, PassLine, NEW s \in Src, NEW f \in Nat,
         Ordered(log[s]), InOrder(lines, s, log[s]), ServerInv(s, f)
  PROVE  ServerInv(s, f)' /\ InOrder(lines', s, log'[s])
<1>1. /\ lines # <<>> /\ lines' = Tail(lines) /\ connected' /\ UNCHANGED <<env, sup>>
  BY HeadLine
<1>2. lines \in Seq(Line) /\ log[s] \in Seq(Entry) /\ log' = log
  BY <1>1, PlacesTyped, LogOf DEF env
<1>3. InOrder(Tail(lines), s, log[s]) /\ PlacesIn(Tail(lines), s, log[s]) \subseteq Queued(s)
  BY <1>1, <1>2, Taken DEF Queued
<1>4. Queued(s)' \subseteq Queued(s) BY <1>1, <1>2, <1>3 DEF Queued
<1>5. /\ streamer'[s] = streamer[s] /\ drained'[s] = drained[s] /\ resumes'[s] = resumes[s]
      /\ plan' = plan
  BY <1>1 DEF sup
<1>6. ServerInv(s, f)' BY <1>1, <1>4, <1>5, ServerKept
<1> QED BY <1>1, <1>2, <1>3, <1>6

\* A line of another source, or one without a stamp, was taken.
LEMMA PassOther ==
  ASSUME TypeInv, TypeInv', WorldInv, MemoryInv, [Next]_vars, PassLine, NEW s \in Src,
         ~(Head(lines).src = s /\ Head(lines).n \in Marked(log[s])), SourceInv(s)
  PROVE  SourceInv(s)'
<1>0. PICK l, line : l = Head(lines) /\ line = log[l.src][l.n] OBVIOUS
<1>1. /\ l \in Line /\ l.src \in Src /\ line \in Entry /\ lines # <<>> /\ connected /\ connected'
      /\ lines' = Tail(lines) /\ UNCHANGED <<limit, env, view, sup>> /\ OnLog(l)
  BY <1>0, HeadLine
<1>2. PICK f \in Nat : ServerInv(s, f) /\ (s \notin forgot => \E a \in Nat : TabInv(s, f, a))
  BY DEF SourceInv
<1>3. Ordered(log[s]) /\ InOrder(lines, s, log[s]) BY DEF SourceInv
<1>4. ServerInv(s, f)' /\ InOrder(lines', s, log'[s]) BY <1>2, <1>3, PassServer
<1>5. Ordered(log'[s]) BY <1>3, OrderedKept
<1>6. log' = log /\ streamer' = streamer /\ resumes' = resumes BY <1>1 DEF env, sup
<1>7. Queued(s)' = Queued(s)
  <2>1. lines \in Seq(Line) /\ log[s] \in Seq(Entry) BY PlacesTyped, LogOf
  <2>2. PlacesIn(Tail(lines), s, log[s]) = PlacesIn(lines, s, log[s])
    BY <1>0, <1>1, <1>3, <2>1, Taken
  <2> QED BY <1>1, <1>6, <2>2 DEF Queued
<1>8. Lo(s) <= Lo(s)' BY <1>6, LoKept
<1>9. l.src = s => line.at = 0
  <2> SUFFICES ASSUME l.src = s PROVE line.at = 0 OBVIOUS
  <2>1. l.n \in DOMAIN log[s]
    <3>1. Place(log, l) BY <1>0, <1>1, TailFacts DEF TypeInv, ServerTypes
    <3>2. log[s] \in Seq(Entry) BY LogOf
    <3>3. l.n \in Nat \ {0} /\ l.n <= Len(log[s]) BY <1>1, <3>1 DEF Place, Line
    <3> QED BY <3>2, <3>3
  <2> QED BY <1>0, <2>1 DEF Marked
<1>10. ASSUME s \notin forgot' PROVE \E a \in Nat : TabInv(s, f, a)'
  <2>1. CASE Replayed(SnapshotOf(l.src), line)
    <3>1. /\ UNCHANGED <<live, shown, forgot>>
          /\ delivered' = [delivered EXCEPT ![l.src] = Matched(@, line)]
      BY <1>0, <1>1, <2>1 DEF OnLog
    <3>2. s # l.src BY <1>9, <2>1 DEF Replayed
    <3>3. LiveOf(s)' = LiveOf(s) /\ SnapshotOf(s)' = SnapshotOf(s)
      <4>1. LiveOf(s)' = LiveOf(s) BY <3>1, LiveIsFound
      <4>2. DOMAIN delivered' = DOMAIN delivered
            /\ (s \in DOMAIN delivered => delivered'[s] = delivered[s])
        BY <3>1, <3>2
      <4> QED BY <4>1, <4>2 DEF SnapshotOf
    <3>4. PICK a \in Nat : TabInv(s, f, a) BY <1>2, <1>10, <3>1
    <3>5. OnScreen(s, a)' BY <3>1, <3>4, ScreenKept DEF TabInv
    <3>6. TabInv(s, f, a)'
      BY <1>1, <1>2, <1>6, <1>7, <1>8, <3>3, <3>4, <3>5, TabKept
    <3> QED BY <3>6
  <2>2. CASE ~Replayed(SnapshotOf(l.src), line)
    <3>1. /\ live' = Renewed(l.src, line) /\ shown' = Buffered(l) /\ delivered' = delivered
          /\ forgot' = forgot \cup (Sources(live) \ Sources(live'))
      BY <1>0, <1>1, <2>2 DEF OnLog
    <3>2. PICK a \in Nat : TabInv(s, f, a) BY <1>2, <1>10, <3>1
    <3>3. LiveOf(s)' = LiveOf(s)
      <4>1. CASE s # l.src BY <1>1, <1>10, <3>1, <4>1, Remembered
      <4>2. CASE s = l.src
        <5>1. LiveOf(s)' = Recorded(LiveOf(s), line) BY <1>1, <3>1, <4>2, Remembered
        <5>2. line.at = 0 BY <1>9, <4>2
        <5> QED BY <5>1, <5>2 DEF Recorded
      <4> QED BY <4>1, <4>2
    <3>4. SnapshotOf(s)' = SnapshotOf(s) BY <3>1 DEF SnapshotOf
    <3>5. OnScreen(s, a)'
      <4>1. ~(l.src = s /\ l.n \in Marked(log[s])) BY <1>0
      <4>2. OnScreen(s, a) /\ Len(shown) <= limit.buffer BY <3>2 DEF TabInv, MemoryInv
      <4>3. /\ InOrder(shown', s, log[s])
            /\ \A n \in PlacesIn(shown', s, log[s]) :
                 n \in PlacesIn(shown, s, log[s]) \/ (l.src = s /\ n = l.n)
        BY <1>1, <3>1, <4>1, <4>2, BufferedOrder DEF OnScreen
      <4>4. \A n \in PlacesIn(shown', s, log[s]) : n <= a
        BY <4>1, <4>2, <4>3 DEF OnScreen, PlacesIn
      <4> QED BY <1>6, <4>3, <4>4 DEF OnScreen
    <3>6. TabInv(s, f, a)'
      BY <1>1, <1>2, <1>6, <1>7, <1>8, <3>2, <3>3, <3>4, <3>5, TabKept
    <3> QED BY <3>6
  <2> QED BY <2>1, <2>2
<1> QED BY <1>4, <1>5, <1>10 DEF SourceInv

\* A stamped line of s was taken: dropped, or accepted and remembered.
LEMMA PassOwn ==
  ASSUME TypeInv, TypeInv', WorldInv, MemoryInv, [Next]_vars, PassLine, NEW s \in Src,
         Head(lines).src = s, Head(lines).n \in Marked(log[s]), SourceInv(s)
  PROVE  SourceInv(s)'
<1>0. PICK l, n, lg, line : /\ l = Head(lines) /\ n = l.n /\ lg = log[s] /\ line = lg[n]
  OBVIOUS
<1>1. /\ l \in Line /\ l.src = s /\ line \in Entry /\ lines # <<>> /\ connected /\ connected'
      /\ lines' = Tail(lines) /\ UNCHANGED <<limit, env, view, sup>> /\ OnLog(l)
      /\ n \in Marked(lg) /\ line = log[l.src][l.n]
  BY <1>0, HeadLine
<1>2. PICK f \in Nat : ServerInv(s, f) /\ (s \notin forgot => \E a \in Nat : TabInv(s, f, a))
  BY DEF SourceInv
<1>3. Ordered(log[s]) /\ InOrder(lines, s, log[s]) BY DEF SourceInv
<1>4. ServerInv(s, f)' /\ InOrder(lines', s, log'[s]) BY <1>2, <1>3, PassServer
<1>5. Ordered(log'[s]) BY <1>3, OrderedKept
<1>6. /\ log' = log /\ streamer' = streamer /\ resumes' = resumes /\ Start(s)' = Start(s)
      /\ Lo(s)' = Lo(s)
  BY <1>1 DEF env, sup, Start, Begin, Lo
<1>7. PICK L, D, Q, R, start, lo :
        /\ L = LiveOf(s) /\ D = SnapshotOf(s) /\ Q = Queued(s) /\ R = resumes[s]
        /\ start = Start(s) /\ lo = Lo(s)
  OBVIOUS
<1>8. /\ lg \in Seq(Entry) /\ start \in Nat /\ L \in Resume /\ D \in Resume /\ Ordered(lg)
      /\ f \in Placed(lg) /\ Q \subseteq Marked(lg) /\ \A m \in Q : m <= f
  BY <1>0, <1>2, <1>3, <1>7, TypesOf DEF ServerInv, Placed, Queued, PlacesIn
<1>9. Queued(s)' = Q \ {n} /\ n \in Q /\ \A m \in Q : n <= m
  <2>1. lines \in Seq(Line) BY PlacesTyped
  <2>2. /\ PlacesIn(Tail(lines), s, lg) = PlacesIn(lines, s, lg) \ {n}
        /\ n \in PlacesIn(lines, s, lg) /\ \A m \in PlacesIn(lines, s, lg) : n <= m
    BY <1>0, <1>1, <1>3, <1>8, <2>1, Taken
  <2> QED BY <1>0, <1>1, <1>6, <1>7, <2>2 DEF Queued
<1>10. ASSUME s \notin forgot, NEW a \in Nat, TabInv(s, f, a)
       PROVE  /\ Tracking(lg, start, L, a) /\ a \in Placed(lg) /\ L.stamp = At(lg, a)
              /\ Filtering(lg, Q, lo, D, f, a) /\ Accounted(lg, start, Q, L, D, a)
              /\ Balanced(lg, R, Q, L, D, f, a) /\ Below(D, L)
  <2>1. Tracking(lg, start, L, a) /\ a \in Placed(lg)
    BY <1>0, <1>7, <1>10 DEF TabInv, Placed
  <2>2. L.stamp = At(lg, a) BY <2>1, TrackingIsRecording, RecordingStamp
  <2> QED BY <2>1, <2>2, <1>0, <1>1, <1>7, <1>10 DEF TabInv
<1>11. CASE Replayed(D, line)
  <2>1. /\ UNCHANGED <<live, shown, forgot>>
        /\ delivered' = [delivered EXCEPT ![s] = Matched(@, line)]
    BY <1>1, <1>7, <1>11 DEF OnLog
  <2>2. LiveOf(s)' = L BY <1>7, <2>1, LiveIsFound
  <2>3. SnapshotOf(s)' = Matched(D, line)
    <3>1. s \in DOMAIN delivered
      <4> SUFFICES ASSUME s \notin DOMAIN delivered PROVE FALSE OBVIOUS
      <4>1. D.stamp = -1 BY <1>7 DEF SnapshotOf, NoResume
      <4>2. line.at \in Nat BY <1>1 DEF Entry
      <4> QED BY <4>1, <4>2, <1>11 DEF Replayed
    <3> QED BY <3>1, <2>1, <1>7 DEF SnapshotOf
  <2>4. ASSUME s \notin forgot PROVE \E a \in Nat : TabInv(s, f, a)'
    <3>1. PICK a \in Nat : TabInv(s, f, a) BY <1>2, <2>4
    <3>2. /\ Tracking(lg, start, L, a) /\ a \in Placed(lg) /\ L.stamp = At(lg, a)
          /\ Filtering(lg, Q, lo, D, f, a) /\ Accounted(lg, start, Q, L, D, a)
          /\ Balanced(lg, R, Q, L, D, f, a) /\ Below(D, L)
      BY <1>10, <2>4, <3>1
    <3>3. Replayed(D, lg[n]) BY <1>0, <1>11
    <3>4. /\ Filtering(lg, Q \ {n}, lo, Matched(D, lg[n]), f, a)
          /\ Accounted(lg, start, Q \ {n}, L, Matched(D, lg[n]), a)
          /\ Balanced(lg, R, Q \ {n}, L, Matched(D, lg[n]), f, a)
          /\ Below(Matched(D, lg[n]), L)
      BY <1>8, <1>9, <3>2, <3>3, PassDrop
    <3>5. OnScreen(s, a)' BY <2>1, <3>1, ScreenKept DEF TabInv
    <3>6. TabInv(s, f, a)'
      BY <1>0, <1>6, <1>7, <1>9, <2>2, <2>3, <3>2, <3>4, <3>5 DEF TabInv, Placed
    <3> QED BY <3>6
  <2> QED BY <1>4, <1>5, <2>1, <2>4, <1>2 DEF SourceInv
<1>12. CASE ~Replayed(D, line)
  <2>1. /\ live' = Renewed(s, line) /\ shown' = Buffered(l) /\ delivered' = delivered
        /\ forgot' = forgot \cup (Sources(live) \ Sources(live'))
    BY <1>1, <1>7, <1>12 DEF OnLog
  <2>2. LiveOf(s)' = Recorded(L, line) BY <1>1, <1>7, <2>1, Remembered
  <2>3. SnapshotOf(s)' = D BY <1>7, <2>1 DEF SnapshotOf
  <2>4. ASSUME s \notin forgot PROVE \E a \in Nat : TabInv(s, f, a)'
    <3>1. PICK a \in Nat : TabInv(s, f, a) BY <1>2, <2>4
    <3>2. /\ Tracking(lg, start, L, a) /\ a \in Placed(lg) /\ L.stamp = At(lg, a)
          /\ Filtering(lg, Q, lo, D, f, a) /\ Accounted(lg, start, Q, L, D, a)
          /\ Balanced(lg, R, Q, L, D, f, a) /\ Below(D, L)
      BY <1>10, <2>4, <3>1
    <3>3. ~Replayed(D, lg[n]) BY <1>0, <1>12
    <3>4. /\ a < n
          /\ Tracking(lg, start, Recorded(L, lg[n]), n)
          /\ Filtering(lg, Q \ {n}, lo, D, f, n)
          /\ Accounted(lg, start, Q \ {n}, Recorded(L, lg[n]), D, n)
          /\ Balanced(lg, R, Q \ {n}, Recorded(L, lg[n]), D, f, n)
          /\ Below(D, Recorded(L, lg[n]))
      BY <1>8, <1>9, <3>2, <3>3, PassAccept
    <3>5. n \in Nat
      <4>1. n \in Marked(lg) BY <1>1
      <4> QED BY <4>1, <1>8, AtFacts
    <3>6. OnScreen(s, n)'
      <4>1. OnScreen(s, a) /\ Len(shown) <= limit.buffer BY <3>1 DEF TabInv, MemoryInv
      <4>2. \A m \in PlacesIn(shown, s, lg) : m \in Nat /\ m < n
        <5>1. \A m \in PlacesIn(shown, s, lg) : m \in Nat /\ m <= a
          BY <1>0, <1>8, <4>1, AtFacts DEF OnScreen, PlacesIn
        <5> QED BY <5>1, <3>4, <3>5
      <4>3. /\ InOrder(shown', s, lg)
            /\ \A m \in PlacesIn(shown', s, lg) :
                 m \in PlacesIn(shown, s, lg) \/ (l.src = s /\ m = l.n)
        BY <1>0, <1>1, <2>1, <4>1, <4>2, BufferedOrder DEF OnScreen
      <4>4. \A m \in PlacesIn(shown', s, lg) : m <= n
        BY <1>0, <3>5, <4>2, <4>3
      <4> QED BY <1>0, <1>6, <4>3, <4>4 DEF OnScreen
    <3>7. TabInv(s, f, n)'
      BY <1>0, <1>1, <1>6, <1>7, <1>9, <2>2, <2>3, <3>4, <3>6 DEF TabInv
    <3> QED BY <3>5, <3>7
  <2>5. s \notin forgot' => s \notin forgot BY <2>1
  <2> QED BY <1>4, <1>5, <2>4, <2>5, <1>2 DEF SourceInv
<1> QED BY <1>11, <1>12

-----------------------------------------------------------------------------
(* Connections, and everything else.                                       *)

\* A reconnect snapshots the records: the filter hides all that was accepted.
LEMMA ConnectKeeps ==
  ASSUME TypeInv, TypeInv', WorldInv, QuietInv, MemoryInv, [Next]_vars, Connect, NEW s \in Src,
         SourceInv(s)
  PROVE  SourceInv(s)'
<1>1. /\ UNCHANGED <<limit, env, view, sup, lines, live, shown, forgot>> /\ ~connected /\ connected'
      /\ delivered' = [t \in Sources(live) |-> LiveOf(t)]
  BY DEF Connect, chan
<1>2. /\ log' = log /\ streamer' = streamer /\ drained' = drained /\ resumes' = resumes
      /\ plan' = plan /\ Start(s)' = Start(s) /\ Lo(s)' = Lo(s)
  BY <1>1 DEF env, sup, Start, Begin, Lo
<1>3. lines = <<>> /\ streamer[s] = Off BY <1>1 DEF QuietInv
<1>4. PICK f \in Nat : ServerInv(s, f) /\ (s \notin forgot => \E a \in Nat : TabInv(s, f, a))
  BY DEF SourceInv
<1>5. f = 0 BY <1>1, <1>4 DEF ServerInv
<1>6. Queued(s)' = Queued(s) /\ InOrder(lines', s, log'[s])
  BY <1>1, QueueKept DEF SourceInv
<1>7. Ordered(log[s]) /\ Ordered(log'[s]) BY OrderedKept DEF SourceInv
<1>8. ServerInv(s, f)' BY <1>1, <1>2, <1>4, <1>6, <1>7, ServerKept
<1>9. Queued(s) = {} BY <1>3 DEF Queued, PlacesIn
<1>10. LiveOf(s)' = LiveOf(s) /\ SnapshotOf(s)' = LiveOf(s)
  <2>1. LiveOf(s)' = LiveOf(s) BY <1>1, LiveIsFound
  <2>2. DOMAIN delivered' = Sources(live) BY <1>1
  <2>3. ASSUME s \in Sources(live) PROVE SnapshotOf(s)' = LiveOf(s)
    <3>1. delivered'[s] = LiveOf(s) BY <1>1, <2>3
    <3> QED BY <2>2, <2>3, <3>1 DEF SnapshotOf
  <2>4. ASSUME s \notin Sources(live) PROVE SnapshotOf(s)' = LiveOf(s)
    <3>1. SnapshotOf(s)' = NoResume' BY <2>2, <2>4 DEF SnapshotOf
    <3>2. NoResume' = NoResume BY DEF NoResume, NoCount
    <3>3. Known(s) = {} BY <2>4 DEF Sources, Known
    <3>4. LiveOf(s) = NoResume BY <3>3 DEF LiveOf
    <3> QED BY <3>1, <3>2, <3>4
  <2> QED BY <2>1, <2>3, <2>4
<1>11. ASSUME s \notin forgot PROVE \E a \in Nat : TabInv(s, f, a)'
  <2>1. PICK a \in Nat : TabInv(s, f, a) BY <1>4, <1>11
  <2>2. PICK lg, L, start : lg = log[s] /\ L = LiveOf(s) /\ start = Start(s) OBVIOUS
  <2>3. lg \in Seq(Entry) /\ L \in Resume /\ start \in Nat /\ Ordered(lg) BY <2>2, <1>7, TypesOf
  <2>4. a \in Placed(lg) /\ Tracking(lg, start, L, a) BY <2>1, <2>2 DEF TabInv, Placed
  <2>5. Lo(s) = start
    <3>1. Off.at # "reading" BY DEF Off
    <3> QED BY <3>1, <1>3, <2>2 DEF Lo
  <2>6. /\ Filtering(lg, {}, start, L, 0, a) /\ Accounted(lg, start, {}, L, L, a)
        /\ Balanced(lg, resumes[s], {}, L, L, 0, a) /\ Below(L, L)
    BY <2>3, <2>4, FilterOpens
  <2>7. OnScreen(s, a)' BY <1>1, <2>1, ScreenKept DEF TabInv
  <2>8. TabInv(s, f, a)'
    BY <1>2, <1>5, <1>6, <1>9, <1>10, <2>2, <2>4, <2>5, <2>6, <2>7 DEF TabInv, Placed
  <2> QED BY <2>8
<1> QED BY <1>1, <1>6, <1>7, <1>8, <1>11 DEF SourceInv

\* A broken connection forgets the server's side and keeps the tab's.
LEMMA BreakKeeps ==
  ASSUME TypeInv, TypeInv', [Next]_vars, Break, NEW s \in Src, SourceInv(s)
  PROVE  SourceInv(s)'
<1>1. /\ UNCHANGED <<limit, env, view, live, shown, forgot>> /\ ~connected'
      /\ plan' = <<>> /\ lines' = <<>> /\ streamer'[s] = Off /\ resumes'[s] = NoResume
  BY DEF Break, Fresh
<1>2. log' = log /\ Start(s)' = Start(s) BY <1>1 DEF env, Start, Begin
<1>3. PICK f \in Nat : s \notin forgot => \E a \in Nat : TabInv(s, f, a)
  BY DEF SourceInv
<1>4. InOrder(lines', s, log'[s]) /\ Queued(s)' = {} BY <1>1 DEF InOrder, Queued, PlacesIn
<1>5. Ordered(log'[s]) BY OrderedKept DEF SourceInv
<1>6. ServerInv(s, 0)'
  <2>1. Off.at # "reading" BY DEF Off
  <2> QED BY <1>1, <1>4, <2>1 DEF ServerInv, Recording
<1>7. ASSUME s \notin forgot PROVE \E a \in Nat : TabInv(s, 0, a)'
  <2>1. PICK a \in Nat : TabInv(s, f, a) BY <1>3, <1>7
  <2>2. OnScreen(s, a)' BY <1>1, <2>1, ScreenKept DEF TabInv
  <2>3. LiveOf(s)' = LiveOf(s) BY <1>1, LiveIsFound
  <2>4. TabInv(s, 0, a)' BY <1>1, <1>2, <2>1, <2>2, <2>3 DEF TabInv
  <2> QED BY <2>4
<1> QED BY <1>1, <1>4, <1>5, <1>6, <1>7 DEF SourceInv

\* Steps of the cluster and its informers, and the notice.
LEMMA ElseKeeps ==
  ASSUME TypeInv, TypeInv', WorldInv, [Next]_vars,
         Cluster \/ Sync \/ PassGone \/ UNCHANGED vars, NEW s \in Src, SourceInv(s)
  PROVE  SourceInv(s)'
<1>1. /\ UNCHANGED <<streamer, drained, resumes, plan, lines>>
      /\ UNCHANGED <<live, shown, delivered, forgot, connected>>
  BY DEF Cluster, Sync, Create, Run, Write, Stop, Restart, Finish, Delete, PodMoves, RootMoves,
         SyncRoot, SyncPod, PassGone, vars, sup, chan, tab
<1>2. Queued(s)' = Queued(s) /\ InOrder(lines', s, log'[s]) BY <1>1, QueueKept DEF SourceInv
<1> QED BY <1>1, <1>2, Bystander

\* Every step keeps what holds of every source.
LEMMA SourceKept ==
  ASSUME TypeInv, TypeInv', MemoryInv, FollowInv, [Next]_vars, NEW s \in Src
  PROVE  SourceInv(s)'
<1>0. WorldInv /\ QuietInv /\ SourceInv(s) BY DEF FollowInv
<1>1. Cluster \/ Sync \/ PassGone \/ UNCHANGED vars => SourceInv(s)' BY <1>0, ElseKeeps
<1>2. Resolve => SourceInv(s)' BY <1>0, ResolveKeeps
<1>3. ASSUME NEW t \in Src, Streamer(t) \/ Interrupt(t) PROVE SourceInv(s)'
  <2>1. CASE t # s BY <1>0, <1>3, <2>1, StreamerOther, ScanOther DEF Streamer
  <2>2. CASE t = s
    <3>1. Consider(s) => SourceInv(s)' BY <1>0, ConsiderKeeps
    <3>2. Open(s) => SourceInv(s)' BY <1>0, OpenKeeps
    <3>3. Scan(s) => SourceInv(s)' BY <1>0, ScanKeeps
    <3>4. Eof(s) => SourceInv(s)'
      <4>1. Off.at # "reading" BY DEF Off
      <4>2. Eof(s) => streamer[s] # Off /\ Ends(s, TRUE) BY <4>1 DEF Eof
      <4> QED BY <4>2, <1>0, EndsKeeps
    <3>5. Interrupt(s) => SourceInv(s)'
      <4>1. Interrupt(s) => streamer[s] # Off /\ (Ends(s, TRUE) \/ Ends(s, FALSE)) BY DEF Interrupt
      <4> QED BY <4>1, <1>0, EndsKeeps
    <3> QED BY <1>3, <2>2, <3>1, <3>2, <3>3, <3>4, <3>5 DEF Streamer
  <2> QED BY <2>1, <2>2
<1>4. PassLine => SourceInv(s)' BY <1>0, PassOwn, PassOther
<1>5. Connect => SourceInv(s)' BY <1>0, ConnectKeeps
<1>6. Break => SourceInv(s)' BY <1>0, BreakKeeps
<1> QED BY <1>1, <1>2, <1>3, <1>4, <1>5, <1>6 DEF Next

\* Nothing is sent and nothing shown at first.
LEMMA FollowInit == ASSUME Init, TypeInv PROVE FollowInv
<1>1. WorldInv BY DEF Init, WorldInv, Alive
<1>2. QuietInv BY DEF Init, QuietInv
<1>3. ASSUME NEW s \in Src PROVE SourceInv(s)
  <2>1. /\ log[s] = <<>> /\ lines = <<>> /\ shown = <<>> /\ live = <<>> /\ ~connected
        /\ streamer[s] = Off /\ resumes[s] = NoResume /\ plan = <<>>
    BY DEF Init
  <2>2. Marked(log[s]) = {} BY <2>1 DEF Marked
  <2>3. Ordered(log[s]) /\ InOrder(lines, s, log[s]) BY <2>1, <2>2 DEF Ordered, InOrder
  <2>4. Queued(s) = {} BY <2>2 DEF Queued, PlacesIn
  <2>5. Off.at # "reading" BY DEF Off
  <2>6. ServerInv(s, 0) BY <2>1, <2>4, <2>5 DEF ServerInv, Recording
  <2>7. LiveOf(s) = NoResume BY <2>1 DEF LiveOf, Known
  <2>8. OnScreen(s, 0) BY <2>2 DEF OnScreen, InOrder, PlacesIn
  <2>9. TabInv(s, 0, 0) BY <2>1, <2>7, <2>8 DEF TabInv, Tracking
  <2> QED BY <2>3, <2>6, <2>9 DEF SourceInv
<1> QED BY <1>1, <1>2, <1>3 DEF FollowInv

\* FollowInv is an invariant of the stream.
LEMMA FollowInvariant == Spec => []FollowInv
<1>1. Init /\ TypeInv => FollowInv BY FollowInit
<1>2. TypeInv /\ MemoryInv /\ FollowInv /\ [Next]_vars /\ TypeInv' => FollowInv'
  <2> SUFFICES ASSUME TypeInv, MemoryInv, FollowInv, [Next]_vars, TypeInv' PROVE FollowInv'
    OBVIOUS
  <2>1. WorldInv' /\ QuietInv' BY WorldKept, QuietKept DEF FollowInv
  <2>2. \A s \in Src : SourceInv(s)' BY SourceKept
  <2> QED BY <2>1, <2>2 DEF FollowInv
<1> QED BY <1>1, <1>2, MemoryInvariant, PTL DEF Spec

\* No stamped line is on screen twice and the lines of a container keep their
\* order, over every re-attach after an EOF (the server's logResume) and every
\* reconnect (the tab's), for sources the tab's bounded resume did not forget.
THEOREM LinesShownOnce == Spec => []ShownOnce
<1>1. TypeInv /\ FollowInv => ShownOnce
  <2> SUFFICES ASSUME TypeInv, FollowInv, NEW i \in DOMAIN shown, NEW j \in DOMAIN shown, i < j,
                      shown[i].src = shown[j].src, shown[i].src \notin forgot,
                      Stamped(shown[i]), Stamped(shown[j])
               PROVE  shown[i].n < shown[j].n
    BY DEF ShownOnce
  <2>1. PICK s : s = shown[i].src OBVIOUS
  <2>2. Place(log, shown[i]) /\ Place(log, shown[j]) BY DEF TypeInv, TabTypes
  <2>3. s \in Src /\ log[s] \in Seq(Entry) /\ shown[j].src = s
    BY <2>1, <2>2, LogOf DEF Place, Line
  <2>4. shown[i].n \in Marked(log[s]) /\ shown[j].n \in Marked(log[s])
    <3>1. shown[i].n \in DOMAIN log[s] /\ shown[j].n \in DOMAIN log[s]
      <4>1. /\ shown[i].n \in Nat \ {0} /\ shown[i].n <= Len(log[s])
            /\ shown[j].n \in Nat \ {0} /\ shown[j].n <= Len(log[s])
        BY <2>1, <2>2, <2>3 DEF Place, Line
      <4> QED BY <4>1, <2>3
    <3> QED BY <3>1, <2>1, <2>3 DEF Marked, Stamped
  <2>5. InOrder(shown, s, log[s])
    BY <2>1, <2>3 DEF FollowInv, SourceInv, TabInv, OnScreen
  <2> QED BY <2>1, <2>3, <2>4, <2>5 DEF InOrder
<1> QED BY <1>1, MemoryInvariant, FollowInvariant, PTL
=============================================================================
