--------------------------- MODULE LogSkipProofs ---------------------------
(***************************************************************************)
(* The two replay filters of the log stream never eat a line that was not  *)
(* shown (LogFollow!NothingSkipped).  LogReplayProofs bounds what a record *)
(* counts from below, so that every replay is hidden; here it is bounded   *)
(* from above, so that nothing else is.                                    *)
(***************************************************************************)
EXTENDS LogReplayProofs

-----------------------------------------------------------------------------
(* The instances of a container: bg says where in its log lg each begins.  *)

Same(bg, m, n) == \A g \in DOMAIN bg : bg[g] <= m <=> bg[g] <= n

\* Instances follow each other, and so do their stamps; one of the lines
\* before an instance has the last stamp of them.
Chapters(lg, bg) ==
  /\ \A g, h \in DOMAIN bg : g <= h => bg[g] <= bg[h]
  /\ \A g \in DOMAIN bg : \A m, n \in Marked(lg) : m < bg[g] /\ bg[g] <= n => lg[m].at < lg[n].at
  /\ \A g \in DOMAIN bg : bg[g] > 1 =>
       \E m \in 1 .. bg[g] - 1 : \A n \in 1 .. bg[g] - 1 : lg[n].at <= lg[m].at

Before(bg, g, n) == g < Len(bg) => n < bg[g + 1]

\* With a line, a set of lines has all that precede it in its instance.
Closed(lg, bg, S) == \A n \in S : \A m \in Marked(lg) : m < n /\ Same(bg, m, n) => m \in S

-----------------------------------------------------------------------------
(* What the records count: S is what was sent over this connection, W what *)
(* of it the tab has taken, Acc what the tab has on screen.                *)

Dated(lg, S, R) == R.stamp = -1 \/ \E n \in S : lg[n].at = R.stamp

Counts(lg, S, R) ==
  /\ \A n \in S : lg[n].at <= R.stamp
  /\ \A t \in Texts : R.lines[t] = Tally(lg, S, R.stamp, t)

\* A read has sent, or knows to be sent, all it has passed; its copy of the
\* record counts what was sent before and is still ahead.
Reads(lg, bg, S, g, nx, C) ==
  /\ g \in DOMAIN bg /\ bg[g] <= nx
  /\ \A n \in S : Before(bg, g, n)
  /\ \A m \in Marked(lg) : bg[g] <= m /\ m < nx => m \in S
  /\ Dated(lg, S, C) /\ Counts(lg, S \ (bg[g] .. nx - 1), C)

SentInv(s, S) ==
  /\ S # {} => Seen(s)
  /\ Closed(log[s], begins[s], S)
  /\ Retired(s) \/ (Dated(log[s], S, resumes[s]) /\ Counts(log[s], S, resumes[s]))
  /\ streamer[s].at = "reading" =>
       Reads(log[s], begins[s], S, streamer[s].instance, streamer[s].next, streamer[s].resume)

\* The tab's record counts no more than what is on screen.
Told(lg, Acc, L) ==
  Dated(lg, Acc, L) /\ \A t \in Texts : L.lines[t] <= Tally(lg, Acc, L.stamp, t)

\* The snapshot counts no more than what was on screen before and is to be
\* sent again; g is the instance that was there when the connection opened.
Owes(lg, bg, Acc, W, D, g) ==
  /\ D.stamp = -1 \/ \E d \in Acc : lg[d].at = D.stamp /\ Before(bg, g, d)
  /\ \A t \in Texts : D.lines[t] <= Tally(lg, Acc \ W, D.stamp, t)

\* Whatever precedes a line of s in its instance was shown before it.
InTurn(s, lg, bg, sq) ==
  \A j \in DOMAIN sq : sq[j].src = s /\ sq[j].n \in Marked(lg) =>
    \A m \in Marked(lg) : m < sq[j].n /\ Same(bg, m, sq[j].n) =>
      \E i \in 1 .. j - 1 : sq[i].src = s /\ sq[i].n = m

OnShow(s) == PlacesIn(shown, s, log[s])

TakenInv(s, W, g) ==
  /\ Told(log[s], OnShow(s), LiveOf(s))
  /\ InTurn(s, log[s], begins[s], shown)
  /\ ~connected => W = {}
  /\ connected =>
       /\ W \subseteq OnShow(s)
       /\ \A n \in W \cup Queued(s) : begins[s][g] <= n
       /\ streamer[s].at = "reading" => g <= streamer[s].instance
       /\ Owes(log[s], begins[s], OnShow(s), W, SnapshotOf(s), g)

\* All this while the screen still holds every line, and tails reach back.
Roomy == limit.tail >= limit.lines /\ Len(shown) < limit.buffer

EatsInv(s) ==
  \E W \in SUBSET Marked(log[s]) : \E g \in DOMAIN begins[s] :
    /\ W \cap Queued(s) = {}
    /\ SentInv(s, W \cup Queued(s))
    /\ TakenInv(s, W, g)

HistoryInv(s) == Chapters(log[s], begins[s]) /\ Len(log[s]) <= limit.lines
RoomInv == Roomy => forgot = {} /\ Len(live) <= Len(shown)
SkipInv == /\ \A s \in Src : HistoryInv(s) /\ (Roomy => EatsInv(s))
           /\ RoomInv

-----------------------------------------------------------------------------
(* Places within an instance.                                              *)

\* Two lines from the beginning of an instance on and before the next one.
LEMMA SameChapter ==
  ASSUME NEW lg, NEW bg \in Seq(Nat \ {0}), Chapters(lg, bg), NEW g \in DOMAIN bg,
         NEW m \in Nat, NEW n \in Nat, bg[g] <= m, bg[g] <= n, Before(bg, g, m), Before(bg, g, n)
  PROVE  Same(bg, m, n)
<1> SUFFICES ASSUME NEW h \in DOMAIN bg PROVE bg[h] <= m <=> bg[h] <= n BY DEF Same
<1>1. /\ DOMAIN bg = 1 .. Len(bg) /\ Len(bg) \in Nat /\ bg[g] \in Nat /\ bg[h] \in Nat
      /\ g \in Nat /\ h \in Nat
  OBVIOUS
<1>2. CASE h <= g
  <2>1. bg[h] <= bg[g] BY <1>2 DEF Chapters
  <2> QED BY <1>1, <2>1
<1>3. CASE g < h
  <2>1. g < Len(bg) /\ g + 1 \in DOMAIN bg /\ g + 1 <= h BY <1>1, <1>3
  <2>2. bg[g + 1] <= bg[h] BY <2>1 DEF Chapters
  <2>3. m < bg[g + 1] /\ n < bg[g + 1] /\ bg[g + 1] \in Nat BY <2>1 DEF Before
  <2> QED BY <1>1, <2>2, <2>3
<1> QED BY <1>1, <1>2, <1>3

\* Lines of one stamp are of one instance.
LEMMA SameStamp ==
  ASSUME NEW lg \in Seq(Entry), NEW bg \in Seq(Nat \ {0}), Chapters(lg, bg),
         NEW m \in Marked(lg), NEW n \in Marked(lg), lg[m].at = lg[n].at
  PROVE  Same(bg, m, n)
<1> SUFFICES ASSUME NEW g \in DOMAIN bg PROVE bg[g] <= m <=> bg[g] <= n BY DEF Same
<1>1. m \in Nat /\ n \in Nat /\ bg[g] \in Nat /\ lg[m] \in Entry /\ lg[n] \in Entry BY DEF Marked
<1>2. lg[m].at \in Nat /\ lg[n].at \in Nat BY <1>1 DEF Entry
<1>3. ~(m < bg[g] /\ bg[g] <= n) BY <1>2 DEF Chapters
<1>4. ~(n < bg[g] /\ bg[g] <= m) BY <1>2 DEF Chapters
<1> QED BY <1>1, <1>3, <1>4

\* A count above zero counts a line.
LEMMA TallySome ==
  ASSUME NEW lg \in Seq(Entry), NEW S, NEW stamp, NEW text, Tally(lg, S, stamp, text) > 0
  PROVE  \E m \in S : m \in DOMAIN lg /\ lg[m].at = stamp /\ lg[m].text = text
<1>1. S \cap Tied(lg, stamp, text) # {}
  <2>1. S \cap Tied(lg, stamp, text) = {} => Tally(lg, S, stamp, text) = 0 BY TallyNone
  <2> QED BY <2>1
<1> QED BY <1>1 DEF Tied

\* A line that is among those counted counts.
LEMMA TallyOne ==
  ASSUME NEW lg \in Seq(Entry), NEW S, NEW n \in S, n \in DOMAIN lg
  PROVE  Tally(lg, S, lg[n].at, lg[n].text) > 0
<1>1. PICK A, x : A = lg[n].at /\ x = lg[n].text OBVIOUS
<1>2. Tally(lg, S, A, x) = Tally(lg, S \ {n}, A, x) + Hit(lg[n], A, x) BY TallyLess
<1>3. Hit(lg[n], A, x) = 1 /\ Tally(lg, S \ {n}, A, x) \in Nat BY <1>1, TallyNat DEF Hit
<1>4. Tally(lg, S, A, x) > 0 BY <1>2, <1>3
<1> QED BY <1>1, <1>4

-----------------------------------------------------------------------------
(* What holds of a log holds when it has grown or a new instance began.    *)

Grown(lg2, bg2, lg, bg) ==
  /\ Extends(lg2, lg)
  /\ bg2 = bg \/ bg2 = Append(bg, Len(lg) + 1)

\* Where instances began stays, and no new one is before the end of the log.
LEMMA GrownFacts ==
  ASSUME NEW lg \in Seq(Entry), NEW bg \in Seq(Nat \ {0}), NEW lg2, NEW bg2, Grown(lg2, bg2, lg, bg)
  PROVE  /\ DOMAIN bg \subseteq DOMAIN bg2 /\ \A g \in DOMAIN bg : bg2[g] = bg[g]
         /\ \A g \in DOMAIN bg2 : g \in DOMAIN bg \/ bg2[g] = Len(lg) + 1
         /\ Len(bg) \in Nat /\ DOMAIN bg = 1 .. Len(bg) /\ DOMAIN bg2 = 1 .. Len(bg2)
         /\ Len(bg2) \in Nat /\ Len(bg) <= Len(bg2) /\ bg2 \in Seq(Nat \ {0})
<1>1. Len(lg) + 1 \in Nat \ {0} OBVIOUS
<1>2. CASE bg2 = bg BY <1>2
<1>3. CASE bg2 = Append(bg, Len(lg) + 1)
  <2>1. /\ bg2 \in Seq(Nat \ {0}) /\ Len(bg2) = Len(bg) + 1 /\ bg2[Len(bg) + 1] = Len(lg) + 1
        /\ \A j \in 1 .. Len(bg) : bg2[j] = bg[j]
    BY <1>1, <1>3, AppendFacts
  <2>2. Len(bg) \in Nat /\ DOMAIN bg = 1 .. Len(bg) OBVIOUS
  <2>3. DOMAIN bg2 = 1 .. Len(bg) + 1 /\ Len(bg2) \in Nat BY <2>1, <2>2
  <2>4. \A g \in DOMAIN bg2 : g \in DOMAIN bg \/ g = Len(bg) + 1 BY <2>2, <2>3
  <2> QED BY <2>1, <2>2, <2>3, <2>4
<1> QED BY <1>2, <1>3 DEF Grown

\* Places of the old log share an instance if they did.
LEMMA SameGrown ==
  ASSUME NEW lg \in Seq(Entry), NEW bg \in Seq(Nat \ {0}), NEW lg2, NEW bg2, Grown(lg2, bg2, lg, bg),
         NEW m, NEW n, Same(bg2, m, n)
  PROVE  Same(bg, m, n)
BY GrownFacts DEF Same

\* A place before the next instance still is.
LEMMA BeforeGrown ==
  ASSUME NEW lg \in Seq(Entry), NEW bg \in Seq(Nat \ {0}), NEW lg2, NEW bg2, Grown(lg2, bg2, lg, bg),
         NEW g \in DOMAIN bg, NEW n \in 1 .. Len(lg), Before(bg, g, n)
  PROVE  Before(bg2, g, n)
<1> SUFFICES ASSUME g < Len(bg2) PROVE n < bg2[g + 1] BY DEF Before
<1>1. g + 1 \in DOMAIN bg2 /\ g \in Nat /\ Len(bg) \in Nat /\ DOMAIN bg = 1 .. Len(bg)
      /\ DOMAIN bg2 = 1 .. Len(bg2)
  BY GrownFacts
<1>2. CASE g + 1 \in DOMAIN bg
  <2>1. bg2[g + 1] = bg[g + 1] BY <1>2, GrownFacts
  <2>2. g < Len(bg) BY <1>1, <1>2
  <2> QED BY <2>1, <2>2 DEF Before
<1>3. CASE g + 1 \notin DOMAIN bg
  <2>1. bg2[g + 1] = Len(lg) + 1 BY <1>1, <1>3, GrownFacts
  <2> QED BY <2>1
<1> QED BY <1>2, <1>3

\* Marked places of the old log, in the new one.
LEMMA MarkedGrown ==
  ASSUME NEW lg \in Seq(Entry), NEW lg2 \in Seq(Entry), Extends(lg2, lg)
  PROVE  /\ \A n \in Marked(lg) : /\ n \in Marked(lg2) /\ lg2[n] = lg[n]
                                  /\ n \in 1 .. Len(lg) /\ n \in Nat
         /\ \A n \in Marked(lg), m \in Marked(lg2) : m < n => m \in Marked(lg)
         /\ \A m \in Marked(lg2) : m <= Len(lg) => m \in Marked(lg)
         /\ \A m \in Marked(lg2) : m \in Nat
<1>1. \A n \in Marked(lg) : n \in 1 .. Len(lg) /\ n \in Nat BY DEF Marked
<1>2. \A n \in Marked(lg) : n \in Marked(lg2) /\ lg2[n] = lg[n] BY <1>1, ExtendsFacts DEF Extends
<1>3. \A m \in Marked(lg2) : m \in Nat BY DEF Marked
<1>4. ASSUME NEW n \in Marked(lg), NEW m \in Marked(lg2), m < n PROVE m \in Marked(lg)
  <2>1. m <= Len(lg) BY <1>1, <1>3, <1>4
  <2> QED BY <2>1, ExtendsFacts
<1> QED BY <1>1, <1>2, <1>3, <1>4, ExtendsFacts

\* A closed set of old lines stays closed.
LEMMA ClosedGrown ==
  ASSUME NEW lg \in Seq(Entry), NEW lg2 \in Seq(Entry), NEW bg \in Seq(Nat \ {0}), NEW bg2,
         Grown(lg2, bg2, lg, bg), NEW S, S \subseteq Marked(lg), Closed(lg, bg, S)
  PROVE  Closed(lg2, bg2, S)
<1>1. Extends(lg2, lg) BY DEF Grown
<1> SUFFICES ASSUME NEW n \in S, NEW m \in Marked(lg2), m < n, Same(bg2, m, n) PROVE m \in S
  BY DEF Closed
<1>2. m \in Marked(lg) BY <1>1, MarkedGrown
<1>3. Same(bg, m, n) BY SameGrown
<1> QED BY <1>2, <1>3 DEF Closed

\* Old lines count as they did.
LEMMA CountsGrown ==
  ASSUME NEW lg \in Seq(Entry), NEW lg2 \in Seq(Entry), Extends(lg2, lg),
         NEW S, S \subseteq Marked(lg)
  PROVE  /\ \A stamp, t : Tally(lg2, S, stamp, t) = Tally(lg, S, stamp, t)
         /\ \A R : Counts(lg, S, R) => Counts(lg2, S, R)
         /\ \A R : Dated(lg, S, R) => Dated(lg2, S, R)
         /\ \A R : Told(lg, S, R) => Told(lg2, S, R)
<1>1. \A n \in S : lg2[n] = lg[n] /\ n <= Len(lg) BY MarkedGrown
<1>2. \A stamp, t : Tally(lg2, S, stamp, t) = Tally(lg, S, stamp, t) BY <1>1, TallyGrown
<1>3. \A R : Counts(lg, S, R) => Counts(lg2, S, R) BY <1>1, <1>2 DEF Counts
<1>4. \A R : Dated(lg, S, R) => Dated(lg2, S, R) BY <1>1 DEF Dated
<1>5. \A R : Told(lg, S, R) => Told(lg2, S, R) BY <1>2, <1>4 DEF Told
<1> QED BY <1>2, <1>3, <1>4, <1>5

\* A read knows what it knew of the lines it has passed.
LEMMA ReadsGrown ==
  ASSUME NEW lg \in Seq(Entry), NEW lg2 \in Seq(Entry), NEW bg \in Seq(Nat \ {0}), NEW bg2,
         Grown(lg2, bg2, lg, bg), NEW S, S \subseteq Marked(lg),
         NEW g, NEW nx \in Nat, nx <= Len(lg) + 1, NEW C, Reads(lg, bg, S, g, nx, C)
  PROVE  Reads(lg2, bg2, S, g, nx, C)
<1>1. Extends(lg2, lg) /\ Len(lg) \in Nat BY DEF Grown
<1>2. g \in DOMAIN bg2 /\ g \in DOMAIN bg /\ bg2[g] = bg[g] /\ bg[g] <= nx BY GrownFacts DEF Reads
<1>3. ASSUME NEW n \in S PROVE Before(bg2, g, n)
  <2>1. n \in 1 .. Len(lg) BY <1>1, MarkedGrown
  <2>2. Before(bg, g, n) BY DEF Reads
  <2> QED BY <1>2, <2>1, <2>2, BeforeGrown
<1>4. ASSUME NEW m \in Marked(lg2), bg[g] <= m, m < nx PROVE m \in S
  <2>1. m \in Nat BY <1>1, MarkedGrown
  <2>2. m <= Len(lg) BY <1>1, <1>4, <2>1
  <2>3. m \in Marked(lg) BY <1>1, <2>2, MarkedGrown
  <2> QED BY <1>4, <2>3 DEF Reads
<1>5. S \ (bg[g] .. nx - 1) \subseteq Marked(lg) OBVIOUS
<1>6. Dated(lg2, S, C) /\ Counts(lg2, S \ (bg[g] .. nx - 1), C)
  BY <1>1, <1>5, CountsGrown DEF Reads
<1> QED BY <1>2, <1>3, <1>4, <1>6 DEF Reads

\* What is owed of old lines is owed still.
LEMMA OwesGrown ==
  ASSUME NEW lg \in Seq(Entry), NEW lg2 \in Seq(Entry), NEW bg \in Seq(Nat \ {0}), NEW bg2,
         Grown(lg2, bg2, lg, bg), NEW Acc, Acc \subseteq Marked(lg), NEW W, NEW D,
         NEW g \in DOMAIN bg, Owes(lg, bg, Acc, W, D, g)
  PROVE  Owes(lg2, bg2, Acc, W, D, g)
<1>1. Extends(lg2, lg) BY DEF Grown
<1>2. Acc \ W \subseteq Marked(lg) OBVIOUS
<1>3. ASSUME NEW t \in Texts PROVE D.lines[t] <= Tally(lg2, Acc \ W, D.stamp, t)
  <2>1. PICK T, A : T = Acc \ W /\ A = D.stamp OBVIOUS
  <2>2. Tally(lg2, T, A, t) = Tally(lg, T, A, t) BY <1>1, <1>2, <2>1, CountsGrown
  <2>3. D.lines[t] <= Tally(lg, T, A, t) BY <2>1 DEF Owes
  <2> QED BY <2>1, <2>2, <2>3
<1>4. ASSUME NEW d \in Acc, lg[d].at = D.stamp, Before(bg, g, d)
      PROVE  lg2[d].at = D.stamp /\ Before(bg2, g, d)
  <2>1. d \in 1 .. Len(lg) /\ lg2[d] = lg[d] BY <1>1, MarkedGrown
  <2> QED BY <2>1, <1>4, BeforeGrown
<1> QED BY <1>3, <1>4 DEF Owes

\* A screen whose lines were shown in turn was.
LEMMA InTurnGrown ==
  ASSUME NEW lg \in Seq(Entry), NEW lg2 \in Seq(Entry), NEW bg \in Seq(Nat \ {0}), NEW bg2,
         Grown(lg2, bg2, lg, bg), NEW s, NEW sq \in Seq(Line),
         \A i \in DOMAIN sq : sq[i].src = s => sq[i].n <= Len(lg), InTurn(s, lg, bg, sq)
  PROVE  InTurn(s, lg2, bg2, sq)
<1>1. Extends(lg2, lg) BY DEF Grown
<1> SUFFICES ASSUME NEW j \in DOMAIN sq, sq[j].src = s, sq[j].n \in Marked(lg2),
                    NEW m \in Marked(lg2), m < sq[j].n, Same(bg2, m, sq[j].n)
             PROVE  \E i \in 1 .. j - 1 : sq[i].src = s /\ sq[i].n = m
  BY DEF InTurn
<1>2. sq[j].n \in Marked(lg) BY <1>1, MarkedGrown
<1>3. m \in Marked(lg) BY <1>1, <1>2, MarkedGrown
<1>4. Same(bg, m, sq[j].n) BY SameGrown
<1> QED BY <1>2, <1>3, <1>4 DEF InTurn

-----------------------------------------------------------------------------
(* The server's filter over the turns of a read.                           *)

\* Marked lines are entries of the log.
LEMMA MarkedNat ==
  ASSUME NEW lg \in Seq(Entry), NEW m \in Marked(lg)
  PROVE  m \in Nat /\ m \in DOMAIN lg /\ lg[m] \in Entry /\ lg[m].at \in Nat /\ lg[m].at # 0
<1>1. m \in Nat /\ m \in DOMAIN lg /\ lg[m] \in Entry /\ lg[m].at # 0 BY DEF Marked
<1>2. lg[m].at \in Nat BY <1>1 DEF Entry
<1> QED BY <1>1, <1>2

\* The facts of a read at the line nx of the instance it reads.
Turning(lg, bg, S, g, nx, C) ==
  /\ lg \in Seq(Entry) /\ bg \in Seq(Nat \ {0}) /\ Ordered(lg) /\ Chapters(lg, bg)
  /\ S \subseteq Marked(lg) /\ Closed(lg, bg, S) /\ C \in Resume
  /\ nx \in DOMAIN lg /\ Before(bg, g, nx) /\ Reads(lg, bg, S, g, nx, C)

\* A line of the instance that is read, at or behind nx, shares it with nx.
LEMMA TurnsWithin ==
  ASSUME NEW lg, NEW bg, NEW S, NEW g, NEW nx, NEW C, Turning(lg, bg, S, g, nx, C)
  PROVE  /\ nx \in Nat /\ g \in DOMAIN bg /\ bg[g] \in Nat /\ bg[g] <= nx
         /\ \A m \in S : m \in Nat /\ m \in Marked(lg) /\ (nx <= m => Same(bg, nx, m))
<1>1. /\ nx \in Nat /\ g \in DOMAIN bg /\ bg[g] \in Nat /\ bg[g] <= nx
      /\ \A m \in S : m \in Nat /\ m \in Marked(lg)
  BY DEF Turning, Reads, Marked
<1>2. ASSUME NEW m \in S, nx <= m PROVE Same(bg, nx, m)
  <2>1. bg[g] <= m /\ Before(bg, g, m) BY <1>1, <1>2 DEF Turning, Reads
  <2> QED BY <1>1, <2>1, SameChapter DEF Turning
<1> QED BY <1>1, <1>2

\* An old line behind nx shows that nx, if it has a stamp, is old as well.
LEMMA OldBefore ==
  ASSUME NEW lg, NEW bg, NEW S, NEW g, NEW nx, NEW C, Turning(lg, bg, S, g, nx, C),
         nx \in Marked(lg), NEW m \in S, nx <= m
  PROVE  nx \in S
<1>1. Same(bg, nx, m) /\ m \in Nat /\ nx \in Nat BY TurnsWithin
<1>2. CASE nx = m BY <1>2
<1>3. CASE nx # m
  <2>1. nx < m BY <1>1, <1>3
  <2> QED BY <1>1, <2>1 DEF Turning, Closed
<1> QED BY <1>2, <1>3

\* A line with an earlier stamp than the newest that was sent is old.
LEMMA OldStamp ==
  ASSUME NEW lg, NEW bg, NEW S, NEW g, NEW nx, NEW C, Turning(lg, bg, S, g, nx, C),
         nx \in Marked(lg), NEW R \in Resume, Dated(lg, S, R), lg[nx].at < R.stamp
  PROVE  nx \in S
<1>1. lg \in Seq(Entry) /\ Ordered(lg) /\ S \subseteq Marked(lg) BY DEF Turning
<1>2. /\ lg[nx].at \in Nat /\ R.stamp \in Int
      /\ \A m \in Marked(lg) : m \in Nat /\ lg[m].at \in Nat
  BY <1>1, MarkedNat DEF Resume
<1>3. PICK m \in S : lg[m].at = R.stamp BY <1>2 DEF Dated
<1>4. nx <= m
  <2>1. m \in Marked(lg) BY <1>1
  <2>2. ~(m <= nx) BY <1>1, <1>2, <1>3, <2>1 DEF Ordered
  <2> QED BY <1>2, <2>1, <2>2
<1> QED BY <1>3, <1>4, OldBefore

\* What is dropped as a replay was sent before, and counts one less.
LEMMA DropIsOld ==
  ASSUME NEW lg, NEW bg, NEW S, NEW g, NEW nx, NEW C, Turning(lg, bg, S, g, nx, C),
         Replayed(C, lg[nx])
  PROVE  nx \in S /\ Reads(lg, bg, S, g, nx + 1, Matched(C, lg[nx]))
<1>0. PICK line, T, A : line = lg[nx] /\ T = S \ (bg[g] .. nx - 1) /\ A = C.stamp OBVIOUS
<1>1. /\ lg \in Seq(Entry) /\ bg \in Seq(Nat \ {0}) /\ Chapters(lg, bg) /\ C \in Resume
      /\ nx \in DOMAIN lg /\ S \subseteq Marked(lg) /\ Dated(lg, S, C) /\ Counts(lg, T, C)
  BY <1>0 DEF Turning, Reads
<1>2. line \in Entry /\ line.at # 0 /\ nx \in Marked(lg) BY <1>0, <1>1 DEF Replayed, Marked
<1>3. nx \in Nat /\ g \in DOMAIN bg /\ bg[g] \in Nat /\ bg[g] <= nx BY TurnsWithin
<1>4. nx \in S
  <2>1. CASE line.at < C.stamp BY <1>0, <1>1, <1>2, <2>1, OldStamp
  <2>2. CASE ~(line.at < C.stamp)
    <3>1. line.at = A /\ C.lines[line.text] > 0 BY <1>0, <2>2 DEF Replayed
    <3>2. Tally(lg, T, A, line.text) > 0
      <4>1. line.text \in Texts BY <1>2 DEF Entry
      <4> QED BY <1>0, <1>1, <3>1, <4>1 DEF Counts
    <3>3. PICK m \in T : m \in DOMAIN lg /\ lg[m].at = A BY <1>1, <3>2, TallySome
    <3>4. m \in S /\ m \in Marked(lg) /\ m \in Nat BY <1>0, <1>1, <3>3 DEF Marked
    <3>5. Same(bg, nx, m) BY <1>0, <1>1, <1>2, <3>1, <3>3, <3>4, SameStamp
    <3>6. bg[g] <= m BY <1>3, <3>5 DEF Same
    <3>7. nx <= m BY <1>0, <1>3, <3>4, <3>6
    <3> QED BY <1>2, <3>4, <3>7, OldBefore
  <2> QED BY <2>1, <2>2
<1>5. PICK U, N : U = S \ (bg[g] .. (nx + 1) - 1) /\ N = Matched(C, line) OBVIOUS
<1>6. U = T \ {nx} /\ nx \in T
  <2>1. \A m \in S : m \in Nat BY <1>1 DEF Marked
  <2> QED BY <1>0, <1>3, <1>4, <1>5, <2>1
<1>7. N.stamp = A /\ \A t \in Texts : N.lines[t] = C.lines[t] - Hit(line, A, t)
  BY <1>0, <1>1, <1>2, <1>5, MatchedIs
<1>8. Counts(lg, U, N)
  <2>1. ASSUME NEW t \in Texts PROVE N.lines[t] = Tally(lg, U, N.stamp, t)
    <3>1. Tally(lg, T, A, t) = Tally(lg, U, A, t) + Hit(line, A, t)
      BY <1>0, <1>1, <1>6, TallyLess
    <3>2. C.lines[t] = Tally(lg, T, A, t) BY <1>0, <1>1 DEF Counts
    <3>3. Hit(line, A, t) \in Nat /\ Tally(lg, U, A, t) \in Nat
      <4>1. Hit(line, A, t) \in {0, 1} BY HitNat
      <4>2. Tally(lg, U, A, t) \in Nat BY <1>1, TallyNat
      <4> QED BY <4>1, <4>2
    <3>4. N.lines[t] = Tally(lg, U, A, t) BY <1>7, <3>1, <3>2, <3>3
    <3> QED BY <1>7, <3>4
  <2>2. \A n \in U : lg[n].at <= N.stamp BY <1>0, <1>1, <1>6, <1>7 DEF Counts
  <2> QED BY <2>1, <2>2 DEF Counts
<1>9. Dated(lg, S, N) BY <1>0, <1>1, <1>7 DEF Dated
<1>10. ASSUME NEW m \in Marked(lg), bg[g] <= m, m < nx + 1 PROVE m \in S
  <2>1. m \in Nat BY <1>1, MarkedNat
  <2>2. CASE m = nx BY <1>4, <2>2
  <2>3. CASE m < nx BY <1>10, <2>3 DEF Turning, Reads
  <2> QED BY <1>3, <1>10, <2>1, <2>2, <2>3
<1>11. bg[g] <= nx + 1 BY <1>3
<1>12. Reads(lg, bg, S, g, nx + 1, N)
  BY <1>3, <1>5, <1>8, <1>9, <1>10, <1>11 DEF Reads, Turning
<1> QED BY <1>0, <1>4, <1>5, <1>12

\* A line without a stamp is passed over by the records.
LEMMA PassesOver ==
  ASSUME NEW lg, NEW bg, NEW S, NEW g, NEW nx, NEW C, Turning(lg, bg, S, g, nx, C),
         nx \notin Marked(lg)
  PROVE  Reads(lg, bg, S, g, nx + 1, C)
<1>1. nx \in Nat /\ g \in DOMAIN bg /\ bg[g] \in Nat /\ bg[g] <= nx BY TurnsWithin
<1>2. S \subseteq Marked(lg) /\ \A m \in S : m \in Nat BY DEF Turning, Marked
<1>3. S \ (bg[g] .. (nx + 1) - 1) = S \ (bg[g] .. nx - 1) BY <1>1, <1>2
<1>4. ASSUME NEW m \in Marked(lg), bg[g] <= m, m < nx + 1 PROVE m \in S
  <2>1. m \in Nat BY MarkedNat DEF Turning
  <2>2. m < nx BY <1>1, <1>4, <2>1
  <2> QED BY <1>4, <2>2 DEF Turning, Reads
<1>5. bg[g] <= nx + 1 BY <1>1
<1> QED BY <1>1, <1>3, <1>4, <1>5 DEF Reads, Turning

\* What the filter lets through was not sent before, and is recorded once.
LEMMA SendIsNew ==
  ASSUME NEW lg, NEW bg, NEW S, NEW g, NEW nx, NEW C, Turning(lg, bg, S, g, nx, C),
         nx \in Marked(lg), ~Replayed(C, lg[nx]),
         NEW R \in Resume, Dated(lg, S, R), Counts(lg, S, R)
  PROVE  /\ nx \notin S /\ Closed(lg, bg, S \cup {nx})
         /\ Dated(lg, S \cup {nx}, Recorded(R, lg[nx]))
         /\ Counts(lg, S \cup {nx}, Recorded(R, lg[nx]))
         /\ Reads(lg, bg, S \cup {nx}, g, nx + 1, C)
<1>0. PICK line, T, A, N : /\ line = lg[nx] /\ T = S \ (bg[g] .. nx - 1) /\ A = line.at
                           /\ N = Recorded(R, line)
  OBVIOUS
<1>1. /\ lg \in Seq(Entry) /\ bg \in Seq(Nat \ {0}) /\ Ordered(lg) /\ Chapters(lg, bg) /\ C \in Resume
      /\ nx \in DOMAIN lg /\ S \subseteq Marked(lg) /\ Dated(lg, S, C) /\ Counts(lg, T, C)
      /\ Before(bg, g, nx)
  BY <1>0 DEF Turning, Reads
<1>2. /\ line \in Entry /\ A # 0 /\ A \in Nat /\ line.text \in Texts
      /\ \A m \in S : m \in Nat /\ m \in Marked(lg) /\ lg[m].at \in Nat
  <2>1. line \in Entry /\ A # 0 BY <1>0, <1>1 DEF Marked
  <2>2. A \in Nat /\ line.text \in Texts BY <1>0, <2>1 DEF Entry
  <2> QED BY <1>1, <2>1, <2>2, MarkedNat
<1>3. nx \in Nat /\ g \in DOMAIN bg /\ bg[g] \in Nat /\ bg[g] <= nx BY TurnsWithin
<1>4. nx \notin S
  <2> SUFFICES ASSUME nx \in S PROVE FALSE OBVIOUS
  <2>1. nx \in T BY <1>0, <1>3
  <2>2. A <= C.stamp BY <1>0, <1>1, <2>1 DEF Counts
  <2>3. C.stamp \in Int BY <1>1 DEF Resume
  <2>4. CASE A < C.stamp BY <1>0, <1>2, <2>4 DEF Replayed
  <2>5. CASE A = C.stamp
    <3>1. Tally(lg, T, A, line.text) > 0 BY <1>0, <1>1, <2>1, TallyOne
    <3>2. C.lines[line.text] > 0 BY <1>1, <1>2, <2>5, <3>1 DEF Counts
    <3> QED BY <1>0, <1>2, <2>5, <3>2 DEF Replayed
  <2> QED BY <1>2, <2>2, <2>3, <2>4, <2>5
<1>5. R.stamp <= A
  <2>1. R.stamp \in Int BY DEF Resume
  <2>2. ~(A < R.stamp) BY <1>0, <1>4, OldStamp
  <2> QED BY <1>2, <2>1, <2>2
<1>6. Closed(lg, bg, S \cup {nx})
  <2> SUFFICES ASSUME NEW n \in S \cup {nx}, NEW m \in Marked(lg), m < n, Same(bg, m, n)
               PROVE  m \in S
    BY DEF Closed
  <2>1. CASE n \in S BY <2>1 DEF Turning, Closed
  <2>2. CASE n = nx
    <3>1. bg[g] <= m BY <1>3, <2>2 DEF Same
    <3> QED BY <2>2, <3>1 DEF Turning, Reads
  <2> QED BY <2>1, <2>2
<1>7. N.stamp = A /\ Counts(lg, S \cup {nx}, N)
  <2>1. R.stamp \in Int BY DEF Resume
  <2>2. ASSUME NEW t \in Texts
        PROVE  Tally(lg, S \cup {nx}, A, t) = Tally(lg, S, A, t) + Hit(line, A, t)
    BY <1>0, <1>1, <1>4, TallyStep
  <2>3. CASE R.stamp = A
    <3>1. N.stamp = A /\ \A t \in Texts : N.lines[t] = R.lines[t] + Hit(line, A, t)
      BY <1>0, <1>2, <2>3, RecordedIs
    <3>2. \A t \in Texts : N.lines[t] = Tally(lg, S \cup {nx}, A, t)
      BY <2>2, <2>3, <3>1 DEF Counts
    <3>3. \A n \in S \cup {nx} : lg[n].at <= A BY <1>0, <1>2, <2>3 DEF Counts
    <3> QED BY <3>1, <3>2, <3>3 DEF Counts
  <2>4. CASE R.stamp < A
    <3>1. N.stamp = A /\ \A t \in Texts : N.lines[t] = Hit(line, A, t)
      BY <1>0, <1>2, <2>4, RecordedIs
    <3>2. ASSUME NEW t \in Texts PROVE N.lines[t] = Tally(lg, S \cup {nx}, A, t)
      <4>1. S \cap Tied(lg, A, t) = {} BY <1>2, <2>1, <2>4 DEF Counts, Tied
      <4>2. Tally(lg, S, A, t) = 0 BY <1>1, <4>1, TallyNone
      <4>3. Hit(line, A, t) \in {0, 1} BY HitNat
      <4> QED BY <2>2, <3>1, <4>2, <4>3
    <3>3. \A n \in S \cup {nx} : lg[n].at <= A BY <1>0, <1>2, <2>1, <2>4 DEF Counts
    <3> QED BY <3>1, <3>2, <3>3 DEF Counts
  <2> QED BY <1>2, <1>5, <2>1, <2>3, <2>4
<1>8. Dated(lg, S \cup {nx}, N) BY <1>0, <1>7 DEF Dated
<1>9. Reads(lg, bg, S \cup {nx}, g, nx + 1, C)
  <2>1. (S \cup {nx}) \ (bg[g] .. (nx + 1) - 1) = T BY <1>0, <1>2, <1>3, <1>4
  <2>2. ASSUME NEW m \in Marked(lg), bg[g] <= m, m < nx + 1 PROVE m \in S \cup {nx}
    <3>1. m \in Nat BY <1>1, MarkedNat
    <3>2. CASE m < nx BY <2>2, <3>2 DEF Turning, Reads
    <3> QED BY <1>3, <2>2, <3>1, <3>2
  <2>3. bg[g] <= nx + 1 BY <1>3
  <2>4. Dated(lg, S \cup {nx}, C) BY <1>1 DEF Dated
  <2>5. \A n \in S \cup {nx} : Before(bg, g, n) BY <1>1 DEF Turning, Reads
  <2> QED BY <1>1, <1>3, <2>1, <2>2, <2>3, <2>4, <2>5 DEF Reads
<1> QED BY <1>0, <1>4, <1>6, <1>7, <1>8, <1>9

\* A read that opens at the beginning of the last instance knows what was sent.
LEMMA ReadsOpen ==
  ASSUME NEW lg \in Seq(Entry), NEW bg \in Seq(Nat \ {0}), bg # <<>>,
         NEW S, NEW R, Dated(lg, S, R), Counts(lg, S, R)
  PROVE  Reads(lg, bg, S, Len(bg), bg[Len(bg)], R)
<1>1. Len(bg) \in DOMAIN bg /\ bg[Len(bg)] \in Nat OBVIOUS
<1>2. S \ (bg[Len(bg)] .. bg[Len(bg)] - 1) = S BY <1>1
<1>3. \A n \in S : Before(bg, Len(bg), n) BY DEF Before
<1>4. PICK b : b = bg[Len(bg)] OBVIOUS
<1>5. \A m \in Marked(lg) : ~(b <= m /\ m < b)
  <2>1. \A m \in Marked(lg) : m \in Nat BY MarkedNat
  <2> QED BY <1>1, <1>4, <2>1
<1>6. b <= b /\ S \ (b .. b - 1) = S BY <1>1, <1>2, <1>4
<1>7. Reads(lg, bg, S, Len(bg), b, R) BY <1>1, <1>3, <1>4, <1>5, <1>6 DEF Reads
<1> QED BY <1>4, <1>7

-----------------------------------------------------------------------------
(* The tab's filter: n is the oldest line on its way, Q all that are, W    *)
(* what was taken before, Acc what is on screen.                           *)

\* The facts of the tab at the line n.
Taking(lg, bg, Acc, W, Q, n) ==
  /\ lg \in Seq(Entry) /\ bg \in Seq(Nat \ {0}) /\ Ordered(lg) /\ Chapters(lg, bg)
  /\ Acc \subseteq Marked(lg) /\ W \subseteq Acc /\ Q \subseteq Marked(lg) /\ W \cap Q = {}
  /\ n \in Q /\ \A m \in Q : n <= m
  /\ Closed(lg, bg, W \cup Q)

\* The oldest line on its way, and those before it in its instance.
LEMMA TakingFacts ==
  ASSUME NEW lg, NEW bg, NEW Acc, NEW W, NEW Q, NEW n, Taking(lg, bg, Acc, W, Q, n)
  PROVE  /\ n \in Marked(lg) /\ n \notin W
         /\ \A m \in Marked(lg) : m < n /\ Same(bg, m, n) => m \in W
<1>1. n \in Marked(lg) /\ n \in Nat /\ n \notin W BY MarkedNat DEF Taking
<1>2. ASSUME NEW m \in Marked(lg), m < n, Same(bg, m, n) PROVE m \in W
  <2>1. m \in Nat BY MarkedNat DEF Taking
  <2>2. m \in W \cup Q BY <1>2 DEF Taking, Closed
  <2>3. m \notin Q BY <1>1, <1>2, <2>1 DEF Taking
  <2> QED BY <2>2, <2>3
<1> QED BY <1>1, <1>2

\* What the tab drops as a replay is on screen, and one less is owed.
LEMMA TakeDrops ==
  ASSUME NEW lg, NEW bg, NEW Acc, NEW W, NEW Q, NEW n, Taking(lg, bg, Acc, W, Q, n),
         NEW D \in Resume, NEW g \in DOMAIN bg, bg[g] <= n, Owes(lg, bg, Acc, W, D, g),
         \A j \in Acc : \A m \in Marked(lg) : m < j /\ Same(bg, m, j) => m \in Acc,
         Replayed(D, lg[n])
  PROVE  n \in Acc /\ Owes(lg, bg, Acc, W \cup {n}, Matched(D, lg[n]), g)
<1>0. PICK line, A, T, N : line = lg[n] /\ A = D.stamp /\ T = Acc \ W /\ N = Matched(D, line)
  OBVIOUS
<1>1. /\ lg \in Seq(Entry) /\ bg \in Seq(Nat \ {0}) /\ Ordered(lg) /\ Chapters(lg, bg)
      /\ Acc \subseteq Marked(lg) /\ \A m \in Acc : m \in Nat /\ lg[m].at \in Nat
  BY MarkedNat DEF Taking
<1>2. n \in Marked(lg) /\ n \notin W BY TakingFacts
<1>3. /\ n \in Nat /\ n \in DOMAIN lg /\ line \in Entry /\ line.at \in Nat /\ line.at # 0
      /\ line.text \in Texts /\ bg[g] \in Nat /\ A \in Nat \cup {-1}
  <2>1. n \in Nat /\ n \in DOMAIN lg /\ line \in Entry /\ line.at \in Nat /\ line.at # 0
    BY <1>0, <1>1, <1>2, MarkedNat
  <2>2. line.text \in Texts BY <2>1 DEF Entry
  <2>3. A \in Nat \cup {-1} BY <1>0 DEF Resume
  <2> QED BY <1>1, <2>1, <2>2, <2>3
<1>4. n \in Acc
  <2>1. CASE line.at < A
    <3>1. A # -1 BY <1>3, <2>1
    <3>2. PICK d \in Acc : lg[d].at = A /\ Before(bg, g, d) BY <1>0, <3>1 DEF Owes
    <3>3. d \in Marked(lg) /\ d \in Nat BY <1>1, <3>2
    <3>4. ~(d <= n) BY <1>0, <1>1, <1>2, <1>3, <2>1, <3>2, <3>3 DEF Ordered
    <3>5. n < d BY <1>3, <3>3, <3>4
    <3>6. Before(bg, g, n)
      <4>1. g < Len(bg) => bg[g + 1] \in Nat BY <1>1
      <4> QED BY <1>3, <3>2, <3>3, <3>5, <4>1 DEF Before
    <3>7. Same(bg, n, d) BY <1>1, <1>3, <3>2, <3>3, <3>5, <3>6, SameChapter
    <3> QED BY <1>2, <3>2, <3>5, <3>7
  <2>2. CASE ~(line.at < A)
    <3>1. line.at = A /\ D.lines[line.text] > 0 BY <1>0, <2>2 DEF Replayed
    <3>2. D.lines[line.text] <= Tally(lg, T, A, line.text) BY <1>0, <1>3 DEF Owes
    <3>3. Tally(lg, T, A, line.text) > 0
      <4>1. Tally(lg, T, A, line.text) \in Nat BY <1>1, TallyNat
      <4>2. D.lines[line.text] \in Nat BY <1>3 DEF Resume
      <4> QED BY <3>1, <3>2, <4>1, <4>2
    <3>4. PICK m \in T : m \in DOMAIN lg /\ lg[m].at = A BY <1>1, <3>3, TallySome
    <3>5. m \in Acc /\ m \notin W /\ m \in Marked(lg) /\ m \in Nat BY <1>0, <1>1, <3>4
    <3>6. Same(bg, m, n) /\ Same(bg, n, m)
      BY <1>0, <1>1, <1>2, <3>1, <3>4, <3>5, SameStamp
    <3>7. ~(m < n) BY <3>5, <3>6, TakingFacts
    <3>8. CASE m = n BY <3>5, <3>8
    <3>9. CASE n < m BY <1>2, <3>5, <3>6, <3>9
    <3> QED BY <1>3, <3>5, <3>7, <3>8, <3>9
  <2> QED BY <2>1, <2>2
<1>5. N.stamp = A /\ \A t \in Texts : N.lines[t] = D.lines[t] - Hit(line, A, t)
  BY <1>0, <1>3, MatchedIs
<1>6. PICK U : U = Acc \ (W \cup {n}) OBVIOUS
<1>7. U = T \ {n} /\ n \in T BY <1>0, <1>2, <1>4, <1>6
<1>8. ASSUME NEW t \in Texts PROVE N.lines[t] <= Tally(lg, U, N.stamp, t)
  <2>1. Tally(lg, T, A, t) = Tally(lg, U, A, t) + Hit(line, A, t)
    BY <1>0, <1>1, <1>3, <1>7, TallyLess
  <2>2. D.lines[t] <= Tally(lg, T, A, t) BY <1>0 DEF Owes
  <2>3. Hit(line, A, t) \in Nat /\ Tally(lg, U, A, t) \in Nat /\ D.lines[t] \in Nat
    <3>1. Hit(line, A, t) \in {0, 1} BY HitNat
    <3>2. Tally(lg, U, A, t) \in Nat BY <1>1, TallyNat
    <3>3. D.lines[t] \in Nat BY DEF Resume
    <3> QED BY <3>1, <3>2, <3>3
  <2>4. N.lines[t] <= Tally(lg, U, A, t) BY <1>5, <2>1, <2>2, <2>3
  <2> QED BY <1>5, <2>4
<1>9. N.stamp = -1 \/ \E d \in Acc : lg[d].at = N.stamp /\ Before(bg, g, d)
  BY <1>0, <1>5 DEF Owes
<1> QED BY <1>0, <1>4, <1>6, <1>8, <1>9 DEF Owes

\* What it accepts is recorded once, and nothing owed is taken for it.
LEMMA TakeAccepts ==
  ASSUME NEW lg, NEW bg, NEW Acc, NEW W, NEW Q, NEW n, Taking(lg, bg, Acc, W, Q, n),
         n \notin Acc, NEW L \in Resume, Told(lg, Acc, L), NEW D \in Resume, NEW g \in DOMAIN bg,
         Owes(lg, bg, Acc, W, D, g)
  PROVE  /\ Told(lg, Acc \cup {n}, Recorded(L, lg[n]))
         /\ Owes(lg, bg, Acc \cup {n}, W \cup {n}, D, g)
<1>0. PICK line, A, N, B : line = lg[n] /\ A = line.at /\ N = Recorded(L, line) /\ B = Acc \cup {n}
  OBVIOUS
<1>1. lg \in Seq(Entry) /\ Acc \subseteq Marked(lg) /\ n \in Marked(lg) BY TakingFacts DEF Taking
<1>2. n \in DOMAIN lg /\ line \in Entry /\ A \in Nat /\ A # 0 BY <1>0, <1>1, MarkedNat
<1>3. L.stamp \in Nat \cup {-1} /\ \A t \in Texts : L.lines[t] \in Nat BY DEF Resume
<1>4. ASSUME NEW t, NEW stamp
      PROVE  /\ Tally(lg, B, stamp, t) = Tally(lg, Acc, stamp, t) + Hit(line, stamp, t)
             /\ Tally(lg, Acc, stamp, t) \in Nat /\ Hit(line, stamp, t) \in Nat
  <2>1. Tally(lg, B, stamp, t) = Tally(lg, Acc, stamp, t) + Hit(line, stamp, t)
    BY <1>0, <1>1, <1>2, TallyStep
  <2>2. Tally(lg, Acc, stamp, t) \in Nat BY <1>1, TallyNat
  <2>3. Hit(line, stamp, t) \in {0, 1} BY HitNat
  <2> QED BY <2>1, <2>2, <2>3
<1>5. Told(lg, B, N)
  <2>1. CASE L.stamp < A
    <3>1. N.stamp = A /\ \A t \in Texts : N.lines[t] = Hit(line, A, t)
      BY <1>0, <1>2, <2>1, RecordedIs
    <3>2. ASSUME NEW t \in Texts PROVE N.lines[t] <= Tally(lg, B, N.stamp, t)
      <4>1. N.lines[t] <= Tally(lg, B, A, t) BY <1>4, <3>1
      <4> QED BY <3>1, <4>1
    <3>3. Dated(lg, B, N) BY <1>0, <3>1 DEF Dated
    <3> QED BY <3>2, <3>3 DEF Told
  <2>2. CASE L.stamp = A
    <3>1. N.stamp = A /\ \A t \in Texts : N.lines[t] = L.lines[t] + Hit(line, A, t)
      BY <1>0, <1>2, <2>2, RecordedIs
    <3>2. ASSUME NEW t \in Texts PROVE N.lines[t] <= Tally(lg, B, N.stamp, t)
      <4>1. L.lines[t] <= Tally(lg, Acc, A, t) BY <2>2 DEF Told
      <4>2. N.lines[t] <= Tally(lg, B, A, t) BY <1>3, <1>4, <3>1, <4>1
      <4> QED BY <3>1, <4>2
    <3>3. Dated(lg, B, N) BY <1>0, <3>1 DEF Dated
    <3> QED BY <3>2, <3>3 DEF Told
  <2>3. CASE A < L.stamp
    <3>1. N = L BY <1>0, <1>2, <1>3, <2>3 DEF Recorded
    <3>2. PICK M : M = L.stamp OBVIOUS
    <3>3. ASSUME NEW t \in Texts PROVE L.lines[t] <= Tally(lg, B, M, t)
      <4>1. L.lines[t] <= Tally(lg, Acc, M, t) BY <3>2 DEF Told
      <4> QED BY <1>3, <1>4, <4>1
    <3>4. Dated(lg, B, L) BY <1>0 DEF Dated, Told
    <3> QED BY <3>1, <3>2, <3>3, <3>4 DEF Told
  <2> QED BY <1>2, <1>3, <2>1, <2>2, <2>3
<1>6. B \ (W \cup {n}) = Acc \ W
  <2>1. n \notin Acc OBVIOUS
  <2> QED BY <1>0, <2>1
<1>7. Owes(lg, bg, B, W \cup {n}, D, g) BY <1>0, <1>6 DEF Owes
<1> QED BY <1>0, <1>5, <1>7

-----------------------------------------------------------------------------
(* The history of a container.                                             *)

\* A line of the last instance is stamped after all of the ones before.
LEMMA ChaptersWrite ==
  ASSUME NEW lg \in Seq(Entry), NEW bg \in Seq(Nat \ {0}), bg # <<>>, Chapters(lg, bg),
         \A g \in DOMAIN bg : bg[g] <= Len(lg) + 1, NEW e \in Entry,
         e.at # 0 => \A m \in 1 .. bg[Len(bg)] - 1 : lg[m].at < e.at
  PROVE  Chapters(Append(lg, e), bg)
<1>0. PICK lg2 : lg2 = Append(lg, e) OBVIOUS
<1>1. /\ lg2 \in Seq(Entry) /\ Len(lg2) = Len(lg) + 1 /\ lg2[Len(lg) + 1] = e
      /\ \A j \in 1 .. Len(lg) : lg2[j] = lg[j]
  BY <1>0, AppendFacts
<1>2. /\ Len(lg) \in Nat /\ DOMAIN lg = 1 .. Len(lg) /\ DOMAIN lg2 = 1 .. Len(lg) + 1
      /\ DOMAIN bg = 1 .. Len(bg) /\ Len(bg) \in DOMAIN bg /\ \A g \in DOMAIN bg : bg[g] \in Nat
  BY <1>1
<1>3. ASSUME NEW g \in DOMAIN bg, NEW m \in Marked(lg2), NEW n \in Marked(lg2),
             m < bg[g], bg[g] <= n
      PROVE  lg2[m].at < lg2[n].at
  <2>1. m \in 1 .. Len(lg) + 1 /\ n \in 1 .. Len(lg) + 1 /\ lg2[m].at # 0 /\ lg2[n].at # 0
    BY <1>2 DEF Marked
  <2>2. m \in 1 .. Len(lg) /\ bg[g] <= Len(lg) + 1 BY <1>2, <1>3, <2>1
  <2>3. lg2[m] = lg[m] /\ m \in Marked(lg) BY <1>1, <1>2, <2>1, <2>2 DEF Marked
  <2>4. CASE n \in 1 .. Len(lg)
    <3>1. lg2[n] = lg[n] /\ n \in Marked(lg) BY <1>1, <1>2, <2>1, <2>4 DEF Marked
    <3> QED BY <1>3, <2>3, <3>1 DEF Chapters
  <2>5. CASE n = Len(lg) + 1
    <3>1. lg2[n] = e BY <1>1, <2>5
    <3>2. bg[g] <= bg[Len(bg)]
      <4>1. g <= Len(bg) BY <1>2
      <4> QED BY <1>2, <4>1 DEF Chapters
    <3>3. m \in 1 .. bg[Len(bg)] - 1 BY <1>2, <1>3, <2>2, <3>2
    <3> QED BY <2>1, <2>3, <3>1, <3>3
  <2>6. n \in 1 .. Len(lg) \/ n = Len(lg) + 1 BY <1>2, <2>1
  <2> QED BY <2>4, <2>5, <2>6
<1>4. ASSUME NEW g \in DOMAIN bg, bg[g] > 1
      PROVE  \E m \in 1 .. bg[g] - 1 : \A n \in 1 .. bg[g] - 1 : lg2[n].at <= lg2[m].at
  <2>1. \A n \in 1 .. bg[g] - 1 : lg2[n] = lg[n]
    <3>1. bg[g] \in Nat /\ bg[g] <= Len(lg) + 1 BY <1>2
    <3> QED BY <1>1, <1>2, <3>1
  <2> QED BY <1>4, <2>1 DEF Chapters
<1>5. \A g, h \in DOMAIN bg : g <= h => bg[g] <= bg[h] BY DEF Chapters
<1>6. Chapters(lg2, bg) BY <1>3, <1>4, <1>5 DEF Chapters
<1> QED BY <1>0, <1>6

\* An instance that has begun at the end of the log has no line yet.
LEMMA ChaptersRestart ==
  ASSUME NEW lg \in Seq(Entry), NEW bg \in Seq(Nat \ {0}), Chapters(lg, bg), Ordered(lg),
         \A g \in DOMAIN bg : bg[g] <= Len(lg) + 1
  PROVE  Chapters(lg, Append(bg, Len(lg) + 1))
<1>0. PICK bg2, e : bg2 = Append(bg, Len(lg) + 1) /\ e = Len(lg) + 1 OBVIOUS
<1>1. /\ bg2 \in Seq(Nat \ {0}) /\ Len(bg2) = Len(bg) + 1 /\ bg2[Len(bg) + 1] = e
      /\ \A j \in 1 .. Len(bg) : bg2[j] = bg[j]
  <2>1. e \in Nat \ {0} BY <1>0
  <2> QED BY <1>0, <2>1, AppendFacts
<1>2. /\ Len(lg) \in Nat /\ DOMAIN lg = 1 .. Len(lg) /\ Len(bg) \in Nat
      /\ DOMAIN bg = 1 .. Len(bg) /\ DOMAIN bg2 = 1 .. Len(bg) + 1
      /\ \A g \in DOMAIN bg2 : bg2[g] \in Nat
  BY <1>1
<1>3. \A g \in DOMAIN bg2 : (g \in DOMAIN bg /\ bg2[g] = bg[g]) \/ (g = Len(bg) + 1 /\ bg2[g] = e)
  BY <1>1, <1>2
<1>4. ASSUME NEW g \in DOMAIN bg2, NEW h \in DOMAIN bg2, g <= h PROVE bg2[g] <= bg2[h]
  <2>1. CASE h \in DOMAIN bg
    <3>1. g \in DOMAIN bg BY <1>2, <1>4, <2>1
    <3>2. bg2[g] = bg[g] /\ bg2[h] = bg[h] BY <1>1, <1>2, <2>1, <3>1
    <3> QED BY <1>4, <2>1, <3>1, <3>2 DEF Chapters
  <2>2. CASE h \notin DOMAIN bg
    <3>1. bg2[h] = e BY <1>3, <2>2
    <3>2. bg2[g] <= e BY <1>0, <1>2, <1>3
    <3> QED BY <3>1, <3>2
  <2> QED BY <2>1, <2>2
<1>5. ASSUME NEW g \in DOMAIN bg2, NEW m \in Marked(lg), NEW n \in Marked(lg),
             m < bg2[g], bg2[g] <= n
      PROVE  lg[m].at < lg[n].at
  <2>1. n \in 1 .. Len(lg) BY <1>2 DEF Marked
  <2>2. bg2[g] # e BY <1>0, <1>2, <1>5, <2>1
  <2>3. g \in DOMAIN bg /\ bg2[g] = bg[g] BY <1>3, <2>2
  <2> QED BY <1>5, <2>3 DEF Chapters
<1>6. ASSUME NEW g \in DOMAIN bg2, bg2[g] > 1
      PROVE  \E m \in 1 .. bg2[g] - 1 : \A n \in 1 .. bg2[g] - 1 : lg[n].at <= lg[m].at
  <2>1. CASE g \in DOMAIN bg /\ bg2[g] = bg[g] BY <1>6, <2>1 DEF Chapters
  <2>2. CASE bg2[g] = e
    <3>1. lg # <<>> /\ 1 .. bg2[g] - 1 = DOMAIN lg BY <1>0, <1>2, <1>6, <2>2
    <3> QED BY <3>1 DEF Ordered
  <2> QED BY <1>3, <2>1, <2>2
<1>7. Chapters(lg, bg2) BY <1>4, <1>5, <1>6 DEF Chapters
<1> QED BY <1>0, <1>7

\* What every step makes of a source's log and instances.
LEMMA SourceGrown ==
  ASSUME TypeInv, TypeInv', [Next]_vars, NEW s \in Src
  PROVE  /\ log[s] \in Seq(Entry) /\ log'[s] \in Seq(Entry)
         /\ begins[s] \in Seq(Nat \ {0}) /\ begins'[s] \in Seq(Nat \ {0})
         /\ Grown(log'[s], begins'[s], log[s], begins[s])
<1>1. Extends(log'[s], log[s]) BY LogGrows
<1>2. begins'[s] = begins[s] \/ begins'[s] = Append(begins[s], Len(log[s]) + 1) BY BeginsGrow
<1> QED BY <1>1, <1>2 DEF Grown, TypeInv, ClusterTypes

\* LastStamp is no smaller than any stamp up to a place that has the greatest.
LEMMA LastIsGreatest ==
  ASSUME TypeInv, NEW s \in Src, NEW k \in 0 .. Len(log[s]), NEW n \in 1 .. k,
         \E m \in 1 .. k : \A j \in 1 .. k : log[s][j].at <= log[s][m].at
  PROVE  log[s][n].at <= LastStamp(s, k) /\ LastStamp(s, k) \in Nat
<1>1. log[s] \in Seq(Entry) BY LogOf
<1>2. PICK X : X = {log[s][i].at : i \in 1 .. k} OBVIOUS
<1>3. log[s][n].at \in X BY <1>2
<1>4. PICK m \in 1 .. k : \A j \in 1 .. k : log[s][j].at <= log[s][m].at OBVIOUS
<1>5. \E p \in X : \A q \in X : q <= p BY <1>2, <1>4
<1>6. LastStamp(s, k) = CHOOSE p \in X : \A q \in X : q <= p BY <1>2, <1>3 DEF LastStamp
<1>7. LastStamp(s, k) \in X /\ log[s][n].at <= LastStamp(s, k) BY <1>3, <1>5, <1>6
<1>8. \A p \in X : p \in Nat
  <2>1. \A i \in 1 .. k : log[s][i] \in Entry BY <1>1
  <2> QED BY <2>1, <1>2 DEF Entry
<1> QED BY <1>7, <1>8

\* A container's instances keep following each other, within the bound.
LEMMA HistoryKept ==
  ASSUME TypeInv, TypeInv', [Next]_vars, NEW s \in Src, Ordered(log[s]), HistoryInv(s)
  PROVE  HistoryInv(s)'
<1>1. PICK lg, bg : lg = log[s] /\ bg = begins[s] OBVIOUS
<1>2. /\ lg \in Seq(Entry) /\ bg \in Seq(Nat \ {0}) /\ bg # <<>>
      /\ \A g \in DOMAIN bg : bg[g] <= Len(lg) + 1
  BY <1>1 DEF TypeInv, ClusterTypes
<1>3. Chapters(lg, bg) /\ Len(lg) <= limit.lines /\ Ordered(lg) /\ limit' = limit
  BY <1>1, LimitFixed DEF HistoryInv
<1>4. CASE begins'[s] # begins[s]
  <2>1. log' = log /\ begins'[s] = Append(bg, Len(lg) + 1) BY <1>1, <1>4, BeginsGrow
  <2>2. Chapters(lg, Append(bg, Len(lg) + 1)) BY <1>2, <1>3, ChaptersRestart
  <2> QED BY <1>1, <1>3, <2>1, <2>2 DEF HistoryInv
<1>5. CASE begins'[s] = begins[s] /\ log'[s] = log[s]
  BY <1>1, <1>3, <1>5 DEF HistoryInv
<1>6. ASSUME begins'[s] = begins[s], NEW t \in Src, Write(t), log'[s] # log[s] PROVE HistoryInv(s)'
  <2>1. PICK at \in limit.stamps, text \in limit.texts :
          /\ at # 0 => LastStamp(t, Begin(t) - 1) < at
          /\ log' = [log EXCEPT ![t] = Append(@, [at |-> at, text |-> text])]
          /\ Len(log[t]) < limit.lines
    BY <1>6 DEF Write
  <2>2. PICK e : e = [at |-> at, text |-> text] OBVIOUS
  <2>3. e \in Entry /\ e.at = at /\ at \in Nat
    BY <2>2, LimitTyped DEF Entry, TypeInv, ClusterTypes
  <2>4. t = s BY <1>6, <2>1 DEF TypeInv, ClusterTypes
  <2>5. log'[s] = Append(lg, e) BY <1>1, <2>1, <2>2, <2>4 DEF TypeInv, ClusterTypes
  <2>6. ASSUME at # 0, NEW m \in 1 .. bg[Len(bg)] - 1 PROVE lg[m].at < at
    <3>1. PICK k : k = bg[Len(bg)] - 1 OBVIOUS
    <3>2. Len(bg) \in DOMAIN bg /\ bg[Len(bg)] \in Nat /\ Len(lg) \in Nat BY <1>2
    <3>3. bg[Len(bg)] <= Len(lg) + 1 BY <1>2, <3>2
    <3>4. k \in 0 .. Len(lg) /\ m \in 1 .. k /\ bg[Len(bg)] > 1 BY <2>6, <3>1, <3>2, <3>3
    <3>5. \E p \in 1 .. k : \A j \in 1 .. k : lg[j].at <= lg[p].at
      BY <1>3, <3>1, <3>2, <3>4 DEF Chapters
    <3>6. lg[m].at <= LastStamp(s, k) /\ LastStamp(s, k) \in Nat
      BY <1>1, <3>4, <3>5, LastIsGreatest
    <3>7. LastStamp(s, k) < at BY <1>1, <2>1, <2>4, <2>6, <3>1 DEF Begin
    <3>8. lg[m].at \in Nat
      <4>1. lg[m] \in Entry BY <1>2, <3>4
      <4> QED BY <4>1 DEF Entry
    <3> QED BY <2>3, <3>6, <3>7, <3>8
  <2>7. Chapters(Append(lg, e), bg) BY <1>2, <1>3, <2>3, <2>6, ChaptersWrite
  <2>8. Len(Append(lg, e)) <= limit.lines
    <3>1. limit.lines \in Nat /\ Len(lg) \in Nat BY <1>2, LimitTyped DEF TypeInv, ClusterTypes
    <3>2. Len(Append(lg, e)) = Len(lg) + 1 BY <1>2, <2>3, AppendFacts
    <3> QED BY <1>1, <2>1, <2>4, <3>1, <3>2
  <2> QED BY <1>1, <1>3, <1>6, <2>5, <2>7, <2>8 DEF HistoryInv
<1> QED BY <1>4, <1>5, <1>6, OnlyWrites

-----------------------------------------------------------------------------
(* As long as the screen is not full, neither buffer nor resume drops.     *)

\* A buffer that is not full after a line has dropped none.
LEMMA BufferRoom ==
  ASSUME TypeInv, Len(shown) <= limit.buffer, NEW l \in Line, Len(Buffered(l)) < limit.buffer
  PROVE  /\ Buffered(l) = Append(shown, l) /\ Len(shown) < limit.buffer
         /\ Len(Buffered(l)) = Len(shown) + 1
<1>1. PICK all : all = Append(shown, l) OBVIOUS
<1>2. shown \in Seq(Line) /\ Len(shown) \in Nat /\ limit.buffer \in Nat
  BY LimitTyped DEF TypeInv, TabTypes, ClusterTypes
<1>3. Len(all) = Len(shown) + 1 /\ all \in Seq(Line) BY <1>1, <1>2, AppendFacts
<1>4. CASE Len(all) > limit.buffer
  <2>1. Buffered(l) = Tail(all) /\ all # <<>> BY <1>1, <1>2, <1>3, <1>4 DEF Buffered
  <2>2. Len(Tail(all)) = Len(shown) BY <1>2, <1>3, <2>1, TailFacts
  <2> QED BY <1>2, <1>3, <1>4, <2>1, <2>2
<1>5. CASE ~(Len(all) > limit.buffer)
  <2>1. Buffered(l) = all BY <1>1, <1>5 DEF Buffered
  <2> QED BY <1>1, <1>2, <1>3, <1>5, <2>1
<1> QED BY <1>4, <1>5

\* Only PassLine forgets a source.
LEMMA ForgotFixed == [Next]_vars /\ ~PassLine => UNCHANGED forgot
<1>1. Cluster \/ Sync \/ Resolve \/ PassGone \/ Connect \/ Break => UNCHANGED forgot
  BY DEF Cluster, Sync, Create, Run, Write, Stop, Restart, Finish, Delete, PodMoves, RootMoves,
         SyncRoot, SyncPod, Resolve, PassGone, Connect, Break, tab
<1>2. \A s \in Src : Streamer(s) \/ Interrupt(s) => UNCHANGED forgot
  BY DEF Streamer, Interrupt, Consider, Open, Scan, Eof, Ends, tab
<1> QED BY <1>1, <1>2 DEF Next, vars, tab

\* A line accepted with room to spare: one line more, no source less.
LEMMA RoomAccept ==
  ASSUME TypeInv, MemoryInv, NEW l \in Line, l.src \in Src, log[l.src][l.n] \in Entry,
         Len(live) <= Len(shown), limit' = limit,
         shown' = Buffered(l), live' = Renewed(l.src, log[l.src][l.n]), Len(shown') < limit.buffer
  PROVE  Sources(live) \subseteq Sources(live') /\ Len(live') <= Len(shown')
<1>1. PICK s, line, R : s = l.src /\ line = log[l.src][l.n] /\ R = Recorded(LiveOf(s), line)
  OBVIOUS
<1>2. /\ Len(shown') = Len(shown) + 1 /\ Len(shown) < limit.buffer /\ Len(shown) \in Nat
      /\ live \in Seq(Record) /\ Len(live) \in Nat /\ limit.buffer \in Nat
  <2>1. Len(shown') = Len(shown) + 1 /\ Len(shown) < limit.buffer BY BufferRoom DEF MemoryInv
  <2> QED BY <2>1, LimitTyped DEF TypeInv, TabTypes, ClusterTypes
<1>3. IF R = NoResume THEN live' = live ELSE Outcome(live', s, [src |-> s, resume |-> R])
  BY <1>1, RenewedFacts DEF MemoryInv
<1>4. CASE R = NoResume BY <1>2, <1>3, <1>4
<1>5. CASE R # NoResume
  <2>1. PICK e : e = [src |-> s, resume |-> R] OBVIOUS
  <2>2. Outcome(live', s, e) BY <1>3, <1>5, <2>1
  <2>3. ASSUME NEW k \in DOMAIN live PROVE \E j \in DOMAIN live' : live'[j].src = live[k].src
    <3>1. CASE live[k].src = s
      <4>1. Len(live') \in DOMAIN live' /\ live'[Len(live')].src = s
        BY <2>1, <2>2 DEF Outcome
      <4> QED BY <3>1, <4>1
    <3>2. CASE live[k].src # s
      <4>1. ~(Len(live) - k >= limit.buffer - 1)
        <5>1. k \in 1 .. Len(live) BY <1>2
        <5> QED BY <1>2, <5>1
      <4>2. \E j \in DOMAIN live' : live'[j] = live[k] BY <2>2, <3>2, <4>1 DEF Outcome
      <4> QED BY <4>2
    <3> QED BY <3>1, <3>2
  <2>4. Sources(live) \subseteq Sources(live')
    <3> SUFFICES ASSUME NEW k \in DOMAIN live PROVE live[k].src \in Sources(live') BY DEF Sources
    <3>1. PICK j \in DOMAIN live' : live'[j].src = live[k].src BY <2>3
    <3> QED BY <3>1 DEF Sources
  <2>5. Len(live') <= Len(live) + 1
    <3>1. PICK V : V = Without(s) OBVIOUS
    <3>2. V \in Seq(Record) /\ Len(V) \in Nat /\ Len(V) <= Len(live) BY <3>1, WithoutTyped
    <3>3. e \in Record
      <4>1. R \in Resume BY <1>1, RecordedTyped, LiveOfTyped
      <4> QED BY <1>1, <2>1, <4>1 DEF Record
    <3>4. PICK all : all = Append(V, e) OBVIOUS
    <3>5. all \in Seq(Record) /\ Len(all) = Len(V) + 1 /\ all # <<>>
      BY <3>2, <3>3, <3>4, AppendFacts
    <3>6. live' = Capped(all) BY <1>1, <1>5, <2>1, <3>1, <3>4 DEF Renewed
    <3>7. Len(Tail(all)) = Len(V) BY <3>2, <3>5, TailFacts
    <3> QED BY <1>2, <3>2, <3>5, <3>6, <3>7 DEF Capped
  <2>6. Len(live') \in Nat BY <2>2 DEF Outcome
  <2> QED BY <1>2, <2>4, <2>5, <2>6
<1> QED BY <1>4, <1>5

\* What a step does to a screen that still has room after it.
LEMMA RoomKept ==
  ASSUME TypeInv, MemoryInv, RoomInv, [Next]_vars, Roomy'
  PROVE  Roomy /\ forgot' = {} /\ Len(live') <= Len(shown')
<1>1. limit' = limit BY LimitFixed
<1>2. CASE ~PassLine
  <2>1. UNCHANGED <<live, shown, forgot>> BY <1>2, TabFixed, ForgotFixed
  <2> QED BY <1>1, <2>1 DEF Roomy, RoomInv
<1>3. CASE PassLine
  <2>1. PICK l : l = Head(lines) OBVIOUS
  <2>2. l \in Line /\ l.src \in Src /\ log[l.src][l.n] \in Entry /\ OnLog(l)
    BY <1>3, <2>1, HeadLine
  <2>3. CASE UNCHANGED <<live, shown, forgot>> BY <1>1, <2>3 DEF Roomy, RoomInv
  <2>4. CASE /\ live' = Renewed(l.src, log[l.src][l.n]) /\ shown' = Buffered(l)
             /\ forgot' = forgot \cup (Sources(live) \ Sources(live'))
    <3>1. limit.tail >= limit.lines /\ Len(Buffered(l)) < limit.buffer
      BY <1>1, <2>4 DEF Roomy
    <3>2. Len(shown) < limit.buffer BY <2>2, <3>1, BufferRoom DEF MemoryInv
    <3>3. forgot = {} /\ Len(live) <= Len(shown) BY <3>1, <3>2 DEF Roomy, RoomInv
    <3>4. Sources(live) \subseteq Sources(live') /\ Len(live') <= Len(shown')
      BY <1>1, <2>2, <2>4, <3>1, <3>3, RoomAccept
    <3> QED BY <2>4, <3>1, <3>2, <3>3, <3>4 DEF Roomy
  <2> QED BY <2>2, <2>3, <2>4 DEF OnLog
<1> QED BY <1>2, <1>3

-----------------------------------------------------------------------------
(* Steps that leave a source's streamer, or the tab, alone.                *)

\* The empty record counts nothing.
LEMMA NothingCounts ==
  ASSUME NEW lg \in Seq(Entry)
  PROVE  Dated(lg, {}, NoResume) /\ Counts(lg, {}, NoResume)
<1>1. NoResume.stamp = -1 /\ \A t \in Texts : NoResume.lines[t] = 0 BY DEF NoResume, NoCount
<1>2. \A t \in Texts : Tally(lg, {}, NoResume.stamp, t) = 0
  <2>1. PICK A : A = NoResume.stamp OBVIOUS
  <2>2. \A t : {} \cap Tied(lg, A, t) = {} OBVIOUS
  <2>3. \A t \in Texts : Tally(lg, {}, A, t) = 0 BY <2>2, TallyNone
  <2> QED BY <2>1, <2>3
<1> QED BY <1>1, <1>2 DEF Dated, Counts

\* A plan only takes in what the snapshot shows.
PlanStep(s) ==
  s \in DOMAIN plan' => s \in DOMAIN plan
                        \/ (Seen(s)' /\ owner'[s] = viewRoot' /\ viewPod'[s].pod # "deleted"
                            /\ viewRoot' = viewRoot)

\* A source that is retired stays so while its streamer is left alone.
LEMMA RetiredKept ==
  ASSUME TypeInv, TypeInv', WorldInv, [Next]_vars, NEW s \in Src, Seen(s), Retired(s),
         streamer'[s] = streamer[s], drained'[s] = drained[s], PlanStep(s)
  PROVE  Retired(s)'
<1>1. /\ owner'[s] = owner[s] /\ viewRoot <= viewRoot'
      /\ viewPod[s].pod = "deleted" => viewPod'[s].pod = "deleted"
  BY PastKept
<1>2. viewRoot \in Nat /\ viewRoot' \in Nat /\ owner[s] \in Nat BY DEF TypeInv, ClusterTypes
<1>3. streamer'[s] = Off BY DEF Retired
<1>4. CASE drained[s].terminal BY <1>3, <1>4 DEF Retired
<1>5. CASE s \notin DOMAIN plan /\ owner[s] < viewRoot BY <1>1, <1>2, <1>3, <1>5 DEF Retired, PlanStep
<1>6. CASE s \notin DOMAIN plan /\ viewPod[s].pod = "deleted"
  BY <1>1, <1>2, <1>3, <1>6 DEF Retired, PlanStep
<1> QED BY <1>4, <1>5, <1>6 DEF Retired

\* What was sent stays accounted for.
LEMMA SentKept ==
  ASSUME TypeInv, TypeInv', WorldInv, [Next]_vars, NEW s \in Src, SourceInv(s),
         NEW S, S \subseteq Marked(log[s]), SentInv(s, S),
         streamer'[s] = streamer[s], drained'[s] = drained[s], PlanStep(s),
         \/ resumes'[s] = resumes[s]
         \/ resumes'[s] = NoResume /\ streamer[s] = Off /\ (Seen(s) => Retired(s)')
  PROVE  SentInv(s, S)'
<1>1. PICK lg, lg2, bg, bg2, R, st :
        /\ lg = log[s] /\ lg2 = log'[s] /\ bg = begins[s] /\ bg2 = begins'[s]
        /\ R = resumes[s] /\ st = streamer[s]
  OBVIOUS
<1>2. /\ lg \in Seq(Entry) /\ lg2 \in Seq(Entry) /\ bg \in Seq(Nat \ {0})
      /\ Grown(lg2, bg2, lg, bg) /\ Extends(lg2, lg) /\ S \subseteq Marked(lg)
  BY <1>1, SourceGrown DEF Grown
<1>3. Seen(s) => Seen(s)' BY PastKept
<1>4. Closed(lg2, bg2, S) BY <1>1, <1>2, ClosedGrown DEF SentInv
<1>5. Retired(s)' \/ (Dated(lg2, S, resumes'[s]) /\ Counts(lg2, S, resumes'[s]))
  <2>1. CASE ~Seen(s)
    <3>1. resumes[s] = NoResume /\ S = {} BY <2>1 DEF SourceInv, ServerInv, SentInv
    <3>2. resumes'[s] = NoResume BY <3>1
    <3> QED BY <1>2, <3>1, <3>2, NothingCounts
  <2>2. CASE Seen(s) /\ Retired(s) BY <2>2, RetiredKept
  <2>3. CASE ~Retired(s) /\ resumes'[s] = resumes[s]
    <3>1. Dated(lg, S, R) /\ Counts(lg, S, R) BY <1>1, <2>3 DEF SentInv
    <3>2. Dated(lg2, S, R) /\ Counts(lg2, S, R) BY <1>2, <3>1, CountsGrown
    <3> QED BY <1>1, <2>3, <3>2
  <2> QED BY <2>1, <2>2, <2>3
<1>6. ASSUME st.at = "reading" PROVE Reads(lg2, bg2, S, st.instance, st.next, st.resume)
  <2>1. st.next \in Nat BY <1>1, <1>6, TypesOf
  <2>2. st.next <= Len(lg) + 1 BY <1>1, <1>6 DEF SourceInv, ServerInv
  <2>3. Reads(lg, bg, S, st.instance, st.next, st.resume) BY <1>1, <1>6 DEF SentInv
  <2> QED BY <1>2, <2>1, <2>2, <2>3, ReadsGrown
<1> QED BY <1>1, <1>3, <1>4, <1>5, <1>6 DEF SentInv

\* So does what the tab took of it.
LEMMA TakenKept ==
  ASSUME TypeInv, TypeInv', [Next]_vars, NEW s \in Src,
         NEW W, W \subseteq Marked(log[s]), NEW g \in DOMAIN begins[s], TakenInv(s, W, g),
         shown' = shown, LiveOf(s)' = LiveOf(s), SnapshotOf(s)' = SnapshotOf(s),
         connected' = connected, \A n \in Queued(s)' : n \in Queued(s) \/ begins[s][g] <= n,
         streamer'[s].at = "reading" => g <= streamer'[s].instance
  PROVE  TakenInv(s, W, g)' /\ g \in DOMAIN begins'[s]
<1>1. PICK lg, lg2, bg, bg2, L, D, Acc :
        /\ lg = log[s] /\ lg2 = log'[s] /\ bg = begins[s] /\ bg2 = begins'[s]
        /\ L = LiveOf(s) /\ D = SnapshotOf(s) /\ Acc = OnShow(s)
  OBVIOUS
<1>2. /\ lg \in Seq(Entry) /\ lg2 \in Seq(Entry) /\ bg \in Seq(Nat \ {0})
      /\ Grown(lg2, bg2, lg, bg) /\ Extends(lg2, lg) /\ g \in DOMAIN bg
  BY <1>1, SourceGrown DEF Grown
<1>3. /\ shown \in Seq(Line) /\ \A i \in DOMAIN shown : shown[i].src = s => shown[i].n <= Len(lg)
  BY <1>1, PlacesTyped
<1>4. Acc \subseteq Marked(lg) /\ OnShow(s)' = Acc
  <2>1. PlacesIn(shown, s, lg2) = PlacesIn(shown, s, lg) BY <1>2, <1>3, PlacesKept
  <2> QED BY <1>1, <2>1 DEF OnShow, PlacesIn
<1>5. Told(lg2, Acc, L)
  <2>1. Told(lg, Acc, L) BY <1>1 DEF TakenInv
  <2> QED BY <1>2, <1>4, <2>1, CountsGrown
<1>6. InTurn(s, lg2, bg2, shown)
  <2>1. InTurn(s, lg, bg, shown) BY <1>1 DEF TakenInv
  <2> QED BY <1>2, <1>3, <2>1, InTurnGrown
<1>7. connected => Owes(lg2, bg2, Acc, W, D, g)
  <2> SUFFICES ASSUME connected PROVE Owes(lg2, bg2, Acc, W, D, g) OBVIOUS
  <2>1. Owes(lg, bg, Acc, W, D, g) BY <1>1 DEF TakenInv
  <2> QED BY <1>2, <1>4, <2>1, OwesGrown
<1>8. g \in DOMAIN bg2 /\ bg2[g] = bg[g] BY <1>2, GrownFacts
<1>9. connected => W \subseteq Acc /\ \A n \in W \cup Queued(s)' : bg2[g] <= n
  BY <1>1, <1>8 DEF TakenInv
<1>10. ~connected => W = {} BY DEF TakenInv
<1> QED BY <1>1, <1>4, <1>5, <1>6, <1>7, <1>8, <1>9, <1>10 DEF TakenInv

\* A marked line stays one.
LEMMA MarkedKept ==
  ASSUME TypeInv, TypeInv', [Next]_vars, NEW s \in Src, NEW W, W \subseteq Marked(log[s])
  PROVE  W \in SUBSET Marked(log'[s])
BY SourceGrown, MarkedGrown DEF Grown

\* A step of somebody else keeps what the filters have let through.
LEMMA EatsBystander ==
  ASSUME TypeInv, TypeInv', WorldInv, QuietInv, [Next]_vars, NEW s \in Src, SourceInv(s), EatsInv(s),
         streamer'[s] = streamer[s], drained'[s] = drained[s], PlanStep(s),
         \/ resumes'[s] = resumes[s]
         \/ resumes'[s] = NoResume /\ streamer[s] = Off /\ (Seen(s) => Retired(s)'),
         Queued(s)' = Queued(s), shown' = shown, LiveOf(s)' = LiveOf(s),
         SnapshotOf(s)' = SnapshotOf(s), connected' = connected
  PROVE  EatsInv(s)'
<1>1. PICK W \in SUBSET Marked(log[s]) : \E g \in DOMAIN begins[s] :
        W \cap Queued(s) = {} /\ SentInv(s, W \cup Queued(s)) /\ TakenInv(s, W, g)
  BY DEF EatsInv
<1>2. PICK g \in DOMAIN begins[s] :
        W \cap Queued(s) = {} /\ SentInv(s, W \cup Queued(s)) /\ TakenInv(s, W, g)
  BY <1>1
<1>3. PICK Q, S : Q = Queued(s) /\ S = W \cup Q OBVIOUS
<1>4. S \subseteq Marked(log[s]) BY <1>3 DEF Queued, PlacesIn
<1>5. SentInv(s, S)' BY <1>2, <1>3, <1>4, SentKept
<1>6. streamer'[s].at = "reading" => g <= streamer'[s].instance
  <2> SUFFICES ASSUME streamer[s].at = "reading" PROVE g <= streamer[s].instance OBVIOUS
  <2>1. streamer[s] # Off BY DEF Off
  <2>2. connected BY <2>1 DEF QuietInv
  <2> QED BY <1>2, <2>2 DEF TakenInv
<1>7. TakenInv(s, W, g)' /\ g \in DOMAIN begins'[s] BY <1>2, <1>6, TakenKept
<1>8. W \in SUBSET Marked(log'[s]) BY MarkedKept
<1>9. SentInv(s, W \cup Queued(s))' BY <1>3, <1>5
<1> QED BY <1>2, <1>7, <1>8, <1>9 DEF EatsInv

\* Pruning forgets a record only when the source cannot be streamed again.
LEMMA ResolveEats ==
  ASSUME TypeInv, TypeInv', WorldInv, QuietInv, [Next]_vars, Resolve, NEW s \in Src,
         SourceInv(s), EatsInv(s)
  PROVE  EatsInv(s)'
<1>1. /\ UNCHANGED <<owner, viewPod, viewRoot, streamer, drained, lines, live, shown, delivered,
                     connected>>
      /\ DOMAIN plan' = Resolved /\ resumes' = Pruned(Resolved) /\ plan = <<>>
  BY DEF Resolve, env, view, tab
<1>2. streamer'[s] = streamer[s] /\ drained'[s] = drained[s] BY <1>1
<1>3. Queued(s)' = Queued(s) BY <1>1, QueueKept DEF SourceInv
<1>4. PlanStep(s)
  <2>1. viewRoot \in Nat BY DEF TypeInv, ClusterTypes
  <2> QED BY <1>1, <2>1 DEF Resolved, Seen, PlanStep
<1>5. LiveOf(s)' = LiveOf(s) /\ SnapshotOf(s)' = SnapshotOf(s) BY <1>1, TabUntouched
<1>6. \/ resumes'[s] = resumes[s]
      \/ resumes'[s] = NoResume /\ streamer[s] = Off /\ (Seen(s) => Retired(s)')
  <2>1. CASE s \in Resolved \/ streamer[s] # Off BY <1>1, <2>1 DEF Pruned
  <2>2. CASE s \notin Resolved /\ streamer[s] = Off
    <3>1. resumes'[s] = NoResume BY <1>1, <2>2 DEF Pruned
    <3>2. ASSUME Seen(s) PROVE Retired(s)'
      <4>1. Alive(owner[s]) /\ owner[s] \in Nat /\ viewRoot \in Nat
        BY DEF WorldInv, TypeInv, ClusterTypes
      <4>2. owner[s] <= viewRoot /\ viewPod[s].pod # "none" BY <3>2 DEF Seen
      <4>3. owner[s] < viewRoot \/ viewPod[s].pod = "deleted"
        <5>1. CASE owner[s] = viewRoot BY <4>1, <4>2, <5>1, <2>2 DEF Resolved
        <5>2. CASE owner[s] # viewRoot BY <4>1, <4>2, <5>2
        <5> QED BY <5>1, <5>2
      <4> QED BY <4>3, <1>1, <2>2 DEF Retired
    <3> QED BY <3>1, <3>2, <2>2
  <2> QED BY <2>1, <2>2
<1> QED BY <1>1, <1>2, <1>3, <1>4, <1>5, <1>6, EatsBystander

\* Steps of the cluster and its informers, and the notice.
LEMMA ElseEats ==
  ASSUME TypeInv, TypeInv', WorldInv, QuietInv, [Next]_vars,
         Cluster \/ Sync \/ PassGone \/ UNCHANGED vars, NEW s \in Src, SourceInv(s), EatsInv(s)
  PROVE  EatsInv(s)'
<1>1. /\ UNCHANGED <<streamer, drained, resumes, plan, lines>>
      /\ UNCHANGED <<live, shown, delivered, connected>>
  BY DEF Cluster, Sync, Create, Run, Write, Stop, Restart, Finish, Delete, PodMoves, RootMoves,
         SyncRoot, SyncPod, PassGone, vars, sup, chan, tab
<1>2. Queued(s)' = Queued(s) BY <1>1, QueueKept DEF SourceInv
<1>3. LiveOf(s)' = LiveOf(s) /\ SnapshotOf(s)' = SnapshotOf(s) BY <1>1, TabUntouched
<1>4. PlanStep(s) BY <1>1 DEF PlanStep
<1> QED BY <1>1, <1>2, <1>3, <1>4, EatsBystander

\* Steps of the streamer of another source.
LEMMA OtherEats ==
  ASSUME TypeInv, TypeInv', WorldInv, QuietInv, [Next]_vars, NEW s \in Src, NEW t \in Src, t # s,
         Streamer(t) \/ Interrupt(t), SourceInv(s), EatsInv(s)
  PROVE  EatsInv(s)'
<1>1. /\ streamer'[s] = streamer[s] /\ resumes'[s] = resumes[s] /\ drained'[s] = drained[s]
      /\ UNCHANGED tab /\ (s \in DOMAIN plan' => s \in DOMAIN plan)
      /\ lines' = lines \/ (Scan(t) /\ lines' = Append(lines, [src |-> t, n |-> streamer[t].next]))
  <2>1. CASE Consider(t) BY <2>1 DEF Consider, chan, TypeInv, ServerTypes
  <2>2. CASE Open(t) BY <2>2 DEF Open, chan, TypeInv, ServerTypes
  <2>3. CASE Scan(t) BY <2>3 DEF Scan, TypeInv, ServerTypes
  <2>4. ASSUME NEW clean \in BOOLEAN, Ends(t, clean)
        PROVE  /\ lines' = lines /\ UNCHANGED tab /\ streamer'[s] = streamer[s]
               /\ resumes'[s] = resumes[s]
               /\ drained'[s] = drained[s] /\ (s \in DOMAIN plan' => s \in DOMAIN plan)
    BY <2>4 DEF Ends, chan, TypeInv, ServerTypes
  <2>5. Eof(t) \/ Interrupt(t) => Ends(t, TRUE) \/ Ends(t, FALSE) BY DEF Eof, Interrupt
  <2> QED BY <2>1, <2>2, <2>3, <2>4, <2>5 DEF Streamer
<1>2. Queued(s)' = Queued(s)
  <2>1. CASE lines' = lines BY <2>1, QueueKept DEF SourceInv
  <2>2. CASE Scan(t) /\ lines' = Append(lines, [src |-> t, n |-> streamer[t].next])
    <3>1. streamer[t].next \in Nat \ {0} BY <2>2, TypesOf DEF Scan, ReadingStream
    <3>2. PICK l \in Line : l = [src |-> t, n |-> streamer[t].next] BY <3>1 DEF Line
    <3>3. l.src # s /\ lines \in Seq(Line) BY <3>2, PlacesTyped
    <3>4. PlacesIn(Append(lines, l), s, log[s]) = PlacesIn(lines, s, log[s])
      BY <3>3, Appended
    <3>5. log' = log BY <2>2 DEF Scan, env
    <3> QED BY <2>2, <3>2, <3>4, <3>5 DEF Queued
  <2> QED BY <1>1, <2>1, <2>2
<1>3. LiveOf(s)' = LiveOf(s) /\ SnapshotOf(s)' = SnapshotOf(s) BY <1>1, TabUntouched DEF tab
<1>4. PlanStep(s) BY <1>1 DEF PlanStep
<1> QED BY <1>1, <1>2, <1>3, <1>4, EatsBystander DEF tab

-----------------------------------------------------------------------------
(* The streamer of the source itself.                                      *)

\* A step of it that puts no stamped line on the wire.
LEMMA EatsTurn ==
  ASSUME TypeInv, TypeInv', QuietInv, [Next]_vars, NEW s \in Src, EatsInv(s),
         UNCHANGED <<limit, env, view, tab>>, Queued(s)' = Queued(s), streamer[s] # Off \/ connected,
         streamer'[s].at = "reading" =>
           \/ streamer[s].at = "reading" /\ streamer'[s].instance = streamer[s].instance
           \/ streamer'[s].instance = Len(begins[s]),
         \A S \in SUBSET Marked(log[s]) : SentInv(s, S) => SentInv(s, S)'
  PROVE  EatsInv(s)'
<1>1. PICK W \in SUBSET Marked(log[s]) : \E g \in DOMAIN begins[s] :
        W \cap Queued(s) = {} /\ SentInv(s, W \cup Queued(s)) /\ TakenInv(s, W, g)
  BY DEF EatsInv
<1>2. PICK g \in DOMAIN begins[s] :
        W \cap Queued(s) = {} /\ SentInv(s, W \cup Queued(s)) /\ TakenInv(s, W, g)
  BY <1>1
<1>3. PICK Q, S : Q = Queued(s) /\ S = W \cup Q OBVIOUS
<1>4. S \in SUBSET Marked(log[s]) BY <1>3 DEF Queued, PlacesIn
<1>5. SentInv(s, S)' BY <1>2, <1>3, <1>4
<1>6. streamer'[s].at = "reading" => g <= streamer'[s].instance
  <2>1. connected BY DEF QuietInv
  <2>2. streamer[s].at = "reading" => g <= streamer[s].instance BY <1>2, <2>1 DEF TakenInv
  <2>3. begins[s] \in Seq(Nat \ {0}) BY DEF TypeInv, ClusterTypes
  <2>4. g <= Len(begins[s]) BY <2>3
  <2> QED BY <2>2, <2>4
<1>7. LiveOf(s)' = LiveOf(s) /\ SnapshotOf(s)' = SnapshotOf(s) BY TabUntouched DEF tab
<1>8. TakenInv(s, W, g)' /\ g \in DOMAIN begins'[s] BY <1>2, <1>6, <1>7, TakenKept DEF tab
<1>9. W \in SUBSET Marked(log'[s]) BY MarkedKept
<1>10. SentInv(s, W \cup Queued(s))' BY <1>3, <1>5
<1> QED BY <1>2, <1>8, <1>9, <1>10 DEF EatsInv

\* A target is only considered once, and skipped while it is streamed.
LEMMA ConsiderEats ==
  ASSUME TypeInv, TypeInv', WorldInv, QuietInv, [Next]_vars, NEW s \in Src, Consider(s),
         SourceInv(s), EatsInv(s)
  PROVE  EatsInv(s)'
<1>1. /\ UNCHANGED <<limit, env, view, lines, tab>> /\ resumes' = resumes /\ drained' = drained
      /\ s \in DOMAIN plan /\ DOMAIN plan' = DOMAIN plan \ {s}
  BY DEF Consider, chan
<1>2. Queued(s)' = Queued(s) BY <1>1, QueueKept DEF SourceInv
<1>3. CASE Skipped(s, plan[s])
  <2>1. streamer'[s] = streamer[s] BY <1>3 DEF Consider
  <2>2. PlanStep(s) BY <1>1 DEF PlanStep
  <2>3. LiveOf(s)' = LiveOf(s) /\ SnapshotOf(s)' = SnapshotOf(s) BY <1>1, TabUntouched DEF tab
  <2> QED BY <1>1, <1>2, <2>1, <2>2, <2>3, EatsBystander DEF tab
<1>4. CASE ~Skipped(s, plan[s])
  <2>1. streamer[s] = Off /\ ~drained[s].terminal BY <1>4 DEF Skipped
  <2>2. ~Retired(s) BY <1>1, <2>1 DEF Retired
  <2>3. streamer'[s] = [at |-> "opening", seen |-> plan[s]]
    BY <1>4 DEF Consider, TypeInv, ServerTypes
  <2>4. streamer'[s].at # "reading" BY <2>3
  <2>5. connected
    <3>1. plan # <<>> BY <1>1
    <3> QED BY <3>1 DEF QuietInv
  <2>6. ASSUME NEW S \in SUBSET Marked(log[s]), SentInv(s, S) PROVE SentInv(s, S)'
    BY <1>1, <2>2, <2>4, <2>6 DEF SentInv, env, view, Seen
  <2> QED BY <1>1, <1>2, <2>4, <2>5, <2>6, EatsTurn
<1> QED BY <1>3, <1>4

\* A tail that reaches back to the start of the instance meets the record.
LEMMA OpenEats ==
  ASSUME TypeInv, TypeInv', QuietInv, [Next]_vars, NEW s \in Src, Open(s), HistoryInv(s),
         limit.tail >= limit.lines, SourceInv(s), EatsInv(s)
  PROVE  EatsInv(s)'
<1>1. /\ UNCHANGED <<limit, env, view, lines, tab>> /\ resumes' = resumes /\ plan' = plan
      /\ streamer[s].at = "opening"
  BY DEF Open, chan
<1>2. streamer[s] # Off /\ streamer[s].at # "reading" /\ Off.at # "reading" BY <1>1 DEF Off
<1>3. streamer'[s] = IF HasLog(s) THEN Opened(s) ELSE Off
  BY DEF Open, TypeInv, ServerTypes
<1>4. Queued(s)' = Queued(s) BY <1>1, QueueKept DEF SourceInv
<1>5. /\ log[s] \in Seq(Entry) /\ Len(log[s]) \in Nat /\ begins[s] \in Seq(Nat \ {0})
      /\ begins[s] # <<>> /\ limit.lines \in Nat /\ limit.tail \in Nat
  BY LimitTyped DEF TypeInv, ClusterTypes
<1>6. Start(s) = Begin(s) /\ Begin(s) = begins[s][Len(begins[s])]
  <2>1. Begin(s) \in Nat \ {0} BY StartTyped DEF TypeInv
  <2>2. Len(log[s]) <= limit.lines BY DEF HistoryInv
  <2>3. ~(Len(log[s]) - limit.tail + 1 > Begin(s)) BY <1>5, <2>1, <2>2
  <2> QED BY <2>3 DEF Start, Begin
<1>7. ASSUME NEW S \in SUBSET Marked(log[s]), SentInv(s, S) PROVE SentInv(s, S)'
  <2>1. Dated(log[s], S, resumes[s]) /\ Counts(log[s], S, resumes[s])
    BY <1>2, <1>7 DEF SentInv, Retired
  <2>2. CASE HasLog(s)
    <3>1. /\ streamer'[s].at = "reading" /\ streamer'[s].next = begins[s][Len(begins[s])]
          /\ streamer'[s].resume = resumes[s] /\ streamer'[s].instance = Len(begins[s])
      BY <1>3, <1>6, <2>2 DEF Opened
    <3>2. Reads(log[s], begins[s], S, Len(begins[s]), begins[s][Len(begins[s])], resumes[s])
      BY <1>5, <2>1, ReadsOpen
    <3> QED BY <1>1, <1>7, <2>1, <3>1, <3>2 DEF SentInv, env, view, Seen
  <2>3. CASE ~HasLog(s)
    <3>1. streamer'[s].at # "reading" BY <1>2, <1>3, <2>3
    <3> QED BY <1>1, <1>7, <2>1, <3>1 DEF SentInv, env, view, Seen
  <2> QED BY <2>2, <2>3
<1>8. streamer'[s].at = "reading" => streamer'[s].instance = Len(begins[s])
  BY <1>2, <1>3 DEF Opened
<1> QED BY <1>1, <1>2, <1>4, <1>7, <1>8, EatsTurn

\* The end of a stream: only a container that will not run again is forgotten.
LEMMA EndsEats ==
  ASSUME TypeInv, TypeInv', QuietInv, [Next]_vars, NEW s \in Src, NEW clean \in BOOLEAN,
         streamer[s] # Off, Ends(s, clean), SourceInv(s), EatsInv(s)
  PROVE  EatsInv(s)'
<1>1. UNCHANGED <<limit, env, view, lines, tab>> BY DEF Ends, chan
<1>2. streamer'[s] = Off /\ streamer'[s].at # "reading"
  BY DEF Ends, TypeInv, ServerTypes, Off
<1>3. \/ resumes'[s] = resumes[s]
      \/ resumes'[s] = NoResume /\ drained'[s].terminal
  <2>1. CASE clean /\ streamer[s].seen.pod = "finished"
    <3>1. resumes'[s] = NoResume BY <2>1 DEF Ends, TypeInv, ServerTypes
    <3>2. drained'[s] = [NoMark EXCEPT !.terminal = TRUE]
      BY <2>1 DEF Ends, TypeInv, ServerTypes
    <3> QED BY <3>1, <3>2 DEF NoMark
  <2>2. CASE ~(clean /\ streamer[s].seen.pod = "finished")
    BY <2>2 DEF Ends, TypeInv, ServerTypes
  <2> QED BY <2>1, <2>2
<1>4. Queued(s)' = Queued(s) BY <1>1, QueueKept DEF SourceInv
<1>5. ASSUME NEW S \in SUBSET Marked(log[s]), SentInv(s, S) PROVE SentInv(s, S)'
  <2>1. Dated(log[s], S, resumes[s]) /\ Counts(log[s], S, resumes[s])
    BY <1>5 DEF SentInv, Retired
  <2>2. Retired(s)' \/ resumes'[s] = resumes[s] BY <1>2, <1>3 DEF Retired
  <2> QED BY <1>1, <1>2, <1>5, <2>1, <2>2 DEF SentInv, env, view, Seen
<1> QED BY <1>1, <1>2, <1>4, <1>5, EatsTurn

\* A read that has a line ahead knows all that the filter needs.
LEMMA TurningNow ==
  ASSUME TypeInv, NEW s \in Src, SourceInv(s), HistoryInv(s), streamer[s].at = "reading",
         streamer[s].next <= LastOf(s, streamer[s].instance),
         NEW S, S \subseteq Marked(log[s]), SentInv(s, S)
  PROVE  Turning(log[s], begins[s], S, streamer[s].instance, streamer[s].next, streamer[s].resume)
<1>1. PICK nx, C, g : nx = streamer[s].next /\ C = streamer[s].resume /\ g = streamer[s].instance
  OBVIOUS
<1>2. nx \in 1 .. Len(log[s]) /\ log[s] \in Seq(Entry) /\ begins[s] \in Seq(Nat \ {0}) /\ C \in Resume
  BY <1>1, NextInLog, TypesOf DEF TypeInv, ClusterTypes
<1>3. Reads(log[s], begins[s], S, g, nx, C) /\ Closed(log[s], begins[s], S)
  BY <1>1 DEF SentInv
<1>4. Ordered(log[s]) /\ Chapters(log[s], begins[s]) BY DEF SourceInv, HistoryInv
<1>5. Before(begins[s], g, nx)
  <2> SUFFICES ASSUME g < Len(begins[s]) PROVE nx < begins[s][g + 1] BY DEF Before
  <2>1. g \in DOMAIN begins[s] BY <1>3 DEF Reads
  <2>2. g + 1 \in DOMAIN begins[s] BY <1>2, <2>1
  <2>3. begins[s][g + 1] \in Nat BY <1>2, <2>2
  <2>4. nx <= begins[s][g + 1] - 1 BY <1>1 DEF LastOf
  <2> QED BY <1>2, <2>3, <2>4
<1>6. nx \in DOMAIN log[s] BY <1>2
<1>7. Turning(log[s], begins[s], S, g, nx, C) BY <1>2, <1>3, <1>4, <1>5, <1>6 DEF Turning
<1> QED BY <1>1, <1>7

\* A stamped line that the filter lets through was not sent before.
LEMMA SendEats ==
  ASSUME TypeInv, TypeInv', QuietInv, [Next]_vars, NEW s \in Src, SourceInv(s), HistoryInv(s),
         EatsInv(s), streamer[s].at = "reading",
         streamer[s].next <= LastOf(s, streamer[s].instance),
         NEW nx, nx = streamer[s].next, nx \in Marked(log[s]),
         ~Replayed(streamer[s].resume, log[s][nx]),
         UNCHANGED <<limit, env, view, plan, tab>>,
         lines' = Append(lines, [src |-> s, n |-> nx]),
         resumes'[s] = Recorded(resumes[s], log[s][nx]),
         streamer'[s].at = "reading", streamer'[s].next = nx + 1,
         streamer'[s].instance = streamer[s].instance, streamer'[s].resume = streamer[s].resume
  PROVE  EatsInv(s)'
<1>1. PICK W \in SUBSET Marked(log[s]) : \E g \in DOMAIN begins[s] :
        W \cap Queued(s) = {} /\ SentInv(s, W \cup Queued(s)) /\ TakenInv(s, W, g)
  BY DEF EatsInv
<1>2. PICK g \in DOMAIN begins[s] :
        W \cap Queued(s) = {} /\ SentInv(s, W \cup Queued(s)) /\ TakenInv(s, W, g)
  BY <1>1
<1>3. PICK Q, S, lg, bg, C, R, h :
        /\ Q = Queued(s) /\ S = W \cup Q /\ lg = log[s] /\ bg = begins[s]
        /\ C = streamer[s].resume /\ R = resumes[s] /\ h = streamer[s].instance
  OBVIOUS
<1>4. S \subseteq Marked(lg) /\ S \subseteq Marked(log[s]) BY <1>3 DEF Queued, PlacesIn
<1>5. /\ lg \in Seq(Entry) /\ R \in Resume /\ bg \in Seq(Nat \ {0}) /\ streamer[s] # Off
      /\ lines \in Seq(Line)
  <2>1. lg \in Seq(Entry) /\ R \in Resume BY <1>3, TypesOf
  <2>2. bg \in Seq(Nat \ {0}) BY <1>3 DEF TypeInv, ClusterTypes
  <2>3. streamer[s] # Off BY DEF Off
  <2> QED BY <2>1, <2>2, <2>3, PlacesTyped
<1>6. connected BY <1>5 DEF QuietInv
<1>7. SentInv(s, S) BY <1>2, <1>3
<1>8. Turning(lg, bg, S, h, nx, C) BY <1>3, <1>4, <1>7, TurningNow
<1>9. Dated(lg, S, R) /\ Counts(lg, S, R) BY <1>3, <1>5, <1>7 DEF SentInv, Retired
<1>10. /\ nx \notin S /\ Closed(lg, bg, S \cup {nx})
       /\ Dated(lg, S \cup {nx}, Recorded(R, lg[nx]))
       /\ Counts(lg, S \cup {nx}, Recorded(R, lg[nx]))
       /\ Reads(lg, bg, S \cup {nx}, h, nx + 1, C)
  <2>1. nx \in Marked(lg) /\ ~Replayed(C, lg[nx]) BY <1>3
  <2>2. R \in Resume BY <1>5
  <2> QED BY ONLY <1>8, <1>9, <2>1, <2>2, SendIsNew, SMTT(60)
<1>11. log' = log /\ begins' = begins /\ (Seen(s)' <=> Seen(s)) BY DEF env, view, Seen
<1>12. Queued(s)' = Q \cup {nx}
  <2>0. nx \in Nat \ {0}
    <3>1. nx \in DOMAIN lg BY <1>3 DEF Marked
    <3> QED BY <1>5, <3>1
  <2>1. PICK l \in Line : l = [src |-> s, n |-> nx] BY <2>0 DEF Line
  <2>2. l.src = s /\ l.n = nx BY <2>1
  <2>3. PlacesIn(Append(lines, l), s, lg) = PlacesIn(lines, s, lg) \cup {nx}
    BY <1>3, <1>5, <2>2, Appended
  <2> QED BY <1>3, <1>11, <2>1, <2>3 DEF Queued
<1>13. Seen(s) BY <1>5 DEF SourceInv, ServerInv
<1>14. PICK S2 : S2 = S \cup {nx} OBVIOUS
<1>15. SentInv(s, S2)' BY <1>3, <1>10, <1>11, <1>13, <1>14 DEF SentInv
<1>16. S2 = W \cup Queued(s)' /\ W \cap Queued(s)' = {} BY <1>2, <1>3, <1>10, <1>12, <1>14
<1>17. bg[g] <= nx
  <2>1. g <= h BY <1>2, <1>3, <1>6 DEF TakenInv
  <2>2. h \in DOMAIN bg /\ bg[h] <= nx BY <1>8 DEF Turning, Reads
  <2>3. bg[g] <= bg[h] BY <1>3, <2>1, <2>2 DEF HistoryInv, Chapters
  <2>4. bg[g] \in Nat /\ bg[h] \in Nat /\ nx \in Nat BY <1>3, <1>5, <2>2, MarkedNat
  <2> QED BY <2>2, <2>3, <2>4
<1>18. LiveOf(s)' = LiveOf(s) /\ SnapshotOf(s)' = SnapshotOf(s) BY TabUntouched DEF tab
<1>19. streamer'[s].at = "reading" => g <= streamer'[s].instance
  BY <1>2, <1>6 DEF TakenInv
<1>20. \A n \in Queued(s)' : n \in Queued(s) \/ begins[s][g] <= n BY <1>3, <1>12, <1>17
<1>21. TakenInv(s, W, g)' /\ g \in DOMAIN begins'[s]
  BY <1>2, <1>18, <1>19, <1>20, TakenKept DEF tab
<1>22. W \in SUBSET Marked(log'[s]) BY MarkedKept
<1>23. SentInv(s, W \cup Queued(s))' BY <1>15, <1>16
<1> QED BY <1>16, <1>21, <1>22, <1>23 DEF EatsInv

\* A turn of scanLogStream, dropped or sent.
LEMMA ScanEats ==
  ASSUME TypeInv, TypeInv', QuietInv, [Next]_vars, NEW s \in Src, Scan(s), SourceInv(s),
         HistoryInv(s), EatsInv(s)
  PROVE  EatsInv(s)'
<1>1. /\ UNCHANGED <<limit, env, view, plan, tab>>
      /\ streamer[s].at = "reading" /\ streamer[s].next <= LastOf(s, streamer[s].instance)
  BY DEF Scan
<1>2. PICK nx, C, line, h : /\ nx = streamer[s].next /\ C = streamer[s].resume
                            /\ line = log[s][nx] /\ h = streamer[s].instance
  OBVIOUS
<1>3. /\ streamer[s] \in ReadingStream /\ nx \in 1 .. Len(log[s]) /\ line \in Entry
      /\ log[s] \in Seq(Entry) /\ nx \in DOMAIN log[s]
  <2>1. streamer[s] \in ReadingStream /\ nx \in 1 .. Len(log[s]) /\ line \in Entry
    BY <1>1, <1>2, NextInLog
  <2> QED BY <2>1, TypesOf
<1>4. streamer \in [Src -> StreamerStates] /\ resumes \in [Src -> Resume] /\ lines \in Seq(Line)
  BY DEF TypeInv, ServerTypes
<1>5. streamer[s] # Off BY <1>1 DEF Off
<1>6. CASE Replayed(C, line)
  <2>1. /\ streamer' = [streamer EXCEPT ![s].next = nx + 1, ![s].resume = Matched(@, line)]
        /\ lines' = lines /\ resumes' = resumes
    BY <1>2, <1>6 DEF Scan
  <2>2. /\ streamer'[s].at = "reading" /\ streamer'[s].next = nx + 1
        /\ streamer'[s].resume = Matched(C, line) /\ streamer'[s].instance = h
    BY <1>1, <1>2, <1>3, <1>4, <2>1 DEF ReadingStream
  <2>3. Queued(s)' = Queued(s) BY <2>1, QueueKept DEF SourceInv
  <2>4. ASSUME NEW S \in SUBSET Marked(log[s]), SentInv(s, S) PROVE SentInv(s, S)'
    <3>1. Turning(log[s], begins[s], S, h, nx, C) BY <1>1, <1>2, <2>4, TurningNow
    <3>2. Reads(log[s], begins[s], S, h, nx + 1, Matched(C, line))
      BY <1>2, <1>6, <3>1, DropIsOld
    <3>3. Dated(log[s], S, resumes[s]) /\ Counts(log[s], S, resumes[s])
      BY <1>5, <2>4 DEF SentInv, Retired
    <3> QED BY <1>1, <2>1, <2>2, <2>4, <3>2, <3>3 DEF SentInv, env, view, Seen
  <2> QED BY <1>1, <1>2, <1>5, <2>2, <2>3, <2>4, EatsTurn
<1>7. CASE ~Replayed(C, line)
  <2>1. /\ streamer' = [streamer EXCEPT ![s].next = nx + 1]
        /\ lines' = Append(lines, [src |-> s, n |-> nx])
        /\ resumes' = [resumes EXCEPT ![s] = Recorded(@, line)]
    BY <1>2, <1>7 DEF Scan
  <2>2. /\ streamer'[s].at = "reading" /\ streamer'[s].next = nx + 1
        /\ streamer'[s].resume = C /\ streamer'[s].instance = h
        /\ resumes'[s] = Recorded(resumes[s], line)
    BY <1>1, <1>2, <1>3, <1>4, <2>1 DEF ReadingStream
  <2>3. CASE line.at # 0
    <3>1. nx \in Marked(log[s]) BY <1>2, <1>3, <2>3 DEF Marked
    <3> QED BY <1>1, <1>2, <1>7, <2>1, <2>2, <3>1, SendEats
  <2>4. CASE line.at = 0
    <3>1. resumes'[s] = resumes[s] BY <2>2, <2>4 DEF Recorded
    <3>2. nx \notin Marked(log[s]) BY <1>2, <2>4 DEF Marked
    <3>3. Queued(s)' = Queued(s)
      <4>0. nx \in Nat \ {0} BY <1>3
      <4>1. PICK l \in Line : l = [src |-> s, n |-> nx] BY <4>0 DEF Line
      <4>2. l.src = s /\ l.n = nx BY <4>1
      <4>3. PlacesIn(Append(lines, l), s, log[s]) = PlacesIn(lines, s, log[s])
        BY <1>4, <3>2, <4>2, Appended
      <4> QED BY <1>1, <2>1, <4>1, <4>3 DEF Queued, env
    <3>4. ASSUME NEW S \in SUBSET Marked(log[s]), SentInv(s, S) PROVE SentInv(s, S)'
      <4>1. Turning(log[s], begins[s], S, h, nx, C) BY <1>1, <1>2, <3>4, TurningNow
      <4>2. Reads(log[s], begins[s], S, h, nx + 1, C) BY <3>2, <4>1, PassesOver
      <4>3. Dated(log[s], S, resumes[s]) /\ Counts(log[s], S, resumes[s])
        BY <1>5, <3>4 DEF SentInv, Retired
      <4> QED BY <1>1, <2>2, <3>1, <3>4, <4>2, <4>3 DEF SentInv, env, view, Seen
    <3> QED BY <1>1, <1>2, <1>5, <2>2, <3>3, <3>4, EatsTurn
  <2> QED BY <2>3, <2>4
<1> QED BY <1>6, <1>7

-----------------------------------------------------------------------------
(* The tab takes a line.                                                   *)

\* A line whose predecessors in its instance are on screen is in turn.
LEMMA InTurnAppend ==
  ASSUME NEW sq \in Seq(Line), NEW l \in Line, NEW s, NEW lg, NEW bg, InTurn(s, lg, bg, sq),
         l.src = s /\ l.n \in Marked(lg) =>
           \A m \in Marked(lg) : m < l.n /\ Same(bg, m, l.n) => m \in PlacesIn(sq, s, lg)
  PROVE  InTurn(s, lg, bg, Append(sq, l))
<1>1. PICK all : all = Append(sq, l) OBVIOUS
<1>2. /\ DOMAIN sq = 1 .. Len(sq) /\ Len(sq) \in Nat /\ DOMAIN all = 1 .. Len(sq) + 1
      /\ all[Len(sq) + 1] = l /\ \A j \in 1 .. Len(sq) : all[j] = sq[j]
  BY <1>1, AppendFacts
<1> SUFFICES ASSUME NEW j \in DOMAIN all, all[j].src = s, all[j].n \in Marked(lg),
                    NEW m \in Marked(lg), m < all[j].n, Same(bg, m, all[j].n)
             PROVE  \E i \in 1 .. j - 1 : all[i].src = s /\ all[i].n = m
  BY <1>1 DEF InTurn
<1>3. CASE j \in 1 .. Len(sq)
  <2>1. all[j] = sq[j] BY <1>2, <1>3
  <2>2. PICK i \in 1 .. j - 1 : sq[i].src = s /\ sq[i].n = m BY <1>2, <1>3, <2>1 DEF InTurn
  <2>3. all[i] = sq[i] BY <1>2, <1>3
  <2> QED BY <2>2, <2>3
<1>4. CASE j = Len(sq) + 1
  <2>1. all[j] = l BY <1>2, <1>4
  <2>2. PICK i \in DOMAIN sq : sq[i].src = s /\ sq[i].n = m BY <2>1 DEF PlacesIn
  <2>3. all[i] = sq[i] /\ i \in 1 .. j - 1 BY <1>2, <1>4
  <2> QED BY <2>2, <2>3
<1>5. j \in 1 .. Len(sq) \/ j = Len(sq) + 1 BY <1>2
<1> QED BY <1>3, <1>4, <1>5

\* A line of another source, or one without a stamp, was taken.
LEMMA OtherPassEats ==
  ASSUME TypeInv, TypeInv', WorldInv, QuietInv, MemoryInv, [Next]_vars, PassLine, NEW s \in Src,
         ~(Head(lines).src = s /\ Head(lines).n \in Marked(log[s])), Roomy', forgot' = {},
         SourceInv(s), EatsInv(s)
  PROVE  EatsInv(s)'
<1>0. PICK l, line : l = Head(lines) /\ line = log[l.src][l.n] OBVIOUS
<1>1. /\ l \in Line /\ l.src \in Src /\ line \in Entry /\ lines # <<>> /\ connected /\ connected'
      /\ lines' = Tail(lines) /\ UNCHANGED <<limit, env, view, sup>> /\ OnLog(l)
  BY <1>0, HeadLine
<1>2. /\ streamer'[s] = streamer[s] /\ drained'[s] = drained[s] /\ resumes'[s] = resumes[s]
      /\ plan' = plan /\ log' = log /\ begins' = begins /\ PlanStep(s) /\ connected' = connected
  BY <1>1 DEF env, sup, PlanStep, TypeInv, TabTypes
<1>3. lines \in Seq(Line) /\ log[s] \in Seq(Entry) /\ shown \in Seq(Line) BY PlacesTyped, LogOf
<1>4. Queued(s)' = Queued(s)
  <2>1. PlacesIn(Tail(lines), s, log[s]) = PlacesIn(lines, s, log[s])
    BY <1>0, <1>1, <1>3, Taken DEF SourceInv
  <2> QED BY <1>1, <1>2, <2>1 DEF Queued
<1>5. l.src = s => line.at = 0
  <2> SUFFICES ASSUME l.src = s PROVE line.at = 0 OBVIOUS
  <2>1. l.n \in DOMAIN log[s]
    <3>1. Place(log, l) BY <1>0, <1>1, TailFacts DEF TypeInv, ServerTypes
    <3>2. l.n \in Nat \ {0} /\ l.n <= Len(log[s]) BY <1>1, <3>1 DEF Place, Line
    <3> QED BY <1>3, <3>2
  <2> QED BY <1>0, <2>1 DEF Marked
<1>6. CASE Replayed(SnapshotOf(l.src), line)
  <2>1. /\ UNCHANGED <<live, shown>>
        /\ delivered' = [delivered EXCEPT ![l.src] = Matched(@, line)]
    BY <1>0, <1>1, <1>6 DEF OnLog
  <2>2. s # l.src BY <1>5, <1>6 DEF Replayed
  <2>3. LiveOf(s)' = LiveOf(s) BY <2>1, LiveIsFound
  <2>4. SnapshotOf(s)' = SnapshotOf(s)
    <3>1. DOMAIN delivered' = DOMAIN delivered
          /\ (s \in DOMAIN delivered => delivered'[s] = delivered[s])
      BY <2>1, <2>2
    <3> QED BY <3>1 DEF SnapshotOf
  <2> QED BY <1>2, <1>4, <2>1, <2>3, <2>4, EatsBystander
<1>7. CASE ~Replayed(SnapshotOf(l.src), line)
  <2>1. /\ live' = Renewed(l.src, line) /\ shown' = Buffered(l) /\ delivered' = delivered
        /\ forgot' = forgot \cup (Sources(live) \ Sources(live'))
    BY <1>0, <1>1, <1>7 DEF OnLog
  <2>2. LiveOf(s)' = LiveOf(s)
    <3>1. CASE s # l.src BY <1>1, <2>1, <3>1, Remembered
    <3>2. CASE s = l.src
      <4>1. LiveOf(s)' = Recorded(LiveOf(s), line) BY <1>1, <2>1, <3>2, Remembered
      <4>2. line.at = 0 BY <1>5, <3>2
      <4> QED BY <4>1, <4>2 DEF Recorded
    <3> QED BY <3>1, <3>2
  <2>3. SnapshotOf(s)' = SnapshotOf(s) BY <2>1 DEF SnapshotOf
  <2>4. shown' = Append(shown, l)
    <3>1. Len(Buffered(l)) < limit.buffer BY <1>1, <2>1 DEF Roomy
    <3> QED BY <1>1, <2>1, <3>1, BufferRoom DEF MemoryInv
  <2>5. PICK W \in SUBSET Marked(log[s]) : \E g \in DOMAIN begins[s] :
          W \cap Queued(s) = {} /\ SentInv(s, W \cup Queued(s)) /\ TakenInv(s, W, g)
    BY DEF EatsInv
  <2>6. PICK g \in DOMAIN begins[s] :
          W \cap Queued(s) = {} /\ SentInv(s, W \cup Queued(s)) /\ TakenInv(s, W, g)
    BY <2>5
  <2>7. PICK Q, S : Q = Queued(s) /\ S = W \cup Q OBVIOUS
  <2>8. S \subseteq Marked(log[s]) BY <2>7 DEF Queued, PlacesIn
  <2>9. SentInv(s, S)' BY <1>2, <2>6, <2>7, <2>8, SentKept
  <2>10. ~(l.src = s /\ l.n \in Marked(log[s])) BY <1>0
  <2>11. OnShow(s)' = OnShow(s)
    <3>1. PlacesIn(Append(shown, l), s, log[s]) = PlacesIn(shown, s, log[s])
      BY <1>1, <1>3, <2>10, Appended
    <3> QED BY <1>2, <2>4, <3>1 DEF OnShow
  <2>12. InTurn(s, log[s], begins[s], shown')
    BY <1>1, <1>3, <2>4, <2>6, <2>10, InTurnAppend DEF TakenInv
  <2>13. TakenInv(s, W, g)' BY <1>1, <1>2, <1>4, <2>2, <2>3, <2>6, <2>11, <2>12 DEF TakenInv
  <2>14. SentInv(s, W \cup Queued(s))' BY <1>4, <2>7, <2>9
  <2> QED BY <1>2, <1>4, <2>6, <2>13, <2>14 DEF EatsInv
<1> QED BY <1>6, <1>7

\* A stamped line of s was taken: it was on screen, or it is the next in turn.
LEMMA OwnPassEats ==
  ASSUME TypeInv, TypeInv', WorldInv, QuietInv, MemoryInv, [Next]_vars, PassLine, NEW s \in Src,
         Head(lines).src = s, Head(lines).n \in Marked(log[s]), Roomy', forgot' = {},
         SourceInv(s), SourceInv(s)', HistoryInv(s), EatsInv(s)
  PROVE  EatsInv(s)'
<1>0. PICK l, n, lg, line, bg : /\ l = Head(lines) /\ n = l.n /\ lg = log[s] /\ line = lg[n]
                                /\ bg = begins[s]
  OBVIOUS
<1>1. /\ l \in Line /\ l.src = s /\ line \in Entry /\ lines # <<>> /\ connected /\ connected'
      /\ lines' = Tail(lines) /\ UNCHANGED <<limit, env, view, sup>> /\ OnLog(l)
      /\ n \in Marked(lg) /\ line = log[l.src][l.n]
  BY <1>0, HeadLine
<1>2. /\ streamer'[s] = streamer[s] /\ drained'[s] = drained[s] /\ resumes'[s] = resumes[s]
      /\ plan' = plan /\ log' = log /\ begins' = begins /\ PlanStep(s) /\ connected' = connected
  BY <1>1 DEF env, sup, PlanStep, TypeInv, TabTypes
<1>3. /\ lines \in Seq(Line) /\ shown \in Seq(Line) /\ lg \in Seq(Entry) /\ Ordered(lg)
      /\ bg \in Seq(Nat \ {0}) /\ Chapters(lg, bg)
  BY <1>0, PlacesTyped, LogOf DEF SourceInv, HistoryInv, TypeInv, ClusterTypes
<1>4. PICK W \in SUBSET Marked(log[s]) : \E g \in DOMAIN begins[s] :
        W \cap Queued(s) = {} /\ SentInv(s, W \cup Queued(s)) /\ TakenInv(s, W, g)
  BY DEF EatsInv
<1>5. PICK g \in DOMAIN begins[s] :
        W \cap Queued(s) = {} /\ SentInv(s, W \cup Queued(s)) /\ TakenInv(s, W, g)
  BY <1>4
<1>6. PICK Q, S, Acc, L, D : /\ Q = Queued(s) /\ S = W \cup Q /\ Acc = OnShow(s)
                             /\ L = LiveOf(s) /\ D = SnapshotOf(s)
  OBVIOUS
<1>7. L \in Resume /\ D \in Resume BY <1>6, TypesOf
<1>8. Queued(s)' = Q \ {n} /\ n \in Q /\ \A m \in Q : n <= m
  <2>1. /\ PlacesIn(Tail(lines), s, lg) = PlacesIn(lines, s, lg) \ {n}
        /\ n \in PlacesIn(lines, s, lg) /\ \A m \in PlacesIn(lines, s, lg) : n <= m
    BY <1>0, <1>1, <1>3, Taken DEF SourceInv
  <2> QED BY <1>0, <1>1, <1>2, <1>6, <2>1 DEF Queued
<1>9. /\ W \subseteq Acc /\ Owes(lg, bg, Acc, W, D, g) /\ \A m \in S : bg[g] <= m
      /\ Told(lg, Acc, L) /\ InTurn(s, lg, bg, shown) /\ W \cap Q = {}
      /\ streamer[s].at = "reading" => g <= streamer[s].instance
  BY <1>0, <1>1, <1>5, <1>6 DEF TakenInv
<1>10. S \subseteq Marked(log[s]) /\ Acc \subseteq Marked(lg) /\ Q \subseteq Marked(lg)
  BY <1>0, <1>6 DEF Queued, PlacesIn, OnShow
<1>11. SentInv(s, S)' BY <1>2, <1>5, <1>6, <1>10, SentKept
<1>12. Taking(lg, bg, Acc, W, Q, n)
  <2>1. Closed(lg, bg, W \cup Q) BY <1>0, <1>5, <1>6 DEF SentInv
  <2> QED BY <1>3, <1>8, <1>9, <1>10, <2>1 DEF Taking
<1>13. PICK W2 : W2 = W \cup {n} OBVIOUS
<1>14. /\ W2 \in SUBSET Marked(log'[s]) /\ W2 \cap Queued(s)' = {} /\ W2 \cup Queued(s)' = S
       /\ g \in DOMAIN bg /\ g \in DOMAIN begins'[s]
  BY <1>0, <1>1, <1>2, <1>6, <1>8, <1>9, <1>13
<1>15. SentInv(s, W2 \cup Queued(s))' BY <1>11, <1>14
<1>16. bg[g] <= n BY <1>6, <1>8, <1>9
<1>17. CASE Replayed(D, line)
  <2>1. UNCHANGED <<live, shown>> /\ delivered' = [delivered EXCEPT ![s] = Matched(@, line)]
    BY <1>1, <1>6, <1>17 DEF OnLog
  <2>2. LiveOf(s)' = L BY <1>6, <2>1, LiveIsFound
  <2>3. SnapshotOf(s)' = Matched(D, line)
    <3>1. s \in DOMAIN delivered
      <4> SUFFICES ASSUME s \notin DOMAIN delivered PROVE FALSE OBVIOUS
      <4>1. D.stamp = -1 BY <1>6 DEF SnapshotOf, NoResume
      <4>2. line.at \in Nat BY <1>1 DEF Entry
      <4> QED BY <4>1, <4>2, <1>17 DEF Replayed
    <3> QED BY <3>1, <2>1, <1>6 DEF SnapshotOf
  <2>4. ASSUME NEW j \in Acc, NEW m \in Marked(lg), m < j, Same(bg, m, j) PROVE m \in Acc
    <3>1. PICK i \in DOMAIN shown : shown[i].src = s /\ shown[i].n = j /\ j \in Marked(lg)
      BY <1>0, <1>6 DEF OnShow, PlacesIn
    <3>2. PICK k \in 1 .. i - 1 : shown[k].src = s /\ shown[k].n = m
      BY <1>9, <2>4, <3>1 DEF InTurn
    <3>3. k \in DOMAIN shown BY <1>3
    <3> QED BY <1>0, <1>6, <3>2, <3>3 DEF OnShow, PlacesIn
  <2>5. n \in Acc /\ Owes(lg, bg, Acc, W2, Matched(D, line), g)
    <3>1. Replayed(D, lg[n]) BY <1>0, <1>17
    <3>2. n \in Acc /\ Owes(lg, bg, Acc, W \cup {n}, Matched(D, lg[n]), g)
      BY <1>7, <1>9, <1>12, <1>14, <1>16, <2>4, <3>1, TakeDrops
    <3> QED BY <1>0, <1>13, <3>2
  <2>6. OnShow(s)' = Acc BY <1>2, <1>6, <2>1 DEF OnShow
  <2>7. W2 \subseteq Acc BY <1>9, <1>13, <2>5
  <2>8. TakenInv(s, W2, g)'
    BY <1>0, <1>1, <1>2, <1>9, <1>14, <2>1, <2>2, <2>3, <2>5, <2>6, <2>7 DEF TakenInv
  <2> QED BY <1>14, <1>15, <2>8 DEF EatsInv
<1>18. CASE ~Replayed(D, line)
  <2>1. live' = Renewed(s, line) /\ shown' = Buffered(l) /\ delivered' = delivered
    BY <1>1, <1>6, <1>18 DEF OnLog
  <2>2. LiveOf(s)' = Recorded(L, line) BY <1>1, <1>6, <2>1, Remembered
  <2>3. SnapshotOf(s)' = D BY <1>6, <2>1 DEF SnapshotOf
  <2>4. shown' = Append(shown, l)
    <3>1. Len(Buffered(l)) < limit.buffer BY <1>1, <2>1 DEF Roomy
    <3> QED BY <1>1, <2>1, <3>1, BufferRoom DEF MemoryInv
  <2>5. n \notin Acc
    <3> SUFFICES ASSUME n \in Acc PROVE FALSE OBVIOUS
    <3>1. PICK i \in DOMAIN shown : shown[i].src = s /\ shown[i].n = n
      BY <1>0, <1>6 DEF OnShow, PlacesIn
    <3>2. /\ i \in 1 .. Len(shown) /\ Len(shown) \in Nat /\ DOMAIN shown' = 1 .. Len(shown) + 1
          /\ shown'[i] = shown[i] /\ shown'[Len(shown) + 1] = l
      BY <1>1, <1>3, <2>4, AppendFacts
    <3>3. InOrder(shown', s, lg) BY <1>0, <1>2 DEF SourceInv, TabInv, OnScreen
    <3>4. i < Len(shown) + 1 /\ i \in DOMAIN shown' /\ Len(shown) + 1 \in DOMAIN shown' BY <3>2
    <3>5. n < n BY <1>0, <1>1, <3>1, <3>2, <3>3, <3>4 DEF InOrder
    <3>6. n \in Nat BY <1>1, <1>3, MarkedNat
    <3> QED BY <3>5, <3>6
  <2>6. PICK B : B = Acc \cup {n} OBVIOUS
  <2>7. Told(lg, B, Recorded(L, line)) /\ Owes(lg, bg, B, W2, D, g)
    <3>1. /\ Told(lg, Acc \cup {n}, Recorded(L, lg[n]))
          /\ Owes(lg, bg, Acc \cup {n}, W \cup {n}, D, g)
      BY <1>7, <1>9, <1>12, <1>14, <2>5, TakeAccepts
    <3> QED BY <1>0, <1>13, <2>6, <3>1
  <2>8. OnShow(s)' = B
    <3>1. PlacesIn(Append(shown, l), s, lg) = PlacesIn(shown, s, lg) \cup {n}
      BY <1>0, <1>1, <1>3, Appended
    <3> QED BY <1>0, <1>2, <1>6, <2>4, <2>6, <3>1 DEF OnShow
  <2>9. InTurn(s, lg, bg, shown')
    <3>1. ASSUME NEW m \in Marked(lg), m < l.n, Same(bg, m, l.n) PROVE m \in PlacesIn(shown, s, lg)
      <4>1. m \in W BY <1>0, <1>12, <3>1, TakingFacts
      <4> QED BY <1>0, <1>6, <1>9, <4>1 DEF OnShow
    <3> QED BY <1>1, <1>3, <1>9, <2>4, <3>1, InTurnAppend
  <2>10. W2 \subseteq B BY <1>9, <1>13, <2>6
  <2>11. TakenInv(s, W2, g)'
    BY <1>0, <1>1, <1>2, <1>9, <1>14, <2>2, <2>3, <2>7, <2>8, <2>9, <2>10 DEF TakenInv
  <2> QED BY <1>14, <1>15, <2>11 DEF EatsInv
<1> QED BY <1>17, <1>18

-----------------------------------------------------------------------------
(* Connections, and every step.                                            *)

\* A reconnect snapshots the record: no more is owed than is on screen.
LEMMA ConnectEats ==
  ASSUME TypeInv, TypeInv', WorldInv, QuietInv, MemoryInv, [Next]_vars, Connect, NEW s \in Src,
         SourceInv(s), EatsInv(s)
  PROVE  EatsInv(s)'
<1>1. /\ UNCHANGED <<limit, env, view, sup, lines, live, shown>> /\ ~connected /\ connected'
      /\ delivered' = [t \in Sources(live) |-> LiveOf(t)]
  BY DEF Connect, chan
<1>2. /\ log' = log /\ begins' = begins /\ streamer'[s] = streamer[s] /\ drained'[s] = drained[s]
      /\ resumes'[s] = resumes[s] /\ plan' = plan /\ PlanStep(s) /\ lines' = <<>>
      /\ streamer'[s] = Off /\ lines = <<>>
  BY <1>1 DEF env, sup, QuietInv, PlanStep
<1>3. Queued(s) = {} /\ Queued(s)' = {} BY <1>2 DEF Queued, PlacesIn
<1>4. PICK lg, bg, L, Acc : lg = log[s] /\ bg = begins[s] /\ L = LiveOf(s) /\ Acc = OnShow(s)
  OBVIOUS
<1>5. LiveOf(s)' = L /\ SnapshotOf(s)' = L
  <2>1. LiveOf(s)' = LiveOf(s) BY <1>1, LiveIsFound
  <2>2. DOMAIN delivered' = Sources(live) BY <1>1
  <2>3. ASSUME s \in Sources(live) PROVE SnapshotOf(s)' = LiveOf(s)
    <3>1. delivered'[s] = LiveOf(s) BY <1>1, <2>3
    <3> QED BY <2>2, <2>3, <3>1 DEF SnapshotOf
  <2>4. ASSUME s \notin Sources(live) PROVE SnapshotOf(s)' = LiveOf(s)
    <3>1. SnapshotOf(s)' = NoResume' BY <2>2, <2>4 DEF SnapshotOf
    <3>2. NoResume' = NoResume BY DEF NoResume, NoCount
    <3>3. Known(s) = {} BY <2>4 DEF Sources, Known
    <3>4. LiveOf(s) = NoResume BY <3>3 DEF LiveOf
    <3> QED BY <3>1, <3>2, <3>4
  <2> QED BY <1>4, <2>1, <2>3, <2>4
<1>6. PICK W \in SUBSET Marked(log[s]) : \E g \in DOMAIN begins[s] :
        W \cap Queued(s) = {} /\ SentInv(s, W \cup Queued(s)) /\ TakenInv(s, W, g)
  BY DEF EatsInv
<1>7. PICK g \in DOMAIN begins[s] :
        W \cap Queued(s) = {} /\ SentInv(s, W \cup Queued(s)) /\ TakenInv(s, W, g)
  BY <1>6
<1>8. W = {} /\ W \cup Queued(s) = {} BY <1>1, <1>3, <1>7 DEF TakenInv
<1>9. PICK S : S = {} OBVIOUS
<1>10. SentInv(s, S)
  <2>1. W \cup Queued(s) = S BY <1>8, <1>9
  <2> QED BY <1>7, <2>1
<1>11. SentInv(s, S)' BY <1>2, <1>9, <1>10, SentKept
<1>12. bg \in Seq(Nat \ {0}) /\ bg # <<>> BY <1>4 DEF TypeInv, ClusterTypes
<1>13. PICK h : h = Len(bg) OBVIOUS
<1>14. h \in DOMAIN bg BY <1>12, <1>13
<1>15. Told(lg, Acc, L) /\ InTurn(s, lg, bg, shown) BY <1>4, <1>7 DEF TakenInv
<1>16. Owes(lg, bg, Acc, S, L, h)
  <2>1. \A d : Before(bg, h, d) BY <1>12, <1>13 DEF Before
  <2>2. Acc \ S = Acc BY <1>9
  <2> QED BY <1>15, <2>1, <2>2 DEF Told, Dated, Owes
<1>17. Off.at # "reading" BY DEF Off
<1>18. OnShow(s)' = Acc BY <1>1, <1>2, <1>4 DEF OnShow
<1>19. TakenInv(s, S, h)'
  BY <1>1, <1>2, <1>3, <1>4, <1>5, <1>9, <1>15, <1>16, <1>17, <1>18 DEF TakenInv
<1>20. S \cap Queued(s)' = {} /\ S \in SUBSET Marked(log'[s]) /\ h \in DOMAIN begins'[s]
       /\ S \cup Queued(s)' = S
  BY <1>2, <1>3, <1>4, <1>9, <1>14
<1>21. SentInv(s, S \cup Queued(s))' BY <1>11, <1>20
<1> QED BY <1>19, <1>20, <1>21 DEF EatsInv

\* A broken connection forgets the server's side and keeps the tab's.
LEMMA BreakEats ==
  ASSUME TypeInv, TypeInv', [Next]_vars, Break, NEW s \in Src, EatsInv(s)
  PROVE  EatsInv(s)'
<1>1. /\ UNCHANGED <<limit, env, view, live, shown>> /\ ~connected'
      /\ lines' = <<>> /\ streamer'[s] = Off /\ resumes'[s] = NoResume
  BY DEF Break, Fresh
<1>2. log' = log /\ begins' = begins /\ Queued(s)' = {} /\ LiveOf(s)' = LiveOf(s)
      /\ OnShow(s)' = OnShow(s)
  BY <1>1, LiveIsFound DEF env, Queued, PlacesIn, OnShow
<1>3. PICK W \in SUBSET Marked(log[s]) : \E g \in DOMAIN begins[s] :
        W \cap Queued(s) = {} /\ SentInv(s, W \cup Queued(s)) /\ TakenInv(s, W, g)
  BY DEF EatsInv
<1>4. PICK g \in DOMAIN begins[s] : TakenInv(s, W, g) BY <1>3
<1>5. PICK S : S = {} OBVIOUS
<1>6. log[s] \in Seq(Entry) /\ Off.at # "reading" BY LogOf DEF Off
<1>7. SentInv(s, S)'
  <2>1. Dated(log[s], {}, NoResume) /\ Counts(log[s], {}, NoResume) BY <1>6, NothingCounts
  <2>2. Closed(log[s], begins[s], {}) BY DEF Closed
  <2> QED BY <1>1, <1>2, <1>5, <1>6, <2>1, <2>2 DEF SentInv
<1>8. TakenInv(s, S, g)' BY <1>1, <1>2, <1>4, <1>5 DEF TakenInv
<1>9. S \cap Queued(s)' = {} /\ S \in SUBSET Marked(log'[s]) /\ g \in DOMAIN begins'[s]
      /\ S \cup Queued(s)' = S
  BY <1>2, <1>5
<1>10. SentInv(s, S \cup Queued(s))' BY <1>7, <1>9
<1> QED BY <1>8, <1>9, <1>10 DEF EatsInv

\* Every step keeps what the filters let through, while there is room.
LEMMA EatsKept ==
  ASSUME TypeInv, TypeInv', MemoryInv, FollowInv, FollowInv', [Next]_vars, SkipInv, Roomy',
         NEW s \in Src
  PROVE  EatsInv(s)'
<1>0. /\ WorldInv /\ QuietInv /\ SourceInv(s) /\ SourceInv(s)' /\ HistoryInv(s) /\ RoomInv
  BY DEF FollowInv, SkipInv
<1>1. Roomy /\ forgot' = {} BY <1>0, RoomKept
<1>2. EatsInv(s) /\ limit.tail >= limit.lines BY <1>1 DEF SkipInv, Roomy
<1>3. Cluster \/ Sync \/ PassGone \/ UNCHANGED vars => EatsInv(s)' BY <1>0, <1>2, ElseEats
<1>4. Resolve => EatsInv(s)' BY <1>0, <1>2, ResolveEats
<1>5. ASSUME NEW t \in Src, Streamer(t) \/ Interrupt(t) PROVE EatsInv(s)'
  <2>1. CASE t # s BY <1>0, <1>2, <1>5, <2>1, OtherEats
  <2>2. CASE t = s
    <3>1. Consider(s) => EatsInv(s)' BY <1>0, <1>2, ConsiderEats
    <3>2. Open(s) => EatsInv(s)' BY <1>0, <1>2, OpenEats
    <3>3. Scan(s) => EatsInv(s)' BY <1>0, <1>2, ScanEats
    <3>4. Eof(s) => EatsInv(s)'
      <4>1. Off.at # "reading" BY DEF Off
      <4>2. Eof(s) => streamer[s] # Off /\ Ends(s, TRUE) BY <4>1 DEF Eof
      <4> QED BY <4>2, <1>0, <1>2, EndsEats
    <3>5. Interrupt(s) => EatsInv(s)'
      <4>1. Interrupt(s) => streamer[s] # Off /\ (Ends(s, TRUE) \/ Ends(s, FALSE)) BY DEF Interrupt
      <4> QED BY <4>1, <1>0, <1>2, EndsEats
    <3> QED BY <1>5, <2>2, <3>1, <3>2, <3>3, <3>4, <3>5 DEF Streamer
  <2> QED BY <2>1, <2>2
<1>6. PassLine => EatsInv(s)' BY <1>0, <1>1, <1>2, OwnPassEats, OtherPassEats
<1>7. Connect => EatsInv(s)' BY <1>0, <1>2, ConnectEats
<1>8. Break => EatsInv(s)' BY <1>2, BreakEats
<1> QED BY <1>3, <1>4, <1>5, <1>6, <1>7, <1>8 DEF Next

\* Nothing was sent and nothing eaten at first.
LEMMA SkipInit == ASSUME Init, TypeInv PROVE SkipInv
<1>1. forgot = {} /\ Len(live) <= Len(shown) BY DEF Init
<1>2. ASSUME NEW s \in Src PROVE HistoryInv(s) /\ EatsInv(s)
  <2>1. /\ log[s] = <<>> /\ begins[s] = <<1>> /\ lines = <<>> /\ shown = <<>> /\ live = <<>>
        /\ ~connected /\ streamer[s] = Off /\ resumes[s] = NoResume
    BY DEF Init
  <2>2. /\ Marked(log[s]) = {} /\ Queued(s) = {} /\ OnShow(s) = {} /\ LiveOf(s) = NoResume
        /\ DOMAIN begins[s] = {1} /\ begins[s][1] = 1 /\ DOMAIN shown = {} /\ Len(log[s]) = 0
    BY <2>1 DEF Marked, Queued, PlacesIn, OnShow, LiveOf, Known
  <2>3. log[s] \in Seq(Entry) /\ limit.lines \in Nat /\ Off.at # "reading"
    BY LogOf, LimitTyped DEF Off, TypeInv, ClusterTypes
  <2>4. HistoryInv(s) BY <2>2, <2>3 DEF HistoryInv, Chapters
  <2>5. Dated(log[s], {}, NoResume) /\ Counts(log[s], {}, NoResume) BY <2>3, NothingCounts
  <2>6. SentInv(s, {})
    <3>1. Closed(log[s], begins[s], {}) BY DEF Closed
    <3> QED BY <2>1, <2>3, <2>5, <3>1 DEF SentInv
  <2>7. Told(log[s], {}, NoResume)
    <3>1. \A t \in Texts : NoResume.lines[t] = Tally(log[s], {}, NoResume.stamp, t)
      BY <2>5 DEF Counts
    <3>2. \A t \in Texts : NoResume.lines[t] = 0 BY DEF NoResume, NoCount
    <3>3. \A t \in Texts : NoResume.lines[t] <= Tally(log[s], {}, NoResume.stamp, t)
      BY <3>1, <3>2
    <3> QED BY <2>5, <3>3 DEF Told
  <2>8. InTurn(s, log[s], begins[s], shown) BY <2>2 DEF InTurn
  <2>9. TakenInv(s, {}, 1) BY <2>1, <2>2, <2>7, <2>8 DEF TakenInv
  <2>10. {} \cup Queued(s) = {} /\ {} \cap Queued(s) = {} /\ {} \in SUBSET Marked(log[s])
         /\ 1 \in DOMAIN begins[s]
    BY <2>2
  <2>11. SentInv(s, {} \cup Queued(s)) BY <2>6, <2>10
  <2>12. EatsInv(s) BY <2>9, <2>10, <2>11 DEF EatsInv
  <2> QED BY <2>4, <2>12
<1> QED BY <1>1, <1>2 DEF SkipInv, RoomInv

\* SkipInv is an invariant of the stream, with those it rests on.
LEMMA SkipInvariant == Spec => [](TypeInv /\ MemoryInv /\ FollowInv /\ SkipInv)
<1>1. Init /\ TypeInv => SkipInv BY SkipInit
<1>2. TypeInv /\ MemoryInv /\ FollowInv /\ SkipInv /\ [Next]_vars /\ TypeInv' /\ FollowInv'
        => SkipInv'
  <2> SUFFICES ASSUME TypeInv, MemoryInv, FollowInv, SkipInv, [Next]_vars, TypeInv', FollowInv'
               PROVE  SkipInv'
    OBVIOUS
  <2>1. \A s \in Src : HistoryInv(s)' BY HistoryKept DEF SkipInv, FollowInv, SourceInv
  <2>2. \A s \in Src : Roomy' => EatsInv(s)' BY EatsKept
  <2>3. RoomInv' BY RoomKept DEF SkipInv, RoomInv
  <2> QED BY <2>1, <2>2, <2>3 DEF SkipInv
<1> QED BY <1>1, <1>2, MemoryInvariant, FollowInvariant, PTL DEF Spec

-----------------------------------------------------------------------------
(* NothingSkipped.                                                         *)

\* Lines of one instance, counted by the beginnings that precede them.
LEMMA InstanceSame ==
  ASSUME NEW s \in Src, begins[s] \in Seq(Nat \ {0}), NEW m \in Nat, NEW n \in Nat, m < n,
         Instance(s, m) = Instance(s, n)
  PROVE  Same(begins[s], m, n)
<1> DEFINE Upto(k) == {g \in DOMAIN begins[s] : begins[s][g] <= k}
<1>1. \A g \in DOMAIN begins[s] : begins[s][g] \in Nat
  OBVIOUS
<1>2. Upto(m) \subseteq Upto(n) BY <1>1
<1>3. IsFiniteSet(Upto(n))
  <2>1. Upto(n) \subseteq 1 .. Len(begins[s]) OBVIOUS
  <2>2. IsFiniteSet(1 .. Len(begins[s]))
    <3>1. 1 \in Int /\ Len(begins[s]) \in Int OBVIOUS
    <3> QED BY <3>1, FS_Interval
  <2> QED BY <2>1, <2>2, FS_Subset
<1>4. Cardinality(Upto(m)) = Cardinality(Upto(n)) BY DEF Instance
<1> HIDE DEF Upto
<1>5. Upto(m) = Upto(n) BY <1>2, <1>3, <1>4, FS_Subset
<1> QED BY <1>5 DEF Same, Upto

(* The two filters, of the server and of the tab, never eat a line that    *)
(* was not shown: while a tail reaches back to the start of an instance    *)
(* and the screen is not full, whatever precedes a line in its instance    *)
(* was shown before it, whichever streams broke, connections were lost and *)
(* records were handed over between (logstream.go:412, logResume.ts:29).   *)
THEOREM NoLineSkipped == Spec => []NothingSkipped
<1>1. TypeInv /\ MemoryInv /\ SkipInv => NothingSkipped
  <2> SUFFICES ASSUME TypeInv, MemoryInv, SkipInv, limit.tail >= limit.lines,
                      NEW j \in DOMAIN shown, NEW m \in 1 .. shown[j].n - 1,
                      Stamped([shown[j] EXCEPT !.n = m]), Stamped(shown[j]),
                      Instance([shown[j] EXCEPT !.n = m].src, m)
                        = Instance([shown[j] EXCEPT !.n = m].src, shown[j].n),
                      Len(shown) # limit.buffer
               PROVE  \E i \in 1 .. j - 1 : shown[i] = [shown[j] EXCEPT !.n = m]
    BY DEF NothingSkipped
  <2>1. PICK s : s = shown[j].src OBVIOUS
  <2>2. Place(log, shown[j]) /\ shown \in Seq(Line) BY DEF TypeInv, TabTypes
  <2>3. shown[j] \in Line /\ s \in Src
    <3>1. shown[j] \in Line BY <2>2
    <3> QED BY <2>1, <3>1 DEF Line
  <2>4. log[s] \in Seq(Entry) /\ begins[s] \in Seq(Nat \ {0}) BY <2>3 DEF TypeInv, ClusterTypes
  <2>5. shown[j].n \in Nat /\ m \in Nat /\ 1 <= m /\ m < shown[j].n /\ shown[j].n <= Len(log[s])
    BY <2>1, <2>2, <2>3 DEF Place, Line
  <2>6. [shown[j] EXCEPT !.n = m] = [src |-> s, n |-> m]
    BY <2>1, <2>3 DEF Line
  <2>7. shown[j].n \in Marked(log[s]) /\ m \in Marked(log[s])
    <3>1. shown[j].n \in DOMAIN log[s] /\ m \in DOMAIN log[s] BY <2>4, <2>5
    <3>2. log[s][shown[j].n].at # 0 /\ log[s][m].at # 0 BY <2>1, <2>6 DEF Stamped
    <3> QED BY <3>1, <3>2 DEF Marked
  <2>8. Same(begins[s], m, shown[j].n)
    <3>1. Instance(s, m) = Instance(s, shown[j].n) BY <2>6
    <3> QED BY <2>3, <2>4, <2>5, <3>1, InstanceSame
  <2>9. Roomy
    <3>1. limit.buffer \in Nat BY LimitTyped DEF TypeInv, ClusterTypes
    <3> QED BY <2>2, <3>1 DEF Roomy, MemoryInv
  <2>10. InTurn(s, log[s], begins[s], shown) BY <2>3, <2>9 DEF SkipInv, EatsInv, TakenInv
  <2>11. PICK i \in 1 .. j - 1 : shown[i].src = s /\ shown[i].n = m
    BY <2>1, <2>5, <2>7, <2>8, <2>10 DEF InTurn
  <2>12. shown[i] \in Line BY <2>2, <2>3
  <2>13. shown[i] = [src |-> s, n |-> m] BY <2>11, <2>12 DEF Line
  <2> QED BY <2>6, <2>13
<1> QED BY <1>1, SkipInvariant, PTL
=============================================================================
