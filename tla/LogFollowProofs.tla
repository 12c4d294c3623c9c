-------------------------- MODULE LogFollowProofs --------------------------
(***************************************************************************)
(* Theorems about the follow stream of a resource's logs (LogFollow).      *)
(***************************************************************************)
EXTENDS LogFollow, FiniteSetTheorems, SequenceTheorems, TLAPS

-----------------------------------------------------------------------------
(* The operators on records and sequences.                                 *)

Entry == [at : Nat, text : Texts]

\* The empty record and the empty mark have their types.
LEMMA NoResumeTyped == NoResume \in Resume /\ NoMark \in Mark
BY DEF NoResume, Resume, NoCount, NoMark, Mark

\* Recording a line keeps a record well-typed.
LEMMA RecordedTyped ==
  ASSUME NEW R \in Resume, NEW line \in Entry
  PROVE  Recorded(R, line) \in Resume
<1>1. [NoCount EXCEPT ![line.text] = 1] \in [Texts -> Nat] BY DEF NoCount
<1>2. line.at \in Nat /\ line.text \in Texts /\ R.lines \in [Texts -> Nat]
      /\ R.stamp \in Nat \cup {-1}
  BY DEF Entry, Resume
<1>3. R = [stamp |-> R.stamp, lines |-> R.lines] BY DEF Resume
<1>4. [R EXCEPT !.lines[line.text] = @ + 1] =
        [stamp |-> R.stamp, lines |-> [R.lines EXCEPT ![line.text] = @ + 1]]
  BY <1>3
<1>5. [R.lines EXCEPT ![line.text] = @ + 1] \in [Texts -> Nat] BY <1>2
<1> QED BY <1>1, <1>2, <1>4, <1>5 DEF Recorded, Resume

\* A count is only taken off where a replay matched it, so it stays natural.
LEMMA MatchedTyped ==
  ASSUME NEW R \in Resume, NEW line \in Entry, Replayed(R, line)
  PROVE  Matched(R, line) \in Resume
<1>2. line.at \in Nat /\ line.text \in Texts /\ R.lines \in [Texts -> Nat]
      /\ R.stamp \in Nat \cup {-1}
  BY DEF Entry, Resume
<1>3. R = [stamp |-> R.stamp, lines |-> R.lines] BY DEF Resume
<1>4. [R EXCEPT !.lines[line.text] = @ - 1] =
        [stamp |-> R.stamp, lines |-> [R.lines EXCEPT ![line.text] = @ - 1]]
  BY <1>3
<1>5. CASE line.at = R.stamp
  <2>1. R.lines[line.text] > 0 BY <1>5, <1>2 DEF Replayed
  <2>2. [R.lines EXCEPT ![line.text] = @ - 1] \in [Texts -> Nat] BY <1>2, <2>1
  <2> QED BY <1>4, <1>5, <1>2, <2>2 DEF Matched, Resume
<1> QED BY <1>5 DEF Matched

\* What is left of a sequence without its i-th element.
LEMMA RemoveAtFacts ==
  ASSUME NEW S, NEW q \in Seq(S), NEW i \in 1 .. Len(q)
  PROVE  /\ RemoveAt(q, i) \in Seq(S)
         /\ Len(RemoveAt(q, i)) = Len(q) - 1
         /\ \A j \in 1 .. Len(q) - 1 : RemoveAt(q, i)[j] = IF j < i THEN q[j] ELSE q[j + 1]
<1> DEFINE u == SubSeq(q, 1, i - 1)
           v == SubSeq(q, i + 1, Len(q))
<1>1. u \in Seq(S) /\ Len(u) = i - 1 /\ \A j \in 1 .. i - 1 : u[j] = q[j] OBVIOUS
<1>2. v \in Seq(S) /\ Len(v) = Len(q) - i /\ \A j \in 1 .. Len(q) - i : v[j] = q[i + j]
  OBVIOUS
<1>3. RemoveAt(q, i) = u \o v BY DEF RemoveAt
<1> HIDE DEF u, v
<1>4. u \o v \in Seq(S) /\ Len(u \o v) = Len(u) + Len(v)
  BY <1>1, <1>2, ConcatProperties
<1>5. ASSUME NEW j \in 1 .. Len(q) - 1
      PROVE  (u \o v)[j] = IF j < i THEN q[j] ELSE q[j + 1]
  <2>1. CASE j < i
    <3>1. (u \o v)[j] = u[j] BY <1>1, <1>2, <2>1
    <3> QED BY <3>1, <1>1, <2>1
  <2>2. CASE ~(j < i)
    <3>1. (u \o v)[j] = v[j - (i - 1)] BY <1>1, <1>2, <2>2
    <3>2. j - (i - 1) \in 1 .. Len(q) - i BY <2>2
    <3>3. v[j - (i - 1)] = q[i + (j - (i - 1))] BY <1>2, <3>2
    <3> QED BY <3>1, <3>3, <2>2
  <2> QED BY <2>1, <2>2
<1> QED BY <1>1, <1>2, <1>3, <1>4, <1>5

\* What is left of a sequence without its first element.
LEMMA TailFacts ==
  ASSUME NEW S, NEW q \in Seq(S), q # <<>>
  PROVE  /\ Tail(q) \in Seq(S) /\ Len(Tail(q)) = Len(q) - 1 /\ Head(q) = q[1]
         /\ \A j \in 1 .. Len(q) - 1 : Tail(q)[j] = q[j + 1]
OBVIOUS

\* A sequence with one element more.
LEMMA AppendFacts ==
  ASSUME NEW S, NEW q \in Seq(S), NEW e \in S
  PROVE  /\ Append(q, e) \in Seq(S) /\ Len(Append(q, e)) = Len(q) + 1
         /\ \A j \in 1 .. Len(q) : Append(q, e)[j] = q[j]
         /\ Append(q, e)[Len(q) + 1] = e
OBVIOUS

-----------------------------------------------------------------------------
(* Types.                                                                  *)

ReadingStream == [at : {"reading"}, seen : View, instance : Nat \ {0}, next : Nat \ {0},
             resume : Resume]
StreamerStates == {Off} \cup [at : {"opening"}, seen : View] \cup ReadingStream
Place(lg, l) == l \in Line /\ l.n <= Len(lg[l.src])
Record   == [src : Src, resume : Resume]

ClusterTypes ==
  /\ limit \in Limits
  /\ log \in [Src -> Seq(Entry)]
  /\ begins \in [Src -> Seq(Nat \ {0})]
  /\ \A s \in Src : begins[s] # <<>> /\ \A g \in DOMAIN begins[s] : begins[s][g] <= Len(log[s]) + 1
  /\ pod \in [Src -> PodStates] /\ owner \in [Src -> Nat] /\ root \in Nat /\ faults \in Nat
  /\ viewPod \in [Src -> View] /\ viewRoot \in Nat

ServerTypes ==
  /\ DOMAIN plan \subseteq Src /\ \A s \in DOMAIN plan : plan[s] \in View
  /\ drained \in [Src -> Mark] /\ resumes \in [Src -> Resume]
  /\ streamer \in [Src -> StreamerStates]
  /\ lines \in Seq(Line) /\ Len(lines) <= ChanCap
  /\ \A i \in DOMAIN lines : Place(log, lines[i])
  /\ wasGone \in BOOLEAN /\ goneCh \in BOOLEAN

TabTypes ==
  /\ connected \in BOOLEAN /\ gone \in BOOLEAN /\ error \in BOOLEAN
  /\ live \in Seq(Record)
  /\ DOMAIN delivered \subseteq Src /\ \A s \in DOMAIN delivered : delivered[s] \in Resume
  /\ shown \in Seq(Line) /\ \A i \in DOMAIN shown : Place(log, shown[i])
  /\ got \in [Src -> Nat] /\ forgot \subseteq Src

TypeInv == ClusterTypes /\ ServerTypes /\ TabTypes

\* What LimitsAssumption says of the bounds of this behaviour.
LEMMA LimitTyped ==
  ASSUME limit \in Limits
  PROVE  /\ limit.stamps \subseteq Nat /\ limit.texts \subseteq Texts
         /\ limit.pods \subseteq PodStates /\ limit.tail \in Nat \ {0}
         /\ limit.buffer \in Nat \ {0} /\ limit.src \subseteq Src /\ limit.lines \in Nat
         /\ ChanCap \in Nat \ {0}
BY LimitsAssumption DEF LimitsAssumption

\* The proof's type invariant is stronger than the one the runs check.
LEMMA TypeImplied == TypeInv => TypeOK
<1> SUFFICES ASSUME TypeInv PROVE TypeOK OBVIOUS
<1>1. ASSUME NEW s \in Src, NEW i \in DOMAIN log[s]
      PROVE  log[s][i] \in [at : Nat, text : Texts]
  <2>1. log[s] \in Seq(Entry) BY DEF TypeInv, ClusterTypes
  <2>2. log[s][i] \in Entry BY <2>1
  <2> QED BY <2>2 DEF Entry
<1>2. ASSUME NEW s \in Src
      PROVE  begins[s] # <<>> /\ \A g \in DOMAIN begins[s] : begins[s][g] \in Nat \ {0}
  <2>1. begins[s] \in Seq(Nat \ {0}) BY DEF TypeInv, ClusterTypes
  <2> QED BY <2>1 DEF TypeInv, ClusterTypes
<1>3. streamer \in [Src -> Stream]
  <2>1. ReadingStream \subseteq [at : {"reading"}, seen : View, instance : Nat, next : Nat, resume : Resume]
    BY DEF ReadingStream
  <2> QED BY <2>1 DEF TypeInv, ServerTypes, Stream, StreamerStates
<1>4. \A i \in DOMAIN live : live[i] \in [src : Src, resume : Resume]
  <2>1. \A i \in DOMAIN live : live[i] \in Record BY DEF TypeInv, TabTypes
  <2> QED BY <2>1 DEF Record
<1>5. /\ \A i \in DOMAIN shown : shown[i] \in Line
      /\ \A i \in DOMAIN lines : lines[i] \in Line
  BY DEF TypeInv, TabTypes, ServerTypes
<1> QED
  BY <1>1, <1>2, <1>3, <1>4, <1>5 DEF TypeInv, ClusterTypes, ServerTypes, TabTypes, TypeOK

\* A new supervisor starts with empty, well-typed state.
LEMMA FreshTyped == Fresh => ServerTypes'
<1> SUFFICES ASSUME Fresh PROVE ServerTypes' OBVIOUS
<1>1. NoMark \in Mark /\ NoResume \in Resume BY NoResumeTyped
<1>2. lines' \in Seq(Line) /\ Len(lines') = 0 /\ DOMAIN lines' = {} BY DEF Fresh
<1>3. DOMAIN plan' = {} BY DEF Fresh
<1>4. Len(lines') <= ChanCap BY <1>2, LimitsAssumption DEF LimitsAssumption
<1>5. drained' \in [Src -> Mark] /\ resumes' \in [Src -> Resume] BY <1>1 DEF Fresh
<1>6. streamer' \in [Src -> StreamerStates]
  BY DEF Fresh, StreamerStates
<1>7. wasGone' \in BOOLEAN /\ goneCh' \in BOOLEAN BY DEF Fresh
<1>8. \A i \in DOMAIN lines' : Place(log', lines'[i]) BY <1>2
<1> QED BY <1>2, <1>3, <1>4, <1>5, <1>6, <1>7, <1>8 DEF ServerTypes

\* The initial states are well-typed.
LEMMA InitTyped == Init => TypeInv
<1> SUFFICES ASSUME Init PROVE TypeInv OBVIOUS
<1>1. NoMark \in Mark /\ NoResume \in Resume BY NoResumeTyped
<1>2. ClusterTypes
  <2>1. \A s \in Src : begins[s] = <<1>> /\ log[s] = <<>> BY DEF Init
  <2>2. <<1>> \in Seq(Nat \ {0}) /\ <<1>> # <<>> /\ \A g \in DOMAIN <<1>> : <<1>>[g] = 1 OBVIOUS
  <2>3. <<>> \in Seq(Entry) /\ Len(<<>>) = 0 OBVIOUS
  <2>4. [pod |-> "none", restarts |-> 0] \in View BY DEF View, PodStates
  <2> QED BY <2>1, <2>2, <2>3, <2>4 DEF Init, ClusterTypes, PodStates
<1>3. ServerTypes
  <2>1. lines \in Seq(Line) /\ Len(lines) = 0 /\ DOMAIN lines = {} /\ DOMAIN plan = {}
    BY DEF Init
  <2>2. drained \in [Src -> Mark] /\ resumes \in [Src -> Resume] BY <1>1 DEF Init
  <2>3. streamer \in [Src -> StreamerStates]
    BY DEF Init, StreamerStates
  <2>4. Len(lines) <= ChanCap BY <2>1, LimitsAssumption DEF LimitsAssumption
  <2>5. wasGone \in BOOLEAN /\ goneCh \in BOOLEAN BY DEF Init
  <2> QED BY <2>1, <2>2, <2>3, <2>4, <2>5 DEF ServerTypes
<1>4. TabTypes
  <2>1. /\ live \in Seq(Record) /\ shown \in Seq(Line) /\ DOMAIN shown = {}
        /\ DOMAIN delivered = {}
    BY DEF Init
  <2> QED BY <2>1 DEF Init, TabTypes
<1> QED BY <1>2, <1>3, <1>4 DEF TypeInv

\* Logs only grow, so a line that has a place keeps it.
Grows == \A s \in Src : Len(log[s]) <= Len(log'[s])

\* A place in a log stays one while the log grows.
LEMMA PlaceKept ==
  ASSUME ClusterTypes, ClusterTypes', Grows, NEW l, Place(log, l) PROVE Place(log', l)
<1>1. l \in Line /\ l.src \in Src /\ l.n \in Nat BY DEF Place, Line
<1>2. log[l.src] \in Seq(Entry) /\ log'[l.src] \in Seq(Entry) BY <1>1 DEF ClusterTypes
<1>3. Len(log[l.src]) \in Nat /\ Len(log'[l.src]) \in Nat BY <1>2
<1> QED BY <1>1, <1>3 DEF Place, Grows

\* A container that writes lengthens its log by one entry.
LEMMA WriteTyped ==
  ASSUME ClusterTypes, NEW s \in Src, Write(s) PROVE ClusterTypes' /\ Grows
<1>1. PICK e \in Entry : log' = [log EXCEPT ![s] = Append(@, e)]
  <2>1. PICK at \in limit.stamps, text \in limit.texts :
          log' = [log EXCEPT ![s] = Append(@, [at |-> at, text |-> text])]
    BY DEF Write
  <2>2. [at |-> at, text |-> text] \in Entry BY LimitTyped DEF Entry, ClusterTypes
  <2> QED BY <2>1, <2>2
<1>2. log[s] \in Seq(Entry) BY DEF ClusterTypes
<1>3. Append(log[s], e) \in Seq(Entry) /\ Len(Append(log[s], e)) = Len(log[s]) + 1
  BY <1>2, AppendFacts
<1>4. log' \in [Src -> Seq(Entry)] BY <1>1, <1>3 DEF ClusterTypes
<1>5. \A t \in Src : Len(log[t]) \in Nat BY DEF ClusterTypes
<1>6. \A t \in Src : log'[t] = IF t = s THEN Append(log[s], e) ELSE log[t]
  BY <1>1 DEF ClusterTypes
<1>7. Grows
  <2>1. ASSUME NEW t \in Src PROVE Len(log[t]) <= Len(log'[t])
    <3>1. CASE t = s
      <4>1. log'[t] = Append(log[s], e) BY <1>6, <3>1
      <4>2. Len(log'[t]) = Len(log[s]) + 1 BY <4>1, <1>3
      <4>3. Len(log[s]) \in Nat BY <1>5
      <4> QED BY <3>1, <4>2, <4>3
    <3>2. CASE t # s BY <3>2, <1>5, <1>6
    <3> QED BY <3>1, <3>2
  <2> QED BY <2>1 DEF Grows
<1>8. \A t \in Src : begins'[t] # <<>>
        /\ \A g \in DOMAIN begins'[t] : begins'[t][g] <= Len(log'[t]) + 1
  <2>1. begins' = begins BY DEF Write
  <2>2. ASSUME NEW t \in Src, NEW g \in DOMAIN begins[t]
        PROVE  begins[t][g] <= Len(log'[t]) + 1
    <3>1. begins[t] \in Seq(Nat \ {0}) BY DEF ClusterTypes
    <3>2. begins[t][g] \in Nat BY <3>1
    <3>3. begins[t][g] <= Len(log[t]) + 1 BY DEF ClusterTypes
    <3>4. Len(log'[t]) \in Nat BY <1>4
    <3> QED BY <3>2, <3>3, <3>4, <1>5, <1>7 DEF Grows
  <2> QED BY <2>1, <2>2 DEF ClusterTypes
<1> QED BY <1>4, <1>7, <1>8 DEF ClusterTypes, Write, view

\* Logs that do not change have grown.
LEMMA SameLogs ==
  ASSUME ClusterTypes, log' = log PROVE Grows
BY DEF Grows, ClusterTypes

\* A restart begins an instance behind the last line.
LEMMA RestartTyped ==
  ASSUME ClusterTypes, NEW s \in Src, Restart(s) PROVE ClusterTypes' /\ Grows
<1>1. log' = log /\ begins' = [begins EXCEPT ![s] = Append(@, Len(log[s]) + 1)]
  BY DEF Restart, PodMoves
<1>2. begins[s] \in Seq(Nat \ {0}) /\ Len(log[s]) \in Nat BY DEF ClusterTypes
<1>3. DEFINE b == Append(begins[s], Len(log[s]) + 1)
<1>4. b \in Seq(Nat \ {0}) /\ b # <<>> BY <1>2
<1>5. \A g \in DOMAIN b : b[g] <= Len(log[s]) + 1
  <2>1. \A g \in DOMAIN begins[s] : begins[s][g] <= Len(log[s]) + 1 BY DEF ClusterTypes
  <2> QED BY <1>2, <2>1
<1>6. \A t \in Src : begins'[t] = IF t = s THEN b ELSE begins[t] BY <1>1 DEF ClusterTypes
<1> HIDE DEF b
<1>7. begins' \in [Src -> Seq(Nat \ {0})]
  <2>1. begins' = [begins EXCEPT ![s] = b] BY <1>1 DEF b, ClusterTypes
  <2> QED BY <2>1, <1>4 DEF ClusterTypes
<1>8. \A t \in Src : begins'[t] # <<>> /\ \A g \in DOMAIN begins'[t] : begins'[t][g] <= Len(log'[t]) + 1
  BY <1>1, <1>4, <1>5, <1>6 DEF ClusterTypes
<1>9. pod' \in [Src -> PodStates] /\ owner' = owner
  BY DEF Restart, PodMoves, ClusterTypes, PodStates
<1> QED BY <1>1, <1>7, <1>8, <1>9, SameLogs DEF ClusterTypes, Restart, PodMoves, view

\* The other steps of a pod touch neither logs nor instances.
LEMMA PodTyped ==
  ASSUME ClusterTypes, NEW s \in Src,
         Create(s) \/ Run(s) \/ Stop(s) \/ Finish(s) \/ Delete(s)
  PROVE  ClusterTypes' /\ Grows
<1>1. log' = log /\ begins' = begins /\ UNCHANGED <<limit, root, faults, view>>
  BY DEF Create, Run, Stop, Finish, Delete, PodMoves
<1>2. PICK to \in PodStates : pod' = [pod EXCEPT ![s] = to]
  BY DEF Create, Run, Stop, Finish, Delete, PodMoves, PodStates
<1>3. owner' \in [Src -> Nat] BY DEF Create, Run, Stop, Finish, Delete, ClusterTypes
<1>4. pod' \in [Src -> PodStates] BY <1>2 DEF ClusterTypes
<1> QED BY <1>1, <1>3, <1>4, SameLogs DEF ClusterTypes, view

\* What an informer takes over of a pod is a view.
LEMMA SyncPodTyped ==
  ASSUME ClusterTypes, NEW s \in Src, SyncPod(s) PROVE ClusterTypes' /\ Grows
<1>1. Status(s) \in View
  <2>1. Restarts(s) \in Nat
    <3>1. begins[s] \in Seq(Nat \ {0}) /\ begins[s] # <<>> BY DEF ClusterTypes
    <3> QED BY <3>1 DEF Restarts
  <2> QED BY <2>1 DEF Status, View, ClusterTypes
<1>2. UNCHANGED <<limit, log, begins, pod, owner, root, faults, viewRoot>>
  BY DEF SyncPod, env
<1>3. viewPod' = [viewPod EXCEPT ![s] = Status(s)] BY DEF SyncPod
<1>4. viewPod' \in [Src -> View] BY <1>3, <1>1 DEF ClusterTypes
<1> QED BY <1>2, <1>4, SameLogs DEF ClusterTypes

\* The resource moving on, or being seen to, types.
LEMMA RootTyped ==
  ASSUME ClusterTypes, SyncRoot \/ RootMoves PROVE ClusterTypes' /\ Grows
<1>1. UNCHANGED <<limit, log, begins, pod, owner, faults, viewPod>>
  BY DEF SyncRoot, RootMoves, env, view
<1>2. viewRoot' \in Nat /\ root' \in Nat
  BY DEF SyncRoot, RootMoves, env, view, ClusterTypes
<1> QED BY <1>1, <1>2, SameLogs DEF ClusterTypes

\* Nothing of the server or the tab is touched: places are kept.
LEMMA SupTyped ==
  ASSUME TypeInv, ClusterTypes', Grows, UNCHANGED sup, UNCHANGED chan PROVE ServerTypes'
<1>1. lines' = lines BY DEF chan
<1>2. \A i \in DOMAIN lines : Place(log', lines'[i])
  BY <1>1, PlaceKept DEF TypeInv, ServerTypes
<1> QED BY <1>1, <1>2 DEF TypeInv, ServerTypes, sup, chan

\* The tab's state stays typed while the logs grow.
LEMMA TabTyped ==
  ASSUME TypeInv, ClusterTypes', Grows, UNCHANGED tab PROVE TabTypes'
<1>1. shown' = shown BY DEF tab
<1>2. \A i \in DOMAIN shown : Place(log', shown'[i])
  BY <1>1, PlaceKept DEF TypeInv, TabTypes
<1> QED BY <1>1, <1>2 DEF TypeInv, TabTypes, tab

\* A step that leaves the cluster alone keeps its types.
LEMMA EnvTyped ==
  ASSUME ClusterTypes, UNCHANGED <<limit, env, view>>, faults' \in Nat
  PROVE  ClusterTypes' /\ Grows
BY SameLogs DEF ClusterTypes, env, view

\* A resolve reads well-typed targets and prunes to well-typed records.
LEMMA ResolveTyped == TypeInv /\ Resolve => ServerTypes'
<1> SUFFICES ASSUME TypeInv, Resolve PROVE ServerTypes' OBVIOUS
<1>1. NoResume \in Resume BY NoResumeTyped
<1>2. resumes' \in [Src -> Resume] BY <1>1 DEF Resolve, Pruned, TypeInv, ServerTypes
<1>3. Resolved \subseteq Src BY DEF Resolved
<1>4. DOMAIN plan' \subseteq Src /\ \A s \in DOMAIN plan' : plan'[s] \in View
  BY <1>3 DEF Resolve, TypeInv, ClusterTypes
<1>5. wasGone' \in BOOLEAN /\ goneCh' \in BOOLEAN
  BY DEF Resolve, WasGone, TypeInv, ServerTypes
<1>6. \A i \in DOMAIN lines : Place(log', lines'[i])
  BY DEF Resolve, env, Place, TypeInv, ServerTypes
<1> QED BY <1>2, <1>4, <1>5, <1>6 DEF Resolve, TypeInv, ServerTypes

\* A step of one streamer types when what it writes does.
LEMMA StreamerTyped ==
  ASSUME TypeInv, NEW s \in Src,
         NEW st \in StreamerStates, streamer' = [streamer EXCEPT ![s] = st],
         DOMAIN plan' \subseteq Src, \A t \in DOMAIN plan' : plan'[t] \in View,
         drained' \in [Src -> Mark], resumes' \in [Src -> Resume],
         UNCHANGED <<wasGone, chan, env>>
  PROVE  ServerTypes'
<1>1. streamer' \in [Src -> StreamerStates] BY DEF TypeInv, ServerTypes, StreamerStates
<1>2. \A i \in DOMAIN lines : Place(log', lines'[i]) BY DEF env, chan, Place, TypeInv, ServerTypes
<1> QED BY <1>1, <1>2 DEF TypeInv, ServerTypes, StreamerStates, chan

\* A streamer is off, opening or reading.
LEMMA StreamerOf ==
  ASSUME TypeInv, NEW s \in Src PROVE streamer[s] \in StreamerStates
BY DEF TypeInv, ServerTypes, StreamerStates

\* A considered target becomes an opening streamer or nothing.
LEMMA ConsiderTyped ==
  ASSUME TypeInv, NEW s \in Src, Consider(s) PROVE ServerTypes'
<1>1. plan[s] \in View BY DEF Consider, TypeInv, ServerTypes
<1>2. PICK st \in StreamerStates : streamer' = [streamer EXCEPT ![s] = st]
  <2>1. [at |-> "opening", seen |-> plan[s]] \in StreamerStates BY <1>1 DEF StreamerStates
  <2>2. streamer = [streamer EXCEPT ![s] = streamer[s]] BY DEF TypeInv, ServerTypes
  <2>3. streamer[s] \in StreamerStates BY StreamerOf
  <2> QED BY <2>1, <2>2, <2>3 DEF Consider
<1>3. DOMAIN plan' \subseteq Src /\ \A t \in DOMAIN plan' : plan'[t] \in View
  BY DEF Consider, TypeInv, ServerTypes
<1>4. drained' \in [Src -> Mark] /\ resumes' \in [Src -> Resume]
  BY DEF Consider, TypeInv, ServerTypes
<1> QED BY <1>2, <1>3, <1>4, StreamerTyped DEF Consider

\* The tail of an instance begins at a place of the log or right behind it.
LEMMA StartTyped ==
  ASSUME ClusterTypes, NEW s \in Src
  PROVE  Start(s) \in Nat \ {0} /\ Begin(s) \in Nat \ {0} /\ Len(log[s]) \in Nat
         /\ Len(begins[s]) \in Nat \ {0}
<1>1. begins[s] \in Seq(Nat \ {0}) /\ begins[s] # <<>> /\ Len(log[s]) \in Nat
  BY DEF ClusterTypes
<1>2. limit.tail \in Nat BY LimitTyped DEF ClusterTypes
<1> QED BY <1>1, <1>2 DEF Start, Begin

\* An opened log starts reading with a clone of the record.
LEMMA OpenTyped ==
  ASSUME TypeInv, NEW s \in Src, Open(s) PROVE ServerTypes'
<1>1. streamer[s] \in [at : {"opening"}, seen : View]
  BY StreamerOf DEF Open, StreamerStates, Off, ReadingStream
<1>2. Opened(s) \in ReadingStream
  <2>1. resumes[s] \in Resume BY DEF TypeInv, ServerTypes
  <2> QED BY <1>1, <2>1, StartTyped DEF TypeInv, Opened, ReadingStream
<1>3. PICK st \in StreamerStates : streamer' = [streamer EXCEPT ![s] = st]
  BY <1>2 DEF Open, StreamerStates
<1>4. /\ drained' \in [Src -> Mark] /\ resumes' \in [Src -> Resume]
      /\ DOMAIN plan' \subseteq Src /\ \A t \in DOMAIN plan' : plan'[t] \in View
  BY DEF Open, TypeInv, ServerTypes
<1> QED BY <1>3, <1>4, StreamerTyped DEF Open

\* A streamer that ends leaves a typed drain mark.
LEMMA EndsTyped ==
  ASSUME TypeInv, NEW s \in Src, NEW clean \in BOOLEAN, Ends(s, clean), streamer[s] # Off
  PROVE  ServerTypes'
<1>1. streamer[s].seen \in View BY StreamerOf DEF StreamerStates, ReadingStream
<1>2. streamer[s].seen.restarts \in Nat BY <1>1 DEF View
<1>3. drained' \in [Src -> Mark]
  <2>1. [NoMark EXCEPT !.terminal = TRUE] \in Mark BY DEF NoMark, Mark
  <2>2. \A early \in BOOLEAN : [NoMark EXCEPT !.gen = streamer[s].seen.restarts, !.early = early] \in Mark
    BY <1>2 DEF NoMark, Mark
  <2>3. drained \in [Src -> Mark] BY DEF TypeInv, ServerTypes
  <2> QED BY <2>1, <2>2, <2>3 DEF Ends
<1>4. resumes' \in [Src -> Resume] BY NoResumeTyped DEF Ends, TypeInv, ServerTypes
<1>5. streamer' = [streamer EXCEPT ![s] = Off] /\ Off \in StreamerStates BY DEF Ends, StreamerStates
<1>6. DOMAIN plan' \subseteq Src /\ \A t \in DOMAIN plan' : plan'[t] \in View
  BY DEF Ends, TypeInv, ServerTypes
<1> QED BY <1>3, <1>4, <1>5, <1>6, StreamerTyped DEF Ends

\* A line that is about to be read is in the log.
LEMMA NextInLog ==
  ASSUME TypeInv, NEW s \in Src, streamer[s].at = "reading",
         streamer[s].next <= LastOf(s, streamer[s].instance)
  PROVE  /\ streamer[s] \in ReadingStream
         /\ streamer[s].next \in 1 .. Len(log[s]) /\ log[s][streamer[s].next] \in Entry
         /\ LastOf(s, streamer[s].instance) <= Len(log[s])
<1>1. streamer[s] \in ReadingStream BY StreamerOf DEF StreamerStates, Off
<1>2. /\ begins[s] \in Seq(Nat \ {0}) /\ log[s] \in Seq(Entry)
      /\ \A g \in DOMAIN begins[s] : begins[s][g] <= Len(log[s]) + 1
  BY DEF TypeInv, ClusterTypes
<1>3. streamer[s].instance \in Nat \ {0} /\ streamer[s].next \in Nat \ {0}
  BY <1>1 DEF ReadingStream
<1>4. LastOf(s, streamer[s].instance) <= Len(log[s])
  <2>1. CASE streamer[s].instance < Len(begins[s])
    <3>1. streamer[s].instance + 1 \in DOMAIN begins[s] BY <1>2, <1>3, <2>1
    <3>2. begins[s][streamer[s].instance + 1] \in Nat BY <1>2, <3>1
    <3> QED BY <1>2, <2>1, <3>1, <3>2 DEF LastOf
  <2>2. CASE ~(streamer[s].instance < Len(begins[s])) BY <1>2, <2>2 DEF LastOf
  <2> QED BY <2>1, <2>2
<1>5. LastOf(s, streamer[s].instance) \in Int
  <2>1. CASE streamer[s].instance < Len(begins[s])
    <3>1. streamer[s].instance + 1 \in DOMAIN begins[s] BY <1>2, <1>3, <2>1
    <3>2. begins[s][streamer[s].instance + 1] \in Nat BY <1>2, <3>1
    <3> QED BY <2>1, <3>2 DEF LastOf
  <2>2. CASE ~(streamer[s].instance < Len(begins[s])) BY <1>2, <2>2 DEF LastOf
  <2> QED BY <2>1, <2>2
<1>6. streamer[s].next \in 1 .. Len(log[s]) BY <1>2, <1>3, <1>4, <1>5
<1> QED BY <1>1, <1>2, <1>4, <1>6

\* A turn of scanLogStream sends a place of the log, or drops it.
LEMMA ScanTyped ==
  ASSUME TypeInv, NEW s \in Src, Scan(s) PROVE ServerTypes'
<1> DEFINE n == streamer[s].next
           line == log[s][n]
           C == streamer[s].resume
           at(R) == [streamer[s] EXCEPT !.next = n + 1, !.resume = R]
<1>1. /\ streamer[s] \in ReadingStream /\ n \in 1 .. Len(log[s]) /\ line \in Entry
      /\ Len(log[s]) \in Nat
  BY NextInLog, StartTyped DEF Scan, TypeInv
<1>2. C \in Resume BY <1>1 DEF ReadingStream
<1>3. ASSUME NEW R \in Resume PROVE at(R) \in StreamerStates
  <2>1. n + 1 \in Nat \ {0} BY <1>1
  <2>2. at(R) \in ReadingStream BY <1>1, <2>1 DEF ReadingStream
  <2> QED BY <2>2 DEF StreamerStates
<1>4. DOMAIN plan' \subseteq Src /\ \A t \in DOMAIN plan' : plan'[t] \in View
  BY DEF Scan, TypeInv, ServerTypes
<1>5. CASE Replayed(C, line)
  <2>1. Matched(C, line) \in Resume BY <1>1, <1>2, <1>5, MatchedTyped
  <2>2. streamer' = [streamer EXCEPT ![s] = at(Matched(C, line))]
    BY <1>5 DEF Scan, TypeInv, ServerTypes
  <2>3. at(Matched(C, line)) \in StreamerStates BY <2>1, <1>3
  <2>4. drained' \in [Src -> Mark] /\ resumes' \in [Src -> Resume]
    BY <1>5 DEF Scan, TypeInv, ServerTypes
  <2>5. UNCHANGED <<wasGone, chan, env>> BY <1>5 DEF Scan, chan
  <2> HIDE DEF at, n, line, C
  <2> QED BY <2>2, <2>3, <2>4, <2>5, <1>4, StreamerTyped
<1>6. CASE ~Replayed(C, line)
  <2>1. /\ Len(lines) < ChanCap /\ lines' = Append(lines, [src |-> s, n |-> n])
        /\ resumes' = [resumes EXCEPT ![s] = Recorded(@, line)]
        /\ streamer' = [streamer EXCEPT ![s].next = n + 1]
        /\ UNCHANGED <<plan, wasGone, drained, goneCh, log>>
    BY <1>6 DEF Scan, env
  <2>2. resumes' \in [Src -> Resume]
    <3>1. Recorded(resumes[s], line) \in Resume
      BY <1>1, RecordedTyped DEF TypeInv, ServerTypes
    <3> QED BY <2>1, <3>1 DEF TypeInv, ServerTypes
  <2>3. streamer' \in [Src -> StreamerStates]
    <3>1. [streamer[s] EXCEPT !.next = n + 1] \in StreamerStates
      BY <1>1 DEF ReadingStream, StreamerStates
    <3> QED BY <2>1, <3>1 DEF TypeInv, ServerTypes
  <2>4. [src |-> s, n |-> n] \in Line /\ Place(log, [src |-> s, n |-> n])
    BY <1>1 DEF Line, Place
  <2>5. lines \in Seq(Line) /\ \A i \in DOMAIN lines : Place(log, lines[i])
    BY DEF TypeInv, ServerTypes
  <2> HIDE DEF n
  <2>6. lines' \in Seq(Line) /\ Len(lines') <= ChanCap
    <3>1. Len(lines) \in Nat /\ ChanCap \in Nat
      BY <2>5, LimitsAssumption DEF LimitsAssumption
    <3> QED BY <2>1, <2>4, <2>5, <3>1, AppendFacts
  <2>7. \A i \in DOMAIN lines' : Place(log', lines'[i])
    <3>1. ASSUME NEW i \in DOMAIN lines' PROVE Place(log, lines'[i])
      <4>1. i \in 1 .. Len(lines) + 1 BY <2>1, <2>4, <2>5, AppendFacts
      <4>2. CASE i = Len(lines) + 1 BY <4>2, <2>1, <2>4, <2>5, AppendFacts
      <4>3. CASE i # Len(lines) + 1
        <5>1. i \in 1 .. Len(lines) /\ Len(lines) \in Nat BY <4>1, <4>3, <2>5
        <5>2. lines'[i] = lines[i] BY <5>1, <2>1, <2>4, <2>5, AppendFacts
        <5> QED BY <5>1, <5>2, <2>5
      <4> QED BY <4>2, <4>3
    <3> QED BY <3>1, <2>1
  <2>8. /\ drained' \in [Src -> Mark] /\ wasGone' \in BOOLEAN /\ goneCh' \in BOOLEAN
    BY <2>1 DEF TypeInv, ServerTypes
  <2> QED BY <1>4, <2>2, <2>3, <2>6, <2>7, <2>8 DEF ServerTypes
<1> QED BY <1>5, <1>6

\* The buffer holds places of the logs, the new one included.
LEMMA BufferedTyped ==
  ASSUME TypeInv, NEW l, Place(log, l)
  PROVE  Buffered(l) \in Seq(Line) /\ \A i \in DOMAIN Buffered(l) : Place(log, Buffered(l)[i])
<1> DEFINE all == Append(shown, l)
<1>1. shown \in Seq(Line) /\ l \in Line /\ \A i \in DOMAIN shown : Place(log, shown[i])
  BY DEF TypeInv, TabTypes, Place
<1>2. all \in Seq(Line) /\ \A i \in DOMAIN all : Place(log, all[i])
  <2>1. /\ all \in Seq(Line) /\ Len(all) = Len(shown) + 1 /\ all[Len(shown) + 1] = l
        /\ \A i \in 1 .. Len(shown) : all[i] = shown[i]
    BY <1>1, AppendFacts
  <2> HIDE DEF all
  <2> QED BY <1>1, <2>1
<1> HIDE DEF all
<1>3. all # <<>> => Tail(all) \in Seq(Line) /\ \A i \in DOMAIN Tail(all) : Place(log, Tail(all)[i])
  BY <1>2
<1>4. Len(all) > limit.buffer => all # <<>>
  <2>1. limit.buffer \in Nat \ {0} BY LimitTyped DEF TypeInv, ClusterTypes
  <2> QED BY <2>1, <1>2
<1>5. Buffered(l) = IF Len(all) > limit.buffer THEN Tail(all) ELSE all BY DEF Buffered, all
<1> QED BY <1>2, <1>3, <1>4, <1>5

\* The tab's record of a source is typed, known or not.
LEMMA LiveOfTyped == ASSUME TypeInv, NEW s PROVE LiveOf(s) \in Resume
<1>1. CASE Known(s) = {} BY <1>1, NoResumeTyped DEF LiveOf
<1>2. CASE Known(s) # {}
  <2>1. (CHOOSE i \in Known(s) : TRUE) \in DOMAIN live BY <1>2 DEF Known
  <2>2. live[CHOOSE i \in Known(s) : TRUE] \in Record BY <2>1 DEF TypeInv, TabTypes
  <2> QED BY <1>2, <2>2 DEF LiveOf, Record
<1> QED BY <1>1, <1>2

\* Dropping a source's old record leaves a sequence of records.
LEMMA WithoutTyped ==
  ASSUME TypeInv, NEW s
  PROVE  Without(s) \in Seq(Record) /\ Len(Without(s)) <= Len(live)
<1>1. live \in Seq(Record) BY DEF TypeInv, TabTypes
<1>2. CASE Known(s) = {} BY <1>1, <1>2 DEF Without
<1>3. CASE Known(s) # {}
  <2>1. (CHOOSE i \in Known(s) : TRUE) \in 1 .. Len(live) BY <1>1, <1>3 DEF Known
  <2> DEFINE k == CHOOSE i \in Known(s) : TRUE
  <2>2. Without(s) = RemoveAt(live, k) BY <1>3 DEF Without
  <2> HIDE DEF k
  <2>3. k \in 1 .. Len(live) BY <2>1 DEF k
  <2>4. RemoveAt(live, k) \in Seq(Record) /\ Len(RemoveAt(live, k)) = Len(live) - 1
    BY <1>1, <2>3, RemoveAtFacts
  <2> QED BY <2>2, <2>4, <1>1
<1> QED BY <1>2, <1>3

\* Renewing a record leaves a sequence of records.
LEMMA RenewedTyped ==
  ASSUME TypeInv, NEW s \in Src, NEW line \in Entry PROVE Renewed(s, line) \in Seq(Record)
<1> DEFINE e == [src |-> s, resume |-> Recorded(LiveOf(s), line)]
           all == Append(Without(s), e)
<1>1. e \in Record BY LiveOfTyped, RecordedTyped DEF Record
<1>2. all \in Seq(Record) BY <1>1, WithoutTyped
<1>3. live \in Seq(Record) BY DEF TypeInv, TabTypes
<1>4. Len(all) > limit.buffer => Tail(all) \in Seq(Record)
  <2>1. limit.buffer \in Nat \ {0} BY LimitTyped DEF TypeInv, ClusterTypes
  <2> HIDE DEF all
  <2> QED BY <2>1, <1>2
<1>5. \/ Renewed(s, line) = live
      \/ Renewed(s, line) = all
      \/ Len(all) > limit.buffer /\ Renewed(s, line) = Tail(all)
  BY DEF Renewed, Capped
<1> QED BY <1>2, <1>3, <1>4, <1>5

\* Taking a line off the wire keeps both ends typed.
LEMMA PassLineTyped == TypeInv /\ PassLine => ServerTypes' /\ TabTypes'
<1> SUFFICES ASSUME TypeInv, PassLine PROVE ServerTypes' /\ TabTypes' OBVIOUS
<1> DEFINE l == Head(lines)
           line == log[l.src][l.n]
<1>1. /\ lines \in Seq(Line) /\ lines # <<>> /\ Len(lines) <= ChanCap /\ ChanCap \in Nat
      /\ \A i \in DOMAIN lines : Place(log, lines[i])
  BY LimitsAssumption DEF PassLine, TypeInv, ServerTypes, LimitsAssumption
<1>2. /\ l = lines[1] /\ Place(log, l)
  BY <1>1, TailFacts
<1>3. l.src \in Src /\ l.n \in 1 .. Len(log[l.src]) /\ log[l.src] \in Seq(Entry)
  BY <1>2 DEF Place, Line, TypeInv, ClusterTypes
<1>4. line \in Entry BY <1>3
<1>5. ServerTypes'
  <2>1. lines' = Tail(lines) /\ UNCHANGED <<env, sup, goneCh>> BY DEF PassLine
  <2>2. lines' \in Seq(Line) /\ Len(lines') <= ChanCap BY <1>1, <2>1, TailFacts
  <2>3. \A i \in DOMAIN lines' : Place(log', lines'[i])
    <3>1. \A i \in DOMAIN lines' : i + 1 \in DOMAIN lines /\ lines'[i] = lines[i + 1]
      BY <1>1, <2>1
    <3> QED BY <1>1, <2>1, <3>1 DEF env
  <2> QED BY <2>1, <2>2, <2>3 DEF sup, TypeInv, ServerTypes
<1> HIDE DEF l
<1>6. OnLog(l) /\ UNCHANGED <<connected, env>> BY DEF PassLine, l
<1>7. ASSUME Replayed(SnapshotOf(l.src), line) PROVE TabTypes'
  <2>1. /\ delivered' = [delivered EXCEPT ![l.src] = Matched(@, line)]
        /\ gone' = FALSE /\ error' = FALSE /\ UNCHANGED <<live, shown, got, forgot>>
    BY <1>6, <1>7 DEF OnLog
  <2>2. l.src \in DOMAIN delivered
    <3> SUFFICES ASSUME l.src \notin DOMAIN delivered PROVE FALSE OBVIOUS
    <3>1. NoResume.stamp = -1 /\ SnapshotOf(l.src) = NoResume BY DEF SnapshotOf, NoResume
    <3> QED BY <1>4, <1>7, <3>1 DEF Replayed, Entry
  <2>3. Matched(delivered[l.src], line) \in Resume
    BY <1>4, <1>7, <2>2, MatchedTyped DEF SnapshotOf, TypeInv, TabTypes
  <2>4. DOMAIN delivered' \subseteq Src /\ \A s \in DOMAIN delivered' : delivered'[s] \in Resume
    BY <2>1, <2>3 DEF TypeInv, TabTypes
  <2> QED BY <2>1, <2>4, <1>6 DEF TypeInv, TabTypes, env
<1>8. ASSUME ~Replayed(SnapshotOf(l.src), line) PROVE TabTypes'
  <2>1. /\ live' = Renewed(l.src, line) /\ shown' = Buffered(l)
        /\ got' = [got EXCEPT ![l.src] = IF l.n > @ THEN l.n ELSE @]
        /\ forgot' = forgot \cup (Sources(live) \ Sources(live'))
        /\ gone' = FALSE /\ error' = FALSE /\ UNCHANGED <<delivered, connected, log>>
    BY <1>6, <1>8 DEF OnLog, env
  <2>2. live' \in Seq(Record) BY <2>1, <1>3, <1>4, RenewedTyped
  <2>3. shown' \in Seq(Line) /\ \A i \in DOMAIN shown' : Place(log', shown'[i])
    BY <2>1, <1>2, BufferedTyped
  <2>4. got' \in [Src -> Nat] BY <2>1, <1>3 DEF TypeInv, TabTypes
  <2>5. forgot' \subseteq Src
    <3>1. Sources(live) \subseteq Src
      <4>1. \A i \in DOMAIN live : live[i] \in Record BY DEF TypeInv, TabTypes
      <4> QED BY <4>1 DEF Sources, Record
    <3> QED BY <2>1, <3>1 DEF TypeInv, TabTypes
  <2> QED BY <2>1, <2>2, <2>3, <2>4, <2>5 DEF TypeInv, TabTypes
<1> QED BY <1>5, <1>7, <1>8

\* So do the notice, a connection made and a connection lost.
LEMMA TabStepTyped ==
  ASSUME TypeInv, PassGone \/ Connect \/ Break PROVE ClusterTypes' /\ ServerTypes' /\ TabTypes'
<1>1. UNCHANGED <<limit, env, view>> /\ faults' \in Nat
  <2>1. CASE PassGone \/ Connect BY <2>1 DEF PassGone, Connect, TypeInv, ClusterTypes
  <2>2. CASE Break BY <2>2 DEF Break, TypeInv, ClusterTypes
  <2> QED BY <2>1, <2>2
<1>2. ClusterTypes' /\ Grows BY <1>1, EnvTyped DEF TypeInv
<1>3. log' = log BY <1>1 DEF env
<1>4. ServerTypes'
  <2>1. CASE PassGone
    BY <2>1, <1>3 DEF PassGone, sup, TypeInv, ServerTypes
  <2>2. CASE Connect
    BY <2>2, <1>3 DEF Connect, sup, chan, TypeInv, ServerTypes
  <2>3. CASE Break BY <2>3, FreshTyped DEF Break
  <2> QED BY <2>1, <2>2, <2>3
<1>5. TabTypes'
  <2>1. CASE PassGone BY <2>1, <1>3 DEF PassGone, TypeInv, TabTypes
  <2>2. CASE Connect
    <3>1. Sources(live) \subseteq Src
      <4>1. \A i \in DOMAIN live : live[i] \in Record BY DEF TypeInv, TabTypes
      <4> QED BY <4>1 DEF Sources, Record
    <3>2. DOMAIN delivered' \subseteq Src /\ \A s \in DOMAIN delivered' : delivered'[s] \in Resume
      BY <2>2, <3>1, LiveOfTyped DEF Connect
    <3> QED BY <2>2, <3>2, <1>3 DEF Connect, TypeInv, TabTypes
  <2>3. CASE Break BY <2>3, <1>3 DEF Break, TypeInv, TabTypes
  <2> QED BY <2>1, <2>2, <2>3
<1> QED BY <1>2, <1>4, <1>5

\* Every step keeps the types.
LEMMA StepTyped == TypeInv /\ [Next]_vars => TypeInv'
<1> SUFFICES ASSUME TypeInv, [Next]_vars PROVE ClusterTypes' /\ ServerTypes' /\ TabTypes'
  BY DEF TypeInv
<1>1. CASE UNCHANGED vars
  <2>1. UNCHANGED <<limit, env, view, sup, chan, tab>> /\ faults' = faults BY <1>1 DEF vars
  <2>2. ClusterTypes' /\ Grows BY <2>1, EnvTyped DEF TypeInv, ClusterTypes
  <2> QED BY <2>1, <2>2, SupTyped, TabTyped
<1>2. CASE Cluster \/ Sync
  <2>1. UNCHANGED <<sup, chan, tab>>
    BY <1>2 DEF Cluster, Sync, Create, Run, Write, Stop, Restart, Finish, Delete, PodMoves,
                RootMoves, SyncRoot, SyncPod
  <2>2. ClusterTypes' /\ Grows
    <3>1. ClusterTypes BY DEF TypeInv
    <3>2. CASE RootMoves \/ SyncRoot BY <3>1, <3>2, RootTyped
    <3>3. ASSUME NEW s \in Src, Write(s) PROVE ClusterTypes' /\ Grows
      BY <3>1, <3>3, WriteTyped
    <3>4. ASSUME NEW s \in Src, Restart(s) PROVE ClusterTypes' /\ Grows
      BY <3>1, <3>4, RestartTyped
    <3>5. ASSUME NEW s \in Src, Create(s) \/ Run(s) \/ Stop(s) \/ Finish(s) \/ Delete(s)
          PROVE  ClusterTypes' /\ Grows
      BY <3>1, <3>5, PodTyped
    <3>6. ASSUME NEW s \in Src, SyncPod(s) PROVE ClusterTypes' /\ Grows
      BY <3>1, <3>6, SyncPodTyped
    <3> QED BY <1>2, <3>2, <3>3, <3>4, <3>5, <3>6 DEF Cluster, Sync
  <2> QED BY <2>1, <2>2, SupTyped, TabTyped
<1>3. CASE Resolve
  <2>1. UNCHANGED <<limit, env, view, tab>> /\ faults' = faults BY <1>3 DEF Resolve
  <2>2. ClusterTypes' /\ Grows BY <2>1, EnvTyped DEF TypeInv, ClusterTypes
  <2> QED BY <2>1, <2>2, <1>3, ResolveTyped, TabTyped
<1>4. ASSUME NEW s \in Src, Streamer(s) \/ Interrupt(s)
      PROVE  ClusterTypes' /\ ServerTypes' /\ TabTypes'
  <2>1. UNCHANGED <<limit, env, view, tab>> /\ faults' \in Nat
    BY <1>4 DEF Streamer, Interrupt, Consider, Open, Scan, Eof, Ends, TypeInv, ClusterTypes
  <2>2. ClusterTypes' /\ Grows BY <2>1, EnvTyped DEF TypeInv, ClusterTypes
  <2>3. ServerTypes'
    <3>1. CASE Consider(s) BY <3>1, ConsiderTyped
    <3>2. CASE Open(s) BY <3>2, OpenTyped
    <3>3. CASE Scan(s) BY <3>3, ScanTyped
    <3>4. CASE Eof(s)
      <4>1. streamer[s].at = "reading" /\ Ends(s, TRUE) BY <3>4 DEF Eof
      <4>2. Off.at # "reading" BY DEF Off
      <4>3. streamer[s] # Off BY <4>1, <4>2
      <4> QED BY <4>1, <4>3, EndsTyped
    <3>5. CASE Interrupt(s) BY <3>5, EndsTyped DEF Interrupt
    <3> QED BY <1>4, <3>1, <3>2, <3>3, <3>4, <3>5 DEF Streamer
  <2> QED BY <2>1, <2>2, <2>3, TabTyped
<1>5. CASE PassLine
  <2>1. UNCHANGED <<limit, env, view>> /\ faults' = faults BY <1>5 DEF PassLine
  <2>2. ClusterTypes' /\ Grows BY <2>1, EnvTyped DEF TypeInv, ClusterTypes
  <2> QED BY <2>2, <1>5, PassLineTyped
<1>6. CASE PassGone \/ Connect \/ Break BY <1>6, TabStepTyped
<1> QED BY <1>1, <1>2, <1>3, <1>4, <1>5, <1>6 DEF Next

\* In every behaviour of the stream every variable keeps its type: a record of
\* the replay filters never counts below zero.
THEOREM LogsTyped == Spec => []TypeOK
<1>1. Spec => []TypeInv
  <2>1. Init => TypeInv BY InitTyped
  <2>2. TypeInv /\ [Next]_vars => TypeInv' BY StepTyped
  <2> QED BY <2>1, <2>2, PTL DEF Spec
<1> QED BY <1>1, TypeImplied, PTL

-----------------------------------------------------------------------------
(* The tab's bounded memory.                                               *)

StampedIn(lg, l) == lg[l.src][l.n].at # 0
Unique(records)  == \A i, j \in DOMAIN records : records[i].src = records[j].src => i = j

\* A source with a stamped line on screen is remembered, and no further from
\* the fresh end of the memory than the line is from the end of the screen.
MemoryInv ==
  /\ Unique(live)
  /\ Len(live) <= limit.buffer /\ Len(shown) <= limit.buffer
  /\ \A i \in DOMAIN shown : StampedIn(log, shown[i]) =>
       \E k \in DOMAIN live : /\ live[k].src = shown[i].src
                              /\ Len(live) - k <= Len(shown) - i

\* Dropping a source's old record: the others stay, none further from the end.
LEMMA WithoutFacts ==
  ASSUME live \in Seq(Record), Unique(live), NEW s, NEW W, W = Without(s)
  PROVE  /\ W \in Seq(Record) /\ Len(W) <= Len(live) /\ Unique(W)
         /\ \A j \in DOMAIN W : W[j].src # s /\ \E k \in DOMAIN live : live[k] = W[j]
         /\ \A k \in DOMAIN live : live[k].src # s =>
              \E j \in DOMAIN W : W[j] = live[k] /\ Len(W) - j <= Len(live) - k
<1>1. CASE Known(s) = {}
  <2>1. W = live BY <1>1 DEF Without
  <2>2. \A j \in DOMAIN live : live[j].src # s BY <1>1 DEF Known
  <2> QED BY <2>1, <2>2
<1>2. CASE Known(s) # {}
  <2>1. PICK r \in DOMAIN live : live[r].src = s /\ W = RemoveAt(live, r)
    BY <1>2 DEF Known, Without
  <2>2. r \in 1 .. Len(live) /\ Len(live) \in Nat OBVIOUS
  <2>3. /\ W \in Seq(Record) /\ Len(W) = Len(live) - 1
        /\ \A j \in 1 .. Len(live) - 1 : W[j] = IF j < r THEN live[j] ELSE live[j + 1]
    BY <2>1, <2>2, RemoveAtFacts
  <2>4. \A j \in DOMAIN W : j \in 1 .. Len(live) - 1 BY <2>3
  <2>5. ASSUME NEW j \in DOMAIN W
        PROVE  W[j].src # s /\ \E k \in DOMAIN live : live[k] = W[j]
    <3>1. j \in 1 .. Len(live) - 1 BY <2>4
    <3>2. CASE j < r
      <4>1. W[j] = live[j] /\ j \in DOMAIN live /\ j # r BY <2>2, <2>3, <3>1, <3>2
      <4> QED BY <4>1, <2>1 DEF Unique
    <3>3. CASE ~(j < r)
      <4>1. W[j] = live[j + 1] /\ j + 1 \in DOMAIN live /\ j + 1 # r BY <2>2, <2>3, <3>1, <3>3
      <4> QED BY <4>1, <2>1 DEF Unique
    <3> QED BY <3>2, <3>3
  <2>6. Unique(W)
    <3> SUFFICES ASSUME NEW i \in DOMAIN W, NEW j \in DOMAIN W, W[i].src = W[j].src PROVE i = j
      BY DEF Unique
    <3>1. i \in 1 .. Len(live) - 1 /\ j \in 1 .. Len(live) - 1 BY <2>4
    <3>2. PICK p \in DOMAIN live : W[i] = live[p] /\ p = (IF i < r THEN i ELSE i + 1)
      BY <2>2, <2>3, <3>1
    <3>3. PICK q \in DOMAIN live : W[j] = live[q] /\ q = (IF j < r THEN j ELSE j + 1)
      BY <2>2, <2>3, <3>1
    <3>4. p = q BY <3>2, <3>3 DEF Unique
    <3> QED BY <3>1, <3>2, <3>3, <3>4, <2>2
  <2>7. ASSUME NEW k \in DOMAIN live, live[k].src # s
        PROVE  \E j \in DOMAIN W : W[j] = live[k] /\ Len(W) - j <= Len(live) - k
    <3>1. k \in 1 .. Len(live) /\ k # r BY <2>1, <2>7
    <3>2. CASE k < r
      <4>1. k \in DOMAIN W /\ k \in 1 .. Len(live) - 1 BY <2>2, <2>3, <3>1, <3>2
      <4>2. W[k] = live[k] BY <2>3, <4>1, <3>2
      <4> QED BY <4>1, <4>2, <2>3, <2>2
    <3>3. CASE ~(k < r)
      <4>1. k - 1 \in DOMAIN W /\ k - 1 \in 1 .. Len(live) - 1 /\ ~(k - 1 < r) /\ (k - 1) + 1 = k
        BY <2>2, <2>3, <3>1, <3>3
      <4>2. W[k - 1] = live[k] BY <2>3, <4>1
      <4>3. Len(W) - (k - 1) <= Len(live) - k BY <2>2, <2>3, <3>1
      <4> QED BY <4>1, <4>2, <4>3
    <3> QED BY <3>2, <3>3
  <2> QED BY <2>2, <2>3, <2>5, <2>6, <2>7
<1> QED BY <1>1, <1>2

\* What one more line of s makes of the memory: nothing, or s is its newest
\* entry, and of the others at most the oldest is dropped, for lack of room.
Outcome(N, s, e) ==
  /\ N \in Seq(Record) /\ Unique(N) /\ Len(N) > 0 /\ Len(N) <= limit.buffer
  /\ N[Len(N)] = e
  /\ \A j \in DOMAIN N : N[j] # e => N[j].src # s /\ \E k \in DOMAIN live : live[k] = N[j]
  /\ \A k \in DOMAIN live : live[k].src # s =>
       \/ Len(live) - k >= limit.buffer - 1 /\ \A j \in DOMAIN N : N[j].src # live[k].src
       \/ \E j \in DOMAIN N : N[j] = live[k] /\ Len(N) - j <= Len(live) - k + 1

\* Renewing a record puts it last; a record only goes when the bound is reached.
LEMMA RenewedFacts ==
  ASSUME TypeInv, Unique(live), Len(live) <= limit.buffer, NEW s \in Src, NEW line \in Entry,
         NEW R, R = Recorded(LiveOf(s), line)
  PROVE  IF R = NoResume THEN Renewed(s, line) = live
         ELSE Outcome(Renewed(s, line), s, [src |-> s, resume |-> R])
<1> DEFINE e == [src |-> s, resume |-> R]
           W == Without(s)
           all == Append(W, e)
<1>1. CASE R = NoResume BY <1>1 DEF Renewed
<1>2. CASE R # NoResume
  <2>1. R \in Resume BY LiveOfTyped, RecordedTyped
  <2>2. e \in Record /\ e.src = s BY <2>1 DEF Record
  <2>3. live \in Seq(Record) /\ limit.buffer \in Nat \ {0}
    BY LimitTyped DEF TypeInv, TabTypes, ClusterTypes
  <2>4. /\ W \in Seq(Record) /\ Len(W) <= Len(live) /\ Unique(W)
        /\ \A j \in DOMAIN W : W[j].src # s /\ \E k \in DOMAIN live : live[k] = W[j]
        /\ \A k \in DOMAIN live : live[k].src # s =>
             \E j \in DOMAIN W : W[j] = live[k] /\ Len(W) - j <= Len(live) - k
    BY <2>3, WithoutFacts
  <2>5. Renewed(s, line) = IF Len(all) > limit.buffer THEN Tail(all) ELSE all
    BY <1>2 DEF Renewed, Capped
  <2> HIDE DEF W, e
  <2>6. /\ all \in Seq(Record) /\ Len(all) = Len(W) + 1 /\ all[Len(W) + 1] = e
        /\ \A j \in 1 .. Len(W) : all[j] = W[j]
    BY <2>2, <2>4, AppendFacts
  <2>7. Len(W) \in Nat /\ Len(live) \in Nat /\ DOMAIN W = 1 .. Len(W) BY <2>3, <2>4
  <2> HIDE DEF all
  <2>8. DOMAIN all = 1 .. Len(W) + 1 BY <2>6, <2>7
  <2>9. Unique(all)
    <3> SUFFICES ASSUME NEW i \in DOMAIN all, NEW j \in DOMAIN all, all[i].src = all[j].src
                 PROVE  i = j
      BY DEF Unique
    <3>1. CASE i \in 1 .. Len(W) /\ j \in 1 .. Len(W) BY <3>1, <2>4, <2>6, <2>7 DEF Unique
    <3>2. CASE i \notin 1 .. Len(W) /\ j \notin 1 .. Len(W) BY <3>2, <2>7, <2>8
    <3>3. CASE i \in 1 .. Len(W) /\ j \notin 1 .. Len(W)
      <4>1. j = Len(W) + 1 BY <3>3, <2>7, <2>8
      <4> QED BY <4>1, <3>3, <2>2, <2>4, <2>6, <2>7
    <3>4. CASE i \notin 1 .. Len(W) /\ j \in 1 .. Len(W)
      <4>1. i = Len(W) + 1 BY <3>4, <2>7, <2>8
      <4> QED BY <4>1, <3>4, <2>2, <2>4, <2>6, <2>7
    <3> QED BY <3>1, <3>2, <3>3, <3>4
  <2>10. \A j \in DOMAIN all : all[j] # e => all[j].src # s /\ \E k \in DOMAIN live : live[k] = all[j]
    <3> SUFFICES ASSUME NEW j \in DOMAIN all, all[j] # e
                 PROVE  all[j].src # s /\ \E k \in DOMAIN live : live[k] = all[j]
      OBVIOUS
    <3>1. j \in DOMAIN W
      <4>1. j # Len(W) + 1 BY <2>6
      <4> QED BY <4>1, <2>7, <2>8
    <3>2. all[j] = W[j] BY <3>1, <2>6, <2>7
    <3> QED BY <3>1, <3>2, <2>4
  <2>11. ASSUME NEW k \in DOMAIN live, live[k].src # s
         PROVE  \E j \in 1 .. Len(W) : all[j] = live[k] /\ Len(all) - j <= Len(live) - k + 1
    <3>1. PICK j \in DOMAIN W : W[j] = live[k] /\ Len(W) - j <= Len(live) - k BY <2>4, <2>11
    <3>2. k \in Nat BY <2>3
    <3>3. Len(all) - j <= Len(live) - k + 1 BY <3>1, <3>2, <2>6, <2>7
    <3> QED BY <3>1, <3>3, <2>6, <2>7
  <2>12. CASE Len(all) <= limit.buffer
    <3>1. Renewed(s, line) = all BY <2>5, <2>12, <2>3, <2>6, <2>7
    <3>2. Len(all) > 0 /\ all[Len(all)] = e BY <2>6, <2>7
    <3>3. \A k \in DOMAIN live : live[k].src # s =>
            \E j \in DOMAIN all : all[j] = live[k] /\ Len(all) - j <= Len(live) - k + 1
      BY <2>11, <2>8, <2>7
    <3>4. Outcome(all, s, e) BY <2>6, <2>9, <2>10, <2>12, <3>2, <3>3 DEF Outcome
    <3> QED BY <1>2, <3>1, <3>4 DEF e
  <2>13. CASE Len(all) > limit.buffer
    <3> DEFINE N == Tail(all)
    <3>1. Renewed(s, line) = N BY <2>5, <2>13
    <3>2. all # <<>> /\ Len(W) >= 1 BY <2>13, <2>3, <2>6, <2>7
    <3>3. N \in Seq(Record) /\ Len(N) = Len(W) /\ \A j \in 1 .. Len(W) : N[j] = all[j + 1]
      BY <3>2, <2>6, <2>7, TailFacts
    <3> HIDE DEF N
    <3>4. DOMAIN N = 1 .. Len(W) BY <3>3
    <3>5. Unique(N)
      <4> SUFFICES ASSUME NEW i \in DOMAIN N, NEW j \in DOMAIN N, N[i].src = N[j].src PROVE i = j
        BY DEF Unique
      <4>1. i + 1 \in DOMAIN all /\ j + 1 \in DOMAIN all BY <3>4, <2>8, <2>7
      <4>2. all[i + 1].src = all[j + 1].src BY <3>3, <3>4
      <4>3. i + 1 = j + 1 BY <4>1, <4>2, <2>9 DEF Unique
      <4> QED BY <4>3, <3>4, <2>7
    <3>6. N[Len(N)] = e /\ Len(N) > 0 BY <3>2, <3>3, <2>6, <2>7
    <3>7. Len(N) <= limit.buffer BY <2>3, <2>4, <2>7, <3>3
    <3>8. \A j \in DOMAIN N : N[j] # e => N[j].src # s /\ \E k \in DOMAIN live : live[k] = N[j]
      <4>1. \A j \in DOMAIN N : j + 1 \in DOMAIN all /\ N[j] = all[j + 1]
        BY <3>3, <3>4, <2>8, <2>7
      <4> QED BY <4>1, <2>10
    <3>9. ASSUME NEW k \in DOMAIN live, live[k].src # s
          PROVE  \/ Len(live) - k >= limit.buffer - 1 /\ \A j \in DOMAIN N : N[j].src # live[k].src
                 \/ \E j \in DOMAIN N : N[j] = live[k] /\ Len(N) - j <= Len(live) - k + 1
      <4>1. PICK j \in 1 .. Len(W) : all[j] = live[k] /\ Len(all) - j <= Len(live) - k + 1
        BY <2>11, <3>9
      <4>2. k \in 1 .. Len(live) BY <2>3
      <4>3. CASE j = 1
        <5>1. Len(live) - k >= limit.buffer - 1 BY <4>1, <4>2, <4>3, <2>3, <2>7, <2>13, <2>6
        <5>2. ASSUME NEW i \in DOMAIN N PROVE N[i].src # live[k].src
          <6>1. i + 1 \in DOMAIN all /\ N[i] = all[i + 1] /\ i + 1 # 1 /\ 1 \in DOMAIN all
            BY <3>3, <3>4, <2>8, <2>7
          <6> QED BY <6>1, <4>1, <4>3, <2>9 DEF Unique
        <5> QED BY <5>1, <5>2
      <4>4. CASE j # 1
        <5>1. j - 1 \in DOMAIN N /\ (j - 1) + 1 = j /\ j - 1 \in 1 .. Len(W) BY <4>4, <3>4, <2>7
        <5>2. N[j - 1] = live[k] BY <5>1, <4>1, <3>3
        <5>3. Len(N) - (j - 1) <= Len(live) - k + 1 BY <4>1, <4>2, <3>3, <2>6, <2>7
        <5> QED BY <5>1, <5>2, <5>3
      <4> QED BY <4>3, <4>4
    <3>10. Outcome(N, s, e) BY <3>3, <3>5, <3>6, <3>7, <3>8, <3>9 DEF Outcome
    <3> QED BY <1>2, <3>1, <3>10 DEF e
  <2> QED BY <2>12, <2>13, <2>3, <2>6, <2>7
<1> QED BY <1>1, <1>2

\* A buffered line is last; every other one moves one place back.
LEMMA BufferedFacts ==
  ASSUME TypeInv, Len(shown) <= limit.buffer, NEW l \in Line, NEW B, B = Buffered(l)
  PROVE  /\ B \in Seq(Line) /\ Len(B) > 0 /\ Len(B) <= limit.buffer /\ B[Len(B)] = l
         /\ \A i \in DOMAIN B : i # Len(B) =>
              \E j \in DOMAIN shown : B[i] = shown[j] /\ Len(B) - i = Len(shown) - j + 1
<1> DEFINE all == Append(shown, l)
<1>1. shown \in Seq(Line) /\ limit.buffer \in Nat \ {0}
  BY LimitTyped DEF TypeInv, TabTypes, ClusterTypes
<1>2. B = IF Len(all) > limit.buffer THEN Tail(all) ELSE all BY DEF Buffered
<1>3. /\ all \in Seq(Line) /\ Len(all) = Len(shown) + 1 /\ all[Len(shown) + 1] = l
      /\ \A j \in 1 .. Len(shown) : all[j] = shown[j]
  BY <1>1, AppendFacts
<1>4. Len(shown) \in Nat /\ DOMAIN shown = 1 .. Len(shown) BY <1>1
<1> HIDE DEF all
<1>5. CASE Len(all) <= limit.buffer
  <2>1. B = all BY <1>1, <1>2, <1>3, <1>4, <1>5
  <2>2. \A i \in DOMAIN all : i # Len(all) => i \in 1 .. Len(shown) BY <1>3, <1>4
  <2>3. ASSUME NEW i \in DOMAIN B, i # Len(B)
        PROVE  \E j \in DOMAIN shown : B[i] = shown[j] /\ Len(B) - i = Len(shown) - j + 1
    <3>1. i \in 1 .. Len(shown) BY <2>1, <2>2, <2>3
    <3>2. B[i] = shown[i] /\ Len(B) - i = Len(shown) - i + 1 BY <3>1, <2>1, <1>3, <1>4
    <3> QED BY <3>1, <3>2, <1>4
  <2> QED BY <2>1, <2>3, <1>3, <1>4, <1>5
<1>6. CASE Len(all) > limit.buffer
  <2>1. B = Tail(all) /\ all # <<>> /\ Len(shown) >= 1 BY <1>1, <1>2, <1>3, <1>4, <1>6
  <2>2. B \in Seq(Line) /\ Len(B) = Len(shown) /\ \A j \in 1 .. Len(shown) : B[j] = all[j + 1]
    BY <2>1, <1>3, <1>4, TailFacts
  <2>3. ASSUME NEW i \in DOMAIN B, i # Len(B)
        PROVE  \E j \in DOMAIN shown : B[i] = shown[j] /\ Len(B) - i = Len(shown) - j + 1
    <3>1. i + 1 \in 1 .. Len(shown) /\ i \in 1 .. Len(shown) BY <2>2, <2>3, <1>4
    <3>2. B[i] = shown[i + 1] /\ Len(B) - i = Len(shown) - (i + 1) + 1
      BY <3>1, <2>2, <1>3, <1>4
    <3> QED BY <3>1, <3>2, <1>4
  <2>4. B[Len(B)] = l BY <2>1, <2>2, <1>3, <1>4
  <2> QED BY <2>1, <2>2, <2>3, <2>4, <1>4
<1> QED BY <1>5, <1>6, <1>1, <1>3, <1>4

\* Nothing but Write changes a log.
LEMMA OnlyWrites == [Next]_vars => log' = log \/ \E t \in Src : Write(t)
<1> SUFFICES ASSUME [Next]_vars PROVE log' = log \/ \E t \in Src : Write(t) OBVIOUS
<1>1. CASE Cluster
  <2>1. CASE RootMoves BY <2>1 DEF RootMoves
  <2>2. CASE \E t \in Src : Create(t) \/ Run(t) \/ Stop(t) \/ Restart(t) \/ Finish(t) \/ Delete(t)
    BY <2>2 DEF Create, Run, Stop, Restart, Finish, Delete, PodMoves
  <2> QED BY <1>1, <2>1, <2>2 DEF Cluster
<1>2. CASE Sync BY <1>2 DEF Sync, SyncRoot, SyncPod, env
<1>3. CASE Resolve \/ PassLine \/ PassGone \/ Connect \/ Break
  BY <1>3 DEF Resolve, PassLine, PassGone, Connect, Break, env
<1>4. CASE \E t \in Src : Streamer(t) \/ Interrupt(t)
  BY <1>4 DEF Streamer, Interrupt, Consider, Open, Scan, Eof, Ends, env
<1>5. CASE UNCHANGED vars BY <1>5 DEF vars, env
<1> QED BY <1>1, <1>2, <1>3, <1>4, <1>5 DEF Next

\* What a log holds it keeps.
LEMMA LogsKeep ==
  TypeInv /\ [Next]_vars =>
    \A s \in Src : /\ Len(log[s]) <= Len(log'[s])
                   /\ \A n \in 1 .. Len(log[s]) : log'[s][n] = log[s][n]
<1> SUFFICES ASSUME TypeInv, [Next]_vars, NEW s \in Src
             PROVE  /\ Len(log[s]) <= Len(log'[s])
                    /\ \A n \in 1 .. Len(log[s]) : log'[s][n] = log[s][n]
  OBVIOUS
<1>1. log[s] \in Seq(Entry) BY DEF TypeInv, ClusterTypes
<1>2. CASE log' = log BY <1>1, <1>2
<1>3. ASSUME NEW t \in Src, Write(t)
      PROVE  /\ Len(log[s]) <= Len(log'[s])
             /\ \A n \in 1 .. Len(log[s]) : log'[s][n] = log[s][n]
  <2>1. PICK e : e \in Entry /\ log' = [log EXCEPT ![t] = Append(@, e)]
    <3>1. PICK at \in limit.stamps, text \in limit.texts :
            log' = [log EXCEPT ![t] = Append(@, [at |-> at, text |-> text])]
      BY <1>3 DEF Write
    <3>2. [at |-> at, text |-> text] \in Entry
      BY LimitTyped DEF Entry, TypeInv, ClusterTypes
    <3> QED BY <3>1, <3>2
  <2>2. log'[s] = log[s] \/ log'[s] = Append(log[s], e)
    BY <2>1 DEF TypeInv, ClusterTypes
  <2>3. /\ Len(Append(log[s], e)) = Len(log[s]) + 1
        /\ \A n \in 1 .. Len(log[s]) : Append(log[s], e)[n] = log[s][n]
    BY <1>1, <2>1, AppendFacts
  <2>4. Len(log[s]) \in Nat BY <1>1
  <2> QED BY <2>2, <2>3, <2>4
<1> QED BY <1>2, <1>3, OnlyWrites

\* A step that touches neither buffer nor records keeps MemoryInv.
LEMMA MemoryKept ==
  ASSUME TypeInv, [Next]_vars, MemoryInv, UNCHANGED <<limit, live, shown>>
  PROVE  MemoryInv'
<1>1. ASSUME NEW i \in DOMAIN shown PROVE StampedIn(log', shown[i]) <=> StampedIn(log, shown[i])
  <2>1. Place(log, shown[i]) BY DEF TypeInv, TabTypes
  <2>2. shown[i].src \in Src /\ shown[i].n \in 1 .. Len(log[shown[i].src])
    <3>1. shown[i].src \in Src /\ shown[i].n \in Nat \ {0} BY <2>1 DEF Place, Line
    <3>2. Len(log[shown[i].src]) \in Nat BY <3>1, StartTyped DEF TypeInv
    <3> QED BY <2>1, <3>1, <3>2 DEF Place
  <2>3. log'[shown[i].src][shown[i].n] = log[shown[i].src][shown[i].n] BY <2>2, LogsKeep
  <2> QED BY <2>3 DEF StampedIn
<1> QED BY <1>1 DEF MemoryInv, Unique

\* Taking a line keeps MemoryInv: record and line move to the end together.
LEMMA MemoryPass ==
  ASSUME TypeInv, MemoryInv, PassLine PROVE MemoryInv'
<1> DEFINE l == Head(lines)
           line == log[l.src][l.n]
           R == Recorded(LiveOf(l.src), line)
<1>1. Place(log, l) /\ line \in Entry /\ l \in Line /\ l.src \in Src
  <2>1. lines \in Seq(Line) /\ lines # <<>> /\ \A i \in DOMAIN lines : Place(log, lines[i])
    BY DEF PassLine, TypeInv, ServerTypes
  <2>2. Place(log, l) BY <2>1, TailFacts
  <2>3. l.src \in Src /\ l.n \in 1 .. Len(log[l.src]) /\ log[l.src] \in Seq(Entry)
    BY <2>2 DEF Place, Line, TypeInv, ClusterTypes
  <2> QED BY <2>2, <2>3 DEF Place
<1>2. OnLog(l) /\ log' = log /\ limit' = limit BY DEF PassLine, env
<1> HIDE DEF l
<1>3. ASSUME Replayed(SnapshotOf(l.src), line) PROVE MemoryInv'
  <2>1. UNCHANGED <<live, shown>> BY <1>2, <1>3 DEF OnLog
  <2> QED BY <1>2, <2>1 DEF MemoryInv, Unique
<1>4. ASSUME ~Replayed(SnapshotOf(l.src), line) PROVE MemoryInv'
  <2>1. live' = Renewed(l.src, line) /\ shown' = Buffered(l) BY <1>2, <1>4 DEF OnLog
  <2>2. /\ live \in Seq(Record) /\ shown \in Seq(Line)
        /\ limit.buffer \in Nat \ {0} /\ Len(live) \in Nat /\ Len(shown) \in Nat
    BY LimitTyped DEF TypeInv, TabTypes, ClusterTypes
  <2>3. /\ shown' \in Seq(Line) /\ Len(shown') > 0 /\ Len(shown') <= limit.buffer
        /\ shown'[Len(shown')] = l
        /\ \A i \in DOMAIN shown' : i # Len(shown') =>
             \E j \in DOMAIN shown : shown'[i] = shown[j] /\ Len(shown') - i = Len(shown) - j + 1
    BY <1>1, <2>1, BufferedFacts DEF MemoryInv
  <2>4. IF R = NoResume THEN live' = live
        ELSE Outcome(live', l.src, [src |-> l.src, resume |-> R])
    BY <1>1, <2>1, RenewedFacts DEF MemoryInv
  <2>6. \A j \in DOMAIN shown : log[shown[j].src][shown[j].n].at # 0 =>
          \E k \in DOMAIN live : live[k].src = shown[j].src /\ Len(live) - k <= Len(shown) - j
    BY DEF MemoryInv, StampedIn
  <2>7. Unique(live') /\ Len(live') <= limit.buffer
    BY <2>4 DEF MemoryInv, Outcome
  <2>8. ASSUME NEW i \in DOMAIN shown', log[shown'[i].src][shown'[i].n].at # 0
        PROVE  \E k \in DOMAIN live' : /\ live'[k].src = shown'[i].src
                                       /\ Len(live') - k <= Len(shown') - i
    <3>1. i \in 1 .. Len(shown') /\ Len(shown') \in Nat BY <2>3
    <3>2. CASE i = Len(shown')
      <4>1. shown'[i] = l BY <2>3, <3>2
      <4>2. line.at # 0 BY <2>8, <4>1
      <4>3. R # NoResume
        <5>1. R.stamp >= 0
          <6>1. LiveOf(l.src) \in Resume BY LiveOfTyped
          <6>2. LiveOf(l.src).stamp \in Nat \cup {-1} BY <6>1 DEF Resume
          <6> QED BY <1>1, <4>2, <6>1, <6>2 DEF Recorded, Entry, Resume
        <5> QED BY <5>1 DEF NoResume
      <4>4. /\ live' \in Seq(Record) /\ Len(live') > 0
            /\ live'[Len(live')] = [src |-> l.src, resume |-> R]
        BY <2>4, <4>3 DEF Outcome
      <4>5. Len(live') \in DOMAIN live' /\ live'[Len(live')].src = l.src BY <4>4
      <4> QED BY <4>1, <4>4, <4>5, <3>1, <3>2
    <3>3. CASE i # Len(shown')
      <4>1. PICK j \in DOMAIN shown : shown'[i] = shown[j] /\ Len(shown') - i = Len(shown) - j + 1
        BY <2>3, <3>3
      <4>2. PICK k \in DOMAIN live : live[k].src = shown[j].src /\ Len(live) - k <= Len(shown) - j
        BY <2>6, <2>8, <4>1
      <4>3. k \in 1 .. Len(live) /\ j \in 1 .. Len(shown) BY <2>2
      <4>4. Len(live) - k <= Len(shown) - j BY <4>2
      <4>5. Len(shown') - i = Len(shown) - j + 1 BY <4>1
      <4>6. CASE R = NoResume
        <5>1. live' = live BY <2>4, <4>6
        <5>2. Len(live) - k <= Len(shown') - i BY <4>1, <4>2, <4>3, <2>2, <3>1
        <5> QED BY <5>1, <5>2, <4>1, <4>2
      <4>7. CASE R # NoResume
        <5>1. Outcome(live', l.src, [src |-> l.src, resume |-> R]) BY <2>4, <4>7
        <5>2. live' \in Seq(Record) /\ Len(live') \in Nat /\ DOMAIN live' = 1 .. Len(live')
          BY <5>1 DEF Outcome
        <5>3. CASE live[k].src = l.src
          <6>1. Len(live') \in DOMAIN live' /\ live'[Len(live')].src = l.src
            BY <5>1, <5>2 DEF Outcome
          <6> QED BY <6>1, <5>2, <5>3, <4>1, <4>2, <3>1
        <5>4. CASE live[k].src # l.src
          <6>1. CASE \E p \in DOMAIN live' : live'[p] = live[k] /\ Len(live') - p <= Len(live) - k + 1
            <7>1. PICK p \in DOMAIN live' : live'[p] = live[k] /\ Len(live') - p <= Len(live) - k + 1
              BY <6>1
            <7>2. p \in Int /\ k \in Int /\ j \in Int /\ i \in Int
              BY <4>3, <5>2, <2>2, <3>1
            <7>3. PICK a \in Int : a = Len(live) - k BY <7>2, <2>2
            <7>4. PICK b \in Int : b = Len(shown) - j BY <7>2, <2>2
            <7>5. a <= b /\ Len(live') - p <= a + 1 /\ Len(shown') - i = b + 1
              BY <7>1, <7>3, <7>4, <4>4, <4>5
            <7>6. Len(live') - p <= Len(shown') - i
              BY <7>2, <7>5, <5>2, <3>1
            <7>7. live'[p].src = shown'[i].src BY <7>1, <4>1, <4>2
            <7> QED BY <7>6, <7>7
          <6>2. CASE Len(live) - k >= limit.buffer - 1
            <7>1. Len(shown') - i >= limit.buffer BY <6>2, <4>1, <4>2, <4>3, <2>2, <3>1
            <7> QED BY <7>1, <2>3, <3>1, <2>2
          <6> QED BY <5>1, <5>4, <6>1, <6>2 DEF Outcome
        <5> QED BY <5>3, <5>4
      <4> QED BY <4>6, <4>7
    <3> QED BY <3>2, <3>3
  <2>9. \A i \in DOMAIN shown' : StampedIn(log', shown'[i]) =>
          \E k \in DOMAIN live' : /\ live'[k].src = shown'[i].src
                                  /\ Len(live') - k <= Len(shown') - i
    BY <1>2, <2>8 DEF StampedIn
  <2> QED BY <2>3, <2>7, <2>9, <1>2 DEF MemoryInv
<1> QED BY <1>3, <1>4

\* No step changes the bounds of the behaviour.
LEMMA LimitFixed == [Next]_vars => limit' = limit
<1>1. Cluster \/ Sync \/ Resolve \/ PassLine \/ PassGone \/ Connect \/ Break => limit' = limit
  BY DEF Cluster, Sync, Create, Run, Write, Stop, Restart, Finish, Delete, PodMoves, RootMoves,
         SyncRoot, SyncPod, Resolve, PassLine, PassGone, Connect, Break
<1>2. \A s \in Src : Streamer(s) \/ Interrupt(s) => limit' = limit
  BY DEF Streamer, Interrupt, Consider, Open, Scan, Eof, Ends
<1> QED BY <1>1, <1>2 DEF Next, vars

\* Only PassLine touches the tab's records and its buffer.
LEMMA TabFixed == [Next]_vars /\ ~PassLine => UNCHANGED <<live, shown>>
<1>1. Cluster \/ Sync \/ Resolve \/ PassGone \/ Connect \/ Break => UNCHANGED <<live, shown>>
  BY DEF Cluster, Sync, Create, Run, Write, Stop, Restart, Finish, Delete, PodMoves, RootMoves,
         SyncRoot, SyncPod, Resolve, PassGone, Connect, Break, tab
<1>2. \A s \in Src : Streamer(s) \/ Interrupt(s) => UNCHANGED <<live, shown>>
  BY DEF Streamer, Interrupt, Consider, Open, Scan, Eof, Ends, tab
<1> QED BY <1>1, <1>2 DEF Next, vars, tab

\* MemoryInv is an invariant, with the types it rests on.
LEMMA MemoryInvariant == Spec => [](TypeInv /\ MemoryInv)
<1>1. Init => TypeInv /\ MemoryInv
  <2> SUFFICES ASSUME Init PROVE TypeInv /\ MemoryInv OBVIOUS
  <2>1. TypeInv BY InitTyped
  <2>2. limit.buffer \in Nat \ {0} BY <2>1, LimitTyped DEF TypeInv, ClusterTypes
  <2>3. live = <<>> /\ shown = <<>> BY DEF Init
  <2>4. Len(live) = 0 /\ Len(shown) = 0 /\ DOMAIN live = {} /\ DOMAIN shown = {} BY <2>3
  <2> QED BY <2>1, <2>2, <2>4 DEF MemoryInv, Unique
<1>2. TypeInv /\ MemoryInv /\ [Next]_vars => (TypeInv /\ MemoryInv)'
  <2> SUFFICES ASSUME TypeInv, MemoryInv, [Next]_vars PROVE TypeInv' /\ MemoryInv' OBVIOUS
  <2>1. TypeInv' BY StepTyped
  <2>2. PassLine => MemoryInv' BY MemoryPass
  <2>3. ASSUME ~PassLine PROVE MemoryInv'
    <3>1. UNCHANGED <<limit, live, shown>> BY <2>3, LimitFixed, TabFixed
    <3> QED BY <3>1, MemoryKept
  <2> QED BY <2>1, <2>2, <2>3
<1> QED BY <1>1, <1>2, PTL DEF Spec

\* A source that the tab's bounded resume forgot has no stamped line left on
\* screen, so the replay of what is on screen is always filtered.
THEOREM ForgettingIsSafe == Spec => []ForgottenIsGone
<1>1. TypeInv /\ MemoryInv => ForgottenIsGone
  BY DEF MemoryInv, ForgottenIsGone, Known, Stamped, StampedIn
<1> QED BY <1>1, MemoryInvariant, PTL
=============================================================================
