-------------------------- MODULE GraphFeedProofs --------------------------
(***************************************************************************)
(* What holds of the graph feed for every cluster, every number of streams *)
(* and every bound: types, and that no change is ever lost.                *)
(***************************************************************************)
EXTENDS GraphFeed, SequenceTheorems, TLAPS

USE FeedAssumption

\* Node yields a version or 0.
LEMMA NodeType == ASSUME NEW age \in Age PROVE Node(age) \in 0 .. MaxVer
  BY DEF Node, Age, Gone

\* The nodes of a graph form a legal graph store.
LEMMA NodesType == ASSUME NEW g \in Graph PROVE Nodes(g) \in [Objects -> 0 .. MaxVer]
  BY NodeType DEF Nodes, Graph

\* A snapshot is an event.
LEMMA SnapshotType == ASSUME NEW g \in Graph PROVE Snapshot(g) \in Event
  BY NodesType DEF Snapshot, Event

\* The difference of two graphs upserts versions and removes objects.
LEMMA DiffType ==
  ASSUME NEW a \in Graph, NEW b \in Graph
  PROVE  /\ Diff(a, b).upsert \in UNION {[D -> 1 .. MaxVer] : D \in SUBSET Objects}
         /\ Diff(a, b).remove \in SUBSET Objects
<1> DEFINE added == {o \in Objects : Node(b[o]) # 0 /\ Node(b[o]) # Node(a[o])}
<1>1. [o \in added |-> b[o]] \in [added -> 1 .. MaxVer]
  BY DEF Node, Graph, Age, Gone
<1>2. added \in SUBSET Objects
  OBVIOUS
<1>3. Diff(a, b).upsert = [o \in added |-> b[o]]
  BY DEF Diff
<1>4. Diff(a, b).remove \in SUBSET Objects
  BY DEF Diff
<1> HIDE DEF added
<1>5. Diff(a, b).upsert \in UNION {[D -> 1 .. MaxVer] : D \in SUBSET Objects}
  BY <1>1, <1>2, <1>3
<1> QED BY <1>4, <1>5

\* A patch is an event.
LEMMA PatchType == ASSUME NEW a \in Graph, NEW b \in Graph PROVE Patch(a, b) \in Event
<1>1. Diff(a, b) = [upsert |-> Diff(a, b).upsert, remove |-> Diff(a, b).remove]
  BY DEF Diff
<1> QED BY <1>1, DiffType DEF Patch, Event

\* Applying a well-typed patch leaves a legal graph store.
LEMMA ApplyType ==
  ASSUME NEW g \in [Objects -> 0 .. MaxVer], NEW e \in Event, e.type = "patch"
  PROVE  ApplyPatch(g, e.payload) \in [Objects -> 0 .. MaxVer]
<1>1. PICK D \in SUBSET Objects : e.payload.upsert \in [D -> 1 .. MaxVer]
  BY DEF Event
<1>2. \A o \in Objects : o \in DOMAIN e.payload.upsert => e.payload.upsert[o] \in 0 .. MaxVer
  BY <1>1
<1> QED BY <1>2 DEF ApplyPatch

-----------------------------------------------------------------------------
\* The initial state is well-typed.
LEMMA TypeInit == Init => TypeOK
  BY DEF Init, TypeOK, Graph, Age, Gone, Empty

\* Every step keeps every variable in its type.
LEMMA TypeStep == TypeOK /\ [Next]_vars => TypeOK'
<1> SUFFICES ASSUME TypeOK, [Next]_vars PROVE TypeOK'
  OBVIOUS
<1> USE DEF TypeOK
<1>0. Empty \in Graph
  BY DEF Empty, Graph, Age, Gone
<1>1. ASSUME NEW o \in Objects, ClusterChange(o) PROVE TypeOK'
  <2>1. PICK age \in {cluster[o] + 1, Gone} : cluster' = [cluster EXCEPT ![o] = age]
    BY <1>1 DEF ClusterChange
  <2>2. age \in Age
    BY <1>1 DEF ClusterChange, Graph, Age, Gone
  <2>3. cluster' \in Graph
    BY <2>1, <2>2 DEF Graph
  <2> QED BY <1>1, <2>3 DEF ClusterChange, server, browser
<1>2. ASSUME NEW o \in Objects, InformerApply(o) PROVE TypeOK'
  <2>1. PICK age \in cached[o] + 1 .. cluster[o] :
          /\ cached' = [cached EXCEPT ![o] = age]
          /\ inflight' = [inflight EXCEPT ![KindOf[o]] = @ + 1]
    BY <1>2 DEF InformerApply
  <2>2. age \in Age
    BY DEF Graph, Age, Gone
  <2>3. cached' \in Graph
    BY <2>1, <2>2 DEF Graph
  <2>4. inflight' \in [Kinds -> Nat]
    BY <2>1
  <2> QED BY <1>2, <2>3, <2>4 DEF InformerApply, browser
<1>3. ASSUME NEW k \in Kinds, Notify(k) PROVE TypeOK'
  BY <1>3 DEF Notify, browser, Woken
<1>4. ASSUME NEW s \in Streams, Handler(s) PROVE TypeOK'
  <2>1. CASE Subscribe(s)
    BY <2>1 DEF Subscribe, browser
  <2>2. ASSUME NEW k \in Kinds, ReadKind(s, k) PROVE TypeOK'
    <3>1. next' \in [Streams -> Graph]
      BY <2>2 DEF ReadKind, Graph
    <3>2. todo' \in [Streams -> SUBSET Kinds]
      BY <2>2 DEF ReadKind
    <3> QED BY <2>2, <3>1, <3>2 DEF ReadKind, browser
  <2>3. CASE SendSnapshot(s)
    <3>1. wire' \in [Streams -> Seq(Event)]
      BY <2>3, SnapshotType DEF SendSnapshot
    <3> QED BY <2>3, <3>1 DEF SendSnapshot, browser
  <2>4. CASE TakeChange(s)
    BY <2>4 DEF TakeChange, browser
  <2>5. CASE Debounce(s)
    BY <2>5, <1>0 DEF Debounce, browser
  <2>6. CASE SendPatch(s)
    <3>1. wire' \in [Streams -> Seq(Event)]
      <4>1. Patch(prev[s], next[s]) \in Event
        BY PatchType
      <4>2. CASE UNCHANGED wire
        BY <4>2
      <4>3. CASE wire' = [wire EXCEPT ![s] = Append(@, Patch(prev[s], next[s]))]
        BY <4>1, <4>3
      <4> QED BY <2>6, <4>2, <4>3 DEF SendPatch
    <3>2. prev' \in [Streams -> Graph] /\ pc'[s] = "loop"
      BY <2>6 DEF SendPatch
    <3> QED BY <2>6, <3>1, <3>2 DEF SendPatch, browser
  <2>7. CASE HandlerReturn(s)
    BY <2>7, <1>0 DEF HandlerReturn, browser
  <2> QED BY <1>4, <2>1, <2>2, <2>3, <2>4, <2>5, <2>6, <2>7 DEF Handler
<1>5. ASSUME NEW s \in Streams, Stall(s) \/ Drop(s) PROVE TypeOK'
  <2>1. CASE Stall(s)
    BY <2>1 DEF Stall, server, browser
  <2>2. CASE Drop(s)
    BY <2>2 DEF Drop, server, browser
  <2> QED BY <1>5, <2>1, <2>2
<1>6. CASE Restart
  BY <1>6, <1>0 DEF Restart
<1>7. ASSUME NEW s \in Streams, NEW ns \in Namespaces, OpenNamespace(s, ns) PROVE TypeOK'
  BY <1>7, <1>0 DEF OpenNamespace, Connect, Empty
<1>8. ASSUME NEW s \in Streams, Retry(s) \/ WatchdogReconnect(s) PROVE TypeOK'
  <2>1. CASE Retry(s)
    BY <2>1 DEF Retry, Connect
  <2>2. CASE WatchdogReconnect(s)
    BY <2>2 DEF WatchdogReconnect, Connect
  <2> QED BY <1>8, <2>1, <2>2
<1>9. ASSUME NEW s \in Streams, Receive(s) PROVE TypeOK'
  <2> DEFINE e == Head(wire[s])
  <2>1. e \in Event /\ wire' \in [Streams -> Seq(Event)]
    BY <1>9 DEF Receive
  <2>2. e.of \in Graph
    BY <2>1 DEF Event
  <2>3. ASSUME OnSnapshot(e) PROVE graph' \in [Objects -> 0 .. MaxVer]
    BY <2>1, <2>3 DEF OnSnapshot, Event
  <2>4. ASSUME OnPatch(e) PROVE graph' \in [Objects -> 0 .. MaxVer]
    BY <2>1, <2>4, ApplyType DEF OnPatch
  <2> HIDE DEF e
  <2>5. ASSUME Shows(e) PROVE shown' \in Graph /\ seen' \in Graph
    BY <2>2, <2>5 DEF Shows, Graph
  <2>6. CASE Fresh(s)
    <3>1. OnSnapshot(e) \/ OnPatch(e)
      BY <1>9, <2>6 DEF Receive, e
    <3>2. graph' \in [Objects -> 0 .. MaxVer]
      BY <3>1, <2>3, <2>4
    <3>3. connState' \in {"connecting", "live", "offline"} /\ Shows(e)
      BY <3>1 DEF OnSnapshot, OnPatch
    <3> QED BY <1>9, <2>1, <2>5, <3>2, <3>3 DEF Receive, server
  <2>7. CASE ~Fresh(s)
    BY <1>9, <2>1, <2>7 DEF Receive, server
  <2> QED BY <2>6, <2>7
<1>10. CASE OnError
  BY <1>10 DEF OnError, server
<1>11. CASE UNCHANGED vars
  BY <1>11 DEF vars, server, browser
<1> QED
  BY <1>1, <1>2, <1>3, <1>4, <1>5, <1>6, <1>7, <1>8, <1>9, <1>10, <1>11 DEF Next

\* The variables keep their types.
THEOREM TypeCorrect == Spec => []TypeOK
  BY TypeInit, TypeStep, PTL DEF Spec

-----------------------------------------------------------------------------
(***************************************************************************)
(* No lost change.  The property is inductive together with the fact that  *)
(* a handler past Subscribe holds its subscription: whatever makes a graph *)
(* stale leaves a handler call in flight, Notify turns the call into a     *)
(* signal, TakeChange turns the signal into an armed timer, Debounce turns *)
(* the timer into a build that has everything left to read.                *)
(***************************************************************************)
FeedInv == TypeOK /\ Subscribed /\ NoLostChange

\* A step that leaves a stream's own state, its kinds' events and the cache
\* as they are keeps what NoLostChange says of that stream.
LEMMA QuietStep ==
  ASSUME NEW s \in Streams, NEW k \in Kinds,
         LoopKeepsUp(s, k), BuildKeepsUp(s, k),
         UNCHANGED <<cached, inflight>>,
         UNCHANGED <<pc[s], scope[s], prev[s], next[s], todo[s], changes[s], armed[s]>>
  PROVE  LoopKeepsUp(s, k)' /\ BuildKeepsUp(s, k)'
  BY DEF LoopKeepsUp, BuildKeepsUp, Differ

\* No lost change holds initially.
LEMMA FeedInit == Init => FeedInv
  BY TypeInit DEF Init, FeedInv, Subscribed, NoLostChange, LoopKeepsUp, BuildKeepsUp

\* Every step keeps subscriptions where they are needed.
LEMMA SubscribedStep == FeedInv /\ [Next]_vars => Subscribed'
<1> SUFFICES ASSUME FeedInv, [Next]_vars, NEW s \in Streams,
                    pc'[s] \in {"snapshot", "loop", "rebuild"}
             PROVE  s \in subs'
  BY DEF Subscribed
<1> USE DEF FeedInv, TypeOK, Subscribed
<1>1. CASE pc'[s] = pc[s] /\ subs' = subs
  BY <1>1
<1>2. ASSUME NEW t \in Streams, Handler(t) PROVE s \in subs'
  BY <1>2 DEF Handler, Subscribe, ReadKind, SendSnapshot, TakeChange, Debounce, SendPatch,
              HandlerReturn
<1>3. CASE Restart
  BY <1>3 DEF Restart
<1>4. ASSUME NEW t \in Streams, NEW ns \in Namespaces, Connect(t, ns) PROVE s \in subs'
  BY <1>4 DEF Connect
<1> QED
  BY <1>1, <1>2, <1>3, <1>4
  DEF Next, vars, server, ClusterChange, InformerApply, Notify, Stall, Drop, OpenNamespace,
      Retry, WatchdogReconnect, Receive, OnError

\* Every step keeps stale graphs accounted for.
LEMMA NoLostChangeStep == FeedInv /\ [Next]_vars => NoLostChange'
<1> SUFFICES ASSUME FeedInv, [Next]_vars, NEW s \in Streams, NEW k \in Kinds
             PROVE  LoopKeepsUp(s, k)' /\ BuildKeepsUp(s, k)'
  BY DEF NoLostChange
<1> USE DEF FeedInv, TypeOK
<1>1. LoopKeepsUp(s, k) /\ BuildKeepsUp(s, k)
  BY DEF NoLostChange
<1>2. ASSUME NEW o \in Objects, InformerApply(o) PROVE LoopKeepsUp(s, k)' /\ BuildKeepsUp(s, k)'
  <2>1. CASE k = KindOf[o]
    BY <1>2, <2>1 DEF InformerApply, LoopKeepsUp, BuildKeepsUp
  <2>2. CASE k # KindOf[o]
    <3>1. \A x \in Objects : KindOf[x] = k => cached'[x] = cached[x]
      BY <1>2, <2>2 DEF InformerApply, Graph
    <3>2. inflight'[k] = inflight[k]
      BY <1>2, <2>2 DEF InformerApply
    <3> QED BY <1>1, <1>2, <3>1, <3>2 DEF InformerApply, LoopKeepsUp, BuildKeepsUp, Differ
  <2> QED BY <2>1, <2>2
<1>3. ASSUME NEW j \in Kinds, Notify(j) PROVE LoopKeepsUp(s, k)' /\ BuildKeepsUp(s, k)'
  <2>1. pc[s] \in {"snapshot", "loop", "rebuild"} => changes'[s]
    BY <1>3 DEF Notify, Woken, Subscribed
  <2> QED BY <1>3, <2>1 DEF Notify, LoopKeepsUp, BuildKeepsUp
<1>4. ASSUME NEW t \in Streams, Handler(t) PROVE LoopKeepsUp(s, k)' /\ BuildKeepsUp(s, k)'
  <2>1. CASE s # t
    <3>1. UNCHANGED <<pc[s], scope[s], prev[s], next[s], todo[s], changes[s], armed[s], cached, inflight>>
      BY <1>4, <2>1
      DEF Handler, Subscribe, ReadKind, SendSnapshot, TakeChange, Debounce, SendPatch, HandlerReturn
    <3> QED BY <1>1, <3>1, QuietStep
  <2>2. CASE s = t
    <3>1. CASE Subscribe(s)
      BY <3>1 DEF Subscribe, LoopKeepsUp, BuildKeepsUp
    <3>2. ASSUME NEW j \in Kinds, ReadKind(s, j) PROVE LoopKeepsUp(s, k)' /\ BuildKeepsUp(s, k)'
      <4>1. LoopKeepsUp(s, k)'
        BY <1>1, <3>2 DEF ReadKind, LoopKeepsUp, Differ
      <4>2. CASE j = k
        <5>1. ~Differ(next[s], cached, k, scope[s])'
          BY <3>2, <4>2 DEF ReadKind, Differ
        <5> QED BY <4>1, <5>1 DEF BuildKeepsUp
      <4>3. CASE j # k
        <5>1. \A o \in Objects : KindOf[o] = k => next'[s][o] = next[s][o]
          BY <3>2, <4>3 DEF ReadKind
        <5> QED BY <1>1, <3>2, <4>1, <4>3, <5>1 DEF ReadKind, BuildKeepsUp, Differ
      <4> QED BY <4>2, <4>3
    <3>3. CASE SendSnapshot(s)
      BY <1>1, <3>3 DEF SendSnapshot, LoopKeepsUp, BuildKeepsUp, Differ
    <3>4. CASE TakeChange(s)
      BY <3>4 DEF TakeChange, LoopKeepsUp, BuildKeepsUp
    <3>5. CASE Debounce(s)
      BY <3>5 DEF Debounce, LoopKeepsUp, BuildKeepsUp
    <3>6. CASE SendPatch(s)
      BY <1>1, <3>6 DEF SendPatch, LoopKeepsUp, BuildKeepsUp, Differ
    <3>7. CASE HandlerReturn(s)
      BY <3>7 DEF HandlerReturn, LoopKeepsUp, BuildKeepsUp
    <3> QED BY <1>4, <2>2, <3>1, <3>2, <3>3, <3>4, <3>5, <3>6, <3>7 DEF Handler
  <2> QED BY <2>1, <2>2
<1>5. CASE Restart
  BY <1>5 DEF Restart, LoopKeepsUp, BuildKeepsUp
<1>6. ASSUME NEW t \in Streams, NEW ns \in Namespaces, Connect(t, ns)
      PROVE  LoopKeepsUp(s, k)' /\ BuildKeepsUp(s, k)'
  <2>1. CASE s = t
    BY <1>6, <2>1 DEF Connect, LoopKeepsUp, BuildKeepsUp
  <2>2. CASE s # t
    BY <1>1, <1>6, <2>2, QuietStep DEF Connect
  <2> QED BY <2>1, <2>2
<1>7. CASE UNCHANGED <<cached, server>>
  BY <1>1, <1>7, QuietStep DEF server
<1> QED
  BY <1>2, <1>3, <1>4, <1>5, <1>6, <1>7
  DEF Next, vars, ClusterChange, Stall, Drop, OpenNamespace, Retry, WatchdogReconnect, Receive,
      OnError

\* A stream never waits while its graph is stale and nothing is on its way to
\* wake it (store.go notify, sse.go handleGraphStream).
THEOREM NoChangeLost == Spec => []NoLostChange
<1>1. FeedInv /\ [Next]_vars => FeedInv'
  BY TypeStep, SubscribedStep, NoLostChangeStep DEF FeedInv
<1>2. FeedInv => NoLostChange
  BY DEF FeedInv
<1> QED BY FeedInit, <1>1, <1>2, PTL DEF Spec

-----------------------------------------------------------------------------
(***************************************************************************)
(* Patches apply.  The events on a wire form a chain of graphs: a snapshot *)
(* only comes first, a patch is the difference from the graph before it,   *)
(* the last event brings the graph the handler holds as prev, and for the  *)
(* tab's own source the first patch starts from what is on screen.         *)
(***************************************************************************)
IsPatch(e, g) == e.type = "patch" /\ e.payload = Diff(g, e.of)

IsSnapshot(e) == e.type = "snapshot" /\ e.payload = Nodes(e.of)

\* w: the wire; mine: it is the tab's source; base: the graph on screen;
\* state and last: where the handler is and its prev.
ChainOf(w, mine, base, state, last) ==
  /\ state \in {"subscribe", "snapshot"} => w = <<>>
  /\ w # <<>> => IsSnapshot(w[1]) \/ (w[1].type = "patch" /\ (mine => IsPatch(w[1], base)))
  /\ \A i \in 2 .. Len(w) : IsPatch(w[i], w[i - 1].of)
  /\ state \in {"loop", "rebuild"} /\ w = <<>> => (mine => Nodes(base) = Nodes(last))
  /\ state \in {"loop", "rebuild"} /\ w # <<>> => Nodes(w[Len(w)].of) = Nodes(last)

Chain(s) == ChainOf(wire[s], s = cur, shown, pc[s], prev[s])

WireInv == ScreenIsBuilt /\ \A s \in Streams : Chain(s)

\* A difference only depends on the nodes of the graph it starts from.
LEMMA DiffBase ==
  ASSUME NEW a \in Graph, NEW b \in Graph, NEW c \in Graph, Nodes(a) = Nodes(b)
  PROVE  Diff(a, c) = Diff(b, c)
<1>1. \A o \in Objects : Node(a[o]) = Node(b[o])
  BY DEF Nodes
<1> QED BY <1>1 DEF Diff

\* Diff and applyPatch are inverse: the patch from a to b turns a into b.
LEMMA PatchRoundTrip ==
  ASSUME NEW a \in Graph, NEW b \in Graph
  PROVE  ApplyPatch(Nodes(a), Diff(a, b)) = Nodes(b)
<1> SUFFICES ASSUME NEW o \in Objects
             PROVE  ApplyPatch(Nodes(a), Diff(a, b))[o] = Node(b[o])
  BY DEF ApplyPatch, Nodes
<1> DEFINE added == {x \in Objects : Node(b[x]) # 0 /\ Node(b[x]) # Node(a[x])}
<1>1. Diff(a, b).upsert = [x \in added |-> b[x]]
  BY DEF Diff
<1>2. Diff(a, b).remove = {x \in Objects : Node(a[x]) # 0 /\ Node(b[x]) = 0}
  BY DEF Diff
<1>3. b[o] \in Age /\ a[o] \in Age
  BY DEF Graph
<1>4. CASE o \in Diff(a, b).remove
  BY <1>2, <1>4 DEF ApplyPatch
<1>5. CASE o \notin Diff(a, b).remove /\ o \in added
  <2>1. Node(b[o]) = b[o]
    BY <1>5 DEF Node
  <2> QED BY <1>1, <1>5, <2>1 DEF ApplyPatch
<1>6. CASE o \notin Diff(a, b).remove /\ o \notin added
  <2>1. Node(b[o]) = Node(a[o])
    BY <1>2, <1>6
  <2> QED BY <1>1, <1>6, <2>1 DEF ApplyPatch, Nodes
<1> QED BY <1>4, <1>5, <1>6

\* An empty difference means the same nodes.
LEMMA NoChangeMeansEqual ==
  ASSUME NEW a \in Graph, NEW b \in Graph, NoChange(Diff(a, b))
  PROVE  Nodes(a) = Nodes(b)
<1>1. \A o \in Objects : Node(a[o]) = Node(b[o])
  BY DEF NoChange, Diff
<1> QED BY <1>1 DEF Nodes

\* The tail of a sequence, element by element.
LEMMA TailFacts ==
  ASSUME NEW S, NEW w \in Seq(S), w # <<>>
  PROVE  /\ Len(w) \in Nat \ {0} /\ Head(w) = w[1]
         /\ Tail(w) \in Seq(S) /\ Len(Tail(w)) = Len(w) - 1
         /\ Tail(w) = <<>> <=> Len(w) = 1
         /\ \A i \in 1 .. Len(w) - 1 : Tail(w)[i] = w[i + 1]
<1>1. Len(w) \in Nat \ {0}
  BY EmptySeq
<1>2. Tail(w) \in Seq(S) /\ Len(Tail(w)) = Len(w) - 1
      /\ \A i \in 1 .. Len(Tail(w)) : Tail(w)[i] = w[i + 1]
  BY HeadTailProperties
<1>3. Tail(w) = <<>> <=> Len(Tail(w)) = 0
  BY <1>2, EmptySeq
<1> QED BY <1>1, <1>2, <1>3

\* Appending an event that continues the chain keeps it.
LEMMA AppendChain ==
  ASSUME NEW w \in Seq(Event), NEW e \in Event, NEW mine \in BOOLEAN, NEW base,
         NEW state, NEW last, NEW new, ChainOf(w, mine, base, state, last),
         Nodes(e.of) = Nodes(new),
         w = <<>> => IsSnapshot(e) \/ (e.type = "patch" /\ (mine => IsPatch(e, base))),
         w # <<>> => IsPatch(e, w[Len(w)].of)
  PROVE  ChainOf(Append(w, e), mine, base, "loop", new)
<1> DEFINE v == Append(w, e)
<1>1. /\ Len(w) \in Nat /\ Len(v) = Len(w) + 1 /\ v # <<>> /\ v[Len(w) + 1] = e
      /\ \A i \in 1 .. Len(w) : v[i] = w[i]
  BY AppendProperties
<1>2. w # <<>> => Len(w) >= 1
  BY EmptySeq
<1>3. w = <<>> => Len(w) = 0
  OBVIOUS
<1> HIDE DEF v
<1>4. ASSUME NEW i \in 2 .. Len(v) PROVE IsPatch(v[i], v[i - 1].of)
  <2>1. CASE i <= Len(w)
    <3>1. v[i] = w[i] /\ v[i - 1] = w[i - 1] /\ i \in 2 .. Len(w)
      BY <1>1, <1>4, <2>1
    <3> QED BY <3>1 DEF ChainOf
  <2>2. CASE i = Len(w) + 1
    <3>1. w # <<>> /\ i - 1 = Len(w) /\ i - 1 \in 1 .. Len(w)
      BY <1>1, <1>3, <1>4, <2>2
    <3>2. v[i] = e /\ v[i - 1] = w[Len(w)]
      BY <1>1, <2>2, <3>1
    <3> QED BY <3>1, <3>2
  <2> QED BY <1>1, <1>4, <2>1, <2>2
<1>5. IsSnapshot(v[1]) \/ (v[1].type = "patch" /\ (mine => IsPatch(v[1], base)))
  <2>1. CASE w = <<>>
    BY <1>1, <1>3, <2>1
  <2>2. CASE w # <<>>
    <3>1. v[1] = w[1]
      BY <1>1, <1>2, <2>2
    <3> QED BY <2>2, <3>1 DEF ChainOf
  <2> QED BY <2>1, <2>2
<1>6. v[Len(v)] = e
  BY <1>1
<1> QED BY <1>1, <1>4, <1>5, <1>6 DEF ChainOf, v

\* Taking the first event keeps the chain, from the graph that event brings.
LEMMA TailChain ==
  ASSUME NEW w \in Seq(Event), w # <<>>, NEW mine \in BOOLEAN, NEW base, NEW to,
         mine => to = Head(w).of,
         NEW state, NEW last, ChainOf(w, mine, base, state, last)
  PROVE  ChainOf(Tail(w), mine, to, state, last)
<1> DEFINE v == Tail(w)
<1>1. /\ Len(w) \in Nat \ {0} /\ Head(w) = w[1] /\ Len(v) = Len(w) - 1
      /\ v = <<>> <=> Len(w) = 1
      /\ \A i \in 1 .. Len(w) - 1 : v[i] = w[i + 1]
  BY TailFacts
<1> HIDE DEF v
<1>2. state \notin {"subscribe", "snapshot"}
  BY DEF ChainOf
<1>3. ASSUME NEW i \in 1 .. Len(v) PROVE IsPatch(v[i], w[i].of)
  <2>1. i + 1 \in 2 .. Len(w) /\ v[i] = w[i + 1] /\ (i + 1) - 1 = i
    BY <1>1
  <2> QED BY <2>1 DEF ChainOf
<1>4. ASSUME NEW i \in 2 .. Len(v) PROVE IsPatch(v[i], v[i - 1].of)
  <2>1. v[i - 1] = w[i]
    BY <1>1
  <2> QED BY <1>1, <1>3, <2>1
<1>5. v # <<>> => v[1].type = "patch" /\ (mine => IsPatch(v[1], to))
  <2> SUFFICES ASSUME v # <<>> PROVE v[1].type = "patch" /\ (mine => IsPatch(v[1], to))
    OBVIOUS
  <2>1. IsPatch(v[1], w[1].of)
    BY <1>1, <1>3
  <2> QED BY <1>1, <2>1 DEF IsPatch
<1>6. state \in {"loop", "rebuild"} => Nodes(w[Len(w)].of) = Nodes(last)
  BY DEF ChainOf
<1>7. v = <<>> => w[Len(w)] = w[1]
  BY <1>1
<1>8. v # <<>> => v[Len(v)] = w[Len(w)]
  BY <1>1
<1>9. state \in {"loop", "rebuild"} /\ v = <<>> => (mine => Nodes(to) = Nodes(last))
  BY <1>1, <1>6, <1>7
<1>10. state \in {"loop", "rebuild"} /\ v # <<>> => Nodes(v[Len(v)].of) = Nodes(last)
  BY <1>6, <1>8
<1> QED BY <1>2, <1>4, <1>5, <1>9, <1>10 DEF ChainOf, v

-----------------------------------------------------------------------------
\* The chains start empty and the screen blank.
LEMMA WireInit == Init => WireInv
<1> SUFFICES ASSUME Init PROVE WireInv
  OBVIOUS
<1>1. ScreenIsBuilt
  BY DEF Init, ScreenIsBuilt, Nodes, Node, Empty, Gone
<1>2. \A s \in Streams : Chain(s)
  BY DEF Init, Chain, ChainOf
<1> QED BY <1>1, <1>2 DEF WireInv

\* A step that leaves a stream's wire and handler alone, and neither makes it
\* the tab's source nor changes the screen of its tab, keeps its chain.
LEMMA ChainFrame ==
  ASSUME NEW s \in Streams, Chain(s),
         UNCHANGED <<wire[s], pc[s], prev[s]>>,
         s = cur' => s = cur /\ shown' = shown
  PROVE  Chain(s)'
<1>1. CASE s = cur'
  BY <1>1 DEF Chain
<1>2. CASE s # cur'
  <2>1. ChainOf(wire[s], FALSE, shown', pc[s], prev[s])
    BY DEF Chain, ChainOf
  <2> QED BY <1>2, <2>1 DEF Chain
<1> QED BY <1>1, <1>2

\* Receiving an event keeps the screen equal to a built graph, and the chains.
LEMMA ReceiveKeepsWire ==
  ASSUME TypeOK, WireInv, NEW s \in Streams, Receive(s)
  PROVE  WireInv'
<1> DEFINE e == Head(wire[s])
<1> USE DEF TypeOK
<1>1. wire[s] \in Seq(Event) /\ wire[s] # <<>> /\ e = wire[s][1] /\ e \in Event
  BY TailFacts DEF Receive
<1>2. wire'[s] = Tail(wire[s]) /\ \A t \in Streams \ {s} : wire'[t] = wire[t]
  BY DEF Receive
<1>3. UNCHANGED <<pc, prev, cur>>
  BY DEF Receive, server
<1>4. Chain(s)
  BY DEF WireInv
<1>5. CASE s = cur
  <2>1. Shows(e) /\ (OnSnapshot(e) \/ OnPatch(e))
    BY <1>5 DEF Receive, Fresh, OnSnapshot, OnPatch
  <2>2. shown' = e.of
    BY <2>1 DEF Shows
  <2>3. e.of \in Graph
    BY <1>1 DEF Event
  <2>4. graph' = Nodes(e.of)
    <3>1. IsSnapshot(e) \/ IsPatch(e, shown)
      BY <1>1, <1>4, <1>5 DEF Chain, ChainOf
    <3>2. CASE OnSnapshot(e)
      BY <3>1, <3>2 DEF OnSnapshot, IsSnapshot, IsPatch
    <3>3. CASE OnPatch(e)
      <4>1. graph = Nodes(shown)
        BY DEF WireInv, ScreenIsBuilt
      <4>2. graph' = ApplyPatch(Nodes(shown), Diff(shown, e.of))
        BY <3>1, <3>3, <4>1 DEF OnPatch, IsSnapshot, IsPatch
      <4> QED BY <2>3, <4>2, PatchRoundTrip
    <3> QED BY <2>1, <3>2, <3>3
  <2>5. ScreenIsBuilt'
    BY <2>2, <2>4 DEF ScreenIsBuilt, Nodes
  <2>6. ChainOf(Tail(wire[s]), s = cur, shown', pc[s], prev[s])
    BY <1>1, <1>4, <2>2, TailChain DEF Chain
  <2>7. Chain(s)'
    BY <1>2, <1>3, <2>6 DEF Chain
  <2>8. \A t \in Streams \ {s} : Chain(t)'
    BY <1>2, <1>3, <1>5, ChainFrame DEF WireInv
  <2> QED BY <2>5, <2>7, <2>8 DEF WireInv
<1>6. CASE s # cur
  <2>1. UNCHANGED <<graph, shown>>
    BY <1>6 DEF Receive, Fresh
  <2>2. ScreenIsBuilt'
    BY <2>1 DEF WireInv, ScreenIsBuilt, Nodes
  <2>3. ChainOf(Tail(wire[s]), s = cur, shown, pc[s], prev[s])
    BY <1>1, <1>4, <1>6, TailChain DEF Chain
  <2>4. Chain(s)'
    BY <1>2, <1>3, <2>1, <2>3 DEF Chain
  <2>5. \A t \in Streams \ {s} : Chain(t)'
    BY <1>2, <1>3, <2>1, ChainFrame DEF WireInv
  <2> QED BY <2>2, <2>4, <2>5 DEF WireInv
<1> QED BY <1>5, <1>6

\* A handler step keeps the chain of its stream.
LEMMA HandlerKeepsChain ==
  ASSUME TypeOK, NEW s \in Streams, Chain(s), Handler(s)
  PROVE  Chain(s)'
<1> USE DEF TypeOK
<1> DEFINE w == wire[s]
<1>1. UNCHANGED <<cur, shown>>
  BY DEF Handler, Subscribe, ReadKind, SendSnapshot, TakeChange, Debounce, SendPatch,
         HandlerReturn, browser
<1>2. CASE Subscribe(s)
  BY <1>1, <1>2 DEF Subscribe, Chain, ChainOf
<1>3. ASSUME NEW k \in Kinds, ReadKind(s, k) PROVE Chain(s)'
  BY <1>1, <1>3 DEF ReadKind, Chain
<1>4. CASE SendSnapshot(s)
  <2> DEFINE e == Snapshot(next[s])
  <2>1. e \in Event /\ IsSnapshot(e) /\ e.of = next[s]
    BY SnapshotType DEF Snapshot, IsSnapshot
  <2>2. w = <<>>
    BY <1>4 DEF SendSnapshot, Chain, ChainOf
  <2> HIDE DEF e
  <2>3. ChainOf(Append(w, e), s = cur, shown, "loop", next[s])
    BY <2>1, <2>2, AppendChain DEF Chain
  <2>4. wire'[s] = Append(w, e) /\ pc'[s] = "loop" /\ prev'[s] = next[s]
    BY <1>4 DEF SendSnapshot, e
  <2> QED BY <1>1, <2>3, <2>4 DEF Chain
<1>5. CASE TakeChange(s)
  BY <1>1, <1>5 DEF TakeChange, Chain
<1>6. CASE Debounce(s)
  BY <1>1, <1>6 DEF Debounce, Chain, ChainOf
<1>7. CASE SendPatch(s)
  <2>1. pc[s] = "rebuild" /\ pc'[s] = "loop" /\ prev'[s] = next[s]
    BY <1>7 DEF SendPatch
  <2>2. CASE NoChange(Diff(prev[s], next[s])) /\ UNCHANGED wire
    <3>1. Nodes(prev[s]) = Nodes(next[s])
      BY <2>2, NoChangeMeansEqual
    <3> QED BY <1>1, <2>1, <2>2, <3>1 DEF Chain, ChainOf
  <2>3. CASE wire' = [wire EXCEPT ![s] = Append(@, Patch(prev[s], next[s]))]
    <3> DEFINE e == Patch(prev[s], next[s])
    <3>1. e \in Event /\ e.type = "patch" /\ e.of = next[s] /\ e.payload = Diff(prev[s], next[s])
      BY PatchType DEF Patch
    <3>2. w \in Seq(Event)
      OBVIOUS
    <3>3. ASSUME w = <<>>, s = cur PROVE IsPatch(e, shown)
      <4>1. Nodes(shown) = Nodes(prev[s])
        BY <2>1, <3>3 DEF Chain, ChainOf
      <4> QED BY <3>1, <4>1, DiffBase DEF IsPatch
    <3>4. ASSUME w # <<>> PROVE IsPatch(e, w[Len(w)].of)
      <4>1. Nodes(w[Len(w)].of) = Nodes(prev[s])
        BY <2>1, <3>4 DEF Chain, ChainOf
      <4>2. w[Len(w)] \in Event
        BY <3>2, <3>4, EmptySeq
      <4>3. w[Len(w)].of \in Graph
        BY <4>2 DEF Event
      <4> QED BY <3>1, <4>1, <4>3, DiffBase DEF IsPatch
    <3> HIDE DEF e, w
    <3>5. ChainOf(Append(w, e), s = cur, shown, "loop", next[s])
      <4>1. ChainOf(w, s = cur, shown, pc[s], prev[s])
        BY DEF Chain, w
      <4> QED BY <3>1, <3>2, <3>3, <3>4, <4>1, AppendChain
    <3>6. wire'[s] = Append(w, e)
      BY <2>3 DEF w, e
    <3> QED BY <1>1, <2>1, <3>5, <3>6 DEF Chain
  <2> QED BY <1>7, <2>2, <2>3 DEF SendPatch
<1>8. CASE HandlerReturn(s)
  BY <1>1, <1>8 DEF HandlerReturn, Chain, ChainOf
<1> QED BY <1>2, <1>3, <1>4, <1>5, <1>6, <1>7, <1>8 DEF Handler

\* Every step keeps the screen a built graph and the wires chained.
LEMMA WireStep == TypeOK /\ WireInv /\ [Next]_vars => WireInv'
<1> SUFFICES ASSUME TypeOK, WireInv, [Next]_vars PROVE WireInv'
  OBVIOUS
<1>1. ASSUME NEW s \in Streams, Handler(s) PROVE WireInv'
  <2>1. UNCHANGED <<cur, shown, graph>>
    BY <1>1 DEF Handler, Subscribe, ReadKind, SendSnapshot, TakeChange, Debounce, SendPatch,
                HandlerReturn, browser
  <2>2. \A t \in Streams \ {s} : UNCHANGED <<wire[t], pc[t], prev[t]>>
    BY <1>1 DEF Handler, Subscribe, ReadKind, SendSnapshot, TakeChange, Debounce, SendPatch,
                HandlerReturn, TypeOK
  <2>3. \A t \in Streams \ {s} : Chain(t)'
    BY <2>1, <2>2, ChainFrame DEF WireInv
  <2>4. Chain(s)'
    BY <1>1, HandlerKeepsChain DEF WireInv
  <2> QED BY <2>1, <2>3, <2>4 DEF WireInv, ScreenIsBuilt, Nodes
<1>2. ASSUME NEW s \in Streams, NEW ns \in Namespaces, Connect(s, ns),
             (graph' = graph /\ shown' = shown) \/ (graph' = Empty /\ shown' = Empty)
      PROVE  WireInv'
  <2>1. ScreenIsBuilt'
    BY <1>2 DEF WireInv, ScreenIsBuilt, Nodes, Node, Empty, Gone
  <2>2. wire'[s] = <<>> /\ pc'[s] = "subscribe" /\ cur' = s
    BY <1>2 DEF Connect, TypeOK
  <2>3. Chain(s)'
    BY <2>2 DEF Chain, ChainOf
  <2>4. \A t \in Streams \ {s} : UNCHANGED <<wire[t], pc[t], prev[t]>>
    BY <1>2 DEF Connect, TypeOK
  <2>5. \A t \in Streams \ {s} : Chain(t)'
    BY <2>2, <2>4, ChainFrame DEF WireInv
  <2> QED BY <2>1, <2>3, <2>5 DEF WireInv
<1>3. CASE Restart
  BY <1>3 DEF Restart, WireInv, ScreenIsBuilt, Chain, ChainOf, Nodes
<1>4. ASSUME NEW s \in Streams, Receive(s) PROVE WireInv'
  BY <1>4, ReceiveKeepsWire
<1>5. CASE OnError
  <2>1. \A t \in Streams : t # cur'
    BY <1>5, FeedAssumption DEF OnError
  <2>2. UNCHANGED <<wire, pc, prev, shown, graph>>
    BY <1>5 DEF OnError, server
  <2>3. \A t \in Streams : Chain(t)'
    BY <2>1, <2>2, ChainFrame DEF WireInv
  <2> QED BY <2>2, <2>3 DEF WireInv, ScreenIsBuilt, Nodes
<1>6. CASE UNCHANGED <<wire, pc, prev, cur, shown, graph>>
  <2>1. \A t \in Streams : Chain(t)'
    BY <1>6, ChainFrame DEF WireInv
  <2> QED BY <1>6, <2>1 DEF WireInv, ScreenIsBuilt, Nodes
<1> QED
  BY <1>1, <1>2, <1>3, <1>4, <1>5, <1>6
  DEF Next, vars, server, browser, ClusterChange, InformerApply, Notify, Stall, Drop,
      OpenNamespace, Retry, WatchdogReconnect, TypeOK

\* What the tab shows is node for node a graph the server built, whatever was
\* patched, dropped, replayed or reconnected (graphSubscription.ts, diff.go).
THEOREM ScreenAlwaysBuilt == Spec => []ScreenIsBuilt
<1>1. TypeOK /\ WireInv /\ [Next]_vars => (TypeOK /\ WireInv)'
  BY TypeStep, WireStep
<1>2. Init => TypeOK /\ WireInv
  BY TypeInit, WireInit
<1>3. WireInv => ScreenIsBuilt
  BY DEF WireInv
<1> QED BY <1>1, <1>2, <1>3, PTL DEF Spec

\* A patch is only applied to the graph it was computed from (sse.go prev and
\* next, api.ts fresh()).
THEOREM PatchesAlwaysApply == Spec => []PatchesApply
<1>1. TypeOK /\ WireInv /\ [Next]_vars => (TypeOK /\ WireInv)'
  BY TypeStep, WireStep
<1>2. Init => TypeOK /\ WireInv
  BY TypeInit, WireInit
<1>3. TypeOK /\ WireInv => PatchesApply
  <2> SUFFICES ASSUME TypeOK, WireInv, cur # NoStream, pc[cur] \in {"loop", "rebuild"},
                      NEW w, w = wire[cur]
               PROVE  /\ w = <<>> => graph = Nodes(prev[cur])
                      /\ w # <<>> => Nodes(w[Len(w)].of) = Nodes(prev[cur])
                      /\ \A i \in 1 .. Len(w) :
                           w[i].type = "patch" =>
                             w[i].payload = Diff(IF i = 1 THEN shown ELSE w[i - 1].of, w[i].of)
    BY DEF PatchesApply
  <2>1. cur \in Streams
    BY DEF TypeOK
  <2>2. ChainOf(w, TRUE, shown, pc[cur], prev[cur]) /\ graph = Nodes(shown)
    BY <2>1 DEF WireInv, Chain, ScreenIsBuilt
  <2>3. w \in Seq(Event)
    BY <2>1 DEF TypeOK
  <2>4. ASSUME NEW i \in 1 .. Len(w), w[i].type = "patch"
        PROVE  w[i].payload = Diff(IF i = 1 THEN shown ELSE w[i - 1].of, w[i].of)
    <3>1. CASE i = 1
      <4>1. w # <<>> /\ ~IsSnapshot(w[1])
        BY <2>3, <2>4, <3>1, EmptySeq DEF IsSnapshot
      <4> QED BY <2>2, <3>1, <4>1 DEF ChainOf, IsPatch
    <3>2. CASE i # 1
      <4>1. i \in 2 .. Len(w)
        BY <2>3, <3>2
      <4> QED BY <2>2, <3>2, <4>1 DEF ChainOf, IsPatch
    <3> QED BY <3>1, <3>2
  <2> QED BY <2>2, <2>4 DEF ChainOf
<1> QED BY <1>1, <1>2, <1>3, PTL DEF Spec
=============================================================================
