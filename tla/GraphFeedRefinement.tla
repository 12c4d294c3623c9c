------------------------ MODULE GraphFeedRefinement ------------------------
(***************************************************************************)
(* The graph feed implements LiveView: every step of informers, handlers,  *)
(* wires and tab is, seen from the screen, a step LiveView allows or none. *)
(* What makes it so is an order.  Along one stream the age of an object    *)
(* only grows on its way from the cluster to the screen:                   *)
(*                                                                         *)
(*   seen <= first event on the wire <= ... <= last event <= prev          *)
(*        <= next (once its kind is read) <= cached <= cluster             *)
(*                                                                         *)
(* and a stream carries no object of a namespace it does not serve.        *)
(***************************************************************************)
EXTENDS GraphFeedProofs

USE FeedAssumption

\* w: the wire; floor: no event may show an object older than that; ceiling:
\* nor newer than that.
Climbs(w, o, floor, ceiling) ==
  /\ \A i \in 1 .. Len(w) : floor <= w[i].of[o] /\ w[i].of[o] <= ceiling
  /\ \A i, j \in 1 .. Len(w) : i <= j => w[i].of[o] <= w[j].of[o]

\* The oldest age stream s may still bring to the screen.
Floor(s, o) == IF s = cur THEN seen[o] ELSE 0

\* An object of the namespace a stream serves, on its way to the screen.
OwnInOrder(s, o) ==
  /\ Climbs(wire[s], o, Floor(s, o), cached[o])
  /\ pc[s] \in {"loop", "rebuild"} =>
       /\ Floor(s, o) <= prev[s][o] /\ prev[s][o] <= cached[o]
       /\ \A i \in 1 .. Len(wire[s]) : wire[s][i].of[o] <= prev[s][o]
  /\ pc[s] \in {"snapshot", "rebuild"} /\ KindOf[o] \notin todo[s] =>
       /\ Floor(s, o) <= next[s][o] /\ next[s][o] <= cached[o]
       /\ pc[s] = "rebuild" => prev[s][o] <= next[s][o]

\* An object of another namespace is in no graph of the stream.
ForeignAbsent(s, o) ==
  /\ next[s][o] = 0 /\ prev[s][o] = 0
  /\ \A i \in 1 .. Len(wire[s]) : wire[s][i].of[o] = 0

InOrder(s, o) == IF NsOf[o] = scope[s] THEN OwnInOrder(s, o) ELSE ForeignAbsent(s, o)

\* A handler that is not building has nothing left to read, and one that is
\* not past its snapshot has built nothing yet.
Idle(s) ==
  /\ pc[s] \notin {"snapshot", "rebuild"} => todo[s] = {}
  /\ pc[s] \in {"off", "subscribe"} => next[s] = Empty /\ prev[s] = Empty
  /\ pc[s] \in {"subscribe", "snapshot"} => wire[s] = <<>>

OrderInv ==
  /\ \A o \in Objects : seen[o] <= cached[o] /\ cached[o] <= cluster[o]
  /\ cur # NoStream => scope[cur] = namespace
  /\ \A s \in Streams : Idle(s)
  /\ \A s \in Streams, o \in Objects : InOrder(s, o)

-----------------------------------------------------------------------------
\* Nothing has been read, sent or shown initially.
LEMMA OrderInit == Init => OrderInv
<1> SUFFICES ASSUME Init PROVE OrderInv
  OBVIOUS
<1>1. \A o \in Objects : seen[o] <= cached[o] /\ cached[o] <= cluster[o]
  BY DEF Init, Empty
<1>2. \A s \in Streams, o \in Objects : InOrder(s, o)
  BY DEF Init, Empty, InOrder, OwnInOrder, ForeignAbsent, Climbs
<1>3. cur = NoStream /\ \A s \in Streams : Idle(s)
  BY DEF Init, Idle
<1> QED BY <1>1, <1>2, <1>3 DEF OrderInv

\* Ages are natural numbers, on the wire and off it.
LEMMA WireAges ==
  ASSUME TypeOK, NEW s \in Streams, NEW o \in Objects
  PROVE  /\ wire[s] \in Seq(Event) /\ Len(wire[s]) \in Nat
         /\ \A i \in 1 .. Len(wire[s]) : wire[s][i].of \in Graph /\ wire[s][i].of[o] \in Age
         /\ cluster[o] \in Age /\ cached[o] \in Age /\ seen[o] \in Age
         /\ next[s][o] \in Age /\ prev[s][o] \in Age /\ Age \subseteq Nat
<1>1. wire[s] \in Seq(Event)
  BY DEF TypeOK
<1>2. \A i \in 1 .. Len(wire[s]) : wire[s][i] \in Event
  BY <1>1
<1>3. \A e \in Event : e.of \in Graph
  BY DEF Event
<1> QED BY <1>1, <1>2, <1>3 DEF TypeOK, Graph, Age, Gone

\* A step that leaves a stream's graphs, wire and handler alone, does not let
\* the cache go back and raises the floor of no object keeps the order.
LEMMA OrderFrame ==
  ASSUME TypeOK, TypeOK', NEW s \in Streams, NEW o \in Objects, InOrder(s, o),
         UNCHANGED <<wire[s], pc[s], scope[s], todo[s], next[s], prev[s]>>,
         cached[o] <= cached'[o],
         s = cur' => s = cur /\ seen'[o] = seen[o]
  PROVE  InOrder(s, o)'
<1>1. CASE NsOf[o] = scope[s]
  <2>1. OwnInOrder(s, o)
    BY <1>1 DEF InOrder
  <2>2. Floor(s, o)' <= Floor(s, o)
    BY WireAges DEF Floor
  <2>3. Floor(s, o) \in Nat /\ Floor(s, o)' \in Nat /\ cached[o] \in Nat /\ cached'[o] \in Nat
    BY WireAges DEF Floor, TypeOK, Graph, Age, Gone
  <2>4. \A i \in 1 .. Len(wire[s]) : wire[s][i].of[o] \in Nat
    BY WireAges
  <2>5. next[s][o] \in Nat /\ prev[s][o] \in Nat
    BY WireAges
  <2> HIDE DEF Floor
  <2>6. Climbs(wire[s], o, Floor(s, o)', cached'[o])
    BY <2>1, <2>2, <2>3, <2>4 DEF OwnInOrder, Climbs
  <2>7. OwnInOrder(s, o)'
    BY <2>1, <2>2, <2>3, <2>5, <2>6 DEF OwnInOrder
  <2> QED BY <1>1, <2>7 DEF InOrder
<1>2. CASE NsOf[o] # scope[s]
  BY <1>2 DEF InOrder, ForeignAbsent
<1> QED BY <1>1, <1>2

\* One event more, no older than those before it, keeps a wire climbing.
LEMMA ClimbsOn ==
  ASSUME NEW w, NEW v, NEW o, NEW floor \in Nat, NEW ceiling \in Nat, NEW age \in Nat,
         Len(w) \in Nat, Len(v) = Len(w) + 1,
         \A i \in 1 .. Len(w) : v[i] = w[i] /\ w[i].of[o] \in Nat /\ w[i].of[o] <= age,
         v[Len(w) + 1].of[o] = age, floor <= age, age <= ceiling,
         Climbs(w, o, floor, ceiling)
  PROVE  Climbs(v, o, floor, ceiling) /\ \A i \in 1 .. Len(v) : v[i].of[o] <= age
<1>1. \A i \in 1 .. Len(v) : i \in 1 .. Len(w) \/ i = Len(w) + 1
  OBVIOUS
<1>2. \A i \in 1 .. Len(v) : v[i].of[o] <= age
  BY <1>1
<1>3. \A i \in 1 .. Len(v) : floor <= v[i].of[o] /\ v[i].of[o] <= ceiling
  BY <1>1 DEF Climbs
<1>4. ASSUME NEW i \in 1 .. Len(v), NEW j \in 1 .. Len(v), i <= j
      PROVE  v[i].of[o] <= v[j].of[o]
  <2>1. CASE j = Len(w) + 1
    BY <1>2, <2>1
  <2>2. CASE j \in 1 .. Len(w)
    BY <1>4, <2>2 DEF Climbs
  <2> QED BY <1>1, <2>1, <2>2
<1> QED BY <1>2, <1>3, <1>4 DEF Climbs

\* What bounds every age on a wire by a bounds it by b as well.
LEMMA BoundCarries ==
  ASSUME NEW w, NEW o, NEW a \in Nat, NEW b \in Nat, a <= b,
         \A i \in 1 .. Len(w) : w[i].of[o] \in Nat /\ w[i].of[o] <= a
  PROVE  \A i \in 1 .. Len(w) : w[i].of[o] <= b
OBVIOUS

\* The handler keeps the order on its stream: it reads the cache as it is now,
\* and what it sends is what it read.
LEMMA HandlerKeepsOrder ==
  ASSUME TypeOK, TypeOK', NEW s \in Streams, NEW o \in Objects,
         \A x \in Objects : seen[x] <= cached[x], Idle(s), InOrder(s, o), Handler(s)
  PROVE  InOrder(s, o)'
<1> USE DEF TypeOK
<1>0. UNCHANGED <<cached, scope, cur, seen>>
  BY DEF Handler, Subscribe, ReadKind, SendSnapshot, TakeChange, Debounce, SendPatch,
         HandlerReturn, browser
<1>1. Floor(s, o)' = Floor(s, o) /\ Floor(s, o) \in Nat /\ cached[o] \in Nat
  BY <1>0, WireAges DEF Floor
<1>2. next[s][o] \in Nat /\ prev[s][o] \in Nat
      /\ \A i \in 1 .. Len(wire[s]) : wire[s][i].of[o] \in Nat
  BY WireAges
<1>3. Floor(s, o) <= cached[o]
  BY WireAges DEF Floor
<1>4. ASSUME NEW e \in Event, e.of = next[s], wire' = [wire EXCEPT ![s] = Append(@, e)]
      PROVE  /\ wire'[s][Len(wire'[s])].of[o] = next[s][o] /\ Len(wire'[s]) = Len(wire[s]) + 1
             /\ Len(wire[s]) \in Nat /\ \A i \in 1 .. Len(wire[s]) : wire'[s][i] = wire[s][i]
  BY <1>4, AppendProperties
<1> HIDE DEF Floor
<1>5. CASE Subscribe(s)
  BY <1>0, <1>1, <1>3, <1>5 DEF Subscribe, InOrder, OwnInOrder, ForeignAbsent, Idle
<1>6. ASSUME NEW k \in Kinds, ReadKind(s, k) PROVE InOrder(s, o)'
  <2>1. UNCHANGED <<wire, pc, prev>>
    BY <1>6 DEF ReadKind
  <2>2. next'[s][o] = IF KindOf[o] = k /\ NsOf[o] = scope[s] THEN cached[o] ELSE next[s][o]
    BY <1>6 DEF ReadKind
  <2>3. todo'[s] = todo[s] \ {k}
    BY <1>6 DEF ReadKind
  <2> QED BY <1>0, <1>1, <1>2, <1>3, <2>1, <2>2, <2>3 DEF InOrder, OwnInOrder, ForeignAbsent
<1>7. CASE SendSnapshot(s)
  <2>1. Snapshot(next[s]) \in Event /\ Snapshot(next[s]).of = next[s]
    BY SnapshotType DEF Snapshot
  <2>2. /\ pc[s] = "snapshot" /\ todo[s] = {} /\ next'[s] = next[s] /\ prev'[s] = next[s]
        /\ pc'[s] = "loop" /\ wire' = [wire EXCEPT ![s] = Append(@, Snapshot(next[s]))]
    BY <1>7 DEF SendSnapshot
  <2>3. wire[s] = <<>>
    BY <2>2 DEF Idle
  <2>4. wire'[s][1].of[o] = next[s][o] /\ Len(wire'[s]) = 1
    BY <1>4, <2>1, <2>2, <2>3
  <2> QED BY <1>0, <1>1, <1>2, <2>2, <2>4 DEF InOrder, OwnInOrder, ForeignAbsent, Climbs
<1>8. CASE TakeChange(s)
  BY <1>0, <1>1, <1>8 DEF TakeChange, InOrder, OwnInOrder, ForeignAbsent
<1>9. CASE Debounce(s)
  <2>1. next'[s][o] = 0
    BY <1>9 DEF Debounce, Empty
  <2> QED BY <1>0, <1>1, <1>9, <2>1 DEF Debounce, InOrder, OwnInOrder, ForeignAbsent
<1>10. CASE SendPatch(s)
  <2>1. /\ pc[s] = "rebuild" /\ todo[s] = {} /\ next'[s] = next[s] /\ prev'[s] = next[s]
        /\ pc'[s] = "loop"
    BY <1>10 DEF SendPatch
  <2>2. CASE UNCHANGED wire
    <3>1. CASE NsOf[o] = scope[s]
      <4>1. OwnInOrder(s, o)
        BY <1>0, <3>1 DEF InOrder
      <4>2. /\ Climbs(wire[s], o, Floor(s, o), cached[o])
            /\ Floor(s, o) <= next[s][o] /\ next[s][o] <= cached[o] /\ prev[s][o] <= next[s][o]
            /\ \A i \in 1 .. Len(wire[s]) : wire[s][i].of[o] <= prev[s][o]
        BY <2>1, <4>1 DEF OwnInOrder
      <4>3. \A i \in 1 .. Len(wire[s]) : wire[s][i].of[o] <= next[s][o]
        BY <1>2, <4>2, BoundCarries
      <4>4. /\ wire'[s] = wire[s] /\ cached'[o] = cached[o] /\ scope'[s] = scope[s]
            /\ Climbs(wire[s], o, Floor(s, o), cached[o])'
        BY <1>0, <1>1, <2>2, <4>2 DEF Climbs
      <4>5. next[s][o] <= next[s][o]
        BY <1>2
      <4>6. OwnInOrder(s, o)'
        BY <1>1, <2>1, <4>2, <4>3, <4>4, <4>5 DEF OwnInOrder
      <4> QED BY <3>1, <4>4, <4>6 DEF InOrder
    <3>2. CASE NsOf[o] # scope[s]
      BY <1>0, <1>1, <2>1, <2>2, <3>2 DEF InOrder, ForeignAbsent
    <3> QED BY <3>1, <3>2
  <2>3. CASE wire' = [wire EXCEPT ![s] = Append(@, Patch(prev[s], next[s]))]
    <3>1. Patch(prev[s], next[s]) \in Event /\ Patch(prev[s], next[s]).of = next[s]
      BY PatchType DEF Patch
    <3>2. /\ Len(wire[s]) \in Nat /\ Len(wire'[s]) = Len(wire[s]) + 1
          /\ wire'[s][Len(wire[s]) + 1].of[o] = next[s][o]
          /\ \A i \in 1 .. Len(wire[s]) : wire'[s][i] = wire[s][i]
      BY <1>4, <2>3, <3>1
    <3>3. CASE NsOf[o] = scope[s]
      <4>1. OwnInOrder(s, o)
        BY <3>3 DEF InOrder
      <4>2. Floor(s, o) <= next[s][o] /\ next[s][o] <= cached[o] /\ prev[s][o] <= next[s][o]
        BY <2>1, <4>1 DEF OwnInOrder
      <4>3. \A i \in 1 .. Len(wire[s]) : wire[s][i].of[o] <= next[s][o]
        <5>1. \A i \in 1 .. Len(wire[s]) : wire[s][i].of[o] <= prev[s][o]
          BY <2>1, <4>1 DEF OwnInOrder
        <5> QED BY <1>2, <4>2, <5>1, BoundCarries
      <4>4. Climbs(wire[s], o, Floor(s, o), cached[o])
        BY <4>1 DEF OwnInOrder
      <4>5. Climbs(wire'[s], o, Floor(s, o), cached[o])
            /\ \A i \in 1 .. Len(wire'[s]) : wire'[s][i].of[o] <= next[s][o]
        BY <1>1, <1>2, <3>2, <4>2, <4>3, <4>4, ClimbsOn
      <4> QED BY <1>0, <1>1, <2>1, <3>3, <4>2, <4>5 DEF InOrder, OwnInOrder
    <3>4. CASE NsOf[o] # scope[s]
      <4>1. next[s][o] = 0 /\ \A i \in 1 .. Len(wire[s]) : wire[s][i].of[o] = 0
        BY <3>4 DEF InOrder, ForeignAbsent
      <4>2. \A i \in 1 .. Len(wire'[s]) : i \in 1 .. Len(wire[s]) \/ i = Len(wire[s]) + 1
        BY <3>2
      <4>3. \A i \in 1 .. Len(wire'[s]) : wire'[s][i].of[o] = 0
        BY <3>2, <4>1, <4>2
      <4> QED BY <1>0, <2>1, <3>4, <4>1, <4>3 DEF InOrder, ForeignAbsent
    <3> QED BY <3>3, <3>4
  <2> QED BY <1>10, <2>2, <2>3 DEF SendPatch
<1>11. CASE HandlerReturn(s)
  BY <1>0, <1>1, <1>11 DEF HandlerReturn, Empty, InOrder, OwnInOrder, ForeignAbsent
<1> QED BY <1>5, <1>6, <1>7, <1>8, <1>9, <1>10, <1>11 DEF Handler

\* Every step keeps handlers that do not build idle.
LEMMA IdleStep ==
  ASSUME TypeOK, OrderInv, [Next]_vars, NEW s \in Streams PROVE Idle(s)'
<1> USE DEF TypeOK, OrderInv, Idle
<1>1. ASSUME NEW t \in Streams, Handler(t) PROVE Idle(s)'
  <2>1. CASE s # t
    <3>1. UNCHANGED <<pc[s], todo[s], next[s], prev[s], wire[s]>>
      BY <1>1, <2>1 DEF Handler, Subscribe, ReadKind, SendSnapshot, TakeChange, Debounce,
                        SendPatch, HandlerReturn
    <3> QED BY <3>1
  <2>2. CASE s = t /\ (Subscribe(s) \/ TakeChange(s) \/ Debounce(s))
    BY <2>2 DEF Subscribe, TakeChange, Debounce
  <2>3. CASE s = t /\ \E k \in Kinds : ReadKind(s, k)
    <3>1. pc[s] \in {"snapshot", "rebuild"} /\ UNCHANGED <<pc, wire>>
      BY <2>3 DEF ReadKind
    <3> QED BY <3>1
  <2>4. CASE s = t /\ (SendSnapshot(s) \/ SendPatch(s) \/ HandlerReturn(s))
    BY <2>4 DEF SendSnapshot, SendPatch, HandlerReturn, Notices
  <2> QED BY <1>1, <2>1, <2>2, <2>3, <2>4 DEF Handler
<1>2. CASE Restart
  BY <1>2 DEF Restart
<1>3. ASSUME NEW t \in Streams, NEW ns \in Namespaces, Connect(t, ns) PROVE Idle(s)'
  BY <1>3 DEF Connect
<1>4. ASSUME NEW t \in Streams, Receive(t) PROVE Idle(s)'
  BY <1>4 DEF Receive, server
<1>5. CASE UNCHANGED <<server, wire>>
  BY <1>5 DEF server
<1> QED
  BY <1>1, <1>2, <1>3, <1>4, <1>5
  DEF Next, vars, server, ClusterChange, InformerApply, Notify, Stall, Drop, OpenNamespace,
      Retry, WatchdogReconnect, OnError

\* Receiving an event keeps the order: the screen moves to the first event's
\* graph, and the events behind it are no older.
LEMMA ReceiveKeepsOrder ==
  ASSUME TypeOK, TypeOK', OrderInv, NEW s \in Streams, Receive(s), NEW t \in Streams, NEW o \in Objects
  PROVE  InOrder(t, o)'
<1> USE DEF TypeOK
<1> DEFINE w == wire[s]
<1>1. w \in Seq(Event) /\ w # <<>> /\ Head(w) = w[1] /\ Len(w) \in Nat \ {0}
      /\ Len(Tail(w)) = Len(w) - 1 /\ \A i \in 1 .. Len(w) - 1 : Tail(w)[i] = w[i + 1]
  BY TailFacts DEF Receive
<1>2. wire'[s] = Tail(w) /\ \A x \in Streams \ {s} : wire'[x] = wire[x]
  BY DEF Receive
<1>3. UNCHANGED <<cached, pc, scope, todo, next, prev, cur, namespace>>
  BY DEF Receive, server
<1>4. InOrder(t, o) /\ InOrder(s, o)
  BY DEF OrderInv
<1>5. s = cur => Shows(w[1])
  BY <1>1 DEF Receive, Fresh, OnSnapshot, OnPatch
<1>6. CASE t # s
  <2>1. t = cur' => t = cur /\ seen'[o] = seen[o]
    BY <1>3, <1>6 DEF Receive, Fresh
  <2>2. UNCHANGED <<wire[t], pc[t], scope[t], todo[t], next[t], prev[t]>>
    BY <1>2, <1>3, <1>6
  <2>3. cached[o] <= cached'[o]
    BY <1>3, WireAges
  <2> QED BY <1>4, <2>1, <2>2, <2>3, OrderFrame
<1>7. CASE t = s /\ NsOf[o] # scope[s]
  <2>1. ForeignAbsent(s, o)
    BY <1>4, <1>7 DEF InOrder
  <2>2. \A i \in 1 .. Len(Tail(w)) : Tail(w)[i] = w[i + 1] /\ i + 1 \in 1 .. Len(w)
    BY <1>1
  <2>3. \A i \in 1 .. Len(Tail(w)) : Tail(w)[i].of[o] = 0
    BY <2>1, <2>2 DEF ForeignAbsent
  <2>4. ForeignAbsent(s, o)'
    BY <1>2, <1>3, <2>1, <2>3 DEF ForeignAbsent
  <2> QED BY <1>3, <1>7, <2>4 DEF InOrder
<1>8. CASE t = s /\ NsOf[o] = scope[s]
  <2>1. OwnInOrder(s, o)
    BY <1>4, <1>8 DEF InOrder
  <2>2. \A i \in 1 .. Len(w) : w[i].of[o] \in Nat
    BY WireAges
  <2>3. Floor(s, o)' \in Nat /\ Floor(s, o)' <= w[1].of[o]
    <3>1. CASE s = cur
      <4>1. seen'[o] = w[1].of[o]
        BY <1>5, <1>8, <3>1, FeedAssumption DEF Shows, OrderInv
      <4>2. 1 \in 1 .. Len(w)
        BY <1>1
      <4> QED BY <1>3, <2>2, <3>1, <4>1, <4>2 DEF Floor
    <3>2. CASE s # cur
      BY <1>1, <1>3, <2>2, <3>2 DEF Floor
    <3> QED BY <3>1, <3>2
  <2>4. cached[o] \in Nat /\ prev[s][o] \in Nat /\ next[s][o] \in Nat
    BY WireAges
  <2>5. 1 \in 1 .. Len(w) /\ \A i \in 1 .. Len(w) : 1 <= i
    BY <1>1
  <2>6. \A i \in 1 .. Len(w) : w[1].of[o] <= w[i].of[o] /\ w[i].of[o] <= cached[o]
    BY <2>1, <2>5 DEF OwnInOrder, Climbs
  <2>7. pc[s] \in {"loop", "rebuild"} => w[1].of[o] <= prev[s][o]
    BY <2>1, <2>5 DEF OwnInOrder
  <2>8. pc[s] # "snapshot"
    BY <1>1 DEF OrderInv, Idle
  <2>9. pc[s] = "rebuild" /\ KindOf[o] \notin todo[s] => prev[s][o] <= next[s][o] /\ next[s][o] <= cached[o]
    BY <2>1 DEF OwnInOrder
  <2> HIDE DEF Floor
  <2>10. Climbs(Tail(w), o, Floor(s, o)', cached[o])
    <3>1. \A i \in 1 .. Len(Tail(w)) : Tail(w)[i] = w[i + 1] /\ i + 1 \in 1 .. Len(w)
      BY <1>1
    <3>2. \A i, j \in 1 .. Len(w) : i <= j => w[i].of[o] <= w[j].of[o]
      BY <2>1 DEF OwnInOrder, Climbs
    <3>3. ASSUME NEW i \in 1 .. Len(w) PROVE Floor(s, o)' <= w[i].of[o]
      <4>1. w[1].of[o] \in Nat /\ w[i].of[o] \in Nat /\ w[1].of[o] <= w[i].of[o]
        BY <2>2, <2>5, <2>6
      <4> QED BY <2>3, <4>1
    <3>4. \A i, j \in 1 .. Len(Tail(w)) : i <= j => i + 1 <= j + 1
      BY <1>1
    <3>5. \A i, j \in 1 .. Len(Tail(w)) : i <= j => Tail(w)[i].of[o] <= Tail(w)[j].of[o]
      BY <3>1, <3>2, <3>4
    <3>6. \A i \in 1 .. Len(Tail(w)) : Floor(s, o)' <= Tail(w)[i].of[o]
      BY <3>1, <3>3
    <3>7. \A i \in 1 .. Len(Tail(w)) : Tail(w)[i].of[o] <= cached[o]
      BY <2>6, <3>1
    <3> HIDE DEF w
    <3> QED BY <3>5, <3>6, <3>7 DEF Climbs
  <2>11. pc[s] \in {"loop", "rebuild"} => \A i \in 1 .. Len(Tail(w)) : Tail(w)[i].of[o] <= prev[s][o]
    BY <1>1, <2>1 DEF OwnInOrder
  <2>12. pc[s] \in {"loop", "rebuild"} => prev[s][o] <= cached[o]
    BY <2>1 DEF OwnInOrder
  <2> HIDE DEF w
  <2>13. w[1].of[o] \in Nat
    BY <2>2, <2>5
  <2> HIDE DEF TypeOK
  <2>14. pc[s] \in {"loop", "rebuild"} => Floor(s, o)' <= prev[s][o]
    <3>1. PICK floor \in Nat : floor = Floor(s, o)'
      BY <2>3
    <3>2. PICK first \in Nat : first = w[1].of[o]
      BY <2>13
    <3>3. PICK last \in Nat : last = prev[s][o]
      BY <2>4
    <3>4. floor <= first /\ (pc[s] \in {"loop", "rebuild"} => first <= last)
      BY <2>3, <2>7, <3>1, <3>2, <3>3
    <3> QED BY <3>1, <3>3, <3>4
  <2>15. pc[s] = "rebuild" /\ KindOf[o] \notin todo[s] => Floor(s, o)' <= next[s][o]
    <3> SUFFICES ASSUME pc[s] = "rebuild", KindOf[o] \notin todo[s]
                 PROVE  Floor(s, o)' <= next[s][o]
      OBVIOUS
    <3>1. PICK floor \in Nat : floor = Floor(s, o)'
      BY <2>3
    <3>2. PICK last \in Nat : last = prev[s][o]
      BY <2>4
    <3>3. PICK built \in Nat : built = next[s][o]
      BY <2>4
    <3>4. floor <= last /\ last <= built
      BY <2>9, <2>14, <3>1, <3>2, <3>3
    <3> QED BY <3>1, <3>3, <3>4
  <2> USE DEF TypeOK
  <2>16. OwnInOrder(s, o)'
    BY <1>2, <1>3, <2>8, <2>9, <2>10, <2>11, <2>12, <2>14, <2>15 DEF OwnInOrder
  <2> QED BY <1>3, <1>8, <2>16 DEF InOrder
<1> QED BY <1>6, <1>7, <1>8

\* Every step keeps the order.
LEMMA OrderStep == TypeOK /\ TypeOK' /\ OrderInv /\ [Next]_vars => OrderInv'
<1> SUFFICES ASSUME TypeOK, TypeOK', OrderInv, [Next]_vars PROVE OrderInv'
  OBVIOUS
<1> DEFINE Grows == \A o \in Objects : seen'[o] <= cached'[o] /\ cached'[o] <= cluster'[o]
           Mine == cur' # NoStream => scope'[cur'] = namespace'
           Ordered == \A t \in Streams, o \in Objects : InOrder(t, o)'
<1> SUFFICES Grows /\ Mine /\ Ordered
  BY IdleStep DEF OrderInv
<1>0. /\ \A o \in Objects : seen[o] <= cached[o] /\ cached[o] <= cluster[o]
      /\ cur # NoStream => scope[cur] = namespace
      /\ \A t \in Streams, o \in Objects : InOrder(t, o)
  BY DEF OrderInv
<1>00. /\ \A o \in Objects : cluster[o] \in Nat /\ cached[o] \in Nat /\ seen[o] \in Nat
       /\ \A o \in Objects : cached[o] <= cached[o]
  BY DEF TypeOK, Graph, Age, Gone
<1>1. ASSUME NEW o \in Objects, ClusterChange(o) PROVE Grows /\ Mine /\ Ordered
  <2>1. UNCHANGED <<cached, server, wire, link, faults, browser>>
    BY <1>1 DEF ClusterChange
  <2>2. PICK age \in {cluster[o] + 1, Gone} : cluster' = [cluster EXCEPT ![o] = age]
    BY <1>1 DEF ClusterChange
  <2>3. cluster[o] < age /\ age \in Nat
    BY <1>1 DEF ClusterChange, TypeOK, Graph, Age, Gone
  <2>4. Grows
    <3> SUFFICES ASSUME NEW x \in Objects
                 PROVE  seen'[x] <= cached'[x] /\ cached'[x] <= cluster'[x]
      OBVIOUS
    <3>1. cluster'[x] = IF x = o THEN age ELSE cluster[x]
      BY <2>2 DEF TypeOK, Graph
    <3>2. cluster[x] <= cluster'[x] /\ cluster'[x] \in Nat
      BY <1>00, <2>3, <3>1
    <3>3. seen'[x] = seen[x] /\ cached'[x] = cached[x]
      BY <2>1 DEF browser
    <3> QED BY <1>0, <1>00, <3>2, <3>3
  <2>5. Ordered
    <3> SUFFICES ASSUME NEW t \in Streams, NEW x \in Objects PROVE InOrder(t, x)'
      OBVIOUS
    <3>1. UNCHANGED <<wire[t], pc[t], scope[t], todo[t], next[t], prev[t], cached, cur, seen>>
      BY <2>1 DEF server, browser
    <3> QED BY <1>0, <1>00, <3>1, OrderFrame
  <2> QED BY <1>0, <2>1, <2>4, <2>5 DEF server, browser
<1>2. ASSUME NEW o \in Objects, InformerApply(o) PROVE Grows /\ Mine /\ Ordered
  <2>1. UNCHANGED <<cluster, pc, scope, todo, next, prev, wire, browser>>
    BY <1>2 DEF InformerApply
  <2>2. PICK age \in cached[o] + 1 .. cluster[o] : cached' = [cached EXCEPT ![o] = age]
    BY <1>2 DEF InformerApply
  <2>3. ASSUME NEW x \in Objects
        PROVE  cached[x] <= cached'[x] /\ cached'[x] <= cluster[x] /\ cached'[x] \in Nat
    <3>1. cached'[x] = IF x = o THEN age ELSE cached[x]
      BY <2>2 DEF TypeOK, Graph
    <3>2. age \in Int /\ cached[o] < age /\ age <= cluster[o]
      BY <1>00
    <3> QED BY <1>0, <1>00, <3>1, <3>2
  <2>4. Grows
    <3> SUFFICES ASSUME NEW x \in Objects
                 PROVE  seen'[x] <= cached'[x] /\ cached'[x] <= cluster'[x]
      OBVIOUS
    <3>1. seen'[x] = seen[x] /\ cluster'[x] = cluster[x] /\ seen[x] <= cached[x]
      BY <1>0, <2>1 DEF browser
    <3> QED BY <1>00, <2>3, <3>1
  <2>5. Ordered
    BY <1>0, <2>1, <2>3, OrderFrame DEF browser
  <2> QED BY <1>0, <2>1, <2>4, <2>5 DEF browser
<1>3. ASSUME NEW s \in Streams, Handler(s) PROVE Grows /\ Mine /\ Ordered
  <2>1. UNCHANGED <<cluster, cached, scope, browser>>
    BY <1>3 DEF Handler, Subscribe, ReadKind, SendSnapshot, TakeChange, Debounce, SendPatch,
                HandlerReturn
  <2>2. ASSUME NEW t \in Streams, t # s PROVE UNCHANGED <<wire[t], pc[t], todo[t], next[t], prev[t]>>
    <3>1. CASE Subscribe(s) \/ TakeChange(s) \/ Debounce(s) \/ HandlerReturn(s)
      BY <2>2, <3>1 DEF Subscribe, TakeChange, Debounce, HandlerReturn, TypeOK
    <3>2. CASE SendSnapshot(s) \/ SendPatch(s)
      BY <2>2, <3>2 DEF SendSnapshot, SendPatch, TypeOK
    <3>3. CASE \E k \in Kinds : ReadKind(s, k)
      BY <2>2, <3>3 DEF ReadKind, TypeOK
    <3> QED BY <1>3, <3>1, <3>2, <3>3 DEF Handler
  <2>3. \A t \in Streams \ {s}, o \in Objects : InOrder(t, o)'
    <3> SUFFICES ASSUME NEW t \in Streams, t # s, NEW o \in Objects PROVE InOrder(t, o)'
      OBVIOUS
    <3>1. UNCHANGED <<wire[t], pc[t], scope[t], todo[t], next[t], prev[t], cur, seen, cached>>
      BY <2>1, <2>2 DEF browser
    <3> QED BY <1>0, <1>00, <3>1, OrderFrame
  <2>4. \A o \in Objects : InOrder(s, o)'
    BY <1>0, <1>3, HandlerKeepsOrder DEF OrderInv
  <2>5. Ordered
    BY <2>3, <2>4
  <2> QED BY <1>0, <2>1, <2>5 DEF browser
<1>4. ASSUME NEW s \in Streams, NEW ns \in Namespaces, Connect(s, ns),
             UNCHANGED seen, namespace' = ns
      PROVE  Grows /\ Mine /\ Ordered
  <2>1. UNCHANGED <<cluster, cached, todo, next, prev, wire>> /\ cur' = s
    BY <1>4 DEF Connect
  <2>2. scope' = [scope EXCEPT ![s] = ns] /\ pc' = [pc EXCEPT ![s] = "subscribe"]
    BY <1>4 DEF Connect
  <2>3. \A t \in Streams \ {s}, o \in Objects : InOrder(t, o)'
    <3> SUFFICES ASSUME NEW t \in Streams, t # s, NEW o \in Objects PROVE InOrder(t, o)'
      OBVIOUS
    <3>1. UNCHANGED <<wire[t], pc[t], scope[t], todo[t], next[t], prev[t], cached>> /\ t # cur'
      BY <2>1, <2>2 DEF TypeOK
    <3> QED BY <1>0, <1>00, <3>1, OrderFrame
  <2>4. wire'[s] = <<>> /\ pc'[s] = "subscribe" /\ next'[s] = Empty /\ prev'[s] = Empty
    BY <1>4, <2>1, <2>2 DEF Connect, OrderInv, Idle, TypeOK
  <2>5. \A o \in Objects : InOrder(s, o)'
    BY <2>4 DEF InOrder, OwnInOrder, ForeignAbsent, Climbs, Empty
  <2>6. Ordered
    BY <2>3, <2>5
  <2>7. scope'[cur'] = namespace'
    BY <1>4, <2>1, <2>2 DEF TypeOK
  <2> QED BY <1>0, <1>4, <2>1, <2>6, <2>7
<1>5. CASE Restart
  <2>1. Grows
    <3> SUFFICES ASSUME NEW o \in Objects
                 PROVE  seen'[o] <= cached'[o] /\ cached'[o] <= cluster'[o]
      OBVIOUS
    <3>1. seen'[o] = 0 /\ cached'[o] = 0 /\ cluster'[o] = cluster[o]
      BY <1>5 DEF Restart, Empty
    <3> QED BY <1>00, <3>1
  <2>2. Mine
    BY <1>0, <1>5 DEF Restart
  <2>3. Ordered
    BY <1>5 DEF Restart, InOrder, OwnInOrder, ForeignAbsent, Climbs, Empty
  <2> QED BY <2>1, <2>2, <2>3
<1>6. ASSUME NEW s \in Streams, Receive(s) PROVE Grows /\ Mine /\ Ordered
  <2>1. UNCHANGED <<cluster, cached, scope, cur, namespace>>
    BY <1>6 DEF Receive, server
  <2>2. Grows
    <3>1. CASE s # cur
      BY <1>0, <1>6, <2>1, <3>1 DEF Receive, Fresh
    <3>2. CASE s = cur
      <4>1. Shows(wire[s][1])
        BY <1>6, <3>2 DEF Receive, Fresh, OnSnapshot, OnPatch
      <4>2. ASSUME NEW o \in Objects, NsOf[o] = namespace PROVE seen'[o] <= cached[o]
        <5>1. OwnInOrder(s, o)
          BY <1>0, <3>2, <4>2 DEF InOrder
        <5>2. 1 \in 1 .. Len(wire[s])
          BY <1>6, TailFacts DEF Receive, TypeOK
        <5>3. seen'[o] = wire[s][1].of[o]
          BY <4>1, <4>2 DEF Shows
        <5> QED BY <5>1, <5>2, <5>3 DEF OwnInOrder, Climbs
      <4>3. \A o \in Objects : NsOf[o] # namespace => seen'[o] = seen[o]
        BY <4>1 DEF Shows
      <4> QED BY <1>0, <2>1, <4>2, <4>3
    <3> QED BY <3>1, <3>2
  <2>3. Ordered
    BY <1>6, ReceiveKeepsOrder
  <2> QED BY <1>0, <2>1, <2>2, <2>3
<1>7. CASE OnError
  <2>1. UNCHANGED <<cluster, cached, pc, scope, todo, next, prev, wire, seen>> /\ cur' = NoStream
    BY <1>7 DEF OnError, server
  <2>2. Ordered
    <3> SUFFICES ASSUME NEW t \in Streams, NEW o \in Objects PROVE InOrder(t, o)'
      OBVIOUS
    <3>1. UNCHANGED <<wire[t], pc[t], scope[t], todo[t], next[t], prev[t], cached>> /\ t # cur'
      BY <2>1, FeedAssumption
    <3> QED BY <1>0, <1>00, <3>1, OrderFrame
  <2> QED BY <1>0, <2>1, <2>2
<1>8. CASE UNCHANGED <<cluster, cached, pc, scope, todo, next, prev, wire, seen, cur, namespace>>
  <2>1. Ordered
    <3> SUFFICES ASSUME NEW t \in Streams, NEW o \in Objects PROVE InOrder(t, o)'
      OBVIOUS
    <3>1. UNCHANGED <<wire[t], pc[t], scope[t], todo[t], next[t], prev[t], cached, cur, seen>>
      BY <1>8
    <3> QED BY <1>0, <1>00, <3>1, OrderFrame
  <2> QED BY <1>0, <1>8, <2>1
<1> QED
  BY <1>1, <1>2, <1>3, <1>4, <1>5, <1>6, <1>7, <1>8
  DEF Next, vars, server, browser, Notify, Stall, Drop, OpenNamespace, Retry,
      WatchdogReconnect, TypeOK

-----------------------------------------------------------------------------
\* The feed starts in a state LiveView starts in.
LEMMA RefinesInit == Init => View!AbsInit
  BY DEF Init, View!AbsInit, View!Nothing, Empty

\* Every step of the feed is, from the screen, a step of LiveView or none.
LEMMA RefinesStep == TypeOK /\ TypeOK' /\ OrderInv /\ [Next]_vars => [View!AbsNext]_(View!absVars)
<1> SUFFICES ASSUME TypeOK, TypeOK', OrderInv, [Next]_vars
             PROVE  View!AbsNext \/ UNCHANGED <<cluster, namespace, shown, seen>>
  BY DEF View!absVars
<1> USE DEF View!AbsNext
<1>1. ASSUME NEW o \in Objects, ClusterChange(o) PROVE View!AbsCluster
  <2>1. PICK age \in {cluster[o] + 1, Gone} : cluster' = [cluster EXCEPT ![o] = age]
    BY <1>1 DEF ClusterChange
  <2>2. cluster[o] < Gone /\ age \in cluster[o] + 1 .. Gone
    BY <1>1 DEF ClusterChange, TypeOK, Graph, Age, Gone
  <2>3. UNCHANGED <<namespace, shown, seen>>
    BY <1>1 DEF ClusterChange, browser
  <2> QED BY <2>1, <2>2, <2>3 DEF View!AbsCluster, View!Gone, Gone
<1>2. ASSUME NEW s \in Streams, Receive(s), s = cur PROVE View!AbsShow
  <2> DEFINE e == wire[s][1]
  <2>1. Shows(e) /\ 1 \in 1 .. Len(wire[s])
    BY <1>2, TailFacts DEF Receive, Fresh, OnSnapshot, OnPatch, TypeOK
  <2>2. shown' = e.of /\ \A o \in Objects : seen'[o] = IF NsOf[o] = namespace THEN e.of[o] ELSE seen[o]
    BY <2>1 DEF Shows
  <2>3. scope[s] = namespace
    BY <1>2, FeedAssumption DEF OrderInv
  <2>4. ASSUME NEW o \in Objects, NsOf[o] = namespace
        PROVE  seen[o] <= e.of[o] /\ e.of[o] <= cluster[o]
    <3>1. OwnInOrder(s, o)
      BY <2>3, <2>4 DEF OrderInv, InOrder
    <3>2. seen[o] <= e.of[o] /\ e.of[o] <= cached[o]
      BY <1>2, <2>1, <3>1 DEF OwnInOrder, Climbs, Floor
    <3>3. cached[o] <= cluster[o] /\ e.of[o] \in Nat /\ cached[o] \in Nat /\ cluster[o] \in Nat
      BY <2>1, WireAges DEF OrderInv
    <3> QED BY <3>2, <3>3
  <2>5. ASSUME NEW o \in Objects, NsOf[o] # namespace PROVE e.of[o] = 0
    BY <2>1, <2>3, <2>5 DEF OrderInv, InOrder, ForeignAbsent
  <2>6. shown' \in [Objects -> View!Age] /\ seen' \in [Objects -> View!Age]
    BY DEF TypeOK, Graph, Age, Gone, View!Age, View!Gone
  <2>7. UNCHANGED <<cluster, namespace>>
    BY <1>2 DEF Receive
  <2> HIDE DEF e
  <2> QED BY <2>2, <2>4, <2>5, <2>6, <2>7 DEF View!AbsShow
<1>3. ASSUME NEW s \in Streams, NEW ns \in Namespaces, OpenNamespace(s, ns) PROVE View!AbsOpen
  BY <1>3 DEF OpenNamespace, Connect, View!AbsOpen, View!Nothing, Empty
<1>4. CASE Restart
  BY <1>4 DEF Restart, View!AbsRestart, View!Nothing, Empty
<1>5. ASSUME NEW s \in Streams, Receive(s), s # cur PROVE UNCHANGED <<cluster, namespace, shown, seen>>
  BY <1>5 DEF Receive, Fresh
<1>6. ASSUME NEW s \in Streams, Handler(s) PROVE UNCHANGED <<cluster, namespace, shown, seen>>
  BY <1>6 DEF Handler, Subscribe, ReadKind, SendSnapshot, TakeChange, Debounce, SendPatch,
              HandlerReturn, browser
<1> QED
  BY <1>1, <1>2, <1>3, <1>4, <1>5, <1>6
  DEF Next, vars, browser, InformerApply, Notify, Stall, Drop, Retry, WatchdogReconnect,
      Connect, OnError

\* The graph on screen keeps the promise of LiveView: it only shows states the
\* cluster was in, never goes back while kd runs and never shows an object of
\* another namespace, whatever is debounced, patched, stalled, replaced or
\* restarted (store.go, sse.go, graphSubscription.ts, graphState.ts).
THEOREM FeedKeepsPromise == Spec => KeepsPromise
<1>1. Init => TypeOK /\ OrderInv /\ View!AbsInit
  BY TypeInit, OrderInit, RefinesInit
<1>2. TypeOK /\ OrderInv /\ [Next]_vars => (TypeOK /\ OrderInv)'
  BY TypeStep, OrderStep
<1>3. TypeOK /\ TypeOK' /\ OrderInv /\ [Next]_vars => [View!AbsNext]_(View!absVars)
  BY RefinesStep
<1> QED BY <1>1, <1>2, <1>3, PTL DEF Spec, KeepsPromise, View!AbsSpec
=============================================================================
