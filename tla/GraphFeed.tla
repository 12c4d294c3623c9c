------------------------------ MODULE GraphFeed ------------------------------
(***************************************************************************)
(* The live graph feed end to end: the informer caches and their change    *)
(* notifications (store.go), one SSE handler goroutine per connection      *)
(* (sse.go handleGraphStream), the event stream on the wire, and one       *)
(* browser tab with its watched EventSource and graph store (api.ts,       *)
(* graphSubscription.ts, graphState.ts).                                   *)
(*                                                                         *)
(* An object is abstracted to its age: 0 before it exists, 1..MaxVer its   *)
(* versions (two versions differ in some field nodeEqual compares), Gone   *)
(* once deleted.  A graph is the age of each object as one build read it;  *)
(* the objects of age 0 and Gone are not in it.                            *)
(***************************************************************************)
EXTENDS Integers, Sequences, FiniteSets

CONSTANTS
  Objects,      \* Kubernetes objects (UIDs)
  Kinds,        \* the registered GVRs, one informer each
  KindOf,       \* the informer that caches an object
  Namespaces,   \* the namespaces of the cluster
  NsOf,         \* the namespace of an object
  Streams,      \* SSE connections, each with its handler goroutine
  NoStream,
  MaxVer,       \* bound: versions of one object
  MaxInflight,  \* bound: informer events one kind has waiting for dispatch
  WireCap,      \* events a connection buffers before a write blocks
  MaxFaults     \* bound: stalls, drops, restarts and re-subscriptions

ASSUME FeedAssumption ==
  /\ KindOf \in [Objects -> Kinds]
  /\ NsOf \in [Objects -> Namespaces]
  /\ NoStream \notin Streams
  /\ MaxVer \in Nat \ {0}
  /\ MaxInflight \in Nat \ {0}
  /\ WireCap \in Nat \ {0}
  /\ MaxFaults \in Nat

VARIABLES
  cluster,    \* age of each object in the apiserver
  cached,     \* age of each object in its informer's indexer
  inflight,   \* handler calls the informer of a kind still has to dispatch
  subs,       \* Cache.subs: the streams that hold a subscription
  changes,    \* the depth-1 signal channel of each stream
  pc,         \* where the handler goroutine of a stream is
  scope,      \* the namespace a stream serves
  armed,      \* the debounce timer of a stream is running
  todo,       \* kinds the build in progress has not read yet
  next,       \* the graph being built
  prev,       \* the graph the stream last built
  wire,       \* events written and not yet taken by the browser
  link,       \* the connection: up, stalled (silently half-closed) or down
  faults,     \* faults so far, against MaxFaults
  cur,        \* the tab's current EventSource (its generation)
  namespace,  \* the namespace open in the tab
  graph,      \* the tab's graph store: version of each node, 0 if absent
  connState,  \* connecting, live or offline
  shown,      \* history: the graph the tab's store was built from
  seen        \* history: the age each object last had on screen

server  == <<inflight, subs, changes, pc, scope, armed, todo, next, prev>>
browser == <<cur, namespace, graph, connState, shown, seen>>
vars == <<cluster, cached, server, wire, link, faults, browser>>

Gone  == MaxVer + 1
Age   == 0 .. Gone
Graph == [Objects -> Age]
Empty == [o \in Objects |-> 0]

\* The node of an object of this age: its version, or 0 when there is none.
Node(age) == IF age = Gone THEN 0 ELSE age
Nodes(g)  == [o \in Objects |-> Node(g[o])]

-----------------------------------------------------------------------------
(* graph.Diff on the server and applyPatch in the tab. *)

\* The mutated form of Diff: nodes that are gone are never reported.
DiffUpsertsOnly(a, b) ==
  [upsert |-> [o \in {x \in Objects : Node(b[x]) # 0 /\ Node(b[x]) # Node(a[x])} |-> b[o]],
   remove |-> {}]

\* What turns graph a into graph b, node by node.
Diff(a, b) ==
  LET added == {o \in Objects : Node(b[o]) # 0 /\ Node(b[o]) # Node(a[o])}
  IN  [upsert |-> [o \in added |-> b[o]],
       remove |-> {o \in Objects : Node(a[o]) # 0 /\ Node(b[o]) = 0}]

NoChange(patch) == DOMAIN patch.upsert = {} /\ patch.remove = {}

\* The mutated form of ApplyPatch: removals are not applied.
ApplyUpserts(g, patch) ==
  [o \in Objects |-> IF o \in DOMAIN patch.upsert THEN patch.upsert[o] ELSE g[o]]

\* Upserts replace or add nodes, removals delete them.
ApplyPatch(g, patch) ==
  [o \in Objects |-> IF o \in patch.remove THEN 0
                     ELSE IF o \in DOMAIN patch.upsert THEN patch.upsert[o]
                     ELSE g[o]]

\* The mutated form of Snapshot: it still holds deleted objects.
SnapshotOfAll(g) == [type |-> "snapshot", payload |-> g, of |-> g]

\* An event carries its payload and, as history, the graph it brings about.
Snapshot(g) == [type |-> "snapshot", payload |-> Nodes(g), of |-> g]
Patch(a, b) == [type |-> "patch", payload |-> Diff(a, b), of |-> b]

Event ==
  [type : {"snapshot"}, payload : [Objects -> 0 .. MaxVer], of : Graph] \cup
  [type : {"patch"}, of : Graph,
   payload : [upsert : UNION {[D -> 1 .. MaxVer] : D \in SUBSET Objects}, remove : SUBSET Objects]]

-----------------------------------------------------------------------------
Init ==
  /\ cluster \in [Objects -> 0 .. MaxVer]
  /\ cached = Empty
  /\ inflight = [k \in Kinds |-> 0]
  /\ subs = {}
  /\ changes = [s \in Streams |-> FALSE]
  /\ pc = [s \in Streams |-> "off"]
  /\ namespace \in Namespaces
  /\ scope = [s \in Streams |-> namespace]
  /\ armed = [s \in Streams |-> FALSE]
  /\ todo = [s \in Streams |-> {}]
  /\ next = [s \in Streams |-> Empty]
  /\ prev = [s \in Streams |-> Empty]
  /\ wire = [s \in Streams |-> <<>>]
  /\ link = [s \in Streams |-> "down"]
  /\ faults = 0
  /\ cur = NoStream
  /\ graph = Empty
  /\ connState = "connecting"
  /\ shown = Empty
  /\ seen = Empty

-----------------------------------------------------------------------------
(* The cluster and the informers. *)

\* Somebody creates, updates or deletes an object.
ClusterChange(o) ==
  /\ cluster[o] < Gone
  /\ \E age \in {cluster[o] + 1, Gone} : cluster' = [cluster EXCEPT ![o] = age]
  /\ UNCHANGED <<cached, server, wire, link, faults, browser>>

\* The reflector takes an object's state (a watch event, or a re-list that
\* skipped versions) into the indexer and queues one handler call for it.
InformerApply(o) ==
  \E age \in cached[o] + 1 .. cluster[o] :
    /\ Node(age) # Node(cached[o])
    /\ inflight[KindOf[o]] < MaxInflight
    /\ cached' = [cached EXCEPT ![o] = age]
    /\ inflight' = [inflight EXCEPT ![KindOf[o]] = @ + 1]
    /\ UNCHANGED <<cluster, subs, changes, pc, scope, armed, todo, next, prev,
                   wire, link, faults, browser>>

\* The mutated form of Woken: an unbuffered channel, from which only a handler
\* that waits in its select receives.
WokenIfWaiting(s) == s \in subs /\ pc[s] = "loop"

\* notify() reaches every subscriber: its channel has room for one signal.
Woken(s) == s \in subs

\* The listener goroutine of a kind runs the change handler: notify() leaves a
\* signal in every subscriber's channel that is not already full.
Notify(k) ==
  /\ inflight[k] > 0
  /\ inflight' = [inflight EXCEPT ![k] = @ - 1]
  /\ changes' = [s \in Streams |-> changes[s] \/ Woken(s)]
  /\ UNCHANGED <<cluster, cached, subs, pc, scope, armed, todo, next, prev,
                 wire, link, faults, browser>>

-----------------------------------------------------------------------------
(* handleGraphStream. *)

\* The request is authorized and its store resolved: Subscribe, then build.
Subscribe(s) ==
  /\ pc[s] = "subscribe"
  /\ subs' = subs \cup {s}
  /\ changes' = [changes EXCEPT ![s] = FALSE]
  /\ pc' = [pc EXCEPT ![s] = "snapshot"]
  /\ todo' = [todo EXCEPT ![s] = Kinds]
  /\ UNCHANGED <<cluster, cached, inflight, scope, armed, next, prev,
                 wire, link, faults, browser>>

\* SnapshotNamespace reads one informer's indexer; no lock spans two of them.
ReadKind(s, k) ==
  /\ k \in todo[s]
  /\ todo' = [todo EXCEPT ![s] = @ \ {k}]
  /\ next' = [next EXCEPT ![s] = [o \in Objects |->
                IF KindOf[o] = k /\ NsOf[o] = scope[s] THEN cached[o] ELSE @[o]]]
  /\ UNCHANGED <<cluster, cached, inflight, subs, changes, pc, scope, armed,
                 prev, wire, link, faults, browser>>

\* The first build is complete: write the snapshot and enter the loop.
SendSnapshot(s) ==
  /\ pc[s] = "snapshot" /\ todo[s] = {}
  /\ link[s] # "down" /\ Len(wire[s]) < WireCap
  /\ wire' = [wire EXCEPT ![s] = Append(@, Snapshot(next[s]))]
  /\ prev' = [prev EXCEPT ![s] = next[s]]
  /\ pc' = [pc EXCEPT ![s] = "loop"]
  /\ UNCHANGED <<cluster, cached, inflight, subs, changes, scope, armed, todo,
                 next, link, faults, browser>>

\* case <-changes: the first signal after a quiet period arms the debounce
\* timer, a signal while it runs is absorbed.
TakeChange(s) ==
  /\ pc[s] = "loop"
  /\ changes[s]
  /\ changes' = [changes EXCEPT ![s] = FALSE]
  /\ armed' = [armed EXCEPT ![s] = TRUE]
  /\ UNCHANGED <<cluster, cached, inflight, subs, pc, scope, todo, next, prev,
                 wire, link, faults, browser>>

\* case <-debounce.C: start a rebuild.
Debounce(s) ==
  /\ pc[s] = "loop"
  /\ armed[s]
  /\ armed' = [armed EXCEPT ![s] = FALSE]
  /\ pc' = [pc EXCEPT ![s] = "rebuild"]
  /\ todo' = [todo EXCEPT ![s] = Kinds]
  /\ next' = [next EXCEPT ![s] = Empty]
  /\ UNCHANGED <<cluster, cached, inflight, subs, changes, scope, prev,
                 wire, link, faults, browser>>

\* The rebuild is complete: write the difference, if there is one.
SendPatch(s) ==
  /\ pc[s] = "rebuild" /\ todo[s] = {}
  /\ \/ /\ NoChange(Diff(prev[s], next[s]))
        /\ UNCHANGED wire
     \/ /\ ~NoChange(Diff(prev[s], next[s]))
        /\ link[s] # "down" /\ Len(wire[s]) < WireCap
        /\ wire' = [wire EXCEPT ![s] = Append(@, Patch(prev[s], next[s]))]
  /\ prev' = [prev EXCEPT ![s] = next[s]]
  /\ pc' = [pc EXCEPT ![s] = "loop"]
  /\ UNCHANGED <<cluster, cached, inflight, subs, changes, scope, armed, todo,
                 next, link, faults, browser>>

\* The mutated form of Notices: failed writes are ignored.
NoticesInSelect(s) == pc[s] = "loop"

\* The handler notices a dead connection in its select, when a write fails,
\* or while it still resolves the request.
Notices(s) == pc[s] = "loop" \/ (pc[s] # "off" /\ todo[s] = {})

\* The request context is done, or a write failed: return and unsubscribe.
HandlerReturn(s) ==
  /\ link[s] = "down" /\ Notices(s)
  /\ pc' = [pc EXCEPT ![s] = "off"]
  /\ subs' = subs \ {s}
  /\ changes' = [changes EXCEPT ![s] = FALSE]
  /\ armed' = [armed EXCEPT ![s] = FALSE]
  /\ next' = [next EXCEPT ![s] = Empty]
  /\ prev' = [prev EXCEPT ![s] = Empty]
  /\ UNCHANGED <<cluster, cached, inflight, scope, todo, wire, link, faults, browser>>

-----------------------------------------------------------------------------
(* The connection. *)

\* The tab's request reaches the server on a fresh connection, while the
\* connection it replaces is closed.
Connect(s, ns) ==
  /\ s # cur
  /\ pc[s] = "off" /\ wire[s] = <<>>
  /\ pc' = [pc EXCEPT ![s] = "subscribe"]
  /\ scope' = [scope EXCEPT ![s] = ns]
  /\ link' = [t \in Streams |-> IF t = s THEN "up" ELSE IF t = cur THEN "down" ELSE link[t]]
  /\ cur' = s
  /\ UNCHANGED <<cluster, cached, inflight, subs, changes, armed, todo, next, prev, wire>>

\* A proxy half-closes the connection: nothing arrives any more, no error does.
Stall(s) ==
  /\ faults < MaxFaults /\ link[s] = "up"
  /\ link' = [link EXCEPT ![s] = "stalled"]
  /\ faults' = faults + 1
  /\ UNCHANGED <<cluster, cached, server, wire, browser>>

\* The connection breaks and both ends can tell.
Drop(s) ==
  /\ faults < MaxFaults /\ link[s] # "down"
  /\ link' = [link EXCEPT ![s] = "down"]
  /\ faults' = faults + 1
  /\ UNCHANGED <<cluster, cached, server, wire, browser>>

\* kd dies and starts again: its caches fill from nothing, every handler and
\* every connection is gone, the tab keeps what it shows.
Restart ==
  /\ faults < MaxFaults
  /\ faults' = faults + 1
  /\ cached' = Empty
  /\ inflight' = [k \in Kinds |-> 0]
  /\ subs' = {}
  /\ changes' = [s \in Streams |-> FALSE]
  /\ pc' = [s \in Streams |-> "off"]
  /\ armed' = [s \in Streams |-> FALSE]
  /\ todo' = [s \in Streams |-> {}]
  /\ next' = [s \in Streams |-> Empty]
  /\ prev' = [s \in Streams |-> Empty]
  /\ wire' = [s \in Streams |-> <<>>]
  /\ link' = [s \in Streams |-> "down"]
  /\ seen' = Empty
  /\ UNCHANGED <<cluster, scope, cur, namespace, graph, connState, shown>>

-----------------------------------------------------------------------------
(* The tab. *)

\* The subscription effect runs: the namespace changed, or the operator asked
\* for a reconnect.  It blanks the graph and opens a new EventSource.
OpenNamespace(s, ns) ==
  /\ faults < MaxFaults
  /\ faults' = faults + 1
  /\ Connect(s, ns)
  /\ namespace' = ns
  /\ graph' = Empty
  /\ connState' = "connecting"
  /\ shown' = Empty
  /\ UNCHANGED seen

\* The EventSource retries after an error, or the first mount opens it.
Retry(s) ==
  /\ cur = NoStream
  /\ Connect(s, namespace)
  /\ UNCHANGED <<faults, namespace, graph, connState, shown, seen>>

\* The mutated form of WatchdogDue: the timer starts with the first event.
DueOnceLive == link[cur] = "stalled" /\ connState = "live"

\* The staleness timer runs from the moment the source is created.
WatchdogDue == link[cur] = "stalled"

\* The watchdog: nothing arrived for SSE_STALE_MS, so the source is replaced
\* in place; the graph and the connection state stay as they are.
WatchdogReconnect(s) ==
  /\ cur # NoStream
  /\ WatchdogDue
  /\ Connect(s, namespace)
  /\ UNCHANGED <<faults, namespace, graph, connState, shown, seen>>

\* onerror: the tab is told that its connection broke.
OnError ==
  /\ cur # NoStream
  /\ link[cur] = "down"
  /\ connState' = "offline"
  /\ cur' = NoStream
  /\ UNCHANGED <<cluster, cached, server, wire, link, faults, namespace, graph, shown, seen>>

\* The objects on screen are now those of the event's graph.
Shows(e) ==
  /\ shown' = e.of
  /\ seen' = [o \in Objects |-> IF NsOf[o] = namespace THEN e.of[o] ELSE seen[o]]

\* The snapshot handler replaces the graph.
OnSnapshot(e) ==
  /\ e.type = "snapshot"
  /\ graph' = e.payload
  /\ connState' = "live"
  /\ Shows(e)

\* The patch handler applies the patch to whatever the graph is.
OnPatch(e) ==
  /\ e.type = "patch"
  /\ graph' = ApplyPatch(graph, e.payload)
  /\ UNCHANGED connState
  /\ Shows(e)

\* The mutated form of Fresh: no comparison of generations.
FreshAlways(s) == cur # NoStream

\* fresh() compares generations: is this the tab's current source?
Fresh(s) == s = cur

\* An event arrives.  One of a source that was replaced is dropped.
Receive(s) ==
  /\ wire[s] # <<>>
  /\ s = cur => link[s] # "stalled"
  /\ wire' = [wire EXCEPT ![s] = Tail(@)]
  /\ IF Fresh(s)
     THEN OnSnapshot(Head(wire[s])) \/ OnPatch(Head(wire[s]))
     ELSE UNCHANGED <<graph, connState, shown, seen>>
  /\ UNCHANGED <<cluster, cached, server, link, faults, cur, namespace>>

-----------------------------------------------------------------------------
Handler(s) ==
  \/ Subscribe(s)
  \/ \E k \in Kinds : ReadKind(s, k)
  \/ SendSnapshot(s)
  \/ TakeChange(s)
  \/ Debounce(s)
  \/ SendPatch(s)
  \/ HandlerReturn(s)

Next ==
  \/ \E o \in Objects : ClusterChange(o) \/ InformerApply(o)
  \/ \E k \in Kinds : Notify(k)
  \/ \E s \in Streams : Handler(s)
  \/ \E s \in Streams : Stall(s) \/ Drop(s)
  \/ Restart
  \/ \E s \in Streams, ns \in Namespaces : OpenNamespace(s, ns)
  \/ \E s \in Streams : Retry(s) \/ WatchdogReconnect(s) \/ Receive(s)
  \/ OnError

Spec == Init /\ [][Next]_vars

\* Informers, listener goroutines and handler goroutines keep running; the
\* browser keeps delivering, retrying and timing out.  The cluster need not
\* change and no fault need happen.
Fairness ==
  /\ \A o \in Objects : WF_vars(InformerApply(o))
  /\ \A k \in Kinds : WF_vars(Notify(k))
  /\ \A s \in Streams : WF_vars(Handler(s)) /\ WF_vars(Receive(s))
  /\ WF_vars(\E s \in Streams : Retry(s))
  /\ WF_vars(\E s \in Streams : WatchdogReconnect(s))
  /\ WF_vars(OnError)

LiveSpec == Spec /\ Fairness

-----------------------------------------------------------------------------
(* Properties. *)

\* Every variable has its type: graphs hold ages, the tab's store versions.
TypeOK ==
  /\ cluster \in Graph /\ cached \in Graph
  /\ inflight \in [Kinds -> Nat]
  /\ subs \in SUBSET Streams
  /\ changes \in [Streams -> BOOLEAN]
  /\ pc \in [Streams -> {"off", "subscribe", "snapshot", "loop", "rebuild"}]
  /\ scope \in [Streams -> Namespaces]
  /\ armed \in [Streams -> BOOLEAN]
  /\ todo \in [Streams -> SUBSET Kinds]
  /\ next \in [Streams -> Graph] /\ prev \in [Streams -> Graph]
  /\ wire \in [Streams -> Seq(Event)]
  /\ link \in [Streams -> {"up", "stalled", "down"}]
  /\ faults \in Nat
  /\ cur \in Streams \cup {NoStream}
  /\ namespace \in Namespaces
  /\ graph \in [Objects -> 0 .. MaxVer]
  /\ connState \in {"connecting", "live", "offline"}
  /\ shown \in Graph /\ seen \in Graph

\* The objects of a kind and namespace differ between two graphs.
Differ(g, h, k, ns) ==
  \E o \in Objects : KindOf[o] = k /\ NsOf[o] = ns /\ Node(g[o]) # Node(h[o])

\* No lost change: whenever what a stream last built is not what the cache
\* holds, something is still on its way to make it rebuild - a handler call in
\* flight, a signal in its channel, the debounce timer, or the part of the
\* running build that has yet to be read.  The coalescing depth-1 channel, the
\* absorbed signals and the lock-free reads must never leave it waiting.
LoopKeepsUp(s, k) ==
  pc[s] = "loop" /\ Differ(prev[s], cached, k, scope[s])
    => inflight[k] > 0 \/ changes[s] \/ armed[s]

BuildKeepsUp(s, k) ==
  pc[s] \in {"snapshot", "rebuild"} /\ k \notin todo[s] /\ Differ(next[s], cached, k, scope[s])
    => inflight[k] > 0 \/ changes[s]

NoLostChange == \A s \in Streams, k \in Kinds : LoopKeepsUp(s, k) /\ BuildKeepsUp(s, k)

\* A handler that builds or waits holds a subscription (it subscribes first).
Subscribed == \A s \in Streams : pc[s] \in {"snapshot", "loop", "rebuild"} => s \in subs

\* A patch is only ever applied to the graph it was computed from, across
\* reconnects, re-subscriptions and late events: the tab's store plus the
\* events still on the wire is what the handler believes the tab has.
PatchesApply ==
  cur # NoStream /\ link[cur] # "down" /\ pc[cur] \in {"loop", "rebuild"} =>
    LET w == wire[cur] IN
    /\ w = <<>> => graph = Nodes(prev[cur])
    /\ w # <<>> => Nodes(w[Len(w)].of) = Nodes(prev[cur])
    /\ \A i \in 1 .. Len(w) :
         w[i].type = "patch" =>
           w[i].payload = Diff(IF i = 1 THEN shown ELSE w[i - 1].of, w[i].of)

\* What is on screen is the graph the server built, node for node.
ScreenIsBuilt == graph = Nodes(shown)

\* The feed catches up: once the cluster rests and faults stop, the tab is
\* live and shows exactly the objects of its namespace.
CaughtUp ==
  /\ connState = "live"
  /\ \A o \in Objects : graph[o] = IF NsOf[o] = namespace THEN Node(cluster[o]) ELSE 0

CatchesUp == <>[]CaughtUp

\* A handler whose connection is gone gives its subscription back.
HandlerEnds == \A s \in Streams : link[s] = "down" ~> pc[s] = "off"

\* The feed implements the promise of LiveView.
View == INSTANCE LiveView WITH
  cluster <- cluster, namespace <- namespace, shown <- shown, seen <- seen

KeepsPromise == View!AbsSpec
=============================================================================
