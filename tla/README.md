# A verification project for kd

kd (`motoki317/kd`) is a read-only Kubernetes dashboard: one Go process that keeps
informer caches of every resource of one or more clusters, turns a namespace's
objects into a graph with health, and streams that graph (and logs, events and
per-namespace health) to browser tabs over Server-Sent Events. Nothing is
persisted; a restart starts from empty caches.

This directory holds TLA+ modules of the parts where concurrency, coalescing,
reconnection and the order of effects decide whether the screen is right, the TLC
configurations that check them on small instances, and TLAPS proofs of what holds
for every instance.

    tlc -workers 2 -config MCGraphFeed.cfg MCGraphFeed.tla
    tlc -workers 2 -config MCCanvas.cfg MCCanvas.tla
    tlapm GraphFeedProofs.tla

## 1. Inventory

### Server

| Component | State | Operations | Interacts with |
|---|---|---|---|
| **Store** `internal/kube/store/store.go`, `snapshot.go`, `transform.go` | `Cache`: informer indexers (client-go), `resources`, `wired`, `failedAt`, `reconcileRunning/Pending`, `subs`, `stopCh` | `Start`, `registerEager/Locked`, `startCRDWatcher`, `removeResourcesForCRD`, `triggerReconcile`/`reconcileLoop`/`reconcile`, `Subscribe`, `notify`, `Snapshot*`, `GetLive`, `stop`/`Shutdown` | discovery; client-go informer goroutines call `notify` and the CRD handler; SSE handlers subscribe and snapshot |
| **Discovery** `internal/kube/discovery` | none | `Discover` (preferred versions, list+watch, no subresources, partial failure tolerated) | called at start and by every reconcile |
| **Registry** `internal/kube/registry` | one `entry` per context: `once`, `ready`, `cache`, `err`, `status` | `Get`, `Prewarm`, `List`, `runBuild` | builds Stores; every API handler resolves its store here |
| **Graph** `internal/kube/graph` | none (pure) | `Build`, edges, health, `Summarize`, `DescendantPods`, `Diff`, usage | called by SSE handlers and log streaming |
| **Graph feed** `internal/api/sse.go` `handleGraphStream` | per connection: subscription channel, debounce timer and `armed`, `prev`, `prevSummary` | snapshot on connect, debounced rebuild and `Diff`, capacity tick, heartbeat | Store, Graph, browser |
| **Namespaces feed** `sse.go` `handleNamespacesStream` | per connection: `dirty`, `sent`, `have` | push on connect, recompute on the 15 s tick if dirty | Store, Graph, RBAC, browser |
| **Logs** `internal/api/logstream.go` | per follow: `streaming`, `drained`, `resumes`, `wasGone`; channels `lines` (64) and `gone` (1) | resolve every 3 s, attach a streamer per container, resume filter, `gone`, one-shot `done` | Store, Graph (descendant pods), kubelet streams, browser |
| **Events feed / REST** `events.go`, `resource.go`, `api.go` | per stream: last list sent | poll every 8 s, REST reads, auth checks | Store, apiserver, RBAC |
| **RBAC** `internal/rbac` | `Enforcer`: the current policy under a lock; loader's last content | `Enforce`, `Replace`, parse and validate, reload poll | every handler |
| **Auth** `internal/auth` | none | identity from proxy headers | every handler |
| **HTTP server** `internal/server` | gzip writer per response | gzip negotiation that leaves SSE alone, embedded client | every response |
| **Process** `cmd/kd`, `internal/config`, `clilog`, `version` | flags, log console | start-up, prewarm in the background, graceful shutdown | everything |

### Browser client

| Component | State | Operations | Interacts with |
|---|---|---|---|
| **Watched EventSource** `web/src/api.ts` | `es`, `gen`, `timer`, `backoff`, `closed` | connect, staleness watchdog (40 s, backoff to 120 s), native retry, `fresh()` gate | all four server feeds |
| **Graph subscription** `graphSubscription.ts` | `graph`, `capacity`, `connState`, `selectedId`, `reconnectTick` | re-subscribe on context/namespace/reconnect; snapshot, patch, error handlers | watched EventSource, graph store |
| **Graph store** `graphState.ts` | nodes by id, edges | `fromSnapshot`, `applyPatch` | subscription |
| **Cluster session** `clusterSession.ts`, `liveHealth.ts` | contexts, namespace list, poll generation, live summaries | context switch, namespaces feed, summary gating | namespaces feed, graph subscription |
| **Logs viewer** `logResume.ts`, `logs.ts`, `LogViewer.tsx` | entries, resume marks, gone/done flags | append, drop replays after a reconnect | log feed |
| **Navigation** `selection.ts`, `nav.ts`, `urlState.ts`, `ns.ts` | selection, history, URL | deep links, back/forward, selection repair on snapshot | subscription |
| **Layouts** `layout/collapse.ts`, `hubs.ts`, `kind.ts`, `relationship.ts`, `core.ts`, `capacityLayout.ts` | none (pure) | fold crowded groups, place hubs and their leaves, columns, lattices, capacity rows | canvas |
| **Lenses** `relationships.ts`, `fade.ts`, `kindStats.ts`, `topology/spotlight.ts`, `topology/capacityHover.ts` | none (pure) | project the edges, spotlight, fade, count | canvas, toolbar, drawer |
| **Canvas** `components/Topology.tsx`, `topology/collapseState.ts`, `viewport.ts`, `components/CapacityView.tsx` | opened pills, camera, animation, the pending fits, hover, a deferred click | clicks, keys, pan and zoom, unfold what is selected, fit, clamp on a change of layout or size | layouts, lenses, selection, drawer |
| **Toolbar, drawer, App** `topology/Toolbar.tsx`, `DetailDrawer.tsx`, `App.tsx`, `appKeyboard.ts` | filters, grouping, drawer tab | chips, search, jump, retry, keyboard | canvas, session |

### How they interact

An informer goroutine takes a watch event into its indexer and queues it for its
listener; the listener goroutine calls `notify`, which leaves one signal in each
subscriber's depth-1 channel or coalesces it with the one already there. An SSE
handler goroutine takes the signal, arms a fixed-window debounce timer, and when
it fires reads every registered indexer (one at a time, with no common lock),
builds a graph, and writes the difference from the graph it last built. The tab
applies each patch to whatever its store holds; nothing carries a sequence
number, so order, the subscription-before-snapshot rule and the snapshot on every
reconnect are all that keep the two ends equal. A CRD informer of its own changes
the set of registered resources while all of this runs.

### What is hard here

- Coalescing: a signal absorbed by the channel, by `armed`, or by
  `reconcilePending` must never be the last one anybody waits for.
- Builds are not atomic: they read one indexer after another while events land.
- Connections stall without an error, drop, are replaced, and deliver events of a
  replaced source late; kd restarts behind a tab that keeps its screen.
- The registered set changes under a live stream: a reconcile acts on a discovery
  that may be older than a delete handled meanwhile.
- Log followers re-attach to the same container and must neither repeat nor lose lines.
- The sidebar merges two feeds of different ages, and a selection, a history and a URL
  outlive the context they were made in.
- One click on the canvas runs five effects that read each other's results: unfolding
  moves the card that the fit aims at, the drawer narrows the view frames later, and
  a snapshot may replace the graph in between.
- Policies, contexts and namespaces change while requests and streams use them.

### What makes each component correct

- Store/feed: no change is lost between the apiserver and the screen; what a tab
  shows is what the server built; patches apply to the graph they were computed
  from; a dead connection gives its subscription back; once the cluster rests the
  screen shows it.
- Store/CRDs: an informer is wired once; reconciles are serial; no install is
  missed; a removed kind leaves the screen and stays away.
- Registry: one build per context, every waiter gets the same cache, a status
  that says what is the case.
- Logs: one streamer per container, no line repeated or lost across re-attach,
  `gone` once per disappearance and `done` only at the end.
- RBAC: a deny wins, scope matching is what the policy says, a request sees one
  policy, a broken reload keeps the old one.
- Graph: edges only between nodes that are there, roll-ups are the worst of their
  members, `Diff` then `applyPatch` is the identity on graphs.
- Client: only the current source of the current context and namespace writes; rows,
  drawer, pill and URL speak of the context on screen; a session that can be served
  settles on live.
- Canvas: every resource of the lens is on a card or behind one pill that counts it;
  boxes keep apart; what is selected has its card and is framed; what is lit is what
  the filters match; the layout stays in the frame.

## 2. Plan

The most important behaviour first; each step adds modules, runs and theorems.

1. **Graph feed** (done): `LiveView` (the abstract promise), `GraphFeed` (store,
   handler, connection, tab), `MCGraphFeed`, `GraphFeedProofs`.
2. **CRD watcher** (done): `CRDWatch`, `MCCRDWatch`, `CRDWatchProofs`.
3. **Log follow** (done): `LogFollow` - supervisor, streamers, the writer's
   select, the viewer's replay filter; `MCLogFollow`.
4. **Client session** (done): `ClusterSession` - context switch, poll generation
   and live-health gating, selection, history and URL, with the namespaces feed, its
   dirty flag and 15 s tick as its server side; `MCClusterSession`.
5. **Canvas** (done): the pure layouts `Folding`, `KindLayout`, `RelationLayout`,
   `CapacityLayout`; `Viewport`; `Lens`; `Canvas` over all of them; `MCCanvas`,
   `CanvasProofs`.
6. **Theorems** (done): `GraphFeed` implements `LiveView` (`GraphFeedRefinement`); every
   invariant of `LogFollow` that the code keeps (`LogFollowProofs`, `LogReplayProofs`,
   `LogSkipProofs`); every invariant of `ClusterSession` (`ClusterSessionProofs`); what
   the effects of `Canvas` do to the camera and to the fits that wait, and that what is
   lit belongs together (`CanvasProofs`). What its layouts compute stays with TLC, see
   section 6.
7. **Registry** (open): concurrent `Get`s with cancellations, the single flight,
   `List`; refines "each context is built at most once".
8. **RBAC** (open): `Enforce`, scope and glob matching against a reference
   definition, reload against in-flight requests; deny-wins as a lemma.
9. **Graph algorithms** (open): `Build`, health, roll-ups and `Diff`/`applyPatch` with
   edges.

`GraphFeed` composes the store, the handler, the wire and the tab in one module,
because every interesting failure needs all four; `CRDWatch` keeps a coarse
subscriber of its own. `ClusterSession` relies on what `GraphFeed` shows (events of a
replaced stream are dropped, patches apply to the graph they were made from) and
keeps a stream as one record. `Canvas` takes graphs as they arrive and composes the
four layouts, the lens and the viewport.

## 3. Modules

### LiveView

The promise, with none of the machinery: `cluster`, the open `namespace`, what is
`shown` and what was `seen`. A screen only ever shows states the cluster was in,
an object never goes back to an older state while one kd process runs, and no
object of another namespace shows.

### GraphFeed

| Module | Code |
|---|---|
| `cluster`, `ClusterChange` | the apiserver (environment) |
| `cached`, `inflight`, `InformerApply` | an informer's indexer, and the handler calls its listener has yet to make (client-go) |
| `Notify`, `Woken`, `subs`, `changes` | `Cache.notify`, `Cache.subs`, the depth-1 channels |
| `Subscribe`, `ReadKind`, `SendSnapshot`, `TakeChange`, `Debounce`, `SendPatch`, `HandlerReturn` | `handleGraphStream`: subscribe before the first build, the per-kind reads of `SnapshotNamespace`, the select loop's cases, the deferred unsubscribe |
| `Diff`, `NoChange`, `ApplyPatch`, `Snapshot`, `Patch` | `graph.Diff`, `Patch.Empty`, `applyPatch`, the two event payloads |
| `wire`, `link`, `Stall`, `Drop`, `Restart` | the HTTP connection, a silent half-close, a break, a kd restart |
| `Connect`, `OpenNamespace`, `Retry`, `WatchdogReconnect`, `OnError`, `Fresh`, `Receive`, `OnSnapshot`, `OnPatch` | `watchedEventSource`, the subscription effect and its handlers |

An object is its age: 0 before it exists, a version, or gone for ever (UIDs are
not reused). Edges, health and every other field are functions of the objects a
build read, so two builds that read the same ages send no patch. `shown`, `seen`
and an event's `of` are history: which graph the store came from. A build reads
one kind per step. `pc = "snapshot"` and `"rebuild"` last as long as the reads
do; a write blocks on a full connection (`WireCap`) and fails on a dead one.

Left out of this module: the informers' periodic resync (handler calls without a
difference, whose rebuilds send nothing; no property here relies on them), `summary` and `capacity` events (full values computed
from the same reads, replaced wholesale by the client, gated by the same loop),
heartbeats except as the reason a live link is never taken for stale, cluster-scoped
ride-along objects (further reads of the same kind), the watchdog's backoff
arithmetic, filters and selection.

### CRDWatch

| Module | Code |
|---|---|
| `crd`, `Install`, `Establish`, `Uninstall` | the apiserver: a CRD exists before its API is served |
| `listed`, `meta`, `queue`, `MetaList`, `MetaEvent`, `Replay` | the CRD meta-informer: its LIST, its indexer, its events in order, the Adds a new handler is replayed |
| `StartDiscover`, `StartRegister`, `Attach` | `Cache.Start`, `startCRDWatcher` |
| `New`, `Again`, `Register` | `registerEager` and `registerLocked` under `Cache.mu` |
| `Busy`, `HandleAdd` | `triggerReconcile` |
| `HandleDelete`, `AfterRemoval`, `NotifyRemoval` | `removeResourcesForCRD`: the locked part, then `notify` after the unlock |
| `Discover`, `ReconcileRegister`, `StartInformers`, `Check` | `reconcile` and `reconcileLoop`, with the unlocked gaps between them |
| `indexer`, `Relist`, `Resync` | a resource's informer, which outlives its CRD: empty, current or stale objects; its change handler notifies on a list and again on every resync (`Options.Resync`, 10 minutes by default) |
| `Rebuild`, `built`, `signal` | a live subscriber |

`mode` is the apiserver's behaviour: `prompt` serves an API as soon as the CRD is
visible, `late` some time after, `flaky` is late and lets a discovery fail or leave
groups out without an error. `wirings`, `owed` and `removed` are history. The watch
of the meta-informer delivers every event (a re-list that collapses a delete and
an install into an update is not modelled), a CRD stands for one GVR (one served
version), and a cluster without the CRD API (no watcher at all) is left out.

### LogFollow

| Module | Code |
|---|---|
| `Create`, `Run`, `Write`, `Stop`, `Finish`, `Restart`, `Delete`, `RootMoves`, `SyncPod`, `SyncRoot` | containers, kubelet and apiserver (environment), and the informers that bring the snapshot up in their own time |
| `Resolve`, `Consider`, `Resolved`, `Pruned`, `WasGone`, `DrainAtAttach`, `Skipped` | the supervisor: one resolve per tick reads the snapshot, then attaches target by target under the lock |
| `Open`, `Scan`, `Eof`, `Interrupt`, `Ends` | `streamContainerLogs` and `scanLogStream`: tail, filter, send, record; the end of a stream and the `drained` mark |
| `Replayed`, `Matched`, `Recorded` | `logResume` of the server and of the tab (`logResume.ts`), which are the same algorithm |
| `PassLine`, `PassGone` | the writer's `select`, which may prefer either channel |
| `OnLog`, `Renewed`, `Capped`, `Buffered`, `Connect`, `Break` | the log handler of `LogViewer.tsx`, its bounded resume records and line buffer, the `open` handler that freezes them into `delivered`, a broken stream |

A source is one container of one pod UID, a line its place in the source's log with
its kubelet stamp (0: none) and its text, since the filters tell lines of one stamp
apart by text only. A snapshot may be older than the container it describes: `Open`
reads the instance that is there, and `Eof` marks `drained` by what the *resolve*
saw. A container may be seen waiting before its first start: its restart count is then
that of its first instance, and `DrainAtAttach` holds of it as of one that ended (a pod
without a status is attached to like a running one; kubelet refuses until there is a
log). `early` in a mark is history: the snapshot it was made by showed such a
container. `Start(s)` is the line at which a tail of the source may begin, `Without(s)` the
tab's records without the one of `s`. `got` (the last line passed to the tab) and `forgot`
(the sources whose record the tab dropped to stay in bounds) are history: `ShownOnce`
exempts what was forgotten, `log_crowded` shows why it has to. Left out: the one-shot dump of a previous instance, the
cluster-scope gate on pods, heartbeats.

### ClusterSession

| Module | Code |
|---|---|
| `page` | the signals of `clusterSession.ts`, `graphSubscription.ts`, `selection.ts`, `liveHealth.ts`, and the two streams the tab owns |
| `NamespaceList`, `Merged`, `Troubled`, `MostTroubled`, `NextTroubled`, `Drawer`, `Canvas`, `Link` | what the tab derives: `ns.ts`, the memos of `App.tsx`, `urlState.ts` |
| `SetCtx`, `SetNamespace`, `Picked`, `Subscribed`, `Listed`, `Refetch` | the effects on a context, a namespace, a list: what they reset and what they dial |
| `NamespacesEvent`, `NamespacesError`, `SnapshotEvent`, `PatchEvent`, `CapacityEvent`, `SummaryEvent`, `GraphError`, `ContextsEvent`, `Restored`, `ResolvedSelection` | the handlers, each with every effect it triggers, in order |
| `NsAccepted`, `NsTick`, `GraphAccepted`, `GraphPatched`, ... | `handleNamespacesStream` (first list, dirty mark, equal lists not sent) and the graph feed at the grain the session needs |
| `ChooseContext` ... `Reload` | the operator: pickers, trouble badge, selection with back button, retry, URL |

The variables beside `page` are what a tab cannot see: the clusters (`world`,
`objects`), who may see what (`given`), which contexts kd failed to build, whether kd
answers, and the budgets. `had` is history: the healths a namespace has had.

### Folding, KindLayout, RelationLayout, CapacityLayout

Pure layouts as functions of the graph, the opened pills and the wanted health.
`Folding`: `SplitForFold` (head and tail, or the wanted first), `FoldSiblingSubtrees`
(sibling groups in edge order, what is exclusively below them goes along),
`FindHubs`/`CollapseHubs` (grids of leaves). `KindLayout`: boxes per kind and the
lattice nearest to 16:10. `RelationLayout`: ranks, columns of units, the desired
heights and merging clusters of `relationship.ts`, orthogonal routes, components,
orphan boxes. `CapacityLayout`: hosts in order, bars of segments with their fold,
bullets of an expanded row, the axis. Dagre contributes only a height per card
(`Seed`, a constant; any order in a column is then possible by choosing it).

### Viewport, Lens, Canvas

| Module | Code |
|---|---|
| `Viewport` `FitBox`, `FitBoxFloored`, `Axis`, `ClampPan`, `ZoomScaleBounds`, `SelectionMaxScale` | `viewport.ts` |
| `Lens` `ProjectEdges`, `OrphanIds`, `VisibleNodes`, `Layout`, `Spotlight`, `NodeFaded`, `EdgeFaded`, `KindCount`, `HealthCount`, `PillFaded`, `NextSelection`, `CapRowFaded` ... | `relationships.ts`, the memos of `Topology.tsx`, `spotlight.ts`, `fade.ts`, `kindStats.ts`, `nav.ts`, `capacityHover.ts` |
| `Canvas` `AutoExpand`, `FitEffect`, `SelEffect`, `FilterEffect`, `AfterLayout`, `Effects` | the effects of `Topology.tsx` and `collapseState.ts` |
| `ClickCard`, `DblClickCard`, `TimerFires`, `TogglePill`, `ToggleRow`, `ClickSegment`, `ClickBullet`, `ClickBand`, `ClickBackground`, `DblClickBackground`, `FitAll`, `FrameMatches` | the pointer: a click on the selected card deselects 220 ms later unless it becomes a double click |
| `ArrowKey`, `EnterKey`, `EscapeKey`, `GoToNode` | `appKeyboard.ts`, the drawer's node link |
| `GroupBy`, `ToggleRel`, `ShowOrphaned`, `Search`, `HealthFilter`, `KindFilter`, `Clear`, `Home` | the toolbar and the setters of `App.tsx` |
| `Hover`, `CapHover`, `Pan`, `Zoom`, `Resize` | the hand |
| `Snapshot`, `Patch`, `CapacityFrame`, `Subscribe` | the setters of `graphSubscription.ts`, in their order |
| `Reflow`, `ResizeFrame`, `FitFrame`, `Animate` | the drawer taking its width, the resize observer, `requestAnimationFrame`, the camera animation |

A handler is a composition of setters, and a setter runs its effects at once, in the
order unfold, fit all, selection fit, filter fit, clamp; `late` and `stale` stand for
the orders in which Solid may run effects that the source does not order. Named
abstractions: whole pixels and percents with `\div`; `n` stands for a resource's name
and UID order, so ties always fall the same way; an animation is one jump that may be
overtaken or cancelled; a press, drag or pinch is one step; text widths, and the room
they need in capacity rows, are left out; a health is alike in both feeds; the drawer
is open exactly while something is selected, 400 px wide; the toolbar keeps its
height.

## 4. Runs

| Run | Instance | Shows |
|---|---|---|
| `feed` | two informers of one namespace, a second, empty namespace to switch to, two connections, two versions per object, two faults, within `Budget` | types; no lost change while builds are torn between informers; the store is node for node what the server built; patches only ever apply to the graph they were computed from, over stalls, drops, restarts, namespace switches and late events; the feed implements `LiveView` |
| `feed_live` | one object, two connections, two faults, fairness | once the cluster rests the tab is live and right; a dead connection's handler ends |
| `crd_watch` | a registered and a skipped CRD, two possible loop goroutines, three changes, prompt and flaky apiservers, fairness | types; one wiring per informer; serial reconciles; no lost trigger; removals announced; with a prompt apiserver an installed CRD gets registered and its objects shown |
| `crd_late` (violation) | the same, API served after the CRD's Add | an install may never be registered |
| `crd_ghost` (violation) | the same, prompt apiserver | a removed CRD's entry may come back for good |
| `log_follow` | six kinds of behaviour: tied stamps, a short tail, a restarting container (in both it may be seen waiting before its first start), lines without a stamp, a tab that can remember one source, a resource deleted and created twice; up to two faults; fairness | types; lines once and in order; no line skipped by the filters; a forgotten source has no line left to repeat; the screen catches up with every readable container, but for an early mark; a deletion is announced |
| `log_waiting` (violation) | one container that waits, starts and stops; one early end | an early mark may freeze the tail |
| `log_gone` (violation) | the resource is deleted once | a late line clears the notice for good |
| `log_crowded` (violation) | three containers, a tab that can remember two sources, one break | a line of a source that was forgotten and came back is on screen twice |
| `session` | eleven tabs: triage, switching contexts, dead contexts, faults, links to nowhere, nothing to see, nobody signed in, selections; each with its budget of changes, clicks and faults; fairness | types; rows, drawer, history and URL are of the context on screen; offline has a cause; nobody is stranded outside the list; the trouble badge visits all; a session settles; a dead context is diagnosed |
| `session_stale` (violation) | a namespace degrades while open, is left, and recovers | its row stays Degraded for good |
| `canvas` | fourteen starts: clicks, filters, lenses, gestures, changes of the graph, most of a hub sick, switches of namespace and context, a phone, a deep link, and the Kinds and Nodes groupings; each with one or two actions per kind of budget | types; nothing lost, boxes apart, honest counts, selection shown and framed, triage reaches all, capacity adds up, the camera in frame, what is lit belongs together, an awaited fit stays on its way, a new scope is owed its fit and does not spend it on nothing |

**Why these bounds.** Two kinds are enough to tear a build (one read before and
one after an event), two connections for a replaced source with late events, two
namespaces for a foreign object, two versions for an update next to a creation and
a deletion, one handler call in flight because further calls of a kind add nothing
to a coalescing channel but delay, a connection that buffers two events for a
patch behind a snapshot and one for writes that block. Three CRD changes give
delete, reinstall and another delete or install of the other CRD during one
reconcile; two workers are enough to show two loops if there could be two. Every
bound is a CONSTANT (`MaxVer`, `MaxInflight`, `WireCap`, `MaxFaults`,
`MaxChanges`, and the records of `Limits` and `Starts`). `feed` uses the symmetry of connections (no liveness
there) and the state constraint `Budget`, which keeps the costly cases apart: both
faults strike while one object is created and deleted; once the second kind has an
object, at most one fault strikes, while the first object lives and one connection is
unused; with an update of the pod there is no fault. All five properties of that run are also proved, for every
bound and without the constraint (section 6), so `Budget` limits only what TLC sees of them. Deadlock is not checked: a cluster that rests, with a screen that shows
it, has nothing left to do in these bounded instances.

In `log_follow` three lines over two stamps and two texts give equal stamps, equal
lines and a newer stamp; a tail of two is one shorter than the log; one restart, two
deletions and two faults (a break during a re-attach after an EOF) are what the
filters and marks tell apart, and a further one finds them in a state they were in
before. A wait before the first start matters where a mark does, with an end of the
stream, a stop and a restart to follow, so only two of the six have it.
In `session` every start is one kind of trouble with the budget that reaches
its consequence: two clicks leave a context and come back, one change moves a health
in between, two faults stop kd and break what is left. Namespaces are the pinned
cluster row and two others, and two objects share a `Kind/name`. In `canvas` the
graph is the smallest with every kind of fold: five siblings (the least that folds),
one of them a hub of five leaves (the least that makes a grid), a pod below a folded
sibling, a service and a config map joined by other relations, two orphans, and three
sick pods: in the hub, below a fold, and an orphan. Two actions in a row (with all the
frames, animations and timers they start, interleaved) are what the pending fits, the
timer and the drawer need; `changes` brings snapshots and patches between them.

**Fairness.** Weak fairness of each informer, listener goroutine, handler
goroutine (as a whole: Go's select is free to prefer any ready case, and only the
handler's own progress is assumed), of delivery, of the browser's retry, its
`onerror` and its watchdog; in `CRDWatch` of the start-up goroutine, the informer
and its resync timer (while its CRD is served: the timer runs only under a watch),
the loop goroutine, the subscriber, and of the apiserver establishing what was
installed. Nothing is assumed of cluster changes or of faults. Each of these is a
goroutine that is never blocked for ever or a timer that is always armed. `LogFollow`
assumes it of the informers, the supervisor's tick, every streamer's goroutine, the
writer (of each channel: Go's select picks a ready case at random) and the browser's
retry; `ClusterSession` of kd coming back, answering, ticking and delivering, and of
connections to a stopped kd ending. Nobody has to write, delete, click or break
anything. `Canvas` states safety only.

## 5. Findings

- `crd_late`: `triggerReconcile` discovers once per Add, and an Add arrives when
  the CRD object is created, before the apiserver serves its API. There is no
  `UpdateFunc`, so the later Established condition triggers nothing: the GVR stays
  unregistered until some other CRD is added.
- `crd_ghost`: `reconcile` calls `Discover` unlocked and registers its result
  afterwards. A delete handled in between removes the entry, and `registerEager`
  then puts it back, with an informer that may hold stale objects.
- `log_waiting`: `generationDrainAtAttach` also holds of a container that waits for its
  first start, whose `RestartCount` is that of its first instance. A stream opened from
  such a snapshot that has become stale, and ended early but cleanly, leaves the mark of
  an instance that is still to write. If no resolve sees it running before it
  terminates, the rest of its log is not read on that connection. `CatchesUp` exempts
  just such marks (`TooEarly`).
- `log_gone`: `gone` is sent once per disappearance, but the deleted resource's own
  pods, and lines still in the channel, deliver lines after it, and every line clears
  the notice; the viewer never says again that the resource is gone.
- `log_crowded`: a tab that holds more sources than its resume may remember forgets the
  one accepted longest ago and counts from one again when that source writes its next
  line. If that line repeats the stamp and text of forgotten ones, a reconnect drops the
  replay of a line that is off the screen and shows the visible one again
  (`logResume.ts:52` says its "replay cannot duplicate a visible one"). It takes more
  than `LOG_BUFFER_CAPACITY` sources in one view.
- `session_stale`: a live summary wins over the list until the next push, and the
  server pushes only when its roll-up changed; a namespace that degrades while open
  and recovers after it was left, between two ticks, keeps its stale row.

Seen while modelling, and not given a run of their own (the properties name each as an
exception, or the model simply behaves so). In the store:

- A reinstalled CRD's informer is still running and may relist (and notify) before the
  reconcile re-registers its kind; the rebuild it triggers does not see the kind, and
  `registerEager` notifies nobody. A live screen lacks the objects until another change
  or the next resync, 10 minutes later by default. `PromptInstallShows` holds because
  of that resync, and of nothing else.

In the session:

- A retry or a switch of namespace empties the graph and keeps the selection, so the
  drawer says "Deleted from the cluster" until the next snapshot.
- A failing refetch of the contexts that lands late sets offline on a live stream and
  drops `?ctx=` from the URL.
- From one dead context to another without a namespace, the contexts are not fetched
  again, so the reason is not shown.
- The back button restores a resource that is gone.
- A bare `Kind/name` link may pick a pod of another namespace from the capacity feed.
- The notice of a fallback also appears on a first switch, while no resolved context
  is known.

On the canvas, folding and counts:

- A sibling group whose members are partly claimed lets two pills cover a resource
  below both (`collapse.ts:111` says "AT MOST ONE pill"); chips then count it twice,
  and unfolding stops at the first pill that covers it, open or not.
- An opened pill nested in another floats without its parent's frame; an expanded
  kind box counts what it shows plus what the fold would hide.
- The pill that hides the selection cannot be closed: it is opened again at once.
- Pill counts and search ignore what a pill drags along below its group; a search
  whose matches are all folded says "No resources match the active filter."
- Two edges from a parent to one child list the child twice in its group.
- Arrow keys step through hidden orphans.

Camera and selection:

- Clicking the selected card, then another within 220 ms, deselects the other.
- On a phone the drawer covers the canvas, so the selection fit waits for ever and the
  clamp of a resize gives way to it.
- A switch of namespace or grouping, and Home, with a selection: the fit of the whole
  is spent and nothing frames the new graph.
- The pending fit keeps the boxes of the layout it was asked in; the fit of a capacity
  row does not wait for the drawer; deselecting on an empty canvas leaves it pending.
- Effects not ordered by the source may fit a selection in the layout before it
  unfolds.
- The next frame has one task: the fit of a row toggled by key, or of a health or kind
  filter after a deselection, within a frame of a selection takes the place of that
  selection's fit, which stays pending until a resize comes. `FitComes` names the two
  cases, the Nodes view and no selection; by `FitAlwaysComes` there is no other.
- A press on a capacity row, a segment or a kind band is taken for the background and
  deselects. Clear with two filters on schedules a fit for the first one cleared.

What is lit:

- The edge from a spotlit hub to its pill is accented and faded at once
  (`spotlight.ts:161-164`: "the accent and the un-faded set coincide").
- A kind filter beside a selection lights edges between faded cards; with a search and a
  health filter, search alone lights (`Topology.tsx:1822`: "so the count reflects what's
  actually lit").
- Hovering a segment of the unscheduled row fades that row and its segments, twice over.
- The Nodes view without a feed is blank and says nothing; a resource that returns
  during its exit animation is drawn twice.

## 6. Proofs

The theorems hold for every set of objects, kinds, namespaces, connections, containers,
texts, contexts and resources, and for every bound. Their assumptions type the constants
and say what the code cannot be without: `FeedAssumption`, `CRDAssumption`,
`LimitsAssumption` (bounds are naturals, a tab remembers at least one source),
`SessionAssumption` (a cluster has finitely many namespaces), `NoneAssumption` (no value
is its own absence) and `StartsAssumption` (the tabs a run starts from are well formed).

| Theorem | States |
|---|---|
| `TypeCorrect` | `Spec => []TypeOK` for the feed |
| `NoChangeLost` | `Spec => []NoLostChange` |
| `ScreenAlwaysBuilt` | `Spec => []ScreenIsBuilt` |
| `PatchesAlwaysApply` | `Spec => []PatchesApply` |
| `FeedKeepsPromise` | `Spec => KeepsPromise`: the feed implements `LiveView` |
| `CRDTypeCorrect` | `Spec => []TypeOK` for the CRD watcher |
| `WiredAtMostOnce` | `Spec => []WiredOnce` |
| `ReconcilesAreSerial` | `Spec => []OneLoop` |
| `NoTriggerLost` | `Spec => []NoLostTrigger` |
| `RemovalsAreAnnounced` | `Spec => []RemovalAnnounced` |
| `LogsTyped` | `Spec => []TypeOK` for the log stream |
| `ForgettingIsSafe` | `Spec => []ForgottenIsGone` |
| `LinesShownOnce` | `Spec => []ShownOnce` |
| `NoLineSkipped` | `Spec => []NothingSkipped` |
| `SessionInOrder` | `Spec => []SessionInv`, the inductive invariant of the session |
| `SessionTyped` | `Spec => []TypeOK` for the session |
| `SidebarIsOwn` | `Spec => []RowsAreOwn` |
| `DrawerStaysHere` | `Spec => []DrawerIsHere` |
| `OfflineIsMeant` | `Spec => []OfflineHasCause` |
| `TabIsPlaced` | `Spec => []NeverStranded` |
| `BadgeReachesAll` | `Spec => []JumpVisitsAll` |
| `LinkLeadsBack` | `Spec => []LinkReturns` |
| `ClampStays` | clamping a clamped pan changes nothing |
| `ClampCovers` | a clamped pan leaves no empty canvas: what overflows covers the view, what fits lies inside it |
| `AxisCovers` | the floored fit does the same on each axis, to one rounded pixel |
| `LitEdgeJoinsLitCards` | in the relationship view a lit edge joins lit cards, for every page and edge: the first part of `LitTogether` |
| `FitAlwaysComes` | `Spec => FitComes` |
| `CameraStaysInFrame` | `Spec /\ []TypeOK => []InFrame` for the canvas |
| `NewScopeIsOwed` | `Spec /\ []TypeOK => ScopeIsOwed`, the first half of `FitsNewScope` |

*No lost change* needs `Subscribed` (a handler that builds or waits holds a
subscription, because it subscribes before its first read) as part of the
invariant: without it `Notify` could consume the last handler call of a kind
without leaving a signal. The two parts, for a waiting and for a building handler,
are carried through each action; the cases that matter are `InformerApply` (a new
difference comes with a call in flight), `Notify` (the call becomes a signal),
`TakeChange` (the signal becomes an armed timer), `Debounce` (the timer becomes a
build with every kind to read) and `ReadKind`.

*Patches apply* and *the screen is what was built* rest on the round-trip lemma
`PatchRoundTrip` (`ApplyPatch` of a `Diff` gives the second graph's nodes), on
`DiffBase` (a patch depends on its base only through its nodes), and on a chain
invariant over the wire: every patch was computed from the graph of the event
before it, starting from what is shown, and the last event brings about what the
handler last built. `AppendChain` and `TailChain` carry the chain over a write and
a delivery.

*The feed implements `LiveView`* rests on `OrderInv`: of every object of the namespace a
stream serves, "seen by the tab, along the wire, last built, being built, in the
indexer, in the cluster" never decreases from left to right, and objects of other
namespaces are absent from the wire, from `prev` and from the build. A build reads an
indexer that is behind the cluster and ahead of what was read before; a patch brings the
tab to the age the server built; a reconnect starts from a snapshot that cannot be older
than what the tab has seen, because an indexer never goes back while kd runs. A restart
empties everything at once, the tab's `seen` in `LiveView` too. Each step then maps to
a step of `LiveView` or to a stutter.

*Reconciles are serial* ties `reconcileRunning` to the existence of the loop and
`reconcilePending` to `reconcileRunning`; *no trigger lost* then follows because
the only worker that can reach the final check is the one that would have to run
the next round.

*The camera's arithmetic.* The first part of `CanvasProofs` is about `Viewport` for every whole-number size of layout and view
(smaller than the padding included). `ClampStays` holds of any pan, since a clamp gives
one of its bounds or what lay between them; `AxisCovers` needs that two ends rounded
each by itself are as far apart as their rounded distance, or a pixel more (`DivDiff`,
`ScaledDiff`).

*The canvas.* Every handler is a composition of setters, and a setter runs its effects in
order, so `CanvasProofs` says of each effect what it leaves (`Near`, `Same`, `Stays`), of
a setter what all its effects give (`UpdatedGives`), and of each handler that it is
setters one after the other (`ActsLand`, `LooksLand`, `HearsLand`, `TicksLand`), for every
graph, layout and order of effects. Three facts of a tab are carried along. `Settled`:
the clamp leaves the camera alone, because a new layout is clamped to at the end of the
setter that brought it, a fit clamps by itself (`MovedSettles`), and what changes the
size of the canvas says so until it clamps or gives way to a fit. `Knows`: the effect
that fits all has seen the page's scope and lens, so the next scope is new to it and
owed a fit (`Owes`). `Comes`: a pending selection fit has its frame or its resize ahead.
The last needs nothing of the layouts. The other two take from `TypeOK`, which TLC
checks, that layouts and screens measure whole pixels and that the layout of no graph is
empty: both are results of folds over the graph, which the provers cannot compute.

*Lines are shown once.* The proof is about one container at a time and about two
numbers that no variable holds: `f`, the last stamped line the server sent of it, and
`a`, the last the tab accepted (`SourceInv`). On the server, `Recording` says that the
record counts at least what a re-opened tail may send again at the stamp of `f`, and
`Reading` that a read in progress at line `nx` has enough left in its copy of the record to drop
every line up to `f`. In the tab, `Tracking` says the same of its record and `a`;
`Filtering` that what may still come of old lines is covered by the snapshot of the
record that the connection was opened with; `Accounted` and `Balanced` relate what is
on screen, in the channel and already passed to the counts of both records, so that a
line that is new is never dropped by the count of an old one; `Below` keeps the snapshot
behind the record. `Retired` covers the containers whose pods are gone (and the streamer
that still drains one), `WorldInv` that logs are ordered by stamp, `QuietInv` that a
broken stream has nothing under way. The lemmas on `Tally` count the equal
lines of a stamp in a set of places; each of the actions that send, drop, pass, accept or
grow a log has its lemmas on these counts, and the theorem puts them together.

*No line is skipped* is the converse, so `LogSkipProofs` bounds the same records from
above. `SkipInv` says it per container, of two sets that no variable holds: `S`, the
lines sent over this connection, and `W`, those of them the tab has taken. On the
server, `Dated` and `Counts` say that a record has the stamp of a line that was sent and
counts just the lines sent with it; `Reads` that a read in progress has sent all it has
passed, and that its copy of the record counts only what was sent before and is still
ahead; so a line is dropped only if it was sent (`DropIsOld`). In the tab, `Told` says that the
record counts no more than what is on screen, and `Owes` that the snapshot counts no
more than what was on screen before and will be sent again; so a line is dropped only
if it is on screen (`TakeDrops`). What makes these inductive is that both sets are
`Closed`: with a line they hold all that precede it in its instance. That in turn
needs the history of the container (`Chapters`): instances follow each other and a
later one has later stamps, so lines that share a stamp, which is what a record can
confuse, are of one instance (`SameStamp`). `InTurn`, which is the property itself, then
passes from what is sent to what is shown. All of it holds while a tail reaches back and
the screen is not full (`Roomy`); `RoomInv` adds that until then the tab has forgotten no
source, so that its record has not started anew, and no step leads back to a screen with room
(`BufferRoom`). TLC checked `SkipInv` on the instances of section 4 before it was proved.

*Forgetting is safe* needs `MemoryInv`: the record of a source is at most as far from
the end of the tab's records as the source's newest stamped line is from the bottom of
the screen. Both are bounded by the same capacity, so a record that falls out of the
front takes no visible line with it.

*The session* has one invariant for all, `SessionInv`. Every handler is a chain of
setters on `page`, so it is stated for a page and each setter has a lemma: what it
needs and what it leaves. `OfSub`: graph, capacity, selection and history are of
the context the subscription was opened for; `InScope`: that one is the context on
screen, and what is on the wire was built for it and its namespace, else an event that
arrives after a switch could break the first part; `Listing`: the list, what the
server sent and every live summary is a health its namespace has had (`had`), the
summaries in the context they name, since those outlive a switch; `Pill`: an
offline pill has an error, or a stream that is down or still owes its snapshot;
`Placed`: whenever a list is on screen, the namespace is on it. `BadgeReachesAll`
orders the namespaces as the sidebar does and needs that a finite, strictly ordered set
has a first element (`FirstElement`). `LinkLeadsBack` needs `Unique`: a cluster has one
resource of a kind and name per namespace.

*What is lit.* `LitEdgeJoinsLitCards` follows from the definitions of the lens by cases
on what decides: a search, a health, kinds, or the neighbours of the subject, whose
edges have both ends among them (`NeighborsHaveEnds`). The rest of `LitTogether` depends
on which edges and cards a layout draws.

Only model-checked: of `Canvas` its `TypeOK`, the second half of `FitsNewScope` (a
handler may run two setters, and that a layout which lost its fit to the first is not
empty after the second depends on the layouts), `SelectionInView` and what its layouts and lenses say
(`NothingLost`, `BoxesApart`, `HonestCounts`, `SelectionShown`, `TriageReaches`,
`CapacityAdds`, `LitTogether`), the properties that the violation runs refute, and
everything temporal under fairness (`CatchesUp`, `HandlerEnds`,
`PromptInstallShows`, `GoneShown`, `Settles`, `DiagnosisShown`), which is out of
this prover's reach, as are `ENABLED` and induction over data: what the layouts compute
by folding over cards and groups, and so `NothingLost` or `BoxesApart` for every graph,
stays with TLC.

## 7. Not modelled

Not yet (steps 7 to 9 of the plan): the registry of contexts, RBAC, and the building of
a graph with its edges, health and roll-ups. Of modelled parts: the graph feed's
`summary` and `capacity` events in `GraphFeed` (they appear in `ClusterSession`), the
one-shot dump of a previous container's logs, the URL's view settings, the drawer's
panels, the exit animation.

Not to be modelled: the events feed and REST reads (stateless; nothing of one request
meets another), authentication (a mapping of headers), gzip bytes, flag parsing,
start-up and console output, card text, icons and styling, manifest syntax and ANSI
colouring - pure presentation or I/O. client-go, the apiserver, the kubelet, dagre and
the browser appear only as the environment the code sees.
