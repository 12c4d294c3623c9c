--------------------------- MODULE ClusterSession ---------------------------
(***************************************************************************)
(* One tab of kd from its URL to a live screen: the contexts list, the     *)
(* namespaces feed that fills the sidebar, the choice of a namespace, the  *)
(* graph subscription, the connecting/live/offline pill and the selection. *)
(* (src/web/src/clusterSession.ts, liveHealth.ts, ns.ts,                   *)
(* graphSubscription.ts, selection.ts, nav.ts, urlState.ts, App.tsx; the   *)
(* server's side of the two streams is src/internal/api/sse.go.)           *)
(*                                                                         *)
(* `page` is everything the tab holds, with the two streams it owns (a     *)
(* stream that is replaced takes what it had in flight along: the tab      *)
(* drops late events, see GraphFeed).  An event handler runs to the end    *)
(* together with every effect it triggers, so each action applies to page  *)
(* the operators of the handler and of those effects, in their order.      *)
(* The rest of the variables are what the tab cannot see: the clusters,    *)
(* kd itself, and the budgets that bound their moves.                      *)
(***************************************************************************)
EXTENDS Naturals, Sequences, FiniteSets

CONSTANTS Contexts,      \* the kubeconfig contexts
          Default,       \* the one /contexts reports as default
          Bogus,         \* a ?ctx= no kubeconfig context has
          Namespaces,    \* namespace names, as numbers in alphabetical order
          Healths,       \* healths that occur, as severities
          Objects,       \* resources that may exist in a namespace
          RefOf,         \* the Kind/name of each; two objects may share one
          Starts,        \* [world, objects, broken, signedIn, forbidden, moody, busy,
                         \*  url, limits]: where tab and clusters may start, and budgets
          None

ASSUME SessionAssumption ==
  /\ Default \in Contexts /\ Bogus \notin Contexts /\ None \notin Contexts \cup {Bogus}
  /\ Namespaces \subseteq Nat /\ IsFiniteSet(Namespaces) /\ None \notin Namespaces
  /\ Healths \subseteq 0..4 /\ 0 \in Healths

Cluster == 0      \* the pinned pseudo-namespace, CLUSTER_SCOPE
Absent == 9       \* a namespace that is not in a list

\* Health by its severity (health.ts): Healthy, Suspended, Unknown, Progressing, Degraded.
Progressing == 3

Lists == [Namespaces -> Healths \cup {Absent}]
Names(list) == {n \in Namespaces : list[n] # Absent}
EmptyList == [n \in Namespaces |-> Absent]

\* A resource as the tab knows it, what a build of a graph stream holds, the
\* events that carry it, what a URL may say, and an answer to a contexts fetch.
Id(c, n, o) == [ctx |-> c, ns |-> n, obj |-> o]
Ids == {Id(c, n, o) : c \in Contexts, n \in Namespaces, o \in Objects}
Builds == [nodes : SUBSET Ids, health : Healths]
GraphEvents == [event : {"snapshot", "patch"}, build : Builds]
Selectors == [ref : {RefOf[o] : o \in Objects}, ns : Namespaces \cup {None}]
Urls == [ctx : Contexts \cup {Bogus, None}, ns : Namespaces \cup {None},
         sel : Selectors \cup {None}]
Answers == [err : {"none", "auth", "down"}, reasons : SUBSET Contexts]

\* None is none of the values it stands in for.
ASSUME NoneAssumption == None \notin Ids /\ None \notin GraphEvents /\ None \notin Answers
                         /\ None \notin Selectors

\* A cluster holds one object of a kind and name in a namespace.
ASSUME StartsAssumption ==
  \A s \in Starts :
    /\ s.world \in [Contexts -> Lists] /\ s.objects \in [Contexts -> [Namespaces -> SUBSET Objects]]
    /\ \A c \in Contexts, n \in Namespaces : \A a, b \in s.objects[c][n] : RefOf[a] = RefOf[b] => a = b
    /\ s.broken \subseteq Contexts /\ s.signedIn \in BOOLEAN /\ s.forbidden \in BOOLEAN
    /\ s.url \in Urls

VARIABLES world,   \* world[c]: the health of every namespace the user may see
          had,     \* had[c][n]: the healths it has had (history, for RowsAreOwn)
          objects, \* objects[c][n]: the resources in it
          given,   \* what stays as it started: broken contexts, identity, policy, and
                   \* the namespaces whose health (moody) or resources (busy) may change
          failed,  \* the contexts whose cache kd has tried to build in vain
          up,      \* kd answers
          left,    \* how many changes, clicks and faults may still come
          page

vars == <<world, had, objects, given, failed, up, left, page>>

(* ---------------------------------------------------------------------- *)
(* What the tab derives from its state (createMemo and JSX conditions).    *)

InNamespace(c, n) == {Id(c, n, o) : o \in objects[c][n]}
InCluster(c) == UNION {InNamespace(c, n) : n \in Namespaces}

\* The list as the tab may use it: none before the first push or on an error.
NamespaceList(p) == IF p.errored \/ p.list = None THEN EmptyList ELSE p.list

\* A summary of this context that no later list has superseded wins over the list.
Merged(p) ==
  [n \in Namespaces |->
     IF NamespaceList(p)[n] # Absent /\ p.live[n] # None /\ p.live[n].ctx = p.ctx
     THEN p.live[n].health ELSE NamespaceList(p)[n]]

NoNamespaces(p) == p.received /\ ~p.errored /\ Names(NamespaceList(p)) = {}
AuthFailed(p) == p.contexts.err = "auth"
InfoOf(p) == p.contexts.got /\ p.contexts.err = "none"

\* Troubled first: worst health, then name.
Before(list, a, b) == list[a] > list[b] \/ (list[a] = list[b] /\ a < b)
Top(list, S) == CHOOSE a \in S : \A b \in S \ {a} : Before(list, a, b)
Real(list) == Names(list) \ {Cluster}
MostTroubled(list) == IF Real(list) = {} THEN Cluster ELSE Top(list, Real(list))
Troubled(list) == {n \in Real(list) : list[n] >= Progressing}

\* A mutated form: the badge always lands on the worst.
NextWorst(list, n) == Top(list, Troubled(list))

\* The trouble badge steps from the selection to the next worst and wraps.
NextTroubled(list, n) ==
  LET T == Troubled(list)
      After == {m \in T : Before(list, n, m)}
  IN IF n \in T /\ After # {} THEN Top(list, After) ELSE Top(list, T)

Visible(p) == p.graph \cup p.capacity
Drawer(p) == IF p.selected = None THEN None
             ELSE IF p.selected \in Visible(p) \/ p.last = p.selected THEN p.selected
             ELSE None

\* The rungs of the empty canvas: identity before policy before connectivity.
Canvas(p) == IF p.conn = "live" THEN "empty"
             ELSE IF AuthFailed(p) THEN "not signed in"
             ELSE IF NoNamespaces(p) THEN "no namespaces"
             ELSE IF p.conn = "offline" THEN "offline"
             ELSE "connecting"

\* A mutated form: the link names a selection by kind and name only.
LinkByName(p) ==
  [ctx |-> IF InfoOf(p) THEN p.ctx ELSE None, ns |-> p.namespace,
   sel |-> IF p.selected = None \/ p.selected \notin Visible(p) THEN None
           ELSE [ref |-> RefOf[p.selected.obj], ns |-> None]]

\* The URL the tab keeps current: ctx only with a loaded list, the selection
\* only while it resolves, its namespace only when it is another one.
Link(p) ==
  [ctx |-> IF InfoOf(p) THEN p.ctx ELSE None,
   ns  |-> p.namespace,
   sel |-> IF p.selected = None \/ p.selected \notin Visible(p) THEN None
           ELSE [ref |-> RefOf[p.selected.obj],
                 ns |-> IF p.selected.ns = p.namespace THEN None ELSE p.selected.ns]]

(* ---------------------------------------------------------------------- *)
(* Effects and handlers, as functions of the page.                         *)

Dial == [up |-> FALSE, sent |-> None, dirty |-> FALSE, wire |-> None]

\* A mutated form: the old list stays until the new context's arrives.
ListedLater(p) == IF p.ctx = None THEN p ELSE [p EXCEPT !.errored = FALSE, !.nsConn = Dial]

\* The namespaces effect: drop the list, open a stream for the context.
Listed(p) == IF p.ctx = None THEN p
             ELSE [p EXCEPT !.list = None, !.received = FALSE, !.errored = FALSE, !.nsConn = Dial]

\* A mutated form: the selection survives a switch of context.
SubscribedKeeping(p) ==
  IF p.ctx = None \/ p.namespace = None THEN p
  ELSE [p EXCEPT !.filtered = @ /\ p.sub = None, !.history = IF p.sub = None THEN @ ELSE <<>>,
                 !.sub = p.ctx, !.graph = {}, !.capacity = {},
                 !.conn = "connecting", !.grConn = Dial]

\* The subscribe effect: a new context drops the selection; anything but the
\* first subscription drops filters and history; the graph is blanked.
Subscribed(p) ==
  IF p.ctx = None \/ p.namespace = None THEN p
  ELSE [p EXCEPT !.selected = IF p.sub \in {None, p.ctx} THEN @ ELSE None,
                 !.filtered = @ /\ p.sub = None,
                 !.history = IF p.sub = None THEN @ ELSE <<>>,
                 !.sub = p.ctx, !.graph = {}, !.capacity = {},
                 !.conn = "connecting", !.grConn = Dial]

SetCtx(p, c) == IF c = p.ctx THEN p ELSE Subscribed(Listed([p EXCEPT !.ctx = c]))
SetNamespace(p, n) == IF n = p.namespace THEN p ELSE Subscribed([p EXCEPT !.namespace = n])

\* A mutated form: the picker runs only while nothing is picked.
PickedOnce(p) ==
  IF p.namespace # None \/ Names(NamespaceList(p)) = {} THEN p
  ELSE [SetNamespace(p, MostTroubled(NamespaceList(p))) EXCEPT !.resolved = p.ctx]

\* The picker: keep a namespace the list has, else land on the worst one, and
\* say so unless the list is another context's than the one last resolved.
Picked(p) ==
  LET list == NamespaceList(p)
      n == IF p.namespace \in Names(list) THEN p.namespace ELSE MostTroubled(list)
      tell == n # p.namespace /\ p.namespace # None /\ p.resolved \in {None, p.ctx}
  IN IF Names(list) = {} THEN p
     ELSE [SetNamespace(p, n) EXCEPT !.resolved = p.ctx, !.notice = @ \/ tell]

Refetch(p) == [p EXCEPT !.contexts.fetch = "asked"]

\* A list arrives: it supersedes every summary so far, then the picker runs.
NamespacesEvent(p, list) ==
  Picked([p EXCEPT !.list = list, !.received = TRUE, !.errored = FALSE,
                   !.live = [n \in Namespaces |-> None]])

\* A mutated form: a failing namespaces feed leaves the pill alone.
NamespacesErrorQuiet(p) == [p EXCEPT !.errored = TRUE]

\* The namespaces stream failed: offline only while nothing else owns the pill.
NamespacesError(p) ==
  LET q == [p EXCEPT !.errored = TRUE]
  IN IF p.errored \/ p.conn # "connecting" THEN q ELSE [Refetch(q) EXCEPT !.conn = "offline"]

\* A mutated form: a failing graph stream does not ask for the contexts again.
GraphErrorQuiet(p) == [p EXCEPT !.conn = "offline"]

GraphError(p) ==
  [(IF p.conn # "offline" THEN Refetch(p) ELSE p) EXCEPT !.conn = "offline"]

Matches(nodes, sel) == {i \in nodes : RefOf[i.obj] = sel.ref /\ sel.ns \in {None, i.ns}}

\* The deep link is restored as soon as something it names is there.
Restored(p) ==
  IF p.pending = None \/ Matches(Visible(p), p.pending) = {} THEN p
  ELSE [p EXCEPT !.pending = None,
          !.selected = IF Matches(p.graph, p.pending) # {}
                       THEN CHOOSE i \in Matches(p.graph, p.pending) : TRUE
                       ELSE CHOOSE i \in Matches(p.capacity, p.pending) : TRUE]

\* The snapshot decides the selection before the store changes: keep it if it
\* is there, else follow the deep link, else select nothing.
ResolvedSelection(p, nodes) ==
  CASE p.selected \in nodes -> p.selected
    [] p.selected \notin nodes /\ p.pending # None /\ Matches(nodes, p.pending) # {} ->
         CHOOSE i \in Matches(nodes, p.pending) : TRUE
    [] OTHER -> None

\* A mutated form: a reconnect's snapshot leaves the pill offline.
SnapshotEventOnce(p, nodes) ==
  LET sel == ResolvedSelection(p, nodes \cup p.capacity)
  IN [Restored([p EXCEPT !.graph = nodes, !.conn = IF @ = "offline" THEN @ ELSE "live"])
        EXCEPT !.selected = sel]

SnapshotEvent(p, nodes) ==
  LET sel == ResolvedSelection(p, nodes \cup p.capacity)
  IN [Restored([p EXCEPT !.graph = nodes, !.conn = "live"]) EXCEPT !.selected = sel]

PatchEvent(p, nodes) == Restored([p EXCEPT !.graph = nodes])
CapacityEvent(p, nodes) == Restored([p EXCEPT !.capacity = nodes])

\* A summary is filed under the namespace its stream was opened for.
SummaryEvent(p, c, n, health) ==
  IF c # p.ctx THEN p ELSE [p EXCEPT !.live[n] = [ctx |-> c, health |-> health]]

\* The contexts list arrives: an unknown context gives way to the default.
ContextsEvent(p) ==
  LET got == p.contexts.answer
      q == [p EXCEPT !.contexts.fetch = "none", !.contexts.err = got.err]
  IN IF got.err = "none"
     THEN LET r == [q EXCEPT !.contexts.got = TRUE, !.contexts.reasons = got.reasons]
          IN IF r.ctx \in Contexts THEN r ELSE SetCtx(r, Default)
     ELSE [q EXCEPT !.conn = IF got.err = "auth" THEN @ ELSE "offline"]

\* The drawer remembers the last selection it could resolve.
Remembered(p) ==
  IF p.selected # None /\ p.selected \in Visible(p) THEN [p EXCEPT !.last = p.selected] ELSE p

\* A tab starts from a URL: nothing known, the contexts asked for, and the
\* streams the URL already names opened.
Blank(u) ==
  [ctx |-> u.ctx, namespace |-> u.ns, pending |-> u.sel,
   contexts |-> [got |-> FALSE, err |-> "none", reasons |-> {}, fetch |-> "asked", answer |-> None],
   list |-> None, received |-> FALSE, errored |-> FALSE,
   live |-> [n \in Namespaces |-> None], resolved |-> None, notice |-> FALSE,
   conn |-> "connecting", sub |-> None, filtered |-> FALSE, history |-> <<>>,
   graph |-> {}, capacity |-> {}, selected |-> None, last |-> None,
   nsConn |-> Dial, grConn |-> Dial]
Mounted(u) == Subscribed(Listed(Blank(u)))

Init ==
  \E s \in Starts :
    /\ world = s.world /\ objects = s.objects /\ left = s.limits
    /\ had = [c \in Contexts |-> [n \in Namespaces |-> {s.world[c][n]}]]
    /\ given = [broken |-> s.broken, signedIn |-> s.signedIn, forbidden |-> s.forbidden,
                moody |-> s.moody, busy |-> s.busy]
    /\ failed = {} /\ up = TRUE
    /\ page = Mounted(s.url)

(* ---------------------------------------------------------------------- *)
(* The clusters and kd.                                                    *)

Spend(what) == left[what] > 0 /\ left' = [left EXCEPT ![what] = @ - 1]

\* Every change wakes the streams of its context.
Dirtied(c) == IF c = page.ctx THEN [page EXCEPT !.nsConn.dirty = @ \/ page.nsConn.up] ELSE page

HealthMoves(c, n, h) ==
  /\ Spend("changes") /\ <<c, n>> \in given.moody /\ world[c][n] # h
  /\ world' = [world EXCEPT ![c][n] = h]
  /\ had' = [had EXCEPT ![c][n] = @ \cup {h}]
  /\ objects' = IF h = Absent THEN [objects EXCEPT ![c][n] = {}] ELSE objects
  /\ page' = Dirtied(c)
  /\ UNCHANGED <<given, failed, up>>

ObjectMoves(c, n, o) ==
  /\ Spend("changes") /\ <<c, n>> \in given.busy /\ world[c][n] # Absent
  /\ objects' = [objects EXCEPT ![c][n] = IF o \in @ THEN @ \ {o} ELSE @ \cup {o}]
  /\ \A a, b \in objects'[c][n] : RefOf[a] = RefOf[b] => a = b
  /\ page' = Dirtied(c)
  /\ UNCHANGED <<world, had, given, failed, up>>

\* A kd that starts again has built no cache, and finds no old connection.
ServerStops == /\ up /\ Spend("faults") /\ up' = FALSE /\ failed' = {}
               /\ UNCHANGED <<world, had, objects, given, page>>
ServerStarts == /\ ~up /\ ~page.nsConn.up /\ ~page.grConn.up /\ up' = TRUE
                /\ UNCHANGED <<world, had, objects, given, failed, left, page>>

(* ---------------------------------------------------------------------- *)
(* The contexts list: asked, answered by kd, delivered.  A later fetch     *)
(* replaces the one before it.                                             *)

ContextsAnswered ==
  /\ page.contexts.fetch = "asked"
  /\ page' = [page EXCEPT !.contexts.fetch = "answered", !.contexts.answer =
       [err |-> IF ~up THEN "down" ELSE IF given.signedIn THEN "none" ELSE "auth",
        reasons |-> failed]]
  /\ UNCHANGED <<world, had, objects, given, failed, up, left>>

ContextsDelivered ==
  /\ page.contexts.fetch = "answered"
  /\ page' = ContextsEvent(page)
  /\ UNCHANGED <<world, had, objects, given, failed, up, left>>

(* ---------------------------------------------------------------------- *)
(* The two streams.  A stream is refused by a kd that is down or does not  *)
(* know the caller, by a context whose cache cannot be built, and, the     *)
(* graph, by the policy; EventSource and the watchdog keep dialling.       *)

Refused == ~up \/ ~given.signedIn \/ page.ctx = Bogus \/ page.ctx \in given.broken
GraphRefused == IF Refused THEN TRUE
                ELSE given.forbidden /\ world[page.ctx][page.namespace] = Absent
HasGraphStream == page.ctx # None /\ page.namespace # None

\* A mutated form: whatever refuses a stream counts against its context.
TouchedAnyway == failed \cup {page.ctx}

\* Opening a stream is what makes kd build the context's cache.
Touched == IF up /\ given.signedIn /\ page.ctx \in given.broken THEN failed \cup {page.ctx} ELSE failed

NsRefused ==
  /\ page.ctx # None /\ ~page.nsConn.up /\ Refused
  /\ page' = NamespacesError(page)
  /\ failed' = Touched
  /\ UNCHANGED <<world, had, objects, given, up, left>>

\* The first push of a stream is unconditional.
NsAccepted ==
  /\ page.ctx # None /\ ~page.nsConn.up /\ ~Refused
  /\ page' = [page EXCEPT !.nsConn = [up |-> TRUE, sent |-> world[page.ctx], dirty |-> FALSE,
                                     wire |-> world[page.ctx]]]
  /\ UNCHANGED <<world, had, objects, given, failed, up, left>>

\* Every 15 s, if anything changed: roll up, and push unless it is what was sent.
NsTick ==
  /\ up /\ page.nsConn.up /\ page.nsConn.dirty /\ page.nsConn.wire = None
  /\ LET next == world[page.ctx]
     IN page' = [page EXCEPT !.nsConn.dirty = FALSE, !.nsConn.sent = next,
                             !.nsConn.wire = IF next = page.nsConn.sent THEN None ELSE next]
  /\ UNCHANGED <<world, had, objects, given, failed, up, left>>

NsDelivered ==
  /\ page.nsConn.wire # None
  /\ page' = Remembered(NamespacesEvent([page EXCEPT !.nsConn.wire = None], page.nsConn.wire))
  /\ UNCHANGED <<world, had, objects, given, failed, up, left>>

GraphRefusal ==
  /\ HasGraphStream /\ ~page.grConn.up /\ GraphRefused
  /\ page' = GraphError(page)
  /\ failed' = Touched
  /\ UNCHANGED <<world, had, objects, given, up, left>>

Built == [nodes |-> InNamespace(page.ctx, page.namespace),
          health |-> IF world[page.ctx][page.namespace] = Absent
                     THEN 0 ELSE world[page.ctx][page.namespace]]

\* Accepting sends the snapshot, later builds send a patch when they differ.
GraphAccepted ==
  /\ HasGraphStream /\ ~page.grConn.up /\ ~GraphRefused
  /\ page' = [page EXCEPT !.grConn = [up |-> TRUE, sent |-> Built, dirty |-> FALSE,
                                     wire |-> [event |-> "snapshot", build |-> Built]]]
  /\ UNCHANGED <<world, had, objects, given, failed, up, left>>

GraphPatched ==
  /\ up /\ page.grConn.up /\ page.grConn.wire = None /\ page.grConn.sent # Built
  /\ page' = [page EXCEPT !.grConn.sent = Built, !.grConn.wire = [event |-> "patch", build |-> Built]]
  /\ UNCHANGED <<world, had, objects, given, failed, up, left>>

\* The graph event, then the summary of the same build.
GraphDelivered ==
  /\ page.grConn.wire # None
  /\ LET w == page.grConn.wire
         p == [page EXCEPT !.grConn.wire = None]
         q == IF w.event = "snapshot" THEN SnapshotEvent(p, w.build.nodes)
              ELSE PatchEvent(p, w.build.nodes)
     IN page' = Remembered(SummaryEvent(q, page.ctx, page.namespace, w.build.health))
  /\ UNCHANGED <<world, had, objects, given, failed, up, left>>

\* The cluster-wide pods, after the snapshot of the same stream.
CapacityDelivered ==
  /\ up /\ page.grConn.up /\ page.grConn.wire = None /\ page.capacity # InCluster(page.ctx)
  /\ page' = Remembered(CapacityEvent(page, InCluster(page.ctx)))
  /\ UNCHANGED <<world, had, objects, given, failed, up, left>>

\* A connection ends with an error event when it breaks or kd stops, and
\* without one when it stalls and the watchdog dials again.
NsBroken ==
  /\ page.nsConn.up /\ (IF up THEN Spend("faults") ELSE UNCHANGED left)
  /\ page' = NamespacesError([page EXCEPT !.nsConn = Dial])
  /\ UNCHANGED <<world, had, objects, given, failed, up>>
GraphBroken ==
  /\ page.grConn.up /\ (IF up THEN Spend("faults") ELSE UNCHANGED left)
  /\ page' = GraphError([page EXCEPT !.grConn = Dial])
  /\ UNCHANGED <<world, had, objects, given, failed, up>>
NsStalled ==
  /\ page.nsConn.up /\ Spend("faults")
  /\ page' = [page EXCEPT !.nsConn = Dial]
  /\ UNCHANGED <<world, had, objects, given, failed, up>>
GraphStalled ==
  /\ page.grConn.up /\ Spend("faults")
  /\ page' = [page EXCEPT !.grConn = Dial]
  /\ UNCHANGED <<world, had, objects, given, failed, up>>

(* ---------------------------------------------------------------------- *)
(* The operator of the tab.                                                *)

Acts(p) == /\ Spend("clicks") /\ p # page /\ page' = Remembered(p)
           /\ UNCHANGED <<world, had, objects, given, failed, up>>

\* A context whose cache failed cannot be chosen, unless it is the current one.
ChooseContext(c) == /\ InfoOf(page) /\ Cardinality(Contexts) > 1
                    /\ c \notin page.contexts.reasons
                    /\ Acts(SetCtx(page, c))
ChooseNamespace(n) == n \in Names(Merged(page)) /\ Acts(SetNamespace(page, n))
JumpToTrouble == /\ Troubled(Merged(page)) # {}
                 /\ Acts(SetNamespace(page, NextTroubled(Merged(page), page.namespace)))

Select(i) == i \in Visible(page) /\ Acts([page EXCEPT !.selected = i])
Deselect == Acts([page EXCEPT !.selected = None])

\* Following an owner chip can be taken back.
SelectAndRemember(i) ==
  /\ i \in Visible(page) /\ page.selected # None
  /\ Acts([page EXCEPT !.selected = i,
                       !.history = IF page.selected = i THEN @ ELSE Append(@, page.selected)])
GoBack == /\ page.history # <<>>
          /\ Acts([page EXCEPT !.selected = page.history[Len(page.history)],
                               !.history = SubSeq(@, 1, Len(@) - 1)])

Filter == Acts([page EXCEPT !.filtered = TRUE])
Home == Acts([page EXCEPT !.filtered = FALSE, !.selected = None])
DismissNotice == Acts([page EXCEPT !.notice = FALSE])

\* The offline pill retries everything that failed and dials the graph again.
Retry ==
  /\ page.conn = "offline" /\ ~NoNamespaces(page) /\ ~AuthFailed(page)
  /\ LET p == IF page.contexts.err = "none" THEN page ELSE Refetch(page)
     IN Acts(Subscribed(IF page.errored THEN Listed(p) ELSE p))
RetryList == page.errored /\ Acts(Listed(page))

\* A reload starts over from the URL the tab left.
Reload == Spend("clicks") /\ page' = Mounted(Link(page))
          /\ UNCHANGED <<world, had, objects, given, failed, up>>

ClusterMoves ==
  \/ \E c \in Contexts, n \in Namespaces :
       \/ \E h \in Healths \cup {Absent} : HealthMoves(c, n, h)
       \/ \E o \in Objects : ObjectMoves(c, n, o)
  \/ ServerStops

Delivers == NsDelivered \/ GraphDelivered \/ CapacityDelivered \/ ContextsDelivered

Serves == \/ ServerStarts \/ ContextsAnswered \/ NsRefused \/ NsAccepted \/ NsTick
          \/ GraphRefusal \/ GraphAccepted \/ GraphPatched

Breaks == NsBroken \/ GraphBroken \/ NsStalled \/ GraphStalled

Clicks ==
  \/ \E c \in Contexts : ChooseContext(c)
  \/ \E n \in Namespaces : ChooseNamespace(n)
  \/ \E i \in Visible(page) : Select(i) \/ SelectAndRemember(i)
  \/ JumpToTrouble \/ Deselect \/ GoBack \/ Filter \/ Home
  \/ DismissNotice \/ Retry \/ RetryList \/ Reload

Next == ClusterMoves \/ Delivers \/ Serves \/ Breaks \/ Clicks

\* kd comes back, answers what it is asked and ticks; what it sent arrives;
\* a connection to a stopped kd ends.
Fairness ==
  /\ WF_vars(ServerStarts) /\ WF_vars(ContextsAnswered) /\ WF_vars(ContextsDelivered)
  /\ WF_vars(NsRefused) /\ WF_vars(NsAccepted) /\ WF_vars(NsTick) /\ WF_vars(NsDelivered)
  /\ WF_vars(GraphRefusal) /\ WF_vars(GraphAccepted) /\ WF_vars(GraphPatched)
  /\ WF_vars(GraphDelivered) /\ WF_vars(CapacityDelivered)
  /\ WF_vars(~up /\ NsBroken) /\ WF_vars(~up /\ GraphBroken)

Spec == Init /\ [][Next]_vars /\ Fairness

(* ---------------------------------------------------------------------- *)
(* Properties.                                                             *)

\* The shape of the tab's state: lists, ids and streams are of the values the
\* code keeps in them.
TypeOK ==
  /\ page.ctx \in Contexts \cup {Bogus, None} /\ page.sub \in Contexts \cup {Bogus, None}
  /\ page.namespace \in Namespaces \cup {None} /\ page.resolved \in Contexts \cup {None}
  /\ page.list \in Lists \cup {None}
  /\ page.conn \in {"connecting", "live", "offline"}
  /\ page.graph \subseteq Ids /\ page.capacity \subseteq Ids
  /\ page.selected \in Ids \cup {None} /\ page.last \in Ids \cup {None}
  /\ page.history \in Seq(Ids)
  /\ \A n \in Namespaces : page.live[n] = None \/ page.live[n].health \in Healths
  /\ page.nsConn.wire \in Lists \cup {None} /\ page.grConn.wire \in GraphEvents \cup {None}
  /\ failed \subseteq given.broken

\* A sidebar row never shows a health its namespace did not have in THIS
\* context: summaries outlive the stream and the context they came from
\* (liveHealth.ts:25-30), and a namespace of the same name exists elsewhere.
RowsAreOwn ==
  \A n \in Names(NamespaceList(page)) :
    \/ Merged(page)[n] \in had[page.ctx][n]
    \/ Merged(page)[n] = 0 /\ Absent \in had[page.ctx][n]

\* After a switch of context nothing of the old cluster stays within reach:
\* not in the canvas, the capacity view, the selection, the drawer or the
\* history of the back button (graphSubscription.ts:84-104).
DrawerIsHere ==
  /\ \A i \in page.graph : i.ctx = page.ctx /\ i.ns = page.namespace
  /\ \A i \in page.capacity : i.ctx = page.ctx
  /\ page.selected # None => page.selected.ctx = page.ctx
  /\ \A k \in DOMAIN page.history : page.history[k].ctx = page.ctx

\* The pill says offline only while something is wrong: the contexts list or
\* the namespaces feed failed, or the graph stream has not delivered the
\* snapshot of its present connection (clusterSession.ts:117-145).
OfflineHasCause ==
  page.conn = "offline" =>
    \/ page.contexts.err = "down" \/ page.errored
    \/ ~page.grConn.up
    \/ page.grConn.wire # None /\ page.grConn.wire.event = "snapshot"

\* Once a list of namespaces is on screen the tab is in one of them, whatever
\* the URL, a switch or a deletion left it with (clusterSession.ts:185-201).
NeverStranded ==
  Names(NamespaceList(page)) # {} => page.namespace \in Names(NamespaceList(page))

\* Repeated presses on the trouble badge reach every troubled namespace: no
\* part of them is closed under the jump (ns.ts:108-118).
JumpVisitsAll ==
  LET list == Merged(page)
      T == Troubled(list)
  IN \A S \in (SUBSET T) \ {{}, T} : \E n \in S : NextTroubled(list, n) \notin S

\* The URL of a live tab leads back to the same selection: opened elsewhere it
\* selects the same resource once the same feeds arrive, also a pod of another
\* namespace picked in the Nodes view (urlState.ts:120-125, nav.ts:25-33).
LinkReturns ==
  page.conn = "live" /\ InfoOf(page) /\ page.selected \in Visible(page)
    /\ (page.selected \in page.graph \/ page.selected.ns # page.namespace)
  => LET p == CapacityEvent(SnapshotEvent(Mounted(Link(page)), page.graph), page.capacity)
     IN /\ p.ctx = page.ctx /\ p.namespace = page.namespace
        /\ p.selected = page.selected

Reachable == /\ page.ctx \in Contexts \ given.broken /\ given.signedIn
             /\ Names(world[page.ctx]) # {}

\* When cluster, network and operator rest, the tab stops connecting: it says
\* what is wrong, or it is in a namespace that exists, shows its resources and
\* its health, and is live unless a fetch of the contexts list failed.
Settles ==
  <>[](/\ Canvas(page) # "connecting"
       /\ Reachable =>
            /\ page.namespace \in Names(world[page.ctx])
            /\ page.conn = "live" \/ page.contexts.err = "down"
            /\ page.graph = InNamespace(page.ctx, page.namespace)
            /\ Merged(page)[page.namespace] = world[page.ctx][page.namespace])

\* Without faults, an offline tab comes to know why its context cannot be
\* reached: the failure lands after the first fetch of the contexts, so the
\* error path fetches them again (graphSubscription.ts:128-135).
DiagnosisShown ==
  left.faults = 0 =>
    <>[](page.ctx \in given.broken /\ page.namespace # None /\ given.signedIn
           => page.ctx \in page.contexts.reasons)

\* ns.ts:58-62: a row whose live summary is old corrects itself within the
\* poll interval and never shows a value older than the poll would.
SidebarSettles ==
  <>[](Reachable => \A n \in Names(world[page.ctx]) : Merged(page)[n] = world[page.ctx][n])
=============================================================================
