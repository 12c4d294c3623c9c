------------------------------ MODULE CRDWatch ------------------------------
(***************************************************************************)
(* How the store follows CRD installs and removals at run time (store.go): *)
(* the startup discovery, the CRD meta-informer and its handler, the       *)
(* coalescing reconcile loop, the registered resources and what a live     *)
(* subscriber sees of their custom resources.                              *)
(*                                                                         *)
(* A CRD stands for the one GVR it defines.  Its informer's indexer is     *)
(* abstracted to empty, current (objects of the installed CRD) or stale    *)
(* (objects of an installation that was deleted).                          *)
(***************************************************************************)
EXTENDS Integers, Sequences, FiniteSets

CONSTANTS
  Crds,           \* the CRDs that may be installed
  Skip,           \* those whose resource name is in the skip set
  Workers,        \* goroutines that may run reconcileLoop
  MaxChanges,     \* bound: installs and deletes
  Modes           \* the apiservers to consider:
                  \*   prompt: a CRD's API is served as soon as the CRD is visible
                  \*   late:   it is served some time later
                  \*   flaky:  late, and a discovery may fail or be partial

ASSUME CRDAssumption ==
  /\ Skip \subseteq Crds
  /\ IsFiniteSet(Crds) /\ IsFiniteSet(Workers) /\ Workers # {}
  /\ MaxChanges \in Nat
  /\ Modes \subseteq {"prompt", "late", "flaky"}

VARIABLES
  mode,       \* the apiserver's mode
  crd,        \* each CRD in the apiserver: absent, new (not served yet), served
  changed,    \* installs and deletes so far
  phase,      \* Start: discover, register, sync (background), watching
  listed,     \* the meta-informer has made its initial LIST
  meta,       \* its indexer: the CRDs a new handler gets as Adds
  queue,      \* the CRD events on their way from the watch, to the indexer
              \* while no handler is attached, to the handler afterwards
  handler,    \* the handler: idle, or about to notify after a removal
  resources,  \* Cache.resources
  wired,      \* Cache.wired
  wirings,    \* history: how often each informer was configured
  started,    \* the informers the factory runs
  indexer,    \* what the informer of each CRD's resource holds
  running,    \* reconcileRunning
  pending,    \* reconcilePending
  loop,       \* each worker: none, discover, register, start, check
  found,      \* what each worker's discovery returned (Start's before any)
  owed,       \* history: CRDs whose Add was handled since the last discovery
  removed,    \* history: CRDs whose Delete was handled, not installed again
  built,      \* the kinds with objects in the subscriber's last build
  signal      \* the subscriber's change channel

world == <<mode, crd, changed>>
informer == <<listed, meta>>
store == <<resources, wired, wirings, started>>
recon == <<running, pending, loop, found, owed>>
sub   == <<built, signal>>
vars  == <<world, phase, informer, queue, handler, store, indexer, recon, removed, sub>>

Served == {c \in Crds : crd[c] = "served"}
Holds  == {c \in resources : indexer[c] # "empty"}

Init ==
  /\ mode \in Modes
  /\ crd \in [Crds -> {"absent", "served"}]
  /\ changed = 0
  /\ phase = "discover"
  /\ listed = FALSE /\ meta = {}
  /\ queue = <<>>
  /\ handler = "idle"
  /\ resources = {} /\ wired = {} /\ started = {}
  /\ wirings = [c \in Crds |-> 0]
  /\ indexer = [c \in Crds |-> "empty"]
  /\ running = FALSE /\ pending = FALSE
  /\ loop = [w \in Workers |-> "none"]
  /\ found = [w \in Workers |-> {}]
  /\ owed = {} /\ removed = {} /\ built = {}
  /\ signal = FALSE

-----------------------------------------------------------------------------
(* The cluster. *)

\* The apiserver sends an event to the watch, if there is one yet.
Announce(kind, c) == queue' = IF listed THEN Append(queue, [type |-> kind, crd |-> c]) ELSE queue

Install(c) ==
  /\ changed < MaxChanges /\ crd[c] = "absent"
  /\ changed' = changed + 1
  /\ crd' = [crd EXCEPT ![c] = IF mode = "prompt" THEN "served" ELSE "new"]
  /\ removed' = removed \ {c}
  /\ Announce("add", c)
  /\ UNCHANGED <<mode, phase, informer, handler, store, indexer, recon, sub>>

\* The apiserver establishes the CRD: its API appears in discovery.
Establish(c) ==
  /\ crd[c] = "new"
  /\ crd' = [crd EXCEPT ![c] = "served"]
  /\ UNCHANGED <<mode, changed, phase, informer, queue, handler, store, indexer, recon, removed, sub>>

\* The CRD and its objects go.  The resource's informer may see the objects
\* leave, or its watch breaks first and the indexer keeps them.
Uninstall(c) ==
  /\ changed < MaxChanges /\ crd[c] # "absent"
  /\ changed' = changed + 1
  /\ crd' = [crd EXCEPT ![c] = "absent"]
  /\ Announce("delete", c)
  /\ \/ /\ indexer[c] = "current"
        /\ indexer' = [indexer EXCEPT ![c] = "empty"]
        /\ signal' = TRUE
     \/ /\ indexer' = [indexer EXCEPT ![c] = IF @ = "current" THEN "stale" ELSE @]
        /\ UNCHANGED signal
  /\ UNCHANGED <<mode, phase, informer, handler, store, recon, removed, built>>

\* A running informer lists its served resource; its change handler notifies.
Relist(c) ==
  /\ c \in started /\ crd[c] = "served" /\ indexer[c] # "current"
  /\ indexer' = [indexer EXCEPT ![c] = "current"]
  /\ signal' = TRUE
  /\ UNCHANGED <<world, phase, informer, queue, handler, store, recon, removed, built>>

\* Every Options.Resync (10 minutes by default) an informer hands each object it
\* holds to UpdateFunc once more, registered or not, changed or not.
Resync(c) ==
  /\ c \in started /\ indexer[c] # "empty"
  /\ signal' = TRUE
  /\ UNCHANGED <<world, phase, informer, queue, handler, store, indexer, recon, removed, built>>

-----------------------------------------------------------------------------
(* Start and the CRD watcher. *)

\* An informer hands its indexer to a new handler as Adds, in any order.
Replay(some) ==
  {order \in [1 .. Cardinality(some) -> [type : {"add"}, crd : some]] :
     \A i, j \in DOMAIN order : order[i] = order[j] => i = j}

\* New that takes a wired informer for a registered one, its other mutated form.
NewUnwired(some) == some \ (Skip \cup wired)

\* New without the skip set, the mutated form of New.
NewUnskipped(some) == some \ resources

\* What registerEager registers: neither in the skip set nor there already.
New(some) == some \ (Skip \cup resources)

\* Again forgetting `wired`, the mutated form of Again.
AgainNever(c) == FALSE

\* Is the informer configured already?
Again(c) == c \in wired

\* registerEager: under the lock, register what is neither skipped nor there
\* already; registerLocked configures an informer only the first time.
Register(some) ==
  LET add == New(some) IN
  /\ resources' = resources \cup add
  /\ wired' = wired \cup add
  /\ wirings' = [c \in Crds |-> IF c \in add /\ ~Again(c) THEN wirings[c] + 1 ELSE wirings[c]]

\* Start: the first discovery.  A failure aborts the start before anything ran.
StartDiscover ==
  /\ phase = "discover"
  /\ phase' = "register"
  /\ found' = [w \in Workers |-> Served]
  /\ UNCHANGED <<world, informer, queue, handler, store, indexer, running, pending, loop, owed,
                 removed, sub>>

\* registerEager, then factory.Start; the rest runs in the background.
StartRegister ==
  /\ phase = "register"
  /\ phase' = "sync"
  /\ \E w \in Workers : Register(found[w])
  /\ started' = wired'
  /\ found' = [w \in Workers |-> {}]
  /\ UNCHANGED <<world, informer, queue, handler, indexer, running, pending, loop, owed, removed, sub>>

\* The meta-informer lists the CRDs; a handler that is attached gets them all.
MetaList ==
  /\ phase \in {"sync", "watching"} /\ ~listed
  /\ listed' = TRUE
  /\ meta' = {c \in Crds : crd[c] # "absent"}
  /\ IF phase = "watching" THEN queue' \in Replay(meta') ELSE UNCHANGED queue
  /\ UNCHANGED <<world, phase, handler, store, indexer, recon, removed, sub>>

\* With no handler attached an event of the watch only updates the indexer.
MetaEvent ==
  /\ phase = "sync" /\ queue # <<>>
  /\ queue' = Tail(queue)
  /\ meta' = IF Head(queue).type = "add" THEN meta \cup {Head(queue).crd}
                                        ELSE meta \ {Head(queue).crd}
  /\ UNCHANGED <<world, phase, listed, handler, store, indexer, recon, removed, sub>>

\* startCRDWatcher attaches its handler, after the sync or its timeout.  The
\* informer replays its indexer to it, before what is still on its way.
Attach ==
  /\ phase = "sync"
  /\ phase' = "watching"
  /\ \E replay \in Replay(meta) : queue' = replay \o queue
  /\ UNCHANGED <<world, informer, handler, store, indexer, recon, removed, sub>>

\* Busy with the flag forgotten, its mutated form.
BusyNever == FALSE

\* A reconcile loop is there to see `pending`.
Busy == running

\* AddFunc: triggerReconcile starts a loop or marks one more round.
HandleAdd ==
  /\ phase = "watching" /\ queue # <<>> /\ handler = "idle" /\ Head(queue).type = "add"
  /\ queue' = Tail(queue)
  /\ owed' = owed \cup {Head(queue).crd}
  /\ \/ /\ Busy
        /\ pending' = TRUE
        /\ UNCHANGED <<running, loop>>
     \/ /\ ~Busy
        /\ running' = TRUE
        /\ \E w \in Workers : loop[w] = "none" /\ loop' = [loop EXCEPT ![w] = "discover"]
        /\ UNCHANGED pending
  /\ UNCHANGED <<world, phase, informer, handler, store, indexer, found, removed, sub>>

\* AfterRemoval leaving the wake-up to the informer, its mutated form.
AfterRemovalSilent(c) == "idle"

\* What is left to do after the unlock.
AfterRemoval(c) == IF c \in resources THEN "notify" ELSE "idle"

\* DeleteFunc: removeResourcesForCRD drops the entry under the lock; it keeps
\* `wired` and the informer, and notifies after the unlock.
HandleDelete ==
  LET c == Head(queue).crd IN
  /\ phase = "watching" /\ queue # <<>> /\ handler = "idle" /\ Head(queue).type = "delete"
  /\ queue' = Tail(queue)
  /\ resources' = resources \ {c}
  /\ removed' = IF crd[c] = "absent" THEN removed \cup {c} ELSE removed
  /\ handler' = AfterRemoval(c)
  /\ UNCHANGED <<world, phase, informer, wired, wirings, started, indexer, recon, sub>>

NotifyRemoval ==
  /\ handler = "notify"
  /\ handler' = "idle"
  /\ signal' = TRUE
  /\ UNCHANGED <<world, phase, informer, queue, store, indexer, recon, removed, built>>

-----------------------------------------------------------------------------
(* reconcileLoop. *)

\* reconcile: Discover returns what is served at one moment; it may fail, and
\* it may leave out groups without an error.
Discover(w) ==
  /\ loop[w] = "discover"
  /\ owed' = {}
  /\ \/ /\ loop' = [loop EXCEPT ![w] = "register"]
        /\ \E some \in SUBSET Served :
             /\ mode # "flaky" => some = Served
             /\ found' = [found EXCEPT ![w] = some]
     \/ /\ mode = "flaky"
        /\ loop' = [loop EXCEPT ![w] = "check"]
        /\ UNCHANGED found
  /\ UNCHANGED <<world, phase, informer, queue, handler, store, indexer, running, pending, removed, sub>>

ReconcileRegister(w) ==
  /\ loop[w] = "register"
  /\ loop' = [loop EXCEPT ![w] = "start"]
  /\ Register(found[w])
  /\ found' = [found EXCEPT ![w] = {}]
  /\ UNCHANGED <<world, phase, informer, queue, handler, started, indexer, running, pending, owed,
                 removed, sub>>

\* factory.Start runs every configured informer that does not run yet.
StartInformers(w) ==
  /\ loop[w] = "start"
  /\ loop' = [loop EXCEPT ![w] = "check"]
  /\ started' = started \cup wired
  /\ UNCHANGED <<world, phase, informer, queue, handler, resources, wired, wirings, indexer, running,
                 pending, found, owed, removed, sub>>

\* Check with `pending` cleared after the round it asks for, its mutated form.
CheckForgets(w) ==
  /\ loop[w] = "check"
  /\ pending' = FALSE /\ running' = FALSE
  /\ loop' = [loop EXCEPT ![w] = "none"]
  /\ UNCHANGED <<world, phase, informer, queue, handler, store, indexer, found, owed, removed, sub>>

\* Under reconcileMu: another round, or the end of the loop.
Check(w) ==
  /\ loop[w] = "check"
  /\ \/ /\ pending
        /\ pending' = FALSE
        /\ loop' = [loop EXCEPT ![w] = "discover"]
        /\ UNCHANGED running
     \/ /\ ~pending
        /\ running' = FALSE
        /\ loop' = [loop EXCEPT ![w] = "none"]
        /\ UNCHANGED pending
  /\ UNCHANGED <<world, phase, informer, queue, handler, store, indexer, found, owed, removed, sub>>

\* A live subscriber is woken and snapshots the registered kinds.
Rebuild ==
  /\ signal
  /\ signal' = FALSE
  /\ built' = Holds
  /\ UNCHANGED <<world, phase, informer, queue, handler, store, indexer, recon, removed>>

-----------------------------------------------------------------------------
Reconcile(w) == Discover(w) \/ ReconcileRegister(w) \/ StartInformers(w) \/ Check(w)

Watcher == MetaList \/ MetaEvent \/ Attach \/ HandleAdd \/ HandleDelete \/ NotifyRemoval

Next ==
  \/ \E c \in Crds : Install(c) \/ Establish(c) \/ Uninstall(c) \/ Relist(c) \/ Resync(c)
  \/ StartDiscover \/ StartRegister
  \/ Watcher
  \/ \E w \in Workers : Reconcile(w)
  \/ Rebuild

Spec == Init /\ [][Next]_vars

\* Goroutines and informers run, timers fire; the apiserver establishes what is
\* installed.  While a CRD is gone its informer's LIST fails, and no resync is
\* due until one succeeds.
Fairness ==
  /\ WF_vars(StartDiscover) /\ WF_vars(StartRegister) /\ WF_vars(Watcher) /\ WF_vars(Rebuild)
  /\ \A c \in Crds :
       /\ WF_vars(Establish(c)) /\ WF_vars(Relist(c))
       /\ WF_vars(Resync(c) /\ indexer[c] = "current")
  /\ \A w \in Workers : WF_vars(Reconcile(w))

LiveSpec == Spec /\ Fairness

-----------------------------------------------------------------------------
(* Properties. *)

\* Every variable has its type; a skipped kind is never registered, and no
\* informer runs that was not configured.
TypeOK ==
  /\ mode \in Modes
  /\ crd \in [Crds -> {"absent", "new", "served"}]
  /\ changed \in 0 .. MaxChanges
  /\ phase \in {"discover", "register", "sync", "watching"}
  /\ listed \in BOOLEAN /\ meta \subseteq Crds
  /\ queue \in Seq([type : {"add", "delete"}, crd : Crds])
  /\ handler \in {"idle", "notify"}
  /\ resources \subseteq Crds \ Skip /\ wired \subseteq Crds \ Skip /\ started \subseteq wired
  /\ wirings \in [Crds -> Nat]
  /\ indexer \in [Crds -> {"empty", "current", "stale"}]
  /\ running \in BOOLEAN /\ pending \in BOOLEAN
  /\ loop \in [Workers -> {"none", "discover", "register", "start", "check"}]
  /\ found \in [Workers -> SUBSET Crds]
  /\ owed \subseteq Crds /\ removed \subseteq Crds /\ built \subseteq Crds
  /\ signal \in BOOLEAN

\* An informer is configured once, however often its CRD is deleted and
\* installed again: a started informer is never wired a second time.
WiredOnce == \A c \in Crds : wirings[c] <= 1 /\ (c \in resources => wirings[c] = 1)

\* reconcileRunning and reconcilePending keep reconciles serial.
OneLoop ==
  /\ \A v, w \in Workers : loop[v] # "none" /\ loop[w] # "none" => v = w
  /\ running <=> \E w \in Workers : loop[w] # "none"
  /\ pending => running

\* No install goes unnoticed in a burst: after an Add there is always another
\* discovery to come.
NoLostTrigger == owed # {} => pending \/ \E w \in Workers : loop[w] = "discover"

\* A removed kind never lingers on a live screen unannounced: whenever the
\* last build shows a kind that is no longer registered, a rebuild is coming.
RemovalAnnounced == built \subseteq resources \/ signal \/ handler = "notify"

\* "An install triggers a fresh discovery that registers the new GVR": a CRD
\* that stays installed comes to be registered for good, its objects cached.
InstallRegisters ==
  \A c \in Crds \ Skip :
    <>[](crd[c] = "served") => <>[](c \in resources /\ indexer[c] = "current")

\* "A viewer connecting mid-sync thus watches the graph fill in": the objects
\* of a CRD that stays installed come to be in what a live subscriber built last.
InstallShows ==
  \A c \in Crds \ Skip : <>[](crd[c] = "served") => <>[](c \in built)

\* Both hold where the CRD's API is served by the time of its Add, however the
\* reinstalls fall: a wake-up that came too early is made good by the resync.
PromptInstallShows == mode = "prompt" => InstallRegisters /\ InstallShows

\* "Deleting the entry is enough to make the ghosts vanish": a CRD whose
\* removal was handled leaves the snapshots for good.
RemovalHides == \A c \in Crds : <>[](c \in removed) => <>[](c \notin Holds)
=============================================================================
