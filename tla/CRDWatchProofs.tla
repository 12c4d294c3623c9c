--------------------------- MODULE CRDWatchProofs ---------------------------
(***************************************************************************)
(* What holds of the CRD watcher for every set of CRDs, every number of    *)
(* installs and every apiserver mode: types, one wiring per informer,      *)
(* serial reconciles, no lost trigger, no unannounced removal.             *)
(***************************************************************************)
EXTENDS CRDWatch, SequenceTheorems, FiniteSetTheorems, TLAPS

USE CRDAssumption

CRDEvent == [type : {"add", "delete"}, crd : Crds]

\* What the watch announces is an event.
LEMMA AnnounceType ==
  ASSUME NEW kind \in {"add", "delete"}, NEW c \in Crds, queue \in Seq(CRDEvent),
         Announce(kind, c)
  PROVE  queue' \in Seq(CRDEvent)
<1>1. [type |-> kind, crd |-> c] \in CRDEvent
  BY DEF CRDEvent
<1> QED BY <1>1 DEF Announce

\* What a new handler is replayed are events, finitely many.
LEMMA ReplayType ==
  ASSUME NEW some \in SUBSET Crds, NEW r \in Replay(some)
  PROVE  r \in Seq(CRDEvent)
<1>1. Cardinality(some) \in Nat
  BY FS_Subset, FS_CardinalityType
<1>2. r \in [1 .. Cardinality(some) -> CRDEvent]
  BY DEF Replay, CRDEvent
<1> QED BY <1>1, <1>2
\* The queue's head is an event, and its tail a queue.
LEMMA QueueHeadTail ==
  ASSUME queue \in Seq(CRDEvent), queue # <<>>
  PROVE  Head(queue) \in CRDEvent /\ Tail(queue) \in Seq(CRDEvent)
  BY HeadTailProperties

\* Registering keeps skipped kinds out and informers wired.
LEMMA RegisterType ==
  ASSUME TypeOK, NEW some \in SUBSET Crds, Register(some)
  PROVE  /\ resources' \in SUBSET (Crds \ Skip)
         /\ wired' \in SUBSET (Crds \ Skip) /\ wired \subseteq wired'
         /\ wirings' \in [Crds -> Nat]
<1>1. resources' \in SUBSET (Crds \ Skip) /\ wired' \in SUBSET (Crds \ Skip) /\ wired \subseteq wired'
  BY DEF TypeOK, Register, New
<1>2. wirings' \in [Crds -> Nat]
  BY DEF TypeOK, Register
<1> QED BY <1>1, <1>2

-----------------------------------------------------------------------------
\* The initial state is well-typed.
LEMMA CRDTypeInit == Init => TypeOK
<1> SUFFICES ASSUME Init PROVE TypeOK
  OBVIOUS
<1>1. queue \in Seq([type : {"add", "delete"}, crd : Crds])
  BY DEF Init
<1>2. wirings \in [Crds -> Nat] /\ crd \in [Crds -> {"absent", "new", "served"}]
  BY DEF Init
<1>3. changed \in 0 .. MaxChanges
  BY DEF Init
<1> QED BY <1>1, <1>2, <1>3 DEF Init, TypeOK

\* Every step keeps every variable in its type.
LEMMA CRDTypeStep == TypeOK /\ [Next]_vars => TypeOK'
<1> SUFFICES ASSUME TypeOK, [Next]_vars PROVE TypeOK'
  OBVIOUS
<1> USE DEF TypeOK, CRDEvent
<1>1. ASSUME NEW c \in Crds, Install(c) PROVE TypeOK'
  <2>1. queue' \in Seq(CRDEvent)
    BY <1>1, AnnounceType DEF Install
  <2> QED BY <1>1, <2>1 DEF Install, informer, store, recon, sub
<1>2. ASSUME NEW c \in Crds, Establish(c) PROVE TypeOK'
  BY <1>2 DEF Establish, informer, store, recon, sub
<1>3. ASSUME NEW c \in Crds, Uninstall(c) PROVE TypeOK'
  <2>1. queue' \in Seq(CRDEvent)
    BY <1>3, AnnounceType DEF Uninstall
  <2>2. indexer' \in [Crds -> {"empty", "current", "stale"}] /\ signal' \in BOOLEAN
    BY <1>3 DEF Uninstall
  <2>3. changed' \in 0 .. MaxChanges /\ crd' \in [Crds -> {"absent", "new", "served"}]
    BY <1>3 DEF Uninstall
  <2> QED BY <1>3, <2>1, <2>2, <2>3 DEF Uninstall, informer, store, recon, sub
<1>4. ASSUME NEW c \in Crds, Relist(c) PROVE TypeOK'
  BY <1>4 DEF Relist, world, informer, store, recon, sub
<1>5. ASSUME StartDiscover PROVE TypeOK'
  BY <1>5 DEF StartDiscover, Served, world, informer, store, recon, sub
<1>6. ASSUME StartRegister PROVE TypeOK'
  <2>1. PICK w \in Workers : Register(found[w])
    BY <1>6 DEF StartRegister
  <2>2. found[w] \in SUBSET Crds
    OBVIOUS
  <2> QED BY <1>6, <2>1, <2>2, RegisterType DEF StartRegister, world, informer, recon, sub
<1>7. ASSUME MetaList PROVE TypeOK'
  <2>1. meta' \in SUBSET Crds
    BY <1>7 DEF MetaList
  <2>2. queue' \in Seq(CRDEvent)
    BY <1>7, <2>1, ReplayType DEF MetaList
  <2> QED BY <1>7, <2>1, <2>2 DEF MetaList, world, informer, store, recon, sub
<1>8. ASSUME MetaEvent PROVE TypeOK'
  <2>1. Head(queue) \in CRDEvent /\ queue' \in Seq(CRDEvent)
    BY <1>8, QueueHeadTail DEF MetaEvent
  <2>2. Head(queue).crd \in Crds
    BY <2>1
  <2>3. meta' = meta \cup {Head(queue).crd} \/ meta' = meta \ {Head(queue).crd}
    BY <1>8 DEF MetaEvent
  <2>4. meta' \subseteq Crds
    BY <2>2, <2>3
  <2> QED BY <1>8, <2>1, <2>4 DEF MetaEvent, world, informer, store, recon, sub
<1>9. ASSUME Attach PROVE TypeOK'
  <2>1. PICK replay \in Replay(meta) : queue' = replay \o queue
    BY <1>9 DEF Attach
  <2>2. queue' \in Seq(CRDEvent)
    BY <2>1, ReplayType, ConcatProperties
  <2> QED BY <1>9, <2>2 DEF Attach, world, informer, store, recon, sub
<1>10. ASSUME HandleAdd PROVE TypeOK'
  <2>1. Head(queue) \in CRDEvent /\ queue' \in Seq(CRDEvent)
    BY <1>10, QueueHeadTail DEF HandleAdd
  <2>2. owed' \subseteq Crds
    BY <1>10, <2>1 DEF HandleAdd
  <2>3. running' \in BOOLEAN /\ pending' \in BOOLEAN
    BY <1>10 DEF HandleAdd, Busy
  <2>4. loop' \in [Workers -> {"none", "discover", "register", "start", "check"}]
    BY <1>10 DEF HandleAdd
  <2> QED BY <1>10, <2>1, <2>2, <2>3, <2>4 DEF HandleAdd, world, informer, store, sub
<1>11. ASSUME HandleDelete PROVE TypeOK'
  <2>1. Head(queue) \in CRDEvent /\ queue' \in Seq(CRDEvent)
    BY <1>11, QueueHeadTail DEF HandleDelete
  <2> QED BY <1>11, <2>1 DEF HandleDelete, AfterRemoval, world, informer, recon, sub
<1>12. ASSUME NotifyRemoval PROVE TypeOK'
  BY <1>12 DEF NotifyRemoval, world, informer, store, recon
<1>13. ASSUME NEW w \in Workers, Discover(w) PROVE TypeOK'
  <2>1. found' \in [Workers -> SUBSET Crds]
    BY <1>13 DEF Discover, Served
  <2>2. loop' \in [Workers -> {"none", "discover", "register", "start", "check"}]
    BY <1>13 DEF Discover
  <2> QED BY <1>13, <2>1, <2>2 DEF Discover, world, informer, store, sub
<1>14. ASSUME NEW w \in Workers, ReconcileRegister(w) PROVE TypeOK'
  <2>1. found[w] \in SUBSET Crds
    OBVIOUS
  <2>2. Register(found[w])
    BY <1>14 DEF ReconcileRegister
  <2> QED BY <1>14, <2>1, <2>2, RegisterType DEF ReconcileRegister, world, informer, sub
<1>15. ASSUME NEW w \in Workers, StartInformers(w) PROVE TypeOK'
  BY <1>15 DEF StartInformers, world, informer, sub
<1>16. ASSUME NEW w \in Workers, Check(w) PROVE TypeOK'
  BY <1>16 DEF Check, world, informer, store, sub
<1>17. ASSUME Rebuild PROVE TypeOK'
  BY <1>17 DEF Rebuild, Holds, world, informer, store, recon
<1>18. CASE UNCHANGED vars
  BY <1>18 DEF vars, world, informer, store, recon, sub
<1>19. ASSUME NEW c \in Crds, Resync(c) PROVE TypeOK'
  BY <1>19 DEF Resync, world, informer, store, recon
<1> QED BY <1>1, <1>2, <1>3, <1>4, <1>5, <1>6, <1>7, <1>8, <1>9, <1>10, <1>11, <1>12, <1>13,
           <1>14, <1>15, <1>16, <1>17, <1>18, <1>19 DEF Next, Watcher, Reconcile

\* Every variable of the CRD watcher keeps its type, a skipped kind is never
\* registered and only configured informers run.
THEOREM CRDTypeCorrect == Spec => []TypeOK
  BY CRDTypeInit, CRDTypeStep, PTL DEF Spec

-----------------------------------------------------------------------------
\* Cache.wired says exactly which informers were configured, and how often.
WiredInv ==
  /\ resources \subseteq wired
  /\ \A c \in Crds : wirings[c] = IF c \in wired THEN 1 ELSE 0

\* Registering configures what was not wired, and only that.
LEMMA RegisterWires ==
  ASSUME TypeOK, WiredInv, NEW some \in SUBSET Crds, Register(some)
  PROVE  WiredInv'
  BY DEF TypeOK, WiredInv, Register, New, Again

\* No step configures an informer behind `wired`'s back.
LEMMA WiredStep == TypeOK /\ WiredInv /\ [Next]_vars => WiredInv'
<1> SUFFICES ASSUME TypeOK, WiredInv, [Next]_vars PROVE WiredInv'
  OBVIOUS
<1>1. ASSUME NEW w \in Workers, Register(found[w]) PROVE WiredInv'
  BY <1>1, RegisterWires DEF TypeOK
<1>2. CASE StartRegister
  BY <1>1, <1>2 DEF StartRegister
<1>3. ASSUME NEW w \in Workers, ReconcileRegister(w) PROVE WiredInv'
  BY <1>1, <1>3 DEF ReconcileRegister
<1>4. CASE HandleDelete
  BY <1>4 DEF HandleDelete, WiredInv
<1>5. CASE UNCHANGED <<resources, wired, wirings>>
  BY <1>5 DEF WiredInv
<1> QED BY <1>2, <1>3, <1>4, <1>5 DEF Next, Watcher, Reconcile, Install, Establish, Uninstall, Relist,
           Resync, StartDiscover, MetaList, MetaEvent, Attach, HandleAdd, NotifyRemoval, Discover,
           StartInformers, Check, Rebuild, vars, store

\* However often a CRD is deleted and installed again, its informer is
\* configured once: registerLocked never wires a started informer again.
THEOREM WiredAtMostOnce == Spec => []WiredOnce
<1>1. Init => WiredInv
  BY DEF Init, WiredInv
<1>2. TypeOK /\ WiredInv => WiredOnce
  BY DEF TypeOK, WiredInv, WiredOnce
<1> QED BY <1>1, <1>2, WiredStep, CRDTypeCorrect, PTL DEF Spec

-----------------------------------------------------------------------------
\* No step starts a second loop or leaves the flags out of step with it.
LEMMA OneLoopStep == TypeOK /\ OneLoop /\ [Next]_vars => OneLoop'
<1> SUFFICES ASSUME TypeOK, OneLoop, [Next]_vars PROVE OneLoop'
  OBVIOUS
<1> USE DEF TypeOK, OneLoop
<1>1. CASE HandleAdd
  BY <1>1 DEF HandleAdd, Busy
<1>2. ASSUME NEW w \in Workers, Discover(w) PROVE OneLoop'
  <2>1. loop[w] = "discover" /\ UNCHANGED <<running, pending>>
    BY <1>2 DEF Discover
  <2>2. loop' = [loop EXCEPT ![w] = "register"] \/ loop' = [loop EXCEPT ![w] = "check"]
    BY <1>2 DEF Discover
  <2>3. \A v \in Workers : loop'[v] # "none" <=> loop[v] # "none"
    BY <2>1, <2>2
  <2> QED BY <2>1, <2>3
<1>3. ASSUME NEW w \in Workers, ReconcileRegister(w) PROVE OneLoop'
  BY <1>3 DEF ReconcileRegister
<1>4. ASSUME NEW w \in Workers, StartInformers(w) PROVE OneLoop'
  BY <1>4 DEF StartInformers
<1>5. ASSUME NEW w \in Workers, Check(w) PROVE OneLoop'
  BY <1>5 DEF Check
<1>6. CASE UNCHANGED <<running, pending, loop>>
  BY <1>6
<1> QED BY <1>1, <1>2, <1>3, <1>4, <1>5, <1>6 DEF Next, Watcher, Reconcile, Install, Establish,
           Uninstall, Relist, Resync, StartDiscover, StartRegister, MetaList, MetaEvent, Attach, HandleDelete,
           NotifyRemoval, Rebuild, vars, recon

\* At most one reconcile loop runs, reconcileRunning says whether it does,
\* and reconcilePending is only ever set while it does.
THEOREM ReconcilesAreSerial == Spec => []OneLoop
<1>1. Init => OneLoop
  BY DEF Init, OneLoop
<1> QED BY <1>1, OneLoopStep, CRDTypeCorrect, PTL DEF Spec

\* No step leaves an Add behind without a discovery to come.
LEMMA NoLostTriggerStep == TypeOK /\ OneLoop /\ NoLostTrigger /\ [Next]_vars => NoLostTrigger'
<1> SUFFICES ASSUME TypeOK, OneLoop, NoLostTrigger, [Next]_vars PROVE NoLostTrigger'
  OBVIOUS
<1> USE DEF TypeOK, OneLoop, NoLostTrigger
<1>1. CASE HandleAdd
  BY <1>1 DEF HandleAdd, Busy
<1>2. ASSUME NEW w \in Workers, Discover(w) PROVE NoLostTrigger'
  BY <1>2 DEF Discover
<1>3. ASSUME NEW w \in Workers, ReconcileRegister(w) PROVE NoLostTrigger'
  BY <1>3 DEF ReconcileRegister
<1>4. ASSUME NEW w \in Workers, StartInformers(w) PROVE NoLostTrigger'
  BY <1>4 DEF StartInformers
<1>5. ASSUME NEW w \in Workers, Check(w) PROVE NoLostTrigger'
  BY <1>5 DEF Check
<1>6. CASE UNCHANGED <<owed, pending, loop>>
  BY <1>6
<1> QED BY <1>1, <1>2, <1>3, <1>4, <1>5, <1>6 DEF Next, Watcher, Reconcile, Install, Establish,
           Uninstall, Relist, Resync, StartDiscover, StartRegister, MetaList, MetaEvent, Attach, HandleDelete,
           NotifyRemoval, Rebuild, vars, recon

\* In a burst of installs every Add is followed by a discovery that began
\* after it: coalescing never swallows the last one.
THEOREM NoTriggerLost == Spec => []NoLostTrigger
<1>1. Init => NoLostTrigger
  BY DEF Init, NoLostTrigger
<1> QED BY <1>1, NoLostTriggerStep, ReconcilesAreSerial, CRDTypeCorrect, PTL DEF Spec

-----------------------------------------------------------------------------
\* No step takes a kind off the registry without a rebuild to come.
LEMMA RemovalStep == TypeOK /\ RemovalAnnounced /\ [Next]_vars => RemovalAnnounced'
<1> SUFFICES ASSUME TypeOK, RemovalAnnounced, [Next]_vars PROVE RemovalAnnounced'
  OBVIOUS
<1> USE DEF TypeOK, RemovalAnnounced
<1>1. ASSUME NEW c \in Crds, Uninstall(c) PROVE RemovalAnnounced'
  BY <1>1 DEF Uninstall, store
<1>2. ASSUME NEW c \in Crds, Relist(c) PROVE RemovalAnnounced'
  BY <1>2 DEF Relist, store
<1>3. CASE StartRegister
  BY <1>3 DEF StartRegister, Register, sub
<1>4. CASE HandleDelete
  BY <1>4 DEF HandleDelete, AfterRemoval, sub
<1>5. CASE NotifyRemoval
  BY <1>5 DEF NotifyRemoval
<1>6. ASSUME NEW w \in Workers, ReconcileRegister(w) PROVE RemovalAnnounced'
  BY <1>6 DEF ReconcileRegister, Register, sub
<1>7. CASE Rebuild
  BY <1>7 DEF Rebuild, Holds, store
<1>8. CASE UNCHANGED <<resources, built, signal, handler>>
  BY <1>8
<1>9. ASSUME NEW c \in Crds, Resync(c) PROVE RemovalAnnounced'
  BY <1>9 DEF Resync
<1> QED BY <1>1, <1>2, <1>3, <1>4, <1>5, <1>6, <1>7, <1>8, <1>9 DEF Next, Watcher, Reconcile, Install,
           Establish, StartDiscover, MetaList, MetaEvent, Attach, HandleAdd, Discover,
           StartInformers, Check, vars, store, sub

\* A kind a live subscriber last built with never leaves the registry without
\* the subscriber being woken, or about to be, by removeResourcesForCRD.
THEOREM RemovalsAreAnnounced == Spec => []RemovalAnnounced
<1>1. Init => RemovalAnnounced
  BY DEF Init, RemovalAnnounced
<1> QED BY <1>1, RemovalStep, CRDTypeCorrect, PTL DEF Spec
=============================================================================
