------------------------------ MODULE LiveView ------------------------------
(***************************************************************************)
(* What kd promises about the graph on screen, with no informer, channel,  *)
(* debounce, patch or connection in sight: every object the viewer sees is *)
(* some state the cluster really was in, an object never moves backwards   *)
(* while one kd process runs, and nothing of another namespace shows.      *)
(***************************************************************************)
EXTENDS Integers

CONSTANTS Objects, Namespaces, NsOf, MaxVer

Gone == MaxVer + 1          \* a deleted object; its UID never comes back
Age  == 0 .. Gone           \* 0: not created yet, then its versions, then Gone

VARIABLES
  cluster,    \* age of each object in the cluster
  namespace,  \* the namespace the viewer has open
  shown,      \* age of each object on screen
  seen        \* the oldest age the screen may still go to

absVars == <<cluster, namespace, shown, seen>>

Nothing == [o \in Objects |-> 0]

AbsInit ==
  /\ cluster \in [Objects -> 0 .. MaxVer]
  /\ namespace \in Namespaces
  /\ shown = Nothing
  /\ seen = Nothing

\* The cluster moves on.
AbsCluster ==
  /\ \E o \in Objects :
       /\ cluster[o] < Gone
       /\ \E age \in cluster[o] + 1 .. Gone : cluster' = [cluster EXCEPT ![o] = age]
  /\ UNCHANGED <<namespace, shown, seen>>

\* The screen moves to a state of the open namespace that is neither older
\* than what was seen before nor newer than the cluster.
AbsShow ==
  /\ shown' \in [Objects -> Age]
  /\ \A o \in Objects :
       IF NsOf[o] = namespace
       THEN /\ seen[o] <= shown'[o] /\ shown'[o] <= cluster[o]
            /\ seen'[o] = shown'[o]
       ELSE shown'[o] = 0 /\ seen'[o] = seen[o]
  /\ seen' \in [Objects -> Age]
  /\ UNCHANGED <<cluster, namespace>>

\* The viewer opens a namespace (or reconnects by hand): a blank screen.
AbsOpen ==
  /\ namespace' \in Namespaces
  /\ shown' = Nothing
  /\ UNCHANGED <<cluster, seen>>

\* kd restarts with an empty cache: the old promises end, the screen stays.
AbsRestart ==
  /\ seen' = Nothing
  /\ UNCHANGED <<cluster, namespace, shown>>

AbsNext == AbsCluster \/ AbsShow \/ AbsOpen \/ AbsRestart

AbsSpec == AbsInit /\ [][AbsNext]_absVars
=============================================================================
