---------------------------- MODULE MCGraphFeed ----------------------------
(* Instances of GraphFeed for TLC. *)
EXTENDS GraphFeed, TLC

CONSTANTS s1, s2, pod, svc, k1, k2, nsA, nsB

\* Two informers feeding one namespace: builds may be torn between them.
TwoKinds == (pod :> k1) @@ (svc :> k2)
OneNs    == (pod :> nsA) @@ (svc :> nsA)

\* One object for liveness.
OneKind  == pod :> k1
PodNs    == pod :> nsA

StreamSymmetry == Permutations(Streams)

Unused(s) == pc[s] = "off" /\ link[s] = "down"

\* The interesting cases, not all at once: both faults strike while there is
\* one object that is created and deleted; a second object (of the second
\* kind) leaves room for one fault, while the first lives and one connection
\* has not been used; an update of the pod, for none.
Budget ==
  /\ cluster[svc] # 0 => faults = 0 \/ (faults = 1 /\ cluster[pod] = 1 /\ \E s \in Streams : Unused(s))
  /\ cluster[svc] # 2
  /\ cluster[pod] = 2 => faults = 0
  /\ cached[pod] = 2 => cluster[pod] = 2
=============================================================================
