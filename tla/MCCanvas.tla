------------------------------ MODULE MCCanvas ------------------------------
(* Small worlds for TLC: one start per kind of work, with its own budgets. *)
EXTENDS Canvas

MCKinds == <<"Deployment", "ReplicaSet", "Pod", "Service", "ConfigMap", "Secret", "Node">>
MCSeed(i) == 60 * ((7 * i[2]) % 5)

Card(n, k) == <<"card", n, k>>
Cs(ns, k) == {Card(n, k) : n \in ns}
E(a, b, t) == [from |-> a, to |-> b, type |-> t]
Owns(p, S) == [j \in 1..Cardinality(S) |-> E(p, Listed(S, ByName)[j], "ownerReference")]
Graph(N, edges, sick) == [nodes |-> N, edges |-> edges, sick |-> sick]

D1 == Card(1, "Deployment")
RS(n) == Card(n, "ReplicaSet")
Pod(n) == Card(n, "Pod")

\* Five replica sets fold, the last is a hub of five pods, one pod is below
\* a folded replica set; a service, a config map, and two orphans.
TreeNodes == {D1} \cup Cs(2..6, "ReplicaSet") \cup Cs(7..12, "Pod")
               \cup {Card(13, "Service"), Card(14, "ConfigMap"), Card(15, "Secret"), Pod(16)}
TreeEdges == Owns(D1, Cs(2..6, "ReplicaSet")) \o Owns(RS(6), Cs(7..11, "Pod"))
               \o <<E(RS(3), Pod(12), "ownerReference"), E(Card(13, "Service"), Pod(7), "selects"),
                    E(Pod(7), Card(14, "ConfigMap"), "mounts")>>
Tree == Graph(TreeNodes, TreeEdges, {Pod(8), Pod(12), Pod(16)})
\* The hub has lost two pods, and nothing is wrong any more.
Calm == Graph(TreeNodes \ {Pod(8), Pod(9)}, Owns(D1, Cs(2..6, "ReplicaSet")) \o Owns(RS(6), Cs({7, 10, 11}, "Pod")), {})
\* Most of the hub is in trouble.
Storm == [Tree EXCEPT !.sick = Cs(8..12, "Pod")]
\* Another namespace, all drawn at once; then it loses its pod.
Pair == Graph({Card(21, "Deployment"), RS(22), Pod(23)},
              <<E(Card(21, "Deployment"), RS(22), "ownerReference"), E(RS(22), Pod(23), "ownerReference")>>, {Pod(23)})

Lone == Graph({Card(21, "Deployment"), RS(22)}, <<E(Card(21, "Deployment"), RS(22), "ownerReference")>>, {})

Num(f, S, d) == [i \in S |-> IF i[2] \in DOMAIN f THEN f[i[2]] ELSE d]
Feed(all, own) ==
  LET hosts == Cs({31, 32}, "Node")
      pods == Cs((7..11) \cup {41, 42, 43}, "Pod")
  IN  [nodes |-> hosts \cup pods,
       facts |-> [all |-> all, own |-> own, sick |-> {}, metrics |-> TRUE,
                  host |-> Num([n \in 7..43 |-> CASE n \in {7, 8, 9, 41} -> 31 [] n \in {10, 11} -> 32 [] n = 42 -> 99 [] OTHER -> 0], pods, 0),
                  use |-> Num([n \in 7..43 |-> IF n \in {9, 11} THEN 1 ELSE 40], pods, 0),
                  req |-> Num([n \in 7..43 |-> IF n = 7 THEN NotSet ELSE IF n \in {9, 11} THEN 1 ELSE 100], pods, 0),
                  lim |-> Num([n \in 7..43 |-> IF n = 8 THEN 200 ELSE NotSet], pods, 0),
                  alloc |-> Num(31 :> 200 @@ 32 :> 400, hosts, 0),
                  total |-> Num(31 :> 300, hosts, NotSet)]]

A == <<"c1", "a">>
B == <<"c1", "b">>
C == <<"c2", "a">>

With(clicks, lenses, moves, changes) ==
  [clicks |-> clicks, lenses |-> lenses, moves |-> moves, changes |-> changes]

Start(groupBy, clicks, lenses, moves, changes) ==
  [scope |-> A, groupBy |-> groupBy, rels |-> {"ownership", "network"}, size |-> <<1200, 700>>, inset |-> 80,
   phone |-> FALSE, link |-> None,
   now |-> (A :> Tree @@ B :> Pair @@ C :> Pair),
   versions |-> (A :> {Tree, Calm} @@ B :> {Pair} @@ C :> {Pair}),
   feeds |-> (A :> {} @@ B :> {} @@ C :> {}),
   queries |-> {NoQuery, [on |-> TRUE, hits |-> {Pod(8), Pod(12)}]},
   pans |-> {<<-700, 300>>}, sizes |-> {},
   left |-> With(clicks, lenses, moves, changes)]


Clicking == Start("relationship", 2, 0, 0, 0)
Filtering == Start("relationship", 1, 1, 0, 0)
Lensing == Start("relationship", 0, 2, 0, 0)
Moving == [Start("relationship", 1, 0, 1, 0) EXCEPT !.sizes = {<<700, 500>>}]
Changing == Start("relationship", 1, 0, 0, 2)
Storming == [Lensing EXCEPT !.now[A] = Storm, !.versions[A] = {Storm}]
Switching == [Start("relationship", 1, 1, 0, 1) EXCEPT !.now[A] = Pair, !.versions[A] = {Pair, Lone}]
OnPhone == [Moving EXCEPT !.phone = TRUE, !.size = <<420, 800>>, !.sizes = {<<800, 420>>}]
Linked == [Start("relationship", 1, 0, 0, 1) EXCEPT !.link = Pod(8)]
ByKind == Start("kind", 1, 1, 0, 0)
ByNode == [Start("nodes", 2, 0, 0, 0) EXCEPT !.feeds[A] = {Feed(FALSE, Cs(7..11, "Pod"))}]
ByNodeMoving == [ByNode EXCEPT !.left = With(1, 0, 1, 0)]
ByNodeLensing == [ByNode EXCEPT !.left = With(1, 1, 0, 0)]
ByNodeChanging == [ByNode EXCEPT !.left = With(1, 0, 0, 1), !.feeds[A] = @ \cup {Feed(TRUE, {})}]

MCStarts == {Clicking, Filtering, Lensing, Moving, Changing, Storming, Switching, OnPhone, Linked,
             ByKind, ByNode, ByNodeMoving, ByNodeLensing, ByNodeChanging}
=============================================================================
