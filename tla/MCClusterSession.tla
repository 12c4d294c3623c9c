--------------------------- MODULE MCClusterSession ---------------------------
(* Small tabs for TLC: one start per kind of trouble, with its own budgets. *)
EXTENDS ClusterSession

CONSTANTS c1, c2

MCRefOf == [x1 |-> "x", x2 |-> "x", y |-> "y"]
MCObjects == DOMAIN MCRefOf

Url(c, n, s) == [ctx |-> c, ns |-> n, sel |-> s]
Plain == Url(None, None, None)
World(a, b, c) == [n \in Namespaces |-> IF n = 0 THEN a ELSE IF n = 1 THEN b ELSE c]
NoObjects == [c \in {c1, c2} |-> [n \in Namespaces |-> {}]]
Start(w1, w2, u, changes, clicks, faults) ==
  [world |-> [c \in {c1, c2} |-> IF c = c1 THEN w1 ELSE w2], objects |-> NoObjects,
   broken |-> {}, signedIn |-> TRUE, forbidden |-> FALSE, moody |-> {<<c1, 1>>}, busy |-> {},
   url |-> u, limits |-> [changes |-> changes, clicks |-> clicks, faults |-> faults]]

Both == World(Absent, 0, 4)
Other == World(Absent, Absent, 0)

\* One cluster whose healths move while the operator walks about.
Triage == [Start(World(0, 4, 3), Other, Plain, 2, 1, 0) EXCEPT !.moody = {<<c1, 1>>, <<c1, 2>>}]
\* Two clusters, a namespace of the same name in both.
Switching == [Start(Both, Other, Url(c1, 1, None), 1, 2, 0) EXCEPT !.moody = {<<c1, 2>>}]
\* A context that cannot be reached, by default and by URL.
Dead(u) == [Start(Both, Other, u, 0, 2, 0) EXCEPT !.broken = {c1}]
AllDead == [Dead(Plain) EXCEPT !.broken = {c1, c2}]
\* kd goes away and comes back, connections break and stall.
Faulty == Start(Both, Other, Plain, 0, 1, 2)
\* A link to a context nobody has, and to a namespace that is not there.
Lost == [Start(Other, Both, Url(Bogus, 1, None), 0, 1, 1) EXCEPT !.forbidden = TRUE]
\* Nothing to see, and nobody to see it.
Empty == Start(World(Absent, Absent, Absent), Other, Plain, 1, 1, 1)
Stranger == [Start(Both, Other, Plain, 0, 2, 1) EXCEPT !.signedIn = FALSE]
\* Selections, links to them, and resources that go and come back.
Selecting(sel) == [Start(Both, Other, Url(c1, 1, sel), 1, 2, 0)
  EXCEPT !.objects = [NoObjects EXCEPT ![c1] = [n \in Namespaces |-> IF n = 0 THEN {} ELSE {"x1"}]],
         !.moody = {}, !.busy = {<<c1, 1>>}]

MCStarts ==
  {Triage, Switching, Dead(Plain), Dead(Url(c1, 1, None)), AllDead, Faulty, Lost, Empty, Stranger,
   Selecting([ref |-> "x", ns |-> None]), Selecting([ref |-> "x", ns |-> 2])}

\* Two changes of the health of a namespace the operator opens and leaves.
MCWanders == {[Start(Both, Other, Url(c1, 1, None), 2, 1, 0) EXCEPT !.moody = {<<c1, 1>>}]}
=============================================================================
