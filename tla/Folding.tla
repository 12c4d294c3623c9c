------------------------------ MODULE Folding ------------------------------
(***************************************************************************)
(* How crowded groups of resources fold behind a "+N more" pill: the       *)
(* head-and-tail split, the pre-layout rewrite of sibling subtrees, and    *)
(* the grids of leaves around a hub (layout/collapse.ts, layout/hubs.ts).  *)
(*                                                                         *)
(* A drawn item is a triple. <<"card", n, kind>> is a resource; n stands   *)
(* for its name in natural order and for its UID, which only break ties.   *)
(* A pill is its collapse key: <<"sib", parent's n, kind>>,                *)
(* <<"kind", 0, kind>> or <<"orphan", 0, kind>>. An edge is a record       *)
(* [from, to, type]; edges are sequences, their order decides who folds.   *)
(***************************************************************************)
EXTENDS Integers, Sequences, FiniteSets, SequencesExt, FiniteSetsExt

CONSTANTS Kinds        \* the kinds of resources, a sequence in display order

IsPill(i) == i[1] # "card"

NoGroup == <<>>        \* a card outside every grouping frame

(* A set listed in a total order; a same-kind list is in natural name order. *)
Listed(S, Before(_, _)) ==
  [j \in 1..Cardinality(S) |-> CHOOSE x \in S : Cardinality({y \in S : Before(y, x)}) = j - 1]
ByName(a, b) == a[2] < b[2]

KindsOf(S) == SelectSeq(Kinds, LAMBDA k : \E i \in S : i[3] = k)
OfKind(S, k) == {i \in S : i[3] = k}

Sum(s) == FoldLeft(+, 0, s)
Widest(s) == FoldLeft(LAMBDA a, b : IF a > b THEN a ELSE b, 0, s)
CeilDiv(a, b) == (a + b - 1) \div b

-----------------------------------------------------------------------------
Head1 == 1
Tail2 == 2
FoldVisible == Head1 + Tail2
MinHidden == 2

(* What a group shows and hides, and how many cards precede its pill. The  *)
(* cards that a health filter wants become the face of the group, unless   *)
(* all or none of them are wanted. group may list a resource twice, when   *)
(* two edges join it to its parent.                                        *)
Triage(group, wanted) ==
  LET lit == ToSet(group) \cap wanted
  IN  lit # {} /\ Cardinality(lit) < Len(group)

\* A slip: the name order stays.
WantedIgnored(sorted, wanted) == sorted

WantedFirst(sorted, wanted) ==
  SelectSeq(sorted, LAMBDA c : c \in wanted) \o SelectSeq(sorted, LAMBDA c : c \notin wanted)

CutFold(ordered, open, head, tail) ==
  LET n == Len(ordered)
  IN  [visible |-> IF open THEN ordered
                   ELSE SubSeq(ordered, 1, head) \o SubSeq(ordered, n - tail + 1, n),
       hidden |-> SubSeq(ordered, head + 1, n - tail),
       slot |-> IF open THEN n ELSE head]

CrowdedFold(group) == Len(group) >= FoldVisible + MinHidden

SplitSorted(sorted, open, wanted) ==
  IF ~CrowdedFold(sorted) THEN [visible |-> sorted, hidden |-> <<>>, slot |-> Len(sorted)]
  ELSE IF Triage(sorted, wanted) THEN CutFold(WantedFirst(sorted, wanted), open, FoldVisible, 0)
  ELSE CutFold(sorted, open, Head1, Tail2)
SplitForFold(group, open, wanted) == SplitSorted(SortSeq(group, ByName), open, wanted)

(* The meta of a pill: what it hides, what it drags along, whether it is   *)
(* open. A cell is an item on its way to the canvas; fold is the set of    *)
(* its metas, empty for a card.                                            *)
Meta(key, hidden, open, below) == [key |-> key, hidden |-> hidden, open |-> open, below |-> below]
CardCell(i, group) == [id |-> i, group |-> group, fold |-> {}]
PillCell(meta, group) == [id |-> meta.key, group |-> group, fold |-> {meta}]

(* The cells of a group: its visible cards with the pill in its slot. *)
CellsOf(split, key, open, frame) ==
  LET cards == [j \in DOMAIN split.visible |-> CardCell(split.visible[j], frame)]
  IN  IF split.hidden = <<>> THEN cards
      ELSE InsertAt(cards, split.slot + 1, PillCell(Meta(key, split.hidden, open, {}), frame))
FoldedCells(key, group, expanded, wanted, frame) ==
  CellsOf(SplitForFold(group, key \in expanded, wanted), key, key \in expanded, frame)

-----------------------------------------------------------------------------
Present(edges, items) == SelectSeq(edges, LAMBDA e : e.from \in items /\ e.to \in items)
Distinct(s) == FoldLeft(LAMBDA seen, x : IF Contains(seen, x) THEN seen ELSE Append(seen, x), <<>>, s)
Children(edges, p) == SelectSeq(edges, LAMBDA e : e.from = p)
Successors(edges, S) == {edges[j].to : j \in {i \in DOMAIN edges : edges[i].from \in S}}

(* Everything reachable downward from roots, the roots left out. *)
DescendantsOf(edges, roots) ==
  FoldLeft(LAMBDA seen, e : seen \cup Successors(edges, seen), roots, edges) \ roots

(* The sibling groups in the order the code meets them: parents in the     *)
(* order of their first edge, the kinds of each parent in the same way.    *)
SiblingGroup(p, kind, links) ==
  [key |-> <<"sib", p[2], kind>>, parent |-> p, links |-> SelectSeq(links, LAMBDA e : e.to[3] = kind)]
GroupsOf(links) ==
  LET kinds == Distinct([i \in DOMAIN links |-> links[i].to[3]])
  IN  [i \in DOMAIN kinds |-> SiblingGroup(links[1].from, kinds[i], links)]
GroupsOfEach(edges, parents) == FlattenSeq([j \in DOMAIN parents |-> GroupsOf(Children(edges, parents[j]))])
SiblingGroups(edges) == GroupsOfEach(edges, Distinct([i \in DOMAIN edges |-> edges[i].from]))

\* A slip: what hangs below the hidden members stays.
ClaimShallow(edges, done, g, members, open, split, below) ==
  IF (\A c \in members : Children(edges, c) = <<>>) \/ members \subseteq done.claimed \/ Len(split.hidden) < MinHidden
  THEN done
  ELSE [claimed |-> done.claimed \cup members,
        removed |-> done.removed \cup (IF open THEN {} ELSE ToSet(split.hidden)),
        frame   |-> [c \in ToSet(split.visible) |-> g.key] @@ done.frame,
        pills   |-> Append(done.pills, Meta(g.key, split.hidden, open, below)),
        slot    |-> (g.key :> split.slot) @@ done.slot,
        edges   |-> Append(done.edges, [from |-> g.parent, to |-> g.key, type |-> g.links[1].type])]
(* One group folds when some member has children of its own, some member   *)
(* is not folded yet by an earlier group, and the split hides anything.    *)
ClaimGroup(edges, done, g, members, open, split, below) ==
  IF \/ \A c \in members : Children(edges, c) = <<>>
     \/ members \subseteq done.claimed
     \/ Len(split.hidden) < MinHidden
  THEN done
  ELSE [claimed |-> done.claimed \cup members,
        removed |-> done.removed \cup (IF open THEN {} ELSE ToSet(split.hidden) \cup below),
        frame   |-> [c \in ToSet(split.visible) |-> g.key] @@ done.frame,
        pills   |-> Append(done.pills, Meta(g.key, split.hidden, open, below)),
        slot    |-> (g.key :> split.slot) @@ done.slot,
        edges   |-> Append(done.edges, [from |-> g.parent, to |-> g.key, type |-> g.links[1].type])]
ClaimSplit(edges, done, g, group, open, split) ==
  ClaimGroup(edges, done, g, ToSet(group), open, split, DescendantsOf(edges, ToSet(split.hidden)))
FoldGroup(edges, expanded, wanted, done, g) ==
  LET group == [j \in DOMAIN g.links |-> g.links[j].to]
      open == g.key \in expanded
  IN  ClaimSplit(edges, done, g, group, open, SplitForFold(group, open, wanted))

NothingFolded ==
  [claimed |-> {}, removed |-> {}, frame |-> <<>>, pills |-> <<>>, slot |-> <<>>, edges |-> <<>>]

(* The graph with its crowded sibling subtrees folded: the items left, the *)
(* edges between them, the cell of each item, the slot of each pill.       *)
FoldedGraph(nodes, allEdges, done) ==
  LET Frame(i) == IF i \in DOMAIN done.frame THEN done.frame[i] ELSE NoGroup
  IN  [cells |-> [i \in nodes \ done.removed |-> CardCell(i, Frame(i))]
                   @@ [k \in {m.key : m \in ToSet(done.pills)} |->
                        PillCell(CHOOSE m \in ToSet(done.pills) : m.key = k, k)],
       edges |-> SelectSeq(allEdges, LAMBDA e : e.from \notin done.removed /\ e.to \notin done.removed)
                   \o done.edges,
       slot |-> done.slot]
FoldAll(edges, expanded, wanted) ==
  FoldLeft(LAMBDA d, g : FoldGroup(edges, expanded, wanted, d, g), NothingFolded, SiblingGroups(edges))
FoldSiblingSubtrees(nodes, allEdges, expanded, wanted) ==
  FoldedGraph(nodes, allEdges, FoldAll(Present(allEdges, nodes), expanded, wanted))

-----------------------------------------------------------------------------
FanoutMin == 5
LeafColMax == 8
NodeWidth == 220
NodeHeight == 60
LeafGapX == 18
LeafGapY == 16
BlockGap == 30

(* A block of m cells fills down to LeafColMax rows, then to the right. *)
BlockOf(rows, cols) ==
  [rows |-> rows, cols |-> cols,
   w |-> cols * NodeWidth + (cols - 1) * LeafGapX,
   h |-> rows * NodeHeight + (rows - 1) * LeafGapY]
BlockDims(m) ==
  LET rows == IF m < LeafColMax THEN m ELSE LeafColMax
  IN  BlockOf(rows, CeilDiv(m, rows))

(* A hub is a parent whose leaves lie in grids beside it, per kind. *)
HubArea(blocks) == [w |-> Widest([j \in DOMAIN blocks |-> blocks[j].w]),
                    h |-> Sum([j \in DOMAIN blocks |-> blocks[j].h])
                            + (IF Len(blocks) > 1 THEN (Len(blocks) - 1) * BlockGap ELSE 0)]

GridBlock(kind, cells) == [kind |-> kind, cells |-> cells] @@ BlockDims(Len(cells))
HubBlock(hub, kind, list, expanded, wanted) ==
  LET key == <<"sib", hub[2], kind>>
  IN  GridBlock(kind, FoldedCells(key, list, expanded, wanted, IF CrowdedFold(list) THEN key ELSE NoGroup))
HubLink(hub, edges, m, hidden) ==
  LET joins == SelectSeq(edges, LAMBDA x : \/ x.from = hub /\ x.to \in hidden
                                           \/ x.to = hub /\ x.from \in hidden)
  IN  [from |-> hub, to |-> m.key, type |-> joins[1].type]
WithLinks(hub, edges, blocks) ==
  LET metas == UNION UNION {{c.fold : c \in ToSet(b.cells)} : b \in ToSet(blocks)}
  IN  [blocks |-> blocks, links |-> {HubLink(hub, edges, m, ToSet(m.hidden)) : m \in {x \in metas : ~x.open}}]

HubBlocks(hub, leaves, kinds, expanded, wanted) ==
  [j \in DOMAIN kinds |->
    HubBlock(hub, kinds[j], Listed(OfKind(leaves, kinds[j]), ByName), expanded, wanted)]
CollapseHubLeaves(hub, leaves, edges, expanded, wanted) ==
  WithLinks(hub, edges, HubBlocks(hub, leaves, KindsOf(leaves), expanded, wanted))

(* Owners before other referrers, then the smaller UID. *)
OwnerPrio(e) == IF e.type = "ownerReference" THEN 0 ELSE 1
PrimaryParent(links) ==
  FoldLeft(LAMBDA b, e : IF \/ OwnerPrio(e) < OwnerPrio(b)
                            \/ OwnerPrio(e) = OwnerPrio(b) /\ e.from[2] < b.from[2] THEN e ELSE b,
           links[1], links).from

(* The sinks of the graph that a sibling fold has not framed, each given   *)
(* to its primary parent; a parent of FanoutMin of them is a hub.          *)
Leaves(cells, edges) ==
  {i \in DOMAIN cells : /\ ~IsPill(i) /\ cells[i].group = NoGroup
                        /\ Children(edges, i) = <<>>
                        /\ \E j \in DOMAIN edges : edges[j].to = i}
LeavesOf(parent, h) == {i \in DOMAIN parent : parent[i] = h}
CrowdedHubs(parent) == {h \in {parent[i] : i \in DOMAIN parent} : Cardinality(LeavesOf(parent, h)) >= FanoutMin}
CollapseHubs(hubs, parent, edges, expanded, wanted) ==
  [hub |-> [h \in hubs |-> CollapseHubLeaves(h, LeavesOf(parent, h), edges, expanded, wanted)],
   wrapped |-> UNION {LeavesOf(parent, h) : h \in hubs}]
HubsOf(parent, edges, expanded, wanted) ==
  CollapseHubs(CrowdedHubs(parent), parent, edges, expanded, wanted)
FindHubs(cells, edges, expanded, wanted) ==
  HubsOf([i \in Leaves(cells, edges) |-> PrimaryParent(SelectSeq(edges, LAMBDA e : e.to = i))],
         edges, expanded, wanted)
=============================================================================
