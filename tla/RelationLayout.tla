--------------------------- MODULE RelationLayout ---------------------------
(***************************************************************************)
(* The relationship views: each connected component in columns by depth,   *)
(* hubs with grids of leaves, the components stacked under each other, and *)
(* the unconnected resources in kind boxes below (layout/relationship.ts). *)
(*                                                                         *)
(* Seed(i) is the height dagre gives a card: a library of which only the   *)
(* order in a column is used. UIDs and names order alike (see Folding).    *)
(***************************************************************************)
EXTENDS KindLayout

CONSTANT Seed(_)

ColumnGap == 80
ColVGap == 18
EdgeStub == 16
ComponentGap == 46
OrphanSectionGap == 96

(* The first difference decides. *)
Lexical(a, b) == \E k \in DOMAIN a : a[k] < b[k] /\ \A j \in 1..(k - 1) : a[j] = b[j]
KindIndex(k) == CHOOSE j \in DOMAIN Kinds : Kinds[j] = k

(* A connector leaves the right edge of a and enters the left edge of b. *)
Elbows(s, e, mid) ==
  IF s[2] = e[2] THEN <<s, e>>
  ELSE IF e[1] - s[1] >= 2 * EdgeStub THEN <<s, <<mid[1], s[2]>>, <<mid[1], e[2]>>, e>>
  ELSE <<s, <<s[1] + EdgeStub, s[2]>>, <<s[1] + EdgeStub, mid[2]>>,
         <<e[1] - EdgeStub, mid[2]>>, <<e[1] - EdgeStub, e[2]>>, e>>
Between(s, e) == Elbows(s, e, <<(s[1] + e[1]) \div 2, (s[2] + e[2]) \div 2>>)
OrthRoute(a, b) == Between(<<RightOf(a), a.y>>, <<LeftOf(b), b.y>>)

(* Depth: the longest path from a source (the code relaxes the edges to    *)
(* this fixpoint; what its bound leaves of a cycle is not modelled).       *)
ComputeRanks(items, edges) ==
  LET Parents(i) == {edges[j].from : j \in {k \in DOMAIN edges : edges[k].to = i}}
      depth[i \in items] == IF Parents(i) = {} THEN 0 ELSE 1 + Max({depth[p] : p \in Parents(i)})
  IN  depth

(* A column is filled with units: a card, or a hub's grid of one kind.     *)
(* parent is empty or a singleton.                                         *)
Prior(b, e, rank) ==
  Lexical(<<OwnerPrio(e), rank[e.from], e.from[2]>>, <<OwnerPrio(b), rank[b.from], b.from[2]>>)
FirstReferrer(rank, referrers) ==
  FoldLeft(LAMBDA b, e : IF Prior(b, e, rank) THEN e ELSE b, referrers[1], referrers).from
UnitOf(cell, rank, parent, parents) ==
  LET i == cell.id
  IN  [rank |-> rank[i], kind |-> i[3], cells |-> <<cell>>, rows |-> 1, name |-> i[2],
       w |-> NodeWidth, h |-> NodeHeight, seed |-> Seed(i), id |-> {i},
       group |-> IF cell.group # NoGroup THEN cell.group
                 ELSE IF parent # {} THEN <<"par", (CHOOSE p \in parent : TRUE)[2], i[3]>>
                 ELSE <<"root", i[2], i[3]>>,
       parent |-> parent, parents |-> parents]
CardUnit(cell, rank, referrers) ==
  UnitOf(cell, rank, IF referrers = <<>> THEN {} ELSE {FirstReferrer(rank, referrers)},
         {referrers[j].from : j \in DOMAIN referrers})

GridUnit(hub, blocks, rank, top, j) ==
  LET above == Sum([i \in 1..(j - 1) |-> blocks[i].h + BlockGap])
  IN  [rank |-> rank[hub] + 1, kind |-> blocks[j].kind, cells |-> blocks[j].cells,
       rows |-> blocks[j].rows, name |-> 0, w |-> blocks[j].w, h |-> blocks[j].h,
       seed |-> top + above + blocks[j].h \div 2, id |-> {},
       group |-> <<"block", hub[2], blocks[j].kind>>, parent |-> {hub}, parents |-> {hub}]
UnitsFrom(hub, blocks, rank, top) == {GridUnit(hub, blocks, rank, top, j) : j \in DOMAIN blocks}
BlockUnits(hub, blocks, rank) == UnitsFrom(hub, blocks, rank, Seed(hub) - HubArea(blocks).h \div 2)

Referrers(i, edges, hubs, rank) ==
  SelectSeq(edges, LAMBDA e : /\ e.to = i
                              /\ rank[e.from] < rank[i]
                              /\ {e.from, e.to} \cap hubs.wrapped = {})
ColUnits(cells, edges, hubs, rank) ==
  {CardUnit(cells[i], rank, Referrers(i, edges, hubs, rank)) : i \in DOMAIN cells \ hubs.wrapped}
    \cup UNION {BlockUnits(h, hubs.hub[h].blocks, rank) : h \in DOMAIN hubs.hub}

Stacked(units) == Sum([j \in DOMAIN units |-> units[j].h]) + (Len(units) - 1) * ColVGap
MeanOf(S, f(_)) == MapThenSumSet(f, S) \div Cardinality(S)

(* The units of one group in name order, the pill in its slot; the group   *)
(* wants to be level with the mean of its placed referrers.                *)
OrderUnits(cards, pills, at) ==
  IF pills = {} THEN cards ELSE InsertAt(cards, 1 + Min({at, Len(cards)}), CHOOSE u \in pills : TRUE)
GroupOf(g, units, desired) ==
  [group |-> g, units |-> units, h |-> Stacked(units), kind |-> units[1].kind,
   parent |-> units[1].parent, desired |-> desired]
Desired(U, refs, centre) ==
  IF refs # {} THEN MeanOf(refs, LAMBDA r : centre[r]) ELSE MeanOf(U, LAMBDA u : u.seed)
IsPillUnit(u) == \E i \in u.id : IsPill(i)
ColGroup(g, U, slot, centre) ==
  GroupOf(g, OrderUnits(Listed({u \in U : ~IsPillUnit(u)}, LAMBDA a, b : a.name < b.name),
                        {u \in U : IsPillUnit(u)}, IF g \in DOMAIN slot THEN slot[g] ELSE 0),
          Desired(U, UNION {u.parents : u \in U} \cap DOMAIN centre, centre))

GroupTag(t) == CASE t = "block" -> 1 [] t = "par" -> 2 [] t = "root" -> 3 [] OTHER -> 4
Rank(key) == <<GroupTag(key[1]), key[2], KindIndex(key[3])>>
KeyBefore(a, b) == Lexical(Rank(a), Rank(b))
GroupBefore(a, b) == Lexical(<<a.desired>> \o Rank(a.group), <<b.desired>> \o Rank(b.group))

(* One logical group, in two runs, is packed tight; others keep apart. *)
GapBetween(a, b) == IF a.kind = b.kind /\ a.parent = b.parent THEN ColVGap ELSE BlockGap

(* Groups that would overlap merge into a cluster, centred on the mean of  *)
(* what its groups desire; gap is the room a cluster needs above.          *)
Height(groups) ==
  Sum([j \in DOMAIN groups |-> groups[j].h])
    + Sum([j \in 1..(Len(groups) - 1) |-> GapBetween(groups[j], groups[j + 1])])
ClusterOf(groups, h) ==
  [groups |-> groups, h |-> h,
   top |-> Sum([j \in DOMAIN groups |-> groups[j].desired]) \div Len(groups) - h \div 2]
Cluster(groups) == ClusterOf(groups, Height(groups))
\* A slip: the tops alone are compared.
KeepTops(above, last) == above.top + GapBetween(Last(above.groups), last.groups[1]) <= last.top
KeepApart(above, last) == above.top + above.h + GapBetween(Last(above.groups), last.groups[1]) <= last.top
Merged(clusters) ==
  LET n == Len(clusters)
  IN  IF n < 2 \/ KeepApart(clusters[n - 1], clusters[n]) THEN clusters
      ELSE Append(SubSeq(clusters, 1, n - 2), Cluster(clusters[n - 1].groups \o clusters[n].groups))
Absorb(clusters, group) ==
  FoldLeft(LAMBDA cs, i : Merged(cs), Append(clusters, Cluster(<<group>>)), Append(clusters, group))

(* A block fills its columns downward. *)
PlaceBlockCells(cells, rows, left, top) ==
  [j \in DOMAIN cells |->
    Place(cells[j],
          left + ((j - 1) \div rows) * (NodeWidth + LeafGapX) + NodeWidth \div 2,
          top + ((j - 1) % rows) * (NodeHeight + LeafGapY) + NodeHeight \div 2)]

PlaceGroup(group, left, top) ==
  FlattenSeq([k \in DOMAIN group.units |->
    PlaceBlockCells(group.units[k].cells, group.units[k].rows, left,
                    top + Sum([i \in 1..(k - 1) |-> group.units[i].h + ColVGap]))])
TopOfGroup(c, j) ==
  IF j = 1 THEN c.top ELSE c.top + Height(SubSeq(c.groups, 1, j)) - c.groups[j].h
PlaceCluster(c, left) ==
  FlattenSeq([j \in DOMAIN c.groups |-> PlaceGroup(c.groups[j], left, TopOfGroup(c, j))])

(* Columns from the left; the cards of one guide the groups of the next.   *)
PlaceClusters(clusters, left) == FlattenSeq([j \in DOMAIN clusters |-> PlaceCluster(clusters[j], left)])
PlaceColumn(U, left, slot, centre) ==
  PlaceClusters(
    FoldLeft(Absorb, <<>>,
             Listed({ColGroup(g, {u \in U : u.group = g}, slot, centre) : g \in {u.group : u \in U}}, GroupBefore)),
    left)
WithColumn(done, U, placed) ==
  [nodes |-> done.nodes \o placed,
   centre |-> [i \in UNION {u.id : u \in U} |-> PlacedAt(placed, i).y] @@ done.centre]
ColumnLeft(units, r) ==
  LET W(q) == Max({NodeWidth} \cup {u.w : u \in {v \in units : v.rank = q}})
  IN  MapThenSumSet(LAMBDA q : W(q) + ColumnGap, {u.rank : u \in {v \in units : v.rank < r}})
Column(done, U, left, slot) == WithColumn(done, U, PlaceColumn(U, left, slot, done.centre))
PlaceColumns(units, slot) ==
  FoldLeft(LAMBDA done, r : Column(done, {u \in units : u.rank = r}, ColumnLeft(units, r), slot),
           [nodes |-> <<>>, centre |-> <<>>], Listed({u.rank : u \in units}, LAMBDA a, b : a < b)).nodes

(* One component at the origin: cards, pills, routed edges, and an edge    *)
(* from each hub to its collapsed pills.                                   *)
Routed(nodes, e) == e @@ [points |-> OrthRoute(PlacedAt(nodes, e.from), PlacedAt(nodes, e.to))]
AtOrigin(nodes, routes, box) ==
  [nodes |-> Shifted(nodes, -box.minX, -box.minY),
   edges |-> ShiftedEdges([j \in DOMAIN routes |-> Routed(nodes, routes[j])], -box.minX, -box.minY),
   w |-> box.maxX - box.minX, h |-> box.maxY - box.minY]
DrawnTree(nodes, edges) == AtOrigin(nodes, Present(edges, Ids(nodes)), BoxOf(nodes))
PillEdges(hubs) ==
  Listed(UNION {hubs.hub[h].links : h \in DOMAIN hubs.hub}, LAMBDA a, b : KeyBefore(a.to, b.to))
LayoutAround(hubs, cells, edges, slot) ==
  DrawnTree(PlaceColumns(ColUnits(cells, edges, hubs, ComputeRanks(DOMAIN cells, edges)), slot),
            edges \o PillEdges(hubs))
LayoutComponent(cells, edges, expanded, wanted, slot) ==
  LayoutAround(FindHubs(cells, edges, expanded, wanted), cells, edges, slot)

BlockBox(cells, dims) == [nodes |-> PlaceBlockCells(cells, dims.rows, 0, 0), edges |-> <<>>,
                          w |-> dims.w, h |-> dims.h]
BlockAround(cells) == BlockBox(cells, BlockDims(Len(cells)))
OrphanBlock(kind, items, expanded, wanted) ==
  LET key == <<"orphan", 0, kind>>
  IN  BlockAround(FoldedCells(key, Listed(items, ByName), expanded, wanted, key))

(* Edges join their ends; the components are listed by least kind and      *)
(* name, the ones of pills alone first.                                    *)
Components(items, edges) ==
  FoldLeft(LAMBDA P, e : LET both == {C \in P : e.from \in C \/ e.to \in C}
                         IN  (P \ both) \cup {UNION both},
           {{i} : i \in items}, edges)
ComponentKey(C) ==
  LET cards == {i \in C : ~IsPill(i)}
      Key(i) == 100 * KindIndex(i[3]) + i[2]
  IN  IF cards # {} THEN Min({Key(i) : i \in cards}) ELSE Min({Key(i) : i \in C}) - 10000

PackComponents(components, gap) ==
  LET Above(j) == Sum([i \in 1..(j - 1) |-> components[i].h + gap])
      n == Len(components)
  IN  IF components = <<>> THEN EmptyLayout
      ELSE [EmptyLayout EXCEPT
             !.nodes = FlattenSeq([j \in 1..n |-> Shifted(components[j].nodes, Margin, Margin + Above(j))]),
             !.edges = FlattenSeq([j \in 1..n |-> ShiftedEdges(components[j].edges, Margin, Margin + Above(j))]),
             !.w = Widest([j \in 1..n |-> components[j].w]) + 2 * Margin,
             !.h = Above(n) + components[n].h + 2 * Margin]

(* The trees, then the kinds with FanoutMin and more unconnected cards.    *)
LayoutTrees(order, cells, edges, expanded, wanted, slot) ==
  [j \in DOMAIN order |->
    LayoutComponent([i \in order[j] |-> cells[i]], SelectSeq(edges, LAMBDA e : e.from \in order[j]),
                    expanded, wanted, slot)]
LayoutBlocks(crowded, loose, expanded, wanted) ==
  [j \in DOMAIN crowded |-> OrphanBlock(crowded[j], OfKind(loose, crowded[j]), expanded, wanted)]
TreesOf(items, edges) ==
  Listed(Components(items, edges), LAMBDA a, b : ComponentKey(a) < ComponentKey(b))
LayoutLoose(f, edges, loose, crowded, expanded, wanted) ==
  LET blocked == {i \in loose : i[3] \in ToSet(crowded)}
  IN  PackComponents(
        LayoutTrees(TreesOf(DOMAIN f.cells \ blocked, edges), f.cells, edges, expanded, wanted, f.slot)
          \o LayoutBlocks(crowded, loose, expanded, wanted),
        ComponentGap)
Loose(items, edges) ==
  {i \in items : ~IsPill(i) /\ i \notin UNION {{e.from, e.to} : e \in ToSet(edges)}}
CrowdedKinds(loose) == SelectSeq(Kinds, LAMBDA k : Cardinality(OfKind(loose, k)) >= FanoutMin)
LayoutFolded(f, edges, expanded, wanted) ==
  LayoutLoose(f, edges, Loose(DOMAIN f.cells, edges), CrowdedKinds(Loose(DOMAIN f.cells, edges)), expanded, wanted)
LayoutPresent(f, expanded, wanted) == LayoutFolded(f, Present(f.edges, DOMAIN f.cells), expanded, wanted)
LayoutGraph(nodes, allEdges, expanded, wanted) ==
  LayoutPresent(FoldSiblingSubtrees(nodes, allEdges, expanded, wanted), expanded, wanted)

(* The unconnected resources, when shown, in kind boxes under the rest. *)
SectionTop(rel) == IF rel.nodes # <<>> THEN rel.h + OrphanSectionGap ELSE 0
WithSection(rel, section, dy, below) ==
  IF below = <<>> THEN rel
  ELSE [rel EXCEPT !.nodes = @ \o below, !.w = Max({@, section.w}), !.h = dy + section.h,
                   !.bands = KindGroups(below)]
WithOrphans(rel, section) ==
  WithSection(rel, section, SectionTop(rel), Shifted(section.nodes, 0, SectionTop(rel)))
LayoutGraphWithOrphans(connected, orphans, edges, expanded, wanted) ==
  WithOrphans(LayoutGraph(connected, edges, expanded, wanted),
              LayoutGraphByKind(orphans, <<>>, expanded, wanted))
=============================================================================
