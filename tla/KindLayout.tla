----------------------------- MODULE KindLayout -----------------------------
(***************************************************************************)
(* The Kinds view: a box per kind, its cards in a grid, the boxes packed   *)
(* into a lattice (layout/kind.ts). Lengths are whole pixels. A placed     *)
(* card or pill is a cell with the centre x, y and the size w, h of its    *)
(* box; a layout has placed nodes, routed edges, a size and kind bands.    *)
(***************************************************************************)
EXTENDS Folding

KindHeaderHeight == 30
KindBoxGap == 64
Margin == 28

Place(cell, x, y) == cell @@ [x |-> x, y |-> y, w |-> NodeWidth, h |-> NodeHeight]
Shifted(nodes, dx, dy) == [j \in DOMAIN nodes |-> [nodes[j] EXCEPT !.x = @ + dx, !.y = @ + dy]]
ShiftedEdges(edges, dx, dy) ==
  [j \in DOMAIN edges |->
    [edges[j] EXCEPT !.points = [i \in DOMAIN @ |-> <<@[i][1] + dx, @[i][2] + dy>>]]]
EmptyLayout == [nodes |-> <<>>, edges |-> <<>>, w |-> 0, h |-> 0, bands |-> <<>>]

LeftOf(n) == n.x - n.w \div 2
RightOf(n) == n.x + n.w \div 2
TopOf(n) == n.y - n.h \div 2
BottomOf(n) == n.y + n.h \div 2

(* The smallest box around placed nodes. *)
BoxOf(nodes) ==
  LET N == ToSet(nodes)
  IN  [minX |-> Min({LeftOf(n) : n \in N}), maxX |-> Max({RightOf(n) : n \in N}),
       minY |-> Min({TopOf(n) : n \in N}), maxY |-> Max({BottomOf(n) : n \in N})]

(* A grid of n cells leans wide: 17 columns to 10 rows. *)
GridCols(n) == Min({n, CHOOSE c \in 1..(n + 1) : 10 * c * c >= 17 * n /\ 10 * (c - 1) * (c - 1) < 17 * n})
GridDims(n) == BlockOf(CeilDiv(n, GridCols(n)), GridCols(n))

PlaceGridCells(cells, cols) ==
  [j \in DOMAIN cells |->
    Place(cells[j],
          ((j - 1) % cols) * (NodeWidth + LeafGapX) + NodeWidth \div 2,
          KindHeaderHeight + ((j - 1) \div cols) * (NodeHeight + LeafGapY) + NodeHeight \div 2)]

(* The lattice of components in a number of columns, and the one whose     *)
(* aspect comes closest to 16:10; of equals, the one with fewer columns.   *)
LatticeOf(colW, rowH, gap) ==
  [cols |-> Len(colW), colW |-> colW, rowH |-> rowH,
   w |-> Sum(colW) + (Len(colW) - 1) * gap, h |-> Sum(rowH) + (Len(rowH) - 1) * gap]
Lattice(components, cols, gap) ==
  LET InCol(c) == {j \in DOMAIN components : (j - 1) % cols = c}
      InRow(r) == {j \in DOMAIN components : (j - 1) \div cols = r}
  IN  LatticeOf([c \in 1..cols |-> Max({components[j].w : j \in InCol(c - 1)})],
                [r \in 1..CeilDiv(Len(components), cols) |-> Max({components[j].h : j \in InRow(r - 1)})],
                gap)
OffAspect(g) == IF 10 * g.w > 16 * g.h THEN 10 * g.w - 16 * g.h ELSE 16 * g.h - 10 * g.w
Best(grids) ==
  FoldLeft(LAMBDA best, g : IF OffAspect(g) * best.h < OffAspect(best) * g.h THEN g ELSE best, grids[1], grids)
BestLattice(components, gap) == Best([c \in DOMAIN components |-> Lattice(components, c, gap)])

PackedGrid(components, gap, best) ==
  LET Before(sizes, j) == Margin + Sum(SubSeq(sizes, 1, j)) + j * gap
  IN  [EmptyLayout EXCEPT
        !.nodes = FlattenSeq([j \in DOMAIN components |->
                    Shifted(components[j].nodes, Before(best.colW, (j - 1) % best.cols),
                                                 Before(best.rowH, (j - 1) \div best.cols))]),
        !.w = best.w + 2 * Margin, !.h = best.h + 2 * Margin]
PackComponentsGrid(components, gap) == PackedGrid(components, gap, BestLattice(components, gap))

PlacedAt(nodes, i) == nodes[CHOOSE j \in DOMAIN nodes : nodes[j].id = i]
Ids(nodes) == {nodes[j].id : j \in DOMAIN nodes}

(* Every kind in its own box; edges run straight between the cards. *)
GridBox(cells, grid) == [nodes |-> PlaceGridCells(cells, grid.cols), w |-> grid.w, h |-> KindHeaderHeight + grid.h]
KindBox(cells) == GridBox(cells, GridDims(Len(cells)))
KindBoxes(nodes, kinds, expanded, wanted) ==
  [j \in DOMAIN kinds |->
    KindBox(FoldedCells(<<"kind", 0, kinds[j]>>, Listed(OfKind(nodes, kinds[j]), ByName),
                        expanded, wanted, NoGroup))]
Centre(nodes, i) == <<PlacedAt(nodes, i).x, PlacedAt(nodes, i).y>>
Straight(nodes, edges) ==
  [j \in DOMAIN edges |->
    edges[j] @@ [points |-> <<Centre(nodes, edges[j].from), Centre(nodes, edges[j].to)>>]]
StraightEdges(layout, edges) == [layout EXCEPT !.edges = Straight(layout.nodes, Present(edges, Ids(layout.nodes)))]
LayoutGraphByKind(nodes, edges, expanded, wanted) ==
  IF nodes = {} THEN EmptyLayout
  ELSE StraightEdges(PackComponentsGrid(KindBoxes(nodes, KindsOf(nodes), expanded, wanted), KindBoxGap), edges)

(* The band of each kind: the box around its cards and pill, and a count   *)
(* to which a pill adds what it stands for.                                *)
Standing(n) == IF n.fold = {} THEN 1 ELSE Len((CHOOSE m \in n.fold : TRUE).hidden)
Band(kind, mine, box) ==
  [kind |-> kind, count |-> Sum([j \in DOMAIN mine |-> Standing(mine[j])]),
   x |-> box.minX, y |-> box.minY - KindHeaderHeight,
   w |-> box.maxX - box.minX, h |-> box.maxY - box.minY + KindHeaderHeight]
BandAround(kind, mine) == Band(kind, mine, BoxOf(mine))
Bands(nodes, kinds) ==
  [j \in DOMAIN kinds |-> BandAround(kinds[j], SelectSeq(nodes, LAMBDA n : n.id[3] = kinds[j]))]
KindGroups(nodes) == Bands(nodes, KindsOf(Ids(nodes)))
=============================================================================
