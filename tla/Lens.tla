-------------------------------- MODULE Lens --------------------------------
(***************************************************************************)
(* What the canvas shows of a graph, and what of it is lit: the projection *)
(* of the edges, the visible resources, the layout of the grouping, the    *)
(* spotlight, the fades, the counts on chips and badges, and the orders in *)
(* which keys step (relationships.ts, fade.ts, nav.ts, kindStats.ts,       *)
(* topology/spotlight.ts, topology/capacityHover.ts, Topology.tsx).        *)
(*                                                                         *)
(* A page p is what the canvas is given: nodes, edges, sick (the Degraded  *)
(* resources, in both feeds), feed (nodes and facts of the capacity feed), *)
(* scope, groupBy, rels, orphaned (whether they are shown), query (on, and *)
(* the resources it hits), health (a filter, "" for none),                 *)
(* kinds (a filter, empty for none) and selected. A health is Degraded or  *)
(* Healthy. hover is the card or the capacity marker under the pointer.    *)
(***************************************************************************)
EXTENDS RelationLayout, CapacityLayout

None == <<>>

-----------------------------------------------------------------------------
Categories == [ownership |-> {"ownerReference", "refers"},
               network   |-> {"routes", "selects", "governs"},
               volumes   |-> {"mounts"}]
ActiveEdgeTypes(rels) == UNION {Categories[c] : c \in rels}

(* The template a Workflow refers to is drawn as its parent. *)
Turned(e) == IF e.type = "refers" THEN [e EXCEPT !.from = e.to, !.to = e.from] ELSE e
ProjectAll(active) == [j \in DOMAIN active |-> Turned(active[j])]
ProjectEdges(edges, rels) == ProjectAll(SelectSeq(edges, LAMBDA e : e.type \in ActiveEdgeTypes(rels)))

(* One chip toggles, with Shift it is alone, and alone again it clears. *)
ToggleInSet(current, item, solo) ==
  IF solo THEN (IF current = {item} THEN {} ELSE {item})
  ELSE IF item \in current THEN current \ {item} ELSE current \cup {item}

IsRelGrouping(p) == p.groupBy = "relationship"
DisplayEdges(p) == ProjectEdges(p.edges, p.rels)
HealthOf(p, i) == IF i \in p.sick THEN "Degraded" ELSE "Healthy"

OrphanIds(p) ==
  IF IsRelGrouping(p) THEN p.nodes \ UNION {{e.from, e.to} : e \in ToSet(DisplayEdges(p))} ELSE {}

(* Hidden orphans, but for Degraded ones while the filter asks for them. *)
VisibleNodes(p) ==
  IF p.orphaned THEN p.nodes
  ELSE p.nodes \ {i \in OrphanIds(p) : ~(p.health = "Degraded" /\ i \in p.sick)}

Wanted(p) == IF p.health = "" THEN {} ELSE {i \in p.nodes : HealthOf(p, i) = p.health}

LayoutRelations(p, visible, orphans, expanded) ==
  LayoutGraphWithOrphans(visible \ orphans, visible \cap orphans, DisplayEdges(p), expanded, Wanted(p))
Layout(p, expanded) ==
  CASE p.groupBy = "kind" -> LayoutGraphByKind(p.nodes, DisplayEdges(p), expanded, Wanted(p))
    [] p.groupBy = "nodes" ->
         LayoutGraphByCapacity(p.feed.nodes, [p.feed.facts EXCEPT !.sick = p.sick], expanded)
    [] OTHER -> LayoutRelations(p, VisibleNodes(p), OrphanIds(p), expanded)

Groups(p, layout) == IF p.groupBy = "kind" THEN KindGroups(layout.nodes) ELSE layout.bands
CapRows(p, layout) == IF p.groupBy = "nodes" THEN ToSet(layout.rows) ELSE {}
CapRowFor(p, layout, i) ==
  {r \in CapRows(p, layout) : i \in r.pods \/ (r.host # Unscheduled /\ i = NodeOf(r.host))}
CapBulletFitBox(row, i) ==
  {[x |-> b.x + b.focusW \div 2, y |-> b.y + b.h \div 2, w |-> b.focusW, h |-> b.h] :
     b \in {c \in ToSet(row.bullets) : c.id = i}}
CapRowBox(row) == [x |-> row.x + row.w \div 2, y |-> row.y + row.h \div 2, w |-> row.w, h |-> row.h]

(* The frames around the folded groups of the relationship view. *)
FramePad == 8
ConnGroups(layout) ==
  LET Frame(k, b) == [key |-> k, minX |-> b.minX - FramePad, maxX |-> b.maxX + FramePad,
                      minY |-> b.minY - FramePad, maxY |-> b.maxY + FramePad]
  IN  {Frame(k, BoxOf(SelectSeq(layout.nodes, LAMBDA n : n.group = k)))
       : k \in {n.group : n \in ToSet(layout.nodes)} \ {NoGroup}}

Cards(layout) == {n.id : n \in {m \in ToSet(layout.nodes) : m.fold = {}}}
Pills(layout) == UNION {n.fold : n \in ToSet(layout.nodes)}
Covers(meta, i) == i \in ToSet(meta.hidden) \/ i \in meta.below

-----------------------------------------------------------------------------
SpotlightNeighbors(i, edges) ==
  LET mine == {e \in ToSet(edges) : i \in {e.from, e.to}}
  IN  [on |-> TRUE, nodes |-> {i} \cup UNION {{e.from, e.to} : e \in mine}, edges |-> mine]
SpotlightSubtree(i, edges) ==
  LET Touching(S) == {e \in ToSet(edges) : {e.from, e.to} \cap S # {}}
      Whole(nodes) == [on |-> TRUE, nodes |-> nodes, edges |-> Touching(nodes)]
  IN  Whole(FoldLeft(LAMBDA S, e : S \cup UNION {{f.from, f.to} : f \in Touching(S)}, {i}, edges))

Subject(p, hover) ==
  IF p.selected # None THEN p.selected ELSE IF IsRelGrouping(p) THEN hover ELSE None

(* Nothing is spotlit in the Kind view, nor around a deleted resource. *)
Spotlight(p, i) ==
  IF p.groupBy = "kind" \/ i \notin p.nodes THEN [on |-> FALSE, nodes |-> {}, edges |-> {}]
  ELSE IF p.groupBy = "nodes" THEN SpotlightSubtree(i, DisplayEdges(p))
  ELSE SpotlightNeighbors(i, DisplayEdges(p))
Related(p, hover) == Spotlight(p, Subject(p, hover))
Receded(spotlight, i) == spotlight.on /\ i \notin spotlight.nodes

KindOk(p, i) == p.kinds = {} \/ (~IsPill(i) /\ i[3] \in p.kinds)
Matches(p) == {i \in VisibleNodes(p) \cap p.query.hits : KindOk(p, i)}
Filtered(p) == p.query.on \/ p.health # "" \/ p.kinds # {}

(* Selection, then kinds, then search, then health, then the neighbours. *)
NodeFaded(p, hover, i) ==
  /\ i # p.selected
  /\ \/ ~KindOk(p, i)
     \/ IF p.query.on THEN i \notin Matches(p)
        ELSE IF p.health # "" THEN HealthOf(p, i) # p.health
        ELSE Receded(Related(p, hover), i)

EdgeOf(e) == [from |-> e.from, to |-> e.to, type |-> e.type]
RecededEdge(spotlight, e) == spotlight.on /\ EdgeOf(e) \notin spotlight.edges
\* A slip: an edge with one end of a lit kind is lit.
EdgeFadedWhole(p, hover, e) ==
  IF p.query.on THEN ~({e.from, e.to} \subseteq Matches(p))
  ELSE IF p.health # "" THEN TRUE
  ELSE IF p.kinds # {} THEN ~(KindOk(p, e.from) \/ KindOk(p, e.to))
  ELSE RecededEdge(Related(p, hover), e)
EdgeFaded(p, hover, e) ==
  IF p.query.on THEN ~({e.from, e.to} \subseteq Matches(p))
  ELSE IF p.health # "" THEN TRUE
  ELSE IF p.kinds # {} THEN ~(KindOk(p, e.from) /\ KindOk(p, e.to))
  ELSE RecededEdge(Related(p, hover), e)
EdgeAdjacent(p, hover, e) ==
  ~Filtered(p) /\ Subject(p, hover) # None /\ Subject(p, hover) \in {e.from, e.to}
RenderedEdges(p, layout) == IF p.groupBy = "kind" THEN {} ELSE ToSet(layout.edges)

-----------------------------------------------------------------------------
(* The Nodes view draws the nodes, and the pods of the shown namespace. *)
CapacityShown(p) ==
  {i \in p.feed.nodes : IsNode(i) \/ (IsPod(i) /\ (p.feed.facts.all \/ i \in p.feed.facts.own))}
ShownPods(p) == {i \in CapacityShown(p) : IsPod(i)}

Accepted(p, i) ==
  /\ p.query.on => i \in p.query.hits
  /\ p.health # "" => HealthOf(p, i) = p.health
  /\ KindOk(p, i)
FilterMatches(p) ==
  {i \in (IF p.groupBy = "nodes" THEN ShownPods(p) ELSE VisibleNodes(p)) : Accepted(p, i)}

\* A slip: what a pill drags along is forgotten.
KindCountFlat(layout, kind) ==
  LET closed == {m \in Pills(layout) : ~m.open}
  IN  Len(SelectSeq(layout.nodes, LAMBDA n : n.fold = {} /\ n.id[3] = kind))
        + MapThenSumSet(LAMBDA m : Len(SelectSeq(m.hidden, LAMBDA i : i[3] = kind)), closed)

(* The number of a kind's chip: its cards, and what closed pills stand for. *)
KindCount(layout, kind) ==
  LET closed == {m \in Pills(layout) : ~m.open}
      behind(m) == Len(SelectSeq(m.hidden, LAMBDA i : i[3] = kind)) + Cardinality(OfKind(m.below, kind))
  IN  Len(SelectSeq(layout.nodes, LAMBDA n : n.fold = {} /\ n.id[3] = kind)) + MapThenSumSet(behind, closed)

(* The pill of a health counts what is drawn, and every Degraded resource. *)
HealthCount(p, health) ==
  IF p.groupBy = "nodes" THEN Cardinality({i \in CapacityShown(p) : HealthOf(p, i) = health})
  ELSE Cardinality({i \in p.nodes : /\ HealthOf(p, i) = health
                                    /\ health = "Degraded" \/ p.orphaned \/ i \notin OrphanIds(p)})

CollapseMatchCount(p, meta) ==
  LET Hit(i) == IF p.query.on THEN KindOk(p, i) /\ i \in p.query.hits
                ELSE p.health # "" /\ HealthOf(p, i) = p.health
  IN  Len(SelectSeq(meta.hidden, Hit))
PillFaded(p, meta) ==
  \/ p.kinds # {} /\ meta.key[3] \notin p.kinds
  \/ ~meta.open /\ (p.query.on \/ p.health # "") /\ CollapseMatchCount(p, meta) = 0

(* What an empty or dark canvas says of itself. *)
FilteredOut(p, layout, hover) ==
  p.nodes # {} /\ Filtered(p) /\ \A n \in ToSet(layout.nodes) : NodeFaded(p, hover, n.id)
AllOrphaned(p) == IsRelGrouping(p) /\ ~p.orphaned /\ p.nodes # {} /\ VisibleNodes(p) = {}

-----------------------------------------------------------------------------
(* Keys step through the troubled first, then by kind and name. *)
OrderedForNav(p, S) ==
  LET Key(i) == <<IF i \in p.sick THEN 0 ELSE 1, KindIndex(i[3]), i[2]>>
  IN  Listed(S, LAMBDA a, b : Lexical(Key(a), Key(b)))
Stepped(ordered, current, dir) ==
  LET n == Len(ordered)
      at == {j \in 1..n : ordered[j] = current}
  IN  IF n = 0 THEN current
      ELSE IF at = {} THEN ordered[IF dir = 1 THEN 1 ELSE n]
      ELSE ordered[1 + ((Max(at) - 1 + dir + n) % n)]

NavCandidates(p) == {i \in p.nodes : Accepted(p, i)}
NextSelection(p, dir) == Stepped(OrderedForNav(p, NavCandidates(p)), p.selected, dir)
NextMatch(p, dir) == Stepped(OrderedForNav(p, Matches(p)), p.selected, dir)

-----------------------------------------------------------------------------
(* The hover of the Nodes view: a pod, or a block of a row, as a marker    *)
(* <<"small" | "other" | "overhead", host, "">>. A pod recedes the other   *)
(* rows when the feed states its host, in a row of the feed or not.        *)
CapHoverHost(p, hover) ==
  IF hover[1] # "card" THEN hover[2]
  ELSE IF hover \in p.feed.nodes THEN p.feed.facts.host[hover] ELSE Unscheduled
CapRowFaded(p, hover, host) ==
  /\ hover # None
  /\ ~(hover[1] = "card" /\ CapHoverHost(p, hover) = Unscheduled)
  /\ CapHoverHost(p, hover) # host
CapSegFaded(p, hover, i) ==
  IF hover # None THEN ~CapRowFaded(p, hover, p.feed.facts.host[i]) /\ i # hover
  ELSE NodeFaded(p, hover, i)
CapAggFaded(p, hover, marker) ==
  IF hover # None THEN ~CapRowFaded(p, hover, marker[2]) /\ marker # hover
  ELSE p.selected # None \/ p.query.on \/ p.health # ""
=============================================================================
