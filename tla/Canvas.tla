------------------------------- MODULE Canvas -------------------------------
(***************************************************************************)
(* The canvas of a tab at work: an operator clicks, types, pans and turns  *)
(* the view while the graph changes, the drawer opens and closes beside    *)
(* it, and the camera flies to what was asked for (Topology.tsx with       *)
(* topology/collapseState.ts, and the setters of App.tsx,                  *)
(* graphSubscription.ts and appKeyboard.ts that drive it).                 *)
(*                                                                         *)
(* A setter of a handler runs its effects at once, in the order unfold,    *)
(* fit all, selection fit, filter fit, clamp; setters inside an effect are *)
(* batched. A tab t is the record of the variables below but world, so     *)
(* that a handler is a composition of setters.                             *)
(*                                                                         *)
(* Abstractions: an animation is one jump, which may be overtaken or       *)
(* cancelled before it lands; a press, a drag or a pinch is one step; a    *)
(* camera is whole pixels and percents; the toolbar keeps its height.      *)
(***************************************************************************)
EXTENDS Lens, Viewport

CONSTANTS Starts       \* the worlds and screens a behaviour may start in

VARIABLES
  page,      \* what the canvas is given, see Lens; a scope is <<context, namespace>>
  canvas,    \* [expanded, layout, hover, capHover, timer]
  camera,    \* [scale, tx, ty]
  motion,    \* [anim, frame, pending, aim, missed], see below
  fit,       \* [scope, key, pending, first, fresh] of the effect that fits all
  screen,    \* [full, w, h, inset, phone, resized]; w is left beside the drawer
  world      \* [now, versions, feeds, awaits, link, left]: the cluster, and budgets

vars == <<page, canvas, camera, motion, fit, screen, world>>

Now == [page |-> page, canvas |-> canvas, camera |-> camera, motion |-> motion, fit |-> fit,
        screen |-> screen]
Become(t) == /\ page' = t.page /\ canvas' = t.canvas /\ camera' = t.camera
             /\ motion' = t.motion /\ fit' = t.fit /\ screen' = t.screen
Spend(b) == world.left[b] > 0 /\ world' = [world EXCEPT !.left[b] = @ - 1]

NoQuery == [on |-> FALSE, hits |-> {}]
NoFeed == [nodes |-> {},
           facts |-> [all |-> FALSE, own |-> {}, host |-> <<>>, use |-> <<>>, req |-> <<>>, lim |-> <<>>,
                      alloc |-> <<>>, total |-> <<>>, metrics |-> FALSE, sick |-> {}]]
EmptyPage(s) ==
  [nodes |-> {}, edges |-> <<>>, sick |-> {}, feed |-> NoFeed, scope |-> s,
   groupBy |-> "relationship", rels |-> {"ownership"}, orphaned |-> FALSE, query |-> NoQuery,
   health |-> "", kinds |-> {}, selected |-> None]

MinFitScale == 55
FitCap == 140
DrawerWidth == 400

Selected(t) == t.page.selected
Nodes(t) == ToSet(t.canvas.layout.nodes)
Empty(t) == t.canvas.layout.w = 0

-----------------------------------------------------------------------------
(* The camera. anim is the target in flight, frame the fit asked of the    *)
(* next frame, pending the selection fit that waits for the drawer. aim is *)
(* the resource whose selection fit nothing has disturbed yet, missed says *)
(* that a resize came without a clamp.                                     *)
View(t) == [w |-> t.screen.w, h |-> t.screen.h, inset |-> t.screen.inset]

Clamped(t, c) ==
  LET size == [w |-> Scaled(t.canvas.layout.w, c.scale), h |-> Scaled(t.canvas.layout.h, c.scale)]
      pan == ClampPan(c.tx, c.ty, size, View(t))
  IN  IF Empty(t) THEN c ELSE [scale |-> c.scale, tx |-> pan.tx, ty |-> pan.ty]
Moved(t, c) == [t EXCEPT !.camera = Clamped(t, c), !.motion.missed = FALSE]
AnimateTo(t, target, aim) == [t EXCEPT !.motion.anim = <<target>>, !.motion.aim = aim]
CancelAnimation(t) == [t EXCEPT !.motion.anim = None, !.motion.aim = None]
NextFrame(t, task, aim) == [t EXCEPT !.motion.frame = task, !.motion.aim = aim]

SizeCap(b) == SelectionMaxScale(b.maxX - b.minX, b.maxY - b.minY)
LayoutBox(t) == [minX |-> 0, minY |-> 0, maxX |-> t.canvas.layout.w, maxY |-> t.canvas.layout.h]
LitNodes(t) == {n \in Nodes(t) : ~NodeFaded(t.page, t.canvas.hover, n.id)}
FitLit(t, lit) == FitBox(BoundingBox(lit), View(t), FitCap, 92)
FitOne(t, box) == LET b == BoundingBox({box}) IN FitBox(b, View(t), SizeCap(b), 100)
FitWhole(t) == FitBoxFloored(LayoutBox(t), View(t), FitCap, MinFitScale, [x |-> 0, y |-> 0])

(* The selection fit runs when the drawer has taken its width. On a phone  *)
(* the drawer covers the canvas, and the fit waits for ever.               *)
RunSelFit(t) ==
  IF t.motion.pending = {} \/ t.screen.w >= t.screen.full THEN t
  ELSE LET Fitted(todo) == FitBoxFloored(todo.box, View(t), SizeCap(todo.box), MinFitScale, todo.focus)
       IN  AnimateTo([t EXCEPT !.motion.pending = {}], Fitted(CHOOSE p \in t.motion.pending : TRUE), t.motion.aim)

(* An expanded row is fitted by its width, and from its top when too tall. *)
RowAt(v, row, availH, scale) ==
  [scale |-> scale, tx |-> v.w \div 2 - Scaled(row.x + row.w \div 2, scale),
   ty |-> IF Scaled(row.h, scale) <= availH - 2 * FitPadding
          THEN v.inset + availH \div 2 - Scaled(row.y + row.h \div 2, scale)
          ELSE v.inset + FitPadding - Scaled(row.y, scale)]
RowTarget(v, row) ==
  RowAt(v, row, Most(1, v.h - v.inset),
        Most(MinFitScale, Least(120, (100 * (v.w - 2 * FitPadding)) \div row.w)))
IsExpanded(t, row) == <<"host", row.host, "">> \in t.canvas.expanded
FitRow(t, row, aim) ==
  IF IsExpanded(t, row) THEN NextFrame(t, <<"to", RowTarget(View(t), row)>>, None)
  ELSE NextFrame(t, <<"box", CapRowBox(row)>>, aim)

-----------------------------------------------------------------------------
(* The effects. A selection behind a closed pill is unfolded, by the first *)
(* pill that covers it; unfolding may put it behind another.               *)
\* A slip: what a pill drags along is not looked for.
ToOpenDirect(p, c) ==
  LET pills == SelectSeq(c.layout.nodes, LAMBDA n : \E m \in n.fold : p.selected \in ToSet(m.hidden))
  IN  IF p.selected = None \/ p.selected \in Cards(c.layout) \/ pills = <<>> THEN {} ELSE {pills[1].id}
ToOpen(p, c) ==
  LET pills == SelectSeq(c.layout.nodes, LAMBDA n : \E m \in n.fold : Covers(m, p.selected))
  IN  IF p.selected = None \/ p.selected \in Cards(c.layout) \/ pills = <<>> THEN {} ELSE {pills[1].id}
Relaid(p, c, expanded, stale) ==
  IF expanded = c.expanded /\ ~stale THEN c
  ELSE [c EXCEPT !.expanded = expanded, !.layout = Layout(p, expanded)]
AutoExpand(p, c, expanded, stale) ==
  FoldLeft(LAMBDA d, first : Relaid(p, d, IF first THEN expanded ELSE d.expanded \cup ToOpen(p, d), first /\ stale),
           c, <<TRUE, FALSE, FALSE, FALSE>>)

(* Fit everything once the data of a new scope is here, or when the lens   *)
(* restructures the layout, unless a selection owns the camera.            *)
FitKey(p) == <<p.groupBy, p.rels, p.orphaned>>
\* A slip: the graph of the old scope is taken for fresh.
OwedAtOnce(f, p) ==
  IF p.scope # f.scope \/ FitKey(p) # f.key
  THEN [f EXCEPT !.scope = p.scope, !.key = FitKey(p), !.pending = TRUE, !.fresh = TRUE]
  ELSE f
Owed(f, p) ==
  IF p.scope # f.scope
  THEN [f EXCEPT !.scope = p.scope, !.key = FitKey(p), !.pending = TRUE, !.fresh = FALSE]
  ELSE IF FitKey(p) # f.key
  THEN [f EXCEPT !.key = FitKey(p), !.pending = TRUE, !.fresh = TRUE]
  ELSE f
FitDone(t, first) ==
  LET done == [t EXCEPT !.fit.pending = FALSE]
  IN  IF Selected(t) # None THEN done
      ELSE IF first THEN Moved([done EXCEPT !.fit.first = FALSE], FitWhole(t))
      ELSE AnimateTo(done, FitWhole(t), None)
FitEffect(t) ==
  LET f == Owed(t.fit, t.page)
  IN  IF Empty(t) THEN [t EXCEPT !.fit = [f EXCEPT !.fresh = TRUE]]
      ELSE IF ~f.pending \/ ~f.fresh THEN [t EXCEPT !.fit = f]
      ELSE FitDone([t EXCEPT !.fit = f], f.first)

(* A new selection is framed: its bar or row in the Nodes view, else it    *)
(* and what it relates to, once the drawer is there. seen is the layout    *)
(* the effect reads: before or after the selection was unfolded.           *)
SelFitRow(t, row, i) ==
  LET bars == IF row.expanded THEN CapBulletFitBox(row, i) ELSE {}
  IN  IF bars = {} THEN FitRow(t, row, i) ELSE NextFrame(t, <<"box", CHOOSE b \in bars : TRUE>>, i)
\* A slip: the fit is left to the drawer.
SelFitWaits(t, inSet, own) ==
  IF inSet = {} THEN t
  ELSE [t EXCEPT !.motion.pending = {[box |-> BoundingBox(inSet), focus |-> [x |-> 0, y |-> 0]]}]
SelFitRelated(t, inSet, own) ==
  LET Middle(box) == IF own = {} THEN [x |-> (box.minX + box.maxX) \div 2, y |-> (box.minY + box.maxY) \div 2]
                     ELSE LET n == CHOOSE m \in own : TRUE IN [x |-> n.x, y |-> n.y]
      Todo(box) == {[box |-> box, focus |-> Middle(box)]}
  IN  IF inSet = {} THEN t
      ELSE NextFrame([t EXCEPT !.motion.pending = Todo(BoundingBox(inSet))], <<"sel">>,
                     IF own = {} THEN None ELSE Selected(t))
SelEffect(t, seen) ==
  LET i == Selected(t)
      rows == CapRowFor(t.page, seen, i)
      InSet(related) == {n \in ToSet(seen.nodes) : related.on /\ n.id \in related.nodes}
  IN  IF seen.w = 0 THEN t
      ELSE IF i = None THEN [t EXCEPT !.motion.pending = {}]
      ELSE IF rows # {} THEN SelFitRow(t, CHOOSE r \in rows : TRUE, i)
      ELSE SelFitRelated(t, InSet(Related(t.page, t.canvas.hover)), {n \in ToSet(seen.nodes) : n.id = i})

(* A health or kind filter frames what it lights; when that is too wide to *)
(* read, the most troubled of it. Clearing the filters frames nothing.     *)
FrameLit(t, lit, target) ==
  LET Worst(ordered) ==
        IF ordered = <<>> THEN t
        ELSE NextFrame(t, <<"to", FitOne(t, CHOOSE n \in lit : n.id = ordered[1])>>, None)
  IN  IF target.scale >= MinFitScale THEN NextFrame(t, <<"to", target>>, None)
      ELSE Worst(OrderedForNav(t.page, t.page.nodes \cap {n.id : n \in lit}))
FilterEffect(t) ==
  LET Frame(lit) == IF lit = {} THEN t ELSE FrameLit(t, lit, FitLit(t, lit))
  IN  IF Selected(t) # None \/ Empty(t) \/ (t.page.health = "" /\ t.page.kinds = {}) THEN t
      ELSE Frame(LitNodes(t))

(* A setter and all its effects, from t to the page p. late: the selection *)
(* fit runs before the effect that unfolds, on the layout there was; the   *)
(* order depends on which of the two last ran alone.                       *)
LayoutInputs(p) ==
  IF p.groupBy = "nodes" THEN <<"nodes", p.feed, p.sick>>
  ELSE <<p.groupBy, p.nodes, p.edges, p.sick, p.rels, p.orphaned, p.health>>
Drawn(t, p, canv) ==
  [t EXCEPT !.page = p, !.canvas.expanded = canv.expanded, !.canvas.layout = canv.layout,
            !.motion.aim = IF canv.layout = t.canvas.layout THEN @ ELSE None]
AfterSelection(t, u, late) ==
  IF Selected(u) = Selected(t) THEN u ELSE SelEffect(u, IF late THEN t.canvas.layout ELSE u.canvas.layout)
AfterFilter(t, u) ==
  IF <<u.page.health, u.page.kinds>> = <<t.page.health, t.page.kinds>> THEN u ELSE FilterEffect(u)
\* A slip: a new layout does not move the camera back over it.
AfterLayoutUnclamped(t, u, stale) == u
AfterLayout(t, u, stale) == IF ~stale /\ u.canvas.layout = t.canvas.layout THEN u ELSE Moved(u, u.camera)
Effects(t, u, late, stale) ==
  AfterLayout(t, AfterFilter(t, AfterSelection(t, FitEffect(u), late)), stale)
Updated(t, p, expanded, late) ==
  LET stale == expanded # t.canvas.expanded \/ LayoutInputs(p) # LayoutInputs(t.page)
  IN  Effects(t, Drawn(t, p, AutoExpand(p, t.canvas, expanded, stale)), late, stale)

SetPage(t, p) == Updated(t, p, t.canvas.expanded, FALSE)
Set(t, field, value) == SetPage(t, [t.page EXCEPT ![field] = value])
Select(t, i) == Set(t, "selected", i)
Toggle(t, key) == ToggleInSet(t.canvas.expanded, key, FALSE)

(* Clear: three setters, one after the other. *)
Unfiltered(t) == Set(Set(Set(t, "query", NoQuery), "health", ""), "kinds", {})

(* A selection by key may be folded: then the order of the effects counts. *)
SelectByKey(t, i) ==
  \E late \in IF i \in Cards(t.canvas.layout) THEN {FALSE} ELSE BOOLEAN :
    Become(Updated(t, [t.page EXCEPT !.selected = i], t.canvas.expanded, late))

-----------------------------------------------------------------------------
(* What the operator clicks. A press stops the camera, and its release on  *)
(* anything but a card or a pill deselects: rows, bars and bands, too.     *)
Press(t) == CancelAnimation(t)
OnBackground(t) == IF Selected(t) = None THEN Press(t) ELSE Select(Press(t), None)
Clicked == OnBackground(Now)
InCards == page.groupBy # "nodes"

ClickCard ==
  \E i \in Cards(canvas.layout) :
    /\ InCards /\ Spend("clicks")
    /\ Become(IF i = page.selected THEN [Press(Now) EXCEPT !.canvas.timer = TRUE] ELSE Select(Press(Now), i))
DblClickCard ==
  \E i \in Cards(canvas.layout) :
    /\ InCards /\ Spend("clicks")
    /\ Become(Select([Press(Now) EXCEPT !.canvas.timer = FALSE], i))
TimerFires ==
  /\ canvas.timer
  /\ Become(Select([Now EXCEPT !.canvas.timer = FALSE], None))
  /\ UNCHANGED world

TogglePill ==
  \E m \in Pills(canvas.layout), pointer \in BOOLEAN :
    /\ Spend("clicks")
    /\ Become(Updated(IF pointer THEN Press(Now) ELSE Now, page, Toggle(Now, m.key), FALSE))

(* Rows, by pointer or by key; a row without a pod does not toggle. *)
ToggleRow ==
  \E row \in CapRows(page, canvas.layout), pointer \in BOOLEAN :
    LET After(t) == CHOOSE r \in CapRows(t.page, t.canvas.layout) : r.host = row.host
        Toggled(t) == Updated(t, t.page, Toggle(t, <<"host", row.host, "">>), FALSE)
        Framed(t) == FitRow(t, After(t), None)
    IN  /\ row.pods # {} /\ Spend("clicks")
        /\ Become(Framed(Toggled(IF pointer THEN Clicked ELSE Now)))
(* The release has deselected when the click on a row's part arrives. *)
Reselect(i) == Select(Select(Press(Now), None), i)
ClickSegment ==
  \E row \in CapRows(page, canvas.layout) :
    \E i \in {s.id : s \in ToSet(row.useBar.segs) \cup ToSet(row.reqBar.segs)}
               \cup (IF row.host = Unscheduled THEN {} ELSE {NodeOf(row.host)}) :
      Spend("clicks") /\ Become(Reselect(i))
ClickBullet ==
  \E row \in CapRows(page, canvas.layout) : \E i \in {b.id : b \in ToSet(row.bullets)} :
    /\ Spend("clicks")
    /\ \E box \in CapBulletFitBox(row, i) : Become(NextFrame(Reselect(i), <<"box", box>>, i))
ClickBand ==
  \E g \in ToSet(Groups(page, canvas.layout)) :
    /\ Spend("clicks")
    /\ Become(Set(Select(Press(Now), None), "kinds", ToggleInSet(page.kinds, g.kind, TRUE)))
ClickBackground == Spend("clicks") /\ Become(Clicked)

(* The second click has deselected, so only the filters steer this fit. *)
Refit(t, whole) ==
  LET Lit(lit) == AnimateTo(t, IF lit = {} THEN whole ELSE FitLit(t, lit), None)
  IN  IF Empty(t) THEN t ELSE Lit(IF Filtered(t.page) THEN LitNodes(t) ELSE {})
DblClickBackground ==
  LET Reset(t) == Refit(t, FitWhole(t))
  IN  Spend("clicks") /\ Become(Reset(Clicked))
FitAll ==
  /\ page.nodes # {} /\ Spend("clicks")
  /\ Become(Refit(Now, FitBox(LayoutBox(Now), View(Now), FitCap, 100)))
FrameMatches ==
  LET Frame(lit) == IF lit = {} THEN Now ELSE AnimateTo(Now, FitLit(Now, lit), None)
  IN  /\ Filtered(page) /\ FilterMatches(page) # {} /\ Spend("clicks")
      /\ Become(Frame(LitNodes(Now)))

(* Keys: arrows, Enter in the search, and the host chip of the drawer. *)
ArrowKey ==
  \E dir \in {1, -1} : Spend("clicks") /\ SelectByKey(Now, NextSelection(page, dir))
EnterKey ==
  \E dir \in {1, -1} :
    /\ page.query.on /\ Matches(page) # {}
    /\ Spend("clicks") /\ SelectByKey(Now, NextMatch(page, dir))
GoToNode ==
  LET host == page.feed.facts.host[page.selected]
      Node(t) == IF NodeOf(host) \in page.feed.nodes THEN SelectByKey(t, NodeOf(host)) ELSE Become(t)
  IN  /\ page.selected \in page.feed.nodes /\ IsPod(page.selected) /\ host # Unscheduled
      /\ Spend("clicks")
      /\ Node(Set(Now, "groupBy", "nodes"))
EscapeKey ==
  /\ Spend("clicks")
  /\ Become(IF page.selected # None THEN Select(Now, None)
            ELSE IF Filtered(page) THEN Unfiltered(Now) ELSE Now)

-----------------------------------------------------------------------------
(* The lenses: what is grouped, drawn and lit. *)
GroupBy ==
  \E g \in {"kind", "nodes", "relationship"} :
    Spend("lenses") /\ Become(Set(Now, "groupBy", g))
ToggleRel ==
  \E c \in DOMAIN Categories, solo \in BOOLEAN :
    /\ IsRelGrouping(page) /\ \E j \in DOMAIN page.edges : page.edges[j].type \in Categories[c]
    /\ Spend("lenses")
    /\ Become(SetPage(Now, [page EXCEPT !.rels = ToggleInSet(@, c, solo)]))
ShowOrphaned ==
  /\ IsRelGrouping(page) /\ Spend("lenses")
  /\ Become(SetPage(Now, [page EXCEPT !.orphaned = ~@]))
Search ==
  \E q \in world.queries : Spend("lenses") /\ Become(Set(Now, "query", q))
HealthFilter ==
  \E h \in {"Degraded", "Healthy"} :
    /\ HealthCount(page, h) > 0 /\ Spend("lenses")
    /\ Become(SetPage(Now, [page EXCEPT !.health = IF @ = h THEN "" ELSE h]))
KindFilter ==
  \E k \in ToSet(Kinds), solo \in BOOLEAN :
    /\ KindCount(canvas.layout, k) > 0 /\ Spend("lenses")
    /\ Become(SetPage(Now, [page EXCEPT !.kinds = ToggleInSet(@, k, solo)]))
Clear == Filtered(page) /\ Spend("lenses") /\ Become(Unfiltered(Now))
Home ==
  /\ Spend("lenses")
  /\ Become(Select(Unfiltered(Set(Set(Now, "groupBy", "relationship"), "rels", {"ownership"})), None))

-----------------------------------------------------------------------------
(* The hand on the canvas: hover, pan, flick, zoom about a point. *)
Hover ==
  \E i \in IF InCards THEN Cards(canvas.layout) ELSE {} :
    Spend("moves") /\ Become([Now EXCEPT !.canvas.hover = i])
CapHover ==
  \E row \in CapRows(page, canvas.layout) :
    \E key \in {s.id : s \in ToSet(row.useBar.segs)} \cup {<<m, row.host, "">> : m \in {"small", "other", "overhead"}} :
      Spend("moves") /\ Become([Now EXCEPT !.canvas.capHover = key])
Unhover ==
  /\ canvas.hover # None \/ canvas.capHover # None
  /\ Become([Now EXCEPT !.canvas.hover = None, !.canvas.capHover = None])
  /\ UNCHANGED world

Panned(t, dx, dy) ==
  Moved(CancelAnimation(t), [t.camera EXCEPT !.tx = @ + dx, !.ty = @ + dy])
Pan ==
  \E d \in world.pans, flick \in BOOLEAN :
    LET t == Panned(Now, d[1], d[2])
        far == [t.camera EXCEPT !.tx = @ + d[1], !.ty = @ + d[2]]
    IN  Spend("moves") /\ Become(IF flick THEN AnimateTo(t, far, None) ELSE t)
Zoom ==
  \E factor \in {50, 200}, at \in world.pans :
    LET About(m, t, s) == m - ((m - t) * s) \div camera.scale
        Scale(b) == Least(Most(Scaled(camera.scale, factor), b.min), b.max)
        Zoomed(s) == [scale |-> s, tx |-> About(at[1], camera.tx, s), ty |-> About(at[2], camera.ty, s)]
        bounds == ZoomScaleBounds([w |-> canvas.layout.w, h |-> canvas.layout.h],
                                  [w |-> NodeWidth, h |-> NodeHeight], View(Now))
    IN  /\ ~Empty(Now) /\ Spend("moves")
        /\ Become(Moved(CancelAnimation(Now), Zoomed(Scale(bounds))))
Resize ==
  \E size \in world.sizes :
    LET w == IF screen.w < screen.full THEN size[1] - DrawerWidth ELSE size[1]
    IN  /\ size # <<screen.full, screen.h>> /\ Spend("moves")
        /\ Become([Now EXCEPT !.screen.full = size[1], !.screen.h = size[2], !.screen.w = w,
                              !.screen.resized = TRUE, !.motion.aim = IF motion.pending = {} THEN None ELSE @])

-----------------------------------------------------------------------------
(* The frames. The drawer takes its width some frames after the selection, *)
(* and the canvas hears of a new size a frame later.                       *)
DrawerEdge(t) == IF Selected(t) = None \/ t.screen.phone THEN t.screen.full ELSE t.screen.full - DrawerWidth
Reflow ==
  /\ screen.w # DrawerEdge(Now)
  /\ Become([Now EXCEPT !.screen.w = DrawerEdge(Now), !.screen.resized = TRUE,
                        !.motion.aim = IF motion.pending = {} THEN None ELSE @])
  /\ UNCHANGED world
ResizeFrame ==
  LET t == [Now EXCEPT !.screen.resized = FALSE]
  IN  /\ screen.resized
      /\ Become(IF motion.pending # {} THEN RunSelFit([t EXCEPT !.motion.missed = TRUE])
                ELSE IF motion.anim # None THEN [t EXCEPT !.motion.missed = TRUE]
                ELSE Moved(t, camera))
      /\ UNCHANGED world
FitFrame ==
  LET t == [Now EXCEPT !.motion.frame = None]
      task == motion.frame
  IN  /\ task # None
      /\ Become(IF task[1] = "sel" THEN RunSelFit(t)
                ELSE AnimateTo(t, IF task[1] = "to" THEN task[2] ELSE FitOne(t, task[2]), motion.aim))
      /\ UNCHANGED world
Animate ==
  /\ motion.anim # None
  /\ Become([Moved(Now, motion.anim[1]) EXCEPT !.motion.anim = None])
  /\ UNCHANGED world

-----------------------------------------------------------------------------
(* What the stream brings. A snapshot sets the graph, and only then keeps, *)
(* drops or adopts the selection; the capacity feed comes by itself.       *)
WithGraph(p, g) == [p EXCEPT !.nodes = g.nodes, !.edges = g.edges, !.sick = g.sick]
Known(p) == p.nodes \cup p.feed.nodes
Snapshot ==
  \E g \in world.versions[page.scope] :
    LET kept == IF page.selected # None /\ page.selected \in Known(WithGraph(page, g)) THEN page.selected
                ELSE IF world.link \in Known(WithGraph(page, g)) THEN world.link ELSE None
    IN  /\ IF world.awaits THEN g = world.now[page.scope] ELSE world.left["changes"] > 0
        /\ Become(Select(SetPage(Now, WithGraph(page, g)), kept))
        /\ world' = [world EXCEPT !.awaits = FALSE, !.now[page.scope] = g,
                                  !.link = IF kept = @ THEN None ELSE @,
                                  !.left["changes"] = IF world.awaits THEN @ ELSE @ - 1]
Patch ==
  \E g \in world.versions[page.scope] :
    /\ ~world.awaits /\ g # world.now[page.scope] /\ world.left["changes"] > 0
    /\ Become(SetPage(Now, WithGraph(page, g)))
    /\ world' = [world EXCEPT !.now[page.scope] = g, !.left["changes"] = @ - 1]
CapacityFrame ==
  \E feed \in world.feeds[page.scope] :
    /\ feed # page.feed
    /\ IF page.feed.nodes = {} THEN UNCHANGED world ELSE Spend("changes")
    /\ Become(Set(Now, "feed", feed))

(* Another context or namespace, or the same one again: everything empties *)
(* at once, but the effects may first see the old graph in the new scope.  *)
Subscribe ==
  \E s \in DOMAIN world.now, stale \in BOOLEAN :
    LET t == IF stale THEN Set(Now, "scope", s) ELSE Now
        emptied == [t.page EXCEPT !.scope = s, !.nodes = {}, !.edges = <<>>, !.sick = {}, !.feed = NoFeed,
                                  !.query = NoQuery, !.health = "", !.kinds = {},
                                  !.selected = IF s[1] = page.scope[1] THEN @ ELSE None]
    IN  /\ stale => s # page.scope
        /\ world.left["lenses"] > 0
        /\ world' = [world EXCEPT !.awaits = TRUE, !.left["lenses"] = @ - 1]
        /\ Become(SetPage(t, emptied))

-----------------------------------------------------------------------------
Init ==
  \E s \in Starts :
    /\ page = [EmptyPage(s.scope) EXCEPT !.groupBy = s.groupBy, !.rels = s.rels]
    /\ canvas = [expanded |-> {}, layout |-> Layout(page, {}), hover |-> None, capHover |-> None,
                 timer |-> FALSE]
    /\ camera = [scale |-> 100, tx |-> 0, ty |-> 0]
    /\ motion = [anim |-> None, frame |-> None, pending |-> {}, aim |-> None, missed |-> FALSE]
    /\ fit = [scope |-> s.scope, key |-> FitKey(page), pending |-> TRUE, first |-> TRUE, fresh |-> TRUE]
    /\ screen = [full |-> s.size[1], w |-> s.size[1], h |-> s.size[2], inset |-> s.inset,
                 phone |-> s.phone, resized |-> FALSE]
    /\ world = [now |-> s.now, versions |-> s.versions, feeds |-> s.feeds, queries |-> s.queries,
                pans |-> s.pans, sizes |-> s.sizes, link |-> s.link, awaits |-> TRUE, left |-> s.left]

Acts == \/ ClickCard \/ DblClickCard \/ TogglePill \/ ToggleRow \/ ClickSegment \/ ClickBullet
        \/ ClickBand \/ ClickBackground \/ DblClickBackground \/ FitAll \/ FrameMatches
        \/ ArrowKey \/ EnterKey \/ GoToNode \/ EscapeKey
Looks == \/ GroupBy \/ ToggleRel \/ ShowOrphaned \/ Search \/ HealthFilter \/ KindFilter \/ Clear \/ Home
         \/ Hover \/ CapHover \/ Unhover \/ Pan \/ Zoom \/ Resize
Hears == Snapshot \/ Patch \/ CapacityFrame \/ Subscribe
Ticks == Reflow \/ ResizeFrame \/ FitFrame \/ Animate \/ TimerFires

Next == Acts \/ Looks \/ Hears \/ Ticks

Spec == Init /\ [][Next]_vars

-----------------------------------------------------------------------------
(* The state is what the variables say: a camera within the zoom's reach,  *)
(* tasks and targets of their kinds, sizes in pixels, and none for the     *)
(* layout of a graph that is not there.                                    *)
Camera == [scale : 1..300, tx : Int, ty : Int]
NoGraph(t) == (IF t.page.groupBy = "nodes" THEN t.page.feed.nodes ELSE t.page.nodes) = {}
TypeOK ==
  /\ camera \in Camera
  /\ motion.anim # None => motion.anim[1] \in Camera
  /\ motion.frame # None => motion.frame[1] \in {"sel", "to", "box"}
  /\ Cardinality(motion.pending) <= 1
  /\ screen.w \in {screen.full, screen.full - DrawerWidth}
  /\ {screen.w, screen.h, screen.inset} \subseteq Int
  /\ {canvas.layout.w, canvas.layout.h} \subseteq Nat
  /\ NoGraph(Now) => Empty(Now)
  /\ page.sick \cap page.nodes = page.sick \cap Known(page)

(* Every resource the lens shows is on the canvas once or behind a closed  *)
(* pill, never both, and nothing else is (collapse.ts, hubs.ts, kind.ts).  *)
Shown(p) == CASE p.groupBy = "nodes" -> CapacityShown(p)
              [] p.groupBy = "kind"  -> p.nodes
              [] OTHER               -> VisibleNodes(p)
ClosedPills == {m \in Pills(canvas.layout) : ~m.open}
Behind == UNION {ToSet(m.hidden) \cup m.below : m \in ClosedPills}
NothingLost ==
  /\ Cards(canvas.layout) \cup Behind = Shown(page)
  /\ Cards(canvas.layout) \cap Behind = {}
  /\ \A i, j \in DOMAIN canvas.layout.nodes :
       canvas.layout.nodes[i].id = canvas.layout.nodes[j].id => i = j

(* No two boxes overlap, all lie inside the size that the camera clamps    *)
(* to, an edge leaves its first card and enters its second, and a frame    *)
(* around a fold keeps off the cards of others.                            *)
Apart(m, n) == \/ RightOf(m) <= LeftOf(n) \/ RightOf(n) <= LeftOf(m)
               \/ BottomOf(m) <= TopOf(n) \/ BottomOf(n) <= TopOf(m)
BoxesApart ==
  InCards =>
    LET layout == canvas.layout
        nodes == layout.nodes
        Touches(n, pt) == pt[1] \in LeftOf(n)..RightOf(n) /\ pt[2] \in TopOf(n)..BottomOf(n)
    IN  /\ \A i \in DOMAIN nodes :
             /\ LeftOf(nodes[i]) >= 0 /\ RightOf(nodes[i]) <= layout.w
             /\ TopOf(nodes[i]) >= 0 /\ BottomOf(nodes[i]) <= layout.h
             /\ \A j \in 1..(i - 1) : Apart(nodes[i], nodes[j])
        /\ \A e \in ToSet(layout.edges) :
             /\ Touches(PlacedAt(nodes, e.from), e.points[1])
             /\ Touches(PlacedAt(nodes, e.to), e.points[Len(e.points)])
        /\ \A f \in ConnGroups(layout), j \in DOMAIN nodes :
             nodes[j].group # f.key =>
               \/ RightOf(nodes[j]) <= f.minX \/ f.maxX <= LeftOf(nodes[j])
               \/ BottomOf(nodes[j]) <= f.minY \/ f.maxY <= TopOf(nodes[j])

(* The numbers on chips and pills are those of the resources they promise: *)
(* a kind's chip counts its resources (more, when two pills hide one), a   *)
(* health's pill what clicking it matches, and what is lit is what matches *)
(* (but for a search beside a health filter, where search alone lights).   *)
Covering(i) == {m \in Pills(canvas.layout) : Covers(m, i)}
Twice(i) == Cardinality(Covering(i)) > 1
HonestCounts ==
  /\ \A k \in ToSet(Kinds) :
       LET all == OfKind(Shown(page), k)
           n == KindCount(canvas.layout, k)
       IN  IF \E i \in all : Twice(i) THEN n >= Cardinality(all) ELSE n = Cardinality(all)
  /\ InCards =>
       /\ \A h \in {"Degraded", "Healthy"} :
            HealthCount(page, h)
              = Cardinality(FilterMatches([page EXCEPT !.health = h, !.query = NoQuery, !.kinds = {}]))
       /\ Filtered(page) /\ page.selected = None /\ ~(page.query.on /\ page.health # "") =>
            {i \in Cards(canvas.layout) : ~NodeFaded(page, None, i)}
              = FilterMatches(page) \cap Cards(canvas.layout)

(* Whatever selects it, a resource the lens shows has its card on the      *)
(* canvas (collapseState.ts); one that two pills hide may stay behind one. *)
SelectionShown ==
  page.selected \in Shown(page) =>
    page.selected \in Cards(canvas.layout) \/ Twice(page.selected)

(* "Show me what is Degraded" reaches all of it: on the canvas and lit, or *)
(* behind a pill that says so and whose fold shows nothing but trouble.    *)
(* What a pill drags along below its own group is not counted by it.       *)
TriageReaches ==
  InCards /\ page.health = "Degraded" /\ ~page.query.on /\ page.kinds = {} =>
    \A i \in page.nodes \cap page.sick :
      \/ i \in Cards(canvas.layout) /\ ~NodeFaded(page, canvas.hover, i)
      \/ \E m \in ClosedPills :
           /\ i \in ToSet(m.hidden)
           /\ ~PillFaded(page, m)
           /\ Cardinality({n \in Nodes(Now) : /\ n.fold = {} /\ n.id[3] = i[3]
                                              /\ n.id \in page.sick}) >= FoldVisible
      \/ \E m \in ClosedPills : i \in m.below

(* The rows of the Nodes view hold each pod of the feed once; a bar shows  *)
(* each pod of the namespace once, end to end; rows keep off each other,   *)
(* and their demand is that of all their pods.                             *)
CapacityAdds ==
  LET rows == IF InCards THEN <<>> ELSE canvas.layout.rows
      facts == page.feed.facts
      Whole(row, bar, own) ==
        /\ {g.id : g \in ToSet(bar.segs)} \cup bar.folded = own
        /\ {g.id : g \in ToSet(bar.segs)} \cap bar.folded = {}
        /\ Len(bar.segs) + Cardinality(bar.folded) = Cardinality(own)
        /\ \A j \in 2..Len(bar.segs) : bar.segs[j].x = bar.segs[j - 1].x + bar.segs[j - 1].w
        /\ bar.endX <= row.x + row.w
  IN  /\ UNION {rows[j].pods : j \in DOMAIN rows} = {i \in (IF InCards THEN {} ELSE page.feed.nodes) : IsPod(i)}
      /\ \A j \in DOMAIN rows :
           LET row == rows[j]
           IN  /\ \A k \in 1..(j - 1) : row.pods \cap rows[k].pods = {} /\ rows[k].y + rows[k].h < row.y
               /\ row.y + row.h <= canvas.layout.h /\ row.x + row.w <= canvas.layout.w
               /\ Whole(row, row.useBar, row.own)
               /\ Whole(row, row.reqBar, {p \in row.own : facts.req[p] # NotSet})
               /\ row.expanded => {b.id : b \in ToSet(row.bullets)} = row.own
               /\ \A b \in ToSet(row.bullets) : b.y >= row.y /\ b.y + b.h <= row.y + row.h
               /\ row.reqSum = MapThenSumSet(LAMBDA p : ReqOf(facts, p), row.pods)

-----------------------------------------------------------------------------
(* The layout never leaves the frame: whatever changed it, or the size of  *)
(* the canvas, the camera is one that the clamp would leave alone (but for *)
(* a resize whose clamp gave way to a fit, in flight or not come).         *)
InFrame == ~screen.resized /\ ~motion.missed => Clamped(Now, camera) = camera

(* Once its fit has landed, and nothing else has moved the camera since,   *)
(* the selected card, or its bar in an expanded row, is in the view.       *)
Focus(i) ==
  LET bars == UNION {CapBulletFitBox(r, i) : r \in CapRowFor(page, canvas.layout, i)}
  IN  IF bars # {} THEN CHOOSE b \in bars : TRUE ELSE PlacedAt(canvas.layout.nodes, i)
SelectionInView ==
  /\ motion.aim # None /\ motion.aim = page.selected
  /\ motion.anim = None /\ motion.frame = None /\ motion.pending = {}
  => LET at == Focus(page.selected)
     IN  /\ camera.tx + Scaled(at.x, camera.scale) \in 0..screen.w
         /\ camera.ty + Scaled(at.y, camera.scale) \in screen.inset..screen.h

(* What is lit belongs together: a lit edge joins lit cards (a kind filter *)
(* beside a selection lights more edges than cards); of the cards' edges   *)
(* the accented ones are the lit ones; in the Nodes view all but what is   *)
(* hovered recedes, a thing with its row or by itself but never twice; and *)
(* a canvas with nothing lit, or nothing on it, says why, unless its       *)
(* subject is a hidden orphan or a feed is missing.                        *)
LitTogether ==
  LET Lit(i) == ~NodeFaded(page, canvas.hover, i)
      subject == Subject(page, canvas.hover)
  IN  /\ \A e \in RenderedEdges(page, canvas.layout) :
           \/ EdgeFaded(page, canvas.hover, e)
           \/ page.kinds # {} /\ subject # None
           \/ \A i \in {e.from, e.to} \cap Cards(canvas.layout) : Lit(i)
      /\ ~Filtered(page) /\ IsRelGrouping(page) /\ subject \in page.nodes =>
           \A e \in RenderedEdges(page, canvas.layout) :
             IsPill(e.to) \/ EdgeAdjacent(page, canvas.hover, e) = ~EdgeFaded(page, canvas.hover, e)
      /\ \A row \in CapRows(page, canvas.layout) :
           LET Recedes(thing, itself) ==
                 canvas.capHover # thing <=> CapRowFaded(page, canvas.capHover, row.host) # itself
           IN  canvas.capHover # None /\ row.host # Unscheduled =>
                 /\ \A g \in ToSet(row.useBar.segs) : Recedes(g.id, CapSegFaded(page, canvas.capHover, g.id))
                 /\ \A m \in {<<k, row.host, "">> : k \in {"small", "other"}} :
                      Recedes(m, CapAggFaded(page, canvas.capHover, m))
      /\ ~Empty(Now) /\ (\A i \in Cards(canvas.layout) : ~Lit(i)) =>
           \/ FilteredOut(page, canvas.layout, canvas.hover) \/ page.nodes = {}
           \/ subject \in page.nodes \ Cards(canvas.layout)
      /\ Empty(Now) /\ page.nodes # {} => AllOrphaned(page) \/ ~InCards

(* A new scope is always fitted: the fit it is owed is not spent while the *)
(* old graph is still drawn in the new scope, but on data that came later. *)
ScopeIsOwed  == [][page'.scope # page.scope => fit'.pending]_vars
FitsDrawn    == [][fit.pending /\ ~fit'.pending => canvas'.layout.w > 0]_vars
FitsNewScope == ScopeIsOwed /\ FitsDrawn

(* A selection fit that waits for the drawer is on its way: its frame is   *)
(* asked for, the canvas has yet to hear of its new size, or the drawer    *)
(* has yet to narrow it. It is only overtaken by the fit of a row, in the  *)
(* Nodes view, or of a filter, when nothing is selected any more.          *)
OnItsWay ==
  motion.pending # {} =>
    \/ motion.frame # None /\ motion.frame[1] = "sel"
    \/ screen.resized \/ screen.w >= screen.full
FitComes ==
  [][OnItsWay => OnItsWay' \/ page'.groupBy = "nodes" \/ page'.selected = None]_vars
=============================================================================
