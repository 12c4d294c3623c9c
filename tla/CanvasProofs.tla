---------------------------- MODULE CanvasProofs ----------------------------
(***************************************************************************)
(* What the effects of the canvas do to the camera, to the fit a new scope *)
(* is owed and to a selection fit that waits for the drawer, for every     *)
(* graph, every layout and every order of clicks, frames and messages.     *)
(***************************************************************************)
EXTENDS Canvas, TLAPS

-----------------------------------------------------------------------------
(* What the camera's arithmetic promises for every size of the layout and  *)
(* of the view, from its definitions in Viewport (viewport.ts).            *)

\* Sizes in whole pixels.
Extent(content) == content.w \in Int /\ content.h \in Int
Sized(view) == view.w \in Int /\ view.h \in Int /\ view.inset \in Int

\* A number between two bounds, in the order the code takes it there.
Within(t, lo, hi) == Least(Most(t, lo), hi)

\* Two bounds, put in order.
LEMMA Ordered ==
  ASSUME NEW a \in Int, NEW b \in Int
  PROVE  Least(a, b) \in Int /\ Most(a, b) \in Int /\ Least(a, b) <= Most(a, b)
  BY DEF Least, Most

\* What lies within bounds already stays, whatever it was before.
LEMMA WithinStays ==
  ASSUME NEW x, NEW lo \in Int, NEW hi \in Int, lo <= hi
  PROVE  Within(Within(x, lo, hi), lo, hi) = Within(x, lo, hi)
<1>1. Within(lo, lo, hi) = lo /\ Within(hi, lo, hi) = hi /\ Least(lo, hi) = lo
  BY DEF Within, Least, Most
<1>2. CASE x > lo
  <2>1. CASE x < hi
    BY <1>2, <2>1, Zenon DEF Within, Least, Most
  <2>2. CASE ~(x < hi)
    <3>1. Within(x, lo, hi) = hi
      BY <1>2, <2>2, Zenon DEF Within, Least, Most
    <3> QED BY <1>1, <3>1
  <2> QED BY <2>1, <2>2
<1>3. CASE ~(x > lo)
  <2>1. Most(x, lo) = lo
    BY <1>3, Zenon DEF Most
  <2> QED BY <1>1, <2>1 DEF Within
<1> QED BY <1>2, <1>3

(* clampPan of a clamped pan changes nothing: a camera that was clamped    *)
(* once stays put however often a layout, a frame or a resize clamps it    *)
(* again (viewport.ts:139, and the effect at Topology.tsx:965).            *)
THEOREM ClampStays ==
  ASSUME NEW tx, NEW ty, NEW content, NEW view, Extent(content), Sized(view)
  PROVE  LET c == ClampPan(tx, ty, content, view)
         IN  ClampPan(c.tx, c.ty, content, view) = c
<1> DEFINE xEnd == view.w - FitPadding - content.w
           yEnd == view.h - FitPadding - content.h
           y0 == view.inset + FitPadding
           X(t) == Within(t, Least(FitPadding, xEnd), Most(FitPadding, xEnd))
           Y(t) == Within(t, Least(y0, yEnd), Most(y0, yEnd))
<1>1. xEnd \in Int /\ yEnd \in Int /\ y0 \in Int /\ FitPadding \in Int
  BY DEF FitPadding, Extent, Sized
<1>2. \A t, u : ClampPan(t, u, content, view) = [tx |-> X(t), ty |-> Y(u)]
  BY Zenon DEF ClampPan, Within
<1> HIDE DEF xEnd, yEnd, y0
<1>3. X(X(tx)) = X(tx) /\ Y(Y(ty)) = Y(ty)
  BY <1>1, Ordered, WithinStays
<1> HIDE DEF X, Y
<1> QED BY <1>2, <1>3

(* A clamped pan never leaves empty canvas on both sides of an axis: a     *)
(* content that overflows the padded view covers it, one that fits lies    *)
(* inside it, below the toolbar (viewport.ts:139).                         *)
THEOREM ClampCovers ==
  ASSUME NEW tx \in Int, NEW ty \in Int, NEW content, NEW view, Extent(content), Sized(view)
  PROVE  LET c == ClampPan(tx, ty, content, view)
             left == c.tx
             right == c.tx + content.w
             top == c.ty
             bottom == c.ty + content.h
         IN  /\ content.w >= view.w - 2 * FitPadding =>
                  left <= FitPadding /\ right >= view.w - FitPadding
             /\ content.w <= view.w - 2 * FitPadding =>
                  left >= FitPadding /\ right <= view.w - FitPadding
             /\ content.h >= view.h - view.inset - 2 * FitPadding =>
                  top <= view.inset + FitPadding /\ bottom >= view.h - FitPadding
             /\ content.h <= view.h - view.inset - 2 * FitPadding =>
                  top >= view.inset + FitPadding /\ bottom <= view.h - FitPadding
  BY DEF Extent, Sized, ClampPan, Least, Most, FitPadding

\* A scaled length is a whole number of pixels.
LEMMA ScaledInt ==
  ASSUME NEW x \in Int, NEW scale \in Int
  PROVE  Scaled(x, scale) \in Int
  BY DEF Scaled

\* Division rounds down: a difference of quotients is at most one more.
LEMMA DivDiff ==
  ASSUME NEW a \in Int, NEW b \in Int
  PROVE  /\ (a - b) \div 100 <= (a \div 100) - (b \div 100)
         /\ (a \div 100) - (b \div 100) <= (a - b) \div 100 + 1
  OBVIOUS

\* Two ends that are rounded each by themselves are as far apart as their
\* distance is drawn, or a pixel more.
LEMMA ScaledDiff ==
  ASSUME NEW hi \in Int, NEW lo \in Int, NEW scale \in Int
  PROVE  /\ Scaled(hi - lo, scale) <= Scaled(hi, scale) - Scaled(lo, scale)
         /\ Scaled(hi, scale) - Scaled(lo, scale) <= Scaled(hi - lo, scale) + 1
  <1> DEFINE a == hi * scale
             b == lo * scale
  <1>1. a \in Int /\ b \in Int
    OBVIOUS
  <1>2. (hi - lo) * scale = a - b
    OBVIOUS
  <1> HIDE DEF a, b
  <1>3. /\ (a - b) \div 100 <= (a \div 100) - (b \div 100)
        /\ (a \div 100) - (b \div 100) <= (a - b) \div 100 + 1
    BY <1>1, DivDiff
  <1> QED
    BY <1>2, <1>3 DEF Scaled, a, b

(* The floored fit leaves no empty canvas either: an axis whose box fits   *)
(* shows all of it (to a rounded pixel), one that overflows is covered by  *)
(* the box, wherever the focus is (viewport.ts:119).                       *)
THEOREM AxisCovers ==
  ASSUME NEW start \in Int, NEW size \in Int, NEW lo \in Int, NEW hi \in Int, NEW focus \in Int,
         NEW scale \in Int
  PROVE  LET t == Axis(start, size, lo, hi, focus, scale)
             near == t + Scaled(lo, scale)
             far == t + Scaled(hi, scale)
         IN  IF Scaled(hi - lo, scale) <= size - 2 * FitPadding
             THEN near >= start + FitPadding /\ far <= start + size - FitPadding + 1
             ELSE near <= start + FitPadding /\ far >= start + size - FitPadding
  <1> DEFINE c == Scaled(hi - lo, scale)
             p == Scaled(lo, scale)
             q == Scaled(hi, scale)
             f == Scaled(focus, scale)
  <1>1. c \in Int /\ p \in Int /\ q \in Int /\ f \in Int
    <2>1. hi - lo \in Int
      OBVIOUS
    <2>2. \A x \in Int : Scaled(x, scale) \in Int
      BY ScaledInt
    <2> QED
      BY <2>1, <2>2
  <1>2. c <= q - p /\ q - p <= c + 1
    BY ScaledDiff
  <1>3. Axis(start, size, lo, hi, focus, scale)
          = IF c <= size - 2 * FitPadding
            THEN start + (size - c) \div 2 - p
            ELSE Least(Most(start + size \div 2 - f, start + size - FitPadding - q), start + FitPadding - p)
    BY DEF Axis
  <1> HIDE DEF c, p, q, f
  <1>4. IF c <= size - 2 * FitPadding
        THEN LET t == start + (size - c) \div 2 - p
             IN  t + p >= start + FitPadding /\ t + q <= start + size - FitPadding + 1
        ELSE LET t == Least(Most(start + size \div 2 - f, start + size - FitPadding - q), start + FitPadding - p)
             IN  t + p <= start + FitPadding /\ t + q >= start + size - FitPadding
    BY <1>1, <1>2 DEF Least, Most, FitPadding
  <1> QED
    BY <1>3, <1>4 DEF c, p, q

-----------------------------------------------------------------------------
(* What is lit.                                                            *)

\* The neighbours of a spotlit resource have both ends of its edges.
LEMMA NeighborsHaveEnds ==
  ASSUME NEW i, NEW edges, NEW e, EdgeOf(e) \in SpotlightNeighbors(i, edges).edges
  PROVE  {e.from, e.to} \subseteq SpotlightNeighbors(i, edges).nodes
<1> DEFINE S == SpotlightNeighbors(i, edges)
<1>1. \A d \in S.edges : d.from \in S.nodes /\ d.to \in S.nodes
  BY DEF SpotlightNeighbors
<1>2. EdgeOf(e).from = e.from /\ EdgeOf(e).to = e.to
  BY DEF EdgeOf
<1> QED BY <1>1, <1>2

(* In the relationship view an edge that is lit joins lit cards, whatever  *)
(* is selected, hovered, searched and filtered, and whatever is drawn; but *)
(* for a kind filter beside a selection, which lights more edges than      *)
(* cards (fade.ts, topology/spotlight.ts). LitTogether says so of a run's  *)
(* layouts; here every page and every edge has it.                         *)
THEOREM LitEdgeJoinsLitCards ==
  ASSUME NEW p, IsRelGrouping(p), None \notin p.nodes, NEW hover,
         p.kinds = {} \/ Subject(p, hover) = None,
         NEW e, ~EdgeFaded(p, hover, e), NEW i \in {e.from, e.to}
  PROVE  ~NodeFaded(p, hover, i)
<1>1. CASE p.query.on
  <2>1. i \in Matches(p)
    BY <1>1 DEF EdgeFaded
  <2>2. KindOk(p, i)
    BY <2>1 DEF Matches
  <2> QED BY <1>1, <2>1, <2>2 DEF NodeFaded
<1>2. CASE ~p.query.on
  <2>1. p.health = ""
    BY <1>2 DEF EdgeFaded
  <2>2. CASE p.kinds # {}
    <3>1. KindOk(p, i)
      BY <1>2, <2>1, <2>2 DEF EdgeFaded
    <3>2. ~Related(p, hover).on
      BY <2>2 DEF Related, Spotlight
    <3> QED BY <1>2, <2>1, <3>1, <3>2 DEF NodeFaded, Receded
  <2>3. CASE p.kinds = {}
    <3>1. KindOk(p, i)
      BY <2>3 DEF KindOk
    <3>2. ~Receded(Related(p, hover), i)
      <4>1. ~Related(p, hover).on \/ EdgeOf(e) \in Related(p, hover).edges
        BY <1>2, <2>1, <2>3 DEF EdgeFaded, RecededEdge
      <4>2. \/ ~Related(p, hover).on
            \/ Related(p, hover) = SpotlightNeighbors(Subject(p, hover), DisplayEdges(p))
        BY Zenon DEF Related, Spotlight, IsRelGrouping
      <4> QED BY <4>1, <4>2, NeighborsHaveEnds DEF Receded
    <3> QED BY <1>2, <2>1, <3>1, <3>2 DEF NodeFaded
  <2> QED BY <2>2, <2>3
<1> QED BY <1>1, <1>2

-----------------------------------------------------------------------------
(* What is kept of a tab and its parts.                                    *)

\* A tab and its parts have the fields that handlers write.
Fields == {"nodes", "edges", "sick", "feed", "scope", "groupBy", "rels", "orphaned", "query",
           "health", "kinds", "selected"}
IsTab(t) ==
  /\ DOMAIN t = {"page", "canvas", "camera", "motion", "fit", "screen"}
  /\ DOMAIN t.canvas = {"expanded", "layout", "hover", "capHover", "timer"}
  /\ DOMAIN t.motion = {"anim", "frame", "pending", "aim", "missed"}
  /\ DOMAIN t.screen = {"full", "w", "h", "inset", "phone", "resized"}
  /\ DOMAIN t.page = Fields
  /\ DOMAIN t.fit = {"scope", "key", "pending", "first", "fresh"}

\* OnItsWay and InFrame of a tab; and the fit knows its page.
Comes(t) ==
  t.motion.pending # {} =>
    \/ t.motion.frame # None /\ t.motion.frame[1] = "sel"
    \/ t.screen.resized \/ t.screen.w >= t.screen.full
Pixels(t)  == Extent(t.canvas.layout) /\ Sized(View(t)) /\ t.camera.scale \in Int
Settled(t) == ~t.screen.resized /\ ~t.motion.missed /\ Pixels(t) => Clamped(t, t.camera) = t.camera
Knows(t)   == t.fit.scope = t.page.scope /\ t.fit.key = FitKey(t.page)

\* u shows what t does, and is settled if t is; its fit is t's; and what t
\* awaits still comes.
Near(t, u)  == /\ IsTab(u) /\ u.screen = t.screen /\ u.page = t.page /\ u.canvas.layout = t.canvas.layout
               /\ Settled(t) => Settled(u)
Same(t, u)  == Near(t, u) /\ u.fit = t.fit
Stays(t, u) == Same(t, u) /\ (Comes(t) => Comes(u))

\* A clamp reads the layout and the screen.
LEMMA ClampedReads ==
  ASSUME NEW t, NEW u, u.screen = t.screen, u.canvas.layout = t.canvas.layout
  PROVE  /\ \A c : Clamped(u, c) = Clamped(t, c)
         /\ u.camera = t.camera /\ (u.motion.missed <=> t.motion.missed) => (Settled(u) <=> Settled(t))
<1>1. View(u) = View(t) /\ Empty(u) = Empty(t)
  BY DEF View, Empty
<1>2. \A c : Clamped(u, c) = Clamped(t, c)
  BY <1>1, Zenon DEF Clamped
<1> QED BY <1>1, <1>2 DEF Settled, Pixels

\* A clamped camera is where its own clamp leaves it.
LEMMA MovedSettles ==
  ASSUME NEW t, NEW c, IsTab(t)
  PROVE  Settled(Moved(t, c))
<1> DEFINE u == Moved(t, c)
           size == [w |-> Scaled(t.canvas.layout.w, c.scale), h |-> Scaled(t.canvas.layout.h, c.scale)]
           pan == ClampPan(c.tx, c.ty, size, View(t))
<1>1. u.screen = t.screen /\ u.canvas = t.canvas /\ u.camera = Clamped(t, c)
  BY DEF Moved, IsTab
<1>2. Clamped(t, c) = IF Empty(t) THEN c ELSE [scale |-> c.scale, tx |-> pan.tx, ty |-> pan.ty]
  BY Zenon DEF Clamped
<1>3. ASSUME ~Empty(t), Pixels(u)
      PROVE  Clamped(t, Clamped(t, c)) = Clamped(t, c)
  <2> DEFINE d == [scale |-> c.scale, tx |-> pan.tx, ty |-> pan.ty]
  <2>1. c.scale \in Int /\ Extent(t.canvas.layout) /\ Sized(View(t))
    BY <1>1, <1>2, <1>3 DEF Pixels, View
  <2>2. Extent(size)
    BY <2>1, ScaledInt DEF Extent
  <2>3. ClampPan(pan.tx, pan.ty, size, View(t)) = pan
    BY <2>1, <2>2, ClampStays
  <2>4. Clamped(t, d) = LET s == [w |-> Scaled(t.canvas.layout.w, d.scale), h |-> Scaled(t.canvas.layout.h, d.scale)]
                            p == ClampPan(d.tx, d.ty, s, View(t))
                        IN  [scale |-> d.scale, tx |-> p.tx, ty |-> p.ty]
    BY <1>3, Zenon DEF Clamped
  <2>5. d.scale = c.scale /\ d.tx = pan.tx /\ d.ty = pan.ty
    OBVIOUS
  <2>6. Clamped(t, d) = d
    BY <2>3, <2>4, <2>5, Zenon
  <2> QED BY <1>2, <1>3, <2>6
<1>4. \A x : Clamped(u, x) = Clamped(t, x)
  BY <1>1, ClampedReads
<1> HIDE DEF u, pan, size
<1>5. Pixels(u) => Clamped(u, u.camera) = u.camera
  BY <1>1, <1>2, <1>3, <1>4
<1> QED BY <1>5 DEF Settled, u

\* The clamp, an animation, a press and a task for the next frame.
LEMMA MovedStays ==
  ASSUME NEW t, NEW c, IsTab(t)
  PROVE  Stays(t, Moved(t, c))
<1>1. Settled(Moved(t, c))
  BY MovedSettles
<1>2. /\ IsTab(Moved(t, c)) /\ Moved(t, c).screen = t.screen /\ Moved(t, c).page = t.page
      /\ Moved(t, c).canvas = t.canvas /\ Moved(t, c).fit = t.fit
      /\ Comes(t) => Comes(Moved(t, c))
  BY DEF Moved, IsTab, Comes
<1> QED BY <1>1, <1>2 DEF Same, Stays, Near

LEMMA MotionStays ==
  ASSUME NEW t, NEW u, IsTab(t), IsTab(u), u.page = t.page, u.canvas.layout = t.canvas.layout, u.camera = t.camera,
         u.fit = t.fit, u.screen = t.screen, u.motion.missed = t.motion.missed
  PROVE  Same(t, u)
  BY ClampedReads DEF Same, Near

LEMMA AnimateToStays ==
  ASSUME NEW t, NEW target, NEW aim, IsTab(t)
  PROVE  Stays(t, AnimateTo(t, target, aim))
<1> DEFINE u == AnimateTo(t, target, aim)
<1>1. /\ IsTab(u) /\ u.page = t.page /\ u.canvas = t.canvas /\ u.camera = t.camera /\ u.fit = t.fit
      /\ u.screen = t.screen /\ u.motion.missed = t.motion.missed
      /\ Comes(t) => Comes(u)
  BY DEF AnimateTo, IsTab, Comes
<1> HIDE DEF u
<1>2. Stays(t, u)
  BY <1>1, MotionStays DEF Stays
<1> QED BY <1>2 DEF u

LEMMA PressStays ==
  ASSUME NEW t, IsTab(t)
  PROVE  Stays(t, Press(t))
<1> DEFINE u == Press(t)
<1>1. /\ IsTab(u) /\ u.page = t.page /\ u.canvas = t.canvas /\ u.camera = t.camera /\ u.fit = t.fit
      /\ u.screen = t.screen /\ u.motion.missed = t.motion.missed
      /\ Comes(t) => Comes(u)
  BY DEF Press, CancelAnimation, IsTab, Comes
<1> HIDE DEF u
<1>2. Stays(t, u)
  BY <1>1, MotionStays DEF Stays
<1> QED BY <1>2 DEF u

LEMMA NextFrameSame ==
  ASSUME NEW t, NEW task, NEW aim, IsTab(t)
  PROVE  Same(t, NextFrame(t, task, aim))
<1> DEFINE u == NextFrame(t, task, aim)
<1>1. /\ IsTab(u) /\ u.page = t.page /\ u.canvas = t.canvas /\ u.camera = t.camera /\ u.fit = t.fit
      /\ u.screen = t.screen /\ u.motion.missed = t.motion.missed
  BY DEF NextFrame, IsTab
<1> HIDE DEF u
<1>2. Same(t, u)
  BY <1>1, MotionStays
<1> QED BY <1>2 DEF u

\* One after the other.
LEMMA StaysTwice ==
  ASSUME NEW t, NEW u, NEW v
  PROVE  /\ Stays(t, u) /\ Stays(u, v) => Stays(t, v)
         /\ Same(t, u) /\ Same(u, v) => Same(t, v)
         /\ Near(t, u) /\ Near(u, v) => Near(t, v)
  BY DEF Stays, Same, Near

\* The fit of everything writes the camera or its animation. It takes note
\* of the page, and a new scope's fit is owed until there is a layout.
Owes(t, u) == u.page.scope # t.fit.scope \/ (Empty(u) /\ t.fit.pending) => u.fit.pending

LEMMA OwedKnows ==
  ASSUME NEW t, IsTab(t)
  PROVE  LET f == Owed(t.fit, t.page)
         IN  /\ DOMAIN f = {"scope", "key", "pending", "first", "fresh"}
             /\ f.scope = t.page.scope /\ f.key = FitKey(t.page)
             /\ t.fit.pending => f.pending
             /\ t.page.scope # t.fit.scope => f.pending /\ ~f.fresh
  BY DEF Owed, IsTab

LEMMA FitEffectStays ==
  ASSUME NEW t, IsTab(t)
  PROVE  LET u == FitEffect(t)
         IN  Near(t, u) /\ (Comes(t) => Comes(u)) /\ Knows(u) /\ Owes(t, u)
<1> DEFINE f == Owed(t.fit, t.page)
           t1 == [t EXCEPT !.fit = f]
           t2 == [t EXCEPT !.fit = [f EXCEPT !.fresh = TRUE]]
           done == [t1 EXCEPT !.fit.pending = FALSE]
           last == [done EXCEPT !.fit.first = FALSE]
           Notes(g) == g.scope = t.page.scope /\ g.key = FitKey(t.page)
           Like(u) == /\ IsTab(u) /\ u.page = t.page /\ u.canvas = t.canvas /\ u.camera = t.camera
                      /\ u.screen = t.screen /\ u.motion = t.motion /\ Notes(u.fit)
<1>1. /\ DOMAIN f = {"scope", "key", "pending", "first", "fresh"}
      /\ Notes(f)
      /\ t.fit.pending => f.pending
      /\ t.page.scope # t.fit.scope => f.pending /\ ~f.fresh
  BY OwedKnows
<1> HIDE DEF f
<1>2. Like(t1) /\ t1.fit = f /\ Like(t2) /\ t2.fit.pending = f.pending
  BY <1>1 DEF IsTab
<1> HIDE DEF t1, t2
<1>3. Like(done)
  BY <1>2 DEF IsTab
<1> HIDE DEF done
<1>4. Like(last)
  BY <1>3 DEF IsTab
<1> HIDE DEF last
<1>5. \A u : Like(u) => Near(t, u) /\ (Comes(t) => Comes(u)) /\ Knows(u)
  BY ClampedReads DEF Near, Comes, Knows
<1>6. \A c : LET u == Moved(last, c) IN Near(t, u) /\ (Comes(t) => Comes(u)) /\ Knows(u)
  <2> TAKE c
  <2>1. Stays(last, Moved(last, c))
    BY <1>4, MovedStays
  <2> QED BY <1>4, <1>5, <2>1, StaysTwice DEF Stays, Same, Near, Knows
<1>7. \A c : LET u == AnimateTo(done, c, None) IN Near(t, u) /\ (Comes(t) => Comes(u)) /\ Knows(u)
  <2> TAKE c
  <2>1. Stays(done, AnimateTo(done, c, None))
    BY <1>3, AnimateToStays
  <2> QED BY <1>3, <1>5, <2>1, StaysTwice DEF Stays, Same, Near, Knows
<1>8. FitDone(t1, f.first) \in {done} \cup {Moved(last, FitWhole(t1)), AnimateTo(done, FitWhole(t1), None)}
  BY Zenon DEF FitDone, done, last
<1>9. \/ FitEffect(t) = t2 /\ Empty(t)
      \/ FitEffect(t) = t1 /\ ~Empty(t)
      \/ FitEffect(t) = FitDone(t1, f.first) /\ ~Empty(t) /\ f.fresh
  BY Zenon DEF FitEffect, f, t1, t2
<1> DEFINE v == FitEffect(t)
<1>10. Near(t, v) /\ (Comes(t) => Comes(v)) /\ Knows(v)
  BY <1>2, <1>3, <1>5, <1>6, <1>7, <1>8, <1>9
<1>11. Owes(t, v)
  <2>1. v.page = t.page /\ Empty(v) = Empty(t)
    BY <1>10 DEF Near, Empty
  <2>2. v = t1 \/ v = t2 => v.fit.pending = f.pending
    BY <1>2
  <2> QED BY <1>1, <1>9, <2>1, <2>2 DEF Owes
<1> QED BY <1>10, <1>11

\* The selection fit asks for its frame when it sets what is pending.
LEMMA SelEffectStays ==
  ASSUME NEW t, NEW seen, IsTab(t)
  PROVE  /\ Same(t, SelEffect(t, seen))
         /\ t.page.groupBy # "nodes" => Stays(t, SelEffect(t, seen))
<1>1. \A todo : Same(t, [t EXCEPT !.motion.pending = todo])
  <2> TAKE todo
  <2> DEFINE u == [t EXCEPT !.motion.pending = todo]
  <2>1. /\ IsTab(u) /\ u.page = t.page /\ u.canvas = t.canvas /\ u.camera = t.camera /\ u.fit = t.fit
        /\ u.screen = t.screen /\ u.motion.missed = t.motion.missed
    BY DEF IsTab
  <2> HIDE DEF u
  <2>2. Same(t, u)
    BY <2>1, MotionStays
  <2> QED BY <2>2 DEF u
<1>2. \A todo, aim : Stays(t, NextFrame([t EXCEPT !.motion.pending = todo], <<"sel">>, aim))
  <2> TAKE todo, aim
  <2> DEFINE u == [t EXCEPT !.motion.pending = todo]
             v == NextFrame(u, <<"sel">>, aim)
  <2>1. Same(t, u)
    BY <1>1
  <2>2. Comes(v)
    BY DEF NextFrame, IsTab, Comes, None
  <2> HIDE DEF u
  <2>3. Same(u, v)
    BY <2>1, NextFrameSame DEF Same, Near
  <2> HIDE DEF v
  <2>4. Stays(t, v)
    BY <2>1, <2>2, <2>3, StaysTwice DEF Stays
  <2> QED BY <2>4 DEF u, v
<1>3. Stays(t, t)
  BY DEF Stays, Same, Near
<1>4. Stays(t, [t EXCEPT !.motion.pending = {}])
  <2>1. Comes([t EXCEPT !.motion.pending = {}])
    BY DEF IsTab, Comes
  <2> QED BY <1>1, <2>1 DEF Stays
<1>5. \A inSet, own : Stays(t, SelFitRelated(t, inSet, own))
  BY <1>2, <1>3 DEF SelFitRelated
<1>6. \A task, aim : Same(t, NextFrame(t, task, aim))
  BY NextFrameSame
<1>7. \A row, i : Same(t, SelFitRow(t, row, i))
  BY <1>6 DEF SelFitRow, FitRow
<1>8. t.page.groupBy # "nodes" => CapRowFor(t.page, seen, Selected(t)) = {}
  BY DEF CapRowFor, CapRows
<1>9. \/ SelEffect(t, seen) \in {t, [t EXCEPT !.motion.pending = {}]}
      \/ \E inSet, own : SelEffect(t, seen) = SelFitRelated(t, inSet, own)
      \/ /\ CapRowFor(t.page, seen, Selected(t)) # {}
         /\ \E row, i : SelEffect(t, seen) = SelFitRow(t, row, i)
  BY DEF SelEffect
<1> QED BY <1>3, <1>4, <1>5, <1>7, <1>8, <1>9 DEF Stays

\* The fit of a filter asks for another frame, when nothing is selected.
LEMMA FilterEffectStays ==
  ASSUME NEW t, IsTab(t)
  PROVE  /\ Same(t, FilterEffect(t))
         /\ t.page.selected # None => Stays(t, FilterEffect(t))
<1>1. \A task, aim : Same(t, NextFrame(t, task, aim))
  BY NextFrameSame
<1>2. Stays(t, t)
  BY DEF Same, Stays, Near
<1>3. \A lit, target : Same(t, FrameLit(t, lit, target))
  BY <1>1, <1>2 DEF FrameLit, Stays
<1>4. FilterEffect(t) = t \/ (t.page.selected = None /\ \E lit, target : FilterEffect(t) = FrameLit(t, lit, target))
  BY DEF FilterEffect, Selected
<1> QED BY <1>2, <1>3, <1>4 DEF Stays

\* A setter with all its effects. It leaves a settled camera settled: a new
\* layout is clamped to, another fit clamps by itself. Only a row's fit, or
\* a filter's when nothing is selected, takes the frame of an awaited one.
Filters(p) == <<p.health, p.kinds>>
Gives(t, u, p) ==
  /\ IsTab(u) /\ u.page = p /\ u.screen = t.screen
  /\ Settled(t) => Settled(u)
  /\ Knows(u) /\ Owes(t, u)
  /\ Comes(t) => Comes(u) \/ p.groupBy = "nodes" \/ (p.selected = None /\ Filters(p) # Filters(t.page))

LEMMA UpdatedGives ==
  ASSUME NEW t, NEW p, NEW expanded, NEW late, IsTab(t), DOMAIN p = Fields
  PROVE  Gives(t, Updated(t, p, expanded, late), p)
<1> DEFINE stale == expanded # t.canvas.expanded \/ LayoutInputs(p) # LayoutInputs(t.page)
           canv == AutoExpand(p, t.canvas, expanded, stale)
           u == Drawn(t, p, canv)
           a == FitEffect(u)
           b == AfterSelection(t, a, late)
           c == AfterFilter(t, b)
           d == AfterLayout(t, c, stale)
<1>1. /\ IsTab(u) /\ u.page = p /\ u.screen = t.screen /\ (Comes(t) => Comes(u))
      /\ u.camera = t.camera /\ u.motion.missed = t.motion.missed /\ u.fit = t.fit
  <2> HIDE DEF canv
  <2> QED BY DEF Drawn, IsTab, Comes
<1> HIDE DEF u
<1>2. Near(u, a) /\ (Comes(u) => Comes(a)) /\ Knows(a) /\ Owes(u, a)
  BY <1>1, FitEffectStays
<1> HIDE DEF a
<1>3. Same(a, b) /\ (p.groupBy # "nodes" => Stays(a, b))
  <2>1. IsTab(a) /\ a.page = p
    BY <1>1, <1>2 DEF Near
  <2>2. \A seen : Same(a, SelEffect(a, seen)) /\ (p.groupBy # "nodes" => Stays(a, SelEffect(a, seen)))
    BY <2>1, SelEffectStays
  <2>3. b = a \/ \E seen : b = SelEffect(a, seen)
    BY Zenon DEF AfterSelection
  <2> QED BY <2>1, <2>2, <2>3 DEF Same, Stays, Near
<1> HIDE DEF b
<1>4. /\ Same(b, c) /\ b.page = p
      /\ Stays(b, c) \/ (p.selected = None /\ Filters(p) # Filters(t.page))
  <2>1. IsTab(b) /\ b.page = p
    BY <1>1, <1>2, <1>3 DEF Same, Near
  <2>2. Same(b, FilterEffect(b)) /\ (p.selected # None => Stays(b, FilterEffect(b)))
    BY <2>1, FilterEffectStays
  <2>3. c = b \/ (Filters(p) # Filters(t.page) /\ c = FilterEffect(b))
    BY <2>1, Zenon DEF AfterFilter, Filters
  <2>4. Stays(b, b)
    BY <2>1 DEF Same, Stays, Near
  <2> QED BY <2>1, <2>2, <2>3, <2>4 DEF Stays
<1> HIDE DEF c
<1>5. Near(u, c) /\ c.fit = a.fit
  BY <1>2, <1>3, <1>4, StaysTwice DEF Same
<1>6. Stays(c, d) /\ (c.canvas.layout = t.canvas.layout \/ Settled(d))
  <2>1. IsTab(c)
    BY <1>5 DEF Near
  <2>2. Stays(c, c) /\ Stays(c, Moved(c, c.camera)) /\ Settled(Moved(c, c.camera))
    BY <2>1, MovedStays, MovedSettles DEF Stays, Same, Near
  <2> QED BY <2>2, Zenon DEF AfterLayout
<1> HIDE DEF d
<1>7. Settled(t) => Settled(d)
  <2>1. c.canvas.layout = u.canvas.layout /\ Settled(c) => Settled(d)
    BY <1>5, <1>6 DEF Near, Stays, Same
  <2>2. u.canvas.layout = t.canvas.layout => (Settled(u) <=> Settled(t))
    BY <1>1, ClampedReads
  <2> QED BY <1>5, <1>6, <2>1, <2>2 DEF Near
<1>8. Comes(t) => Comes(d) \/ p.groupBy = "nodes" \/ (p.selected = None /\ Filters(p) # Filters(t.page))
  BY <1>1, <1>2, <1>3, <1>4, <1>6 DEF Stays
<1>9. IsTab(d) /\ d.page = p /\ d.screen = t.screen /\ d.fit = a.fit /\ d.canvas.layout = a.canvas.layout
  BY <1>1, <1>2, <1>5, <1>6 DEF Stays, Same, Near
<1>10. Knows(d) /\ Owes(t, d)
  <2>1. a.page = p
    BY <1>1, <1>2 DEF Near
  <2> QED BY <1>1, <1>2, <1>9, <2>1 DEF Knows, Owes, Empty
<1>11. Gives(t, d, p)
  BY <1>7, <1>8, <1>9, <1>10 DEF Gives
<1> QED
  BY <1>11, Zenon DEF Updated, Effects, d, c, b, a, u

\* The setters that handlers compose.
LEMMA SetGives ==
  ASSUME NEW t, IsTab(t)
  PROVE  /\ \A p : DOMAIN p = Fields => Gives(t, SetPage(t, p), p)
         /\ \A field, value : Gives(t, Set(t, field, value), [t.page EXCEPT ![field] = value])
<1>1. \A p : DOMAIN p = Fields => Gives(t, SetPage(t, p), p)
  BY UpdatedGives DEF SetPage
<1>2. \A field, value : DOMAIN [t.page EXCEPT ![field] = value] = Fields
  BY DEF IsTab
<1> QED BY <1>1, <1>2, Zenon DEF Set

-----------------------------------------------------------------------------
(* The handlers: from Now to a tab u that is as settled, that has the fit  *)
(* of its own page and that keeps what is awaited.                         *)
Sound(u) == IsTab(u) /\ (Settled(Now) => Settled(u)) /\ (Knows(Now) => Knows(u))
Here(u)  == Sound(u) /\ u.page.scope = page.scope
Holds(u) == Here(u) /\ (Comes(Now) => Comes(u) \/ u.page.groupBy = "nodes")
Fine(u)  == Here(u) /\ (Comes(Now) => Comes(u) \/ u.page.groupBy = "nodes" \/ u.page.selected = None)

\* To another scope: its fit is owed, if there is no layout without a graph.
Moves(u) ==
  /\ Sound(u) /\ (Comes(Now) => Comes(u) \/ u.page.groupBy = "nodes" \/ u.page.selected = None)
  /\ u.page.scope # page.scope /\ Knows(Now) /\ (NoGraph(u) => Empty(u)) => u.fit.pending

\* A setter to a page of the same grouping, filters and scope.
Like(t, p) ==
  DOMAIN p = Fields /\ p.groupBy = t.page.groupBy /\ Filters(p) = Filters(t.page) /\ p.scope = t.page.scope

LEMMA UpdatedHolds ==
  ASSUME NEW t, NEW p, NEW expanded, NEW late, Holds(t), Like(t, p)
  PROVE  Holds(Updated(t, p, expanded, late)) /\ Updated(t, p, expanded, late).page = p
<1>1. IsTab(t) /\ DOMAIN p = Fields
  BY DEF Holds, Here, Sound, Like
<1>2. Gives(t, Updated(t, p, expanded, late), p)
  BY <1>1, UpdatedGives
<1> QED BY <1>2 DEF Gives, Holds, Here, Sound, Like

\* Setters but those of the grouping, of the filters and of the scope.
LEMMA SetHolds ==
  ASSUME NEW t, Holds(t), NEW field, field \notin {"groupBy", "health", "kinds", "scope"}, NEW value
  PROVE  Holds(Set(t, field, value)) /\ Set(t, field, value).page = [t.page EXCEPT ![field] = value]
<1> DEFINE p == [t.page EXCEPT ![field] = value]
<1>1. IsTab(t) /\ DOMAIN t.page = Fields
  BY DEF Holds, Here, Sound, IsTab
<1>2. Gives(t, Set(t, field, value), p)
  BY <1>1, SetGives
<1>3. p.groupBy = t.page.groupBy /\ Filters(p) = Filters(t.page) /\ p.scope = t.page.scope
  BY <1>1 DEF Fields, Filters
<1> HIDE DEF p
<1>4. Holds(Set(t, field, value)) /\ Set(t, field, value).page = p
  BY <1>2, <1>3 DEF Gives, Holds, Here, Sound
<1> QED BY <1>4 DEF p

\* A selection, by pointer or by key.
LEMMA SelectHolds ==
  ASSUME NEW t, Holds(t), NEW i
  PROVE  Holds(Select(t, i)) /\ Select(t, i).page = [t.page EXCEPT !.selected = i]
  BY SetHolds DEF Select

\* A setter of a filter, while that fit is allowed.
LEMMA FilterFine ==
  ASSUME NEW t, Fine(t), NEW field \in {"health", "kinds", "query"}, NEW value
  PROVE  /\ Fine(Set(t, field, value))
         /\ Set(t, field, value).page.selected = t.page.selected
         /\ Set(t, field, value).page.groupBy = t.page.groupBy
<1> DEFINE p == [t.page EXCEPT ![field] = value]
<1>1. IsTab(t) /\ DOMAIN t.page = Fields
  BY DEF Fine, Here, Sound, IsTab
<1>2. Gives(t, Set(t, field, value), p)
  BY <1>1, SetGives
<1>3. p.groupBy = t.page.groupBy /\ p.selected = t.page.selected /\ p.scope = t.page.scope
  BY <1>1 DEF Fields
<1> HIDE DEF p
<1> QED BY <1>2, <1>3 DEF Gives, Fine, Here, Sound

\* Clear: all filters.
LEMMA UnfilteredFine ==
  ASSUME NEW t, Fine(t)
  PROVE  Fine(Unfiltered(t)) /\ IsTab(Unfiltered(t))
<1> DEFINE a == Set(t, "query", NoQuery)
           b == Set(a, "health", "")
<1>1. Fine(a)
  BY FilterFine
<1> HIDE DEF a
<1>2. Fine(b)
  BY <1>1, FilterFine
<1> HIDE DEF b
<1>3. Fine(Set(b, "kinds", {}))
  BY <1>2, FilterFine
<1> QED BY <1>3 DEF Unfiltered, a, b, Fine, Here, Sound

\* Now is fine, so is what holds, and what stays.
LEMMA NowHolds ==
  ASSUME IsTab(Now)
  PROVE  /\ Holds(Now) /\ Holds(Press(Now))
         /\ Press(Now).page = page
         /\ \A u : Holds(u) => Fine(u)
         /\ \A t, u : Holds(t) /\ Stays(t, u) => Holds(u)
         /\ \A t, u : Fine(t) /\ Stays(t, u) => Fine(u)
         /\ \A t, u : Here(t) /\ Same(t, u) => Here(u)
         /\ \A t, u, p : Here(t) /\ Gives(t, u, p) /\ p.scope = page.scope => Here(u) /\ IsTab(t)
<1>1. Stays(Now, Press(Now))
  BY PressStays
<1>2. Now.page = page
  BY DEF Now
<1>3. \A t, u, p : Here(t) /\ Gives(t, u, p) /\ p.scope = page.scope => Here(u) /\ IsTab(t)
  BY DEF Gives, Here, Sound
<1>4. \A t, u : Here(t) /\ Same(t, u) => Here(u)
  BY DEF Same, Near, Knows, Here, Sound
<1>5. \A t, u : Stays(t, u) => u.page = t.page /\ (Comes(t) => Comes(u)) /\ Same(t, u)
  BY DEF Stays, Same, Near
<1>6. Holds(Now)
  BY <1>2 DEF Holds, Here, Sound
<1>7. \A t, u : Holds(t) /\ Stays(t, u) => Holds(u)
  BY <1>4, <1>5 DEF Holds
<1>8. \A t, u : Fine(t) /\ Stays(t, u) => Fine(u)
  BY <1>4, <1>5 DEF Fine
<1>9. \A u : Holds(u) => Fine(u)
  BY DEF Holds, Fine
<1> QED BY <1>1, <1>2, <1>3, <1>4, <1>5, <1>6, <1>7, <1>8, <1>9

\* The state a handler leaves.
LEMMA BecomeSound ==
  ASSUME IsTab(Now), NEW u, Sound(u), Become(u),
         Comes(Now) => Comes(u) \/ u.page.groupBy = "nodes" \/ u.page.selected = None
  PROVE  /\ IsTab(Now)' /\ (Settled(Now) => Settled(Now)') /\ (Knows(Now) => Knows(Now)')
         /\ OnItsWay => OnItsWay' \/ page'.groupBy = "nodes" \/ page'.selected = None
         /\ page' = u.page /\ fit' = u.fit /\ canvas' = u.canvas
<1>1. /\ page' = u.page /\ canvas' = u.canvas /\ camera' = u.camera
      /\ motion' = u.motion /\ fit' = u.fit /\ screen' = u.screen
  BY DEF Become
<1> DEFINE v == [page |-> u.page, canvas |-> u.canvas, camera |-> u.camera, motion |-> u.motion,
                 fit |-> u.fit, screen |-> u.screen]
<1>2. Now' = v
  BY <1>1, Zenon DEF Now
<1>4. IsTab(v) /\ (Settled(v) <=> Settled(u)) /\ (Knows(v) <=> Knows(u))
  BY ClampedReads DEF Sound, IsTab, Knows
<1> HIDE DEF v
<1>3. OnItsWay = Comes(Now) /\ OnItsWay' = Comes(u)
  BY <1>1 DEF OnItsWay, Comes, Now
<1> QED BY <1>1, <1>2, <1>3, <1>4 DEF Sound

Lands == (\E u : Fine(u) /\ Become(u)) \/ (\E u : Moves(u) /\ Become(u))

\* The hover and the timer are of no account here.
LEMMA CanvasSame ==
  ASSUME NEW t, IsTab(t), NEW field \in {"hover", "capHover", "timer"}, NEW value
  PROVE  Stays(t, [t EXCEPT !.canvas[field] = value])
<1> DEFINE u == [t EXCEPT !.canvas[field] = value]
<1>1. /\ IsTab(u) /\ u.page = t.page /\ u.canvas.layout = t.canvas.layout /\ u.camera = t.camera
      /\ u.fit = t.fit /\ u.screen = t.screen /\ u.motion = t.motion
  BY DEF IsTab
<1> HIDE DEF u
<1>2. Stays(t, u)
  BY <1>1, MotionStays DEF Stays, Comes
<1> QED BY <1>2 DEF u

LEMMA TimerHolds ==
  ASSUME NEW t, NEW timer, Holds(t)
  PROVE  Holds([t EXCEPT !.canvas.timer = timer])
<1>1. Stays(t, [t EXCEPT !.canvas["timer"] = timer])
  BY CanvasSame DEF Holds, Here, Sound
<1> QED BY <1>1 DEF Stays, Same, Near, Knows, Holds, Here, Sound

\* What the operator clicks.
LEMMA ActsLand ==
  ASSUME IsTab(Now), Acts
  PROVE  Lands
<1> DEFINE P == Press(Now)
<1>0. /\ Holds(Now) /\ Holds(P) /\ P.page = page
      /\ \A u : Holds(u) => Fine(u)
      /\ \A t, u : Holds(t) /\ Stays(t, u) => Holds(u)
      /\ \A t, u : Fine(t) /\ Stays(t, u) => Fine(u)
  BY NowHolds
<1> HIDE DEF P
<1>1. \A t, i : Holds(t) => Holds(Select(t, i)) /\ Select(t, i).page.groupBy = t.page.groupBy
  <2> TAKE t, i
  <2> HAVE Holds(t)
  <2>1. Holds(Select(t, i)) /\ Select(t, i).page = [t.page EXCEPT !.selected = i]
    BY SelectHolds
  <2>2. "groupBy" \in DOMAIN t.page
    BY DEF Holds, IsTab, Fields, Here, Sound
  <2> QED BY <2>1, <2>2
<1>2. \A t, timer : Holds(t) => Holds([t EXCEPT !.canvas.timer = timer])
  BY TimerHolds
<1>3. Holds(Clicked) /\ Clicked.page.groupBy = page.groupBy
  BY <1>0, <1>1 DEF Clicked, OnBackground, P
<1>4. \A i : Holds(Reselect(i)) /\ Reselect(i).page.groupBy = page.groupBy
  BY <1>0, <1>1 DEF Reselect, P
<1>5. \A t, p, e, late : Holds(t) /\ Like(t, p) => Holds(Updated(t, p, e, late)) /\ Updated(t, p, e, late).page = p
  BY UpdatedHolds
<1>6. DOMAIN page = Fields /\ Now.page = page
  BY DEF IsTab, Now
<1>8. \A t, task, aim : Here(t) /\ t.page.groupBy = "nodes" => Fine(NextFrame(t, task, aim))
  <2> TAKE t, task, aim
  <2> HAVE Here(t) /\ t.page.groupBy = "nodes"
  <2>1. Same(t, NextFrame(t, task, aim))
    BY NextFrameSame DEF Here, Sound
  <2> QED BY <2>1 DEF Same, Near, Knows, Fine, Here, Sound
<1>9. \A row \in CapRows(page, canvas.layout) : page.groupBy = "nodes"
  BY DEF CapRows
<1>10. \A t, c, aim : Fine(t) => Fine(AnimateTo(t, c, aim))
  BY <1>0, AnimateToStays DEF Fine, Here, Sound
<1>11. \A t, i : Holds(t) /\ SelectByKey(t, i) => Lands
  <2> TAKE t, i
  <2> HAVE Holds(t) /\ SelectByKey(t, i)
  <2> DEFINE p == [t.page EXCEPT !.selected = i]
  <2>1. Like(t, p)
    BY DEF Like, Holds, IsTab, Fields, Filters, Here, Sound
  <2>2. PICK late : Become(Updated(t, p, t.canvas.expanded, late))
    BY DEF SelectByKey
  <2> HIDE DEF p
  <2> QED BY <1>0, <1>5, <2>1, <2>2 DEF Lands
<1>12. CASE ClickCard
  <2>1. PICK i : Become(IF i = page.selected THEN [Press(Now) EXCEPT !.canvas.timer = TRUE] ELSE Select(Press(Now), i))
    BY <1>12, Zenon DEF ClickCard
  <2>2. Holds([P EXCEPT !.canvas.timer = TRUE]) /\ Holds(Select(P, i))
    BY <1>0, <1>1, <1>2
  <2> QED BY <1>0, <2>1, <2>2 DEF Lands, P
<1>13. CASE DblClickCard
  <2>1. PICK i : Become(Select([Press(Now) EXCEPT !.canvas.timer = FALSE], i))
    BY <1>13, Zenon DEF DblClickCard
  <2>2. Holds(Select([P EXCEPT !.canvas.timer = FALSE], i))
    BY <1>0, <1>1, <1>2
  <2> QED BY <1>0, <2>1, <2>2 DEF Lands, P
<1>14. CASE TogglePill
  <2>1. PICK m, pointer : Become(Updated(IF pointer THEN Press(Now) ELSE Now, page, Toggle(Now, m.key), FALSE))
    BY <1>14, Zenon DEF TogglePill
  <2> DEFINE t == IF pointer THEN Press(Now) ELSE Now
  <2>2. Holds(t) /\ t.page = page
    BY <1>0, <1>6 DEF P
  <2> HIDE DEF t
  <2>3. Holds(Updated(t, page, Toggle(Now, m.key), FALSE))
    BY <1>5, <1>6, <2>2 DEF Like
  <2> QED BY <1>0, <2>1, <2>3 DEF Lands, t
<1>28. \A t, e : Holds(t) => Holds(Updated(t, t.page, e, FALSE)) /\ Updated(t, t.page, e, FALSE).page = t.page
  <2>1. ASSUME NEW t, NEW e, Holds(t)
        PROVE  Holds(Updated(t, t.page, e, FALSE)) /\ Updated(t, t.page, e, FALSE).page = t.page
    <3>1. Like(t, t.page)
      BY <2>1 DEF Like, Holds, IsTab, Here, Sound
    <3>2. \A p, late : Like(t, p) => Holds(Updated(t, p, e, late)) /\ Updated(t, p, e, late).page = p
      BY <2>1, UpdatedHolds
    <3> QED BY <3>1, <3>2
  <2> QED BY <2>1
<1>15. CASE ToggleRow
  <2>1. PICK row \in CapRows(page, canvas.layout), pointer \in BOOLEAN :
          LET After(t) == CHOOSE r \in CapRows(t.page, t.canvas.layout) : r.host = row.host
              Toggled(t) == Updated(t, t.page, Toggle(t, <<"host", row.host, "">>), FALSE)
              Framed(t) == FitRow(t, After(t), None)
          IN  Become(Framed(Toggled(IF pointer THEN Clicked ELSE Now)))
    BY <1>15, Zenon DEF ToggleRow
  <2> DEFINE t == IF pointer THEN Clicked ELSE Now
             u == Updated(t, t.page, Toggle(t, <<"host", row.host, "">>), FALSE)
             r == CHOOSE q \in CapRows(u.page, u.canvas.layout) : q.host = row.host
  <2>2. Holds(t) /\ t.page.groupBy = "nodes"
    BY <1>0, <1>3, <1>6, <1>9
  <2>4. Become(FitRow(u, r, None))
    BY <2>1
  <2> HIDE DEF t, r
  <2>5. Holds(u) /\ u.page = t.page
    BY <1>28, <2>2, Zenon
  <2> HIDE DEF u
  <2>6. Fine(FitRow(u, r, None))
    BY <1>8, <2>2, <2>5 DEF FitRow, Holds, Here, Sound
  <2> QED BY <2>4, <2>6 DEF Lands
<1>16. CASE ClickSegment
  BY <1>0, <1>4, <1>16, Zenon DEF ClickSegment, Lands
<1>17. CASE ClickBullet
  <2>1. PICK row \in CapRows(page, canvas.layout) : \E i, box : Become(NextFrame(Reselect(i), <<"box", box>>, i))
    BY <1>17, Zenon DEF ClickBullet
  <2>2. \A i : Here(Reselect(i)) /\ Reselect(i).page.groupBy = "nodes"
    BY <1>4, <1>9 DEF Holds, Here, Sound
  <2> QED BY <1>8, <2>1, <2>2 DEF Lands
<1>18. CASE ClickBand
  <2>1. PICK g : Become(Set(Select(Press(Now), None), "kinds", ToggleInSet(page.kinds, g.kind, TRUE)))
    BY <1>18, Zenon DEF ClickBand
  <2>2. Fine(Select(P, None))
    BY <1>0, <1>1
  <2> QED BY <2>1, <2>2, FilterFine DEF Lands, P
<1>19. CASE ClickBackground
  BY <1>0, <1>3, <1>19, Zenon DEF ClickBackground, Lands
<1>20. \A t, whole : Holds(t) => Fine(Refit(t, whole))
  BY <1>0, <1>10 DEF Refit
<1>21. CASE DblClickBackground
  BY <1>3, <1>20, <1>21, Zenon DEF DblClickBackground, Lands
<1>22. CASE FitAll
  BY <1>0, <1>20, <1>22, Zenon DEF FitAll, Lands
<1>23. CASE FrameMatches
  BY <1>0, <1>10, <1>23 DEF FrameMatches, Lands
<1>24. CASE ArrowKey
  BY <1>0, <1>11, <1>24, Zenon DEF ArrowKey
<1>25. CASE EnterKey
  BY <1>0, <1>11, <1>25, Zenon DEF EnterKey
<1>26. CASE GoToNode
  <2> DEFINE u == Set(Now, "groupBy", "nodes")
             p == [page EXCEPT !.groupBy = "nodes"]
  <2>1. Gives(Now, u, p)
    BY <1>6, SetGives
  <2>2. p.groupBy = "nodes" /\ p.scope = page.scope
    BY <1>6 DEF Fields
  <2> HIDE DEF p
  <2>3. Holds(u)
    BY <2>1, <2>2 DEF Gives, Holds, Here, Sound
  <2>4. Become(u) \/ \E i : SelectByKey(u, i)
    BY <1>26, Zenon DEF GoToNode, u
  <2> HIDE DEF u
  <2> QED BY <1>0, <1>11, <2>3, <2>4 DEF Lands
<1>27. CASE EscapeKey
  <2>1. Fine(Select(Now, None)) /\ Fine(Unfiltered(Now)) /\ Fine(Now)
    BY <1>0, <1>1, UnfilteredFine
  <2> QED BY <1>27, <2>1 DEF EscapeKey, Lands
<1> QED
  BY <1>12, <1>13, <1>14, <1>15, <1>16, <1>17, <1>18, <1>19, <1>21, <1>22, <1>23, <1>24, <1>25, <1>26, <1>27
     DEF Acts

\* The lenses and the hand.
LEMMA LooksLand ==
  ASSUME IsTab(Now), Looks
  PROVE  Lands
<1>0. /\ Holds(Now) /\ \A u : Holds(u) => Fine(u)
      /\ \A t, u : Holds(t) /\ Stays(t, u) => Holds(u)
  BY NowHolds
<1>1. DOMAIN page = Fields /\ Now.page = page
  BY DEF IsTab, Now
<1>2. \A field, value : field \notin {"groupBy", "health", "kinds", "scope"} => Fine(Set(Now, field, value))
  BY <1>0, SetHolds
<1>3. \A field, value : field \in {"health", "kinds", "query"} => Fine(Set(Now, field, value))
  BY <1>0, FilterFine
<1>4. \A field, value : SetPage(Now, [page EXCEPT ![field] = value]) = Set(Now, field, value)
  BY <1>1 DEF Set
<1>5. \A g : Gives(Now, Set(Now, "groupBy", g), [page EXCEPT !.groupBy = g])
  BY <1>1, SetGives
<1>6. CASE GroupBy
  <2>1. PICK g : Become(Set(Now, "groupBy", g))
    BY <1>6 DEF GroupBy
  <2> DEFINE p == [page EXCEPT !.groupBy = g]
             u == Set(Now, "groupBy", g)
  <2>2. Filters(p) = Filters(page) /\ p.selected = page.selected /\ p.scope = page.scope
    BY <1>1 DEF Filters, Fields
  <2>3. Gives(Now, u, p)
    BY <1>5
  <2> HIDE DEF p, u
  <2>4. Fine(u)
    BY <1>1, <2>2, <2>3 DEF Gives, Fine, Here, Sound
  <2> QED BY <2>1, <2>4 DEF Lands, u
<1>7. CASE ToggleRel
  <2>1. PICK c, solo : Become(SetPage(Now, [page EXCEPT !.rels = ToggleInSet(@, c, solo)]))
    BY <1>7, Zenon DEF ToggleRel
  <2> QED BY <1>2, <1>4, <2>1 DEF Lands
<1>8. CASE ShowOrphaned
  <2>1. Become(SetPage(Now, [page EXCEPT !.orphaned = ~@]))
    BY <1>8, Zenon DEF ShowOrphaned
  <2> QED BY <1>2, <1>4, <2>1 DEF Lands
<1>9. CASE Search
  BY <1>3, <1>9 DEF Search, Lands
<1>10. CASE HealthFilter
  <2>1. PICK h : Become(SetPage(Now, [page EXCEPT !.health = IF @ = h THEN "" ELSE h]))
    BY <1>10, Zenon DEF HealthFilter
  <2>2. PICK v : Become(Set(Now, "health", v))
    BY <1>4, <2>1
  <2> QED BY <1>3, <2>2 DEF Lands
<1>11. CASE KindFilter
  <2>1. PICK k, solo : Become(SetPage(Now, [page EXCEPT !.kinds = ToggleInSet(@, k, solo)]))
    BY <1>11, Zenon DEF KindFilter
  <2>2. PICK v : Become(Set(Now, "kinds", v))
    BY <1>4, <2>1
  <2> QED BY <1>3, <2>2 DEF Lands
<1>12. CASE Clear
  <2>1. Fine(Unfiltered(Now))
    BY <1>0, UnfilteredFine
  <2> QED BY <1>12, <2>1 DEF Clear, Lands
<1>13. CASE Home
  <2> DEFINE a == Set(Now, "groupBy", "relationship")
             b == Set(a, "rels", {"ownership"})
             c == Set(Set(Set(b, "query", NoQuery), "health", ""), "kinds", {})
             d == Select(c, None)
  <2>1. \A t, field, value : Here(t) /\ field # "scope" => Here(Set(t, field, value))
    <3> TAKE t, field, value
    <3> HAVE Here(t) /\ field # "scope"
    <3> DEFINE p == [t.page EXCEPT ![field] = value]
    <3>1. p.scope = page.scope
      BY DEF Here, Sound, IsTab, Fields
    <3>2. Gives(t, Set(t, field, value), p)
      BY SetGives DEF Here, Sound
    <3> HIDE DEF p
    <3> QED BY <3>1, <3>2, NowHolds
  <2>2. Here(Now)
    BY <1>0 DEF Holds
  <2>3. Here(c)
    BY <2>1, <2>2
  <2>4. Unfiltered(b) = c
    BY Zenon DEF Unfiltered
  <2> HIDE DEF c
  <2>5. Here(d)
    BY <2>1, <2>3 DEF Select
  <2> DEFINE p == [c.page EXCEPT !.selected = None]
  <2>6. Gives(c, d, p)
    BY <2>3, SetGives DEF Select, Here, Sound
  <2>7. p.selected = None
    BY <2>3 DEF Here, Sound, IsTab, Fields
  <2>8. Become(d)
    BY <1>13, <2>4, Zenon DEF Home, a, b, d
  <2> HIDE DEF p, d
  <2>9. Fine(d)
    BY <2>5, <2>6, <2>7 DEF Gives, Fine
  <2> QED BY <2>8, <2>9 DEF Lands
<1>14. CASE Hover
  <2>1. PICK i : Become([Now EXCEPT !.canvas.hover = i])
    BY <1>14, Zenon DEF Hover
  <2>2. Stays(Now, [Now EXCEPT !.canvas["hover"] = i])
    BY CanvasSame
  <2> QED BY <1>0, <2>1, <2>2 DEF Lands
<1>15. CASE CapHover
  <2>1. PICK i : Become([Now EXCEPT !.canvas.capHover = i])
    BY <1>15, Zenon DEF CapHover
  <2>2. Stays(Now, [Now EXCEPT !.canvas["capHover"] = i])
    BY CanvasSame
  <2> QED BY <1>0, <2>1, <2>2 DEF Lands
<1>16. CASE Unhover
  <2> DEFINE t == [Now EXCEPT !.canvas["hover"] = None]
             u == [t EXCEPT !.canvas["capHover"] = None]
  <2>2. Stays(Now, t)
    BY CanvasSame
  <2>3. u = [Now EXCEPT !.canvas.hover = None, !.canvas.capHover = None]
    OBVIOUS
  <2> HIDE DEF t
  <2>4. Stays(t, u)
    BY <2>2, CanvasSame DEF Stays, Same, Near
  <2>1. Stays(Now, [Now EXCEPT !.canvas.hover = None, !.canvas.capHover = None])
    BY <2>2, <2>3, <2>4, StaysTwice
  <2> QED BY <1>0, <1>16, <2>1 DEF Unhover, Lands
<1>17. \A c : Holds(Moved(CancelAnimation(Now), c))
  <2>1. Holds(CancelAnimation(Now))
    BY NowHolds DEF Press
  <2>2. \A c : Stays(CancelAnimation(Now), Moved(CancelAnimation(Now), c))
    BY <2>1, MovedStays DEF Holds, Here, Sound
  <2> QED BY <1>0, <2>1, <2>2
<1>18. CASE Pan
  <2>1. PICK d, flick :
          LET t == Panned(Now, d[1], d[2])
              far == [t.camera EXCEPT !.tx = @ + d[1], !.ty = @ + d[2]]
          IN  Become(IF flick THEN AnimateTo(t, far, None) ELSE t)
    BY <1>18, Zenon DEF Pan
  <2> DEFINE t == Panned(Now, d[1], d[2])
  <2>2. Holds(t)
    BY <1>17 DEF Panned
  <2>3. \A far : Holds(AnimateTo(t, far, None))
    <3>1. \A far : Stays(t, AnimateTo(t, far, None))
      BY <2>2, AnimateToStays DEF Holds, Here, Sound
    <3> QED BY <1>0, <2>2, <3>1
  <2> QED BY <1>0, <2>1, <2>2, <2>3 DEF Lands
<1>19. CASE Zoom
  <2>1. \E c : Become(Moved(CancelAnimation(Now), c))
    BY <1>19 DEF Zoom
  <2> QED BY <1>0, <1>17, <2>1 DEF Lands
<1>20. CASE Resize
  <2>1. PICK full, h, w, aim :
          Become([Now EXCEPT !.screen.full = full, !.screen.h = h, !.screen.w = w,
                             !.screen.resized = TRUE, !.motion.aim = aim])
    BY <1>20 DEF Resize
  <2>2. Fine([Now EXCEPT !.screen.full = full, !.screen.h = h, !.screen.w = w,
                         !.screen.resized = TRUE, !.motion.aim = aim])
    BY DEF IsTab, Fine, Comes, Here, Sound, Settled, Knows, Now
  <2> QED BY <2>1, <2>2 DEF Lands
<1> QED
  BY <1>6, <1>7, <1>8, <1>9, <1>10, <1>11, <1>12, <1>13, <1>14, <1>15, <1>16, <1>18, <1>19, <1>20 DEF Looks

\* What the stream brings.
LEMMA HearsLand ==
  ASSUME IsTab(Now), Hears
  PROVE  Lands
<1>0. Holds(Now) /\ \A u : Holds(u) => Fine(u)
  BY NowHolds
<1>1. DOMAIN page = Fields /\ Now.page = page
  BY DEF IsTab, Now
<1>2. \A g : Holds(SetPage(Now, WithGraph(page, g)))
  <2> TAKE g
  <2> DEFINE p == WithGraph(page, g)
  <2>1. DOMAIN p = Fields /\ p.groupBy = page.groupBy /\ Filters(p) = Filters(page) /\ p.scope = page.scope
    BY <1>1 DEF WithGraph, Fields, Filters
  <2> HIDE DEF p
  <2>2. Gives(Now, SetPage(Now, p), p)
    BY <2>1, SetGives
  <2> QED BY <1>1, <2>1, <2>2 DEF Gives, Holds, p, Here, Sound
<1>3. CASE Snapshot
  <2>1. PICK g, kept : Become(Select(SetPage(Now, WithGraph(page, g)), kept))
    BY <1>3, Zenon DEF Snapshot
  <2>2. Holds(Select(SetPage(Now, WithGraph(page, g)), kept))
    BY <1>2, SelectHolds
  <2> QED BY <1>0, <2>1, <2>2 DEF Lands
<1>4. CASE Patch
  <2>1. PICK g : Become(SetPage(Now, WithGraph(page, g)))
    BY <1>4, Zenon DEF Patch
  <2> QED BY <1>0, <1>2, <2>1 DEF Lands
<1>5. CASE CapacityFrame
  <2>1. PICK feed : Become(Set(Now, "feed", feed))
    BY <1>5, Zenon DEF CapacityFrame
  <2> QED BY <1>0, <2>1, SetHolds DEF Lands
<1>6. CASE Subscribe
  <2>1. PICK s, stale, sel :
          LET t == IF stale THEN Set(Now, "scope", s) ELSE Now
          IN  /\ stale \in BOOLEAN /\ (stale => s # page.scope)
              /\ Become(SetPage(t, [t.page EXCEPT !.scope = s, !.nodes = {}, !.edges = <<>>, !.sick = {},
                                                 !.feed = NoFeed, !.query = NoQuery, !.health = "",
                                                 !.kinds = {}, !.selected = sel]))
    BY <1>6, Zenon DEF Subscribe
  <2> DEFINE t == IF stale THEN Set(Now, "scope", s) ELSE Now
             p == [t.page EXCEPT !.scope = s, !.nodes = {}, !.edges = <<>>, !.sick = {},
                                 !.feed = NoFeed, !.query = NoQuery, !.health = "",
                                 !.kinds = {}, !.selected = sel]
             u == SetPage(t, p)
             q == [page EXCEPT !.scope = s]
  <2>2. Become(u) /\ stale \in BOOLEAN /\ (stale => s # page.scope)
    BY <2>1
  <2>3. Gives(Now, Set(Now, "scope", s), q)
    BY <1>1, SetGives
  <2>4. q.scope = s /\ q.groupBy = page.groupBy /\ Filters(q) = Filters(page)
    BY <1>1 DEF Fields, Filters
  <2> HIDE DEF q
  <2>5. /\ IsTab(t) /\ (Settled(Now) => Settled(t)) /\ (Knows(Now) => Knows(t)) /\ t.page.groupBy = page.groupBy
        /\ Comes(Now) => Comes(t) \/ t.page.groupBy = "nodes"
        /\ s # page.scope /\ Knows(Now) => s # t.fit.scope \/ t.fit.pending
    <3>1. CASE stale
      <4>1. Owes(Now, t) /\ t.page.scope = s
        BY <2>3, <2>4, <3>1 DEF Gives
      <4>2. s # page.scope /\ Knows(Now) => t.fit.pending
        BY <1>1, <4>1 DEF Owes, Knows
      <4> QED BY <1>1, <2>3, <2>4, <3>1, <4>2 DEF Gives
    <3>2. CASE ~stale
      BY <1>1, <3>2 DEF Knows
    <3> QED BY <3>1, <3>2
  <2> HIDE DEF t
  <2>6. DOMAIN p = Fields
    BY <2>5 DEF IsTab
  <2>7. /\ p.selected = sel /\ p.groupBy = t.page.groupBy /\ p.scope = s
        /\ (IF p.groupBy = "nodes" THEN p.feed.nodes ELSE p.nodes) = {}
    BY <2>5 DEF IsTab, Fields, NoFeed
  <2>8. Gives(t, u, p)
    BY <2>5, <2>6, SetGives
  <2> HIDE DEF p, u
  <2>9. NoGraph(u)
    BY <2>7, <2>8 DEF NoGraph, Gives
  <2>10. Sound(u) /\ (Comes(Now) => Comes(u) \/ u.page.groupBy = "nodes" \/ u.page.selected = None)
    BY <2>5, <2>7, <2>8 DEF Gives, Sound
  <2>11. u.page.scope # page.scope /\ Knows(Now) /\ (NoGraph(u) => Empty(u)) => u.fit.pending
    BY <2>5, <2>7, <2>8, <2>9 DEF Gives, Owes
  <2> QED BY <2>2, <2>10, <2>11 DEF Lands, Moves
<1> QED BY <1>3, <1>4, <1>5, <1>6 DEF Hears

\* The frames and the timer.
LEMMA RunSelFitFine ==
  ASSUME NEW t, Here(t)
  PROVE  Fine(RunSelFit(t))
<1> DEFINE t1 == [t EXCEPT !.motion.pending = {}]
<1>1. /\ IsTab(t1) /\ t1.page = t.page /\ t1.canvas = t.canvas /\ t1.camera = t.camera /\ t1.fit = t.fit
      /\ t1.screen = t.screen /\ t1.motion.missed = t.motion.missed /\ Comes(t1)
  BY DEF IsTab, Comes, Here, Sound
<1>2. \/ RunSelFit(t) = t /\ (t.motion.pending = {} \/ t.screen.w >= t.screen.full)
      \/ \E c, aim : RunSelFit(t) = AnimateTo(t1, c, aim)
  BY DEF RunSelFit, t1
<1> HIDE DEF t1
<1>3. Same(t, t1)
  BY <1>1, MotionStays DEF Here, Sound
<1>4. \A c, aim : Fine(AnimateTo(t1, c, aim))
  <2> TAKE c, aim
  <2>1. Stays(t1, AnimateTo(t1, c, aim))
    BY <1>1, AnimateToStays
  <2> QED BY <1>1, <1>3, <2>1 DEF Stays, Same, Near, Knows, Fine, Here, Sound
<1>5. t.motion.pending = {} \/ t.screen.w >= t.screen.full => Fine(t)
  BY DEF Fine, Comes
<1> QED BY <1>2, <1>4, <1>5

LEMMA TicksLand ==
  ASSUME IsTab(Now), Ticks
  PROVE  Lands
<1>0. Holds(Now) /\ Here(Now) /\ (\A u : Holds(u) => Fine(u)) /\ \A t, u : Fine(t) /\ Stays(t, u) => Fine(u)
  BY NowHolds DEF Holds
<1>1. Now.page = page /\ Now.motion = motion /\ Now.screen = screen
  BY DEF Now
<1>2. \A t : Here(t) => Fine(RunSelFit(t))
  BY RunSelFitFine
<1>3. CASE Reflow
  <2>1. PICK w, aim : Become([Now EXCEPT !.screen.w = w, !.screen.resized = TRUE, !.motion.aim = aim])
    BY <1>3 DEF Reflow
  <2>2. Fine([Now EXCEPT !.screen.w = w, !.screen.resized = TRUE, !.motion.aim = aim])
    BY DEF IsTab, Fine, Comes, Here, Sound, Settled, Knows, Now
  <2> QED BY <2>1, <2>2 DEF Lands
<1>4. CASE ResizeFrame
  <2> DEFINE t == [Now EXCEPT !.screen.resized = FALSE]
             m == [t EXCEPT !.motion.missed = TRUE]
  <2>1. /\ IsTab(t) /\ t.motion = motion /\ t.page = page /\ (Knows(Now) => Knows(t))
        /\ IsTab(m) /\ m.motion.pending = motion.pending /\ Here(m)
    BY <1>1 DEF IsTab, Knows, Here, Sound, Settled
  <2>2. Become(IF motion.pending # {} THEN RunSelFit(m) ELSE IF motion.anim # None THEN m ELSE Moved(t, camera))
    BY <1>4, Zenon DEF ResizeFrame
  <2> HIDE DEF t, m
  <2>3. Fine(RunSelFit(m))
    BY <1>2, <2>1
  <2>4. motion.pending = {} => Fine(m)
    BY <2>1 DEF Fine, Comes
  <2>5. motion.pending = {} => Fine(Moved(t, camera))
    <3>1. Stays(t, Moved(t, camera)) /\ Settled(Moved(t, camera))
      BY <2>1, MovedStays, MovedSettles
    <3> QED BY <2>1, <3>1 DEF Stays, Same, Near, Knows, Fine, Here, Sound, Comes
  <2> QED BY <2>2, <2>3, <2>4, <2>5 DEF Lands
<1>5. CASE FitFrame
  <2> DEFINE t == [Now EXCEPT !.motion.frame = None]
             to == IF motion.frame[1] = "to" THEN motion.frame[2] ELSE FitOne(t, motion.frame[2])
  <2>1. /\ IsTab(t) /\ t.page = Now.page /\ t.canvas = Now.canvas /\ t.camera = Now.camera /\ t.fit = Now.fit
        /\ t.screen = Now.screen /\ t.motion.missed = Now.motion.missed /\ t.motion.pending = Now.motion.pending
    BY DEF IsTab
  <2>2. Become(IF motion.frame[1] = "sel" THEN RunSelFit(t) ELSE AnimateTo(t, to, motion.aim))
    BY <1>5, Zenon DEF FitFrame
  <2> HIDE DEF t, to
  <2>3. Here(t)
    <3>1. Same(Now, t)
      BY <2>1, MotionStays
    <3> QED BY <1>0, <3>1, NowHolds
  <2>4. motion.frame[1] # "sel" => Fine(t)
    BY <1>1, <2>1, <2>3 DEF Fine, Comes
  <2>5. Fine(RunSelFit(t))
    BY <1>2, <2>3
  <2>6. motion.frame[1] # "sel" => Fine(AnimateTo(t, to, motion.aim))
    BY <1>0, <2>1, <2>4, AnimateToStays
  <2> QED BY <2>2, <2>5, <2>6 DEF Lands
<1>6. CASE Animate
  <2> DEFINE t == Moved(Now, motion.anim[1])
             u == [t EXCEPT !.motion.anim = None]
  <2>1. Stays(Now, t)
    BY MovedStays
  <2>2. Become(u)
    BY <1>6 DEF Animate
  <2> HIDE DEF t
  <2>3. /\ IsTab(u) /\ u.page = t.page /\ u.canvas = t.canvas /\ u.camera = t.camera /\ u.fit = t.fit
        /\ u.screen = t.screen /\ u.motion.missed = t.motion.missed /\ IsTab(t) /\ (Comes(t) => Comes(u))
    BY <2>1 DEF IsTab, Stays, Same, Near, Comes
  <2> HIDE DEF u
  <2>4. Stays(t, u)
    BY <2>3, MotionStays DEF Stays
  <2> QED BY <1>0, <2>1, <2>2, <2>4 DEF Lands
<1>7. CASE TimerFires
  <2> DEFINE t == [Now EXCEPT !.canvas.timer = FALSE]
  <2>1. Holds(t)
    BY <1>0, TimerHolds
  <2>2. Become(Select(t, None))
    BY <1>7, Zenon DEF TimerFires
  <2> QED BY <1>0, <2>1, <2>2, SelectHolds DEF Lands
<1> QED BY <1>3, <1>4, <1>5, <1>6, <1>7 DEF Ticks

-----------------------------------------------------------------------------
(* The theorems.                                                           *)
Keeps ==
  /\ IsTab(Now)' /\ (Settled(Now) => Settled(Now)') /\ (Knows(Now) => Knows(Now)')
  /\ OnItsWay => OnItsWay' \/ page'.groupBy = "nodes" \/ page'.selected = None \/ UNCHANGED vars
  /\ page'.scope # page.scope /\ Knows(Now) /\ TypeOK' => fit'.pending

LEMMA NextKeeps ==
  ASSUME IsTab(Now), [Next]_vars
  PROVE  Keeps
<1>1. CASE Next
  <2>1. Lands
    BY <1>1, ActsLand, LooksLand, HearsLand, TicksLand DEF Next
  <2>2. ASSUME NEW u, Fine(u), Become(u)
        PROVE  Keeps
    <3>1. /\ IsTab(Now)' /\ (Settled(Now) => Settled(Now)') /\ (Knows(Now) => Knows(Now)')
          /\ OnItsWay => OnItsWay' \/ page'.groupBy = "nodes" \/ page'.selected = None
          /\ page' = u.page
      BY <2>2, BecomeSound DEF Fine, Here
    <3> QED BY <2>2, <3>1 DEF Keeps, Fine, Here
  <2>3. ASSUME NEW u, Moves(u), Become(u)
        PROVE  Keeps
    <3>1. /\ IsTab(Now)' /\ (Settled(Now) => Settled(Now)') /\ (Knows(Now) => Knows(Now)')
          /\ OnItsWay => OnItsWay' \/ page'.groupBy = "nodes" \/ page'.selected = None
          /\ page' = u.page /\ fit' = u.fit /\ canvas' = u.canvas
      BY <2>3, BecomeSound DEF Moves
    <3>2. TypeOK' => (NoGraph(u) => Empty(u))
      BY <3>1 DEF TypeOK, NoGraph, Empty, Now
    <3> QED BY <2>3, <3>1, <3>2 DEF Keeps, Moves
  <2> QED BY <2>1, <2>2, <2>3 DEF Lands
<1>2. CASE UNCHANGED vars
  <2>1. Now' = Now /\ page' = page
    BY <1>2 DEF vars, Now
  <2> QED BY <1>2, <2>1 DEF Keeps
<1> QED BY <1>1, <1>2

LEMMA InitIsTab ==
  ASSUME Init
  PROVE  IsTab(Now) /\ Knows(Now) /\ (TypeOK => Settled(Now))
<1>1. PICK s \in Starts :
        /\ page = [EmptyPage(s.scope) EXCEPT !.groupBy = s.groupBy, !.rels = s.rels]
        /\ canvas = [expanded |-> {}, layout |-> Layout(page, {}), hover |-> None, capHover |-> None,
                     timer |-> FALSE]
        /\ camera = [scale |-> 100, tx |-> 0, ty |-> 0]
        /\ motion = [anim |-> None, frame |-> None, pending |-> {}, aim |-> None, missed |-> FALSE]
        /\ fit = [scope |-> s.scope, key |-> FitKey(page), pending |-> TRUE, first |-> TRUE, fresh |-> TRUE]
        /\ screen = [full |-> s.size[1], w |-> s.size[1], h |-> s.size[2], inset |-> s.inset,
                     phone |-> s.phone, resized |-> FALSE]
  BY Zenon DEF Init
<1>2. IsTab(Now) /\ Knows(Now)
  BY <1>1 DEF IsTab, Knows, Now, Fields, EmptyPage
<1>3. NoGraph(Now)
  BY <1>1 DEF NoGraph, Now, EmptyPage, NoFeed
<1>4. TypeOK => Clamped(Now, camera) = camera
  BY <1>3 DEF TypeOK, Clamped
<1> QED BY <1>2, <1>4 DEF Settled, Now

\* A selection fit that waits for the drawer is never lost, but to the fit of
\* a row or of a filter, whatever the operator does within a frame and
\* whatever the stream brings (Topology.tsx, the selection fit).
THEOREM FitAlwaysComes == Spec => FitComes
<1>1. Init => IsTab(Now)
  BY InitIsTab
<1>2. IsTab(Now) /\ [Next]_vars => IsTab(Now)'
  BY NextKeeps DEF Keeps
<1>3. IsTab(Now) /\ [Next]_vars =>
        (OnItsWay => OnItsWay' \/ page'.groupBy = "nodes" \/ page'.selected = None \/ UNCHANGED vars)
  BY NextKeeps DEF Keeps
<1> QED BY <1>1, <1>2, <1>3, PTL DEF Spec, FitComes

\* As long as sizes and zooms are whole numbers, the camera is one the clamp
\* would leave alone, after every handler with all its effects and after
\* every frame, but while a resize is not heard of or gave way to a fit
\* (Topology.tsx:965 and :794).
THEOREM CameraStaysInFrame == Spec /\ []TypeOK => []InFrame
<1>1. Init /\ TypeOK => IsTab(Now) /\ Settled(Now)
  BY InitIsTab
<1>2. IsTab(Now) /\ Settled(Now) /\ [Next]_vars => IsTab(Now)' /\ Settled(Now)'
  BY NextKeeps DEF Keeps
<1>3. TypeOK /\ Settled(Now) => InFrame
  <2> SUFFICES ASSUME TypeOK, Settled(Now)
               PROVE  InFrame
    OBVIOUS
  <2>1. Pixels(Now)
    BY DEF TypeOK, Camera, Pixels, Extent, Sized, View, Now
  <2> QED BY <2>1 DEF Settled, InFrame, Now
<1> QED BY <1>1, <1>2, <1>3, PTL DEF Spec

\* A subscription to another scope owes it a fit when its effects have run,
\* also when they saw the old graph in the new scope first: that graph does
\* not spend it (Topology.tsx:726).
THEOREM NewScopeIsOwed == Spec /\ []TypeOK => ScopeIsOwed
<1>1. Init => IsTab(Now) /\ Knows(Now)
  BY InitIsTab
<1>2. IsTab(Now) /\ Knows(Now) /\ [Next]_vars => IsTab(Now)' /\ Knows(Now)'
  BY NextKeeps DEF Keeps
<1>3. IsTab(Now) /\ Knows(Now) /\ TypeOK' /\ [Next]_vars => (page'.scope # page.scope => fit'.pending)
  BY NextKeeps DEF Keeps
<1>4. IsTab(Now) /\ Knows(Now) /\ TypeOK' /\ [Next]_vars => [page'.scope # page.scope => fit'.pending]_vars
  BY <1>3
<1> QED BY <1>1, <1>2, <1>4, PTL DEF Spec, ScopeIsOwed
=============================================================================
