------------------------------ MODULE Viewport ------------------------------
(***************************************************************************)
(* How a box of the layout is framed in the view, and how far a view may   *)
(* be panned (viewport.ts). A scale is a whole number of percent, at least *)
(* one; lengths are whole pixels. A box is [minX, maxX, minY, maxY], a     *)
(* view [w, h, inset] with the toolbar over the top inset pixels, and a    *)
(* camera [scale, tx, ty]: layout point x is drawn at tx + x * scale.      *)
(***************************************************************************)
EXTENDS Integers, FiniteSetsExt

FitPadding == 60
NoCap == 1000000

Least(a, b) == IF a < b THEN a ELSE b
Most(a, b) == IF a > b THEN a ELSE b
Scaled(x, scale) == (x * scale) \div 100

(* The smallest box around centred boxes. *)
BoundingBox(B) ==
  [minX |-> Min({b.x - b.w \div 2 : b \in B}), maxX |-> Max({b.x + b.w \div 2 : b \in B}),
   minY |-> Min({b.y - b.h \div 2 : b \in B}), maxY |-> Max({b.y + b.h \div 2 : b \in B})]

(* A lone card may be enlarged 2.5 times, a large subtree 1.4 times. *)
SelectionMaxScale(w, h) ==
  LET area == Most(1, w * h)
      small(c) == c * c * (area \div 100) <= 100000000
  IN  IF area > 510000 THEN 140 ELSE Max({140} \cup {c \in 141..250 : small(c)})

(* All of the box in the view, centred below the toolbar. *)
Centred(box, view, availH, scale) ==
  [scale |-> scale,
   tx |-> view.w \div 2 - Scaled((box.minX + box.maxX) \div 2, scale),
   ty |-> view.inset + availH \div 2 - Scaled((box.minY + box.maxY) \div 2, scale)]
FitBox(box, view, maxScale, breathing) ==
  LET availH == Most(1, view.h - view.inset)
      w == Most(1, box.maxX - box.minX)
      h == Most(1, box.maxY - box.minY)
  IN  Centred(box, view, availH,
              Most(1, Scaled(Min({(100 * (view.w - 2 * FitPadding)) \div w,
                                  (100 * Most(1, availH - 2 * FitPadding)) \div h, maxScale}), breathing)))

\* A slip: as far as one card goes.
ZoomScaleBoundsOpen(layout, card, view) ==
  LET Fit(size) == FitBox([minX |-> 0, minY |-> 0, maxX |-> size.w, maxY |-> size.h], view, NoCap, 100).scale
  IN  [min |-> 1, max |-> Fit(card)]

(* From all of the layout (never enlarged) to one card (at most 3 times). *)
ZoomScaleBounds(layout, card, view) ==
  LET wide == [view EXCEPT !.w = Most(@, 2 * FitPadding + 1)]
      Fit(size) == FitBox([minX |-> 0, minY |-> 0, maxX |-> size.w, maxY |-> size.h], wide, NoCap, 100).scale
      low == Least(Fit(layout), 100)
  IN  [min |-> low, max |-> Most(low, Least(300, Fit(card)))]

\* A slip: an axis that overflows is centred as well.
AxisCentred(start, size, lo, hi, focus, scale) ==
  start + (size - Scaled(hi - lo, scale)) \div 2 - Scaled(lo, scale)

(* The width of the box in the view, no smaller than the floor. An axis    *)
(* that fits is centred, one that overflows pans to the focus but covers   *)
(* the view.                                                               *)
Axis(start, size, lo, hi, focus, scale) ==
  LET content == Scaled(hi - lo, scale)
      near == start + FitPadding - Scaled(lo, scale)
      far == start + size - FitPadding - Scaled(hi, scale)
  IN  IF content <= size - 2 * FitPadding
      THEN start + (size - content) \div 2 - Scaled(lo, scale)
      ELSE Least(Most(start + size \div 2 - Scaled(focus, scale), far), near)
PutAt(box, view, focus, scale) ==
  [scale |-> scale,
   tx |-> Axis(0, view.w, box.minX, box.maxX, focus.x, scale),
   ty |-> Axis(view.inset, Most(1, view.h - view.inset), box.minY, box.maxY, focus.y, scale)]
FitBoxFloored(box, view, maxScale, minScale, focus) ==
  PutAt(box, view, focus,
        Most(Least((100 * (view.w - 2 * FitPadding)) \div Most(1, box.maxX - box.minX), maxScale), minScale))

(* A pan an axis of the content allows: it covers the view, or is in it. *)
ClampPan(tx, ty, content, view) ==
  LET xEnd == view.w - FitPadding - content.w
      yEnd == view.h - FitPadding - content.h
      y0 == view.inset + FitPadding
      Clamp(t, a, b) == Least(Most(t, Least(a, b)), Most(a, b))
  IN  [tx |-> Clamp(tx, FitPadding, xEnd), ty |-> Clamp(ty, y0, yEnd)]
=============================================================================
