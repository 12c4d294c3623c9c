--------------------------- MODULE CapacityLayout ---------------------------
(***************************************************************************)
(* The Nodes view: a row per node with a usage bar over a request bar,     *)
(* each cut into a segment per pod, and a card per pod when the row is     *)
(* expanded (capacityLayout.ts).                                           *)
(*                                                                         *)
(* facts is what the capacity feed says, per item: host (the n of a node,  *)
(* 0 when unscheduled or unknown), own (the pods of the shown namespace),  *)
(* all (the cluster scope, where every pod is own), sick (not healthy),    *)
(* use, req, lim (pods), alloc, total (nodes), and metrics, whether any    *)
(* usage is reported. An amount that is not set is NotSet. Lengths are     *)
(* rounded down to whole pixels; the room that labels need is left out.    *)
(***************************************************************************)
EXTENDS KindLayout

TrackMax == 1080
TrackMin == 130
RowLeft == 48
LabelH == 22
BarH == 18
BarGap == 3
RowGap == 26
BulletH == 24
BulletGap == 8
BulletPad == 7
BulletNameH == 14
BulletCardH == BulletPad + BulletNameH + BulletH + BulletPad
AxisW == 30
SegFold == 4
MinSeg == 4
Top == 28
BottomPad == 12
BarValueW == 120
Unscheduled == 0

NotSet == -1
Amount(v) == IF v = NotSet THEN 0 ELSE v
Or(v, w) == IF v = NotSet THEN w ELSE v
MaxOf(a, b) == IF a > b THEN a ELSE b

IsNode(i) == i[3] = "Node"
IsPod(i) == i[3] = "Pod"
UseOf(facts, i) == IF facts.metrics THEN Amount(facts.use[i]) ELSE 0
ReqOf(facts, i) == Amount(facts.req[i])
Total(S, f(_)) == MapThenSumSet(f, S)

\* A slip: the host is taken as stated.
HostStated(nodes, facts, p) == facts.host[p]
(* A pod of a node that the feed does not list is unscheduled, too. *)
HostOf(nodes, facts, p) ==
  IF \E i \in nodes : IsNode(i) /\ i[2] = facts.host[p] THEN facts.host[p] ELSE Unscheduled
PodsOn(nodes, facts, h) == {p \in nodes : IsPod(p) /\ HostOf(nodes, facts, p) = h}

(* Nodes with pods of the namespace first, the unscheduled pods last. *)
HostNames(nodes, facts) ==
  LET named == {i[2] : i \in {j \in nodes : IsNode(j)}}
      Leads(h) == ~facts.all /\ PodsOn(nodes, facts, h) \cap facts.own # {}
      Rank(h) == IF Leads(h) THEN 0 ELSE 1
  IN  Listed(named, LAMBDA a, b : Rank(a) < Rank(b) \/ (Rank(a) = Rank(b) /\ a < b))
        \o (IF PodsOn(nodes, facts, Unscheduled) = {} THEN <<>> ELSE <<Unscheduled>>)

NodeOf(h) == <<"card", h, "Node">>
AllocOf(facts, h) == IF h = Unscheduled THEN NotSet ELSE facts.alloc[NodeOf(h)]
TotalOf(facts, h) == IF h = Unscheduled THEN NotSet ELSE Or(facts.total[NodeOf(h)], facts.alloc[NodeOf(h)])

(* One scale for all rows: the longest track, or bar, is TrackMax long. *)
Demand(facts, pods) == {Total(pods, LAMBDA p : UseOf(facts, p)), Total(pods, LAMBDA p : ReqOf(facts, p))}
Ceiling(nodes, facts, hosts) ==
  Max({1} \cup UNION {{Amount(TotalOf(facts, h))} \cup Demand(facts, PodsOn(nodes, facts, h)) : h \in ToSet(hosts)})
Px(v, ceiling) == (v * TrackMax) \div ceiling

(* One bar of a row: items are pods, biggest first. Healthy pods too thin  *)
(* to see fold into one block when there are two of them; a single one is  *)
(* widened. keep holds the pods that must stay visible.                    *)
BarOf(drawn, folded, xs, widths, blockX, blockW, y) ==
  [segs |-> [j \in DOMAIN drawn |-> [id |-> drawn[j], x |-> xs[j], y |-> y, w |-> widths[j]]],
   folded |-> folded, blockX |-> blockX, blockW |-> blockW,
   endX |-> blockX + (IF folded = {} THEN 0 ELSE blockW)]
BarOfDrawn(drawn, folded, widths, blockW, y) ==
  BarOf(drawn, folded, [j \in DOMAIN drawn |-> RowLeft + Sum(SubSeq(widths, 1, j - 1))], widths,
        RowLeft + Sum(widths), blockW, y)
BarFolding(drawn, folded, amount, ceiling, y) ==
  BarOfDrawn(drawn, folded, [j \in DOMAIN drawn |-> MaxOf(SegFold, Px(amount[drawn[j]], ceiling))],
             MaxOf(MinSeg, Px(MapThenSumSet(LAMBDA p : amount[p], folded), ceiling)), y)
BarHiding(items, folded, amount, ceiling, y) ==
  BarFolding(SelectSeq(items, LAMBDA p : p \notin folded), folded, amount, ceiling, y)
BuildCapBar(items, amount, ceiling, keep, y) ==
  LET small == {p \in ToSet(items) : Px(amount[p], ceiling) < SegFold /\ p \notin keep}
  IN  BarHiding(items, IF Cardinality(small) >= 2 THEN small ELSE {}, amount, ceiling, y)

(* The card around a bar, as cells have it: a centre and a size. *)
Boxed(i, x, y, w, h) == [x |-> x + w \div 2, y |-> y + h \div 2, w |-> w, h |-> h] @@ CardCell(i, NoGroup)

(* The grey block of the other namespaces, at the end of a bar. *)
Rest(pods, value, ceiling, x) ==
  [x |-> x, w |-> MaxOf(MinSeg, Px(value, ceiling)), count |-> Cardinality(pods)]

(* The pods of a row: its own, biggest first, and those of other namespaces. *)
Biggest(facts, p) == MaxOf(UseOf(facts, p), ReqOf(facts, p))
NearLimit(facts, p) == Amount(facts.lim[p]) > 0 /\ 10 * UseOf(facts, p) >= 9 * facts.lim[p]
Bigger(facts, a, b) ==
  \/ Biggest(facts, a) > Biggest(facts, b)
  \/ Biggest(facts, a) = Biggest(facts, b) /\ ByName(a, b)
Tenants(facts, pods, own) ==
  [pods |-> pods, own |-> own, others |-> pods \ own,
   items |-> Listed(own, LAMBDA a, b : Bigger(facts, a, b)),
   keep |-> {p \in own : NearLimit(facts, p) \/ p \in facts.sick},
   useSum |-> Total(pods, LAMBDA p : UseOf(facts, p)),
   reqSum |-> Total(pods, LAMBDA p : ReqOf(facts, p))]
TenantsAmong(facts, pods) == Tenants(facts, pods, IF facts.all THEN pods ELSE pods \cap facts.own)
TenantsOf(nodes, facts, h) == TenantsAmong(facts, PodsOn(nodes, facts, h))

(* The two bars of a row, their tracks, and the rest beside each. *)
ShownUse(facts, p) == IF facts.metrics THEN UseOf(facts, p) ELSE ReqOf(facts, p)
TrackW(room, t, ceiling) == MaxOf(TrackMin, Px(Or(room, MaxOf(t.useSum, t.reqSum)), ceiling))
Bars(facts, t, ceiling, h, y) ==
  [useBar |-> BuildCapBar(t.items, [p \in t.own |-> ShownUse(facts, p)], ceiling, t.keep, y),
   reqBar |-> BuildCapBar(SelectSeq(t.items, LAMBDA p : facts.req[p] # NotSet),
                          [p \in t.own |-> ReqOf(facts, p)], ceiling, t.keep, y + BarH + BarGap),
   trackW |-> TrackW(AllocOf(facts, h), t, ceiling), useTrackW |-> TrackW(TotalOf(facts, h), t, ceiling)]
Rests(facts, t, bars, ceiling) ==
  LET otherUse == Total(t.others, LAMBDA p : ShownUse(facts, p))
      otherReq == Total(t.others, LAMBDA p : ReqOf(facts, p))
  IN  [otherUse |-> IF t.others = {} THEN {} ELSE {Rest(t.others, otherUse, ceiling, bars.useBar.endX)},
       otherReq |-> IF otherReq = 0 THEN {} ELSE {Rest(t.others, otherReq, ceiling, bars.reqBar.endX)}]
RightEdge(t, bars, rests, ceiling) ==
  Max({RowLeft + Max({bars.trackW, bars.useTrackW}), bars.useBar.endX, bars.reqBar.endX,
       RowLeft + Max({bars.trackW, bars.useTrackW, Px(t.useSum, ceiling), Px(t.reqSum, ceiling)}) + BarValueW}
        \cup {r.x + r.w : r \in rests.otherUse \cup rests.otherReq})

(* The cards of an expanded row: one per own pod, one for all the others.  *)
FocusW(v, right, ceiling) ==
  Min({right - RowLeft + AxisW, AxisW + MaxOf(MinSeg, Px(v, ceiling)) + BarValueW})
BulletCard(j, v, right, ceiling, y) ==
  [x |-> RowLeft - AxisW, y |-> y + BulletGap + (j - 1) * (BulletCardH + BulletGap),
   w |-> right - RowLeft + AxisW, h |-> BulletCardH, focusW |-> FocusW(v, right, ceiling)]
Bullets(facts, t, right, ceiling, y) ==
  [bullets |-> [j \in DOMAIN t.items |->
     [id |-> t.items[j]]
       @@ BulletCard(j, MaxOf(Biggest(facts, t.items[j]), Amount(facts.lim[t.items[j]])), right, ceiling, y)],
   otherBullet |-> IF t.others = {} THEN {}
                   ELSE {BulletCard(Len(t.items) + 1, Max(Demand(facts, t.others)), right, ceiling, y)}]
NoBullets == [bullets |-> <<>>, otherBullet |-> {}]

(* The row of node h from height y on, and the items it anchors. *)
RowOf(facts, t, bars, rests, bullets, right, open, h, y) ==
  LET cards == Len(bullets.bullets) + Cardinality(bullets.otherBullet)
      alloc == AllocOf(facts, h)
  IN  [host |-> h, x |-> RowLeft, y |-> y, w |-> right - RowLeft,
       h |-> LabelH + 2 * BarH + BarGap + cards * (BulletCardH + BulletGap),
       pods |-> t.pods, own |-> t.own, useSum |-> t.useSum, reqSum |-> t.reqSum,
       overcommit |-> alloc # NotSet /\ t.reqSum > alloc, expanded |-> open]
      @@ bars @@ rests @@ bullets
HiddenAnchors(useBar, order, y) ==
  [j \in DOMAIN order |-> Boxed(order[j], useBar.blockX, y, useBar.blockW, BarH)]
Anchors(useBar, h, y) ==
  [j \in DOMAIN useBar.segs |->
    Boxed(useBar.segs[j].id, useBar.segs[j].x, useBar.segs[j].y, useBar.segs[j].w, BarH)]
    \o HiddenAnchors(useBar, Listed(useBar.folded, ByName), y + LabelH)
    \o IF h = Unscheduled THEN <<>> ELSE <<Boxed(NodeOf(h), RowLeft, y, 140, LabelH)>>

RowTo(facts, t, open, ceiling, h, y, bars, rests, right) ==
  [row |-> RowOf(facts, t, bars, rests,
                 IF open THEN Bullets(facts, t, right, ceiling, y + LabelH + 2 * BarH + BarGap) ELSE NoBullets,
                 right, open, h, y),
   nodes |-> Anchors(bars.useBar, h, y)]
RowBeside(facts, t, open, ceiling, h, y, bars, rests) ==
  RowTo(facts, t, open, ceiling, h, y, bars, rests, RightEdge(t, bars, rests, ceiling))
RowAround(facts, t, open, ceiling, h, y, bars) ==
  RowBeside(facts, t, open, ceiling, h, y, bars, Rests(facts, t, bars, ceiling))
Row(facts, t, expanded, ceiling, h, y) ==
  RowAround(facts, t, <<"host", h, "">> \in expanded, ceiling, h, y, Bars(facts, t, ceiling, h, y + LabelH))

AddRow(done, r) ==
  [rows |-> Append(done.rows, r.row), nodes |-> done.nodes \o r.nodes, y |-> done.y + r.row.h + RowGap]
Rows(nodes, facts, expanded, hosts, ceiling) ==
  FoldLeft(LAMBDA done, h : AddRow(done, Row(facts, TenantsOf(nodes, facts, h), expanded, ceiling, h, done.y)),
           [rows |-> <<>>, nodes |-> <<>>, y |-> Top], hosts)
RowsOf(nodes, facts, expanded, hosts) ==
  Rows(nodes, facts, expanded, hosts, Ceiling(nodes, facts, hosts))
CapacityOf(all) ==
  [nodes |-> all.nodes, edges |-> <<>>, bands |-> <<>>, rows |-> all.rows,
   w |-> Max({RowLeft + TrackMin} \cup {all.rows[j].x + all.rows[j].w : j \in DOMAIN all.rows}) + RowLeft,
   h |-> all.y - RowGap + BottomPad]
LayoutGraphByCapacity(nodes, facts, expanded) ==
  IF nodes = {} THEN EmptyLayout @@ [rows |-> <<>>]
  ELSE CapacityOf(RowsOf(nodes, facts, expanded, HostNames(nodes, facts)))
=============================================================================
