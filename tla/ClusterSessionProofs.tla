------------------------ MODULE ClusterSessionProofs ------------------------
(***************************************************************************)
(* What holds of a tab's cluster session for every set of contexts,        *)
(* namespaces and resources and every way to start: the types, and what    *)
(* the sidebar, the drawer, the pill, the badge and the URL may say.       *)
(***************************************************************************)
EXTENDS ClusterSession, FiniteSetTheorems, WellFoundedInduction, SequenceTheorems, TLAPS

USE SessionAssumption, NoneAssumption

Keys == Contexts \cup {Bogus, None}
Summaries == [ctx : Contexts, health : Healths]
ContextsStates ==
  [got : BOOLEAN, err : {"none", "auth", "down"}, reasons : SUBSET Contexts,
   fetch : {"none", "asked", "answered"}, answer : Answers \cup {None}]
NsConns == [up : BOOLEAN, sent : Lists \cup {None}, dirty : BOOLEAN, wire : Lists \cup {None}]
GrConns == [up : BOOLEAN, sent : Builds \cup {None}, dirty : BOOLEAN, wire : GraphEvents \cup {None}]

\* All a tab may hold, and its two streams.
Page ==
  [ctx : Keys, namespace : Namespaces \cup {None}, pending : Selectors \cup {None},
   contexts : ContextsStates,
   list : Lists \cup {None}, received : BOOLEAN, errored : BOOLEAN,
   live : [Namespaces -> Summaries \cup {None}], resolved : Contexts \cup {None}, notice : BOOLEAN,
   conn : {"connecting", "live", "offline"}, sub : Keys, filtered : BOOLEAN, history : Seq(Ids),
   graph : SUBSET Ids, capacity : SUBSET Ids, selected : Ids \cup {None}, last : Ids \cup {None},
   nsConn : NsConns, grConn : GrConns]

TypeInv ==
  /\ page \in Page
  /\ world \in [Contexts -> Lists] /\ objects \in [Contexts -> [Namespaces -> SUBSET Objects]]
  /\ had \in [Contexts -> [Namespaces -> SUBSET (Healths \cup {Absent})]]
  /\ given.broken \subseteq Contexts /\ failed \subseteq given.broken

\* One resource of a name in a namespace of a context.
Unique(ids) ==
  \A a, b \in ids : a.ctx = b.ctx /\ a.ns = b.ns /\ RefOf[a.obj] = RefOf[b.obj] => a = b

\* A health a summary may carry: one the namespace had, or none for an absent one.
Reported(c, n, h) == h \in had[c][n] \/ (h = 0 /\ Absent \in had[c][n])

\* The clusters: names are unique, and the history remembers what is.
WorldInv ==
  /\ \A c \in Contexts, n \in Namespaces :
       \A a, b \in objects[c][n] : RefOf[a] = RefOf[b] => a = b
  /\ \A c \in Contexts, n \in Namespaces : world[c][n] \in had[c][n]

\* What a tab holds is of the context its graph subscription was opened for.
OfSub(p) ==
  /\ \A i \in p.graph \cup p.capacity : i.ctx = p.sub
  /\ p.selected # None => p.selected.ctx = p.sub
  /\ \A k \in DOMAIN p.history : p.history[k].ctx = p.sub
  /\ Unique(p.graph) /\ Unique(p.capacity)
  /\ p.sub = None => /\ p.graph = {} /\ p.capacity = {} /\ p.selected = None /\ p.history = <<>>
                     /\ ~p.grConn.up /\ p.grConn.wire = None

\* That context is the one on screen, and the graph that of its namespace.
InScope(p) ==
  /\ p.sub = IF p.ctx = None \/ p.namespace = None THEN None ELSE p.ctx
  /\ \A i \in p.graph : i.ns = p.namespace
  /\ p.grConn.up => p.ctx \in Contexts /\ p.namespace \in Namespaces
  /\ p.grConn.wire # None =>
       /\ p.grConn.up /\ Unique(p.grConn.wire.build.nodes)
       /\ \A i \in p.grConn.wire.build.nodes : i.ctx = p.ctx /\ i.ns = p.namespace
       /\ Reported(p.ctx, p.namespace, p.grConn.wire.build.health)

\* Lists are of the context on screen, summaries of the one they name.
Listing(p) ==
  /\ p.list # None => p.ctx \in Contexts /\ \A n \in Namespaces : p.list[n] \in had[p.ctx][n]
  /\ p.nsConn.up => p.ctx \in Contexts
  /\ p.nsConn.wire # None =>
       p.nsConn.up /\ \A n \in Namespaces : p.nsConn.wire[n] \in had[p.ctx][n]
  /\ \A n \in Namespaces :
       p.live[n] # None => Reported(p.live[n].ctx, n, p.live[n].health)

\* While the pill is not live, the graph stream still owes its snapshot, or
\* the last word came from a contexts list that failed.
Owes(p) == ~p.grConn.up \/ (p.grConn.wire # None /\ p.grConn.wire.event = "snapshot")
Pill(p) ==
  /\ p.conn = "connecting" => Owes(p)
  /\ p.conn = "offline" => Owes(p) \/ (p.contexts.err = "down" /\ p.contexts.fetch = "none")
  /\ p.contexts.fetch = "answered" => p.contexts.answer # None

\* The namespace of a tab is one its list has.
Placed(p) == Names(NamespaceList(p)) # {} => p.namespace \in Names(NamespaceList(p))

PageInv(p) == OfSub(p) /\ InScope(p) /\ Listing(p) /\ Pill(p) /\ Placed(p)

SessionInv == TypeInv /\ WorldInv /\ PageInv(page)

-----------------------------------------------------------------------------
(***************************************************************************)
(* Order lemmas: a finite set with a strict total order has a first        *)
(* element, so Top is one, and the badge always finds the next.            *)
(***************************************************************************)
StrictTotal(R, S) ==
  /\ \A a \in S : <<a, a>> \notin R
  /\ \A a, b, c \in S : <<a, b>> \in R /\ <<b, c>> \in R => <<a, c>> \in R
  /\ \A a, b \in S : a # b => <<a, b>> \in R \/ <<b, a>> \in R

FirstOf(R, S, a) == \A b \in S \ {a} : <<a, b>> \in R

\* The first element of a finite set under an order given as a set of pairs.
LEMMA FirstElement ==
  ASSUME NEW S, NEW R, IsFiniteSet(S), S # {}, StrictTotal(R, S)
  PROVE  \E a \in S : FirstOf(R, S, a)
<1> USE DEF StrictTotal, FirstOf
<1> DEFINE Below(a) == {b \in S : <<b, a>> \in R}
           T == {Below(a) : a \in S}
<1>1. T \subseteq FiniteSubsetsOf(S)
  BY FS_Subset DEF FiniteSubsetsOf
<1>2. T # {}
  <2>1. PICK a \in S : TRUE
    OBVIOUS
  <2>2. Below(a) \in T
    BY <2>1
  <2> QED BY <2>2
<1>3. IsWellFoundedOn(StrictSubsetOrdering(S), FiniteSubsetsOf(S))
  BY FS_StrictSubsetOrderingWellFounded
<1>4. PICK X \in T : \A Y \in T : <<Y, X>> \notin StrictSubsetOrdering(S)
  BY <1>1, <1>2, <1>3, WFMin
<1>5. PICK a \in S : X = Below(a)
  OBVIOUS
<1>6. Below(a) = {}
  <2> SUFFICES ASSUME NEW b \in Below(a) PROVE FALSE
    OBVIOUS
  <2>1. ASSUME NEW d \in Below(b) PROVE d \in Below(a)
    <3>1. d \in S /\ <<d, b>> \in R
      BY <2>1
    <3>2. b \in S /\ <<b, a>> \in R
      OBVIOUS
    <3>3. <<d, a>> \in R
      BY <3>1, <3>2
    <3> QED BY <3>1, <3>3
  <2>2. b \notin Below(b) /\ Below(b) \subseteq S /\ Below(a) \subseteq S
    OBVIOUS
  <2>3. <<Below(b), Below(a)>> \in StrictSubsetOrdering(S)
    BY <2>1, <2>2 DEF StrictSubsetOrdering
  <2> QED BY <1>4, <1>5, <2>3
<1> QED BY <1>6

\* Severities and names compare as numbers do.
LEMMA ListValues ==
  ASSUME NEW list \in Lists, NEW n \in Namespaces
  PROVE  list[n] \in Nat /\ n \in Nat /\ (list[n] # Absent => list[n] \in Healths)
<1>1. list[n] \in Healths \cup {Absent} /\ n \in Nat
  BY DEF Lists
<1>2. Healths \cup {Absent} \subseteq Nat
  BY DEF Absent
<1> QED BY <1>1, <1>2

\* Top is the first of a nonempty set of namespaces.
LEMMA TopFirst ==
  ASSUME NEW list \in Lists, NEW S \in SUBSET Namespaces, S # {}
  PROVE  Top(list, S) \in S /\ \A b \in S \ {Top(list, S)} : Before(list, Top(list, S), b)
<1> DEFINE R == {x \in S \X S : Before(list, x[1], x[2])}
<1>1. \A a, b \in S : <<a, b>> \in R <=> Before(list, a, b)
  OBVIOUS
<1> HIDE DEF R
<1>2. IsFiniteSet(S)
  BY FS_Subset
<1>3. \A a \in S : ~Before(list, a, a)
  BY ListValues DEF Before
<1>4. ASSUME NEW a \in S, NEW b \in S, NEW c \in S, Before(list, a, b), Before(list, b, c)
      PROVE  Before(list, a, c)
  BY <1>4, ListValues DEF Before
<1>5. ASSUME NEW a \in S, NEW b \in S, a # b PROVE Before(list, a, b) \/ Before(list, b, a)
  <2>1. list[a] \in Nat /\ list[b] \in Nat /\ a \in Nat /\ b \in Nat
    BY ListValues
  <2> QED BY <1>5, <2>1 DEF Before
<1>6. StrictTotal(R, S)
  BY <1>1, <1>3, <1>4, <1>5 DEF StrictTotal
<1>7. \E a \in S : FirstOf(R, S, a)
  BY <1>2, <1>6, FirstElement
<1> QED BY <1>1, <1>7 DEF Top, FirstOf

\* The last of a nonempty set of namespaces.
LEMMA LastElement ==
  ASSUME NEW list \in Lists, NEW S \in SUBSET Namespaces, S # {}
  PROVE  \E a \in S : \A b \in S \ {a} : Before(list, b, a)
<1> DEFINE R == {x \in S \X S : Before(list, x[2], x[1])}
<1>1. \A a, b \in S : <<a, b>> \in R <=> Before(list, b, a)
  OBVIOUS
<1> HIDE DEF R
<1>2. IsFiniteSet(S)
  BY FS_Subset
<1>3. \A a \in S : ~Before(list, a, a)
  BY ListValues DEF Before
<1>4. ASSUME NEW a \in S, NEW b \in S, NEW c \in S, Before(list, b, a), Before(list, c, b)
      PROVE  Before(list, c, a)
  BY <1>4, ListValues DEF Before
<1>5. ASSUME NEW a \in S, NEW b \in S, a # b PROVE Before(list, a, b) \/ Before(list, b, a)
  <2>1. list[a] \in Nat /\ list[b] \in Nat /\ a \in Nat /\ b \in Nat
    BY ListValues
  <2> QED BY <1>5, <2>1 DEF Before
<1>6. StrictTotal(R, S)
  BY <1>1, <1>3, <1>4, <1>5 DEF StrictTotal
<1>7. \E a \in S : FirstOf(R, S, a)
  BY <1>2, <1>6, FirstElement
<1> QED BY <1>1, <1>7 DEF FirstOf

\* Of two namespaces only one comes before the other.
LEMMA BeforeOneWay ==
  ASSUME NEW list \in Lists, NEW a \in Namespaces, NEW b \in Namespaces, Before(list, a, b)
  PROVE  ~Before(list, b, a) /\ a # b
  BY ListValues DEF Before

\* The jump reaches every troubled namespace: no proper part is closed under it.
LEMMA JumpLeaves ==
  ASSUME NEW list \in Lists, NEW S \in SUBSET Troubled(list), S # {}, S # Troubled(list)
  PROVE  \E n \in S : NextTroubled(list, n) \notin S
<1> DEFINE T == Troubled(list)
           After(n) == {m \in T : Before(list, n, m)}
<1>0. T \subseteq Namespaces
  BY DEF Troubled, Real, Names
<1>1. \A n \in T : NextTroubled(list, n) = IF After(n) # {} THEN Top(list, After(n)) ELSE Top(list, T)
  BY DEF NextTroubled
<1> DEFINE x == Top(list, T \ S)
<1>2. x \in T \ S /\ \A b \in (T \ S) \ {x} : Before(list, x, b)
  BY <1>0, TopFirst
<1> HIDE DEF T, x
<1>3. CASE x = Top(list, T)
  <2>1. PICK z \in S : \A b \in S \ {z} : Before(list, b, z)
    BY <1>0, LastElement DEF T
  <2>2. z \in T /\ x \notin S
    BY <1>2, <2>1 DEF T
  <2>3. CASE After(z) = {}
    BY <1>1, <1>3, <2>2, <2>3
  <2>4. CASE After(z) # {}
    <3>1. Top(list, After(z)) \in After(z)
      BY <1>0, <2>4, TopFirst
    <3>2. ASSUME NEW m \in After(z), m \in S PROVE FALSE
      <4>1. m \in Namespaces /\ z \in Namespaces /\ Before(list, z, m)
        BY <1>0, <2>2
      <4> QED BY <2>1, <3>2, <4>1, BeforeOneWay
    <3> QED BY <1>1, <2>2, <2>4, <3>1, <3>2
  <2> QED BY <2>3, <2>4
<1>4. CASE x # Top(list, T)
  <2> DEFINE B == {m \in T : Before(list, m, x)}
  <2>1. Top(list, T) \in B
    BY <1>0, <1>2, <1>4, TopFirst
  <2>2. PICK y \in B : \A b \in B \ {y} : Before(list, b, y)
    BY <1>0, <2>1, LastElement
  <2>3. y \in S
    <3>1. y \in T /\ Before(list, y, x)
      OBVIOUS
    <3> QED BY <1>0, <1>2, <3>1, BeforeOneWay
  <2>4. x \in After(y) /\ y \in T
    BY <1>2
  <2>5. ASSUME NEW m \in After(y), m # x PROVE ~Before(list, m, x)
    <3>1. m \in T /\ Before(list, y, m)
      OBVIOUS
    <3> QED BY <1>0, <2>2, <2>5, <3>1, BeforeOneWay
  <2>6. Top(list, After(y)) = x
    <3>1. Top(list, After(y)) \in After(y)
          /\ \A b \in After(y) \ {Top(list, After(y))} : Before(list, Top(list, After(y)), b)
      BY <1>0, <2>4, TopFirst
    <3> QED BY <2>4, <2>5, <3>1
  <2> QED BY <1>1, <1>2, <2>3, <2>4, <2>6
<1> QED BY <1>3, <1>4

-----------------------------------------------------------------------------
(***************************************************************************)
(* The page: every handler and effect keeps its type, and PageInv.         *)
(***************************************************************************)
\* A stream that is not up has nothing in flight.
LEMMA DialType == Dial \in NsConns /\ Dial \in GrConns
  BY DEF Dial, NsConns, GrConns
\* A fresh dial is down and its wire empty.
LEMMA DialDown == ~Dial.up /\ Dial.wire = None
  BY DEF Dial

\* What Listed changes.
LEMMA ListedFields ==
  ASSUME NEW p \in Page, p.ctx # None, NEW q, q = Listed(p)
  PROVE  /\ q \in Page /\ q.list = None /\ ~q.errored /\ q.nsConn = Dial
         /\ q.ctx = p.ctx /\ q.namespace = p.namespace /\ q.sub = p.sub /\ q.conn = p.conn
         /\ q.graph = p.graph /\ q.capacity = p.capacity /\ q.selected = p.selected
         /\ q.history = p.history /\ q.live = p.live /\ q.grConn = p.grConn
         /\ q.contexts = p.contexts
<1>1. q = [p EXCEPT !.list = None, !.received = FALSE, !.errored = FALSE, !.nsConn = Dial]
  BY DEF Listed
<1>2. q \in Page
  BY <1>1, DialType DEF Page
<1> QED BY <1>1, <1>2 DEF Page

\* What Subscribed changes when there is a graph to subscribe to.
LEMMA SubscribedFields ==
  ASSUME NEW p \in Page, p.ctx # None, p.namespace # None, NEW q, q = Subscribed(p)
  PROVE  /\ q \in Page /\ q.sub = p.ctx /\ q.graph = {} /\ q.capacity = {}
         /\ q.selected = IF p.sub \in {None, p.ctx} THEN p.selected ELSE None
         /\ q.history = IF p.sub = None THEN p.history ELSE <<>>
         /\ q.conn = "connecting" /\ q.grConn = Dial
         /\ q.ctx = p.ctx /\ q.namespace = p.namespace /\ q.list = p.list /\ q.errored = p.errored
         /\ q.live = p.live /\ q.nsConn = p.nsConn /\ q.contexts = p.contexts
         /\ q.pending = p.pending
<1> DEFINE sel == IF p.sub \in {None, p.ctx} THEN p.selected ELSE None
           fil == p.filtered /\ p.sub = None
           his == IF p.sub = None THEN p.history ELSE <<>>
<1>1. q = [p EXCEPT !.selected = sel, !.filtered = fil, !.history = his, !.sub = p.ctx,
                    !.graph = {}, !.capacity = {}, !.conn = "connecting", !.grConn = Dial]
  BY DEF Subscribed
<1>2. sel \in Ids \cup {None} /\ fil \in BOOLEAN /\ his \in Seq(Ids) /\ p.ctx \in Keys
  BY EmptySeq DEF Page
<1> HIDE DEF sel, fil, his
<1>3. q \in Page
  <2> DEFINE r == [p EXCEPT !.selected = sel, !.filtered = fil, !.history = his, !.sub = p.ctx]
  <2>1. r \in Page
    BY <1>2 DEF Page
  <2> HIDE DEF r
  <2>2. [r EXCEPT !.graph = {}, !.capacity = {}, !.conn = "connecting", !.grConn = Dial] \in Page
    BY <2>1, DialType DEF Page
  <2> QED BY <1>1, <2>2 DEF r
<1> QED BY <1>1, <1>3 DEF Page, sel, his

\* Absent is no health.
LEMMA AbsentIsNone == Absent \notin Healths /\ EmptyList \in Lists /\ Names(EmptyList) = {}
  BY DEF Absent, EmptyList, Lists, Names

\* The list the tab may use is a list, and empty without one.
LEMMA NamespaceListType ==
  ASSUME NEW p \in Page
  PROVE  /\ NamespaceList(p) \in Lists
         /\ p.errored \/ p.list = None => NamespaceList(p) = EmptyList
         /\ ~p.errored /\ p.list # None => NamespaceList(p) = p.list
<1>1. p.list \in Lists \cup {None}
  BY DEF Page
<1> QED BY <1>1, AbsentIsNone DEF NamespaceList

\* What subscribing needs, and all it leaves behind.
Subscribable(p) ==
  /\ OfSub(p) /\ Listing(p) /\ Placed(p)
  /\ p.ctx = None \/ p.namespace = None => p.sub = None
  /\ p.contexts.fetch = "answered" => p.contexts.answer # None

\* A subscription made keeps what holds of the page.
LEMMA SubscribedInv ==
  ASSUME NEW p \in Page, Subscribable(p)
  PROVE  Subscribed(p) \in Page /\ PageInv(Subscribed(p))
<1> DEFINE q == Subscribed(p)
<1>1. CASE p.ctx = None \/ p.namespace = None
  <2>1. q = p
    BY <1>1 DEF Subscribed
  <2>2. InScope(p)
    BY <1>1 DEF InScope, Subscribable, OfSub
  <2>3. Pill(p)
    BY <1>1 DEF Pill, Owes, Subscribable, OfSub
  <2> QED BY <2>1, <2>2, <2>3 DEF PageInv, Subscribable
<1>2. CASE p.ctx # None /\ p.namespace # None
  <2>1. /\ q \in Page /\ q.sub = p.ctx /\ q.graph = {} /\ q.capacity = {}
        /\ q.selected = IF p.sub \in {None, p.ctx} THEN p.selected ELSE None
        /\ q.history = IF p.sub = None THEN p.history ELSE <<>>
        /\ q.conn = "connecting" /\ q.grConn = Dial
        /\ q.ctx = p.ctx /\ q.namespace = p.namespace /\ q.list = p.list /\ q.errored = p.errored
        /\ q.live = p.live /\ q.nsConn = p.nsConn /\ q.contexts = p.contexts
    BY <1>2, SubscribedFields
  <2> HIDE DEF q
  <2>2. OfSub(q)
    <3>1. q.selected # None => q.selected.ctx = q.sub
      BY <1>2, <2>1 DEF Subscribable, OfSub
    <3>2. q.history = <<>>
      BY <2>1 DEF Subscribable, OfSub
    <3> QED BY <1>2, <2>1, <3>1, <3>2 DEF OfSub, Unique
  <2>3. InScope(q)
    BY <1>2, <2>1, DialDown DEF InScope
  <2>4. Listing(q)
    BY <2>1 DEF Subscribable, Listing
  <2>5. Pill(q)
    BY <2>1, DialDown DEF Subscribable, Pill, Owes
  <2>6. Placed(q)
    BY <2>1 DEF Subscribable, Placed, NamespaceList
  <2> QED BY <2>1, <2>2, <2>3, <2>4, <2>5, <2>6 DEF PageInv, q
<1> QED BY <1>1, <1>2

\* Opening the namespaces stream keeps what subscribing needs.
LEMMA ListedInv ==
  ASSUME NEW p \in Page, p.ctx # None, OfSub(p),
         p.namespace = None => p.sub = None,
         p.contexts.fetch = "answered" => p.contexts.answer # None,
         \A n \in Namespaces : p.live[n] # None => Reported(p.live[n].ctx, n, p.live[n].health)
  PROVE  Listed(p) \in Page /\ Subscribable(Listed(p))
<1> DEFINE q == Listed(p)
<1>1. /\ q \in Page /\ q.list = None /\ ~q.errored /\ q.nsConn = Dial
      /\ q.ctx = p.ctx /\ q.namespace = p.namespace /\ q.sub = p.sub
      /\ q.graph = p.graph /\ q.capacity = p.capacity /\ q.selected = p.selected
      /\ q.history = p.history /\ q.live = p.live /\ q.grConn = p.grConn
      /\ q.contexts = p.contexts
  BY ListedFields
<1> HIDE DEF q
<1>2. OfSub(q)
  BY <1>1 DEF OfSub, Unique
<1>3. Listing(q)
  BY <1>1, DialDown DEF Listing
<1>4. Placed(q)
  BY <1>1, NamespaceListType, AbsentIsNone DEF Placed
<1> QED BY <1>1, <1>2, <1>3, <1>4 DEF Subscribable, q

\* Switching context.
LEMMA SetCtxInv ==
  ASSUME NEW p \in Page, PageInv(p), NEW c \in Contexts
  PROVE  SetCtx(p, c) \in Page /\ PageInv(SetCtx(p, c))
<1>1. CASE c = p.ctx
  BY <1>1 DEF SetCtx
<1>2. CASE c # p.ctx
  <2> DEFINE q == [p EXCEPT !.ctx = c]
  <2>1. q \in Page
    BY DEF Page, Keys
  <2>2. /\ q.ctx = c /\ q.namespace = p.namespace /\ q.sub = p.sub
        /\ q.graph = p.graph /\ q.capacity = p.capacity /\ q.selected = p.selected
        /\ q.history = p.history /\ q.live = p.live /\ q.grConn = p.grConn
        /\ q.contexts = p.contexts
    BY DEF Page
  <2> HIDE DEF q
  <2>3. OfSub(q)
    BY <2>2 DEF PageInv, OfSub, Unique
  <2>4. Listed(q) \in Page /\ Subscribable(Listed(q))
    BY <2>1, <2>2, <2>3, ListedInv DEF PageInv, InScope, Pill, Listing
  <2> QED BY <1>2, <2>4, SubscribedInv DEF SetCtx, q
<1> QED BY <1>1, <1>2

\* Switching namespace, to one of the list if there is one.
LEMMA SetNamespaceInv ==
  ASSUME NEW p \in Page, OfSub(p), InScope(p), Listing(p), Pill(p), NEW n \in Namespaces,
         Names(NamespaceList(p)) # {} => n \in Names(NamespaceList(p))
  PROVE  SetNamespace(p, n) \in Page /\ PageInv(SetNamespace(p, n))
<1>1. CASE n = p.namespace
  BY <1>1 DEF SetNamespace, PageInv, Placed
<1>2. CASE n # p.namespace
  <2> DEFINE q == [p EXCEPT !.namespace = n]
  <2>1. q \in Page
    BY DEF Page
  <2>2. /\ q.namespace = n /\ q.ctx = p.ctx /\ q.sub = p.sub /\ q.errored = p.errored
        /\ q.graph = p.graph /\ q.capacity = p.capacity /\ q.selected = p.selected
        /\ q.history = p.history /\ q.live = p.live /\ q.grConn = p.grConn
        /\ q.contexts = p.contexts /\ q.list = p.list /\ q.nsConn = p.nsConn
    BY DEF Page
  <2> HIDE DEF q
  <2>3. OfSub(q)
    BY <2>2 DEF OfSub, Unique
  <2>4. Listing(q)
    BY <2>2 DEF Listing
  <2>5. Placed(q)
    BY <2>2 DEF Placed, NamespaceList
  <2>6. Subscribable(q)
    BY <2>2, <2>3, <2>4, <2>5 DEF Subscribable, InScope, Pill
  <2> QED BY <1>2, <2>1, <2>6, SubscribedInv DEF SetNamespace, q
<1> QED BY <1>1, <1>2

\* PageInv does not look at the rest of the page.
LEMMA PageFrame ==
  ASSUME NEW p, NEW q, q.sub = p.sub, q.ctx = p.ctx, q.namespace = p.namespace,
         q.graph = p.graph, q.capacity = p.capacity, q.selected = p.selected,
         q.history = p.history, q.live = p.live, q.grConn = p.grConn
  PROVE  /\ OfSub(p) => OfSub(q)
         /\ InScope(p) => InScope(q)
         /\ q.nsConn = p.nsConn /\ q.list = p.list /\ Listing(p) => Listing(q)
         /\ q.errored = p.errored /\ q.list = p.list /\ Placed(p) => Placed(q)
         /\ q.conn = p.conn /\ q.contexts = p.contexts /\ Pill(p) => Pill(q)
<1>1. OfSub(p) => OfSub(q)
  BY DEF OfSub, Unique
<1>2. InScope(p) => InScope(q)
  BY DEF InScope
<1>3. q.nsConn = p.nsConn /\ q.list = p.list /\ Listing(p) => Listing(q)
  BY DEF Listing
<1>4. q.errored = p.errored /\ q.list = p.list /\ Placed(p) => Placed(q)
  BY DEF Placed, NamespaceList
<1>5. q.conn = p.conn /\ q.contexts = p.contexts /\ Pill(p) => Pill(q)
  BY DEF Pill, Owes
<1> QED BY <1>1, <1>2, <1>3, <1>4, <1>5

\* The worst namespace of a list is one of it.
LEMMA MostTroubledListed ==
  ASSUME NEW list \in Lists, Names(list) # {}
  PROVE  MostTroubled(list) \in Names(list)
<1>1. CASE Real(list) = {}
  BY <1>1 DEF MostTroubled, Real
<1>2. CASE Real(list) # {}
  <2>1. Real(list) \subseteq Names(list) /\ Real(list) \in SUBSET Namespaces
    BY DEF Real, Names
  <2> QED BY <1>2, <2>1, TopFirst DEF MostTroubled
<1> QED BY <1>1, <1>2

\* The picker leaves the tab in a namespace of its list.
LEMMA PickedInv ==
  ASSUME NEW p \in Page, p.ctx \in Contexts, OfSub(p), InScope(p), Listing(p), Pill(p)
  PROVE  Picked(p) \in Page /\ PageInv(Picked(p))
<1> DEFINE list == NamespaceList(p)
           n == IF p.namespace \in Names(list) THEN p.namespace ELSE MostTroubled(list)
           tell == n # p.namespace /\ p.namespace # None /\ p.resolved \in {None, p.ctx}
           r == SetNamespace(p, n)
           q == [r EXCEPT !.resolved = p.ctx, !.notice = @ \/ tell]
<1>1. CASE Names(list) = {}
  BY <1>1 DEF Picked, PageInv, Placed
<1>2. CASE Names(list) # {}
  <2>1. list \in Lists
    BY NamespaceListType
  <2>2. n \in Names(list) /\ n \in Namespaces
    BY <1>2, <2>1, MostTroubledListed DEF Names
  <2>3. Picked(p) = q
    BY <1>2 DEF Picked
  <2> HIDE DEF list
  <2>4. Names(list) # {} => n \in Names(list)
    BY <2>2
  <2> HIDE DEF n
  <2>5. r \in Page /\ PageInv(r)
    BY <2>2, <2>4, SetNamespaceInv DEF list
  <2> HIDE DEF r, tell
  <2>6. /\ q.sub = r.sub /\ q.ctx = r.ctx /\ q.namespace = r.namespace /\ q.graph = r.graph
        /\ q.capacity = r.capacity /\ q.selected = r.selected /\ q.history = r.history
        /\ q.live = r.live /\ q.grConn = r.grConn /\ q.nsConn = r.nsConn /\ q.list = r.list
        /\ q.errored = r.errored /\ q.conn = r.conn /\ q.contexts = r.contexts
    BY <2>5 DEF Page
  <2>7. q \in Page
    <3> DEFINE told == r.notice \/ tell
    <3>1. told \in BOOLEAN
      OBVIOUS
    <3> HIDE DEF told
    <3>2. [r EXCEPT !.resolved = p.ctx, !.notice = told] \in Page
      BY <2>5, <3>1 DEF Page
    <3> QED BY <3>2 DEF told
  <2> HIDE DEF q
  <2> QED BY <2>3, <2>5, <2>6, <2>7, PageFrame DEF PageInv
<1> QED BY <1>1, <1>2

\* A list arrives.
LEMMA NamespacesEventInv ==
  ASSUME NEW p \in Page, p.ctx \in Contexts, OfSub(p), InScope(p), Listing(p), Pill(p),
         NEW list \in Lists, \A n \in Namespaces : list[n] \in had[p.ctx][n]
  PROVE  NamespacesEvent(p, list) \in Page /\ PageInv(NamespacesEvent(p, list))
<1> DEFINE none == [n \in Namespaces |-> None]
           q == [p EXCEPT !.list = list, !.received = TRUE, !.errored = FALSE, !.live = none]
<1>1. none \in [Namespaces -> Summaries \cup {None}] /\ \A n \in Namespaces : none[n] = None
  OBVIOUS
<1> HIDE DEF none
<1>2. q \in Page
  BY <1>1 DEF Page
<1>3. /\ q.sub = p.sub /\ q.ctx = p.ctx /\ q.namespace = p.namespace /\ q.graph = p.graph
      /\ q.capacity = p.capacity /\ q.selected = p.selected /\ q.history = p.history
      /\ q.grConn = p.grConn /\ q.nsConn = p.nsConn /\ q.conn = p.conn /\ q.contexts = p.contexts
      /\ q.list = list /\ q.live = none
  BY DEF Page
<1>4. NamespacesEvent(p, list) = Picked(q)
  BY DEF NamespacesEvent, none
<1> HIDE DEF q
<1>5. OfSub(q)
  BY <1>3 DEF OfSub, Unique
<1>6. InScope(q)
  BY <1>3 DEF InScope
<1>7. Listing(q)
  BY <1>1, <1>3 DEF Listing
<1>8. Pill(q)
  BY <1>3 DEF Pill, Owes
<1> QED BY <1>2, <1>3, <1>4, <1>5, <1>6, <1>7, <1>8, PickedInv

\* Asking for the contexts again, and the pill going offline.
LEMMA RefetchFields ==
  ASSUME NEW p \in Page, NEW q, q = Refetch(p)
  PROVE  /\ q \in Page /\ q.contexts.fetch = "asked" /\ q.contexts.err = p.contexts.err
         /\ q.sub = p.sub /\ q.ctx = p.ctx /\ q.namespace = p.namespace /\ q.graph = p.graph
         /\ q.capacity = p.capacity /\ q.selected = p.selected /\ q.history = p.history
         /\ q.live = p.live /\ q.grConn = p.grConn /\ q.nsConn = p.nsConn /\ q.list = p.list
         /\ q.errored = p.errored /\ q.conn = p.conn
  BY DEF Refetch, Page, ContextsStates

\* What going offline touches of the page.
LEMMA OfflineFields ==
  ASSUME NEW p \in Page, NEW c \in {"connecting", "live", "offline"}, NEW q,
         q = [p EXCEPT !.conn = c]
  PROVE  /\ q \in Page /\ q.conn = c /\ q.contexts = p.contexts
         /\ q.sub = p.sub /\ q.ctx = p.ctx /\ q.namespace = p.namespace /\ q.graph = p.graph
         /\ q.capacity = p.capacity /\ q.selected = p.selected /\ q.history = p.history
         /\ q.live = p.live /\ q.grConn = p.grConn /\ q.nsConn = p.nsConn /\ q.list = p.list
         /\ q.errored = p.errored
  BY DEF Page

\* A page whose graph stream is down, or owes a snapshot, may refetch.
LEMMA RefetchInv ==
  ASSUME NEW p \in Page, PageInv(p), Owes(p)
  PROVE  /\ Refetch(p) \in Page /\ PageInv(Refetch(p))
         /\ [Refetch(p) EXCEPT !.conn = "offline"] \in Page
         /\ PageInv([Refetch(p) EXCEPT !.conn = "offline"])
         /\ [p EXCEPT !.conn = "offline"] \in Page /\ PageInv([p EXCEPT !.conn = "offline"])
<1> DEFINE q == Refetch(p)
<1>1. /\ q \in Page /\ q.contexts.fetch = "asked"
      /\ q.sub = p.sub /\ q.ctx = p.ctx /\ q.namespace = p.namespace /\ q.graph = p.graph
      /\ q.capacity = p.capacity /\ q.selected = p.selected /\ q.history = p.history
      /\ q.live = p.live /\ q.grConn = p.grConn /\ q.nsConn = p.nsConn /\ q.list = p.list
      /\ q.errored = p.errored /\ q.conn = p.conn
  BY RefetchFields
<1> HIDE DEF q
<1>2. PageInv(q)
  <2>1. Pill(q)
    BY <1>1 DEF Pill, Owes
  <2> QED BY <1>1, <2>1, PageFrame DEF PageInv
<1>3. ASSUME NEW x \in Page, PageInv(x), Owes(x), NEW y, y = [x EXCEPT !.conn = "offline"]
      PROVE  y \in Page /\ PageInv(y)
  <2>1. /\ y \in Page /\ y.conn = "offline" /\ y.contexts = x.contexts
        /\ y.sub = x.sub /\ y.ctx = x.ctx /\ y.namespace = x.namespace /\ y.graph = x.graph
        /\ y.capacity = x.capacity /\ y.selected = x.selected /\ y.history = x.history
        /\ y.live = x.live /\ y.grConn = x.grConn /\ y.nsConn = x.nsConn /\ y.list = x.list
        /\ y.errored = x.errored
    BY <1>3, OfflineFields
  <2>2. Pill(y)
    BY <1>3, <2>1 DEF Pill, Owes, PageInv
  <2> QED BY <1>3, <2>1, <2>2, PageFrame DEF PageInv
<1>4. Owes(q)
  BY <1>1 DEF Owes
<1> QED BY <1>1, <1>2, <1>3, <1>4 DEF q

\* The namespaces stream failed.
LEMMA NamespacesErrorInv ==
  ASSUME NEW p \in Page, PageInv(p)
  PROVE  NamespacesError(p) \in Page /\ PageInv(NamespacesError(p))
<1> DEFINE q == [p EXCEPT !.errored = TRUE]
<1>1. /\ q \in Page /\ q.errored
      /\ q.sub = p.sub /\ q.ctx = p.ctx /\ q.namespace = p.namespace /\ q.graph = p.graph
      /\ q.capacity = p.capacity /\ q.selected = p.selected /\ q.history = p.history
      /\ q.live = p.live /\ q.grConn = p.grConn /\ q.nsConn = p.nsConn /\ q.list = p.list
      /\ q.conn = p.conn /\ q.contexts = p.contexts
  BY DEF Page
<1>2. NamespacesError(p) = IF p.errored \/ p.conn # "connecting" THEN q
                           ELSE [Refetch(q) EXCEPT !.conn = "offline"]
  BY DEF NamespacesError
<1> HIDE DEF q
<1>3. PageInv(q)
  <2>1. Placed(q)
    BY <1>1, NamespaceListType, AbsentIsNone DEF Placed
  <2> QED BY <1>1, <2>1, PageFrame DEF PageInv
<1>4. CASE p.errored \/ p.conn # "connecting"
  BY <1>1, <1>2, <1>3, <1>4
<1>5. CASE ~(p.errored \/ p.conn # "connecting")
  <2>1. Owes(q)
    BY <1>1, <1>5 DEF PageInv, Pill, Owes
  <2> QED BY <1>1, <1>2, <1>3, <1>5, <2>1, RefetchInv
<1> QED BY <1>4, <1>5

\* The graph stream failed: it is down.
LEMMA GraphErrorInv ==
  ASSUME NEW p \in Page, PageInv(p), Owes(p)
  PROVE  GraphError(p) \in Page /\ PageInv(GraphError(p))
  BY RefetchInv DEF GraphError

\* A deep link selects something the tab holds, and changes nothing else.
LEMMA RestoredFields ==
  ASSUME NEW p \in Page, NEW q, q = Restored(p)
  PROVE  /\ q \in Page /\ (q.selected = p.selected \/ q.selected \in Visible(p))
         /\ q.sub = p.sub /\ q.ctx = p.ctx /\ q.namespace = p.namespace /\ q.graph = p.graph
         /\ q.capacity = p.capacity /\ q.history = p.history
         /\ q.live = p.live /\ q.grConn = p.grConn /\ q.nsConn = p.nsConn /\ q.list = p.list
         /\ q.errored = p.errored /\ q.conn = p.conn /\ q.contexts = p.contexts
<1> DEFINE m == IF Matches(p.graph, p.pending) # {}
                THEN CHOOSE i \in Matches(p.graph, p.pending) : TRUE
                ELSE CHOOSE i \in Matches(p.capacity, p.pending) : TRUE
<1>1. CASE p.pending = None \/ Matches(Visible(p), p.pending) = {}
  BY <1>1 DEF Restored
<1>2. CASE ~(p.pending = None \/ Matches(Visible(p), p.pending) = {})
  <2>1. m \in Visible(p)
    BY <1>2 DEF Matches, Visible
  <2>2. Visible(p) \subseteq Ids
    BY DEF Page, Visible
  <2>3. q = [p EXCEPT !.pending = None, !.selected = m]
    BY <1>2 DEF Restored
  <2> HIDE DEF m
  <2>4. m \in Ids
    BY <2>1, <2>2
  <2>5. q \in Page
    BY <2>3, <2>4 DEF Page
  <2> QED BY <2>1, <2>3, <2>5 DEF Page
<1> QED BY <1>1, <1>2

\* A restored selection keeps what holds of the page.
LEMMA RestoredInv ==
  ASSUME NEW p \in Page, OfSub(p), InScope(p), Listing(p), Placed(p)
  PROVE  /\ Restored(p) \in Page /\ OfSub(Restored(p)) /\ InScope(Restored(p))
         /\ Listing(Restored(p)) /\ Placed(Restored(p)) /\ (Pill(p) => Pill(Restored(p)))
         /\ Restored(p).conn = p.conn
<1> DEFINE q == Restored(p)
<1>1. /\ q \in Page /\ (q.selected = p.selected \/ q.selected \in Visible(p))
      /\ q.sub = p.sub /\ q.ctx = p.ctx /\ q.namespace = p.namespace /\ q.graph = p.graph
      /\ q.capacity = p.capacity /\ q.history = p.history
      /\ q.live = p.live /\ q.grConn = p.grConn /\ q.nsConn = p.nsConn /\ q.list = p.list
      /\ q.errored = p.errored /\ q.conn = p.conn /\ q.contexts = p.contexts
  BY RestoredFields
<1> HIDE DEF q
<1>2. OfSub(q)
  BY <1>1 DEF OfSub, Unique, Visible
<1>3. InScope(q)
  BY <1>1 DEF InScope
<1>4. Listing(q)
  BY <1>1 DEF Listing
<1>5. Placed(q)
  BY <1>1 DEF Placed, NamespaceList
<1>6. Pill(p) => Pill(q)
  BY <1>1 DEF Pill, Owes
<1> QED BY <1>1, <1>2, <1>3, <1>4, <1>5, <1>6 DEF q

\* The nodes of a build for the graph on screen.
BuiltFor(p, nodes) ==
  /\ nodes \subseteq Ids /\ Unique(nodes) /\ p.sub # None
  /\ \A i \in nodes : i.ctx = p.sub /\ i.ns = p.namespace

\* The graph is replaced by a build of its namespace.
LEMMA RegraphedInv ==
  ASSUME NEW p \in Page, OfSub(p), InScope(p), Listing(p), Placed(p),
         NEW nodes, BuiltFor(p, nodes), NEW q, q = [p EXCEPT !.graph = nodes]
  PROVE  /\ q \in Page /\ OfSub(q) /\ InScope(q) /\ Listing(q) /\ Placed(q)
         /\ (Pill(p) => Pill(q)) /\ q.contexts = p.contexts
<1>1. /\ q \in Page /\ q.graph = nodes
      /\ q.sub = p.sub /\ q.ctx = p.ctx /\ q.namespace = p.namespace /\ q.selected = p.selected
      /\ q.capacity = p.capacity /\ q.history = p.history
      /\ q.live = p.live /\ q.grConn = p.grConn /\ q.nsConn = p.nsConn /\ q.list = p.list
      /\ q.errored = p.errored /\ q.conn = p.conn /\ q.contexts = p.contexts
  BY DEF Page, BuiltFor
<1>2. OfSub(q)
  BY <1>1 DEF OfSub, Unique, BuiltFor
<1>3. InScope(q)
  BY <1>1 DEF InScope, BuiltFor
<1>4. Listing(q)
  BY <1>1 DEF Listing
<1>5. Placed(q)
  BY <1>1 DEF Placed, NamespaceList
<1>6. Pill(p) => Pill(q)
  BY <1>1 DEF Pill, Owes
<1> QED BY <1>1, <1>2, <1>3, <1>4, <1>5, <1>6

\* A patch keeps what holds of the page.
LEMMA PatchEventInv ==
  ASSUME NEW p \in Page, PageInv(p), NEW nodes, BuiltFor(p, nodes)
  PROVE  PatchEvent(p, nodes) \in Page /\ PageInv(PatchEvent(p, nodes))
<1> DEFINE q == [p EXCEPT !.graph = nodes]
<1>1. q \in Page /\ OfSub(q) /\ InScope(q) /\ Listing(q) /\ Placed(q) /\ Pill(q)
  BY RegraphedInv DEF PageInv
<1> HIDE DEF q
<1>2. Restored(q) \in Page /\ PageInv(Restored(q))
  BY <1>1, RestoredInv DEF PageInv
<1> QED BY <1>2 DEF PatchEvent, q

\* A selection of what the tab holds, or none.
LEMMA SelectedInv ==
  ASSUME NEW p \in Page, OfSub(p), InScope(p), Listing(p), Placed(p),
         NEW i, i = None \/ (i \in Ids /\ i.ctx = p.sub /\ p.sub # None),
         NEW q, q = [p EXCEPT !.selected = i]
  PROVE  /\ q \in Page /\ OfSub(q) /\ InScope(q) /\ Listing(q) /\ Placed(q)
         /\ (Pill(p) => Pill(q)) /\ q.conn = p.conn /\ q.contexts = p.contexts
<1>1. /\ q \in Page /\ q.selected = i
      /\ q.sub = p.sub /\ q.ctx = p.ctx /\ q.namespace = p.namespace /\ q.graph = p.graph
      /\ q.capacity = p.capacity /\ q.history = p.history
      /\ q.live = p.live /\ q.grConn = p.grConn /\ q.nsConn = p.nsConn /\ q.list = p.list
      /\ q.errored = p.errored /\ q.conn = p.conn /\ q.contexts = p.contexts
  BY DEF Page
<1>2. OfSub(q)
  BY <1>1 DEF OfSub, Unique
<1>3. InScope(q)
  BY <1>1 DEF InScope
<1>4. Listing(q)
  BY <1>1 DEF Listing
<1>5. Placed(q)
  BY <1>1 DEF Placed, NamespaceList
<1>6. Pill(p) => Pill(q)
  BY <1>1 DEF Pill, Owes
<1> QED BY <1>1, <1>2, <1>3, <1>4, <1>5, <1>6

\* A snapshot arrives: the page may owe nothing any more, the pill is live.
LEMMA SnapshotEventInv ==
  ASSUME NEW p \in Page, OfSub(p), InScope(p), Listing(p), Placed(p),
         p.contexts.fetch = "answered" => p.contexts.answer # None,
         NEW nodes, BuiltFor(p, nodes)
  PROVE  SnapshotEvent(p, nodes) \in Page /\ PageInv(SnapshotEvent(p, nodes))
<1> DEFINE sel == ResolvedSelection(p, nodes \cup p.capacity)
           g == [p EXCEPT !.graph = nodes]
           l == [g EXCEPT !.conn = "live"]
           r == Restored(l)
           q == [r EXCEPT !.selected = sel]
<1>1. sel = None \/ (sel \in Ids /\ sel.ctx = p.sub /\ p.sub # None)
  <2>1. \A i \in nodes \cup p.capacity : i \in Ids /\ i.ctx = p.sub /\ p.sub # None
    BY DEF BuiltFor, OfSub, Page
  <2>2. sel \in nodes \cup p.capacity \/ sel = None
    BY DEF ResolvedSelection, Matches
  <2> HIDE DEF sel
  <2> QED BY <2>1, <2>2
<1>2. SnapshotEvent(p, nodes) = q
  <2>1. [p EXCEPT !.graph = nodes, !.conn = "live"] = l
    OBVIOUS
  <2> QED BY <2>1 DEF SnapshotEvent
<1> HIDE DEF sel
<1>3. g \in Page /\ OfSub(g) /\ InScope(g) /\ Listing(g) /\ Placed(g) /\ g.contexts = p.contexts
      /\ g.sub = p.sub
  BY RegraphedInv DEF Page
<1> HIDE DEF g
<1>4. /\ l \in Page /\ l.conn = "live" /\ l.contexts = g.contexts
      /\ l.sub = g.sub /\ l.ctx = g.ctx /\ l.namespace = g.namespace /\ l.graph = g.graph
      /\ l.capacity = g.capacity /\ l.selected = g.selected /\ l.history = g.history
      /\ l.live = g.live /\ l.grConn = g.grConn /\ l.nsConn = g.nsConn /\ l.list = g.list
      /\ l.errored = g.errored
  BY <1>3, OfflineFields
<1>5. OfSub(l) /\ InScope(l) /\ Listing(l) /\ Placed(l)
  BY <1>3, <1>4, PageFrame
<1>6. Pill(l)
  BY <1>3, <1>4 DEF Pill
<1> HIDE DEF l
<1>7. r \in Page /\ OfSub(r) /\ InScope(r) /\ Listing(r) /\ Placed(r) /\ Pill(r) /\ r.sub = p.sub
  BY <1>3, <1>4, <1>5, <1>6, RestoredInv, RestoredFields
<1> HIDE DEF r
<1>8. q \in Page /\ PageInv(q)
  BY <1>1, <1>7, SelectedInv DEF PageInv
<1> QED BY <1>2, <1>8

\* The capacity view is replaced.
LEMMA CapacityEventInv ==
  ASSUME NEW p \in Page, PageInv(p), p.sub # None, NEW nodes, nodes \subseteq Ids,
         Unique(nodes), \A i \in nodes : i.ctx = p.sub
  PROVE  CapacityEvent(p, nodes) \in Page /\ PageInv(CapacityEvent(p, nodes))
<1> DEFINE q == [p EXCEPT !.capacity = nodes]
<1>1. /\ q \in Page /\ q.capacity = nodes
      /\ q.sub = p.sub /\ q.ctx = p.ctx /\ q.namespace = p.namespace /\ q.selected = p.selected
      /\ q.graph = p.graph /\ q.history = p.history
      /\ q.live = p.live /\ q.grConn = p.grConn /\ q.nsConn = p.nsConn /\ q.list = p.list
      /\ q.errored = p.errored /\ q.conn = p.conn /\ q.contexts = p.contexts
  BY DEF Page
<1>2. CapacityEvent(p, nodes) = Restored(q)
  BY DEF CapacityEvent
<1> HIDE DEF q
<1>3. OfSub(q)
  BY <1>1 DEF PageInv, OfSub, Unique
<1>4. InScope(q)
  BY <1>1 DEF PageInv, InScope
<1>5. Listing(q)
  BY <1>1 DEF PageInv, Listing
<1>6. Placed(q)
  BY <1>1 DEF PageInv, Placed, NamespaceList
<1>7. Pill(q)
  BY <1>1 DEF PageInv, Pill, Owes
<1> QED BY <1>1, <1>2, <1>3, <1>4, <1>5, <1>6, <1>7, RestoredInv DEF PageInv

\* A summary is filed under its context and namespace.
LEMMA SummaryEventInv ==
  ASSUME NEW p \in Page, PageInv(p), NEW c \in Contexts, NEW n \in Namespaces,
         NEW h \in Healths, Reported(c, n, h)
  PROVE  SummaryEvent(p, c, n, h) \in Page /\ PageInv(SummaryEvent(p, c, n, h))
<1> DEFINE s == [ctx |-> c, health |-> h]
           q == [p EXCEPT !.live[n] = s]
<1>1. s \in Summaries /\ s.ctx = c /\ s.health = h
  BY DEF Summaries
<1> HIDE DEF s
<1>2. [p.live EXCEPT ![n] = s] \in [Namespaces -> Summaries \cup {None}]
  BY <1>1 DEF Page
<1>3. \A m \in Namespaces : [p.live EXCEPT ![n] = s][m] = IF m = n THEN s ELSE p.live[m]
  BY DEF Page
<1>4. q = [p EXCEPT !.live = [p.live EXCEPT ![n] = s]]
  BY DEF Page
<1> DEFINE new == [p.live EXCEPT ![n] = s]
<1> HIDE DEF new
<1>5. /\ q \in Page /\ q.live = new
      /\ q.sub = p.sub /\ q.ctx = p.ctx /\ q.namespace = p.namespace /\ q.selected = p.selected
      /\ q.graph = p.graph /\ q.capacity = p.capacity /\ q.history = p.history
      /\ q.grConn = p.grConn /\ q.nsConn = p.nsConn /\ q.list = p.list
      /\ q.errored = p.errored /\ q.conn = p.conn /\ q.contexts = p.contexts
  BY <1>2, <1>4 DEF Page, new
<1> HIDE DEF q
<1>6. Listing(q)
  BY <1>1, <1>3, <1>5 DEF PageInv, Listing, new
<1>7. OfSub(q)
  BY <1>5 DEF PageInv, OfSub, Unique
<1>8. InScope(q)
  BY <1>5 DEF PageInv, InScope
<1>9. Placed(q)
  BY <1>5 DEF PageInv, Placed, NamespaceList
<1>10. Pill(q)
  BY <1>5 DEF PageInv, Pill, Owes
<1>11. q \in Page /\ PageInv(q)
  BY <1>5, <1>6, <1>7, <1>8, <1>9, <1>10 DEF PageInv
<1>12. SummaryEvent(p, c, n, h) = IF c # p.ctx THEN p ELSE q
  BY DEF SummaryEvent, s, q
<1> QED BY <1>11, <1>12

\* The contexts list arrives.
LEMMA ContextsEventInv ==
  ASSUME NEW p \in Page, PageInv(p), p.contexts.fetch = "answered"
  PROVE  ContextsEvent(p) \in Page /\ PageInv(ContextsEvent(p))
<1> DEFINE got == p.contexts.answer
           q == [p EXCEPT !.contexts.fetch = "none", !.contexts.err = got.err]
           r == [q EXCEPT !.contexts.got = TRUE, !.contexts.reasons = got.reasons]
<1>1. got \in Answers
  BY DEF PageInv, Pill, Page, ContextsStates
<1> HIDE DEF got
<1>2. /\ q \in Page /\ q.contexts.fetch = "none" /\ q.contexts.err = got.err
      /\ q.sub = p.sub /\ q.ctx = p.ctx /\ q.namespace = p.namespace /\ q.selected = p.selected
      /\ q.graph = p.graph /\ q.capacity = p.capacity /\ q.history = p.history
      /\ q.live = p.live /\ q.grConn = p.grConn /\ q.nsConn = p.nsConn /\ q.list = p.list
      /\ q.errored = p.errored /\ q.conn = p.conn
  BY <1>1 DEF Page, ContextsStates, Answers
<1> HIDE DEF q
<1>3. PageInv(q)
  <2>1. Pill(q)
    BY <1>2 DEF PageInv, Pill, Owes
  <2> QED BY <1>2, <2>1, PageFrame DEF PageInv
<1>4. /\ r \in Page /\ r.contexts.fetch = "none" /\ r.contexts.err = q.contexts.err
      /\ r.sub = q.sub /\ r.ctx = q.ctx /\ r.namespace = q.namespace /\ r.selected = q.selected
      /\ r.graph = q.graph /\ r.capacity = q.capacity /\ r.history = q.history
      /\ r.live = q.live /\ r.grConn = q.grConn /\ r.nsConn = q.nsConn /\ r.list = q.list
      /\ r.errored = q.errored /\ r.conn = q.conn
  <2> DEFINE c == [q.contexts EXCEPT !.got = TRUE, !.reasons = got.reasons]
  <2>1. q \in Page /\ q.contexts \in ContextsStates
    BY <1>2 DEF Page
  <2>2. got.reasons \in SUBSET Contexts
    BY <1>1 DEF Answers
  <2>3. c \in ContextsStates /\ c.fetch = q.contexts.fetch /\ c.err = q.contexts.err
    BY <2>1, <2>2 DEF ContextsStates
  <2>4. r = [q EXCEPT !.contexts = c]
    BY <2>1 DEF Page
  <2> HIDE DEF c, r
  <2>5. /\ r \in Page /\ r.contexts = c
        /\ r.sub = q.sub /\ r.ctx = q.ctx /\ r.namespace = q.namespace /\ r.selected = q.selected
        /\ r.graph = q.graph /\ r.capacity = q.capacity /\ r.history = q.history
        /\ r.live = q.live /\ r.grConn = q.grConn /\ r.nsConn = q.nsConn /\ r.list = q.list
        /\ r.errored = q.errored /\ r.conn = q.conn
    BY <2>1, <2>3, <2>4 DEF Page
  <2> QED BY <1>2, <2>3, <2>5
<1> HIDE DEF r
<1>5. PageInv(r)
  <2>1. Pill(r)
    BY <1>2, <1>3, <1>4 DEF PageInv, Pill, Owes
  <2> QED BY <1>3, <1>4, <2>1, PageFrame DEF PageInv
<1>6. CASE got.err = "none"
  <2>1. ContextsEvent(p) = IF r.ctx \in Contexts THEN r ELSE SetCtx(r, Default)
    BY <1>6 DEF ContextsEvent, r, q, got
  <2> QED BY <1>4, <1>5, <2>1, SetCtxInv
<1>7. CASE got.err # "none"
  <2> DEFINE pill == IF got.err = "auth" THEN q.conn ELSE "offline"
             x == [q EXCEPT !.conn = pill]
  <2>1. ContextsEvent(p) = x
    BY <1>7 DEF ContextsEvent, q, got
  <2>2. pill \in {"connecting", "live", "offline"}
    BY <1>2 DEF Page
  <2>3. pill # q.conn => pill = "offline" /\ got.err = "down"
    BY <1>1, <1>7 DEF Answers
  <2> HIDE DEF pill
  <2>4. /\ x \in Page /\ x.conn = pill /\ x.contexts = q.contexts
        /\ x.sub = q.sub /\ x.ctx = q.ctx /\ x.namespace = q.namespace /\ x.graph = q.graph
        /\ x.capacity = q.capacity /\ x.selected = q.selected /\ x.history = q.history
        /\ x.live = q.live /\ x.grConn = q.grConn /\ x.nsConn = q.nsConn /\ x.list = q.list
        /\ x.errored = q.errored
    BY <1>2, <2>2, OfflineFields
  <2> HIDE DEF x
  <2>5. Pill(x)
    BY <1>2, <1>3, <2>3, <2>4 DEF PageInv, Pill, Owes
  <2> QED BY <1>3, <2>1, <2>4, <2>5, PageFrame DEF PageInv
<1> QED BY <1>6, <1>7

\* The drawer's memory is no part of PageInv.
LEMMA RememberedInv ==
  ASSUME NEW p \in Page, PageInv(p)
  PROVE  Remembered(p) \in Page /\ PageInv(Remembered(p))
<1> DEFINE q == [p EXCEPT !.last = p.selected]
<1>1. /\ q \in Page
      /\ q.sub = p.sub /\ q.ctx = p.ctx /\ q.namespace = p.namespace /\ q.selected = p.selected
      /\ q.graph = p.graph /\ q.capacity = p.capacity /\ q.history = p.history
      /\ q.live = p.live /\ q.grConn = p.grConn /\ q.nsConn = p.nsConn /\ q.list = p.list
      /\ q.errored = p.errored /\ q.conn = p.conn /\ q.contexts = p.contexts
  BY DEF Page
<1> HIDE DEF q
<1>2. PageInv(q)
  BY <1>1, PageFrame DEF PageInv
<1>3. Remembered(p) \in {p, q}
  BY DEF Remembered, q
<1> QED BY <1>1, <1>2, <1>3

\* A tab that starts.
LEMMA MountedInv ==
  ASSUME NEW u \in Urls
  PROVE  /\ Mounted(u) \in Page /\ PageInv(Mounted(u))
         /\ u.ctx # None /\ u.ns # None =>
              /\ Mounted(u).ctx = u.ctx /\ Mounted(u).namespace = u.ns
              /\ Mounted(u).pending = u.sel /\ Mounted(u).selected = None
              /\ Mounted(u).capacity = {} /\ Mounted(u).sub = u.ctx
<1> DEFINE b == Blank(u)
           q == Listed(b)
<1>1. /\ b \in Page /\ b.ctx = u.ctx /\ b.namespace = u.ns /\ b.pending = u.sel
      /\ b.sub = None /\ b.graph = {} /\ b.capacity = {} /\ b.selected = None /\ b.history = <<>>
      /\ b.grConn = Dial /\ b.nsConn = Dial /\ b.list = None /\ b.contexts.fetch = "asked"
      /\ b.live = [n \in Namespaces |-> None]
  BY DialType, EmptySeq DEF Blank, Page, ContextsStates, Urls, Selectors, Keys
<1> HIDE DEF b
<1>2. OfSub(b)
  BY <1>1, DialDown DEF OfSub, Unique
<1>3. \A n \in Namespaces : b.live[n] = None
  BY <1>1
<1>4. q \in Page /\ Subscribable(q)
  <2>1. CASE b.ctx = None
    <3>1. Listing(b) /\ Placed(b)
      BY <1>1, <1>3, DialDown, NamespaceListType, AbsentIsNone DEF Listing, Placed
    <3> QED BY <1>1, <1>2, <2>1, <3>1 DEF Subscribable, Listed
  <2>2. CASE b.ctx # None
    BY <1>1, <1>2, <1>3, <2>2, ListedInv
  <2> QED BY <2>1, <2>2
<1>5. Mounted(u) = Subscribed(q)
  BY DEF Mounted, b
<1>6. u.ctx # None => /\ q.ctx = u.ctx /\ q.namespace = u.ns /\ q.pending = u.sel /\ q.sub = None
                      /\ q.selected = None
  BY <1>1 DEF Listed, Page
<1> HIDE DEF q
<1>7. Subscribed(q) \in Page /\ PageInv(Subscribed(q))
  BY <1>4, SubscribedInv
<1>8. ASSUME u.ctx # None, u.ns # None
      PROVE  LET m == Subscribed(q)
             IN  /\ m.ctx = u.ctx /\ m.namespace = u.ns /\ m.pending = u.sel
                 /\ m.selected = None /\ m.capacity = {} /\ m.sub = u.ctx
  BY <1>4, <1>6, <1>8, SubscribedFields
<1> QED BY <1>5, <1>7, <1>8

\* The namespaces stream of a page changes.
LEMMA NsConnInv ==
  ASSUME NEW p \in Page, OfSub(p), InScope(p), Listing(p), Placed(p), NEW c \in NsConns,
         c.up => p.ctx \in Contexts,
         c.wire # None => c.up /\ \A n \in Namespaces : c.wire[n] \in had[p.ctx][n],
         NEW q, q = [p EXCEPT !.nsConn = c]
  PROVE  /\ q \in Page /\ OfSub(q) /\ InScope(q) /\ Listing(q) /\ Placed(q)
         /\ (Pill(p) => Pill(q)) /\ q.ctx = p.ctx
<1>1. /\ q \in Page /\ q.nsConn = c
      /\ q.sub = p.sub /\ q.ctx = p.ctx /\ q.namespace = p.namespace /\ q.selected = p.selected
      /\ q.graph = p.graph /\ q.capacity = p.capacity /\ q.history = p.history
      /\ q.live = p.live /\ q.grConn = p.grConn /\ q.list = p.list
      /\ q.errored = p.errored /\ q.conn = p.conn /\ q.contexts = p.contexts
  BY DEF Page
<1>2. Listing(q)
  BY <1>1 DEF Listing
<1> QED BY <1>1, <1>2, PageFrame

\* The graph stream of a page changes.
LEMMA GrConnInv ==
  ASSUME NEW p \in Page, OfSub(p), InScope(p), Listing(p), Placed(p), NEW c \in GrConns,
         c.up => p.ctx \in Contexts /\ p.namespace \in Namespaces,
         c.wire # None =>
           /\ c.up /\ BuiltFor(p, c.wire.build.nodes)
           /\ Reported(p.ctx, p.namespace, c.wire.build.health),
         NEW q, q = [p EXCEPT !.grConn = c]
  PROVE  /\ q \in Page /\ OfSub(q) /\ InScope(q) /\ Listing(q) /\ Placed(q)
         /\ q.conn = p.conn /\ q.contexts = p.contexts /\ q.grConn = c
         /\ q.sub = p.sub /\ q.ctx = p.ctx /\ q.namespace = p.namespace
<1>1. /\ q \in Page /\ q.grConn = c
      /\ q.sub = p.sub /\ q.ctx = p.ctx /\ q.namespace = p.namespace /\ q.selected = p.selected
      /\ q.graph = p.graph /\ q.capacity = p.capacity /\ q.history = p.history
      /\ q.live = p.live /\ q.nsConn = p.nsConn /\ q.list = p.list
      /\ q.errored = p.errored /\ q.conn = p.conn /\ q.contexts = p.contexts
  BY DEF Page
<1>2. OfSub(q)
  <2>1. c.up => p.sub # None
    BY DEF InScope
  <2>2. c.wire # None => p.sub # None
    BY <2>1
  <2>3. c.up \in BOOLEAN
    BY DEF GrConns
  <2> QED BY <1>1, <2>1, <2>2, <2>3 DEF OfSub, Unique
<1>3. InScope(q)
  <2>1. c.wire # None =>
          /\ c.up /\ Unique(c.wire.build.nodes)
          /\ \A i \in c.wire.build.nodes : i.ctx = p.ctx /\ i.ns = p.namespace
          /\ Reported(p.ctx, p.namespace, c.wire.build.health)
    BY DEF BuiltFor, InScope
  <2> QED BY <1>1, <2>1 DEF InScope
<1>4. Listing(q)
  BY <1>1 DEF Listing
<1>5. Placed(q)
  BY <1>1 DEF Placed, NamespaceList
<1> QED BY <1>1, <1>2, <1>3, <1>4, <1>5

-----------------------------------------------------------------------------
(***************************************************************************)
(* The steps.                                                              *)
(***************************************************************************)
\* A tab starts from any of the starts.
LEMMA SessionInit == Init => SessionInv
<1> SUFFICES ASSUME NEW s \in Starts, world = s.world, objects = s.objects,
                    had = [c \in Contexts |-> [n \in Namespaces |-> {s.world[c][n]}]],
                    given = [broken |-> s.broken, signedIn |-> s.signedIn, forbidden |-> s.forbidden,
                             moody |-> s.moody, busy |-> s.busy],
                    failed = {}, page = Mounted(s.url)
             PROVE  SessionInv
  BY DEF Init
<1>1. /\ s.world \in [Contexts -> Lists] /\ s.objects \in [Contexts -> [Namespaces -> SUBSET Objects]]
      /\ s.broken \subseteq Contexts /\ s.url \in Urls
      /\ \A c \in Contexts, n \in Namespaces :
           \A a, b \in s.objects[c][n] : RefOf[a] = RefOf[b] => a = b
  BY StartsAssumption
<1>2. page \in Page /\ PageInv(page)
  BY <1>1, MountedInv
<1>3. \A c \in Contexts, n \in Namespaces : had[c][n] = {world[c][n]} /\ world[c][n] \in Healths \cup {Absent}
  BY <1>1 DEF Lists
<1>4. had \in [Contexts -> [Namespaces -> SUBSET (Healths \cup {Absent})]]
  BY <1>3
<1> QED BY <1>1, <1>2, <1>3, <1>4 DEF SessionInv, TypeInv, WorldInv

\* Histories only grow: what was reported once stays so.
LEMMA HadGrows ==
  ASSUME NEW q \in Page, PageInv(q), page' = q,
         \A c \in Contexts, n \in Namespaces : had[c][n] \subseteq had'[c][n]
  PROVE  PageInv(page)'
<1>1. \A c \in Contexts, n \in Namespaces : \A h : Reported(c, n, h) => Reported(c, n, h)'
  BY DEF Reported
<1>2. OfSub(page)'
  BY DEF PageInv, OfSub, Unique
<1>3. InScope(page)'
  BY <1>1 DEF PageInv, InScope, Unique
<1>4. Listing(page)'
  <2>1. \A n \in Namespaces : q.live[n] # None => q.live[n].ctx \in Contexts
    BY DEF Page, Summaries
  <2> QED BY <1>1, <2>1 DEF PageInv, Listing
<1>5. Pill(page)' /\ Placed(page)'
  BY DEF PageInv, Pill, Owes, Placed, NamespaceList, Names
<1> QED BY <1>2, <1>3, <1>4, <1>5 DEF PageInv

\* A step of the tab and its streams that keeps the page in order.
LEMMA PageMoves ==
  ASSUME SessionInv, UNCHANGED <<world, had, objects, given>>, failed' \subseteq given.broken,
         page' \in Page, NEW q, PageInv(q), page' = q
  PROVE  SessionInv'
<1>1. PageInv(page)'
  <2>1. OfSub(page)'
    BY DEF PageInv, OfSub, Unique
  <2>2. InScope(page)'
    BY DEF PageInv, InScope, Reported, Unique
  <2>3. Listing(page)'
    BY DEF PageInv, Listing, Reported
  <2>4. Pill(page)' /\ Placed(page)'
    BY DEF PageInv, Pill, Owes, Placed, NamespaceList, Names
  <2> QED BY <2>1, <2>2, <2>3, <2>4 DEF PageInv
<1>2. WorldInv'
  <2>1. WorldInv
    BY DEF SessionInv
  <2>2. world' = world /\ had' = had /\ objects' = objects
    OBVIOUS
  <2> QED BY <2>1, <2>2 DEF WorldInv
<1>3. TypeInv'
  BY DEF SessionInv, TypeInv
<1> QED BY <1>1, <1>2, <1>3 DEF SessionInv

\* Opening a stream of a context that cannot be built counts against it.
LEMMA TouchedBroken == ASSUME TypeInv PROVE Touched \subseteq given.broken
  BY DEF TypeInv, Touched

\* What the operator does.
LEMMA ActsMove ==
  ASSUME SessionInv, NEW p \in Page, PageInv(p), Acts(p)
  PROVE  SessionInv'
<1>1. Remembered(p) \in Page /\ PageInv(Remembered(p))
  BY RememberedInv
<1>2. page' = Remembered(p) /\ UNCHANGED <<world, had, objects, given, failed>>
  BY DEF Acts
<1> QED BY <1>1, <1>2, PageMoves DEF SessionInv, TypeInv

\* Every change wakes the stream of its context; histories only grow.
LEMMA WorldMoves ==
  ASSUME SessionInv, NEW c \in Contexts, page' = Dirtied(c), UNCHANGED <<given, failed>>,
         world' \in [Contexts -> Lists], objects' \in [Contexts -> [Namespaces -> SUBSET Objects]],
         had' \in [Contexts -> [Namespaces -> SUBSET (Healths \cup {Absent})]],
         \A d \in Contexts, n \in Namespaces : had[d][n] \subseteq had'[d][n],
         WorldInv'
  PROVE  SessionInv'
<1>1. Dirtied(c) \in Page /\ PageInv(Dirtied(c))
  <2> DEFINE d == page.nsConn.dirty \/ page.nsConn.up
             k == [page.nsConn EXCEPT !.dirty = d]
             q == [page EXCEPT !.nsConn = k]
  <2>0. page \in Page /\ page.nsConn \in NsConns
    BY DEF SessionInv, TypeInv, Page
  <2>1. d \in BOOLEAN
    OBVIOUS
  <2> HIDE DEF d
  <2>2. k \in NsConns /\ k.up = page.nsConn.up /\ k.wire = page.nsConn.wire
    BY <2>0, <2>1 DEF NsConns
  <2> HIDE DEF k
  <2>3. q \in Page /\ PageInv(q)
    BY <2>0, <2>2, NsConnInv DEF SessionInv, PageInv, Listing
  <2>4. Dirtied(c) = IF c = page.ctx THEN q ELSE page
    BY <2>0 DEF Dirtied, k, d, Page
  <2> HIDE DEF q
  <2> QED BY <2>0, <2>3, <2>4 DEF SessionInv
<1>2. PageInv(page)'
  BY <1>1, HadGrows
<1>3. TypeInv'
  BY <1>1 DEF SessionInv, TypeInv
<1> QED BY <1>2, <1>3 DEF SessionInv

\* A namespace's health moves; an absent one loses its resources.
LEMMA HealthMovesStep ==
  ASSUME SessionInv, NEW c \in Contexts, NEW n \in Namespaces, NEW h \in Healths \cup {Absent},
         HealthMoves(c, n, h)
  PROVE  SessionInv'
<1>0. TypeInv /\ WorldInv
  BY DEF SessionInv
<1>1. world' \in [Contexts -> Lists]
      /\ \A d \in Contexts, m \in Namespaces :
           world'[d][m] = IF d = c /\ m = n THEN h ELSE world[d][m]
  BY <1>0 DEF TypeInv, HealthMoves, Lists
<1>2. had' \in [Contexts -> [Namespaces -> SUBSET (Healths \cup {Absent})]]
      /\ \A d \in Contexts, m \in Namespaces :
           had'[d][m] = IF d = c /\ m = n THEN had[d][m] \cup {h} ELSE had[d][m]
  BY <1>0 DEF TypeInv, HealthMoves
<1>3. objects' \in [Contexts -> [Namespaces -> SUBSET Objects]]
      /\ \A d \in Contexts, m \in Namespaces : objects'[d][m] \subseteq objects[d][m]
  BY <1>0 DEF TypeInv, HealthMoves
<1>4. WorldInv'
  <2>1. ASSUME NEW d \in Contexts, NEW m \in Namespaces PROVE world'[d][m] \in had'[d][m]
    <3>1. CASE d = c /\ m = n
      <4>1. world'[d][m] = h /\ h \in had'[d][m]
        BY <1>1, <1>2, <3>1
      <4> QED BY <4>1
    <3>2. CASE ~(d = c /\ m = n)
      <4>1. world'[d][m] = world[d][m]
        BY <1>1, <3>2
      <4>2. had'[d][m] = had[d][m]
        BY <1>2, <3>2
      <4>3. world[d][m] \in had[d][m]
        BY <1>0 DEF WorldInv
      <4> QED BY <4>1, <4>2, <4>3
    <3> QED BY <3>1, <3>2
  <2>2. ASSUME NEW d \in Contexts, NEW m \in Namespaces, NEW a \in objects'[d][m],
               NEW b \in objects'[d][m], RefOf[a] = RefOf[b]
        PROVE  a = b
    BY <1>0, <1>3, <2>2 DEF WorldInv
  <2> QED BY <2>1, <2>2 DEF WorldInv
<1>5. page' = Dirtied(c) /\ UNCHANGED <<given, failed>>
  BY DEF HealthMoves
<1>6. \A d \in Contexts, m \in Namespaces : had[d][m] \subseteq had'[d][m]
  BY <1>2
<1> QED BY <1>1, <1>2, <1>3, <1>4, <1>5, <1>6, WorldMoves

\* What a namespace holds are resources.
LEMMA ObjectsType ==
  ASSUME TypeInv, NEW c \in Contexts, NEW n \in Namespaces
  PROVE  objects[c][n] \in SUBSET Objects
<1>1. objects \in [Contexts -> [Namespaces -> SUBSET Objects]]
  BY DEF TypeInv
<1> QED BY <1>1

\* A resource comes or goes, its name still its own.
LEMMA ObjectMovesStep ==
  ASSUME SessionInv, NEW c \in Contexts, NEW n \in Namespaces, NEW o \in Objects,
         ObjectMoves(c, n, o)
  PROVE  SessionInv'
<1>0. TypeInv /\ WorldInv
  BY DEF SessionInv
<1> DEFINE new == IF o \in objects[c][n] THEN objects[c][n] \ {o} ELSE objects[c][n] \cup {o}
<1>1. new \in SUBSET Objects
  <2>1. objects[c][n] \in SUBSET Objects
    BY <1>0, ObjectsType
  <2> QED BY <2>1
<1>2. objects' = [objects EXCEPT ![c][n] = new]
  BY DEF ObjectMoves
<1> HIDE DEF new
<1>3. objects' \in [Contexts -> [Namespaces -> SUBSET Objects]]
      /\ \A d \in Contexts, m \in Namespaces :
           (d # c \/ m # n) => objects'[d][m] = objects[d][m]
  BY <1>0, <1>1, <1>2 DEF TypeInv
<1>4. WorldInv'
  BY <1>0, <1>3 DEF WorldInv, ObjectMoves
<1>5. page' = Dirtied(c) /\ UNCHANGED <<world, had, given, failed>>
  BY DEF ObjectMoves
<1> QED BY <1>0, <1>3, <1>4, <1>5, WorldMoves DEF TypeInv

\* kd answers a contexts fetch, with whatever it knows then.
LEMMA ContextsAnsweredStep == SessionInv /\ ContextsAnswered => SessionInv'
<1> SUFFICES ASSUME SessionInv, ContextsAnswered PROVE SessionInv'
  OBVIOUS
<1> DEFINE err == IF ~up THEN "down" ELSE IF given.signedIn THEN "none" ELSE "auth"
           a == [err |-> err, reasons |-> failed]
           c == [page.contexts EXCEPT !.fetch = "answered", !.answer = a]
           q == [page EXCEPT !.contexts = c]
<1>0. page \in Page /\ PageInv(page) /\ page.contexts \in ContextsStates /\ failed \subseteq Contexts
  BY DEF SessionInv, TypeInv, Page
<1>1. err \in {"none", "auth", "down"}
  OBVIOUS
<1> HIDE DEF err
<1>2. a \in Answers
  BY <1>0, <1>1 DEF Answers
<1>3. page' = q
  BY <1>0 DEF ContextsAnswered, Page, a, err
<1> HIDE DEF a
<1>4. c \in ContextsStates /\ c.fetch = "answered" /\ c.answer = a /\ c.err = page.contexts.err
  BY <1>0, <1>2 DEF ContextsStates
<1>5. page.conn = "offline" => Owes(page)
  BY <1>0 DEF ContextsAnswered, PageInv, Pill
<1> HIDE DEF c
<1>6. /\ q \in Page /\ q.contexts = c
      /\ q.sub = page.sub /\ q.ctx = page.ctx /\ q.namespace = page.namespace
      /\ q.selected = page.selected /\ q.graph = page.graph /\ q.capacity = page.capacity
      /\ q.history = page.history /\ q.live = page.live /\ q.grConn = page.grConn
      /\ q.nsConn = page.nsConn /\ q.list = page.list /\ q.errored = page.errored
      /\ q.conn = page.conn
  BY <1>0, <1>4 DEF Page
<1> HIDE DEF q
<1>7. Pill(q)
  BY <1>0, <1>2, <1>4, <1>5, <1>6 DEF PageInv, Pill, Owes
<1>8. PageInv(q)
  BY <1>0, <1>6, <1>7, PageFrame DEF PageInv
<1> QED BY <1>3, <1>6, <1>8, PageMoves DEF SessionInv, TypeInv, ContextsAnswered

\* The answer arrives.
LEMMA ContextsDeliveredStep == SessionInv /\ ContextsDelivered => SessionInv'
<1> SUFFICES ASSUME SessionInv, ContextsDelivered PROVE SessionInv'
  OBVIOUS
<1>1. ContextsEvent(page) \in Page /\ PageInv(ContextsEvent(page))
  BY ContextsEventInv DEF SessionInv, TypeInv, ContextsDelivered
<1> QED BY <1>1, PageMoves DEF SessionInv, TypeInv, ContextsDelivered

\* The namespaces stream is refused.
LEMMA NsRefusedStep == SessionInv /\ NsRefused => SessionInv'
<1> SUFFICES ASSUME SessionInv, NsRefused PROVE SessionInv'
  OBVIOUS
<1>1. NamespacesError(page) \in Page /\ PageInv(NamespacesError(page))
  BY NamespacesErrorInv DEF SessionInv, TypeInv
<1> QED BY <1>1, TouchedBroken, PageMoves DEF SessionInv, NsRefused

\* A context that is not refused is one of the kubeconfig.
LEMMA AcceptedContext ==
  ASSUME page.ctx \in Keys, page.ctx # None, ~Refused
  PROVE  page.ctx \in Contexts
  BY DEF Keys, Refused

\* The list a context has now is one it had.
LEMMA WorldReported ==
  ASSUME TypeInv, WorldInv, NEW c \in Contexts
  PROVE  world[c] \in Lists /\ \A n \in Namespaces : world[c][n] \in had[c][n]
  BY DEF TypeInv, WorldInv

\* The stream is accepted: the first push is the list of its context.
LEMMA NsAcceptedStep == SessionInv /\ NsAccepted => SessionInv'
<1> SUFFICES ASSUME SessionInv, NsAccepted PROVE SessionInv'
  OBVIOUS
<1> DEFINE w == world[page.ctx]
           c == [up |-> TRUE, sent |-> w, dirty |-> FALSE, wire |-> w]
<1>0. page \in Page /\ PageInv(page) /\ page.ctx \in Keys
  BY DEF SessionInv, TypeInv, Page
<1>1. page.ctx \in Contexts
  BY <1>0, AcceptedContext DEF NsAccepted
<1>2. w \in Lists /\ \A n \in Namespaces : w[n] \in had[page.ctx][n]
  BY <1>1, WorldReported DEF SessionInv
<1>3. page' = [page EXCEPT !.nsConn = c]
  BY DEF NsAccepted
<1> HIDE DEF w
<1>4. c \in NsConns /\ c.up /\ c.wire = w
  BY <1>2 DEF NsConns
<1> HIDE DEF c
<1> DEFINE q == [page EXCEPT !.nsConn = c]
<1>5. q \in Page /\ PageInv(q)
  BY <1>0, <1>1, <1>2, <1>4, NsConnInv DEF PageInv
<1> HIDE DEF q
<1> QED BY <1>3, <1>5, PageMoves DEF SessionInv, TypeInv, NsAccepted, q

\* A tick rolls up what its context has now.
LEMMA NsTickStep == SessionInv /\ NsTick => SessionInv'
<1> SUFFICES ASSUME SessionInv, NsTick PROVE SessionInv'
  OBVIOUS
<1> DEFINE w == world[page.ctx]
           wire == IF w = page.nsConn.sent THEN None ELSE w
           c == [page.nsConn EXCEPT !.dirty = FALSE, !.sent = w, !.wire = wire]
<1>0. page \in Page /\ PageInv(page) /\ page.nsConn \in NsConns /\ page.nsConn.up
  BY DEF SessionInv, TypeInv, Page, NsTick
<1>1. page.ctx \in Contexts
  BY <1>0 DEF PageInv, Listing
<1>2. w \in Lists /\ \A n \in Namespaces : w[n] \in had[page.ctx][n]
  BY <1>1, WorldReported DEF SessionInv
<1>3. page' = [page EXCEPT !.nsConn = c]
  BY <1>0 DEF NsTick, Page
<1> HIDE DEF w
<1>4. wire \in Lists \cup {None} /\ (wire # None => \A n \in Namespaces : wire[n] \in had[page.ctx][n])
  BY <1>2
<1> HIDE DEF wire
<1>5. c \in NsConns /\ c.up /\ c.wire = wire
  BY <1>0, <1>2, <1>4 DEF NsConns
<1> HIDE DEF c
<1> DEFINE q == [page EXCEPT !.nsConn = c]
<1>6. q \in Page /\ PageInv(q)
  BY <1>0, <1>1, <1>4, <1>5, NsConnInv DEF PageInv
<1> HIDE DEF q
<1> QED BY <1>3, <1>6, PageMoves DEF SessionInv, TypeInv, NsTick, q

\* A list arrives.
LEMMA NsDeliveredStep == SessionInv /\ NsDelivered => SessionInv'
<1> SUFFICES ASSUME SessionInv, NsDelivered PROVE SessionInv'
  OBVIOUS
<1> DEFINE list == page.nsConn.wire
           c == [page.nsConn EXCEPT !.wire = None]
           q == [page EXCEPT !.nsConn = c]
           r == NamespacesEvent(q, list)
<1>0. page \in Page /\ PageInv(page) /\ page.nsConn \in NsConns
  BY DEF SessionInv, TypeInv, Page
<1>1. /\ list \in Lists /\ page.nsConn.up /\ page.ctx \in Contexts
      /\ \A n \in Namespaces : list[n] \in had[page.ctx][n]
  BY <1>0 DEF NsDelivered, PageInv, Listing, NsConns
<1>2. [page EXCEPT !.nsConn.wire = None] = q
  BY <1>0 DEF Page
<1>3. page' = Remembered(r)
  BY <1>2 DEF NsDelivered
<1> HIDE DEF list
<1>4. c \in NsConns /\ c.up /\ c.wire = None
  BY <1>0, <1>1 DEF NsConns
<1> HIDE DEF c
<1>5. q \in Page /\ OfSub(q) /\ InScope(q) /\ Listing(q) /\ Pill(q) /\ q.ctx = page.ctx
  BY <1>0, <1>1, <1>4, NsConnInv DEF PageInv
<1> HIDE DEF q
<1>6. r \in Page /\ PageInv(r)
  BY <1>1, <1>5, NamespacesEventInv
<1> HIDE DEF r
<1>7. Remembered(r) \in Page /\ PageInv(Remembered(r))
  BY <1>6, RememberedInv
<1> QED BY <1>3, <1>7, PageMoves DEF SessionInv, TypeInv, NsDelivered

\* The graph stream is refused.
LEMMA GraphRefusalStep == SessionInv /\ GraphRefusal => SessionInv'
<1> SUFFICES ASSUME SessionInv, GraphRefusal PROVE SessionInv'
  OBVIOUS
<1>1. GraphError(page) \in Page /\ PageInv(GraphError(page))
  BY GraphErrorInv DEF SessionInv, TypeInv, GraphRefusal, Owes
<1> QED BY <1>1, TouchedBroken, PageMoves DEF SessionInv, GraphRefusal

\* What a namespace holds: resources of its context and name, one of each.
LEMMA InNamespaceIds ==
  ASSUME TypeInv, WorldInv, NEW c \in Contexts, NEW n \in Namespaces
  PROVE  /\ InNamespace(c, n) \subseteq Ids /\ Unique(InNamespace(c, n))
         /\ \A i \in InNamespace(c, n) : i.ctx = c /\ i.ns = n
<1>1. objects[c][n] \subseteq Objects /\ \A a, b \in objects[c][n] : RefOf[a] = RefOf[b] => a = b
  BY DEF TypeInv, WorldInv
<1>2. \A i \in InNamespace(c, n) :
        i \in Ids /\ i = Id(c, n, i.obj) /\ i.obj \in objects[c][n] /\ i.ctx = c /\ i.ns = n
  BY <1>1 DEF InNamespace, Ids, Id
<1>3. Unique(InNamespace(c, n))
  BY <1>1, <1>2 DEF Unique
<1> QED BY <1>2, <1>3

\* A build of a namespace is of it, and reports a health it has had.
LEMMA BuiltType ==
  ASSUME TypeInv, WorldInv, InScope(page), page.ctx \in Contexts, page.namespace \in Namespaces
  PROVE  /\ Built \in Builds /\ BuiltFor(page, Built.nodes)
         /\ Reported(page.ctx, page.namespace, Built.health)
<1> DEFINE c == page.ctx
           n == page.namespace
           h == IF world[c][n] = Absent THEN 0 ELSE world[c][n]
           nodes == InNamespace(c, n)
<1>1. world[c][n] \in Healths \cup {Absent} /\ world[c][n] \in had[c][n]
  <2>1. world[c] \in Lists /\ world[c][n] \in had[c][n]
    BY WorldReported
  <2> QED BY <2>1 DEF Lists
<1>2. h \in Healths /\ Reported(c, n, h)
  BY <1>1 DEF Reported
<1>3. nodes \subseteq Ids /\ Unique(nodes) /\ \A i \in nodes : i.ctx = c /\ i.ns = n
  BY InNamespaceIds
<1>4. Built = [nodes |-> nodes, health |-> h]
  BY DEF Built
<1> HIDE DEF h, nodes
<1>5. page.sub = page.ctx /\ page.sub # None
  BY DEF InScope
<1> QED BY <1>2, <1>3, <1>4, <1>5 DEF Builds, BuiltFor

\* The stream is accepted: its snapshot is the build of now.
LEMMA GraphAcceptedStep == SessionInv /\ GraphAccepted => SessionInv'
<1> SUFFICES ASSUME SessionInv, GraphAccepted PROVE SessionInv'
  OBVIOUS
<1> DEFINE b == Built
           w == [event |-> "snapshot", build |-> b]
           c == [up |-> TRUE, sent |-> b, dirty |-> FALSE, wire |-> w]
           q == [page EXCEPT !.grConn = c]
<1>0. page \in Page /\ PageInv(page) /\ page.ctx \in Keys /\ page.namespace \in Namespaces \cup {None}
  BY DEF SessionInv, TypeInv, Page
<1>1. page.ctx \in Contexts /\ page.namespace \in Namespaces
  BY <1>0, AcceptedContext DEF GraphAccepted, HasGraphStream, GraphRefused
<1>2. b \in Builds /\ BuiltFor(page, b.nodes) /\ Reported(page.ctx, page.namespace, b.health)
  BY <1>0, <1>1, BuiltType DEF SessionInv, PageInv
<1>3. page' = q
  BY DEF GraphAccepted
<1> HIDE DEF b
<1>4. w \in GraphEvents /\ w # None /\ w.build = b /\ w.event = "snapshot"
  BY <1>2 DEF GraphEvents
<1> HIDE DEF w
<1>5. c \in GrConns /\ c.up /\ c.wire = w
  BY <1>2, <1>4 DEF GrConns
<1> HIDE DEF c
<1>6. /\ q \in Page /\ OfSub(q) /\ InScope(q) /\ Listing(q) /\ Placed(q)
      /\ q.conn = page.conn /\ q.contexts = page.contexts /\ q.grConn = c
  BY <1>0, <1>1, <1>2, <1>4, <1>5, GrConnInv DEF PageInv
<1> HIDE DEF q
<1>7. Pill(q)
  BY <1>0, <1>4, <1>5, <1>6 DEF PageInv, Pill, Owes
<1> QED BY <1>3, <1>6, <1>7, PageMoves DEF PageInv, SessionInv, TypeInv, GraphAccepted

\* A later build is sent as a patch: the stream's snapshot is already there.
LEMMA GraphPatchedStep == SessionInv /\ GraphPatched => SessionInv'
<1> SUFFICES ASSUME SessionInv, GraphPatched PROVE SessionInv'
  OBVIOUS
<1> DEFINE b == Built
           w == [event |-> "patch", build |-> b]
           c == [page.grConn EXCEPT !.sent = b, !.wire = w]
           q == [page EXCEPT !.grConn = c]
<1>0. page \in Page /\ PageInv(page) /\ page.grConn \in GrConns
  BY DEF SessionInv, TypeInv, Page
<1>1. page.ctx \in Contexts /\ page.namespace \in Namespaces
  BY <1>0 DEF GraphPatched, PageInv, InScope
<1>2. b \in Builds /\ BuiltFor(page, b.nodes) /\ Reported(page.ctx, page.namespace, b.health)
  BY <1>0, <1>1, BuiltType DEF SessionInv, PageInv
<1>3. page' = q
  BY <1>0 DEF GraphPatched, Page
<1> HIDE DEF b
<1>4. w \in GraphEvents /\ w # None /\ w.build = b
  BY <1>2 DEF GraphEvents
<1> HIDE DEF w
<1>5. c \in GrConns /\ c.up /\ c.wire = w
  BY <1>0, <1>2, <1>4 DEF GrConns, GraphPatched
<1> HIDE DEF c
<1>6. /\ q \in Page /\ OfSub(q) /\ InScope(q) /\ Listing(q) /\ Placed(q)
      /\ q.conn = page.conn /\ q.contexts = page.contexts /\ q.grConn = c
  BY <1>0, <1>1, <1>2, <1>4, <1>5, GrConnInv DEF PageInv
<1> HIDE DEF q
<1>7. ~Owes(page)
  BY DEF Owes, GraphPatched
<1>8. Pill(q)
  BY <1>0, <1>6, <1>7 DEF PageInv, Pill
<1> QED BY <1>3, <1>6, <1>8, PageMoves DEF PageInv, SessionInv, TypeInv, GraphPatched

\* A graph event arrives, and the summary of its build.
LEMMA GraphDeliveredStep == SessionInv /\ GraphDelivered => SessionInv'
<1> SUFFICES ASSUME SessionInv, GraphDelivered PROVE SessionInv'
  OBVIOUS
<1> DEFINE w == page.grConn.wire
           c == [page.grConn EXCEPT !.wire = None]
           p == [page EXCEPT !.grConn = c]
           q == IF w.event = "snapshot" THEN SnapshotEvent(p, w.build.nodes)
                ELSE PatchEvent(p, w.build.nodes)
           r == SummaryEvent(q, page.ctx, page.namespace, w.build.health)
<1>0. page \in Page /\ PageInv(page) /\ page.grConn \in GrConns /\ w # None
  BY DEF SessionInv, TypeInv, Page, GraphDelivered
<1>1. /\ page.ctx \in Contexts /\ page.namespace \in Namespaces /\ page.grConn.up
      /\ Reported(page.ctx, page.namespace, w.build.health)
      /\ page.sub = page.ctx
      /\ Unique(w.build.nodes)
      /\ \A i \in w.build.nodes : i.ctx = page.ctx /\ i.ns = page.namespace
  BY <1>0 DEF PageInv, InScope
<1>2. w \in GraphEvents /\ w.build.health \in Healths /\ w.build.nodes \subseteq Ids
  BY <1>0 DEF GrConns, GraphEvents, Builds
<1>3. page' = Remembered(r)
  <2>1. [page EXCEPT !.grConn.wire = None] = p
    BY <1>0 DEF Page
  <2> QED BY <2>1 DEF GraphDelivered
<1>4. w.event # "snapshot" => ~Owes(page)
  BY <1>1 DEF Owes
<1>5. c \in GrConns /\ c.up /\ c.wire = None
  BY <1>0, <1>1 DEF GrConns
<1> HIDE DEF w, c
<1>6. /\ p \in Page /\ OfSub(p) /\ InScope(p) /\ Listing(p) /\ Placed(p)
      /\ p.conn = page.conn /\ p.contexts = page.contexts /\ p.grConn = c
      /\ p.sub = page.sub /\ p.ctx = page.ctx /\ p.namespace = page.namespace
  BY <1>0, <1>1, <1>5, GrConnInv DEF PageInv
<1> HIDE DEF p
<1>7. BuiltFor(p, w.build.nodes)
  BY <1>1, <1>2, <1>6 DEF BuiltFor
<1>8. q \in Page /\ PageInv(q)
  <2>1. CASE w.event = "snapshot"
    BY <1>0, <1>6, <1>7, <2>1, SnapshotEventInv DEF PageInv, Pill
  <2>2. CASE w.event # "snapshot"
    <3>1. Pill(p)
      BY <1>0, <1>4, <1>6, <2>2 DEF PageInv, Pill
    <3> QED BY <1>6, <1>7, <2>2, <3>1, PatchEventInv DEF PageInv
  <2> QED BY <2>1, <2>2
<1> HIDE DEF q
<1>9. r \in Page /\ PageInv(r)
  BY <1>1, <1>2, <1>8, SummaryEventInv
<1> HIDE DEF r
<1>10. Remembered(r) \in Page /\ PageInv(Remembered(r))
  BY <1>9, RememberedInv
<1> QED BY <1>3, <1>10, PageMoves DEF SessionInv, TypeInv, GraphDelivered

\* The cluster-wide resources arrive.
LEMMA CapacityDeliveredStep == SessionInv /\ CapacityDelivered => SessionInv'
<1> SUFFICES ASSUME SessionInv, CapacityDelivered PROVE SessionInv'
  OBVIOUS
<1> DEFINE c == page.ctx
           nodes == InCluster(c)
<1>0. page \in Page /\ PageInv(page)
  BY DEF SessionInv, TypeInv
<1>1. c \in Contexts /\ page.namespace \in Namespaces /\ page.sub = c /\ page.sub # None
  BY <1>0 DEF CapacityDelivered, PageInv, InScope
<1>2. ASSUME NEW i \in nodes
      PROVE  \E n \in Namespaces : i \in InNamespace(c, n)
  BY DEF InCluster
<1>3. nodes \subseteq Ids /\ \A i \in nodes : i.ctx = c
  BY <1>1, <1>2, InNamespaceIds DEF SessionInv
<1>4. Unique(nodes)
  <2> SUFFICES ASSUME NEW a \in nodes, NEW b \in nodes, a.ctx = b.ctx, a.ns = b.ns,
                      RefOf[a.obj] = RefOf[b.obj]
               PROVE  a = b
    BY DEF Unique
  <2>1. PICK m \in Namespaces : a \in InNamespace(c, m)
    BY <1>2
  <2>2. PICK n \in Namespaces : b \in InNamespace(c, n)
    BY <1>2
  <2>3. a.ns = m /\ b.ns = n /\ Unique(InNamespace(c, m))
    BY <1>1, <2>1, <2>2, InNamespaceIds DEF SessionInv
  <2> QED BY <2>1, <2>2, <2>3 DEF Unique
<1>5. page' = Remembered(CapacityEvent(page, nodes))
  BY DEF CapacityDelivered
<1> HIDE DEF nodes
<1>6. CapacityEvent(page, nodes) \in Page /\ PageInv(CapacityEvent(page, nodes))
  BY <1>0, <1>1, <1>3, <1>4, CapacityEventInv
<1>7. Remembered(CapacityEvent(page, nodes)) \in Page
      /\ PageInv(Remembered(CapacityEvent(page, nodes)))
  BY <1>6, RememberedInv
<1> QED BY <1>5, <1>7, PageMoves DEF SessionInv, TypeInv, CapacityDelivered

\* A namespaces stream that is dialled again.
LEMMA NsDialled ==
  ASSUME NEW p \in Page, PageInv(p), NEW q, q = [p EXCEPT !.nsConn = Dial]
  PROVE  q \in Page /\ PageInv(q)
  BY DialType, DialDown, NsConnInv DEF PageInv

\* A graph stream that is dialled again owes its snapshot.
LEMMA GraphDialled ==
  ASSUME NEW p \in Page, PageInv(p), NEW q, q = [p EXCEPT !.grConn = Dial]
  PROVE  q \in Page /\ PageInv(q) /\ Owes(q)
<1>1. /\ q \in Page /\ OfSub(q) /\ InScope(q) /\ Listing(q) /\ Placed(q)
      /\ q.conn = p.conn /\ q.contexts = p.contexts /\ q.grConn = Dial
  BY DialType, DialDown, GrConnInv DEF PageInv
<1>2. Owes(q)
  BY <1>1, DialDown DEF Owes
<1>3. Pill(q)
  BY <1>1, <1>2 DEF PageInv, Pill
<1> QED BY <1>1, <1>2, <1>3 DEF PageInv

\* A stream breaks, with an error event.
LEMMA BrokenStep == SessionInv /\ (NsBroken \/ GraphBroken) => SessionInv'
<1> SUFFICES ASSUME SessionInv, NsBroken \/ GraphBroken PROVE SessionInv'
  OBVIOUS
<1> DEFINE n == [page EXCEPT !.nsConn = Dial]
           g == [page EXCEPT !.grConn = Dial]
<1>0. page \in Page /\ PageInv(page) /\ failed \subseteq given.broken
  BY DEF SessionInv, TypeInv
<1>1. n \in Page /\ PageInv(n) /\ g \in Page /\ PageInv(g) /\ Owes(g)
  BY <1>0, NsDialled, GraphDialled
<1>2. CASE NsBroken
  <2>1. page' = NamespacesError(n) /\ UNCHANGED <<world, had, objects, given, failed>>
    BY <1>2 DEF NsBroken
  <2> HIDE DEF n
  <2>2. NamespacesError(n) \in Page /\ PageInv(NamespacesError(n))
    BY <1>1, NamespacesErrorInv
  <2> QED BY <1>0, <2>1, <2>2, PageMoves
<1>3. CASE GraphBroken
  <2>1. page' = GraphError(g) /\ UNCHANGED <<world, had, objects, given, failed>>
    BY <1>3 DEF GraphBroken
  <2> HIDE DEF g
  <2>2. GraphError(g) \in Page /\ PageInv(GraphError(g))
    BY <1>1, GraphErrorInv
  <2> QED BY <1>0, <2>1, <2>2, PageMoves
<1> QED BY <1>2, <1>3

\* A stream stalls and the watchdog dials it again, without an error event.
LEMMA StalledStep == SessionInv /\ (NsStalled \/ GraphStalled) => SessionInv'
<1> SUFFICES ASSUME SessionInv, NsStalled \/ GraphStalled PROVE SessionInv'
  OBVIOUS
<1>0. page \in Page /\ PageInv(page) /\ failed \subseteq given.broken
  BY DEF SessionInv, TypeInv
<1>1. page' \in {[page EXCEPT !.nsConn = Dial], [page EXCEPT !.grConn = Dial]}
      /\ UNCHANGED <<world, had, objects, given, failed>>
  BY DEF NsStalled, GraphStalled
<1>2. PICK q \in {[page EXCEPT !.nsConn = Dial], [page EXCEPT !.grConn = Dial]} : page' = q
  BY <1>1
<1>3. q \in Page /\ PageInv(q)
  BY <1>0, NsDialled, GraphDialled
<1> QED BY <1>0, <1>1, <1>2, <1>3, PageMoves

\* kd stops and starts; the tab notices nothing at once.
LEMMA ServerStep == SessionInv /\ (ServerStops \/ ServerStarts) => SessionInv'
<1> SUFFICES ASSUME SessionInv, ServerStops \/ ServerStarts PROVE SessionInv'
  OBVIOUS
<1>1. page' = page /\ UNCHANGED <<world, had, objects, given>> /\ failed' \subseteq given.broken
  BY DEF SessionInv, TypeInv, ServerStops, ServerStarts
<1> QED BY <1>1, PageMoves DEF SessionInv, TypeInv

\* The merged sidebar is a list of the namespaces of the list.
LEMMA MergedType ==
  ASSUME NEW p \in Page
  PROVE  Merged(p) \in Lists /\ Names(Merged(p)) = Names(NamespaceList(p))
<1> DEFINE list == NamespaceList(p)
<1>1. list \in Lists
  BY NamespaceListType
<1> HIDE DEF list
<1>2. ASSUME NEW n \in Namespaces
      PROVE  /\ Merged(p)[n] \in Healths \cup {Absent}
             /\ Merged(p)[n] # Absent <=> list[n] # Absent
  <2>1. Merged(p)[n] = IF list[n] # Absent /\ p.live[n] # None /\ p.live[n].ctx = p.ctx
                       THEN p.live[n].health ELSE list[n]
    BY DEF Merged, list
  <2>2. list[n] \in Healths \cup {Absent}
    BY <1>1 DEF Lists
  <2>3. p.live[n] # None => p.live[n].health \in Healths
    BY DEF Page, Summaries
  <2> QED BY <2>1, <2>2, <2>3, AbsentIsNone
<1>3. Merged(p) \in Lists
  BY <1>2 DEF Lists, Merged
<1> QED BY <1>2, <1>3 DEF Names, list

\* Choosing a context, or a namespace, from the sidebar or by the badge.
LEMMA ChooseStep ==
  ASSUME SessionInv,
         \/ \E c \in Contexts : ChooseContext(c)
         \/ \E n \in Namespaces : ChooseNamespace(n)
         \/ JumpToTrouble
  PROVE  SessionInv'
<1>0. page \in Page /\ PageInv(page)
  BY DEF SessionInv, TypeInv
<1>1. ASSUME NEW c \in Contexts, ChooseContext(c) PROVE SessionInv'
  <2>1. SetCtx(page, c) \in Page /\ PageInv(SetCtx(page, c))
    BY <1>0, SetCtxInv
  <2> QED BY <1>1, <2>1, ActsMove DEF ChooseContext
<1>2. ASSUME NEW n \in Namespaces, n \in Names(Merged(page)), Acts(SetNamespace(page, n))
      PROVE  SessionInv'
  <2>1. n \in Names(NamespaceList(page))
    BY <1>0, <1>2, MergedType
  <2>2. SetNamespace(page, n) \in Page /\ PageInv(SetNamespace(page, n))
    BY <1>0, <2>1, SetNamespaceInv DEF PageInv
  <2> QED BY <1>2, <2>2, ActsMove
<1>3. CASE JumpToTrouble
  <2> DEFINE list == Merged(page)
             n == NextTroubled(list, page.namespace)
             T == Troubled(list)
             After == {m \in T : Before(list, page.namespace, m)}
  <2>1. list \in Lists
    BY <1>0, MergedType
  <2>2. T # {} /\ T \in SUBSET Namespaces /\ T \subseteq Names(list) /\ After \in SUBSET Namespaces
    BY <1>3 DEF JumpToTrouble, Troubled, Real, Names
  <2>3. (n = Top(list, After) /\ After # {}) \/ n = Top(list, T)
    BY DEF NextTroubled
  <2> HIDE DEF n, list, T
  <2>4. n \in T
    BY <2>1, <2>2, <2>3, TopFirst
  <2> QED BY <1>2, <1>3, <2>2, <2>4 DEF JumpToTrouble, n, list
<1> QED BY <1>1, <1>2, <1>3 DEF ChooseNamespace

\* Selecting in the canvas.
LEMMA SelectStep ==
  ASSUME SessionInv, (\E i \in Visible(page) : Select(i)) \/ Deselect
  PROVE  SessionInv'
<1>0. page \in Page /\ PageInv(page)
  BY DEF SessionInv, TypeInv
<1>1. PICK i \in Visible(page) \cup {None} : Acts([page EXCEPT !.selected = i])
  BY DEF Select, Deselect
<1>2. i = None \/ (i \in Ids /\ i.ctx = page.sub /\ page.sub # None)
  BY <1>0 DEF Visible, Page, PageInv, OfSub
<1> DEFINE q == [page EXCEPT !.selected = i]
<1>3. q \in Page /\ PageInv(q)
  BY <1>0, <1>2, SelectedInv DEF PageInv
<1> QED BY <1>1, <1>3, ActsMove

\* A selection, with the way back to the ones before it.
LEMMA HistoryInv ==
  ASSUME NEW p \in Page, PageInv(p), p.sub # None, NEW i \in Ids, i.ctx = p.sub,
         NEW h \in Seq(Ids), \A k \in DOMAIN h : h[k].ctx = p.sub,
         NEW q, q = [p EXCEPT !.selected = i, !.history = h]
  PROVE  q \in Page /\ PageInv(q)
<1>1. /\ q \in Page /\ q.selected = i /\ q.history = h
      /\ q.sub = p.sub /\ q.ctx = p.ctx /\ q.namespace = p.namespace
      /\ q.graph = p.graph /\ q.capacity = p.capacity
      /\ q.live = p.live /\ q.grConn = p.grConn /\ q.nsConn = p.nsConn /\ q.list = p.list
      /\ q.errored = p.errored /\ q.conn = p.conn /\ q.contexts = p.contexts
  BY DEF Page
<1>2. OfSub(q)
  BY <1>1 DEF PageInv, OfSub, Unique
<1>3. InScope(q)
  BY <1>1 DEF PageInv, InScope
<1>4. Listing(q)
  BY <1>1 DEF PageInv, Listing
<1>5. Placed(q)
  BY <1>1 DEF PageInv, Placed, NamespaceList
<1>6. Pill(q)
  BY <1>1 DEF PageInv, Pill, Owes
<1> QED BY <1>1, <1>2, <1>3, <1>4, <1>5, <1>6 DEF PageInv

\* Following an owner chip.
LEMMA SelectAndRememberStep ==
  ASSUME SessionInv, NEW i \in Visible(page), SelectAndRemember(i)
  PROVE  SessionInv'
<1> DEFINE h == IF page.selected = i THEN page.history ELSE Append(page.history, page.selected)
<1>0. page \in Page /\ PageInv(page) /\ page.selected # None
  BY DEF SessionInv, TypeInv, SelectAndRemember
<1>1. i \in Ids /\ i.ctx = page.sub /\ page.sub # None
  BY <1>0 DEF Visible, Page, PageInv, OfSub
<1>2. page.history \in Seq(Ids) /\ page.selected \in Ids /\ page.selected.ctx = page.sub
      /\ \A k \in DOMAIN page.history : page.history[k].ctx = page.sub
  BY <1>0 DEF Page, PageInv, OfSub
<1>3. h \in Seq(Ids) /\ \A k \in DOMAIN h : h[k].ctx = page.sub
  <2>1. CASE page.selected = i
    BY <1>2, <2>1
  <2>2. CASE page.selected # i
    <3>1. h = Append(page.history, page.selected)
      BY <2>2
    <3>2. h \in Seq(Ids) /\ Len(h) = Len(page.history) + 1
          /\ (\A k \in 1..Len(page.history) : h[k] = page.history[k])
          /\ h[Len(page.history) + 1] = page.selected
      BY <1>2, <3>1, AppendProperties
    <3>3. DOMAIN h = 1..Len(h) /\ DOMAIN page.history = 1..Len(page.history)
          /\ Len(page.history) \in Nat
      BY <1>2, <3>2
    <3> HIDE DEF h
    <3>4. ASSUME NEW k \in DOMAIN h PROVE h[k].ctx = page.sub
      <4>1. CASE k = Len(page.history) + 1
        <5>1. h[Len(page.history) + 1].ctx = page.sub
          BY <1>2, <3>2
        <5> QED BY <4>1, <5>1
      <4>2. CASE k # Len(page.history) + 1
        <5>1. k \in 1..Len(page.history)
          BY <3>2, <3>3, <4>2
        <5>2. h[k] = page.history[k]
          BY <3>2, <5>1
        <5> QED BY <1>2, <3>3, <5>1, <5>2
      <4> QED BY <4>1, <4>2
    <3> QED BY <3>2, <3>4
  <2> QED BY <2>1, <2>2
<1>4. Acts([page EXCEPT !.selected = i, !.history = h])
  <2>1. [page EXCEPT !.selected = i,
                     !.history = IF page.selected = i THEN @ ELSE Append(@, page.selected)]
        = [page EXCEPT !.selected = i, !.history = h]
    BY <1>0 DEF Page
  <2> HIDE DEF h
  <2> QED BY <2>1 DEF SelectAndRemember
<1> HIDE DEF h
<1> DEFINE q == [page EXCEPT !.selected = i, !.history = h]
<1>5. q \in Page /\ PageInv(q)
  BY <1>0, <1>1, <1>3, HistoryInv
<1> QED BY <1>4, <1>5, ActsMove

\* Going back.
LEMMA GoBackStep ==
  ASSUME SessionInv, GoBack
  PROVE  SessionInv'
<1> DEFINE last == page.history[Len(page.history)]
           h == SubSeq(page.history, 1, Len(page.history) - 1)
<1>0. page \in Page /\ PageInv(page) /\ page.history # <<>>
  BY DEF SessionInv, TypeInv, GoBack
<1>1. page.history \in Seq(Ids) /\ \A k \in DOMAIN page.history : page.history[k].ctx = page.sub
  BY <1>0 DEF Page, PageInv, OfSub
<1>2. Len(page.history) \in Nat \ {0} /\ DOMAIN page.history = 1..Len(page.history)
  BY <1>0, <1>1
<1>3. last \in Ids /\ last.ctx = page.sub /\ page.sub # None
  BY <1>0, <1>1, <1>2 DEF PageInv, OfSub
<1>4. h \in Seq(Ids) /\ Len(h) = Len(page.history) - 1
      /\ \A k \in 1..Len(h) : h[k] = page.history[k]
  BY <1>1, <1>2, SubSeqProperties
<1>5. Acts([page EXCEPT !.selected = last, !.history = h])
  <2>1. [page EXCEPT !.selected = page.history[Len(page.history)],
                     !.history = SubSeq(@, 1, Len(@) - 1)]
        = [page EXCEPT !.selected = last, !.history = h]
    BY <1>0 DEF Page
  <2> HIDE DEF h, last
  <2> QED BY <2>1 DEF GoBack, h, last
<1> HIDE DEF h, last
<1>6. \A k \in DOMAIN h : h[k].ctx = page.sub
  <2>1. DOMAIN h = 1..Len(h) /\ Len(h) \in Nat
    BY <1>4
  <2>2. \A k \in 1..Len(h) : k \in DOMAIN page.history
    BY <1>2, <1>4, <2>1
  <2> QED BY <1>1, <1>4, <2>1, <2>2
<1> DEFINE q == [page EXCEPT !.selected = last, !.history = h]
<1>7. q \in Page /\ PageInv(q)
  BY <1>0, <1>3, <1>4, <1>6, HistoryInv
<1> QED BY <1>5, <1>7, ActsMove

\* Filters and the notice are no part of PageInv; Home also deselects.
LEMMA FilterStep ==
  ASSUME SessionInv, Filter \/ Home \/ DismissNotice
  PROVE  SessionInv'
<1>0. page \in Page /\ PageInv(page)
  BY DEF SessionInv, TypeInv
<1>1. ASSUME NEW f \in BOOLEAN, NEW g \in BOOLEAN, NEW p \in Page, PageInv(p)
      PROVE  /\ [p EXCEPT !.filtered = f] \in Page /\ PageInv([p EXCEPT !.filtered = f])
             /\ [p EXCEPT !.notice = g] \in Page /\ PageInv([p EXCEPT !.notice = g])
  <2>1. ASSUME NEW q, q = [p EXCEPT !.filtered = f] \/ q = [p EXCEPT !.notice = g]
        PROVE  q \in Page /\ PageInv(q)
    <3>1. /\ q \in Page
          /\ q.sub = p.sub /\ q.ctx = p.ctx /\ q.namespace = p.namespace /\ q.selected = p.selected
          /\ q.graph = p.graph /\ q.capacity = p.capacity /\ q.history = p.history
          /\ q.live = p.live /\ q.grConn = p.grConn /\ q.nsConn = p.nsConn /\ q.list = p.list
          /\ q.errored = p.errored /\ q.conn = p.conn /\ q.contexts = p.contexts
      BY <1>1, <2>1 DEF Page
    <3> QED BY <1>1, <3>1, PageFrame DEF PageInv
  <2> QED BY <2>1
<1>2. CASE Filter
  BY <1>0, <1>1, <1>2, ActsMove DEF Filter
<1>3. CASE DismissNotice
  BY <1>0, <1>1, <1>3, ActsMove DEF DismissNotice
<1>4. CASE Home
  <2> DEFINE q == [page EXCEPT !.filtered = FALSE]
             r == [q EXCEPT !.selected = None]
  <2>1. q \in Page /\ PageInv(q)
    BY <1>0, <1>1
  <2>2. [page EXCEPT !.filtered = FALSE, !.selected = None] = r
    BY <1>0 DEF Page
  <2> HIDE DEF q
  <2>3. r \in Page /\ PageInv(r)
    BY <2>1, SelectedInv DEF PageInv
  <2> HIDE DEF r
  <2> QED BY <1>4, <2>2, <2>3, ActsMove DEF Home
<1> QED BY <1>2, <1>3, <1>4

\* Retrying what failed.
LEMMA RetryStep ==
  ASSUME SessionInv, Retry \/ RetryList
  PROVE  SessionInv'
<1>0. page \in Page /\ PageInv(page)
  BY DEF SessionInv, TypeInv
<1>1. ASSUME NEW p \in Page, PageInv(p)
      PROVE  Subscribable(p) /\ Listed(p) \in Page /\ Subscribable(Listed(p))
  <2>1. Subscribable(p)
    BY <1>1 DEF Subscribable, PageInv, InScope, Pill
  <2>2. CASE p.ctx = None
    BY <1>1, <2>1, <2>2 DEF Listed
  <2>3. CASE p.ctx # None
    BY <1>1, <2>1, <2>3, ListedInv DEF Subscribable, PageInv, Listing
  <2> QED BY <2>1, <2>2, <2>3
<1>2. CASE Retry
  <2> DEFINE p == IF page.contexts.err = "none" THEN page ELSE Refetch(page)
             q == IF page.errored THEN Listed(p) ELSE p
  <2>1. Acts(Subscribed(q))
    BY <1>2 DEF Retry
  <2>2. p \in Page /\ Subscribable(p) /\ Listed(p) \in Page /\ Subscribable(Listed(p))
    <3>1. CASE p = page
      BY <1>0, <1>1, <3>1
    <3>2. CASE p = Refetch(page)
      <4> DEFINE r == Refetch(page)
      <4>1. /\ r \in Page /\ r.contexts.fetch = "asked"
            /\ r.sub = page.sub /\ r.ctx = page.ctx /\ r.namespace = page.namespace
            /\ r.graph = page.graph /\ r.capacity = page.capacity /\ r.selected = page.selected
            /\ r.history = page.history /\ r.live = page.live /\ r.grConn = page.grConn
            /\ r.nsConn = page.nsConn /\ r.list = page.list /\ r.errored = page.errored
        BY <1>0, RefetchFields
      <4> HIDE DEF r
      <4>2. OfSub(r) /\ InScope(r) /\ Listing(r) /\ Placed(r)
        BY <1>0, <4>1, PageFrame DEF PageInv
      <4>3. Subscribable(r)
        BY <4>1, <4>2 DEF Subscribable, InScope
      <4>4. Listed(r) \in Page /\ Subscribable(Listed(r))
        <5>1. CASE r.ctx = None
          BY <4>1, <4>3, <5>1 DEF Listed
        <5>2. CASE r.ctx # None
          BY <4>1, <4>2, <4>3, <5>2, ListedInv DEF Subscribable, Listing
        <5> QED BY <5>1, <5>2
      <4> QED BY <3>2, <4>1, <4>3, <4>4 DEF r
    <3> QED BY <3>1, <3>2
  <2> HIDE DEF p
  <2>3. q \in Page /\ Subscribable(q)
    BY <2>2
  <2> HIDE DEF q
  <2>4. Subscribed(q) \in Page /\ PageInv(Subscribed(q))
    BY <2>3, SubscribedInv
  <2> QED BY <2>1, <2>4, ActsMove
<1>3. CASE RetryList
  <2>1. Acts(Listed(page)) /\ page.errored
    BY <1>3 DEF RetryList
  <2>2. Listed(page) \in Page /\ Subscribable(Listed(page))
    BY <1>0, <1>1
  <2>3. InScope(Listed(page)) /\ Pill(Listed(page))
    <3>1. CASE page.ctx = None
      BY <1>0, <3>1 DEF Listed, PageInv
    <3>2. CASE page.ctx # None
      <4> DEFINE r == Listed(page)
      <4>1. /\ r.ctx = page.ctx /\ r.namespace = page.namespace /\ r.sub = page.sub
            /\ r.conn = page.conn /\ r.graph = page.graph /\ r.grConn = page.grConn
            /\ r.contexts = page.contexts
        BY <1>0, <3>2, ListedFields
      <4> HIDE DEF r
      <4>2. InScope(r)
        BY <1>0, <4>1 DEF PageInv, InScope
      <4>3. Pill(r)
        BY <1>0, <4>1 DEF PageInv, Pill, Owes
      <4> QED BY <4>2, <4>3 DEF r
    <3> QED BY <3>1, <3>2
  <2> QED BY <2>1, <2>2, <2>3, ActsMove DEF PageInv, Subscribable
<1> QED BY <1>2, <1>3

\* The link of a tab is a URL.
LEMMA LinkUrl ==
  ASSUME NEW p \in Page
  PROVE  Link(p) \in Urls
<1> DEFINE c == IF InfoOf(p) THEN p.ctx ELSE None
           none == p.selected = None \/ p.selected \notin Visible(p)
           s == [ref |-> RefOf[p.selected.obj],
                 ns |-> IF p.selected.ns = p.namespace THEN None ELSE p.selected.ns]
           t == IF none THEN None ELSE s
<1>1. c \in Contexts \cup {Bogus, None} /\ p.namespace \in Namespaces \cup {None}
  BY DEF Page, Keys
<1>2. ~none => s \in Selectors
  <2>1. p.selected \in Ids \cup {None}
    BY DEF Page
  <2>2. ASSUME NEW i \in Ids PROVE i.obj \in Objects /\ i.ns \in Namespaces
    BY DEF Ids, Id
  <2> HIDE DEF s
  <2>3. ASSUME p.selected \in Ids PROVE s \in Selectors
    <3>1. RefOf[p.selected.obj] \in {RefOf[o] : o \in Objects}
      BY <2>2, <2>3
    <3>2. (IF p.selected.ns = p.namespace THEN None ELSE p.selected.ns) \in Namespaces \cup {None}
      BY <2>2, <2>3
    <3> QED BY <3>1, <3>2 DEF Selectors, s
  <2> QED BY <2>1, <2>3
<1>3. t \in Selectors \cup {None}
  BY <1>2
<1>4. Link(p) = [ctx |-> c, ns |-> p.namespace, sel |-> t]
  BY DEF Link
<1> HIDE DEF c, t
<1> QED BY <1>1, <1>3, <1>4 DEF Urls, Selectors

\* A reload starts over from that URL.
LEMMA ReloadStep ==
  ASSUME SessionInv, Reload
  PROVE  SessionInv'
<1>1. Mounted(Link(page)) \in Page /\ PageInv(Mounted(Link(page)))
  BY LinkUrl, MountedInv DEF SessionInv, TypeInv
<1> QED BY <1>1, PageMoves DEF SessionInv, TypeInv, Reload

\* Every step of the tab, of kd and of the clusters keeps the session in order.
LEMMA SessionStep == SessionInv /\ [Next]_vars => SessionInv'
<1> SUFFICES ASSUME SessionInv, [Next]_vars PROVE SessionInv'
  OBVIOUS
<1>1. CASE ClusterMoves
  <2>1. ASSUME NEW c \in Contexts, NEW n \in Namespaces, NEW h \in Healths \cup {Absent},
               HealthMoves(c, n, h)
        PROVE  SessionInv'
    BY <2>1, HealthMovesStep
  <2>2. ASSUME NEW c \in Contexts, NEW n \in Namespaces, NEW o \in Objects, ObjectMoves(c, n, o)
        PROVE  SessionInv'
    BY <2>2, ObjectMovesStep
  <2> QED BY <1>1, <2>1, <2>2, ServerStep DEF ClusterMoves
<1>2. CASE Delivers
  BY <1>2, NsDeliveredStep, GraphDeliveredStep, CapacityDeliveredStep, ContextsDeliveredStep DEF Delivers
<1>3. CASE Serves
  BY <1>3, ServerStep, ContextsAnsweredStep, NsRefusedStep, NsAcceptedStep, NsTickStep,
     GraphRefusalStep, GraphAcceptedStep, GraphPatchedStep DEF Serves
<1>4. CASE Breaks
  BY <1>4, BrokenStep, StalledStep DEF Breaks
<1>5. CASE Clicks
  <2>1. ASSUME NEW i \in Visible(page), SelectAndRemember(i) PROVE SessionInv'
    BY <2>1, SelectAndRememberStep
  <2> QED BY <1>5, <2>1, ChooseStep, SelectStep, GoBackStep, FilterStep, RetryStep, ReloadStep
          DEF Clicks
<1>6. CASE UNCHANGED vars
  BY <1>6, PageMoves DEF vars, SessionInv, TypeInv
<1> QED BY <1>1, <1>2, <1>3, <1>4, <1>5, <1>6 DEF Next

\* The session stays in order, whatever cluster, kd and operator do.
THEOREM SessionInOrder == Spec => []SessionInv
<1> QED BY SessionInit, SessionStep, PTL DEF Spec

-----------------------------------------------------------------------------
(***************************************************************************)
(* What the properties of the runs say, for every value of the constants.  *)
(***************************************************************************)
\* The tab's state is of the values the code keeps in it.
THEOREM SessionTyped == Spec => []TypeOK
<1>1. SessionInv => TypeOK
  <2> SUFFICES ASSUME page \in Page, failed \subseteq given.broken PROVE TypeOK
    BY DEF SessionInv, TypeInv
  <2>1. \A n \in Namespaces : page.live[n] = None \/ page.live[n].health \in Healths
    BY DEF Page, Summaries
  <2>2. page.nsConn.wire \in Lists \cup {None} /\ page.grConn.wire \in GraphEvents \cup {None}
    BY DEF Page, NsConns, GrConns
  <2> QED BY <2>1, <2>2 DEF TypeOK, Page, Keys
<1> QED BY <1>1, SessionInOrder, PTL

\* A sidebar row shows only a health its namespace has had in this context.
THEOREM SidebarIsOwn == Spec => []RowsAreOwn
<1>1. SessionInv => RowsAreOwn
  <2> SUFFICES ASSUME page \in Page, Listing(page), NEW n \in Names(NamespaceList(page))
               PROVE  \/ Merged(page)[n] \in had[page.ctx][n]
                      \/ Merged(page)[n] = 0 /\ Absent \in had[page.ctx][n]
    BY DEF SessionInv, TypeInv, PageInv, RowsAreOwn
  <2>1. n \in Namespaces /\ NamespaceList(page)[n] # Absent
    BY DEF Names
  <2>2. page.list # None /\ NamespaceList(page) = page.list
    <3>1. NamespaceList(page) # EmptyList
      BY <2>1 DEF EmptyList
    <3> QED BY <3>1 DEF NamespaceList
  <2>3. Merged(page)[n] = IF page.live[n] # None /\ page.live[n].ctx = page.ctx
                          THEN page.live[n].health ELSE page.list[n]
    BY <2>1, <2>2 DEF Merged
  <2> QED BY <2>1, <2>2, <2>3 DEF Listing, Reported
<1> QED BY <1>1, SessionInOrder, PTL

\* Nothing of another cluster is within reach of the drawer.
THEOREM DrawerStaysHere == Spec => []DrawerIsHere
<1>1. SessionInv => DrawerIsHere
  <2> SUFFICES ASSUME OfSub(page), InScope(page) PROVE DrawerIsHere
    BY DEF SessionInv, PageInv
  <2>1. page.sub = None \/ page.sub = page.ctx
    BY DEF InScope
  <2> QED BY <2>1 DEF OfSub, InScope, DrawerIsHere
<1> QED BY <1>1, SessionInOrder, PTL

\* The pill is offline only while something is wrong.
THEOREM OfflineIsMeant == Spec => []OfflineHasCause
<1>1. SessionInv => OfflineHasCause
  BY DEF SessionInv, PageInv, Pill, Owes, OfflineHasCause
<1> QED BY <1>1, SessionInOrder, PTL

\* With a list on screen the tab is in a namespace of it.
THEOREM TabIsPlaced == Spec => []NeverStranded
<1>1. SessionInv => NeverStranded
  BY DEF SessionInv, PageInv, Placed, NeverStranded
<1> QED BY <1>1, SessionInOrder, PTL

\* The trouble badge leaves every proper part of the troubled namespaces.
THEOREM BadgeReachesAll == Spec => []JumpVisitsAll
<1>1. SessionInv => JumpVisitsAll
  <2> SUFFICES ASSUME page \in Page PROVE JumpVisitsAll
    BY DEF SessionInv, TypeInv
  <2> DEFINE list == Merged(page)
  <2>1. list \in Lists
    BY MergedType
  <2>2. JumpVisitsAll <=> \A S \in (SUBSET Troubled(list)) \ {{}, Troubled(list)} :
                            \E n \in S : NextTroubled(list, n) \notin S
    BY DEF JumpVisitsAll
  <2> HIDE DEF list
  <2> QED BY <2>1, <2>2, JumpLeaves
<1> QED BY <1>1, SessionInOrder, PTL

\* What a graph or the capacity view may hold.
IdSets == SUBSET Ids

\* The graph alone is replaced.
LEMMA GraphSet ==
  ASSUME NEW p \in Page, NEW g \in IdSets, NEW q, q = [p EXCEPT !.graph = g]
  PROVE  /\ q \in Page /\ q.graph = g /\ q.capacity = p.capacity /\ q.selected = p.selected
         /\ q.pending = p.pending /\ q.ctx = p.ctx /\ q.namespace = p.namespace
  BY DEF Page, IdSets

\* The pill alone goes live.
LEMMA LiveSet ==
  ASSUME NEW p \in Page, NEW q, q = [p EXCEPT !.conn = "live"]
  PROVE  /\ q \in Page /\ q.graph = p.graph /\ q.capacity = p.capacity /\ q.selected = p.selected
         /\ q.pending = p.pending /\ q.ctx = p.ctx /\ q.namespace = p.namespace
  BY DEF Page

\* The selection alone is replaced.
LEMMA SelectionSet ==
  ASSUME NEW p \in Page, NEW i \in Ids \cup {None}, NEW q, q = [p EXCEPT !.selected = i]
  PROVE  /\ q \in Page /\ q.graph = p.graph /\ q.capacity = p.capacity /\ q.selected = i
         /\ q.pending = p.pending /\ q.ctx = p.ctx /\ q.namespace = p.namespace
  BY DEF Page, IdSets

\* The capacity view alone is replaced.
LEMMA CapacitySet ==
  ASSUME NEW p \in Page, NEW k \in IdSets, NEW q, q = [p EXCEPT !.capacity = k]
  PROVE  /\ q \in Page /\ q.graph = p.graph /\ q.capacity = k /\ q.selected = p.selected
         /\ q.pending = p.pending /\ q.ctx = p.ctx /\ q.namespace = p.namespace
  BY DEF Page, IdSets

\* A link that names a resource by its name in this namespace finds it in the
\* snapshot; one that names another namespace finds it in the capacity view.
LEMMA LinkResolves ==
  ASSUME NEW m \in Page, NEW g \in SUBSET Ids, NEW k \in SUBSET Ids, NEW s \in Ids,
         NEW c, NEW n,
         m.selected = None, m.capacity = {}, m.pending = [ref |-> RefOf[s.obj],
                                                          ns |-> IF s.ns = n THEN None ELSE s.ns],
         m.ctx = c, m.namespace = n,
         m.pending # None, Unique(g), Unique(k), \A i \in g : i.ctx = s.ctx /\ i.ns = n,
         \A i \in k : i.ctx = s.ctx,
         s \in g \/ (s \in k /\ s.ns # n)
  PROVE  LET p == CapacityEvent(SnapshotEvent(m, g), k)
         IN  p.ctx = c /\ p.namespace = n /\ p.selected = s
<1> DEFINE u == m.pending
           d == [m EXCEPT !.graph = g]
           a == [d EXCEPT !.conn = "live"]
           b == Restored(a)
           sel == ResolvedSelection(m, g \cup m.capacity)
           e == [b EXCEPT !.selected = sel]
           f == [e EXCEPT !.capacity = k]
           p == Restored(f)
<1>1. CapacityEvent(SnapshotEvent(m, g), k) = p
  <2>1. [m EXCEPT !.graph = g, !.conn = "live"] = a
    OBVIOUS
  <2> QED BY <2>1 DEF CapacityEvent, SnapshotEvent
<1>2. /\ a \in Page /\ a.graph = g /\ a.capacity = {} /\ a.pending = u /\ a.ctx = c
      /\ a.namespace = n
  <2>1. g \in IdSets
    BY DEF IdSets
  <2>2. /\ d \in Page /\ d.graph = g /\ d.capacity = m.capacity
        /\ d.pending = m.pending /\ d.ctx = m.ctx /\ d.namespace = m.namespace
    BY <2>1, GraphSet
  <2> HIDE DEF d
  <2>3. /\ a \in Page /\ a.graph = d.graph /\ a.capacity = d.capacity
        /\ a.pending = d.pending /\ a.ctx = d.ctx /\ a.namespace = d.namespace
    BY <2>2, LiveSet
  <2> HIDE DEF a
  <2> QED BY <2>2, <2>3
<1> HIDE DEF a, d
<1>3. u.ref = RefOf[s.obj] /\ u.ns = IF s.ns = n THEN None ELSE s.ns
  OBVIOUS
<1>4. s.ns \in Namespaces /\ s.ns # None
  BY DEF Ids, Id
<1> HIDE DEF u
<1>5. b \in Page /\ b.graph = g /\ b.capacity = {} /\ b.ctx = c /\ b.namespace = n
  BY <1>2, RestoredFields
<1>6. b.pending = IF Matches(g, u) = {} THEN u ELSE None
  <2>1. Visible(a) = g
    BY <1>2 DEF Visible
  <2>2. CASE Matches(g, u) = {}
    BY <1>2, <2>1, <2>2 DEF Restored
  <2>3. CASE Matches(g, u) # {}
    BY <1>2, <2>1, <2>3 DEF Restored, Page, u
  <2> QED BY <2>2, <2>3
<1> HIDE DEF b
<1>7. sel = IF Matches(g, u) # {} THEN CHOOSE i \in Matches(g, u) : TRUE ELSE None
  <2>1. None \notin g /\ g \cup m.capacity = g
    OBVIOUS
  <2> QED BY <2>1 DEF ResolvedSelection, u
<1> HIDE DEF sel
<1>8. sel \in Ids \cup {None}
  BY <1>7 DEF Matches
<1>9. /\ e \in Page /\ e.selected = sel /\ e.graph = g /\ e.pending = b.pending /\ e.ctx = c
      /\ e.namespace = n
  BY <1>5, <1>8, SelectionSet
<1> HIDE DEF e
<1>10. /\ f \in Page /\ f.selected = sel /\ f.graph = g /\ f.capacity = k
       /\ f.pending = b.pending /\ f.ctx = c /\ f.namespace = n
  <2>1. k \in IdSets
    BY DEF IdSets
  <2>2. /\ f \in Page /\ f.graph = e.graph /\ f.capacity = k /\ f.selected = e.selected
        /\ f.pending = e.pending /\ f.ctx = e.ctx /\ f.namespace = e.namespace
    BY <1>9, <2>1, CapacitySet
  <2> HIDE DEF f
  <2> QED BY <1>9, <2>2
<1> HIDE DEF f
<1>11. p \in Page /\ p.ctx = c /\ p.namespace = n
  BY <1>10, RestoredFields
<1>12. p.selected = s
  <2>1. CASE s \in g
    <3>1. Matches(g, u) = {s}
      <4>1. ASSUME NEW i \in g, RefOf[i.obj] = u.ref PROVE i = s
        BY <1>3, <2>1, <4>1 DEF Unique
      <4>2. u.ns = None
        BY <1>3, <2>1
      <4> QED BY <1>3, <2>1, <4>1, <4>2 DEF Matches
    <3>2. sel = s /\ b.pending = None
      BY <1>6, <1>7, <3>1
    <3> QED BY <1>10, <3>2 DEF Restored
  <2>2. CASE s \notin g
    <3>1. s \in k /\ s.ns # n /\ u.ns = s.ns
      BY <1>3, <2>2
    <3>2. Matches(g, u) = {}
      BY <1>4, <3>1 DEF Matches
    <3>3. Matches(k, u) = {s}
      <4>1. ASSUME NEW i \in k, RefOf[i.obj] = u.ref, u.ns \in {None, i.ns} PROVE i = s
        BY <1>3, <1>4, <3>1, <4>1 DEF Unique
      <4> QED BY <1>3, <3>1, <4>1 DEF Matches
    <3>4. f.pending = u /\ u # None
      BY <1>6, <1>10, <3>2 DEF u
    <3>5. s \in Matches(Visible(f), u)
      BY <1>3, <1>10, <3>1 DEF Visible, Matches
    <3>6. p = [f EXCEPT !.pending = None, !.selected = s]
      BY <1>10, <3>2, <3>3, <3>4, <3>5 DEF Restored
    <3> QED BY <1>10, <3>6 DEF Page
  <2> QED BY <2>1, <2>2
<1> QED BY <1>1, <1>11, <1>12

\* The URL of a live tab leads back to the same selection.
THEOREM LinkLeadsBack == Spec => []LinkReturns
<1>1. SessionInv => LinkReturns
  <2> SUFFICES ASSUME page \in Page, PageInv(page), InfoOf(page), page.selected \in Visible(page),
                      page.selected \in page.graph \/ page.selected.ns # page.namespace
               PROVE  LET p == CapacityEvent(SnapshotEvent(Mounted(Link(page)), page.graph), page.capacity)
                      IN  /\ p.ctx = page.ctx /\ p.namespace = page.namespace
                          /\ p.selected = page.selected
    BY DEF SessionInv, TypeInv, LinkReturns
  <2> DEFINE s == page.selected
             u == Link(page)
             m == Mounted(u)
  <2>1. s \in Ids /\ s # None /\ page.graph \in SUBSET Ids /\ page.capacity \in SUBSET Ids
    BY DEF Visible, Page
  <2>2. page.sub # None /\ s.ctx = page.sub /\ page.sub = page.ctx
        /\ page.ctx # None /\ page.namespace # None
    BY <2>1 DEF PageInv, OfSub, InScope, Visible
  <2>3. /\ u \in Urls /\ u.ctx = page.ctx /\ u.ns = page.namespace
        /\ u.sel = [ref |-> RefOf[s.obj], ns |-> IF s.ns = page.namespace THEN None ELSE s.ns]
    <3>1. u \in Urls
      BY LinkUrl
    <3> QED BY <2>1, <3>1 DEF Link
  <2>4. u.sel # None
    <3>1. u.sel \in Selectors
      <4>1. s.obj \in Objects /\ s.ns \in Namespaces
        BY <2>1 DEF Ids, Id
      <4> QED BY <2>3, <4>1 DEF Selectors
    <3> QED BY <3>1
  <2> HIDE DEF u
  <2>5. /\ m \in Page /\ m.ctx = page.ctx /\ m.namespace = page.namespace /\ m.pending = u.sel
        /\ m.selected = None /\ m.capacity = {}
    BY <2>2, <2>3, MountedInv
  <2> HIDE DEF m
  <2>6. /\ Unique(page.graph) /\ Unique(page.capacity)
        /\ \A i \in page.graph : i.ctx = s.ctx /\ i.ns = page.namespace
        /\ \A i \in page.capacity : i.ctx = s.ctx
    BY <2>2 DEF PageInv, OfSub, InScope
  <2>7. s \in page.graph \/ (s \in page.capacity /\ s.ns # page.namespace)
    BY DEF Visible
  <2> HIDE DEF s
  <2> QED BY <2>1, <2>3, <2>4, <2>5, <2>6, <2>7, LinkResolves DEF m, u, s
<1> QED BY <1>1, SessionInOrder, PTL
=============================================================================
