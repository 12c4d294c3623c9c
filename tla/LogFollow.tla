----------------------------- MODULE LogFollow -----------------------------
(***************************************************************************)
(* The follow stream of a resource's logs, end to end: containers that     *)
(* write, stop and restart; the supervisor that re-resolves the pods of    *)
(* the resource from cached snapshots and keeps one streamer per           *)
(* container; the two replay filters (the server's logResume for a         *)
(* re-attach, the tab's for a reconnect); the `gone` notice.               *)
(*                                                                         *)
(* A source is one container of one pod UID.  A line is its place in the   *)
(* source's log; its kubelet stamp is 0 when the line has none.  An event  *)
(* is written and taken by the tab in one step: the wire keeps order, and  *)
(* what it holds when it breaks is what `lines` may still hold.            *)
(***************************************************************************)
EXTENDS Integers, Sequences, FiniteSets, SequencesExt

CONSTANTS
  Src,        \* containers of the resource's pods, every pod with its own name
  Texts,      \* line texts
  ChanCap,    \* capacity of the `lines` channel
  Limits      \* bounds of a behaviour: see LimitsAssumption

PodStates == {"none", "waiting", "running", "stopped", "finished", "deleted"}

LimitsAssumption ==
  /\ ChanCap \in Nat \ {0}
  /\ \A l \in Limits :
       /\ l.src \subseteq Src      \* the sources that may appear
       /\ l.stamps \subseteq Nat   \* the stamps a line may carry
       /\ l.texts \subseteq Texts
       /\ l.lines \in Nat          \* lines a source may write
       /\ l.pods \subseteq PodStates  \* the states pods may get to
       /\ l.restarts \in Nat       \* restarts of a container
       /\ l.roots \in Nat \ {0}    \* last state of the resource (see root)
       /\ l.faults \in Nat         \* broken connections and streams
       /\ l.tail \in Nat \ {0}     \* tailLines
       /\ l.buffer \in Nat \ {0}   \* LOG_BUFFER_CAPACITY
ASSUME LimitsAssumption

VARIABLES
  limit,      \* the bounds of this behaviour
  \* the cluster
  log,        \* every line each source wrote: its stamp and text
  begins,     \* begins[s][g]: where the log of s's g-th instance begins
  pod,        \* state of each source's pod
  owner,      \* the incarnation of the resource a source belongs to
  root,       \* the resource: odd while its (root+1)/2-th incarnation lives
  faults,     \* connections and streams broken so far
  \* the store's cached snapshot
  viewPod, viewRoot,
  \* the supervisor of the open connection
  plan,       \* targets a running resolve has yet to consider, as it read them
  wasGone,
  drained,    \* drainMark per source, and (history) whether the snapshot it
              \* was made by showed the container before its first start
  resumes,    \* logResume per source: newest stamp delivered, texts at it
  streamer,   \* streamContainerLogs per source
  lines, goneCh,
  \* the tab
  connected,
  live, delivered,   \* the resume records, least recently accepted first
  shown,             \* the line buffer
  gone,              \* the notice that the resource was deleted
  error,
  got,               \* history: newest line of each source that was accepted
  forgot             \* history: sources the resume dropped to stay in bounds

env  == <<log, begins, pod, owner, root>>
view == <<viewPod, viewRoot>>
sup  == <<plan, wasGone, drained, resumes, streamer>>
chan == <<lines, goneCh>>
tab  == <<connected, live, delivered, shown, gone, error, got, forgot>>
vars == <<limit, env, faults, view, sup, chan, tab>>

Alive(r)    == r % 2 = 1
NoCount     == [t \in Texts |-> 0]
NoResume    == [stamp |-> -1, lines |-> NoCount]
NoMark      == [terminal |-> FALSE, gen |-> -1, early |-> FALSE]
Off         == [at |-> "off"]
Restarts(s) == Len(begins[s]) - 1
Begin(s)    == begins[s][Len(begins[s])]
Status(s)   == [pod |-> pod[s], restarts |-> Restarts(s)]

Fresh ==
  /\ plan' = <<>> /\ wasGone' = FALSE
  /\ drained' = [s \in Src |-> NoMark]
  /\ resumes' = [s \in Src |-> NoResume]
  /\ streamer' = [s \in Src |-> Off]
  /\ lines' = <<>> /\ goneCh' = FALSE

Init ==
  /\ limit \in Limits
  /\ log = [s \in Src |-> <<>>] /\ begins = [s \in Src |-> <<1>>]
  /\ pod = [s \in Src |-> "none"] /\ owner = [s \in Src |-> 1]
  /\ root = 1 /\ faults = 0
  /\ viewPod = [s \in Src |-> [pod |-> "none", restarts |-> 0]] /\ viewRoot = 1
  /\ plan = <<>> /\ wasGone = FALSE
  /\ drained = [s \in Src |-> NoMark]
  /\ resumes = [s \in Src |-> NoResume]
  /\ streamer = [s \in Src |-> Off]
  /\ lines = <<>> /\ goneCh = FALSE
  /\ connected = FALSE
  /\ live = <<>> /\ delivered = <<>> /\ shown = <<>>
  /\ gone = FALSE /\ error = FALSE
  /\ got = [s \in Src |-> 0] /\ forgot = {}

-----------------------------------------------------------------------------
(* The cluster: pods of the resource, their containers, the resource.      *)

PodMoves(s, from, to) ==
  /\ pod[s] \in from /\ to \in limit.pods
  /\ pod' = [pod EXCEPT ![s] = to]
  /\ UNCHANGED <<limit, log, root, faults, view, sup, chan, tab>>

\* A new pod; its container starts at once, or the status shows it waiting first.
Create(s) ==
  /\ s \in limit.src /\ Alive(root)
  /\ owner' = [owner EXCEPT ![s] = root]
  /\ \E to \in {"waiting", "running"} : PodMoves(s, {"none"}, to)
  /\ UNCHANGED begins

\* The container starts for the first time; its restart count stays zero.
Run(s)    == PodMoves(s, {"waiting"}, "running") /\ UNCHANGED <<begins, owner>>
Stop(s)   == PodMoves(s, {"running"}, "stopped") /\ UNCHANGED <<begins, owner>>
Finish(s) == PodMoves(s, {"running"}, "finished") /\ UNCHANGED <<begins, owner>>
Delete(s) ==
  /\ PodMoves(s, {"waiting", "running", "stopped", "finished"}, "deleted")
  /\ UNCHANGED <<begins, owner>>

\* Kubelet starts a new instance: the log of the one before is out of reach.
Restart(s) ==
  /\ Restarts(s) < limit.restarts
  /\ begins' = [begins EXCEPT ![s] = Append(@, Len(log[s]) + 1)]
  /\ PodMoves(s, {"stopped"}, "running")
  /\ UNCHANGED owner

\* Stamps never go back, and an instance starts after the one before ended.
LastStamp(s, upTo) ==
  LET stamps == {log[s][i].at : i \in 1 .. upTo} IN
  IF stamps = {} THEN 0 ELSE CHOOSE n \in stamps : \A m \in stamps : m <= n

Write(s) ==
  /\ pod[s] = "running" /\ Len(log[s]) < limit.lines
  /\ \E at \in limit.stamps, text \in limit.texts :
       /\ at # 0 => LastStamp(s, Len(log[s])) <= at /\ LastStamp(s, Begin(s) - 1) < at
       /\ log' = [log EXCEPT ![s] = Append(@, [at |-> at, text |-> text])]
  /\ UNCHANGED <<limit, begins, pod, owner, root, faults, view, sup, chan, tab>>

\* The resource is deleted, or created again under its name.
RootMoves ==
  /\ root < limit.roots
  /\ root' = root + 1
  /\ UNCHANGED <<limit, log, begins, pod, owner, faults, view, sup, chan, tab>>

\* The informers take an event into the snapshot, each in its own time.
SyncPod(s) ==
  /\ viewPod[s] # Status(s)
  /\ viewPod' = [viewPod EXCEPT ![s] = Status(s)]
  /\ UNCHANGED <<limit, env, faults, viewRoot, sup, chan, tab>>

SyncRoot ==
  /\ viewRoot # root
  /\ viewRoot' = root
  /\ UNCHANGED <<limit, env, faults, viewPod, sup, chan, tab>>

-----------------------------------------------------------------------------
(* The supervisor.                                                         *)

\* podsForResource over the snapshot: the pods below the resource.
Resolved ==
  IF ~Alive(viewRoot) THEN {}
  ELSE {s \in Src : owner[s] = viewRoot /\ viewPod[s].pod \notin {"none", "deleted"}}

\* The records of pods that are no longer resolved go, unless being streamed.
Pruned(present) ==
  [s \in Src |-> IF s \in present \/ streamer[s] # Off THEN resumes[s] ELSE NoResume]

\* The mutated form of WasGone: one notice per connection.
WasGoneOnce(was) == was \/ ~Alive(viewRoot)
\* A resource that is found again may be reported gone again.
WasGone(was)     == ~Alive(viewRoot)

\* One resolve, at start and on every tick: it reads the snapshot, then
\* considers its targets one at a time under the lock.
Resolve ==
  /\ connected /\ plan = <<>>
  /\ resumes' = Pruned(Resolved)
  /\ wasGone' = WasGone(wasGone)
  /\ goneCh' = (goneCh \/ (~Alive(viewRoot) /\ ~wasGone))
  /\ plan' = [s \in Resolved |-> viewPod[s]]
  /\ UNCHANGED <<limit, env, faults, view, drained, streamer, lines, tab>>

\* The mutated form of DrainAtAttach: any clean end is final for the instance.
DrainWhenever(v) == v.pod # "none"
\* The snapshot shows a container that has ended, and cannot write before kubelet
\* replaces it, or one that still waits for its first start.
DrainAtAttach(v) == v.pod \in {"waiting", "stopped", "finished"}

Skipped(s, v) ==
  \/ streamer[s] # Off
  \/ drained[s].terminal
  \/ DrainAtAttach(v) /\ drained[s].gen = v.restarts

Consider(s) ==
  /\ s \in DOMAIN plan
  /\ plan' = [t \in DOMAIN plan \ {s} |-> plan[t]]
  /\ streamer' = IF Skipped(s, plan[s]) THEN streamer
                 ELSE [streamer EXCEPT ![s] = [at |-> "opening", seen |-> plan[s]]]
  /\ UNCHANGED <<limit, env, faults, view, wasGone, drained, resumes, chan, tab>>

-----------------------------------------------------------------------------
(* A streamer.                                                             *)

\* Where the tail of the instance that is there now begins.
Start(s) ==
  LET first == Len(log[s]) - limit.tail + 1 IN
  IF first > Begin(s) THEN first ELSE Begin(s)

\* GetLogs: that tail, whatever the snapshot said, with the record cloned.
Opened(s) ==
  [at |-> "reading", seen |-> streamer[s].seen, instance |-> Len(begins[s]),
   next |-> Start(s), resume |-> resumes[s]]

HasLog(s) == pod[s] \in {"running", "stopped", "finished"}

Open(s) ==
  /\ streamer[s].at = "opening"
  /\ streamer' = [streamer EXCEPT ![s] = IF HasLog(s) THEN Opened(s) ELSE Off]
  /\ UNCHANGED <<limit, env, faults, view, plan, wasGone, drained, resumes, chan, tab>>

LastOf(s, instance) ==
  IF instance < Len(begins[s]) THEN begins[s][instance + 1] - 1 ELSE Len(log[s])

\* The mutated form of Replayed: everything at the last stamp is a replay.
ReplayedByStamp(resume, line) == line.at # 0 /\ line.at <= resume.stamp
\* A re-sent line: older than what was delivered, or one of the texts
\* delivered at the same stamp that is yet to be matched.
Replayed(resume, line) ==
  /\ line.at # 0
  /\ \/ line.at < resume.stamp
     \/ line.at = resume.stamp /\ resume.lines[line.text] > 0

Matched(resume, line) ==
  IF line.at = resume.stamp THEN [resume EXCEPT !.lines[line.text] = @ - 1] ELSE resume

\* The mutated form of Recorded: the count starts again with every line.
RecordedLast(resume, line) ==
  IF line.at = 0 THEN resume
  ELSE [stamp |-> line.at, lines |-> [NoCount EXCEPT ![line.text] = 1]]
\* The record after one more line was delivered.
Recorded(resume, line) ==
  CASE line.at # 0 /\ line.at > resume.stamp ->
         [stamp |-> line.at, lines |-> [NoCount EXCEPT ![line.text] = 1]]
    [] line.at # 0 /\ line.at = resume.stamp -> [resume EXCEPT !.lines[line.text] = @ + 1]
    [] OTHER -> resume

\* One turn of scanLogStream: drop a replayed line, or send it and record it.
Scan(s) ==
  /\ streamer[s].at = "reading"
  /\ streamer[s].next <= LastOf(s, streamer[s].instance)
  /\ LET n    == streamer[s].next
         line == log[s][n]
     IN IF Replayed(streamer[s].resume, line)
        THEN /\ streamer' = [streamer EXCEPT ![s].next = n + 1, ![s].resume = Matched(@, line)]
             /\ UNCHANGED <<lines, resumes>>
        ELSE /\ Len(lines) < ChanCap
             /\ lines' = Append(lines, [src |-> s, n |-> n])
             /\ resumes' = [resumes EXCEPT ![s] = Recorded(@, line)]
             /\ streamer' = [streamer EXCEPT ![s].next = n + 1]
  /\ UNCHANGED <<limit, env, faults, view, plan, wasGone, drained, goneCh, tab>>

Ends(s, clean) ==
  LET v == streamer[s].seen IN
  /\ streamer' = [streamer EXCEPT ![s] = Off]
  /\ drained' = [drained EXCEPT ![s] =
       CASE clean /\ v.pod = "finished"  -> [NoMark EXCEPT !.terminal = TRUE]
         [] clean /\ v.pod # "finished" /\ DrainAtAttach(v) ->
              [NoMark EXCEPT !.gen = v.restarts, !.early = (v.pod = "waiting")]
         [] OTHER -> @]
  /\ resumes' = [resumes EXCEPT ![s] = IF clean /\ v.pod = "finished" THEN NoResume ELSE @]
  /\ UNCHANGED <<limit, env, view, plan, wasGone, chan, tab>>

\* The log of an instance that has ended is read to its end.
Eof(s) ==
  /\ streamer[s].at = "reading"
  /\ streamer[s].next > LastOf(s, streamer[s].instance)
  /\ streamer[s].instance < Len(begins[s]) \/ pod[s] # "running"
  /\ Ends(s, TRUE)
  /\ UNCHANGED faults

\* A running container's follow ends early (log rotation, a dropped node
\* connection), any stream may break, and an open may fail.
Interrupt(s) ==
  /\ faults < limit.faults
  /\ faults' = faults + 1
  /\ streamer[s] # Off
  /\ \/ streamer[s].at = "reading" /\ pod[s] = "running"
        /\ streamer[s].instance = Len(begins[s]) /\ Ends(s, TRUE)
     \/ Ends(s, FALSE)

-----------------------------------------------------------------------------
(* The writer's select, the connection and the tab.                        *)

Known(s)     == {i \in DOMAIN live : live[i].src = s}
LiveOf(s)    == IF Known(s) = {} THEN NoResume ELSE live[CHOOSE i \in Known(s) : TRUE].resume
SnapshotOf(s) == IF s \in DOMAIN delivered THEN delivered[s] ELSE NoResume

\* The mutated form of Capped: the resume forgets one source too early.
CappedShort(records) == IF Len(records) >= limit.buffer THEN Tail(records) ELSE records
\* At most as many sources as the buffer holds lines, oldest out first.
Capped(records)      == IF Len(records) > limit.buffer THEN Tail(records) ELSE records

\* The newest records last, without those that are in no use any more.
Without(s) == IF Known(s) = {} THEN live ELSE RemoveAt(live, CHOOSE i \in Known(s) : TRUE)

Renewed(s, line) ==
  LET resume == Recorded(LiveOf(s), line) IN
  IF resume = NoResume THEN live
  ELSE Capped(Append(Without(s), [src |-> s, resume |-> resume]))

Sources(records) == {records[i].src : i \in DOMAIN records}

Buffered(l) ==
  LET all == Append(shown, l) IN
  IF Len(all) > limit.buffer THEN Tail(all) ELSE all

\* The log handler: any line proves the stream and supersedes the notice;
\* one that was shown before the reconnect is dropped.
OnLog(l) ==
  LET line == log[l.src][l.n] IN
  /\ gone' = FALSE /\ error' = FALSE
  /\ IF Replayed(SnapshotOf(l.src), line)
     THEN /\ delivered' = [delivered EXCEPT ![l.src] = Matched(@, line)]
          /\ UNCHANGED <<live, shown, got, forgot>>
     ELSE /\ live' = Renewed(l.src, line)
          /\ shown' = Buffered(l)
          /\ got' = [got EXCEPT ![l.src] = IF l.n > @ THEN l.n ELSE @]
          /\ forgot' = forgot \cup (Sources(live) \ Sources(live'))
          /\ UNCHANGED delivered

PassLine ==
  /\ connected /\ lines # <<>>
  /\ lines' = Tail(lines)
  /\ OnLog(Head(lines))
  /\ UNCHANGED <<limit, env, faults, view, sup, goneCh, connected>>

PassGone ==
  /\ connected /\ goneCh
  /\ goneCh' = FALSE
  /\ gone' = TRUE
  /\ UNCHANGED <<limit, env, faults, view, sup, lines, connected, live, delivered, shown, error, got, forgot>>

\* The connection breaks, with an error or silently; ctx ends the supervisor.
Break ==
  /\ connected /\ faults < limit.faults
  /\ faults' = faults + 1
  /\ connected' = FALSE
  /\ error' \in {error, TRUE}
  /\ Fresh
  /\ UNCHANGED <<limit, env, view, live, delivered, shown, gone, got, forgot>>

\* EventSource's own retry or the watchdog: a new stream, and the open handler.
Connect ==
  /\ ~connected
  /\ connected' = TRUE
  /\ delivered' = [s \in Sources(live) |-> LiveOf(s)]
  /\ error' = FALSE
  /\ UNCHANGED <<limit, env, faults, view, sup, chan, live, shown, gone, got, forgot>>

-----------------------------------------------------------------------------
Cluster ==
  \/ \E s \in Src : Create(s) \/ Run(s) \/ Write(s) \/ Stop(s) \/ Restart(s) \/ Finish(s) \/ Delete(s)
  \/ RootMoves

Sync == SyncRoot \/ \E s \in Src : SyncPod(s)

Streamer(s) == Consider(s) \/ Open(s) \/ Scan(s) \/ Eof(s)

Next ==
  \/ Cluster \/ Sync
  \/ Resolve \/ \E s \in Src : Streamer(s)
  \/ PassLine \/ PassGone \/ Connect
  \/ Break \/ \E s \in Src : Interrupt(s)

\* Informers deliver, the ticker ticks, goroutines run, and EventSource and
\* watchdog keep retrying; nobody has to write, delete or break anything.
Fairness ==
  /\ WF_vars(SyncRoot) /\ \A s \in Src : WF_vars(SyncPod(s))
  /\ WF_vars(Resolve)
  /\ \A s \in Src : WF_vars(Consider(s)) /\ WF_vars(Open(s)) /\ WF_vars(Scan(s) \/ Eof(s))
  /\ WF_vars(PassLine) /\ WF_vars(PassGone) /\ WF_vars(Connect)

Spec     == Init /\ [][Next]_vars
FairSpec == Spec /\ Fairness

-----------------------------------------------------------------------------
Line   == [src : Src, n : Nat \ {0}]
Resume == [stamp : Nat \cup {-1}, lines : [Texts -> Nat]]
View   == [pod : PodStates, restarts : Nat]
Mark   == [terminal : BOOLEAN, gen : Nat \cup {-1}, early : BOOLEAN]
Stream == {Off} \cup [at : {"opening"}, seen : View]
          \cup [at : {"reading"}, seen : View, instance : Nat, next : Nat, resume : Resume]

\* Every variable has its type, and counts never go below zero.
TypeOK ==
  /\ limit \in Limits
  /\ \A s \in Src : \A i \in DOMAIN log[s] : log[s][i] \in [at : Nat, text : Texts]
  /\ \A s \in Src : begins[s] # <<>> /\ \A g \in DOMAIN begins[s] : begins[s][g] \in Nat \ {0}
  /\ pod \in [Src -> PodStates] /\ owner \in [Src -> Nat] /\ root \in Nat
  /\ viewPod \in [Src -> View] /\ viewRoot \in Nat /\ faults \in Nat
  /\ DOMAIN plan \subseteq Src /\ \A s \in DOMAIN plan : plan[s] \in View
  /\ drained \in [Src -> Mark] /\ resumes \in [Src -> Resume]
  /\ streamer \in [Src -> Stream]
  /\ \A i \in DOMAIN lines : lines[i] \in Line
  /\ Len(lines) <= ChanCap
  /\ {wasGone, goneCh, connected, gone, error} \subseteq BOOLEAN
  /\ \A i \in DOMAIN live : live[i] \in [src : Src, resume : Resume]
  /\ DOMAIN delivered \subseteq Src /\ \A s \in DOMAIN delivered : delivered[s] \in Resume
  /\ \A i \in DOMAIN shown : shown[i] \in Line
  /\ got \in [Src -> Nat] /\ forgot \subseteq Src

Stamped(l)      == log[l.src][l.n].at # 0
Instance(s, n)  == Cardinality({g \in DOMAIN begins[s] : begins[s][g] <= n})

\* No line is on screen twice and a container's lines keep their order, over
\* every re-attach after an EOF and every reconnect, whose tails re-send what
\* was delivered (lines without a stamp cannot be told apart and are exempt,
\* and so is a source the tab's bounded resume had to forget).
ShownOnce ==
  \A i, j \in DOMAIN shown :
    i < j /\ shown[i].src = shown[j].src /\ shown[i].src \notin forgot
          /\ Stamped(shown[i]) /\ Stamped(shown[j])
      => shown[i].n < shown[j].n

\* A source that the resume forgot needs no exemption: "its replay cannot
\* duplicate a visible one" (logResume.ts:53).
ReplayHidden ==
  \A i, j \in DOMAIN shown : shown[i] = shown[j] /\ Stamped(shown[i]) => i = j

\* The filters never eat a line that was not shown: with a tail that reaches
\* back to the start of the instance, whatever precedes a line in its
\* instance was shown before it, lines of equal stamp and text included.
NothingSkipped ==
  limit.tail >= limit.lines =>
    \A j \in DOMAIN shown : \A m \in 1 .. shown[j].n - 1 :
      LET l == [shown[j] EXCEPT !.n = m] IN
      Stamped(l) /\ Stamped(shown[j]) /\ Instance(l.src, m) = Instance(l.src, shown[j].n)
        => Len(shown) = limit.buffer \/ \E i \in 1 .. j - 1 : shown[i] = l

\* A source that the tab's resume forgot has no line left on screen that a
\* replay could show again (logResume.ts says so of its bounded Map).
ForgottenIsGone == \A i \in DOMAIN shown : Stamped(shown[i]) => Known(shown[i].src) # {}

\* The screen has the last line of a container that can be read.
CaughtUp(s) ==
  Alive(root) /\ owner[s] = root /\ HasLog(s) /\ Begin(s) <= Len(log[s])
    => /\ got[s] > 0
       /\ got[s] = Len(log[s]) \/ log[s][got[s]].at = log[s][Len(log[s])].at

\* The container's first instance passes for read, by a stream that was opened
\* from a snapshot of before that instance started.
TooEarly(s) == drained[s].early /\ drained[s].gen = Restarts(s)

\* The screen catches up with every container that can be read: a drained mark,
\* a stale snapshot or a clean early EOF does not freeze the tail, unless all
\* three come together on a container that is about to start.
CatchesUp == \A s \in Src : <>[](CaughtUp(s) \/ TooEarly(s))

\* Nor there (logstream.go:225-227: "Running, missing, and changed statuses stay
\* eligible because a cached snapshot can otherwise freeze the tail").
NeverFrozen == \A s \in Src : <>[]CaughtUp(s)

\* The resource goes after a resolve that found it, and none of its pods has a
\* line left to deliver: the tab learns of it, however often the resource was
\* deleted and created before.
Silent ==
  /\ ~Alive(root) /\ plan # <<>> /\ lines = <<>>
  /\ \A s \in Src : ~HasLog(s) /\ streamer[s] = Off

GoneShown == Silent ~> gone \/ Alive(root)

\* Once the resource is gone for good the notice stays (LogViewer.tsx:48:
\* "Cleared if a same-name re-create resumes the stream").
GoneStays == <>[](~Alive(root)) => <>[]gone
=============================================================================
