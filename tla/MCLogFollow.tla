---------------------------- MODULE MCLogFollow ----------------------------
(* Instances of LogFollow for TLC. *)
EXTENDS LogFollow

CONSTANTS a, b, c, x, y

\* One container, lines with ties, broken connections and streams.
Ties == [src |-> {a}, stamps |-> {1, 2}, texts |-> {x, y}, lines |-> 3, restarts |-> 0,
         pods |-> {"running", "stopped"}, roots |-> 1, faults |-> 2, tail |-> 3, buffer |-> 3]
\* A tail that no longer reaches the first line, a wait, and a run that finishes.
ShortTail == [Ties EXCEPT !.stamps = {1}, !.tail = 2, !.faults = 1,
                          !.pods = {"waiting", "running", "finished"}]
\* A container that waits for its start and restarts.
Restarting == [Ties EXCEPT !.texts = {x}, !.lines = 2, !.restarts = 1, !.faults = 1,
                           !.pods = {"waiting", "running", "stopped"}]
\* Lines without a stamp.
Unstamped == [Ties EXCEPT !.stamps = {0, 1}, !.texts = {x}, !.lines = 2]
\* Two containers, and a tab that can remember one.
Forgetful == [Ties EXCEPT !.src = {a, b}, !.stamps = {1}, !.texts = {x}, !.lines = 1,
                          !.faults = 1, !.buffer = 1, !.pods = {"running"}]
\* The resource is deleted, created again and deleted again.
Reborn == [Ties EXCEPT !.stamps = {1}, !.texts = {x}, !.lines = 1, !.roots = 4, !.faults = 0,
                       !.pods = {"running", "deleted"}]
\* Three containers, lines with ties, and a tab that can remember two.
Crowded == [Forgetful EXCEPT !.src = {a, b, c}, !.lines = 2, !.tail = 2, !.buffer = 2]

AllLimits  == {Ties, ShortTail, Restarting, Unstamped, Forgetful, Reborn}
DeleteOnce == {[Reborn EXCEPT !.roots = 2]}
TooMany    == {Crowded}
FirstStart == {[Restarting EXCEPT !.lines = 1, !.restarts = 0]}
=============================================================================
