---------------------------- MODULE GraphStore ----------------------------
(***************************************************************************)
(* What the graph side of the packager promises to packaging jobs, with no *)
(* lock, no symlink and no process in sight.                               *)
(*                                                                         *)
(* Finished graphs are stored whole, one of them at most is current, the   *)
(* current one is only ever replaced by a newer one, a reader starts on    *)
(* the graph that is current at that moment, and the store gives a graph   *)
(* back only when it is neither current nor being read.                    *)
(***************************************************************************)
EXTENDS Integers

CONSTANTS
  Workers,         \* the packaging workers
  MaxGenerations   \* generations are named 1, 2, ... in the order of their timestamps

Generation == 1..MaxGenerations
NoGeneration == 0

VARIABLES
  current,   \* the graph new readers get, NoGeneration before the first build
  stored,    \* the finished graphs on disk
  reading    \* worker -> the graph it packages from

vars == <<current, stored, reading>>

Init ==
  /\ current = NoGeneration
  /\ stored = {}
  /\ reading = [w \in Workers |-> NoGeneration]

(* A build finishes graph g, which is newer than everything published. *)
Finish(g) ==
  /\ g > current
  /\ stored' = stored \cup {g}
  /\ UNCHANGED <<current, reading>>

Publish(g) ==
  /\ g \in stored
  /\ g > current
  /\ current' = g
  /\ UNCHANGED <<stored, reading>>

Begin(w) ==
  /\ reading[w] = NoGeneration
  /\ current \in stored
  /\ reading' = [reading EXCEPT ![w] = current]
  /\ UNCHANGED <<current, stored>>

End(w) ==
  /\ reading[w] # NoGeneration
  /\ reading' = [reading EXCEPT ![w] = NoGeneration]
  /\ UNCHANGED <<current, stored>>

Reclaim(g) ==
  /\ g \in stored
  /\ g # current
  /\ \A w \in Workers : reading[w] # g
  /\ stored' = stored \ {g}
  /\ UNCHANGED <<current, reading>>

Next ==
  \/ \E g \in Generation : Finish(g) \/ Publish(g) \/ Reclaim(g)
  \/ \E w \in Workers : Begin(w) \/ End(w)

Spec == Init /\ [][Next]_vars

=============================================================================
