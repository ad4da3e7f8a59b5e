------------------------------ MODULE SampleSet ------------------------------
(***************************************************************************)
(* What the sampler promises to Dom0, without locks, loads and loops: a    *)
(* short queue of different CR3 values in the order of their arrival.  A   *)
(* value that is scheduled is queued at once, and another falls out, the   *)
(* oldest, only if more values were seen since the last drain than the     *)
(* queue is long.  A drain takes all.  0 (a vcpu that has no CR3 yet) is   *)
(* seen and never queued.                                                  *)
(*                                                                         *)
(* The promise begins with the first drain, since a new list holds old     *)
(* memory, and ends when the list is replaced or freed.                    *)
(***************************************************************************)
EXTENDS Integers, Functions

CONSTANTS Values, Size

VARIABLES
  on,
  seen,
  queue,  \* the values that wait
  newer   \* their order: <<u, v>> if u was queued after v

svars == <<on, seen, queue, newer>>

SInit == on = FALSE /\ seen = {} /\ queue = {} /\ newer = {}

Oldest(v) == \A u \in queue \ {v} : <<u, v>> \in newer

\* v, unless it is 0, comes to those that are left
Queued(v, left) ==
  LET new == {v} \ {0}
  IN  /\ queue' = left \cup new
      /\ newer' = (newer \cap (left \X left)) \cup (new \X left)

Note(v) ==
  /\ on /\ UNCHANGED on
  /\ seen' = seen \cup {v}
  /\ \/ v \in queue \cup {0} /\ UNCHANGED <<queue, newer>>
     \/ v \notin queue \cup {0} /\ Queued(v, queue)
     \/ /\ v \notin queue /\ ExistsInjection(0 .. Size, seen')  \* more than Size
        /\ \E old \in queue : Oldest(old) /\ Queued(v, queue \ {old})
  /\ ExistsInjection(queue', 1 .. Size)

Drain == on' = TRUE /\ seen' = {} /\ queue' = {} /\ newer' = {}

Off == on' = FALSE /\ seen' = {} /\ queue' = {} /\ newer' = {}

SNext == (\E v \in Values \cup {0} : Note(v)) \/ Drain \/ Off

SSpec == SInit /\ [][SNext]_svars
=============================================================================
