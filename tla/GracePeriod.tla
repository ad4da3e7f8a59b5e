----------------------------- MODULE GracePeriod -----------------------------
(***************************************************************************)
(* What call_rcu() promises its callers: a callback is invoked not before  *)
(* every read-side critical section that was open at the time of the call  *)
(* has ended, and once per call.  Sections opened later are not waited     *)
(* for.                                                                    *)
(***************************************************************************)
CONSTANTS Cpus, Callbacks

VARIABLES
  reading,  \* the CPUs inside a read-side critical section
  queued,   \* the callbacks given to call_rcu() and not invoked yet
  waits     \* for each callback, the sections still open of those that were
            \* open when it was given to call_rcu()

gvars == <<reading, queued, waits>>

GInit ==
  /\ reading = {} /\ queued = {}
  /\ waits = [cb \in Callbacks |-> {}]

Enter(c) == c \notin reading /\ reading' = reading \cup {c} /\ UNCHANGED <<queued, waits>>

Exit(c) ==
  /\ c \in reading
  /\ reading' = reading \ {c}
  /\ waits' = [cb \in Callbacks |-> waits[cb] \ {c}]
  /\ UNCHANGED queued

Call(cb) ==
  /\ cb \notin queued
  /\ queued' = queued \cup {cb}
  /\ waits' = [waits EXCEPT ![cb] = reading]
  /\ UNCHANGED reading

Invoke(cb) ==
  /\ cb \in queued
  /\ waits[cb] = {}
  /\ queued' = queued \ {cb}
  /\ UNCHANGED <<reading, waits>>

GNext ==
  \/ \E c \in Cpus : Enter(c) \/ Exit(c)
  \/ \E cb \in Callbacks : Call(cb) \/ Invoke(cb)

GSpec == GInit /\ [][GNext]_gvars
=============================================================================
