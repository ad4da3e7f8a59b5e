----------------------------- MODULE DomainRef -----------------------------
(***************************************************************************)
(* The life of a struct domain: its reference count, the lookup by id, the *)
(* kill hypercall, and the destruction in two parts with an RCU grace      *)
(* period between them.  do_vt_op() is one of the callers of               *)
(* get_domain_by_id(); it never calls put_domain().                        *)
(*                                                                         *)
(* Every actor is a CPU in a hypercall.  The hypervisor is not preemptive, *)
(* so a CPU is quiescent for RCU only between hypercalls, or where it      *)
(* holds a counted reference and may have let softirqs run.                *)
(***************************************************************************)
EXTENDS Integers, FiniteSets

CONSTANTS
  Users,     \* callers that pair get_domain_by_id() with put_domain()
  VtCallers, \* callers of do_vt_op()
  Killer,    \* XEN_DOMCTL_destroydomain, under the domctl lock
  MaxLeaks   \* bound on the references explored that nobody gives back

Getters == Users \cup VtCallers
Actors  == Getters \cup {Killer}

ASSUME DomainAssumption ==
  /\ IsFiniteSet(Users) /\ IsFiniteSet(VtCallers)
  /\ Users \cap VtCallers = {} /\ Killer \notin Getters
  /\ MaxLeaks \in Nat

DOMAIN_DESTROYED == -1000   \* 1 << 31, the sign bit; any negative number

VARIABLES
  refcnt,    \* d->refcnt
  is_dying,  \* d->is_dying
  hashed,    \* d is in domain_hash and domain_list
  freed,     \* free_domain_struct(d) has run
  pc,        \* where each actor is
  old,       \* its local of get_domain()
  rcu,       \* call_rcu(complete_domain_destroy): "none", "waiting", "done"
  grace,     \* CPUs that have not been quiescent since call_rcu()
  leaked     \* history: references taken that no actor holds

vars == <<refcnt, is_dying, hashed, freed, pc, old, rcu, grace, leaked>>

Init ==
  /\ refcnt = 1
  /\ is_dying = "alive"
  /\ hashed = TRUE
  /\ freed = FALSE
  /\ pc = [a \in Actors |-> "idle"]
  /\ old = [a \in Actors |-> 0]
  /\ rcu = "none"
  /\ grace = {}
  /\ leaked = 0

\* Where a thread is outside rcu_read_lock(): its CPU can report a quiescent
\* state there, and rcu_check_quiescent_state() strikes it from the batch.
Quiescent == {"idle", "held"}

Goto(a, label) ==
  /\ pc' = [pc EXCEPT ![a] = label]
  /\ grace' = IF label \in Quiescent THEN grace \ {a} ELSE grace

-----------------------------------------------------------------------------
(* get_domain_by_id() and put_domain().                                    *)

\* The search of the hash chain; seen is the first read of the counter.
Lookup(a) ==
  /\ pc[a] = "idle"
  /\ a \in VtCallers => leaked < MaxLeaks
  /\ hashed
  /\ old' = [old EXCEPT ![a] = refcnt]
  /\ Goto(a, "get")
  /\ UNCHANGED <<refcnt, is_dying, hashed, freed, rcu, leaked>>

\* A plausible slip: the counter is stored, not compared and swapped.
GetStored(a) ==
  /\ pc[a] = "get"
  /\ old' = [old EXCEPT ![a] = 0]
  /\ \/ /\ old[a] < 0
        /\ Goto(a, "idle")
        /\ UNCHANGED refcnt
     \/ /\ old[a] >= 0
        /\ refcnt' = old[a] + 1
        /\ Goto(a, "held")
  /\ UNCHANGED <<is_dying, hashed, freed, rcu, leaked>>

\* One turn of get_domain()'s loop.
Get(a) ==
  /\ pc[a] = "get"
  /\ \/ /\ old[a] < 0
        /\ old' = [old EXCEPT ![a] = 0]
        /\ Goto(a, "idle")
        /\ UNCHANGED refcnt
     \/ /\ old[a] >= 0
        /\ refcnt = old[a]
        /\ refcnt' = old[a] + 1
        /\ old' = [old EXCEPT ![a] = 0]
        /\ Goto(a, "held")
     \/ /\ old[a] >= 0
        /\ refcnt # old[a]
        /\ old' = [old EXCEPT ![a] = refcnt]
        /\ UNCHANGED <<refcnt, pc, grace>>
  /\ UNCHANGED <<is_dying, hashed, freed, rcu, leaked>>

\* A plausible slip: the reference is given back twice.
put_domain_twice(a) ==
  /\ refcnt' = refcnt - 2
  /\ Goto(a, IF refcnt' = 0 THEN "destroy" ELSE "idle")

\* A plausible slip: only the kill looks whether it was the last.
put_domain_plain(a) ==
  /\ refcnt' = refcnt - 1
  /\ Goto(a, IF refcnt' = 0 /\ a = Killer THEN "destroy" ELSE "idle")

put_domain(a) ==
  /\ refcnt' = refcnt - 1
  /\ Goto(a, IF refcnt' = 0 THEN "destroy" ELSE "idle")

\* The callers that give back what get_domain_by_id() gave them, on every path
UserPut(a) ==
  /\ a \in Users
  /\ pc[a] = "held"
  /\ put_domain(a)
  /\ UNCHANGED <<is_dying, hashed, freed, old, rcu, leaked>>

\* do_vt_op() returns without giving the reference back.
VtReturn(a) ==
  /\ a \in VtCallers
  /\ pc[a] = "held"
  /\ Goto(a, "idle")
  /\ leaked' = leaked + 1
  /\ UNCHANGED <<refcnt, is_dying, hashed, freed, old, rcu>>

-----------------------------------------------------------------------------
(* domain_destroy() and complete_domain_destroy().                         *)

\* A plausible slip: a test in place of the compare-and-swap.
DestroyNoSwap(a) ==
  /\ pc[a] = "destroy"
  /\ Goto(a, IF refcnt <= 0 THEN "unlink" ELSE "idle")
  /\ refcnt' = IF refcnt <= 0 THEN DOMAIN_DESTROYED ELSE refcnt
  /\ UNCHANGED <<is_dying, hashed, freed, old, rcu, leaked>>

\* "May be already destroyed, or get_domain() can race us."
Destroy(a) ==
  /\ pc[a] = "destroy"
  /\ Goto(a, IF refcnt = 0 THEN "unlink" ELSE "idle")
  /\ refcnt' = IF refcnt = 0 THEN DOMAIN_DESTROYED ELSE refcnt
  /\ UNCHANGED <<is_dying, hashed, freed, old, rcu, leaked>>

\* A plausible slip: destruction is completed without a grace period.
UnlinkNoGrace(a) ==
  /\ pc[a] = "unlink"
  /\ hashed' = FALSE
  /\ rcu' = "waiting"
  /\ pc' = [pc EXCEPT ![a] = "idle"]
  /\ grace' = {}
  /\ UNCHANGED <<refcnt, is_dying, freed, old, leaked>>

Unlink(a) ==
  /\ pc[a] = "unlink"
  /\ hashed' = FALSE
  /\ rcu' = "waiting"
  /\ pc' = [pc EXCEPT ![a] = "idle"]
  /\ grace' = {b \in Actors \ {a} : pc[b] \notin Quiescent}
  /\ UNCHANGED <<refcnt, is_dying, freed, old, leaked>>

complete_domain_destroy ==
  /\ rcu = "waiting"
  /\ grace = {}
  /\ rcu' = "done"
  /\ freed' = TRUE
  /\ UNCHANGED <<refcnt, is_dying, hashed, pc, old, grace, leaked>>

-----------------------------------------------------------------------------
(* domain_kill(); the domctl finds the domain under the RCU read lock.     *)

KillFind ==
  /\ pc[Killer] = "idle"
  /\ hashed
  /\ Goto(Killer, "kill")
  /\ UNCHANGED <<refcnt, is_dying, hashed, freed, old, rcu, leaked>>

KillMark ==
  /\ pc[Killer] = "kill"
  /\ is_dying = "alive"
  /\ is_dying' = "dying"
  /\ UNCHANGED <<refcnt, hashed, freed, pc, old, rcu, grace, leaked>>

\* domain_relinquish_resources() asks for another hypercall.
KillAgain ==
  /\ pc[Killer] = "kill"
  /\ is_dying = "dying"
  /\ Goto(Killer, "idle")
  /\ UNCHANGED <<refcnt, is_dying, hashed, freed, old, rcu, leaked>>

KillDead ==
  /\ pc[Killer] = "kill"
  /\ is_dying = "dying"
  /\ is_dying' = "dead"
  /\ put_domain(Killer)
  /\ UNCHANGED <<hashed, freed, old, rcu, leaked>>

KillNothing ==
  /\ pc[Killer] = "kill"
  /\ is_dying = "dead"
  /\ Goto(Killer, "idle")
  /\ UNCHANGED <<refcnt, is_dying, hashed, freed, old, rcu, leaked>>

domain_kill == KillMark \/ KillAgain \/ KillDead \/ KillNothing

\* The domain is gone; nothing finds it any more.
Gone ==
  /\ freed
  /\ \A a \in Actors : pc[a] = "idle"
  /\ UNCHANGED vars

Proceed(a) == Get(a) \/ UserPut(a) \/ VtReturn(a)
Finish(a)  == Destroy(a) \/ Unlink(a)

Next ==
  \/ \E a \in Getters : Lookup(a) \/ Proceed(a)
  \/ \E a \in Actors : Finish(a)
  \/ KillFind \/ domain_kill
  \/ complete_domain_destroy
  \/ Gone

Spec == Init /\ [][Next]_vars

(* A hypercall that has begun goes on, RCU callbacks are run once every    *)
(* CPU has been quiescent, and users give back what they hold.  Nothing is *)
(* assumed of the start of a hypercall.                                    *)
FairSpec ==
  /\ Spec
  /\ \A a \in Getters : WF_vars(Proceed(a))
  /\ \A a \in Actors : WF_vars(Finish(a))
  /\ WF_vars(domain_kill)
  /\ WF_vars(complete_domain_destroy)

-----------------------------------------------------------------------------
(* Properties.                                                             *)

Label == {"idle", "get", "held", "destroy", "unlink", "kill"}

(* The types of the fields of struct domain and of what the CPUs know of   *)
(* it.                                                                     *)
TypeOK ==
  /\ refcnt \in Nat \cup {DOMAIN_DESTROYED}
  /\ is_dying \in {"alive", "dying", "dead"}
  /\ hashed \in BOOLEAN /\ freed \in BOOLEAN
  /\ pc \in [Actors -> Label]
  /\ old \in [Actors -> Nat \cup {DOMAIN_DESTROYED}]
  /\ rcu \in {"none", "waiting", "done"}
  /\ grace \subseteq Actors
  /\ leaked \in Nat

(* The assertion of domain_destroy(), BUG_ON(!d->is_dying): the counter    *)
(* reaches 0 only after the kill.                                          *)
DestroyedDying == \A a \in Actors : pc[a] \in {"destroy", "unlink"} => is_dying # "alive"

(* domain_destroy() may be entered several times, as get_domain() revives  *)
(* a counter that is 0, but one caller only takes the domain off its lists,*)
(* and it finds the domain there: the search does not end at the list's    *)
(* end.                                                                    *)
UnlinkedOnce ==
  \A a \in Actors : pc[a] = "unlink" => hashed /\ \A b \in Actors \ {a} : pc[b] # "unlink"

(* No CPU that still has the pointer, counted or under RCU, sees the       *)
(* domain freed.                                                           *)
NotFreedInUse == freed => \A a \in Actors : pc[a] = "idle"

Held == {a \in Getters : pc[a] = "held"}

(* Until it is destroyed the counter is the number of references: the one  *)
(* of a domain that is not dead, those held, and those do_vt_op() left.    *)
RefsCounted ==
  refcnt # DOMAIN_DESTROYED =>
    refcnt = (IF is_dying = "dead" THEN 0 ELSE 1)
             + Cardinality(Held) + leaked

\* The domain is not looked up over and over.
Settled == <>[][\A a \in Getters : ~Lookup(a)]_vars

(* A dead domain is freed in the end, whoever gives the last reference     *)
(* back, unless do_vt_op() has kept one.                                   *)
ReclaimedUnlessKept == Settled => (is_dying = "dead" ~> freed \/ leaked > 0)

(* "Complete domain destroy after RCU readers are not holding old          *)
(* references": a dead domain is freed in the end.                         *)
Reclaimed == Settled => (is_dying = "dead" ~> freed)
=============================================================================
