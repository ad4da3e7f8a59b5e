-------------------------- MODULE DomainRefProofs --------------------------
(***************************************************************************)
(* For any number of callers of get_domain_by_id() the domain is destroyed *)
(* once, only when it is dead, and freed when nobody has a pointer to it.  *)
(***************************************************************************)
EXTENDS DomainRef, FiniteSetTheorems, TLAPS

-----------------------------------------------------------------------------
(* The inductive invariant.                                                *)

\* Only the kill hypercall is in domain_kill(), and it takes no reference.
Roles ==
  /\ pc[Killer] \notin {"get", "held"}
  /\ \A a \in Getters : pc[a] # "kill"

\* domain_destroy() is for a dead domain, and a domain that is destroyed is
\* dead and has no references.
Dead ==
  /\ \A a \in Actors : pc[a] \in {"destroy", "unlink"} => is_dying = "dead"
  /\ refcnt = DOMAIN_DESTROYED => is_dying = "dead" /\ Held = {}

\* Whoever takes the domain off its lists has destroyed the counter.
Linked ==
  /\ \A a \in Actors : pc[a] = "unlink" => refcnt = DOMAIN_DESTROYED
  /\ ~hashed => refcnt = DOMAIN_DESTROYED /\ \A a \in Actors : pc[a] # "unlink"

\* complete_domain_destroy() is called once the domain is off its lists, and
\* the grace period covers all that may have found it there.
Covered ==
  /\ rcu = "none" <=> hashed
  /\ rcu = "waiting" => \A a \in Actors : pc[a] # "idle" => a \in grace
  /\ rcu = "done" => \A a \in Actors : pc[a] = "idle"
  /\ freed => rcu = "done"

IInv == TypeOK /\ Roles /\ RefsCounted /\ Dead /\ UnlinkedOnce /\ Linked /\ Covered

-----------------------------------------------------------------------------
(* The references that CPUs hold.                                          *)

LEMMA SomeGetters ==
  ASSUME NEW T \in SUBSET Getters
  PROVE  IsFiniteSet(T) /\ Cardinality(T) \in Nat
<1>1. IsFiniteSet(Getters)
  BY DomainAssumption, FS_Union, ZenonT(60) DEF Getters
<1> QED
  BY <1>1, FS_Subset, FS_CardinalityType

LEMMA HeldFinite == IsFiniteSet(Held) /\ Cardinality(Held) \in Nat
BY SomeGetters DEF Held

LEMMA HeldTaken ==
  ASSUME TypeOK, NEW a \in Getters, pc[a] # "held", pc' = [pc EXCEPT ![a] = "held"]
  PROVE  Cardinality(Held') = Cardinality(Held) + 1
<1>1. Held' = Held \cup {a} /\ a \notin Held
  BY DEF Held, TypeOK, Actors
<1> QED
  BY <1>1, HeldFinite, FS_AddElement

LEMMA HeldGiven ==
  ASSUME TypeOK, NEW a \in Getters, pc[a] = "held", NEW l \in Label \ {"held"},
         pc' = [pc EXCEPT ![a] = l]
  PROVE  Cardinality(Held') = Cardinality(Held) - 1 /\ Cardinality(Held) >= 1
<1>1. Held' = Held \ {a} /\ a \in Held
  BY DEF Held, TypeOK, Actors
<1>2. Cardinality(Held') = Cardinality(Held) - 1
  BY <1>1, HeldFinite, FS_RemoveElement, ZenonT(60)
<1>3. Cardinality(Held) # 0
  BY <1>1, HeldFinite, FS_EmptySet
<1> QED
  BY <1>2, <1>3, HeldFinite

LEMMA HeldSame ==
  ASSUME TypeOK, NEW a \in Actors, pc[a] # "held", NEW l \in Label \ {"held"},
         pc' = [pc EXCEPT ![a] = l]
  PROVE  Held' = Held
BY DEF Held, TypeOK, Actors

LEMMA Enlisted == Getters \subseteq Actors /\ Killer \in Actors /\ Killer \notin Getters
BY DomainAssumption DEF Actors

-----------------------------------------------------------------------------
(* The steps.                                                              *)

\* A step of an actor that is in a hypercall, between labels without a
\* reference, with the domain as it is.
LEMMA Walks ==
  ASSUME IInv, NEW a \in Actors, NEW l \in Label \ {"held", "destroy", "unlink"},
         pc[a] # "held", Goto(a, l),
         a = Killer => l # "get", a \in Getters => l # "kill",
         pc[a] = "idle" => hashed, pc[a] # "unlink",
         UNCHANGED <<refcnt, is_dying, hashed, freed, rcu, leaked>>,
         old' \in [Actors -> Nat \cup {DOMAIN_DESTROYED}]
  PROVE  IInv'
<1> USE DEF IInv
<1>0. pc' = [pc EXCEPT ![a] = l] /\ pc \in [Actors -> Label]
  BY DEF Goto, TypeOK
<1>1. TypeOK'
  BY <1>0 DEF TypeOK, Goto
<1>2. Held' = Held
  BY HeldSame, ZenonT(60) DEF Goto
<1>3. Roles'
  BY <1>0, Enlisted DEF Roles
<1>4. RefsCounted' /\ Dead'
  BY <1>0, <1>2 DEF RefsCounted, Dead
<1>5. UnlinkedOnce' /\ Linked'
  BY <1>0 DEF UnlinkedOnce, Linked
<1>6. Covered'
  BY <1>0 DEF Covered, Goto, Quiescent, TypeOK
<1> QED
  BY <1>1, <1>3, <1>4, <1>5, <1>6

LEMMA LookupStep == ASSUME IInv, NEW a \in Getters, Lookup(a) PROVE IInv'
<1>1. a \in Actors /\ a # Killer
  BY Enlisted
<1>2. old' \in [Actors -> Nat \cup {DOMAIN_DESTROYED}]
  BY <1>1 DEF Lookup, IInv, TypeOK
<1> QED
  BY <1>1, <1>2, Walks DEF Lookup, Label

\* get_domain() ends with a reference only if the counter is not destroyed:
\* the number compared with it was not negative.
LEMMA GetStep == ASSUME IInv, NEW a \in Getters, Get(a) PROVE IInv'
<1>1. a \in Actors /\ a # Killer /\ pc[a] = "get" /\ TypeOK
  BY Enlisted DEF Get, IInv
<1>2. CASE old[a] < 0 /\ old' = [old EXCEPT ![a] = 0] /\ Goto(a, "idle") /\ UNCHANGED refcnt
  <2>1. old' \in [Actors -> Nat \cup {DOMAIN_DESTROYED}]
    BY <1>1, <1>2 DEF TypeOK
  <2> QED
    BY <1>1, <1>2, <2>1, Walks DEF Get, Label
<1>3. CASE /\ old[a] >= 0 /\ refcnt = old[a] /\ refcnt' = old[a] + 1
           /\ old' = [old EXCEPT ![a] = 0] /\ Goto(a, "held")
  <2> USE DEF IInv
  <2>0. /\ pc' = [pc EXCEPT ![a] = "held"] /\ pc \in [Actors -> Label]
        /\ UNCHANGED <<is_dying, hashed, freed, rcu, leaked>>
    BY <1>1, <1>3 DEF Get, Goto, TypeOK
  <2>1. /\ refcnt \in Nat /\ refcnt # DOMAIN_DESTROYED /\ refcnt' = refcnt + 1
        /\ refcnt' # DOMAIN_DESTROYED
    BY <1>1, <1>3 DEF TypeOK, DOMAIN_DESTROYED
  <2>2. TypeOK'
    BY <1>1, <1>3, <2>0, <2>1 DEF TypeOK, Goto, Label
  <2>3. RefsCounted'
    <3>1. Cardinality(Held') = Cardinality(Held) + 1
      BY <1>1, <2>0, HeldTaken, ZenonT(60)
    <3> QED
      BY <2>0, <2>1, <3>1, HeldFinite DEF RefsCounted, TypeOK
  <2>4. Roles' /\ Dead'
    BY <1>1, <2>0, <2>1 DEF Roles, Dead
  <2>5. hashed /\ \A b \in Actors : pc[b] # "unlink"
    BY <2>1 DEF Linked, TypeOK
  <2>6. UnlinkedOnce' /\ Linked' /\ Covered'
    BY <1>1, <2>0, <2>1, <2>5 DEF UnlinkedOnce, Linked, Covered, TypeOK
  <2> QED
    BY <2>2, <2>3, <2>4, <2>6
<1>4. CASE /\ old[a] >= 0 /\ refcnt # old[a]
           /\ old' = [old EXCEPT ![a] = refcnt] /\ UNCHANGED <<refcnt, pc, grace>>
  <2>1. TypeOK'
    BY <1>1, <1>4 DEF Get, TypeOK
  <2>2. UNCHANGED <<refcnt, is_dying, hashed, freed, pc, rcu, grace, leaked>> /\ Held' = Held
    BY <1>4 DEF Get, Held
  <2> QED
    BY <2>1, <2>2 DEF IInv, Roles, RefsCounted, Dead, UnlinkedOnce, Linked, Covered
<1> QED
  BY <1>2, <1>3, <1>4 DEF Get

\* put_domain(): the last reference is that of a dead domain.
LEMMA PutStep ==
  ASSUME IInv, NEW a \in Actors, put_domain(a), Roles', refcnt # DOMAIN_DESTROYED,
         UNCHANGED <<hashed, freed, old, rcu, leaked>>,
         pc[a] # "idle", is_dying' \in {is_dying, "dead"},
         refcnt = 1 + (IF is_dying' = "dead" THEN 0 ELSE 1) + Cardinality(Held') + leaked
  PROVE  IInv'
<1> USE DEF IInv
<1>c. Cardinality(Held') \in Nat
  BY SomeGetters DEF Held
<1>0. PICK l \in {"destroy", "idle"} :
        /\ pc' = [pc EXCEPT ![a] = l] /\ pc \in [Actors -> Label]
        /\ l = "destroy" => refcnt' = 0 /\ is_dying' = "dead"
        /\ grace' = IF l = "idle" THEN grace \ {a} ELSE grace
  <2>1. /\ pc' = [pc EXCEPT ![a] = IF refcnt' = 0 THEN "destroy" ELSE "idle"]
        /\ pc \in [Actors -> Label]
        /\ grace' = IF refcnt' = 0 THEN grace ELSE grace \ {a}
    BY DEF put_domain, Goto, Quiescent, TypeOK
  <2>2. refcnt' = 0 => is_dying' = "dead"
    BY <1>c DEF put_domain, TypeOK
  <2> QED
    BY <2>1, <2>2, ZenonT(60)
<1>1. /\ refcnt' = refcnt - 1 /\ refcnt' \in Nat /\ refcnt' # DOMAIN_DESTROYED
      /\ refcnt' = (IF is_dying' = "dead" THEN 0 ELSE 1) + Cardinality(Held') + leaked
  <2>1. refcnt \in Nat /\ leaked \in Nat /\ refcnt' = refcnt - 1
    BY DEF TypeOK, put_domain
  <2>2. refcnt >= 1
    BY <1>c, <2>1
  <2> QED
    BY <1>c, <2>1, <2>2 DEF DOMAIN_DESTROYED
<1>2. TypeOK'
  BY <1>0, <1>1 DEF TypeOK, Label
<1>3. RefsCounted'
  BY <1>1 DEF RefsCounted
<1>4. Dead'
  BY <1>0, <1>1 DEF Dead
<1>5. hashed /\ \A b \in Actors : pc[b] # "unlink"
  BY DEF Linked, TypeOK
<1>6. UnlinkedOnce' /\ Linked' /\ Covered'
  BY <1>0, <1>1, <1>5 DEF UnlinkedOnce, Linked, Covered, TypeOK
<1> QED
  BY <1>2, <1>3, <1>4, <1>6

LEMMA UserPutStep == ASSUME IInv, NEW a \in Getters, UserPut(a) PROVE IInv'
<1> USE DEF IInv
<1>0. a \in Actors /\ a # Killer /\ pc[a] = "held" /\ put_domain(a) /\ a \in Held
  BY Enlisted DEF UserPut, Held
<1>1. refcnt # DOMAIN_DESTROYED
  BY <1>0 DEF Dead
<1>2. PICK l \in {"destroy", "idle"} : pc' = [pc EXCEPT ![a] = l]
  BY <1>0, ZenonT(60) DEF put_domain, Goto
<1>3. Cardinality(Held') = Cardinality(Held) - 1
  BY <1>0, <1>2, HeldGiven, ZenonT(60) DEF Label
<1>4. refcnt = 1 + (IF is_dying' = "dead" THEN 0 ELSE 1) + Cardinality(Held') + leaked
  BY <1>1, <1>3, HeldFinite DEF RefsCounted, UserPut, TypeOK
<1>5. Roles'
  BY <1>0, <1>2 DEF Roles, TypeOK
<1> QED
  BY <1>0, <1>1, <1>4, <1>5, PutStep DEF UserPut

LEMMA KillDeadStep == ASSUME IInv, KillDead PROVE IInv'
<1> USE DEF IInv
<1>0. Killer \in Actors /\ pc[Killer] = "kill" /\ put_domain(Killer) /\ is_dying' = "dead"
  BY Enlisted DEF KillDead
<1>1. refcnt # DOMAIN_DESTROYED /\ is_dying # "dead"
  BY DEF Dead, KillDead
<1>2. PICK l \in {"destroy", "idle"} : pc' = [pc EXCEPT ![Killer] = l]
  BY <1>0, ZenonT(60) DEF put_domain, Goto
<1>3. Held' = Held
  BY <1>0, <1>2, HeldSame, ZenonT(60) DEF Label
<1>4. refcnt = 1 + 0 + Cardinality(Held') + leaked
  BY <1>1, <1>3, HeldFinite DEF RefsCounted, TypeOK
<1>5. Roles'
  BY <1>0, <1>2, Enlisted DEF Roles, TypeOK
<1> QED
  BY <1>0, <1>1, <1>4, <1>5, PutStep DEF KillDead

\* do_vt_op() keeps the reference: it is counted still.
LEMMA VtReturnStep == ASSUME IInv, NEW a \in Getters, VtReturn(a) PROVE IInv'
<1> USE DEF IInv
<1>0. /\ a \in Actors /\ a # Killer /\ pc[a] = "held" /\ a \in Held
      /\ pc' = [pc EXCEPT ![a] = "idle"] /\ pc \in [Actors -> Label]
      /\ grace' = grace \ {a} /\ leaked' = leaked + 1
      /\ UNCHANGED <<refcnt, is_dying, hashed, freed, old, rcu>>
  BY Enlisted DEF VtReturn, Held, Goto, Quiescent, TypeOK
<1>1. refcnt # DOMAIN_DESTROYED
  BY <1>0 DEF Dead
<1>2. TypeOK'
  BY <1>0 DEF TypeOK, Label
<1>3. Cardinality(Held') = Cardinality(Held) - 1
  BY <1>0, HeldGiven, ZenonT(60) DEF Label
<1>4. RefsCounted'
  BY <1>0, <1>1, <1>3, HeldFinite DEF RefsCounted, TypeOK
<1>5. Roles' /\ Dead'
  BY <1>0, <1>1 DEF Roles, Dead
<1>6. UnlinkedOnce' /\ Linked' /\ Covered'
  BY <1>0, <1>1 DEF UnlinkedOnce, Linked, Covered, TypeOK
<1> QED
  BY <1>2, <1>4, <1>5, <1>6

\* domain_destroy(): the compare-and-swap succeeds for one caller, when no
\* references are left.
LEMMA DestroyStep == ASSUME IInv, NEW a \in Actors, Destroy(a) PROVE IInv'
<1> USE DEF IInv
<1>1. CASE refcnt # 0
  BY <1>1, Walks DEF Destroy, Label, TypeOK
<1>2. CASE refcnt = 0
  <2>0. /\ pc[a] = "destroy" /\ pc' = [pc EXCEPT ![a] = "unlink"] /\ pc \in [Actors -> Label]
        /\ refcnt' = DOMAIN_DESTROYED /\ refcnt # DOMAIN_DESTROYED /\ grace' = grace
        /\ UNCHANGED <<is_dying, hashed, freed, old, rcu, leaked>>
    BY <1>2 DEF Destroy, Goto, Quiescent, TypeOK, DOMAIN_DESTROYED
  <2>1. TypeOK'
    BY <2>0 DEF TypeOK, Label
  <2>2. is_dying = "dead" /\ hashed /\ \A b \in Actors : pc[b] # "unlink"
    BY <2>0 DEF Dead, Linked, TypeOK
  <2>3. Held' = {}
    <3>1. Cardinality(Held) = 0
      BY <1>2, <2>0, HeldFinite DEF RefsCounted, TypeOK
    <3>2. Held' = Held
      BY <2>0, HeldSame, ZenonT(60) DEF Label
    <3> QED
      BY <3>1, <3>2, HeldFinite, FS_EmptySet
  <2>4. Roles'
    BY <2>0, Enlisted DEF Roles
  <2>5. RefsCounted' /\ Dead'
    BY <2>0, <2>2, <2>3 DEF RefsCounted, Dead
  <2>6. UnlinkedOnce' /\ Linked' /\ Covered'
    BY <2>0, <2>2 DEF UnlinkedOnce, Linked, Covered, TypeOK
  <2> QED
    BY <2>1, <2>4, <2>5, <2>6
<1> QED
  BY <1>1, <1>2

\* The grace period begins with everybody that may have the pointer in it.
LEMMA UnlinkStep == ASSUME IInv, NEW a \in Actors, Unlink(a) PROVE IInv'
<1> USE DEF IInv
<1>0. /\ pc[a] = "unlink" /\ pc' = [pc EXCEPT ![a] = "idle"] /\ pc \in [Actors -> Label]
      /\ hashed' = FALSE /\ rcu' = "waiting"
      /\ grace' = {b \in Actors \ {a} : pc[b] \notin Quiescent}
      /\ UNCHANGED <<refcnt, is_dying, freed, old, leaked>>
  BY DEF Unlink, TypeOK
<1>1. /\ refcnt = DOMAIN_DESTROYED /\ is_dying = "dead" /\ Held = {} /\ hashed
      /\ \A b \in Actors \ {a} : pc[b] # "unlink"
  BY <1>0 DEF Linked, Dead, UnlinkedOnce
<1>2. TypeOK'
  BY <1>0, ZenonT(60) DEF TypeOK, Label
<1>3. Held' = Held
  BY <1>0, HeldSame, ZenonT(60) DEF Label
<1>4. Roles' /\ RefsCounted'
  BY <1>0, <1>1, Enlisted DEF Roles, RefsCounted
<1>5. Dead' /\ UnlinkedOnce' /\ Linked'
  BY <1>0, <1>1, <1>3 DEF Dead, UnlinkedOnce, Linked
<1>6. \A b \in Actors : pc[b] # "held"
  BY <1>1, Enlisted DEF Held, Roles, Actors
<1>7. freed = FALSE
  BY <1>1 DEF Covered, TypeOK
<1>8. Covered'
  BY <1>0, <1>6, <1>7 DEF Covered, Quiescent
<1> QED
  BY <1>2, <1>4, <1>5, <1>8

LEMMA CompleteStep == ASSUME IInv, complete_domain_destroy PROVE IInv'
<1> USE DEF IInv
<1>1. UNCHANGED <<refcnt, is_dying, hashed, pc, old, grace, leaked>> /\ Held' = Held
  BY DEF complete_domain_destroy, Held
<1>2. TypeOK' /\ UnlinkedOnce'
  BY <1>1 DEF complete_domain_destroy, TypeOK, UnlinkedOnce
<1>3. Roles' /\ RefsCounted' /\ Dead' /\ Linked'
  BY <1>1, ZenonT(60) DEF Roles, RefsCounted, Dead, Linked
<1>4. Covered'
  BY <1>1 DEF complete_domain_destroy, Covered, TypeOK
<1> QED
  BY <1>2, <1>3, <1>4

LEMMA KillMarkStep == ASSUME IInv, KillMark PROVE IInv'
<1> USE DEF IInv
<1>1. /\ UNCHANGED <<refcnt, hashed, freed, pc, old, rcu, grace, leaked>> /\ Held' = Held
      /\ is_dying = "alive" /\ is_dying' = "dying"
  BY DEF KillMark, Held
<1>2. TypeOK'
  BY <1>1 DEF TypeOK
<1>3. RefsCounted' /\ Dead'
  BY <1>1 DEF RefsCounted, Dead
<1>4. Roles' /\ UnlinkedOnce' /\ Linked' /\ Covered'
  BY <1>1 DEF Roles, UnlinkedOnce, Linked, Covered
<1> QED
  BY <1>2, <1>3, <1>4

LEMMA KillWalks == ASSUME IInv, KillFind \/ KillAgain \/ KillNothing PROVE IInv'
<1> USE DEF IInv
<1>1. Killer \in Actors /\ Killer \notin Getters
  BY Enlisted
<1>2. old' \in [Actors -> Nat \cup {DOMAIN_DESTROYED}]
  BY DEF KillFind, KillAgain, KillNothing, TypeOK
<1>3. CASE KillFind
  BY <1>1, <1>2, <1>3, Walks DEF KillFind, Label
<1>4. CASE KillAgain
  BY <1>1, <1>2, <1>4, Walks DEF KillAgain, Label
<1>5. CASE KillNothing
  BY <1>1, <1>2, <1>5, Walks DEF KillNothing, Label
<1> QED
  BY <1>3, <1>4, <1>5

-----------------------------------------------------------------------------
(* The theorems.                                                           *)

LEMMA InitInv == Init => IInv
<1> SUFFICES ASSUME Init PROVE IInv
  OBVIOUS
<1>1. \A a \in Actors : pc[a] = "idle"
  BY DEF Init
<1>2. Held = {}
  BY <1>1, Enlisted DEF Held
<1>3. TypeOK
  BY ZenonT(60) DEF Init, TypeOK, Label
<1>4. Cardinality(Held) = 0
  BY <1>2, FS_EmptySet
<1>5. RefsCounted
  BY <1>4 DEF Init, RefsCounted
<1>6. Roles /\ UnlinkedOnce
  BY <1>1, Enlisted DEF Roles, UnlinkedOnce
<1>7. Dead /\ Linked /\ Covered
  BY <1>1 DEF Init, Dead, Linked, Covered, DOMAIN_DESTROYED
<1> QED
  BY <1>3, <1>5, <1>6, <1>7 DEF IInv

LEMMA StepInv == IInv /\ [Next]_vars => IInv'
<1> SUFFICES ASSUME IInv, [Next]_vars PROVE IInv'
  OBVIOUS
<1>1. CASE UNCHANGED vars
  <2>1. UNCHANGED <<refcnt, is_dying, hashed, freed, pc, old, rcu, grace, leaked>>
    BY <1>1 DEF vars
  <2> QED
    BY <2>1 DEF IInv, TypeOK, Roles, RefsCounted, Dead, UnlinkedOnce, Linked, Covered, Held
<1>2. ASSUME NEW a \in Getters, Lookup(a) \/ Proceed(a) PROVE IInv'
  BY <1>2, LookupStep, GetStep, UserPutStep, VtReturnStep DEF Proceed
<1>3. ASSUME NEW a \in Actors, Finish(a) PROVE IInv'
  BY <1>3, DestroyStep, UnlinkStep DEF Finish
<1>4. CASE KillFind \/ domain_kill
  BY <1>4, KillWalks, KillMarkStep, KillDeadStep DEF domain_kill
<1>5. CASE complete_domain_destroy
  BY <1>5, CompleteStep
<1> QED
  BY <1>1, <1>2, <1>3, <1>4, <1>5 DEF Next, Gone

LEMMA Invariant == Spec => []IInv
BY InitInv, StepInv, PTL DEF Spec

(* The fields of struct domain keep their types: put_domain() never takes  *)
(* the counter below 0, and get_domain() never counts up from the value    *)
(* that marks a domain destroyed.                                          *)
THEOREM TypeCorrect == Spec => []TypeOK
<1>1. IInv => TypeOK
  BY DEF IInv
<1> QED
  BY <1>1, Invariant, PTL

(* The assertion of domain_destroy(), BUG_ON(!d->is_dying): put_domain()   *)
(* brings the counter to 0 only after domain_kill().                       *)
THEOREM DestroyedDyingCorrect == Spec => []DestroyedDying
<1>1. IInv => DestroyedDying
  BY DEF IInv, Dead, DestroyedDying
<1> QED
  BY <1>1, Invariant, PTL

(* One caller of domain_destroy() gets past the compare-and-swap and takes *)
(* the domain off the hash chain and the list, and finds it there.         *)
THEOREM UnlinkedOnceCorrect == Spec => []UnlinkedOnce
<1>1. IInv => UnlinkedOnce
  BY DEF IInv
<1> QED
  BY <1>1, Invariant, PTL

(* complete_domain_destroy() frees the domain only when every CPU that     *)
(* found it, by get_domain_by_id() or for the kill, is done with it.       *)
THEOREM NotFreedInUseCorrect == Spec => []NotFreedInUse
<1>1. IInv => NotFreedInUse
  BY DEF IInv, Covered, NotFreedInUse
<1> QED
  BY <1>1, Invariant, PTL

(* d->refcnt is the number of references, those that do_vt_op() does not   *)
(* give back among them, until domain_destroy() marks it.                  *)
THEOREM RefsCountedCorrect == Spec => []RefsCounted
<1>1. IInv => RefsCounted
  BY DEF IInv
<1> QED
  BY <1>1, Invariant, PTL
=============================================================================
