-------------------------- MODULE VcpuSchedProofs ----------------------------
(***************************************************************************)
(* For any number of CPUs, vcpus and agents: a vcpu is on one CPU at a     *)
(* time and its registers are too, the assertions of schedule() hold, and  *)
(* a vcpu that was paused stays off the CPUs with its registers saved.     *)
(***************************************************************************)
EXTENDS VcpuSchedSteps, VcpuSchedCore, FiniteSetTheorems

USE ZenonT(90)

-----------------------------------------------------------------------------
\* Whatever is still to be done, somebody is about to do.

LEMMA NotedStep ==
  ASSUME Good, Noted, [Next]_vars
  PROVE  Noted'
<1>1. TLoc /\ TFlags /\ TQueue /\ TEvents /\ softirq \subseteq Cpus /\ polls \subseteq Vcpus
  BY Groups DEF Good
<1>2. Seen /\ PortSeen /\ MaskSeen /\ Noticed
  BY DEF Noted
<1>3. CASE UNCHANGED vars
  <2>1. UNCHANGED <<poll_mask, upcall, port, pause_flags, curr, runq, softirq, loc, polls>>
    BY <1>3 DEF vars, ev, flags, sched, queue
  <2>2. Seen'
    BY <1>2, <2>1 DEF Seen, Looks
  <2>3. PortSeen' /\ MaskSeen'
    <3>1. PortSeen'
      BY <1>2, <2>1 DEF PortSeen, Polls
    <3>2. MaskSeen'
      BY <1>2, <2>1 DEF MaskSeen, Unmasks
    <3> QED
      BY <3>1, <3>2
  <2>4. Noticed'
    BY <1>2, <2>1 DEF Noticed, Told
  <2> QED
    BY <2>2, <2>3, <2>4 DEF Noted
<1>4. CASE Light
  <2>1. Stirs
    BY <1>4, LightStirs
  <2>2. Seen'
    BY <1>1, <1>2, <2>1, SeenStep
  <2>3. PortSeen' /\ MaskSeen'
    <3>1. CASE UNCHANGED polls
      BY <1>1, <1>2, <2>1, <3>1, PollStep
    <3>2. ASSUME NEW c \in Cpus, NEW v \in Vcpus, Blocks(c, v) PROVE PortSeen' /\ MaskSeen'
      BY <1>1, <1>2, <3>2, BlocksStirs, PollBlocks
    <3> QED
      BY <3>1, <3>2, PollsKept
  <2>4. Noticed'
    <3>1. UNCHANGED <<curr, runq>> /\ StaysTold
      BY <1>4, <2>1, LightSched DEF sched, queue, Stirs
    <3> QED
      BY <1>2, <3>1, NoticedFrame
  <2> QED
    BY <2>2, <2>3, <2>4 DEF Noted
<1>5. CASE Heavy
  <2>1. Toils \/ \E c \in Cpus : Picks(c)
    BY <1>5, HeavyToils
  <2>2. UNCHANGED <<upcall, port, poll_mask>>
    BY <1>5, HeavyEvents DEF ev
  <2>3. Noticed'
    BY <1>1, <1>2, <2>1, NoticedToil, NoticedPick
  <2>4. Seen' /\ PortSeen' /\ MaskSeen'
    <3>1. CASE UNCHANGED polls
      BY <1>1, <1>2, <2>1, <2>2, <3>1, ToilEvents
    <3>2. ASSUME NEW c \in Cpus, NEW v \in Vcpus, Blocks(c, v) PROVE Seen' /\ PortSeen' /\ MaskSeen'
      <4>1. Stirs
        BY <3>2, LightStirs DEF Light
      <4> QED
        BY <1>1, <1>2, <3>2, <4>1, SeenStep, BlocksStirs, PollBlocks
    <3> QED
      BY <3>1, <3>2, PollsKept
  <2> QED
    BY <2>3, <2>4 DEF Noted
<1> QED
  BY <1>3, <1>4, <1>5, Steps

LEMMA PendingStep ==
  ASSUME Good, Core, Pending, [Next]_vars
  PROVE  Pending'
<1>1. /\ TLoc /\ TQueue /\ TArch /\ TCount /\ Carries /\ Paused /\ softirq \subseteq Cpus
      /\ Placed /\ Runs /\ Accounted /\ AllOff
  BY Groups DEF Good, Core
<1>2. SpinTold /\ AtWork /\ NotLost /\ InCall /\ Ledger
  BY DEF Pending
<1>3. CASE UNCHANGED vars
  <2>1. /\ UNCHANGED <<pause_flags, pause_count, curr, runq, softirq, loc, is_running>>
        /\ UNCHANGED <<runstate, is_urgent>>
    BY <1>3 DEF vars, flags, sched, queue, state, place
  <2>2. SpinTold' /\ AtWork' /\ InCall'
    BY <1>2, <2>1 DEF SpinTold, Told, AtWork, Moves, InCall
  <2>3. NotLost'
    BY <1>2, <2>1 DEF NotLost, vcpu_runnable, Has, Queued, Wakes
  <2>4. Ledger'
    BY <1>2, <2>1 DEF Ledger, Queued, Taken
  <2> QED
    BY <2>2, <2>3, <2>4 DEF Pending
<1>4. CASE Light
  <2>1. Stirs /\ UNCHANGED <<curr, runq, is_running>>
    BY <1>4, LightStirs, LightSched DEF sched, queue
  <2>2. SpinTold' /\ AtWork' /\ NotLost' /\ InCall'
    BY <1>1, <1>2, <2>1, SpinStir, WorkStir, LostStir, CallStir
  <2> QED
    BY <1>1, <1>2, <1>4, <2>2, StepCharges, LedgerStep DEF Pending
<1>5. CASE Heavy
  <2>1. softirq' \subseteq Cpus
    BY <1>5, HeavyLoc
  <2>2. CASE Toils
    BY <1>1, <1>2, <1>5, <2>1, <2>2, SpinToil, WorkToil, LostToil, CallToil, StepCharges, LedgerStep
       DEF Pending
  <2>3. ASSUME NEW c \in Cpus, Picks(c) PROVE Pending'
    BY <1>1, <1>2, <1>5, <2>3, SpinPick, WorkPick, LostPick, CallPick, StepCharges, LedgerStep
       DEF Pending
  <2> QED
    BY <1>5, <2>2, <2>3, HeavyToils
<1> QED
  BY <1>3, <1>4, <1>5, Steps

LEMMA CoreStep ==
  ASSUME Good, Core, Pending, [Next]_vars, ~moved'
  PROVE  Core' /\ Pending'
<1>1. ASSUME UNCHANGED vars PROVE Core'
  BY <1>1, StutterCore DEF vars, sched, queue, state, place, arch
<1>2. Core'
  BY <1>1, GoodSane, LightDoes, HeavyDoes, DoesCore, Steps
<1> QED
  BY <1>2, PendingStep

-----------------------------------------------------------------------------
\* Counting

LEMMA CountedPaused == Carries /\ Counted => Paused
<1> SUFFICES ASSUME Carries, Counted, NEW a \in Agents, loc[a].pc \in Pausing
             PROVE  pause_count[loc[a].v] \in Nat \ {0}
  BY DEF Paused
<1> DEFINE S == Pauses(loc[a].v)
<1>1. a \in S /\ S \subseteq Agents /\ loc[a].v \in Vcpus
  BY DEF Pauses, Carries, Sound, Pausing, WithVcpu, Threads
<1>2. IsFiniteSet(S)
  BY <1>1, FS_Subset, SchedAssumption
<1>3. Cardinality(S) \in Nat /\ Cardinality(S) # 0
  BY <1>1, <1>2, FS_CardinalityType, FS_EmptySet
<1> QED
  BY <1>1, <1>3 DEF Counted

LEMMA CountedFrame ==
  ASSUME Counted, UNCHANGED pause_count,
         \A a \in Agents : /\ loc'[a].pc \in Pausing <=> loc[a].pc \in Pausing
                           /\ loc[a].pc \in Pausing => loc'[a].v = loc[a].v
  PROVE  Counted'
<1>1. \A v \in Vcpus : Pauses(v)' = Pauses(v)
  BY DEF Pauses
<1> QED
  BY <1>1 DEF Counted

LEMMA PauseStep ==
  ASSUME TLoc, TCount, Counted, NEW a \in Agents, NEW v \in Vcpus, Pause(a, v)
  PROVE  Counted' /\ TCount'
<1>1. /\ loc[a].pc = "run" /\ loc'[a].pc = "pause" /\ loc'[a].v = v /\ Others(a)
      /\ pause_count' = [pause_count EXCEPT ![v] = @ + 1]
  BY PauseFacts
<1>2. \A b \in Agents \ {a} : loc'[b] = loc[b]
  BY <1>1 DEF Others, Threads
<1>3. Pauses(v)' = Pauses(v) \cup {a} /\ a \notin Pauses(v)
  BY <1>1, <1>2 DEF Pauses, Pausing
<1>4. \A x \in Vcpus \ {v} : Pauses(x)' = Pauses(x)
  BY <1>1, <1>2 DEF Pauses, Pausing
<1>5. IsFiniteSet(Pauses(v))
  BY FS_Subset, SchedAssumption DEF Pauses
<1>6. Cardinality(Pauses(v)') = Cardinality(Pauses(v)) + 1
  BY <1>3, <1>5, FS_AddElement
<1>7. TCount'
  BY <1>1, SMT DEF TCount
<1>8. pause_count'[v] = Cardinality(Pauses(v)') /\ \A x \in Vcpus \ {v} : pause_count'[x] = pause_count[x]
  BY <1>1, <1>6 DEF TCount, Counted
<1>9. Counted'
  BY <1>4, <1>8 DEF Counted
<1> QED
  BY <1>7, <1>9

LEMMA UnpauseStep ==
  ASSUME TLoc, Carries, TCount, Paused, Counted, NEW a \in Agents, Unpause(a)
  PROVE  Counted' /\ TCount'
<1>0. PICK v : v = loc[a].v
  OBVIOUS
<1>1. /\ loc[a].pc = "held" /\ v \in Vcpus /\ loc'[a].pc \notin Marked /\ Others(a)
      /\ pause_count' = [pause_count EXCEPT ![v] = @ - 1]
  BY <1>0, UnpauseFacts
<1>2. \A b \in Agents \ {a} : loc'[b] = loc[b]
  BY <1>1 DEF Others, Threads
<1>3. pause_count[v] \in Nat \ {0}
  BY <1>0, <1>1, PauseIsCounted DEF Pausing
<1>4. Pauses(v)' = Pauses(v) \ {a} /\ a \in Pauses(v)
  BY <1>0, <1>1, <1>2 DEF Pauses, Pausing, Marked
<1>5. \A x \in Vcpus \ {v} : Pauses(x)' = Pauses(x)
  BY <1>0, <1>1, <1>2 DEF Pauses, Pausing, Marked
<1>6. IsFiniteSet(Pauses(v))
  BY FS_Subset, SchedAssumption DEF Pauses
<1>7. Cardinality(Pauses(v)') = Cardinality(Pauses(v)) - 1
  BY <1>4, <1>6, FS_RemoveElement
<1>8. TCount'
  BY <1>1, <1>3, SMT DEF TCount
<1>9. pause_count'[v] = Cardinality(Pauses(v)') /\ \A x \in Vcpus \ {v} : pause_count'[x] = pause_count[x]
  BY <1>1, <1>7 DEF TCount, Counted
<1>10. Counted'
  BY <1>5, <1>9 DEF Counted
<1> QED
  BY <1>8, <1>10

LEMMA KeepsCounted ==
  ASSUME TCount, Counted, NEW t \in Threads, KeepsPause(t)
  PROVE  Counted' /\ TCount'
<1>1. \A a \in Agents : \/ loc'[a] = loc[a]
                        \/ /\ loc'[a].pc \in Pausing <=> loc[a].pc \in Pausing
                           /\ loc[a].pc \in Pausing => loc'[a].v = loc[a].v
  BY DEF KeepsPause, Others, Threads
<1>2. UNCHANGED pause_count
  BY DEF KeepsPause
<1>3. Counted'
  BY <1>1, <1>2, CountedFrame
<1> QED
  BY <1>2, <1>3 DEF TCount

LEMMA CountedStep ==
  ASSUME Good, Counted, [Next]_vars
  PROVE  Counted' /\ TCount'
<1>1. TLoc /\ TCount /\ Carries /\ Paused
  BY Groups DEF Good
<1>2. CASE UNCHANGED vars
  <2>1. UNCHANGED <<loc, pause_count>>
    BY <1>2 DEF vars, flags
  <2> QED
    BY <1>1, <2>1, CountedFrame DEF TCount
<1>3. CASE Light \/ Heavy
  BY <1>1, <1>3, StepPauses, KeepsCounted, PauseStep, UnpauseStep
<1> QED
  BY <1>2, <1>3, Steps

LEMMA RecountType ==
  ASSUME TUrgent, NEW D, IsFiniteSet(D), Recounts(D)
  PROVE  TUrgent'
<1> DEFINE more == {v \in D : Polling(v)} \ is_urgent
           less == {v \in D : ~Polling(v)} \cap is_urgent
           On(S, c) == Cardinality({v \in S : processor[v] = c})
<1>1. urgent_count' = [c \in Cpus |-> urgent_count[c] + On(more, c) - On(less, c)]
  BY DEF Recounts
<1>2. ASSUME NEW S \in SUBSET D, NEW c \in Cpus PROVE On(S, c) \in Nat
  BY FS_Subset, FS_CardinalityType
<1>3. more \subseteq D /\ less \subseteq D
  OBVIOUS
<1>4. \A c \in Cpus : On(more, c) \in Nat /\ On(less, c) \in Nat
  BY <1>2, <1>3
<1> HIDE DEF On, more, less
<1> QED
  BY <1>1, <1>4, SMT DEF TUrgent

LEMMA RecountTally ==
  ASSUME Tallied, NEW D, IsFiniteSet(D), Recounts(D), UNCHANGED processor
  PROVE  Tallied'
<1> DEFINE more == {v \in D : Polling(v)} \ is_urgent
           less == {v \in D : ~Polling(v)} \cap is_urgent
           On(S, c) == {v \in S : processor[v] = c}
<1>1. /\ urgent_count' = [c \in Cpus |-> urgent_count[c] + Cardinality(On(more, c)) - Cardinality(On(less, c))]
      /\ is_urgent' = (is_urgent \cup more) \ less
  BY DEF Recounts
<1>2. more \cap is_urgent = {} /\ less \subseteq is_urgent /\ more \cap less = {} /\ more \subseteq D /\ less \subseteq D
  OBVIOUS
<1>3. IsFiniteSet(is_urgent) /\ IsFiniteSet(more) /\ IsFiniteSet(less)
  BY <1>2, FS_Subset DEF Tallied
<1> HIDE DEF more, less
<1>4. IsFiniteSet(is_urgent')
  BY <1>1, <1>3, FS_Union, FS_Difference
<1>5. ASSUME NEW c \in Cpus PROVE urgent_count'[c] = Cardinality(UrgentOn(c)')
  <2> DEFINE A == UrgentOn(c)
             M == On(more, c)
             L == On(less, c)
  <2>1. IsFiniteSet(A) /\ IsFiniteSet(M) /\ IsFiniteSet(L)
    BY <1>3, FS_Subset DEF UrgentOn
  <2>2. A \cap M = {} /\ (A \cup M) \cap L = L
    BY <1>2 DEF UrgentOn
  <2>3. UrgentOn(c)' = (A \cup M) \ L
    BY <1>1 DEF UrgentOn
  <2>4. urgent_count'[c] = urgent_count[c] + Cardinality(M) - Cardinality(L) /\ urgent_count[c] = Cardinality(A)
    BY <1>1 DEF Tallied
  <2> HIDE DEF A, M, L, On
  <2>5. IsFiniteSet(A \cup M) /\ Cardinality(A \cup M) = Cardinality(A) + Cardinality(M) - Cardinality(A \cap M)
    BY <2>1, FS_Union
  <2>6. Cardinality((A \cup M) \ L) = Cardinality(A \cup M) - Cardinality((A \cup M) \cap L)
    BY <2>5, FS_Difference
  <2>7. Cardinality(A) \in Nat /\ Cardinality(M) \in Nat /\ Cardinality(L) \in Nat /\ Cardinality({}) = 0
    BY <2>1, FS_CardinalityType, FS_EmptySet
  <2>8. Cardinality((A \cup M) \ L) = Cardinality(A) + Cardinality(M) - Cardinality(L)
    <3>1. Cardinality(A \cap M) = 0 /\ Cardinality((A \cup M) \cap L) = Cardinality(L)
      BY <2>2, <2>7
    <3> QED
      BY <2>5, <2>6, <2>7, <3>1, SMT
  <2> QED
    BY <2>3, <2>4, <2>8
<1> QED
  BY <1>4, <1>5 DEF Tallied

LEMMA MoveTally ==
  ASSUME TPlace, TState, TUrgent, Tallied, NEW v \in Vcpus, NEW n \in Cpus, UNCHANGED is_urgent,
         processor' = [processor EXCEPT ![v] = n], UrgencyMoves(v, n)
  PROVE  Tallied'
<1>1. processor'[v] = n /\ \A x \in Vcpus \ {v} : processor'[x] = processor[x]
  BY DEF TPlace
<1>2. is_urgent \subseteq Vcpus /\ IsFiniteSet(is_urgent)
  BY DEF TState, Tallied
<1>3. CASE v \notin is_urgent
  <2>1. \A c \in Cpus : UrgentOn(c)' = UrgentOn(c)
    BY <1>1, <1>2, <1>3 DEF UrgentOn
  <2> QED
    BY <1>2, <1>3, <2>1 DEF Tallied, UrgencyMoves
<1>4. CASE v \in is_urgent
  <2> SUFFICES ASSUME NEW c \in Cpus PROVE urgent_count'[c] = Cardinality(UrgentOn(c)')
    BY <1>2 DEF Tallied
  <2>1. urgent_count'[c] = urgent_count[c] + (IF c = n THEN 1 ELSE 0) - (IF c = processor[v] THEN 1 ELSE 0)
    BY <1>4 DEF UrgencyMoves
  <2>2. urgent_count[c] = Cardinality(UrgentOn(c)) /\ urgent_count[c] \in Int
    BY DEF Tallied, TUrgent
  <2>3. IsFiniteSet(UrgentOn(c))
    BY <1>2, FS_Subset DEF UrgentOn
  <2>4. CASE c = n /\ c # processor[v]
    <3>1. UrgentOn(c)' = UrgentOn(c) \cup {v} /\ v \notin UrgentOn(c)
      BY <1>1, <1>2, <1>4, <2>4 DEF UrgentOn
    <3>2. Cardinality(UrgentOn(c)') = Cardinality(UrgentOn(c)) + 1
      BY <2>3, <3>1, FS_AddElement
    <3>3. urgent_count'[c] = urgent_count[c] + 1
      BY <2>1, <2>2, <2>4, SMT
    <3> QED
      BY <2>2, <3>2, <3>3
  <2>5. CASE c # n /\ c = processor[v]
    <3>1. UrgentOn(c)' = UrgentOn(c) \ {v} /\ v \in UrgentOn(c)
      BY <1>1, <1>2, <1>4, <2>5 DEF UrgentOn
    <3>2. Cardinality(UrgentOn(c)') = Cardinality(UrgentOn(c)) - 1
      BY <2>3, <3>1, FS_RemoveElement
    <3>3. urgent_count'[c] = urgent_count[c] - 1
      BY <2>1, <2>2, <2>5, SMT
    <3> QED
      BY <2>2, <3>2, <3>3
  <2>6. CASE c = n <=> c = processor[v]
    <3>1. UrgentOn(c)' = UrgentOn(c)
      BY <1>1, <1>2, <2>6 DEF UrgentOn
    <3>2. urgent_count'[c] = urgent_count[c]
      BY <2>1, <2>2, <2>6, SMT
    <3> QED
      BY <2>2, <3>1, <3>2
  <2> QED
    BY <2>4, <2>5, <2>6
<1> QED
  BY <1>3, <1>4

\* A vcpu that is stolen is on a queue, and so not urgent.
LEMMA PickTally ==
  ASSUME TPlace, TState, Tallied, Ledger, NEW c \in Cpus, Picks(c), UNCHANGED <<is_urgent, urgent_count>>
  PROVE  Tallied'
<1>1. CASE UNCHANGED processor
  BY <1>1 DEF Tallied, UrgentOn
<1>2. ASSUME NEW v \in Vcpus \cup {Idle}, NEW s \in Cpus, Chosen(c, v, s), s # c PROVE Tallied'
  <2>1. v \in Vcpus /\ v \in Requeued(c)[s] /\ processor' = [processor EXCEPT ![v] = c]
    BY <1>2, SchedAssumption DEF Chosen
  <2>2. v \in runq[s]
    BY <1>2, <2>1 DEF Picks, Requeues
  <2>3. v \notin is_urgent
    BY <2>1, <2>2 DEF Ledger, Queued
  <2>4. \A x \in is_urgent : processor'[x] = processor[x]
    BY <2>1, <2>3 DEF TPlace, TState
  <2>5. \A d \in Cpus : UrgentOn(d)' = UrgentOn(d)
    BY <2>4 DEF UrgentOn
  <2> QED
    BY <2>5 DEF Tallied
<1> QED
  BY <1>1, <1>2 DEF Picks, PickDoes, Chosen

LEMMA PairFinite ==
  ASSUME NEW x, NEW y, NEW D \in SUBSET {x, y}
  PROVE  IsFiniteSet(D)
<1>1. IsFiniteSet({x})
  BY FS_Singleton
<1>2. IsFiniteSet({x} \cup {y})
  BY <1>1, FS_AddElement
<1>3. D \subseteq {x} \cup {y}
  OBVIOUS
<1> QED
  BY <1>2, <1>3, FS_Subset

LEMMA TallyStep ==
  ASSUME Good, [Next]_vars
  PROVE  TUrgent' /\ (Ledger /\ Tallied => Tallied')
<1>1. TPlace /\ TState /\ TUrgent
  BY Groups DEF Good
<1>2. CASE UNCHANGED <<is_urgent, urgent_count, processor>>
  BY <1>1, <1>2 DEF TUrgent, Tallied, UrgentOn
<1>3. ASSUME NEW x, NEW y, NEW D \in SUBSET {x, y}, Recounts(D), UNCHANGED processor
      PROVE  TUrgent' /\ (Tallied => Tallied')
  BY <1>1, <1>3, PairFinite, RecountType, RecountTally
<1>4. ASSUME NEW v \in Vcpus, NEW n \in Cpus, processor' = [processor EXCEPT ![v] = n], UrgencyMoves(v, n),
             UNCHANGED is_urgent
      PROVE  TUrgent' /\ (Tallied => Tallied')
  <2>1. TUrgent'
    BY <1>1, <1>4, SMT DEF UrgencyMoves, TUrgent
  <2> QED
    BY <1>1, <1>4, <2>1, MoveTally
<1>5. ASSUME NEW c \in Cpus, Picks(c), UNCHANGED <<is_urgent, urgent_count>>
      PROVE  TUrgent' /\ (Ledger /\ Tallied => Tallied')
  BY <1>1, <1>5, PickTally DEF TUrgent
<1>6. CASE UNCHANGED vars
  BY <1>2, <1>6 DEF vars, sched, state, place
<1>7. CASE Tallies
  BY <1>2, <1>3, <1>4, <1>5, <1>7 DEF Tallies
<1> QED
  BY <1>6, <1>7, StepTallies, Steps

-----------------------------------------------------------------------------
\* The invariant.  A queued vcpu that is moved (moved) leaves a queue that no
\* longer is that of its CPU, and what Core says no longer holds.

IInv == Good /\ Counted /\ AffinityKept /\ Noted /\ (moved \/ (Core /\ Pending /\ Tallied))

LEMMA InitInv == Init => IInv
<1> SUFFICES ASSUME Init PROVE IInv
  OBVIOUS
<1>1. /\ TypeOK /\ Carries /\ Holds /\ AffinityKept /\ Core /\ Noted /\ Pending
      /\ \A v \in Vcpus : pause_count[v] = 0 /\ Pauses(v) = {}
      /\ \A c \in Cpus : urgent_count[c] = 0 /\ UrgentOn(c) = {}
      /\ is_urgent = {}
  BY InitGood
<1>2. Counted /\ Tallied
  BY <1>1, FS_EmptySet DEF Counted, Tallied
<1>3. Paused
  BY <1>1, <1>2, CountedPaused
<1> QED
  BY <1>1, <1>2, <1>3 DEF IInv, Good

LEMMA CountedPausedNext == Carries' /\ Counted' => Paused'
BY CountedPaused, PTL

LEMMA StepInv == IInv /\ [Next]_vars => IInv'
<1> SUFFICES ASSUME IInv, [Next]_vars PROVE IInv'
  OBVIOUS
<1>1. Good /\ Counted /\ AffinityKept /\ Noted /\ (moved \/ (Core /\ Pending /\ Tallied))
  BY DEF IInv
<1>2. Counted' /\ TCount' /\ TUrgent' /\ Carries'
  BY <1>1, CountedStep, TallyStep, CarriesStep
<1>3. Good' /\ AffinityKept' /\ Noted'
  BY <1>1, <1>2, GoodKept, NotedStep, CountedPausedNext
<1>4. moved' \/ (Core' /\ Pending' /\ Tallied')
  <2>1. CASE moved
    BY <1>1, <2>1, MovedStays
  <2>2. CASE Core /\ Pending /\ Tallied /\ ~moved'
    <3>1. Core' /\ Pending'
      BY <1>1, <2>2, CoreStep
    <3>2. Tallied'
      BY <1>1, <2>2, TallyStep DEF Pending
    <3> QED
      BY <3>1, <3>2
  <2> QED
    BY <1>1, <2>1, <2>2
<1> QED
  BY <1>2, <1>3, <1>4 DEF IInv

LEMMA Invariant == Spec => []IInv
BY InitInv, StepInv, PTL DEF Spec

(* The types of schedule.c and of x86 are kept, for any number of CPUs,    *)
(* vcpus and agents.                                                       *)
THEOREM TypeCorrect == Spec => []TypeOK
<1>1. IInv => TypeOK
  BY DEF IInv, Good
<1> QED
  BY <1>1, Invariant, PTL

(* A vcpu is within its affinity or marked as one to move: whatever        *)
(* vcpu_set_affinity(), vcpu_migrate() and csched_runq_steal() do at the   *)
(* same time.                                                              *)
THEOREM AffinityCorrect == Spec => []AffinityKept
<1>1. IInv => AffinityKept
  BY DEF IInv
<1> QED
  BY <1>1, Invariant, PTL

(* The assertions of schedule() about the vcpu that stops and the one that *)
(* starts hold.                                                            *)
THEOREM AssertsCorrect == Spec => []SwitchAsserts
<1>1. IInv => SwitchAsserts
  <2> SUFFICES ASSUME TPlace, TQueue, TArch, Core, NEW c \in Cpus, loc[c].pc = "switch"
               PROVE  /\ current[c] # Idle => runstate[current[c]] = "running" /\ current[c] \in is_running
                      /\ curr[c] # Idle => runstate[curr[c]] # "running" /\ curr[c] \notin is_running
    BY Groups DEF IInv, Good, SwitchAsserts, Is
  <2>1. /\ curr[c] # current[c] /\ (curr[c] # Idle => processor[curr[c]] = c)
        /\ current[c] # Idle => processor[current[c]] = c
    BY DEF Core, Placed, Turning
  <2>2. curr[c] \in Vcpus \cup {Idle} /\ current[c] \in Vcpus \cup {Idle}
    BY DEF TQueue, TArch
  <2>3. \A v \in Vcpus : processor[v] = c =>
          (v \in is_running <=> v = current[c]) /\ (runstate[v] = "running" <=> v = current[c])
    BY DEF Core, Runs, Accounted, OnCpu, Charged
  <2> QED
    BY <2>1, <2>2, <2>3
<1> QED
  BY <1>1, Invariant, PTL

(* A vcpu is on one CPU at a time, and its registers are on that CPU only  *)
(* when it runs, with the lazy switch to the idle vcpu and the flush that  *)
(* makes another CPU save them.                                            *)
THEOREM OneCpuCorrect == Spec => []OneCpu
<1>1. IInv => OneCpu
  <2> SUFFICES ASSUME TPlace, TQueue, TArch, Core, NEW v \in Vcpus
               PROVE  /\ Cardinality({c \in Cpus : v \in {curr[c], current[c]}}) <= 1
                      /\ vcpu_dirty_cpumask[v] = {c \in Cpus : curr_vcpu[c] = v}
                      /\ \A c \in Cpus :
                           /\ loc[c].pc = "enter" /\ curr[c] = v => vcpu_dirty_cpumask[v] \subseteq {c}
                           /\ current[c] = v => vcpu_dirty_cpumask[v] = {c}
    BY Groups DEF IInv, Good, OneCpu, Is
  <2>1. v # Idle
    BY SchedAssumption
  <2>2. Cardinality({c \in Cpus : v \in {curr[c], current[c]}}) <= 1
    <3> DEFINE S == {c \in Cpus : v \in {curr[c], current[c]}}
    <3>1. S \subseteq {processor[v]}
      BY <2>1, SMT DEF Core, Placed
    <3>2. IsFiniteSet({processor[v]}) /\ Cardinality({processor[v]}) = 1
      BY FS_Singleton
    <3>3. IsFiniteSet(S) /\ Cardinality(S) <= Cardinality({processor[v]})
      BY <3>1, <3>2, FS_Subset
    <3> QED
      BY <3>2, <3>3
  <2>3. vcpu_dirty_cpumask[v] = Loaded(v)
    BY DEF Core, Registers
  <2>4. \A c \in Cpus : current[c] = v => Loaded(v) = {c}
    BY <2>1, SMT DEF Core, Registers, Loaded
  <2>5. \A c \in Cpus : loc[c].pc = "enter" /\ curr[c] = v => Loaded(v) \subseteq {c}
    BY <2>1 DEF Core, Registers
  <2> QED
    BY <2>2, <2>3, <2>4, <2>5 DEF Loaded
<1> QED
  BY <1>1, Invariant, PTL

(* When vcpu_pause() has returned, and until vcpu_unpause(), the vcpu does *)
(* not run, is on no run queue, and its registers are in memory.           *)
THEOREM HeldCorrect == Spec => []HeldIsSaved
<1>1. IInv => HeldIsSaved
  <2> SUFFICES ASSUME TLoc, Carries, Core, NEW a \in Agents, loc[a].pc = "held"
               PROVE  /\ loc[a].v \notin is_running /\ ~Queued(loc[a].v)
                      /\ vcpu_dirty_cpumask[loc[a].v] = {}
    BY Groups DEF IInv, Good, HeldIsSaved, Is
  <2>1. loc[a].v \in Vcpus
    BY StopsOn DEF Stopping
  <2>2. Off(a) /\ vcpu_dirty_cpumask[loc[a].v] = Loaded(loc[a].v)
    BY <2>1 DEF Core, AllOff, Registers
  <2> QED
    BY <2>2 DEF Off
<1> QED
  BY <1>1, Invariant, PTL

(* A pausing thread that waits for a vcpu to stop (vcpu_sleep_sync()) does *)
(* so for a CPU that has been told to schedule, or is about to.            *)
THEOREM AwaitedCorrect == Spec => []AwaitedStops
<1>1. IInv => AwaitedStops
  <2> SUFFICES ASSUME TPlace, Core, SpinTold, NEW a \in Agents, loc[a].pc = "spin", loc[a].v \in Vcpus,
                      loc[a].v \in is_running
               PROVE  \E c \in Cpus : /\ loc[a].v \in {curr[c], current[c], loc[c].v}
                                      /\ c \in softirq \/ loc[c].pc # "run"
    <3>1. IInv => TPlace /\ TRest /\ (moved \/ (Core /\ SpinTold))
      BY Groups DEF IInv, Good, Pending
    <3> QED
      BY <3>1 DEF AwaitedStops, Is, TRest
  <2>1. PICK c \in Cpus : c = processor[loc[a].v]
    BY DEF TPlace
  <2>2. OnCpu(loc[a].v, c)
    BY <2>1 DEF Core, Runs
  <2>3. curr[c] = loc[a].v => Told(c)
    BY DEF SpinTold
  <2>4. current[c] = loc[a].v /\ curr[c] # loc[a].v => loc[c].pc \in Turning
    BY DEF Core, Placed
  <2> QED
    BY <2>2, <2>3, <2>4 DEF OnCpu, Told, Turning
<1> QED
  BY <1>1, Invariant, PTL

(* vcpu_wake(), vcpu_unblock() and vcpu_migrate() lose no vcpu: one that   *)
(* may run is chosen or queued, or a thread has yet to wake it.            *)
THEOREM NotLostCorrect == Spec => []NoVcpuLost
<1>1. IInv => NoVcpuLost
  BY DEF IInv, Pending, NotLost, NoVcpuLost, Has, Wakes
<1> QED
  BY <1>1, Invariant, PTL

(* __runq_tickle() and csched_schedule(): no CPU idles over its run queue  *)
(* without a SCHEDULE_SOFTIRQ.                                             *)
THEOREM NoticedCorrect == Spec => []NoWorkUnnoticed
<1>1. IInv => NoWorkUnnoticed
  BY DEF IInv, Noted, Noticed, Told, NoWorkUnnoticed
<1> QED
  BY <1>1, Invariant, PTL

(* A vcpu marked _VPF_migrating is running, or a thread is on its way to   *)
(* vcpu_migrate().                                                         *)
THEOREM MoverCorrect == Spec => []MoverAtWork
<1>1. IInv => MoverAtWork
  BY DEF IInv, Pending, AtWork, Moves, MoverAtWork
<1> QED
  BY <1>1, Invariant, PTL

(* urgent_count of a CPU is the number of its urgent vcpus, through        *)
(* vcpu_urgent_count_update(), vcpu_migrate() and stealing.                *)
THEOREM UrgentCorrect == Spec => []UrgentCounted
<1>1. IInv => UrgentCounted
  BY DEF IInv, Tallied, UrgentOn, UrgentCounted
<1> QED
  BY <1>1, Invariant, PTL

(* do_block() and do_poll() do not miss an event that is marked pending    *)
(* while they look.                                                        *)
THEOREM EventCorrect == Spec => []EventSeen
<1>1. IInv => EventSeen
  <2>1. Seen => EventSeen
    <3> SUFFICES ASSUME Seen, NEW v \in upcall, "blocked" \in pause_flags[v]
                 PROVE  \/ \E c \in Cpus : loc[c].v = v /\ loc[c].pc \in Looking
                        \/ \E t \in Threads : loc[t].v = v /\ loc[t].pc = "unblock"
      BY DEF EventSeen, Looking
    <3> QED
      BY DEF Seen, Looks
  <2> QED
    BY <2>1 DEF IInv, Noted
<1> QED
  BY <1>1, Invariant, PTL

(* do_poll() does not miss the port it polls, though evtchn_set_pending()  *)
(* finds it by poll_mask only.                                             *)
THEOREM PollCorrect == Spec => []PollSeen
<1>1. IInv => PollSeen
  <2>1. PortSeen => PollSeen
    <3> SUFFICES ASSUME PortSeen, NEW v \in port \cap polls, "blocked" \in pause_flags[v]
                 PROVE  \/ \E c \in Cpus : loc[c].v = v /\ loc[c].pc \in Polling1
                        \/ \E t \in Threads : /\ loc[t].v = v
                                             /\ loc[t].pc \in {"pollers", "polled", "unblock", "reclear"}
      BY DEF PollSeen, Polling1
    <3> QED
      BY DEF PortSeen, Polls
  <2> QED
    BY <2>1 DEF IInv, Noted
<1> QED
  BY <1>1, Invariant, PTL

=============================================================================
