----------------------- MODULE DependencyWaiterProofs -----------------------
(***************************************************************************)
(* What holds of DependencyWaiter for every set of items, every timeout    *)
(* and every number of retries: its types, that the graph has no cycle and *)
(* that no wake-up is lost, always; that dependencies come first, and that *)
(* it implements DependencyOrder, when every item has at most one direct   *)
(* dependency (SingleDependency), as the images of sat bootprep do.  With  *)
(* more than one, TLC shows dependencies need not come first.              *)
(***************************************************************************)
EXTENDS DependencyWaiter, TLAPS

(* The attributes and locals of the waiter keep their types.               *)
THEOREM TypeCorrect == Spec => []TypeOK
<1> USE DependencyWaiterAssumption
<1>1. Init => TypeOK
  <2>1. Init => completed \in BOOLEAN
    BY DEF Init
  <2>2. Init => condition \in [Members -> Conditions] /\ deps \in [Members -> SUBSET Members]
    BY DEF Init, Conditions
  <2>3. QED
    BY <2>1, <2>2 DEF Init, TypeOK
<1>2. TypeOK /\ [Next]_vars => TypeOK'
  <2> SUFFICES ASSUME TypeOK, [Next]_vars PROVE TypeOK'
    OBVIOUS
  <2> USE DEF TypeOK
  <2>1. ASSUME NEW m \in Members, NEW d \in Members, AddDependency(m, d)
        PROVE  TypeOK'
    BY <2>1 DEF AddDependency, waiter
  <2>2. CASE NewWaiter
    BY <2>2 DEF NewWaiter, RootMembers
  <2>3. ASSUME NEW m \in Members, BeginRoot(m) PROVE TypeOK'
    BY <2>3 DEF BeginRoot, BeginMember
  <2>4. ASSUME NEW m \in Members, CheckMember(m) PROVE TypeOK'
    BY <2>4 DEF CheckMember
  <2>5. ASSUME NEW m \in Members, NextCompleted(m) PROVE TypeOK'
    BY <2>5 DEF NextCompleted, Dependents
  <2>6. ASSUME NEW m \in Members, WakeDependent(m) PROVE TypeOK'
    BY <2>6 DEF WakeDependent, BeginMember
  <2>7. CASE StartPolling
    BY <2>7 DEF StartPolling
  <2>8. CASE BeginRound
    BY <2>8 DEF BeginRound
  <2>9. CASE ChecksDone
    BY <2>9 DEF ChecksDone, StillPending
  <2>10. CASE Sleep
    BY <2>10 DEF Sleep
  <2>11. CASE Retry
    BY <2>11 DEF Retry, MayRetry, RetriesLeft
  <2>12. CASE Return
    BY <2>12 DEF Return
  <2>13. ASSUME NEW m \in Members, ConditionChanges(m) PROVE TypeOK'
    BY <2>13 DEF ConditionChanges, waiter
  <2>14. CASE UNCHANGED vars
    BY <2>14 DEF vars
  <2>15. QED
    BY <2>1, <2>2, <2>3, <2>4, <2>5, <2>6, <2>7, <2>8, <2>9, <2>10, <2>11,
       <2>12, <2>13, <2>14 DEF Next, Waiting
<1>3. QED
  BY <1>1, <1>2, PTL DEF Spec

-----------------------------------------------------------------------------
(***************************************************************************)
(* The invariant.  A member is touched once the waiter has put it into one *)
(* of its sets.  The heart is DepsOfTouched: a member is touched only when *)
(* its dependencies are done.  It is kept because the dependents of a      *)
(* member that completes in the current round are still untouched, and     *)
(* each of them waits for that member alone.                               *)
(***************************************************************************)
Touched == begun \cup pending \cup failed

AtMostOne == \A m \in Members : \A x, y \in deps[m] : x = y

NothingYet ==
  pc = "link" => Touched = {} /\ done = {} /\ seen = {} /\ toWake = {} /\ waking = {}

DepsOfTouched == \A m \in Touched : deps[m] \subseteq done

DoneRan ==
  /\ done \subseteq begun
  /\ done \cap failed = {}
  /\ \A m \in Members : condition[m] = "met" => m \in begun

InCheck ==
  pc = "check" =>
    /\ toCheck \subseteq pending
    /\ toCheck \cap done = {}
    /\ toCheck \cap failed \cap begun = {}
    /\ pending \cap done \subseteq seen
    /\ seen \subseteq done
    /\ pending \subseteq begun \cup failed
    /\ \A c \in seen : Dependents(c) \cap Touched = {}

OutsideCheck ==
  pc \in {"pre_wait", "loop", "wake"} =>
    /\ pending \cap done = {}
    /\ pending \cap failed \cap begun = {}
    /\ pc # "pre_wait" => pending \subseteq begun \cup failed

InWake ==
  /\ pc = "wake" =>
       /\ toWake \subseteq done
       /\ \A c \in toWake : Dependents(c) \cap Touched = {}
       /\ \A d \in waking : d \notin Touched /\ deps[d] \subseteq done
       /\ \A d \in waking : deps[d] \cap toWake = {}
  /\ pc # "wake" => waking = {}

Inv ==
  /\ AtMostOne
  /\ NothingYet
  /\ DepsOfTouched
  /\ DoneRan
  /\ InCheck
  /\ OutsideCheck
  /\ InWake

LEMMA InvInit == Init => Inv
  BY DEF Init, Inv, AtMostOne, NothingYet, DepsOfTouched, DoneRan, InCheck,
         OutsideCheck, InWake, Touched

LEMMA InvStep ==
  ASSUME SingleDependency, TypeOK, Inv, [Next]_vars
  PROVE  Inv'
<1> USE DEF TypeOK, Inv, AtMostOne, NothingYet, DepsOfTouched, DoneRan,
            InCheck, OutsideCheck, InWake, Touched, Dependents
<1>1. ASSUME NEW m \in Members, NEW d \in Members, AddDependency(m, d)
      PROVE  Inv'
  BY <1>1 DEF AddDependency, waiter
<1>2. CASE NewWaiter
  BY <1>2 DEF NewWaiter, RootMembers
<1>3. ASSUME NEW m \in Members, BeginRoot(m) PROVE Inv'
  BY <1>3 DEF BeginRoot, BeginMember
<1>4. ASSUME NEW m \in Members, CheckMember(m) PROVE Inv'
  BY <1>4 DEF CheckMember
<1>5. ASSUME NEW m \in Members, NextCompleted(m) PROVE Inv'
  BY <1>5 DEF NextCompleted
<1>6. ASSUME NEW m \in Members, WakeDependent(m) PROVE Inv'
  BY <1>6 DEF WakeDependent, BeginMember
<1>7. CASE StartPolling
  BY <1>7 DEF StartPolling
<1>8. CASE BeginRound
  BY <1>8 DEF BeginRound
<1>9. CASE ChecksDone
  BY <1>9 DEF ChecksDone, StillPending
<1>10. CASE Sleep
  BY <1>10 DEF Sleep
<1>11. CASE Retry
  BY <1>11 DEF Retry, AttemptOver
<1>12. CASE Return
  BY <1>12 DEF Return, AttemptOver
<1>13. ASSUME NEW m \in Members, ConditionChanges(m) PROVE Inv'
  BY <1>13 DEF ConditionChanges, waiter
<1>14. CASE UNCHANGED vars
  BY <1>14 DEF vars
<1>15. QED
  BY <1>1, <1>2, <1>3, <1>4, <1>5, <1>6, <1>7, <1>8, <1>9, <1>10, <1>11,
     <1>12, <1>13, <1>14 DEF Next, Waiting

LEMMA InvCorrect == SingleDependency /\ Spec => []Inv
<1>1. SingleDependency /\ TypeOK /\ Inv /\ [Next]_vars => Inv'
  BY InvStep
<1>2. CASE SingleDependency
  BY <1>1, <1>2, InvInit, TypeCorrect, PTL DEF Spec
<1>3. QED
  BY <1>2

-----------------------------------------------------------------------------
(* A set that holds the direct dependencies of an item and is closed under *)
(* dependencies holds all its dependencies.                                *)
LEMMA FullDependenciesLeast ==
  ASSUME NEW m \in Members, NEW S \in SUBSET Members,
         deps[m] \subseteq S, \A y \in S : deps[y] \subseteq S
  PROVE  FullDependencies(m) \subseteq S
  BY DEF FullDependencies

(* All dependencies of an item hold its direct ones and are closed under   *)
(* dependencies.                                                           *)
LEMMA FullDependenciesClosed ==
  ASSUME TypeOK, NEW m \in Members
  PROVE  /\ deps[m] \subseteq FullDependencies(m)
         /\ \A y \in FullDependencies(m) : deps[y] \subseteq FullDependencies(m)
  BY DEF FullDependencies, TypeOK

LEMMA FullDependenciesTransitive ==
  ASSUME TypeOK, NEW m \in Members, NEW y \in FullDependencies(m)
  PROVE  y \in Members /\ FullDependencies(y) \subseteq FullDependencies(m)
<1>1. y \in Members /\ FullDependencies(m) \in SUBSET Members
  BY DEF FullDependencies
<1> QED
  BY <1>1, FullDependenciesClosed, FullDependenciesLeast

(* Every dependency of an item is a direct dependency of the item or of    *)
(* one of its dependencies.                                                *)
LEMMA DependencyHasDependent ==
  ASSUME TypeOK, NEW m \in Members, NEW x \in FullDependencies(m)
  PROVE  \E y \in Dependents(x) : y = m \/ y \in FullDependencies(m)
<1> SUFFICES ASSUME \A y \in Dependents(x) : y # m /\ y \notin FullDependencies(m)
             PROVE  FALSE
  OBVIOUS
<1> DEFINE S == FullDependencies(m) \ {x}
<1>1. S \in SUBSET Members
  BY DEF FullDependencies
<1>2. x \notin deps[m] /\ \A y \in S : x \notin deps[y]
  BY <1>1 DEF Dependents
<1>3. deps[m] \subseteq S /\ \A y \in S : deps[y] \subseteq S
  BY <1>2, FullDependenciesClosed
<1>4. FullDependencies(m) \subseteq S
  <2> HIDE DEF S
  <2> QED
    BY <1>1, <1>3, FullDependenciesLeast
<1> QED
  BY <1>4

(* With a new link an item keeps its dependencies, and gains none it did   *)
(* not get from that link.                                                 *)
LEMMA LinkAdded ==
  ASSUME TypeOK, NEW m \in Members, NEW d \in Members, AddDependency(m, d), TypeOK'
  PROVE  /\ m # d /\ m \notin FullDependencies(d)
         /\ \A x \in Members : FullDependencies(x) \subseteq FullDependencies(x)'
         /\ d \in FullDependencies(m)'
<1>1. m # d /\ m \notin FullDependencies(d)
  BY DEF AddDependency, ClosesCycle, DependsOn
<1>2. \A x \in Members : deps[x] \subseteq deps'[x]
  BY DEF AddDependency, TypeOK
<1>3. ASSUME NEW x \in Members PROVE FullDependencies(x) \subseteq FullDependencies(x)'
  BY <1>2 DEF FullDependencies
<1>4. d \in deps'[m]
  BY DEF AddDependency, TypeOK
<1>5. d \in FullDependencies(m)'
  BY <1>4 DEF FullDependencies
<1> QED
  BY <1>1, <1>3, <1>5

(* The dependency graph never has a cycle.  The dependencies an item may   *)
(* gain by a link from m to d are d and those of d, and m is not among     *)
(* them.                                                                   *)
THEOREM NeverCyclic == Spec => []Acyclic
<1>1. Init => Acyclic
  <2> SUFFICES ASSUME Init, NEW m \in Members PROVE m \notin FullDependencies(m)
    BY DEF Acyclic
  <2>1. deps[m] = {} /\ {} \in SUBSET Members
    BY DEF Init
  <2> QED
    BY <2>1, FullDependenciesLeast
<1>2. TypeOK /\ TypeOK' /\ Acyclic /\ [Next]_vars => Acyclic'
  <2> SUFFICES ASSUME TypeOK, TypeOK', Acyclic, [Next]_vars PROVE Acyclic'
    OBVIOUS
  <2>1. ASSUME NEW m \in Members, NEW d \in Members, AddDependency(m, d),
               NEW x \in Members
        PROVE  x \notin FullDependencies(x)'
    <3> DEFINE Gained == {d} \cup FullDependencies(d)
               S == IF m = x \/ m \in FullDependencies(x)
                    THEN FullDependencies(x) \cup Gained ELSE FullDependencies(x)
    <3>1. m \notin Gained /\ Gained \in SUBSET Members
      BY <2>1, LinkAdded DEF FullDependencies
    <3>2. \A y \in Gained : deps[y] \subseteq Gained
      BY FullDependenciesClosed
    <3>3. S \in SUBSET Members
      BY <3>1 DEF FullDependencies
    <3>4. \A y \in Members \ {m} : deps'[y] = deps[y]
      BY <2>1 DEF AddDependency, TypeOK
    <3>5. deps'[m] = deps[m] \cup {d}
      BY <2>1 DEF AddDependency, TypeOK
    <3>6. deps[x] \subseteq FullDependencies(x)
          /\ \A y \in FullDependencies(x) : deps[y] \subseteq FullDependencies(x)
      BY FullDependenciesClosed
    <3>7. deps'[x] \subseteq S
      BY <3>4, <3>5, <3>6
    <3>8. \A y \in S : deps'[y] \subseteq S
      BY <3>1, <3>2, <3>3, <3>4, <3>5, <3>6
    <3>9. x \notin S
      <4>1. x \notin FullDependencies(x)
        BY DEF Acyclic
      <4>2. ASSUME m \in FullDependencies(x), x \in Gained PROVE FALSE
        <5>1. deps[x] \subseteq Gained
          BY <3>2, <4>2
        <5>2. FullDependencies(x) \subseteq Gained
          <6> HIDE DEF Gained
          <6> QED
            BY <3>1, <3>2, <5>1, FullDependenciesLeast
        <5> QED
          BY <3>1, <4>2, <5>2
      <4> QED
        BY <3>1, <4>1, <4>2
    <3> HIDE DEF S
    <3> QED
      BY <3>3, <3>7, <3>8, <3>9 DEF FullDependencies
  <2>2. ASSUME UNCHANGED deps PROVE Acyclic'
    BY <2>2 DEF Acyclic, FullDependencies
  <2>3. CASE NewWaiter \/ StartPolling \/ BeginRound \/ ChecksDone \/ Sleep \/ Retry
             \/ Return \/ UNCHANGED vars
    BY <2>2, <2>3 DEF NewWaiter, StartPolling, BeginRound, ChecksDone, Sleep, Retry, Return, vars
  <2>4. ASSUME NEW m \in Members,
               BeginRoot(m) \/ CheckMember(m) \/ NextCompleted(m) \/ WakeDependent(m)
                 \/ ConditionChanges(m)
        PROVE  Acyclic'
    BY <2>2, <2>4 DEF BeginRoot, CheckMember, NextCompleted, WakeDependent, ConditionChanges
  <2> QED
    BY <2>1, <2>3, <2>4 DEF Next, Waiting, Acyclic
<1> QED
  BY <1>1, <1>2, TypeCorrect, PTL DEF Spec

-----------------------------------------------------------------------------
(***************************************************************************)
(* No wake-up is lost.  Every item that depends on others depends on one   *)
(* that does not (RootsReached), so at first some dependency is pending.   *)
(* From then on an item nothing was done about has a dependency that is    *)
(* pending or failed, or one that completed in this round whose dependents *)
(* are still to be looked at, or a dependency (or itself) among those.     *)
(***************************************************************************)
RootsReached ==
  \A m \in Members : deps[m] = {} \/ \E z \in FullDependencies(m) : deps[z] = {}

Remembered(m) ==
  \/ m \in Touched \cup done
  \/ \E z \in FullDependencies(m) : z \in pending \cup failed \cup toWake
  \/ \E y \in waking : y = m \/ y \in FullDependencies(m)

WakeInv ==
  /\ RootsReached
  /\ pc # "link" => \A m \in Members : Remembered(m)
  /\ pc = "link" => begun = {}
  /\ begun \subseteq done \cup failed \cup pending
  /\ seen \subseteq done
  /\ pc # "wake" => toWake = {} /\ waking = {}
  /\ completed => pc = "done" /\ pending = {}

LEMMA RootsReachedStep ==
  ASSUME TypeOK, TypeOK', RootsReached, NEW m \in Members, NEW d \in Members,
         AddDependency(m, d)
  PROVE  RootsReached'
<1>1. \A y \in Members \ {m} : deps'[y] = deps[y]
  BY DEF AddDependency, TypeOK
<1>2. PICK z \in Members : (z = d \/ z \in FullDependencies(d)) /\ deps[z] = {}
  BY DEF RootsReached, FullDependencies
<1>3. z # m /\ deps'[z] = {}
  BY <1>1, <1>2, LinkAdded
<1>4. z \in FullDependencies(m)'
  <2>1. d \in FullDependencies(m)' /\ FullDependencies(d) \subseteq FullDependencies(d)'
    BY LinkAdded
  <2>2. FullDependencies(d)' \subseteq FullDependencies(m)'
    BY <2>1 DEF FullDependencies, TypeOK
  <2> QED
    BY <1>2, <2>1, <2>2
<1>5. ASSUME NEW x \in Members, deps'[x] # {}
      PROVE  \E y \in FullDependencies(x)' : deps'[y] = {}
  <2>1. CASE x = m
    BY <1>3, <1>4, <2>1
  <2>2. CASE x # m
    <3>1. PICK y \in FullDependencies(x) : deps[y] = {}
      BY <1>1, <1>5, <2>2 DEF RootsReached
    <3>2. y \in FullDependencies(x)' /\ y \in Members
      BY <3>1, LinkAdded DEF FullDependencies
    <3>3. CASE y # m
      BY <1>1, <3>1, <3>2, <3>3
    <3>4. CASE y = m
      <4>1. FullDependencies(m)' \subseteq FullDependencies(x)'
        BY <3>2, <3>4 DEF FullDependencies, TypeOK
      <4> QED
        BY <1>3, <1>4, <4>1
    <3> QED
      BY <3>3, <3>4
  <2> QED
    BY <2>1, <2>2
<1> QED
  BY <1>5 DEF RootsReached

LEMMA RememberedKept ==
  ASSUME TypeOK, WakeInv, pc # "link", UNCHANGED deps, [Waiting]_vars, NEW x \in Members
  PROVE  Remembered(x)'
<1>1. FullDependencies(x)' = FullDependencies(x)
  BY DEF FullDependencies
<1>2. Remembered(x)
  BY DEF WakeInv
<1> USE <1>1, <1>2 DEF Remembered, Touched
<1>3. ASSUME NEW m \in Members, BeginRoot(m) PROVE Remembered(x)'
  BY <1>3 DEF BeginRoot, BeginMember
<1>4. ASSUME NEW m \in Members, CheckMember(m) PROVE Remembered(x)'
  BY <1>4 DEF CheckMember
<1>5. ASSUME NEW m \in Members, NextCompleted(m) PROVE Remembered(x)'
  <2>1. CASE m \in FullDependencies(x)
    <3>1. \E y \in Dependents(m) : y = x \/ y \in FullDependencies(x)
      BY <2>1, DependencyHasDependent
    <3> QED
      BY <1>5, <3>1 DEF NextCompleted
  <2>2. CASE m \notin FullDependencies(x)
    BY <1>5, <2>2 DEF NextCompleted
  <2> QED
    BY <2>1, <2>2
<1>6. ASSUME NEW m \in Members, WakeDependent(m) PROVE Remembered(x)'
  <2>1. UNCHANGED <<toWake, done>> /\ pending \subseteq pending' /\ failed \subseteq failed'
        /\ begun \subseteq begun' /\ waking' = waking \ {m}
    BY <1>6 DEF WakeDependent, BeginMember
  <2>2. CASE m = x \/ m \in FullDependencies(x)
    <3>1. CASE Unblocked(m)
      BY <1>6, <2>2, <3>1 DEF WakeDependent
    <3>2. CASE ~ Unblocked(m)
      <4>1. PICK z \in FullDependencies(m) : z \in pending \cup failed
        BY <3>2 DEF Unblocked
      <4>2. z \in FullDependencies(x)
        BY <2>2, <4>1, FullDependenciesTransitive
      <4> QED
        BY <2>1, <4>1, <4>2
    <3> QED
      BY <3>1, <3>2
  <2>3. CASE ~ (m = x \/ m \in FullDependencies(x))
    BY <2>1, <2>3
  <2> QED
    BY <2>2, <2>3
<1>7. CASE StartPolling
  BY <1>7 DEF StartPolling
<1>8. CASE ChecksDone
  BY <1>8 DEF ChecksDone, StillPending, WakeInv
<1>9. CASE BeginRound \/ Retry \/ Return \/ UNCHANGED vars
  BY <1>9 DEF BeginRound, Retry, Return, vars
<1>10. CASE Sleep
  BY <1>10 DEF Sleep
<1> QED
  BY <1>3, <1>4, <1>5, <1>6, <1>7, <1>8, <1>9, <1>10 DEF Waiting

LEMMA WakeInvStep ==
  ASSUME TypeOK, TypeOK', WakeInv, [Next]_vars
  PROVE  WakeInv'
<1>1. ASSUME NEW m \in Members, NEW d \in Members, AddDependency(m, d)
      PROVE  WakeInv'
  <2>1. pc = "link" /\ UNCHANGED <<pc, pending, failed, begun, seen, toWake, waking, completed, done>>
    BY <1>1 DEF AddDependency, waiter
  <2>2. RootsReached'
    BY <1>1, RootsReachedStep DEF WakeInv
  <2> QED
    BY <2>1, <2>2 DEF WakeInv
<1>2. ASSUME UNCHANGED deps PROVE RootsReached'
  BY <1>2 DEF WakeInv, RootsReached, FullDependencies
<1>3. CASE NewWaiter
  <2>1. UNCHANGED <<deps, failed, begun, seen, toWake, waking, completed, done>>
        /\ pc = "link" /\ pc' = "pre_wait" /\ pending' = RootMembers
    BY <1>3 DEF NewWaiter
  <2>2. ASSUME NEW m \in Members PROVE Remembered(m)'
    <3>1. FullDependencies(m)' = FullDependencies(m) /\ FullDependencies(m) \subseteq Members
      BY <2>1 DEF FullDependencies
    <3> QED
      BY <2>1, <3>1 DEF WakeInv, RootsReached, RootMembers, Remembered, Touched
  <2> QED
    BY <1>2, <2>1, <2>2 DEF WakeInv
<1>4. CASE Waiting \/ UNCHANGED vars
  <2> DEFINE Others ==
        /\ begun' \subseteq done' \cup failed' \cup pending'
        /\ seen' \subseteq done'
        /\ pc' # "wake" => toWake' = {} /\ waking' = {}
        /\ completed' => pc' = "done" /\ pending' = {}
        /\ pc = "link" => UNCHANGED begun
        /\ pc' = "link" <=> pc = "link"
        /\ UNCHANGED deps
  <2> USE DEF WakeInv
  <2>1. ASSUME NEW m \in Members, BeginRoot(m) PROVE Others
    BY <2>1 DEF BeginRoot, BeginMember
  <2>2. ASSUME NEW m \in Members, CheckMember(m) PROVE Others
    BY <2>2 DEF CheckMember
  <2>3. ASSUME NEW m \in Members, NextCompleted(m) PROVE Others
    BY <2>3 DEF NextCompleted
  <2>4. ASSUME NEW m \in Members, WakeDependent(m) PROVE Others
    BY <2>4 DEF WakeDependent, BeginMember
  <2>5. ASSUME StartPolling PROVE Others
    BY <2>5 DEF StartPolling
  <2>6. ASSUME ChecksDone PROVE Others
    BY <2>6 DEF ChecksDone, StillPending
  <2>7. ASSUME BeginRound \/ Sleep \/ Retry PROVE Others
    BY <2>7 DEF BeginRound, Sleep, Retry, AttemptOver
  <2>8. ASSUME Return PROVE Others
    BY <2>8 DEF Return, AttemptOver
  <2>9. ASSUME UNCHANGED vars PROVE Others
    BY <2>9 DEF vars
  <2>10. Others
    BY <1>4, <2>1, <2>2, <2>3, <2>4, <2>5, <2>6, <2>7, <2>8, <2>9 DEF Waiting
  <2>11. ASSUME pc' # "link", NEW m \in Members PROVE Remembered(m)'
    BY <1>4, <2>10, <2>11, RememberedKept
  <2> QED
    BY <1>2, <2>10, <2>11
<1>5. ASSUME NEW m \in Members, ConditionChanges(m) PROVE WakeInv'
  <2>1. UNCHANGED <<deps, pc, pending, failed, begun, seen, toWake, waking, completed, done>>
    BY <1>5 DEF ConditionChanges, waiter
  <2>2. ASSUME NEW x \in Members PROVE Remembered(x)' <=> Remembered(x)
    BY <2>1 DEF Remembered, Touched, FullDependencies
  <2> QED
    BY <1>2, <2>1, <2>2 DEF WakeInv
<1> QED
  BY <1>1, <1>3, <1>4, <1>5 DEF Next

(* No wake-up is lost, for any number of dependencies of an item: when the *)
(* waiter returns with nothing pending, an item that neither completed nor *)
(* failed depends on one that failed.                                      *)
THEOREM NoWakeupLost == Spec => []NoLostWakeup
<1>1. Init => WakeInv
  BY DEF Init, WakeInv, RootsReached
<1>2. TypeOK /\ WakeInv => NoLostWakeup
  <2> SUFFICES ASSUME TypeOK, WakeInv, pc = "done", completed,
                      NEW m \in Members \ (done \cup failed)
               PROVE  FullDependencies(m) \cap failed # {}
    BY DEF NoLostWakeup
  <2>1. pending = {} /\ toWake = {} /\ waking = {} /\ m \notin Touched \cup done
    BY DEF WakeInv, Touched
  <2>2. Remembered(m)
    BY DEF WakeInv
  <2> QED
    BY <2>1, <2>2 DEF Remembered
<1> QED
  BY <1>1, <1>2, WakeInvStep, TypeCorrect, PTL DEF Spec

-----------------------------------------------------------------------------
(* With single dependencies an item begins only after everything it        *)
(* depends on, directly or not, ran and completed.                         *)
THEOREM DependenciesComeFirst == SingleDependency /\ Spec => []DependenciesFirst
<1>1. TypeOK /\ Inv => DependenciesFirst
  <2> SUFFICES ASSUME TypeOK, Inv, NEW m \in begun
               PROVE  FullDependencies(m) \subseteq done
    BY DEF DependenciesFirst
  <2>1. deps[m] \subseteq done /\ \A y \in done : deps[y] \subseteq done
    BY DEF Inv, DepsOfTouched, DoneRan, Touched
  <2>2. QED
    BY <2>1, FullDependenciesLeast DEF TypeOK
<1>2. QED
  BY <1>1, InvCorrect, TypeCorrect, PTL

-----------------------------------------------------------------------------
(***************************************************************************)
(* Refinement.                                                             *)
(***************************************************************************)
status == [m \in Members |-> StatusOf(m)]

\* The status of one item may change in a step; all others keep theirs.
LEMMA StatusUpdate ==
  ASSUME NEW m \in Members, NEW s,
         StatusOf(m)' = s,
         \A x \in Members \ {m} : StatusOf(x)' = StatusOf(x)
  PROVE  status' = [status EXCEPT ![m] = s]
  BY DEF status

\* A touched item that has not begun has failed; the dependencies of a
\* touched item have the status "done".
LEMMA DependenciesDone ==
  ASSUME TypeOK, Inv, NEW m \in Members, deps[m] \subseteq done
  PROVE  \A d \in deps[m] : status[d] = "done"
  BY DEF TypeOK, Inv, DoneRan, status, StatusOf

LEMMA RefinedInit == Init => Order!Init
  BY DEF Init, Order!Init, StatusOf

LEMMA RefinedStep ==
  ASSUME TypeOK, Inv, [Next]_vars
  PROVE  [Order!Next]_<<deps, status>>
<1> USE DEF TypeOK, Inv
<1>1. ASSUME NEW m \in Members, NEW d \in Members, AddDependency(m, d)
      PROVE  Order!Depend(m, d)
  <2>1. status = [x \in Members |-> "waiting"]
    BY <1>1 DEF AddDependency, NothingYet, Touched, status, StatusOf
  <2>2. status' = status
    BY <1>1 DEF AddDependency, waiter, status, StatusOf
  <2>3. QED
    BY <1>1, <2>1, <2>2 DEF AddDependency, Order!Depend, status
<1>2. ASSUME NEW m \in Members, BeginMember(m), m \notin begun \cup failed,
             deps[m] \subseteq done, UNCHANGED <<deps, done>>
      PROVE  Order!Run(m)
  <2>1. status[m] = "waiting" /\ m \notin done
    BY <1>2 DEF DoneRan, Touched, status, StatusOf
  <2>2. StatusOf(m)' \in {"running", "failed"}
    BY <1>2, <2>1 DEF BeginMember, StatusOf, Touched
  <2>3. \A x \in Members \ {m} : StatusOf(x)' = StatusOf(x)
    BY <1>2 DEF BeginMember, StatusOf
  <2>4. status' = [status EXCEPT ![m] = StatusOf(m)']
    BY <2>3, StatusUpdate
  <2>5. \A d \in deps[m] : status[d] = "done"
    BY <1>2, DependenciesDone
  <2>6. QED
    BY <1>2, <2>1, <2>2, <2>4, <2>5 DEF Order!Run, Order!Ready, status
<1>3. ASSUME NEW m \in Members, BeginRoot(m) PROVE Order!Run(m)
  BY <1>2, <1>3 DEF BeginRoot, DepsOfTouched, OutsideCheck, Touched
<1>4. ASSUME NEW m \in Members, CheckMember(m)
      PROVE  Order!Finish(m) \/ UNCHANGED <<deps, status>>
  <2>1. CASE condition[m] = "met" \/ (condition[m] = "broken" /\ m \notin failed)
    <3>1. status[m] = "running"
      BY <1>4, <2>1 DEF CheckMember, InCheck, DoneRan, status, StatusOf
    <3>2. StatusOf(m)' \in {"done", "failed"}
      BY <1>4, <2>1 DEF CheckMember, InCheck, DoneRan, StatusOf
    <3>3. \A x \in Members \ {m} : StatusOf(x)' = StatusOf(x)
      BY <1>4 DEF CheckMember, StatusOf
    <3>4. status' = [status EXCEPT ![m] = StatusOf(m)']
      BY <3>3, StatusUpdate
    <3>5. QED
      BY <1>4, <3>1, <3>2, <3>4 DEF CheckMember, Order!Finish, status
  <2>2. CASE condition[m] = "unmet" \/ (condition[m] = "broken" /\ m \in failed)
    <3>1. UNCHANGED <<begun, failed, done>>
      BY <1>4, <2>2 DEF CheckMember
    <3>2. QED
      BY <1>4, <3>1 DEF CheckMember, status, StatusOf
  <2>3. QED
    BY <2>1, <2>2 DEF Conditions
<1>5. ASSUME NEW m \in Members, WakeDependent(m)
      PROVE  Order!Run(m) \/ UNCHANGED <<deps, status>>
  <2>1. CASE Unblocked(m)
    BY <1>2, <1>5, <2>1 DEF WakeDependent, InWake, Touched
  <2>2. CASE ~ Unblocked(m)
    BY <1>5, <2>2 DEF WakeDependent, status, StatusOf
  <2>3. QED
    BY <2>1, <2>2
<1>6. ASSUME UNCHANGED <<deps, begun, failed, done>>
      PROVE  UNCHANGED <<deps, status>>
  BY <1>6 DEF status, StatusOf
<1>7. CASE NewWaiter \/ StartPolling \/ BeginRound \/ ChecksDone \/ Sleep \/ Retry \/ Return
  BY <1>6, <1>7 DEF NewWaiter, StartPolling, BeginRound, ChecksDone, Sleep, Retry, Return
<1>8. ASSUME NEW m \in Members, NextCompleted(m) \/ ConditionChanges(m)
      PROVE  UNCHANGED <<deps, status>>
  BY <1>6, <1>8 DEF NextCompleted, ConditionChanges, waiter
<1>9. CASE UNCHANGED vars
  BY <1>6, <1>9 DEF vars
<1>10. QED
  BY <1>1, <1>3, <1>4, <1>5, <1>7, <1>8, <1>9 DEF Next, Waiting, Order!Next

(* With single dependencies the waiter implements DependencyOrder: an item *)
(* runs at most once, after its dependencies are done, and its outcome is  *)
(* final.                                                                  *)
THEOREM ImplementsDependencyOrder == SingleDependency /\ Spec => OrderSpec
<1>1. [Order!Next]_<<deps, status>> => [Order!Next]_<<deps, [m \in Members |-> StatusOf(m)]>>
  BY DEF status
<1>2. TypeOK /\ Inv /\ [Next]_vars => [Order!Next]_<<deps, [m \in Members |-> StatusOf(m)]>>
  BY <1>1, RefinedStep
<1>3. QED
  BY <1>2, RefinedInit, InvCorrect, TypeCorrect, PTL DEF Spec, OrderSpec, Order!Spec
=============================================================================
