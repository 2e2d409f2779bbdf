--------------------------- MODULE LifecycleProofs ---------------------------
(***************************************************************************)
(* Theorems about Notify and Lifecycle, for any alerts and any numbers of  *)
(* them: the queue holds the most important of the alerts raised, and      *)
(* every step of the notifier is one of AlertQueue or leaves it alone; the *)
(* order of the shutdown, the wakes of the worker and the result of main.  *)
(***************************************************************************)
EXTENDS Lifecycle, SetFacts, FiniteSetTheorems, TLAPS

-----------------------------------------------------------------------------
(* The notifier.                                                           *)

\* No two of the alerts raised since the queue was taken arrived together.
OfferedInv ==
  /\ arrivals \in 0 .. MaxAlerts
  /\ offered \subseteq Alert /\ IsFiniteSet(offered)
  /\ \A a \in offered : a.arrival <= arrivals
  /\ \A a, b \in offered : a.arrival = b.arrival => a = b

\* The first alerts of a set in report order, as many as a report carries.
FirstOf(T, S) ==
  /\ T \subseteq S
  /\ T = S \/ Cardinality(T) = Capacity
  /\ Cardinality(T) <= Capacity
  /\ \A a \in T, b \in S \ T : Before(a, b)

\* The queue holds those of the alerts raised, and counts the others.
QInv ==
  /\ OfferedInv
  /\ FirstOf(alertBatch, offered)
  /\ omitted = Cardinality(offered) - Cardinality(alertBatch)

-----------------------------------------------------------------------------
(* Report order.                                                           *)

LEMMA AlertFields ==
  \A a \in Alert : a.priority \in Int /\ a.target \in Int /\ a.arrival \in Int
<1> SUFFICES ASSUME NEW a \in Alert
             PROVE  a.priority \in Int /\ a.target \in Int /\ a.arrival \in Int
  OBVIOUS
<1>1. a.priority \in Priorities /\ a.target \in Targets /\ a.arrival \in 1 .. MaxAlerts
  BY DEF Alert
<1>2. a.priority \in Int /\ a.target \in Int
  BY <1>1, NotifyAssumption
<1>3. a.arrival \in Int
  BY <1>1
<1> QED BY <1>2, <1>3

LEMMA BeforeIsStrict ==
  ASSUME NEW a \in Alert, NEW b \in Alert
  PROVE  /\ ~(Before(a, b) /\ Before(b, a))
         /\ a.arrival # b.arrival => Before(a, b) \/ Before(b, a)
  BY AlertFields DEF Before

LEMMA BeforeIsTransitive ==
  ASSUME NEW a \in Alert, NEW b \in Alert, NEW c \in Alert, Before(a, b), Before(b, c)
  PROVE  Before(a, c)
  BY AlertFields DEF Before

\* Alerts that arrived one after the other have a last one in report order: the
\* one that the fewest come after.
LEMMA LastIsLast ==
  ASSUME NEW S, S \subseteq Alert, IsFiniteSet(S), S # {},
         \A a, b \in S : a.arrival = b.arrival => a = b
  PROVE  Last(S) \in S /\ \A b \in S \ {Last(S)} : Before(b, Last(S))
<1> DEFINE After(a) == {b \in S : Before(a, b)}
           Ranks == {Cardinality(After(a)) : a \in S}
<1>1. \A a \in S : IsFiniteSet(After(a)) /\ Cardinality(After(a)) \in Nat
  BY FS_Subset, FS_CardinalityType
<1>2. PICK n \in Ranks : \A m \in Ranks : n <= m
  <2> DEFINE Rank(a) == Cardinality(After(a))
  <2>1. \A a \in S : Rank(a) \in Nat
    BY <1>1
  <2>2. Ranks = {Rank(a) : a \in S}
    OBVIOUS
  <2> HIDE DEF Rank, After, Ranks
  <2>3. Ranks \subseteq Nat
    BY <2>1, <2>2
  <2>4. Ranks # {}
    BY <2>2
  <2> QED BY <2>3, <2>4, NatLeastElement
<1>3. PICK a \in S : n = Cardinality(After(a))
  BY <1>2
<1>4. ASSUME NEW b \in S \ {a} PROVE Before(b, a)
  <2>1. CASE Before(a, b)
    <3>1. After(b) \subseteq After(a)
      BY <2>1, BeforeIsTransitive
    <3>2. b \in After(a) /\ b \notin After(b)
      BY <2>1, BeforeIsStrict
    <3>3. Cardinality(After(b)) < Cardinality(After(a))
      <4> HIDE DEF After
      <4>1. Cardinality(After(b)) <= Cardinality(After(a)) /\ After(b) # After(a)
        BY <1>1, <3>1, <3>2, FS_Subset
      <4>2. Cardinality(After(b)) # Cardinality(After(a))
        BY <1>1, <3>1, <4>1, FS_Subset
      <4> QED BY <1>1, <4>1, <4>2
    <3>4. Cardinality(After(b)) \in Ranks
      OBVIOUS
    <3> HIDE DEF Ranks, After
    <3>5. n <= Cardinality(After(b)) /\ Cardinality(After(b)) \in Nat
      BY <1>1, <1>2, <3>4
    <3> QED BY <1>1, <1>3, <3>3, <3>5
  <2>2. CASE ~Before(a, b)
    <3>1. a \in Alert /\ b \in Alert /\ a.arrival # b.arrival
      OBVIOUS
    <3> QED BY <2>2, <3>1, BeforeIsStrict
  <2> QED BY <2>1, <2>2
<1>5. \E x \in S : \A b \in S \ {x} : Before(b, x)
  BY <1>4
<1> QED BY <1>5 DEF Last

-----------------------------------------------------------------------------
(* The queue.                                                              *)

LEMMA InitQueue == NotifyInit => QInv
<1> SUFFICES ASSUME NotifyInit PROVE QInv
  OBVIOUS
<1>1. IsFiniteSet({}) /\ Cardinality({}) = 0
  BY FS_EmptySet
<1>2. OfferedInv
  BY <1>1, NotifyAssumption DEF NotifyInit, OfferedInv
<1> QED BY <1>1, <1>2, NotifyAssumption DEF NotifyInit, QInv, FirstOf

\* The sizes of what was raised and of what is queued.
LEMMA Sizes ==
  ASSUME QInv
  PROVE  /\ IsFiniteSet(alertBatch)
         /\ Cardinality(offered) \in Nat /\ Cardinality(alertBatch) \in Nat
  BY FS_Subset, FS_CardinalityType DEF QInv, OfferedInv, FirstOf

\* A new alert is the last of those with its severity and target, and the
\* queue drops the last of all.
LEMMA DispatchQueue ==
  ASSUME QInv, NEW priority \in Priorities, NEW target \in Targets,
         Dispatch(priority, target)
  PROVE  QInv'
<1> DEFINE alert == [priority |-> priority, target |-> target, arrival |-> arrivals + 1]
           all == alertBatch \cup {alert}
<1>1. /\ arrivals' = arrivals + 1 /\ arrivals' \in 0 .. MaxAlerts /\ arrivals \in Nat
      /\ arrivals + 1 \in 1 .. MaxAlerts
  BY NotifyAssumption DEF QInv, OfferedInv, Dispatch
<1>2. alert \in Alert
  BY <1>1 DEF Alert
<1>3. \A a \in offered : a.arrival # alert.arrival /\ a.arrival \in Int
  BY <1>1, AlertFields DEF QInv, OfferedInv
<1>4. /\ offered' = offered \cup {alert}
      /\ IF Cardinality(all) > Capacity
         THEN alertBatch' = all \ {Last(all)} /\ omitted' = omitted + 1
         ELSE alertBatch' = all /\ omitted' = omitted
  BY DEF Dispatch, Enqueue
<1>5. alert.arrival = arrivals + 1
  OBVIOUS
<1> HIDE DEF alert
<1>6. alert \notin offered /\ alert \notin alertBatch
  BY <1>3 DEF QInv, FirstOf
<1>7. OfferedInv'
  <2>1. offered' \subseteq Alert /\ IsFiniteSet(offered')
    BY <1>2, <1>4, FS_AddElement DEF QInv, OfferedInv
  <2>2. \A a \in offered' : a.arrival <= arrivals'
    BY <1>1, <1>3, <1>4, <1>5 DEF QInv, OfferedInv
  <2>3. \A a, b \in offered' : a.arrival = b.arrival => a = b
    BY <1>3, <1>4 DEF QInv, OfferedInv
  <2> QED BY <1>1, <2>1, <2>2, <2>3 DEF OfferedInv
<1>8. /\ IsFiniteSet(all) /\ Cardinality(all) = Cardinality(alertBatch) + 1
      /\ Cardinality(offered') = Cardinality(offered) + 1
      /\ Cardinality(offered) \in Nat /\ Cardinality(alertBatch) \in Nat
      /\ Capacity \in Nat \ {0}
  BY <1>4, <1>6, Sizes, FS_AddElement, NotifyAssumption DEF QInv, OfferedInv
<1>9. CASE Cardinality(all) > Capacity
  <2>1. Last(all) \in all /\ \A b \in all \ {Last(all)} : Before(b, Last(all))
    <3>1. all \subseteq Alert /\ all # {}
      BY <1>2 DEF QInv, OfferedInv, FirstOf
    <3>2. \A a, b \in all : a.arrival = b.arrival => a = b
      BY <1>3 DEF QInv, OfferedInv, FirstOf
    <3> HIDE DEF all
    <3> QED BY <1>8, <3>1, <3>2, LastIsLast
  <2>2. alertBatch' = all \ {Last(all)} /\ omitted' = omitted + 1
    BY <1>4, <1>9
  <2>3. Cardinality(alertBatch') = Cardinality(all) - 1
    <3> HIDE DEF all
    <3> QED BY <1>8, <2>1, <2>2, FS_RemoveElement
  <2>4. Cardinality(alertBatch) = Capacity /\ Cardinality(alertBatch') = Capacity
    BY <1>8, <1>9, <2>3 DEF QInv, FirstOf
  <2>5. ASSUME NEW a \in alertBatch', NEW b \in offered' \ alertBatch'
        PROVE  Before(a, b)
    <3>1. a \in all \ {Last(all)} /\ Before(a, Last(all)) /\ a \in Alert /\ b \in Alert
      BY <1>2, <2>1, <2>2, <1>4 DEF QInv, OfferedInv, FirstOf
    <3>2. CASE b \in all
      BY <2>2, <3>1, <3>2
    <3>3. CASE b \notin all
      <4>1. b \in offered \ alertBatch
        BY <1>4, <3>3
      <4>2. CASE a \in alertBatch
        BY <4>1, <4>2 DEF QInv, FirstOf
      <4>3. CASE a \notin alertBatch
        <5>1. Last(all) \in alertBatch
          BY <2>1, <3>1, <4>3
        <5>2. Before(Last(all), b) /\ Last(all) \in Alert
          BY <4>1, <5>1 DEF QInv, OfferedInv, FirstOf
        <5> QED BY <3>1, <5>2, BeforeIsTransitive
      <4> QED BY <4>2, <4>3
    <3> QED BY <3>2, <3>3
  <2>6. FirstOf(alertBatch, offered)'
    <3>1. alertBatch' \subseteq offered'
      BY <1>4, <2>2 DEF QInv, FirstOf
    <3> QED BY <1>8, <2>4, <2>5, <3>1 DEF FirstOf
  <2> QED BY <1>7, <1>8, <2>2, <2>4, <2>6 DEF QInv
<1>10. CASE ~(Cardinality(all) > Capacity)
  <2>1. alertBatch' = all /\ omitted' = omitted
    BY <1>4, <1>10
  <2>2. alertBatch = offered
    BY <1>8, <1>10 DEF QInv, FirstOf
  <2>3. alertBatch' = offered'
    BY <1>4, <2>1, <2>2
  <2>4. Cardinality(alertBatch') <= Capacity
    BY <1>8, <1>10, <2>1
  <2>5. FirstOf(alertBatch, offered)'
    BY <2>3, <2>4 DEF FirstOf
  <2> QED BY <1>7, <1>8, <2>1, <2>2, <2>3, <2>5 DEF QInv
<1> QED BY <1>9, <1>10

LEMMA NextQueue == QInv /\ [NotifyNext]_notifyVars => QInv'
<1> SUFFICES ASSUME QInv, [NotifyNext]_notifyVars PROVE QInv'
  OBVIOUS
<1>1. CASE \E priority \in Priorities, target \in Targets : Dispatch(priority, target)
  BY <1>1, DispatchQueue
<1>2. CASE TakeBatch
  <2>1. alertBatch' = {} /\ omitted' = 0 /\ offered' = {} /\ arrivals' = arrivals
    BY <1>2 DEF TakeBatch, Detach
  <2> QED BY <2>1, FS_EmptySet, NotifyAssumption DEF QInv, OfferedInv, FirstOf
<1>3. CASE Deliver \/ StopNotifier \/ UNCHANGED notifyVars
  <2>1. UNCHANGED queueVars
    BY <1>3 DEF Deliver, Discard, FirstPost, Answer, Retry, GiveUpRetry, StopNotifier,
                notifyVars
  <2> QED BY <2>1 DEF queueVars, QInv, OfferedInv, FirstOf
<1> QED BY <1>1, <1>2, <1>3 DEF NotifyNext

\* The inductive invariant of the queue.
THEOREM QueueInvariant == NotifySpec => []QInv
<1> QED BY InitQueue, NextQueue, PTL DEF NotifySpec

-----------------------------------------------------------------------------
(* The abstract queue.                                                     *)

\* There is one set of first alerts.
LEMMA FirstIsUnique ==
  ASSUME NEW S, S \subseteq Alert, IsFiniteSet(S), NEW T, FirstOf(T, S),
         NEW U, FirstOf(U, S)
  PROVE  T \subseteq U
<1> SUFFICES ASSUME NEW a \in T, a \notin U PROVE FALSE
  OBVIOUS
<1>1. U \subseteq T
  BY BeforeIsStrict DEF FirstOf
<1>2. U # S /\ Cardinality(U) = Capacity
  BY DEF FirstOf
<1>3. /\ IsFiniteSet(T)
      /\ Cardinality(T) \in Nat /\ Cardinality(U) \in Nat
      /\ Cardinality(T) <= Capacity
  BY FS_Subset, FS_CardinalityType DEF FirstOf
<1>4. Cardinality(U) <= Cardinality(T) /\ Cardinality(U) # Cardinality(T)
  BY <1>1, <1>3, FS_Subset
<1> QED BY <1>2, <1>3, <1>4

\* The instance counts like everybody.
LEMMA SameCardinality == \A S : Queue!Cardinality(S) = Cardinality(S)
  BY DEF Queue!Cardinality, Cardinality

LEMMA QueueIsBest ==
  ASSUME QInv
  PROVE  Queue!Best(offered) = alertBatch
<1>1. \A T \in SUBSET offered :
        (/\ T = offered \/ Cardinality(T) = Capacity
         /\ Cardinality(T) <= Capacity
         /\ \A a \in T, b \in offered \ T : Before(a, b))
          <=> FirstOf(T, offered)
  BY DEF FirstOf
<1>2. FirstOf(alertBatch, offered) /\ alertBatch \in SUBSET offered
  BY DEF QInv, FirstOf
<1>3. \A T \in SUBSET offered : FirstOf(T, offered) => T = alertBatch
  BY <1>2, FirstIsUnique DEF QInv, OfferedInv
<1> HIDE DEF FirstOf
<1> QED BY <1>1, <1>2, <1>3, SameCardinality DEF Queue!Best

LEMMA NextRefines == QInv /\ [NotifyNext]_notifyVars => [Queue!Next]_(Queue!vars)
<1> SUFFICES ASSUME QInv, [NotifyNext]_notifyVars PROVE [Queue!Next]_(Queue!vars)
  OBVIOUS
<1>1. ASSUME NEW priority \in Priorities, NEW target \in Targets, Dispatch(priority, target)
      PROVE  Queue!Next
  <2> DEFINE alert == [priority |-> priority, target |-> target, arrival |-> arrivals + 1]
  <2>1. alert \in Alert
    <3>1. arrivals + 1 \in 1 .. MaxAlerts
      BY <1>1, NotifyAssumption DEF Dispatch, QInv, OfferedInv
    <3> QED BY <3>1 DEF Alert
  <2>2. offered' = offered \cup {alert} /\ reported' = reported
    BY <1>1 DEF Dispatch
  <2> QED BY <2>1, <2>2 DEF Queue!Next, Queue!Raise
<1>2. CASE TakeBatch /\ alertBatch = {}
  <2>1. offered = {}
    <3>1. Cardinality({}) = 0 /\ Capacity # 0
      BY FS_EmptySet, NotifyAssumption
    <3> QED BY <1>2, <3>1 DEF QInv, FirstOf
  <2> QED BY <1>2, <2>1 DEF TakeBatch, Queue!vars
<1>3. CASE TakeBatch /\ alertBatch # {}
  <2>1. offered # {}
    BY <1>3 DEF QInv, FirstOf
  <2>2. reported' = [items |-> alertBatch, omitted |-> omitted] /\ offered' = {}
    BY <1>3 DEF TakeBatch
  <2> QED BY <2>1, <2>2, QueueIsBest, SameCardinality DEF QInv, Queue!Next, Queue!Report
<1>4. CASE Deliver \/ StopNotifier \/ UNCHANGED notifyVars
  <2>1. UNCHANGED <<offered, reported>>
    BY <1>4 DEF Deliver, Discard, FirstPost, Answer, Retry, GiveUpRetry, StopNotifier,
                notifyVars, queueVars
  <2> QED BY <2>1 DEF Queue!vars
<1> QED BY <1>1, <1>2, <1>3, <1>4 DEF NotifyNext

\* Whatever is queued, taken, posted and retried in whichever order, a report
\* carries the most important alerts raised since the last one, and the number of
\* the others: the notifier implements the abstract queue.
THEOREM NotifierImplementsAlertQueue == NotifySpec => ImplementsAlertQueue
<1>1. NotifyInit => Queue!Init
  BY DEF NotifyInit, Queue!Init
<1>2. NotifySpec => []QInv
  BY QueueInvariant
<1> QED BY <1>1, <1>2, NextRefines, PTL DEF NotifySpec, ImplementsAlertQueue, Queue!Spec

-----------------------------------------------------------------------------
(* Adding up.  MapThenSumSet is defined by recursion on subsets, which the *)
(* lemmas turn into induction on their size.                               *)

Pick(s) == CHOOSE r \in s : TRUE
Unfolds(g, s) == g[s] = IF s = {} THEN 0 ELSE Weight(Pick(s)) + g[s \ {Pick(s)}]
Sums(S) == CHOOSE g : g = [s \in SUBSET S |->
                             IF s = {} THEN 0 ELSE Weight(Pick(s)) + g[s \ {Pick(s)}]]
Total(S) == MapThenSumSet(Weight, S)

LEMMA TotalIsSum == ASSUME NEW S PROVE Total(S) = Sums(S)[S]
BY DEF Total, MapThenSumSet, MapThenFoldSet, Sums, Pick

LEMMA PickIsMember == \A s : s # {} => Pick(s) \in s
BY DEF Pick

\* Without its pick a set is smaller.
LEMMA WithoutPick ==
  ASSUME NEW S, IsFiniteSet(S), NEW s \in SUBSET S
  PROVE  /\ IsFiniteSet(s) /\ Cardinality(s) \in Nat
         /\ s # {} => /\ s \ {Pick(s)} \in SUBSET S
                      /\ Cardinality(s \ {Pick(s)}) = Cardinality(s) - 1
<1>1. IsFiniteSet(s) /\ Cardinality(s) \in Nat
  BY FS_Subset, FS_CardinalityType
<1>2. s # {} => Pick(s) \in s
  BY PickIsMember
<1> HIDE DEF Pick
<1> QED BY <1>1, <1>2, FS_RemoveElement

\* There is a function that unfolds for every subset, by induction on their size.
LEMMA SumsUnfold ==
  ASSUME NEW S, IsFiniteSet(S)
  PROVE  \A s \in SUBSET S : Unfolds(Sums(S), s)
<1> DEFINE Small(n) == {s \in SUBSET S : Cardinality(s) <= n}
           Solved == {n \in Nat : \E g : \A s \in Small(n) : Unfolds(g, s)}
           Sum(g) == [s \in SUBSET S |->
                        IF s = {} THEN 0 ELSE Weight(Pick(s)) + g[s \ {Pick(s)}]]
<1>1. 0 \in Solved
  <2> DEFINE g == [s \in {{}} |-> 0]
  <2>1. ASSUME NEW s \in Small(0) PROVE s = {}
    <3>1. s \in SUBSET S /\ Cardinality(s) <= 0
      OBVIOUS
    <3>2. IsFiniteSet(s) /\ Cardinality(s) \in Nat
      BY <3>1, WithoutPick
    <3> QED BY <3>1, <3>2, FS_EmptySet
  <2>2. \A s \in Small(0) : Unfolds(g, s)
    BY <2>1 DEF Unfolds
  <2> HIDE DEF g, Small
  <2> QED BY <2>2
<1>2. ASSUME NEW n \in Nat, n \in Solved PROVE n + 1 \in Solved
  <2>1. PICK g : \A s \in Small(n) : Unfolds(g, s)
    BY <1>2
  <2> DEFINE h == [s \in SUBSET S |->
                     IF s \in Small(n) THEN g[s] ELSE Weight(Pick(s)) + g[s \ {Pick(s)}]]
  <2>2. ASSUME NEW s \in Small(n + 1), s # {}
        PROVE  s \ {Pick(s)} \in Small(n) /\ s \in SUBSET S
    BY <2>2, WithoutPick
  <2>3. {} \in Small(n) /\ {} \in SUBSET S
    BY FS_EmptySet
  <2>4. ASSUME NEW s \in Small(n + 1) PROVE Unfolds(h, s)
    <3>1. CASE s = {}
      <4> HIDE DEF Small
      <4> QED BY <2>1, <2>3, <3>1 DEF Unfolds
    <3>2. CASE s # {}
      <4>1. s \ {Pick(s)} \in Small(n) /\ s \in SUBSET S /\ s \ {Pick(s)} \in SUBSET S
        BY <2>2, <3>2
      <4>2. h[s \ {Pick(s)}] = g[s \ {Pick(s)}]
        BY <4>1
      <4>3. h[s] = Weight(Pick(s)) + g[s \ {Pick(s)}]
        <5>1. CASE s \in Small(n)
          <6>1. g[s] = Weight(Pick(s)) + g[s \ {Pick(s)}]
            <7> HIDE DEF Small
            <7> QED BY <2>1, <3>2, <5>1 DEF Unfolds
          <6> HIDE DEF Small
          <6> QED BY <4>1, <5>1, <6>1
        <5>2. CASE s \notin Small(n)
          <6> HIDE DEF Small
          <6> QED BY <4>1, <5>2
        <5> QED BY <5>1, <5>2
      <4> HIDE DEF h, Small
      <4> QED BY <3>2, <4>2, <4>3 DEF Unfolds
    <3> QED BY <3>1, <3>2
  <2> HIDE DEF h, Small
  <2> QED BY <2>4
<1>3. Cardinality(S) \in Nat /\ Cardinality(S) \in Solved
  <2>1. Cardinality(S) \in Nat
    BY FS_CardinalityType
  <2> HIDE DEF Solved
  <2> QED BY <1>1, <1>2, <2>1, NatSetInduction
<1>4. PICK g : \A s \in Small(Cardinality(S)) : Unfolds(g, s)
  BY <1>3
<1>5. \A s \in SUBSET S : s \in Small(Cardinality(S))
  BY FS_Subset
<1> DEFINE f == [s \in SUBSET S |-> g[s]]
<1>6. f = Sum(f)
  <2>1. ASSUME NEW s \in SUBSET S PROVE f[s] = Sum(f)[s]
    <3>1. s # {} => s \ {Pick(s)} \in SUBSET S
      BY WithoutPick
    <3>2. Unfolds(g, s)
      BY <1>4, <1>5
    <3> QED BY <3>1, <3>2 DEF Unfolds
  <2> QED BY <2>1
<1>7. Sums(S) = Sum(Sums(S))
  <2> HIDE DEF f
  <2> QED BY <1>6 DEF Sums
<1> QED BY <1>7 DEF Unfolds

\* The sum of a subset does not depend on the set it is taken from.
LEMMA SumsAgree ==
  ASSUME NEW S, IsFiniteSet(S), NEW T \in SUBSET S
  PROVE  Sums(S)[T] = Sums(T)[T]
<1> DEFINE Same == {n \in Nat : \A s \in SUBSET T :
                       Cardinality(s) = n => Sums(S)[s] = Sums(T)[s]}
<1>1. IsFiniteSet(T) /\ Cardinality(T) \in Nat
  BY FS_Subset, FS_CardinalityType
<1>2. \A s \in SUBSET T : Unfolds(Sums(S), s) /\ Unfolds(Sums(T), s)
  BY <1>1, SumsUnfold
<1>3. \A s \in SUBSET T : Cardinality(s) = 0 => s = {}
  BY <1>1, FS_Subset, FS_EmptySet
<1>4. 0 \in Same
  BY <1>2, <1>3 DEF Unfolds
<1>5. ASSUME NEW n \in Nat, n \in Same PROVE n + 1 \in Same
  <2>1. ASSUME NEW s \in SUBSET T, Cardinality(s) = n + 1
        PROVE  Sums(S)[s] = Sums(T)[s]
    <3>1. s # {}
      BY <2>1, FS_EmptySet
    <3>2. s \ {Pick(s)} \in SUBSET T /\ Cardinality(s \ {Pick(s)}) = n
      BY <1>1, <2>1, <3>1, WithoutPick
    <3>3. Sums(S)[s \ {Pick(s)}] = Sums(T)[s \ {Pick(s)}]
      BY <1>5, <3>2
    <3> QED BY <1>2, <3>1, <3>3 DEF Unfolds
  <2> QED BY <2>1
<1> HIDE DEF Same
<1>6. Cardinality(T) \in Same
  BY <1>1, <1>4, <1>5, NatSetInduction
<1> QED BY <1>6 DEF Same

\* The sum of numbers is a number.
LEMMA TotalIsNatural ==
  ASSUME NEW S, IsFiniteSet(S), \A r \in S : Weight(r) \in Nat
  PROVE  Total(S) \in Nat
<1> DEFINE Typed == {n \in Nat : \A s \in SUBSET S :
                       Cardinality(s) = n => Sums(S)[s] \in Nat}
<1>1. Cardinality(S) \in Nat
  BY FS_CardinalityType
<1>2. \A s \in SUBSET S : Unfolds(Sums(S), s)
  BY SumsUnfold
<1>3. \A s \in SUBSET S : Cardinality(s) = 0 => s = {}
  BY FS_Subset, FS_EmptySet
<1>4. 0 \in Typed
  BY <1>2, <1>3 DEF Unfolds
<1>5. ASSUME NEW n \in Nat, n \in Typed PROVE n + 1 \in Typed
  <2>1. ASSUME NEW s \in SUBSET S, Cardinality(s) = n + 1
        PROVE  Sums(S)[s] \in Nat
    <3>1. s # {}
      BY <2>1, FS_EmptySet
    <3>2. s \ {Pick(s)} \in SUBSET S /\ Cardinality(s \ {Pick(s)}) = n
      BY <2>1, <3>1, WithoutPick
    <3>3. Sums(S)[s \ {Pick(s)}] \in Nat
      BY <1>5, <3>2
    <3>4. Weight(Pick(s)) \in Nat
      BY <3>1, PickIsMember
    <3> QED BY <1>2, <3>1, <3>3, <3>4 DEF Unfolds
  <2> QED BY <2>1
<1> HIDE DEF Typed
<1>6. Cardinality(S) \in Typed
  BY <1>1, <1>4, <1>5, NatSetInduction
<1> QED BY <1>6, TotalIsSum DEF Typed

\* Whichever element is taken first, a sum is its value and the sum of the others.
LEMMA AnyFirst ==
  ASSUME NEW S, IsFiniteSet(S), \A r \in S : Weight(r) \in Nat
  PROVE  \A x \in S : Total(S) = Weight(x) + Total(S \ {x})
<1> DEFINE g == Sums(S)
           Free == {n \in Nat : \A s \in SUBSET S : Cardinality(s) = n =>
                                  \A x \in s : g[s] = Weight(x) + g[s \ {x}]}
<1>1. Cardinality(S) \in Nat
  BY FS_CardinalityType
<1>2. \A s \in SUBSET S : Unfolds(g, s)
  BY SumsUnfold
<1>3. \A s \in SUBSET S : g[s] = Total(s) /\ g[s] \in Nat
  <2>1. ASSUME NEW s \in SUBSET S PROVE g[s] = Total(s)
    BY <2>1, SumsAgree, TotalIsSum
  <2>2. ASSUME NEW s \in SUBSET S PROVE Total(s) \in Nat
    BY <2>2, TotalIsNatural, FS_Subset
  <2> QED BY <2>1, <2>2
<1>4. 0 \in Free
  BY FS_Subset, FS_EmptySet
<1>5. ASSUME NEW n \in Nat, n \in Free PROVE n + 1 \in Free
  <2>1. ASSUME NEW s \in SUBSET S, Cardinality(s) = n + 1, NEW x \in s
        PROVE  g[s] = Weight(x) + g[s \ {x}]
    <3> DEFINE z == Pick(s)
    <3>1. s # {} /\ z \in s /\ IsFiniteSet(s)
      BY PickIsMember, FS_Subset
    <3>2. g[s] = Weight(z) + g[s \ {z}]
      BY <1>2, <3>1 DEF Unfolds
    <3> HIDE DEF z
    <3>3. CASE x = z
      BY <3>2, <3>3
    <3>4. CASE x # z
      <4>1. Cardinality(s \ {z}) = n /\ Cardinality(s \ {x}) = n
        <5> DEFINE m == Cardinality(s)
        <5>1. Cardinality(s \ {z}) = m - 1 /\ Cardinality(s \ {x}) = m - 1
          BY <3>1, FS_RemoveElement
        <5>2. m = n + 1
          BY <2>1
        <5> HIDE DEF m
        <5> QED BY <5>1, <5>2
      <4>2. x \in s \ {z} /\ z \in s \ {x} /\ (s \ {z}) \ {x} = (s \ {x}) \ {z}
        BY <3>1, <3>4
      <4>3. g[s \ {z}] = Weight(x) + g[(s \ {z}) \ {x}]
        BY <1>5, <4>1, <4>2
      <4>4. g[s \ {x}] = Weight(z) + g[(s \ {x}) \ {z}]
        BY <1>5, <4>1, <4>2
      <4>5. /\ g[(s \ {x}) \ {z}] \in Nat /\ g[s \ {x}] \in Nat /\ g[s \ {z}] \in Nat
            /\ Weight(x) \in Nat /\ Weight(z) \in Nat
        BY <1>3, <3>1
      <4> HIDE DEF g
      <4>6. g[(s \ {z}) \ {x}] = g[(s \ {x}) \ {z}]
        BY <4>2
      <4> QED BY <3>2, <4>3, <4>4, <4>5, <4>6
    <3> QED BY <3>3, <3>4
  <2> QED BY <2>1
<1> HIDE DEF Free
<1>6. Cardinality(S) \in Free
  BY <1>1, <1>4, <1>5, NatSetInduction
<1>7. \A x \in S : g[S] = Weight(x) + g[S \ {x}]
  BY <1>6 DEF Free
<1> QED BY <1>3, <1>7

LEMMA TotalAdds ==
  ASSUME NEW S, IsFiniteSet(S), NEW x, x \notin S, \A r \in S \cup {x} : Weight(r) \in Nat
  PROVE  Total(S \cup {x}) = Total(S) + Weight(x)
<1>1. IsFiniteSet(S \cup {x}) /\ x \in S \cup {x} /\ (S \cup {x}) \ {x} = S
  BY FS_AddElement
<1>2. Total(S \cup {x}) = Weight(x) + Total(S)
  BY <1>1, AnyFirst
<1> QED BY <1>2, TotalIsNatural

-----------------------------------------------------------------------------
(* Where every alert is.                                                   *)

\* Reports carry alerts, and what they carry nobody else does: an alert is offered
\* for the next report, carried by the one in flight or by one that is finished.
PlacesInv ==
  /\ report \in [phase : {"none", "built", "posting", "waiting"}, items : SUBSET Alert,
                 omitted : Nat, attempt : Nat, copies : Nat]
  /\ IsFiniteSet(report.items)
  /\ IF report.phase = "none" THEN report = NoReport ELSE report.items # {}
  /\ \A a \in report.items : a \notin offered /\ a.arrival <= arrivals
  /\ IsFiniteSet(finished)
  /\ \A r \in finished :
       /\ r.items # {} /\ r.items \subseteq Alert /\ Weight(r) \in Nat
       /\ \A a \in r.items : a \notin offered /\ a \notin report.items /\ a.arrival <= arrivals

\* The queue and the count of what it dropped are together what was offered.
CountInv == arrivals = Cardinality(offered) + Weight(report) + Total(finished)

AccountInv == QInv /\ PlacesInv /\ CountInv

LEMMA NoReportIsEmpty == Weight(NoReport) = 0 /\ NoReport.items = {} /\ IsFiniteSet({})
BY FS_EmptySet DEF Weight, NoReport

LEMMA WeightIsNatural ==
  ASSUME PlacesInv
  PROVE  Weight(report) \in Nat /\ Total(finished) \in Nat
<1>1. Weight(report) \in Nat
  BY FS_CardinalityType DEF PlacesInv, Weight
<1>2. Total(finished) \in Nat
  BY TotalIsNatural DEF PlacesInv
<1> QED BY <1>1, <1>2

LEMMA InitAccount == NotifyInit => AccountInv
<1> SUFFICES ASSUME NotifyInit PROVE AccountInv
  OBVIOUS
<1>1. PlacesInv
  BY NoReportIsEmpty, FS_EmptySet DEF NotifyInit, PlacesInv, NoReport
<1>2. Total({}) = 0
  <2>1. Unfolds(Sums({}), {})
    BY FS_EmptySet, SumsUnfold
  <2> QED BY <2>1, TotalIsSum DEF Unfolds
<1>3. CountInv
  BY <1>2, NoReportIsEmpty, FS_EmptySet DEF NotifyInit, CountInv
<1> QED BY <1>1, <1>3, InitQueue DEF AccountInv

\* A new alert is nowhere yet: everything placed arrived before it.
LEMMA DispatchAccount ==
  ASSUME AccountInv, NEW priority \in Priorities, NEW target \in Targets,
         Dispatch(priority, target)
  PROVE  PlacesInv' /\ CountInv'
<1> DEFINE alert == [priority |-> priority, target |-> target, arrival |-> arrivals + 1]
<1>1. /\ arrivals' = arrivals + 1 /\ arrivals \in Nat
      /\ offered' = offered \cup {alert} /\ report' = report /\ finished' = finished
  BY NotifyAssumption DEF Dispatch, AccountInv, QInv, OfferedInv
<1>2. alert.arrival = arrivals + 1
  OBVIOUS
<1> HIDE DEF alert
<1>3. \A a \in offered : a.arrival <= arrivals
  BY DEF AccountInv, QInv, OfferedInv
<1>4. alert \notin offered /\ alert \notin report.items
      /\ \A r \in finished : alert \notin r.items
  BY <1>1, <1>2, <1>3 DEF AccountInv, PlacesInv
<1>5. PlacesInv'
  <2>1. ASSUME NEW a \in Alert, a \notin offered, a # alert, a.arrival <= arrivals
        PROVE  a \notin offered' /\ a.arrival <= arrivals'
    <3>1. a.arrival \in Int
      BY AlertFields
    <3> QED BY <1>1, <2>1, <3>1
  <2>2. \A a \in report.items : a \notin offered' /\ a.arrival <= arrivals'
    BY <1>4, <2>1 DEF AccountInv, PlacesInv
  <2>3. \A r \in finished : \A a \in r.items : a \notin offered' /\ a.arrival <= arrivals'
    BY <1>4, <2>1 DEF AccountInv, PlacesInv
  <2> QED BY <1>1, <2>2, <2>3 DEF AccountInv, PlacesInv
<1>6. Cardinality(offered') = Cardinality(offered) + 1 /\ Cardinality(offered) \in Nat
  BY <1>1, <1>4, FS_AddElement, FS_CardinalityType DEF AccountInv, QInv, OfferedInv
<1>7. CountInv'
  <2>1. arrivals = Cardinality(offered) + Weight(report) + Total(finished)
    BY DEF AccountInv, CountInv
  <2>2. Weight(report) \in Nat /\ Total(finished) \in Nat
    BY WeightIsNatural DEF AccountInv
  <2>3. Weight(report') = Weight(report) /\ Total(finished') = Total(finished)
    BY <1>1
  <2>4. arrivals' = Cardinality(offered') + Weight(report') + Total(finished')
    BY <1>1, <1>6, <2>1, <2>2, <2>3
  <2> QED BY <2>4 DEF CountInv
<1> QED BY <1>5, <1>7

\* The report carries the queue and the count.  An empty queue has dropped nothing.
LEMMA TakeAccount ==
  ASSUME AccountInv, TakeBatch
  PROVE  PlacesInv' /\ CountInv'
<1>1. /\ report = NoReport
      /\ offered' = {} /\ arrivals' = arrivals /\ finished' = finished
  BY DEF TakeBatch, AccountInv, PlacesInv
<1>2. /\ alertBatch \subseteq offered /\ IsFiniteSet(alertBatch) /\ omitted \in Nat
      /\ Cardinality(offered) = Cardinality(alertBatch) + omitted
  <2>1. Cardinality(alertBatch) <= Cardinality(offered)
    BY FS_Subset DEF AccountInv, QInv, OfferedInv, FirstOf
  <2> QED BY <2>1, Sizes DEF AccountInv, QInv, FirstOf
<1>3. /\ Cardinality(alertBatch) \in Nat /\ Total(finished) \in Nat
      /\ Weight(report) = 0 /\ Cardinality({}) = 0
  BY <1>1, Sizes, WeightIsNatural, NoReportIsEmpty, FS_EmptySet DEF AccountInv
<1>4. arrivals = Cardinality(alertBatch) + omitted + Total(finished)
  BY <1>2, <1>3 DEF AccountInv, CountInv
<1>5. CASE alertBatch = {}
  <2>1. report' = report
    BY <1>5 DEF TakeBatch
  <2>2. alertBatch = offered
    BY <1>5, FS_EmptySet, NotifyAssumption DEF AccountInv, QInv, FirstOf
  <2>3. PlacesInv'
    BY <1>1, <2>1 DEF AccountInv, PlacesInv
  <2>4. omitted = 0
    BY <1>2, <1>3, <2>2
  <2>5. arrivals' = Cardinality(offered') + Weight(report') + Total(finished')
    BY <1>1, <1>3, <1>4, <1>5, <2>1, <2>4
  <2> QED BY <2>3, <2>5 DEF CountInv
<1>6. CASE alertBatch # {}
  <2>1. report' = [phase |-> "built", items |-> alertBatch, omitted |-> omitted,
                   attempt |-> 0, copies |-> 0]
    BY <1>6 DEF TakeBatch, NoReport
  <2>2. Weight(report') = Cardinality(alertBatch) + omitted
    BY <2>1 DEF Weight
  <2>3. PlacesInv'
    <3>1. \A a \in alertBatch : a \in Alert /\ a.arrival <= arrivals
      BY <1>2 DEF AccountInv, QInv, OfferedInv
    <3>2. \A r \in finished : \A a \in r.items : a \notin alertBatch
      BY <1>2 DEF AccountInv, PlacesInv
    <3>3. report' \in [phase : {"none", "built", "posting", "waiting"}, items : SUBSET Alert,
                       omitted : Nat, attempt : Nat, copies : Nat]
      BY <1>2, <2>1, <3>1
    <3>4. report'.items = alertBatch /\ report'.phase = "built"
      BY <2>1
    <3> QED BY <1>1, <1>2, <1>6, <3>1, <3>2, <3>3, <3>4 DEF AccountInv, PlacesInv
  <2>4. arrivals' = Cardinality(offered') + Weight(report') + Total(finished')
    BY <1>1, <1>2, <1>3, <1>4, <2>2
  <2> QED BY <2>3, <2>4 DEF CountInv
<1> QED BY <1>5, <1>6

\* What a finished delivery carried nothing else does, so it adds to the total.
LEMMA FinishAccount ==
  ASSUME AccountInv, report.phase # "none", NEW accepted, NEW copies,
         Finish(accepted, copies), UNCHANGED queueVars
  PROVE  PlacesInv' /\ CountInv'
<1> DEFINE r == [items |-> report.items, omitted |-> report.omitted, copies |-> copies,
                 accepted |-> accepted]
<1>1. finished' = finished \cup {r} /\ report' = NoReport /\ UNCHANGED <<offered, arrivals>>
  BY DEF Finish, queueVars
<1>2. r.items = report.items /\ Weight(r) = Weight(report)
  BY DEF Weight
<1> HIDE DEF r
<1>3. /\ report.items # {} /\ report.items \subseteq Alert
      /\ \A a \in report.items : a \notin offered /\ a.arrival <= arrivals
  BY DEF AccountInv, PlacesInv
<1>4. r \notin finished
  BY <1>2, <1>3 DEF AccountInv, PlacesInv
<1>5. Weight(r) \in Nat /\ Weight(report) \in Nat /\ Total(finished) \in Nat
  BY <1>2, WeightIsNatural DEF AccountInv
<1>6. PlacesInv'
  <2>1. NoReport \in [phase : {"none", "built", "posting", "waiting"}, items : SUBSET Alert,
                      omitted : Nat, attempt : Nat, copies : Nat]
    BY DEF NoReport
  <2>2. IsFiniteSet(finished')
    BY <1>1, FS_AddElement DEF AccountInv, PlacesInv
  <2>3. NoReport.phase = "none" /\ NoReport.items = {} /\ IsFiniteSet(NoReport.items)
    BY FS_EmptySet DEF NoReport
  <2>4. ASSUME NEW q \in finished'
        PROVE  /\ q.items # {} /\ q.items \subseteq Alert /\ Weight(q) \in Nat
               /\ \A a \in q.items : a \notin offered /\ a.arrival <= arrivals
    <3>1. CASE q \in finished
      BY <3>1 DEF AccountInv, PlacesInv
    <3>2. CASE q = r
      BY <1>2, <1>3, <1>5, <3>2
    <3> QED BY <1>1, <3>1, <3>2
  <2> QED BY <1>1, <2>1, <2>2, <2>3, <2>4 DEF PlacesInv
<1>7. CountInv'
  <2>1. Total(finished') = Total(finished) + Weight(report)
    <3>1. \A q \in finished \cup {r} : Weight(q) \in Nat
      BY <1>5 DEF AccountInv, PlacesInv
    <3>2. IsFiniteSet(finished)
      BY DEF AccountInv, PlacesInv
    <3>3. Total(finished \cup {r}) = Total(finished) + Weight(r)
      BY <1>4, <3>1, <3>2, TotalAdds
    <3> QED BY <1>1, <1>2, <3>3
  <2>2. Weight(report') = 0
    BY <1>1, NoReportIsEmpty
  <2>3. Cardinality(offered) \in Nat
    BY Sizes DEF AccountInv
  <2>4. arrivals' = Cardinality(offered') + Weight(report') + Total(finished')
    BY <1>1, <1>5, <2>1, <2>2, <2>3 DEF AccountInv, CountInv
  <2> QED BY <2>4 DEF CountInv
<1> QED BY <1>6, <1>7

\* A post or a retry only changes how far the report is.
LEMMA PostAccount ==
  ASSUME AccountInv, FirstPost \/ Retry \/ Answer, finished' = finished
  PROVE  PlacesInv' /\ CountInv'
<1>1. report \in [phase : {"none", "built", "posting", "waiting"}, items : SUBSET Alert,
                  omitted : Nat, attempt : Nat, copies : Nat]
      /\ report.phase # "none"
  BY DEF AccountInv, PlacesInv, FirstPost, Retry, Answer
<1>2. \/ \E n \in Nat : report' = [report EXCEPT !.phase = "posting", !.attempt = n]
      \/ \E n \in Nat : report' = [report EXCEPT !.phase = "waiting", !.copies = n]
  <2>1. CASE FirstPost
    BY <2>1 DEF FirstPost
  <2>2. CASE Retry
    <3>1. report.attempt + 1 \in Nat
      BY <1>1
    <3> QED BY <2>2, <3>1 DEF Retry
  <2>3. CASE Answer
    <3>1. PICK received \in BOOLEAN : \E verdict \in Verdicts(received) :
            LET copies == report.copies + IF received THEN 1 ELSE 0 IN
            IF verdict = "temporary" /\ MayRetry
            THEN /\ report' = [report EXCEPT !.phase = "waiting", !.copies = copies]
                 /\ UNCHANGED finished
            ELSE Finish(verdict = "accepted", copies)
      BY <2>3 DEF Answer
    <3> DEFINE n == report.copies + IF received THEN 1 ELSE 0
    <3>2. n \in Nat
      BY <1>1
    <3>3. ~(\E accepted : Finish(accepted, n))
      <4>1. \A q \in finished : q.items # report.items
        BY DEF AccountInv, PlacesInv
      <4> HIDE DEF n
      <4>2. SUFFICES ASSUME NEW accepted, Finish(accepted, n) PROVE FALSE
        OBVIOUS
      <4> DEFINE q == [items |-> report.items, omitted |-> report.omitted, copies |-> n,
                       accepted |-> accepted]
      <4>3. q \in finished /\ q.items = report.items
        BY <4>2 DEF Finish
      <4> HIDE DEF q
      <4> QED BY <4>1, <4>3
    <3> HIDE DEF n
    <3>4. report' = [report EXCEPT !.phase = "waiting", !.copies = n]
      BY <3>1, <3>3 DEF n
    <3> QED BY <3>2, <3>4
  <2> QED BY <2>1, <2>2, <2>3
<1>3. /\ report' \in [phase : {"none", "built", "posting", "waiting"}, items : SUBSET Alert,
                       omitted : Nat, attempt : Nat, copies : Nat]
      /\ report'.phase # "none"
      /\ report'.items = report.items /\ report'.omitted = report.omitted
  BY <1>1, <1>2
<1>4. UNCHANGED <<offered, arrivals, finished>>
  BY DEF FirstPost, Retry, Answer, queueVars
<1>5. PlacesInv'
  BY <1>1, <1>3, <1>4 DEF AccountInv, PlacesInv
<1>6. Weight(report') = Weight(report)
  BY <1>3 DEF Weight
<1>7. CountInv'
  BY <1>4, <1>6 DEF AccountInv, CountInv
<1> QED BY <1>5, <1>7

LEMMA NextAccount == AccountInv /\ [NotifyNext]_notifyVars => AccountInv'
<1> SUFFICES ASSUME AccountInv, [NotifyNext]_notifyVars PROVE AccountInv'
  OBVIOUS
<1>1. QInv'
  BY NextQueue DEF AccountInv
<1>2. PlacesInv' /\ CountInv'
  <2>1. CASE \E priority \in Priorities, target \in Targets : Dispatch(priority, target)
    BY <2>1, DispatchAccount
  <2>2. CASE TakeBatch
    BY <2>2, TakeAccount
  <2>3. CASE Discard \/ GiveUpRetry
    <3>1. report.phase # "none" /\ UNCHANGED queueVars
      BY <2>3 DEF Discard, GiveUpRetry
    <3>2. \E accepted, copies : Finish(accepted, copies)
      BY <2>3 DEF Discard, GiveUpRetry
    <3> QED BY <3>1, <3>2, FinishAccount
  <2>4. CASE FirstPost \/ Retry
    <3>1. finished' = finished
      BY <2>4 DEF FirstPost, Retry
    <3> QED BY <2>4, <3>1, PostAccount
  <2>5. CASE Answer
    <3>1. report.phase # "none" /\ UNCHANGED queueVars
      BY <2>5 DEF Answer
    <3>2. finished' = finished \/ \E accepted, copies : Finish(accepted, copies)
      BY <2>5 DEF Answer
    <3> QED BY <2>5, <3>1, <3>2, FinishAccount, PostAccount
  <2>6. CASE StopNotifier \/ UNCHANGED notifyVars
    <3>1. UNCHANGED <<arrivals, offered, report, finished>>
      BY <2>6 DEF StopNotifier, notifyVars, queueVars
    <3> QED BY <3>1 DEF AccountInv, PlacesInv, CountInv
  <2> QED BY <2>1, <2>2, <2>3, <2>4, <2>5, <2>6 DEF NotifyNext, Deliver
<1> QED BY <1>1, <1>2 DEF AccountInv

\* The inductive invariant of what was raised, queued, reported and omitted.
THEOREM AccountInvariant == NotifySpec => []AccountInv
<1> QED BY InitAccount, NextAccount, PTL DEF NotifySpec

\* No alert is lost or counted twice, whatever is queued while a report is in
\* flight and whatever becomes of it (takeAlertBatch and FlushContext in notify.go).
THEOREM AlertsAreAccountedFor == NotifySpec => []EveryAlertAccountedFor
<1>1. AccountInv => EveryAlertAccountedFor
  <2> SUFFICES ASSUME AccountInv PROVE EveryAlertAccountedFor
    OBVIOUS
  <2>1. Cardinality(offered) = Cardinality(alertBatch) + omitted
    <3>1. Cardinality(offered) \in Nat /\ Cardinality(alertBatch) \in Nat
      BY Sizes DEF AccountInv
    <3> QED BY <3>1 DEF AccountInv, QInv
  <2>2. arrivals = Cardinality(alertBatch) + omitted + Weight(report) + Total(finished)
    BY <2>1 DEF AccountInv, CountInv
  <2> QED BY <2>2 DEF EveryAlertAccountedFor, Total
<1> QED BY <1>1, AccountInvariant, PTL

-----------------------------------------------------------------------------
(* The processes.                                                          *)

\* Main closes the wake channel after the engine, which never comes back.
ChannelInv ==
  /\ wake.closed => engine = "done"
  /\ wake \in [token : BOOLEAN, closed : BOOLEAN]

\* A main that listens would have been woken by a signal or by the engine's
\* end, and an engine ends by a signal or by a panic.
StopInv ==
  /\ main = "starting" => runErr = {} /\ (cancelled => earlyStop)
  /\ main = "listening" => ~cancelled /\ engine # "done"
  /\ earlyStop => cancelled
  /\ engine = "done" => cancelled \/ panicked
  /\ StopIsNotAFailure

\* Alerts that a finished cycle has queued are announced by the token, or about
\* to be taken.
WakeInv ==
  engine \in {"waiting", "gathering"} /\ alertBatch # {} =>
    wake.token \/ worker \in {"flush", "done"}

\* The last flush starts when nobody queues alerts any more, and only a
\* stopped worker ends without it.
FlushInv ==
  /\ "phase" \in DOMAIN report
  /\ report.phase = "none" => report = NoReport
  /\ worker \in {"select", "flush"} => report = NoReport
  /\ lastFlush => wake.closed
  /\ worker \in {"delivering", "done"} /\ lastFlush => alertBatch = {}
  /\ worker = "select" => ~lastFlush
  /\ worker = "done" /\ ~stopped => lastFlush /\ report = NoReport
  /\ CleanShutdownFlushes

LInv == ChannelInv /\ StopInv /\ WakeInv /\ FlushInv

LEMMA InitLifecycle == Init => LInv
BY DEF Init, NotifyInit, LInv, ChannelInv, StopInv, WakeInv, FlushInv, StopIsNotAFailure,
       CleanShutdownFlushes, NoReport

-----------------------------------------------------------------------------
LEMMA NextChannel == LInv /\ [Next]_vars => ChannelInv'
<1> SUFFICES ASSUME LInv, [Next]_vars PROVE ChannelInv'
  OBVIOUS
<1> USE DEF LInv, ChannelInv, processVars
<1>1. CASE Signal \/ ServerFails
  BY <1>1 DEF Signal, ServerFails
<1>2. CASE EngineStep \/ EnginePanics
  BY <1>2 DEF EngineStep, EngineGathers, EngineDispatches, EngineEndsCycle, Wake,
              EngineTimer, EngineStops, EnginePanics
<1>3. CASE WorkerStep
  BY <1>3 DEF WorkerStep, WorkerWakes, WorkerStops, WorkerTakes, WorkerDelivers,
              WorkerFlushed
<1>4. CASE MainStep
  BY <1>4 DEF MainStep, MainListens, MainCancels, MainStopsServer, MainSeesEngineDone,
              MainEngineTimeout, MainSeesWorkerDone, MainWorkerTimeout
<1>5. CASE UNCHANGED vars
  BY <1>5 DEF vars
<1> QED BY <1>1, <1>2, <1>3, <1>4, <1>5 DEF Next

LEMMA NextStop == LInv /\ [Next]_vars => StopInv'
<1> SUFFICES ASSUME LInv, [Next]_vars PROVE StopInv'
  OBVIOUS
<1> USE DEF LInv, StopInv, StopIsNotAFailure, processVars
<1>1. CASE Signal
  BY <1>1 DEF Signal, Notice, Errors
<1>2. CASE ServerFails
  BY <1>2 DEF ServerFails, Notice, Errors
<1>3. CASE EngineStep
  <2>1. CASE EngineStops
    BY <1>3, <2>1 DEF EngineStops, Notice, Errors
  <2>2. CASE EngineGathers \/ EngineDispatches \/ EngineEndsCycle \/ Wake \/ EngineTimer
    BY <2>2 DEF EngineGathers, EngineDispatches, EngineEndsCycle, Wake, EngineTimer
  <2> QED BY <1>3, <2>1, <2>2 DEF EngineStep
<1>4. CASE EnginePanics
  BY <1>4 DEF EnginePanics, Notice, Errors
<1>5. CASE WorkerStep
  BY <1>5 DEF WorkerStep, WorkerWakes, WorkerStops, WorkerTakes, WorkerDelivers,
              WorkerFlushed
<1>6. CASE MainListens
  BY <1>6 DEF MainListens, Ready, Causes, Errors
<1>7. CASE MainCancels \/ MainStopsServer \/ MainSeesEngineDone
  BY <1>7 DEF MainCancels, MainStopsServer, MainSeesEngineDone
<1>8. CASE MainEngineTimeout \/ MainSeesWorkerDone \/ MainWorkerTimeout
  BY <1>8 DEF MainEngineTimeout, MainSeesWorkerDone, MainWorkerTimeout
<1>9. CASE UNCHANGED vars
  BY <1>9 DEF vars
<1> QED BY <1>1, <1>2, <1>3, <1>4, <1>5, <1>6, <1>7, <1>8, <1>9 DEF Next, MainStep

LEMMA NextWake == LInv /\ [Next]_vars => WakeInv'
<1> SUFFICES ASSUME LInv, [Next]_vars PROVE WakeInv'
  OBVIOUS
<1> USE DEF LInv, WakeInv, processVars, notifyVars, queueVars
<1>1. CASE Signal \/ ServerFails
  BY <1>1 DEF Signal, ServerFails
<1>2. CASE EngineStep \/ EnginePanics
  BY <1>2 DEF EngineStep, EngineGathers, EngineDispatches, EngineEndsCycle, Wake,
              EngineTimer, EngineStops, EnginePanics, ChannelInv
<1>3. CASE WorkerStep
  <2>1. CASE WorkerWakes \/ WorkerStops \/ WorkerFlushed
    BY <2>1 DEF WorkerWakes, WorkerStops, WorkerFlushed
  <2>2. CASE WorkerTakes
    BY <2>2 DEF WorkerTakes, TakeBatch, Detach
  <2>3. CASE WorkerDelivers
    BY <2>3 DEF WorkerDelivers, Deliver, Discard, FirstPost, Answer, Retry, GiveUpRetry
  <2> QED BY <1>3, <2>1, <2>2, <2>3 DEF WorkerStep
<1>4. CASE MainStep
  BY <1>4 DEF MainStep, MainListens, MainCancels, MainStopsServer, MainSeesEngineDone,
              MainEngineTimeout, MainSeesWorkerDone, MainWorkerTimeout, StopNotifier,
              ChannelInv
<1>5. CASE UNCHANGED vars
  BY <1>5 DEF vars
<1> QED BY <1>1, <1>2, <1>3, <1>4, <1>5 DEF Next

LEMMA NextFlush == LInv /\ [Next]_vars => FlushInv'
<1> SUFFICES ASSUME LInv, [Next]_vars PROVE FlushInv'
  OBVIOUS
<1> USE DEF LInv, FlushInv, CleanShutdownFlushes, processVars, notifyVars, queueVars
<1>1. CASE main # "exited" /\ Signal
  BY <1>1 DEF Signal, Notice
<1>2. CASE main # "exited" /\ ServerFails
  BY <1>2 DEF ServerFails, Notice
<1>3. CASE main # "exited" /\ (EngineStep \/ EnginePanics)
  <2>1. CASE EngineDispatches
    <3>1. engine # "done" /\ ~wake.closed /\ ~lastFlush
      BY <2>1 DEF EngineDispatches, ChannelInv
    <3> QED BY <1>3, <2>1, <3>1 DEF EngineDispatches, Dispatch
  <2>2. CASE EngineGathers \/ EngineEndsCycle \/ Wake \/ EngineTimer
    BY <1>3, <2>2 DEF EngineGathers, EngineEndsCycle, Wake, EngineTimer, ChannelInv
  <2>3. CASE EngineStops \/ EnginePanics
    BY <1>3, <2>3 DEF EngineStops, EnginePanics, Notice
  <2> QED BY <1>3, <2>1, <2>2, <2>3 DEF EngineStep
<1>4. CASE main # "exited" /\ WorkerStep
  <2>1. CASE WorkerWakes
    BY <1>4, <2>1 DEF WorkerWakes, ChannelInv
  <2>2. CASE WorkerStops
    BY <1>4, <2>2 DEF WorkerStops
  <2>3. CASE WorkerTakes
    BY <1>4, <2>3 DEF WorkerTakes, TakeBatch, Detach, NoReport
  <2>4. CASE WorkerDelivers
    <3>1. /\ worker = "delivering" /\ worker' = worker /\ main' = main /\ main # "exited"
          /\ UNCHANGED <<lastFlush, wake, alertBatch, stopped>>
      BY <1>4, <2>4 DEF WorkerDelivers, Deliver, Discard, FirstPost, Answer, Retry, GiveUpRetry
    <3>2. ASSUME NEW p \in {"posting", "waiting"}, NEW a, NEW c,
                 \/ report' = [report EXCEPT !.phase = p, !.attempt = a]
                 \/ report' = [report EXCEPT !.phase = p, !.copies = c]
          PROVE  "phase" \in DOMAIN report' /\ report'.phase # "none"
      BY <3>2
    <3>3. "phase" \in DOMAIN NoReport
      BY DEF NoReport
    <3>4. report' = NoReport \/ ("phase" \in DOMAIN report' /\ report'.phase # "none")
      <4>1. CASE Discard \/ GiveUpRetry
        BY <4>1 DEF Discard, GiveUpRetry, Finish
      <4>2. CASE FirstPost \/ Retry
        BY <3>2, <4>2 DEF FirstPost, Retry
      <4>3. CASE Answer
        BY <3>2, <4>3 DEF Answer, Finish
      <4> QED BY <2>4, <4>1, <4>2, <4>3 DEF WorkerDelivers, Deliver
    <3> QED BY <3>1, <3>3, <3>4
  <2>5. CASE WorkerFlushed
    BY <1>4, <2>5 DEF WorkerFlushed
  <2> QED BY <1>4, <2>1, <2>2, <2>3, <2>4, <2>5 DEF WorkerStep
<1>5. CASE main # "exited" /\ MainStep
  BY <1>5 DEF MainStep, MainListens, MainCancels, MainStopsServer, MainSeesEngineDone,
              MainEngineTimeout, MainSeesWorkerDone, MainWorkerTimeout, StopNotifier,
              ChannelInv
<1>6. CASE UNCHANGED vars
  BY <1>6 DEF vars
<1> QED BY <1>1, <1>2, <1>3, <1>4, <1>5, <1>6 DEF Next

-----------------------------------------------------------------------------
\* The inductive invariant of the goroutines (runWithLifecycleHooks and
\* runNotificationWorker in runtime.go).
THEOREM LifecycleInvariant == Spec => []LInv
<1>1. LInv /\ [Next]_vars => LInv'
  BY NextChannel, NextStop, NextWake, NextFlush DEF LInv
<1> QED BY <1>1, InitLifecycle, PTL DEF Spec

\* The engine never sends on the wake channel that main has closed, whichever
\* wait of the shutdown times out.
THEOREM WakesAnOpenChannel == Spec => []NeverWakesClosedChannel
<1>1. LInv => NeverWakesClosedChannel
  BY DEF LInv, ChannelInv, NeverWakesClosedChannel
<1> QED BY <1>1, LifecycleInvariant, PTL

\* No wake of the engine is lost to a busy worker.
THEOREM WakesAreKept == Spec => []NoLostWakeup
<1>1. LInv => NoLostWakeup
  BY DEF LInv, WakeInv, NoLostWakeup
<1> QED BY <1>1, LifecycleInvariant, PTL

\* A shutdown without a timeout leaves no alert queued and no report in flight.
THEOREM CleanExitFlushes == Spec => []CleanShutdownFlushes
<1>1. LInv => CleanShutdownFlushes
  BY DEF LInv, FlushInv
<1> QED BY <1>1, LifecycleInvariant, PTL

\* The engine's end is reported as a failure only after a panic, or when the
\* signal came before main listened.
THEOREM RequestedStopIsClean == Spec => []StopIsNotAFailure
<1>1. LInv => StopIsNotAFailure
  BY DEF LInv, StopInv
<1> QED BY <1>1, LifecycleInvariant, PTL

-----------------------------------------------------------------------------
(* Types and bounds.                                                       *)

Reports == [phase : {"none", "built", "posting", "waiting"}, items : SUBSET Alert,
            omitted : 0 .. MaxAlerts, attempt : 0 .. MaxNetworkAttempts, copies : Nat]

\* A report has been received at most once for every attempt that was answered,
\* and an attempt is made only while there is one left.
AttemptInv ==
  /\ report \in Reports
  /\ report.phase \in {"none", "built"} => report.attempt = 0 /\ report.copies = 0
  /\ report.phase = "posting" => report.copies < report.attempt
  /\ report.phase = "waiting" => /\ report.copies <= report.attempt
                                 /\ report.attempt < MaxNetworkAttempts

QueueTypes ==
  /\ alertBatch \subseteq Alert
  /\ offered \subseteq Alert
  /\ arrivals \in 0 .. MaxAlerts
  /\ omitted \in 0 .. arrivals
  /\ stopped \in BOOLEAN

ProcessTypes ==
  /\ main \in {"starting", "listening", "cancelling", "stopServer",
               "awaitEngine", "awaitWorker", "exited"}
  /\ cancelled \in BOOLEAN
  /\ runErr \subseteq {"server", "engine", "shutdown", "engineTimeout"}
  /\ serverFailed \in BOOLEAN
  /\ engine \in {"gathering", "dispatching", "waking", "waiting", "done"}
  /\ wake \in [token : BOOLEAN, closed : BOOLEAN]
  /\ worker \in {"select", "flush", "delivering", "done"}
  /\ lastFlush \in BOOLEAN
  /\ panicked \in BOOLEAN
  /\ earlyStop \in BOOLEAN
  /\ hangs \in BOOLEAN

TypesInv == AttemptInv /\ QueueTypes /\ ProcessTypes

LEMMA TypesAreOK == TypesInv => LifecycleTypeOK
<1> SUFFICES ASSUME TypesInv PROVE LifecycleTypeOK
  OBVIOUS
<1>1. /\ report.phase \in {"none", "built", "posting", "waiting"}
      /\ report.items \subseteq Alert
      /\ report.omitted \in 0 .. MaxAlerts
      /\ report.attempt \in 0 .. MaxNetworkAttempts
      /\ report.copies \in Nat
  BY DEF TypesInv, AttemptInv, Reports
<1>2. report.copies \in 0 .. report.attempt
  BY <1>1, NotifyAssumption DEF TypesInv, AttemptInv
<1>3. omitted \in 0 .. MaxAlerts
  BY NotifyAssumption DEF TypesInv, QueueTypes
<1>4. NotifyTypeOK
  BY <1>1, <1>2, <1>3 DEF NotifyTypeOK, TypesInv, QueueTypes
<1> QED BY <1>4 DEF LifecycleTypeOK, TypesInv, ProcessTypes, QueueTypes

LEMMA InitTypes == Init => TypesInv
<1> SUFFICES ASSUME Init PROVE TypesInv
  OBVIOUS
<1>1. AttemptInv
  BY NotifyAssumption DEF Init, NotifyInit, AttemptInv, Reports, NoReport
<1>2. QueueTypes
  <2>1. arrivals \in 0 .. MaxAlerts /\ omitted \in 0 .. arrivals
    BY NotifyAssumption DEF Init, NotifyInit
  <2>2. alertBatch = {} /\ offered = {} /\ stopped = FALSE
    BY DEF Init, NotifyInit
  <2> QED BY <2>1, <2>2 DEF QueueTypes
<1>3. ProcessTypes
  BY DEF Init, ProcessTypes
<1> QED BY <1>1, <1>2, <1>3 DEF TypesInv

LEMMA DispatchTypes ==
  ASSUME TypesInv, NEW priority \in Priorities, NEW target \in Targets,
         Dispatch(priority, target)
  PROVE  AttemptInv' /\ QueueTypes'
<1> DEFINE alert == [priority |-> priority, target |-> target, arrival |-> arrivals + 1]
<1>1. arrivals + 1 \in 1 .. MaxAlerts /\ arrivals' = arrivals + 1 /\ arrivals \in Nat
  BY NotifyAssumption DEF Dispatch, TypesInv, QueueTypes
<1>2. alert \in Alert
  BY <1>1 DEF Alert
<1>3. /\ alertBatch' \subseteq alertBatch \cup {alert}
      /\ omitted' \in {omitted, omitted + 1}
      /\ offered' = offered \cup {alert}
  BY DEF Dispatch, Enqueue
<1>4. UNCHANGED <<report, stopped>>
  BY DEF Dispatch
<1>5. omitted' \in 0 .. arrivals'
  BY <1>1, <1>3 DEF TypesInv, QueueTypes
<1> QED BY <1>1, <1>2, <1>3, <1>4, <1>5 DEF TypesInv, QueueTypes, AttemptInv

LEMMA TakeTypes ==
  ASSUME TypesInv, TakeBatch
  PROVE  AttemptInv' /\ QueueTypes'
<1>1. omitted \in 0 .. MaxAlerts /\ 0 \in 0 .. MaxNetworkAttempts /\ 0 \in 0 .. MaxAlerts
  BY NotifyAssumption DEF TypesInv, QueueTypes
<1>2. AttemptInv'
  <2>1. CASE alertBatch = {}
    BY <2>1 DEF TakeBatch, TypesInv, AttemptInv
  <2>2. CASE alertBatch # {}
    <3>1. report' = [phase |-> "built", items |-> alertBatch, omitted |-> omitted,
                     attempt |-> 0, copies |-> 0]
      BY <2>2 DEF TakeBatch, NoReport
    <3> QED BY <1>1, <3>1 DEF TypesInv, QueueTypes, AttemptInv, Reports
  <2> QED BY <2>1, <2>2
<1>3. QueueTypes'
  BY DEF TakeBatch, Detach, TypesInv, QueueTypes
<1> QED BY <1>2, <1>3

LEMMA DeliverTypes ==
  ASSUME TypesInv, Deliver
  PROVE  AttemptInv' /\ QueueTypes'
<1>0. QueueTypes'
  BY DEF Deliver, Discard, FirstPost, Answer, Retry, GiveUpRetry, queueVars,
         TypesInv, QueueTypes
<1>1. NoReport \in Reports
  BY NotifyAssumption DEF NoReport, Reports
<1>2. ASSUME report' = NoReport PROVE AttemptInv'
  BY <1>1, <1>2 DEF AttemptInv, NoReport
<1>3. /\ report \in Reports /\ report.attempt \in 0 .. MaxNetworkAttempts
      /\ report.copies \in Nat /\ MaxNetworkAttempts \in Nat \ {0}
  BY NotifyAssumption DEF TypesInv, AttemptInv, Reports
<1>4. CASE Discard \/ GiveUpRetry
  BY <1>0, <1>2, <1>4 DEF Discard, GiveUpRetry, Finish
<1>5. CASE FirstPost
  <2>1. report' = [report EXCEPT !.phase = "posting", !.attempt = 1] /\ report.copies = 0
    BY <1>5 DEF FirstPost, TypesInv, AttemptInv
  <2>2. report' \in Reports /\ report'.phase = "posting" /\ report'.attempt = 1
        /\ report'.copies = 0
    <3>1. 1 \in 0 .. MaxNetworkAttempts
      BY <1>3
    <3> QED BY <1>3, <2>1, <3>1 DEF Reports
  <2> QED BY <1>0, <2>2 DEF AttemptInv
<1>6. CASE Retry
  <2>1. /\ report' = [report EXCEPT !.phase = "posting", !.attempt = report.attempt + 1]
        /\ report.copies <= report.attempt /\ report.attempt < MaxNetworkAttempts
    BY <1>6 DEF Retry, TypesInv, AttemptInv
  <2>2. report.attempt + 1 \in 0 .. MaxNetworkAttempts
    BY <1>3, <2>1
  <2>3. report' \in Reports /\ report'.phase = "posting"
        /\ report'.attempt = report.attempt + 1 /\ report'.copies = report.copies
    BY <1>3, <2>1, <2>2 DEF Reports
  <2> QED BY <1>0, <1>3, <2>1, <2>3 DEF AttemptInv
<1>7. CASE Answer
  <2>1. report.copies < report.attempt
    BY <1>7 DEF Answer, TypesInv, AttemptInv
  <2>2. PICK received \in BOOLEAN, verdict \in {"refused", "temporary", "accepted"} :
          LET copies == report.copies + IF received THEN 1 ELSE 0 IN
          IF verdict = "temporary" /\ MayRetry
          THEN report' = [report EXCEPT !.phase = "waiting", !.copies = copies]
          ELSE Finish(verdict = "accepted", copies)
    BY <1>7 DEF Answer, Verdicts
  <2> DEFINE copies == report.copies + IF received THEN 1 ELSE 0
  <2>3. copies \in Nat /\ copies <= report.attempt
    BY <1>3, <2>1
  <2>4. CASE verdict = "temporary" /\ MayRetry
    <3>1. report' = [report EXCEPT !.phase = "waiting", !.copies = copies]
          /\ report.attempt < MaxNetworkAttempts
      BY <2>2, <2>4 DEF MayRetry
    <3> HIDE DEF copies
    <3>2. report' \in Reports /\ report'.phase = "waiting"
          /\ report'.attempt = report.attempt /\ report'.copies = copies
      BY <1>3, <2>3, <3>1 DEF Reports
    <3> QED BY <1>0, <2>3, <3>1, <3>2 DEF AttemptInv
  <2>5. CASE ~(verdict = "temporary" /\ MayRetry)
    BY <1>0, <1>2, <2>2, <2>5 DEF Finish
  <2> QED BY <2>4, <2>5
<1> QED BY <1>0, <1>4, <1>5, <1>6, <1>7 DEF Deliver

LEMMA NextTypes == TypesInv /\ [Next]_vars => TypesInv'
<1> SUFFICES ASSUME TypesInv, [Next]_vars PROVE TypesInv'
  OBVIOUS
<1>f. ASSUME UNCHANGED notifyVars PROVE AttemptInv' /\ QueueTypes'
  BY <1>f DEF TypesInv, AttemptInv, QueueTypes, notifyVars, queueVars
<1>p. ASSUME UNCHANGED <<processVars, hangs>> PROVE ProcessTypes'
  BY <1>p DEF TypesInv, ProcessTypes, processVars
<1>1. CASE UNCHANGED hangs /\ (Signal \/ ServerFails)
  <2>1. UNCHANGED notifyVars
    BY <1>1 DEF Signal, ServerFails
  <2>2. earlyStop' \in BOOLEAN /\ cancelled' \in BOOLEAN /\ serverFailed' \in BOOLEAN
    <3>1. CASE Signal
      BY <3>1 DEF Signal, TypesInv, ProcessTypes
    <3>2. CASE ServerFails
      BY <3>2 DEF ServerFails, TypesInv, ProcessTypes
    <3> QED BY <1>1, <3>1, <3>2
  <2>3. /\ main' \in {main, "cancelling"}
        /\ runErr' \subseteq runErr \cup {"server"}
    BY <1>1 DEF Signal, ServerFails, Notice, Errors
  <2>4. UNCHANGED <<engine, wake, worker, lastFlush, panicked, hangs>>
    BY <1>1 DEF Signal, ServerFails
  <2>5. ProcessTypes'
    BY <2>2, <2>3, <2>4 DEF TypesInv, ProcessTypes
  <2> QED BY <2>1, <2>5, <1>f DEF TypesInv
<1>2. CASE UNCHANGED hangs /\ (EngineStep \/ EnginePanics)
  <2>1. CASE EngineDispatches
    BY <1>2, <2>1, <1>p, DispatchTypes DEF EngineDispatches, TypesInv
  <2>2. CASE EngineGathers \/ EngineEndsCycle \/ Wake \/ EngineTimer
    <3>1. UNCHANGED notifyVars
      BY <2>2 DEF EngineGathers, EngineEndsCycle, Wake, EngineTimer
    <3>2. ProcessTypes'
      <4>1. wake' \in [token : BOOLEAN, closed : BOOLEAN]
        BY <2>2 DEF EngineGathers, EngineEndsCycle, Wake, EngineTimer, TypesInv, ProcessTypes
      <4>2. engine' \in {"gathering", "dispatching", "waking", "waiting", "done"}
        BY <2>2 DEF EngineGathers, EngineEndsCycle, Wake, EngineTimer
      <4>3. UNCHANGED <<main, cancelled, runErr, serverFailed, worker, lastFlush, panicked,
                        earlyStop, hangs>>
        BY <1>2, <2>2 DEF EngineGathers, EngineEndsCycle, Wake, EngineTimer
      <4> QED BY <4>1, <4>2, <4>3 DEF TypesInv, ProcessTypes
    <3> QED BY <3>1, <3>2, <1>f DEF TypesInv
  <2>3. CASE EngineStops \/ EnginePanics
    <3>1. UNCHANGED notifyVars
      BY <2>3 DEF EngineStops, EnginePanics
    <3>2. ProcessTypes'
      BY <1>2, <2>3 DEF EngineStops, EnginePanics, Notice, Errors, TypesInv, ProcessTypes
    <3> QED BY <3>1, <3>2, <1>f DEF TypesInv
  <2> QED BY <1>2, <2>1, <2>2, <2>3 DEF EngineStep
<1>3. CASE UNCHANGED hangs /\ WorkerStep
  <2>1. CASE WorkerWakes \/ WorkerStops \/ WorkerFlushed
    <3>1. UNCHANGED notifyVars
      BY <2>1 DEF WorkerWakes, WorkerStops, WorkerFlushed
    <3>2. ProcessTypes'
      <4>1. wake' \in [token : BOOLEAN, closed : BOOLEAN]
        BY <2>1 DEF WorkerWakes, WorkerStops, WorkerFlushed, TypesInv, ProcessTypes
      <4>2. worker' \in {"select", "flush", "delivering", "done"}
        BY <2>1 DEF WorkerWakes, WorkerStops, WorkerFlushed
      <4>3. lastFlush' \in BOOLEAN
        BY <2>1 DEF WorkerWakes, WorkerStops, WorkerFlushed, TypesInv, ProcessTypes
      <4>4. UNCHANGED <<main, cancelled, runErr, serverFailed, engine, panicked, earlyStop,
                        hangs>>
        BY <1>3, <2>1 DEF WorkerWakes, WorkerStops, WorkerFlushed
      <4> QED BY <4>1, <4>2, <4>3, <4>4 DEF TypesInv, ProcessTypes
    <3> QED BY <3>1, <3>2, <1>f DEF TypesInv
  <2>2. CASE WorkerTakes
    <3>1. ProcessTypes'
      BY <1>3, <2>2 DEF WorkerTakes, TypesInv, ProcessTypes
    <3> QED BY <2>2, <3>1, TakeTypes DEF WorkerTakes, TypesInv
  <2>3. CASE WorkerDelivers
    BY <1>3, <2>3, <1>p, DeliverTypes DEF WorkerDelivers, TypesInv
  <2> QED BY <1>3, <2>1, <2>2, <2>3 DEF WorkerStep
<1>4. CASE UNCHANGED hangs /\ MainStep
  <2>1. AttemptInv' /\ QueueTypes'
    <3>1. CASE UNCHANGED notifyVars
      BY <3>1, <1>f
    <3>2. CASE StopNotifier
      BY <3>2 DEF StopNotifier, queueVars, TypesInv, AttemptInv, QueueTypes
    <3> QED BY <1>4, <3>1, <3>2
            DEF MainStep, MainListens, MainCancels, MainStopsServer, MainSeesEngineDone,
                MainEngineTimeout, MainSeesWorkerDone, MainWorkerTimeout
  <2>2. CASE MainListens \/ MainCancels \/ MainStopsServer
    <3>1. ProcessTypes'
      <4>1. /\ runErr' \subseteq {"server", "engine", "shutdown", "engineTimeout"}
            /\ main' \in {"listening", "cancelling", "stopServer", "awaitEngine"}
            /\ cancelled' \in {cancelled, TRUE}
        BY <2>2 DEF MainListens, MainCancels, MainStopsServer, Errors, Causes, TypesInv,
                    ProcessTypes
      <4>2. UNCHANGED <<serverFailed, engine, wake, worker, lastFlush, panicked, earlyStop,
                        hangs>>
        BY <1>4, <2>2 DEF MainListens, MainCancels, MainStopsServer
      <4>3. cancelled' \in BOOLEAN
        BY <4>1 DEF TypesInv, ProcessTypes
      <4> QED BY <4>1, <4>2, <4>3 DEF TypesInv, ProcessTypes
    <3> QED BY <2>1, <3>1 DEF TypesInv
  <2>3. CASE ~(MainListens \/ MainCancels \/ MainStopsServer)
    <3>1. MainSeesEngineDone \/ MainEngineTimeout \/ MainSeesWorkerDone \/ MainWorkerTimeout
      BY <1>4, <2>3 DEF MainStep
    <3>2. main' \in {"awaitWorker", "exited"}
      BY <3>1 DEF MainSeesEngineDone, MainEngineTimeout, MainSeesWorkerDone, MainWorkerTimeout
    <3>3. wake' \in [token : BOOLEAN, closed : BOOLEAN]
      BY <3>1 DEF MainSeesEngineDone, MainEngineTimeout, MainSeesWorkerDone,
                  MainWorkerTimeout, TypesInv, ProcessTypes
    <3>4. runErr' \in {runErr, runErr \cup {"engineTimeout"}}
      BY <3>1 DEF MainSeesEngineDone, MainEngineTimeout, MainSeesWorkerDone, MainWorkerTimeout
    <3>5. UNCHANGED <<cancelled, serverFailed, engine, worker, lastFlush, panicked, earlyStop,
                      hangs>>
      BY <1>4, <3>1 DEF MainSeesEngineDone, MainEngineTimeout, MainSeesWorkerDone,
                        MainWorkerTimeout
    <3>6. ProcessTypes'
      BY <3>2, <3>3, <3>4, <3>5 DEF TypesInv, ProcessTypes
    <3> QED BY <2>1, <3>6 DEF TypesInv
  <2> QED BY <2>2, <2>3
<1>5. CASE UNCHANGED vars
  BY <1>5, <1>f, <1>p DEF vars, TypesInv
<1> QED BY <1>1, <1>2, <1>3, <1>4, <1>5 DEF Next

\* The processes keep their types for any alerts, and a report is never posted
\* more often than the network attempts allow, nor received more often than it
\* was posted (retryWithBackoff in utils.go).
THEOREM LifecycleTypes == Spec => []LifecycleTypeOK
<1> QED BY InitTypes, NextTypes, TypesAreOK, PTL DEF Spec

-----------------------------------------------------------------------------
(* The notifier among the processes.                                       *)

LEMMA NextRunsNotifier == [Next]_vars => [NotifyNext]_notifyVars
<1> SUFFICES ASSUME [Next]_vars PROVE [NotifyNext]_notifyVars
  OBVIOUS
<1>1. CASE Signal \/ ServerFails
  BY <1>1 DEF Signal, ServerFails
<1>2. CASE EngineStep \/ EnginePanics
  <2>1. CASE EngineDispatches
    BY <2>1 DEF EngineDispatches, NotifyNext
  <2>2. CASE EngineGathers \/ EngineEndsCycle \/ Wake \/ EngineTimer \/ EngineStops
               \/ EnginePanics
    BY <2>2 DEF EngineGathers, EngineEndsCycle, Wake, EngineTimer, EngineStops, EnginePanics
  <2> QED BY <1>2, <2>1, <2>2 DEF EngineStep
<1>3. CASE WorkerStep
  BY <1>3 DEF WorkerStep, WorkerWakes, WorkerStops, WorkerTakes, WorkerDelivers,
              WorkerFlushed, NotifyNext
<1>4. CASE MainStep
  BY <1>4 DEF MainStep, MainListens, MainCancels, MainStopsServer, MainSeesEngineDone,
              MainEngineTimeout, MainSeesWorkerDone, MainWorkerTimeout, NotifyNext
<1>5. CASE UNCHANGED vars
  BY <1>5 DEF vars
<1> QED BY <1>1, <1>2, <1>3, <1>4, <1>5 DEF Next

\* The engine, the worker and main use the notifier as Notify describes it, so what
\* holds of the notifier alone holds of the process.
THEOREM ProcessRunsNotifier == Spec => NotifySpec
<1>1. Init => NotifyInit
  BY DEF Init
<1> QED BY <1>1, NextRunsNotifier, PTL DEF Spec, NotifySpec

\* Hence the queue within the process keeps the first alerts in report order of those
\* that were raised since the last report, whatever engine, worker and main do.
THEOREM ProcessImplementsAlertQueue == Spec => ImplementsAlertQueue
BY ProcessRunsNotifier, NotifierImplementsAlertQueue

\* When the process has exited and no wait timed out, every alert it ever raised was
\* carried by a report whose delivery ended, or counted as omitted by one:
\* runWithLifecycleHooks closes the wake channel only after the engine has ended, and
\* the worker flushes once more after that.
THEOREM CleanExitReportsAll == Spec => []EveryAlertIsReported
<1>1. AccountInv /\ CleanShutdownFlushes => EveryAlertIsReported
  <2> SUFFICES ASSUME AccountInv, alertBatch = {}, report = NoReport
               PROVE  arrivals = MapThenSumSet(Weight, finished)
    BY DEF CleanShutdownFlushes, EveryAlertIsReported
  <2>1. offered = {}
    BY FS_EmptySet, NotifyAssumption DEF AccountInv, QInv, FirstOf
  <2>2. Cardinality(offered) = 0 /\ Weight(report) = 0 /\ Total(finished) \in Nat
    BY <2>1, FS_EmptySet, NoReportIsEmpty, WeightIsNatural DEF AccountInv
  <2> QED BY <2>2 DEF AccountInv, CountInv, Total
<1> QED BY <1>1, ProcessRunsNotifier, AccountInvariant, CleanExitFlushes, PTL
=============================================================================
