-------------------------- MODULE EventHeap_proofs --------------------------
(***************************************************************************)
(* What the two ways of reordering the event queue leave, for every clock, *)
(* capacity and comparison of events: the events it had, each once; what   *)
(* the counter shows a number of ticks after it had a value; and the order *)
(* in which the reorderings leave up to five events.                       *)
(***************************************************************************)
EXTENDS EventHeap, FunctionTheorems, SequenceTheorems, WellFoundedInduction, TLAPS

(* Every set of numbers that is not empty has a least one: the form in     *)
(* which the proofs do induction.                                          *)
LEMMA Least ==
  ASSUME NEW T, T \subseteq Nat, T # {}
  PROVE  \E x \in T : \A y \in T : x <= y
<1>1. \E x \in T : \A y \in T : <<y, x>> \notin OpToRel(<, Nat)
  BY NatLessThanWellFounded, WFMin
<1>2. \A x, y \in T : <<y, x>> \in OpToRel(<, Nat) <=> y < x
  BY DEF OpToRel
<1>3. \E x \in T : \A y \in T : ~(y < x)
  BY <1>1, <1>2, Zenon
<1>. QED
  BY <1>3


-----------------------------------------------------------------------------
(* A way through slots of S that begins with slot i and never comes back   *)
(* to one.                                                                 *)
Path(p, i, S) == /\ p \in Seq(S) /\ p # <<>> /\ p[1] = i
                 /\ \A k, m \in 1..Len(p) : p[k] = p[m] => k = m

LEMMA OneSlot == ASSUME NEW S, NEW i \in S PROVE Path(<<i>>, i, S)
  BY DEF Path

LEMMA OneMore ==
  ASSUME NEW S, NEW T, T \subseteq S, NEW i \in S \ T, NEW j, NEW p, Path(p, j, T)
  PROVE  Path(<<i>> \o p, i, S)
<1> DEFINE q == <<i>> \o p
<1>1. p \in Seq(T) /\ Len(p) \in Nat /\ \A k \in 1..Len(p) : p[k] \in T
  BY DEF Path
<1>2. q \in Seq(S) /\ Len(q) = 1 + Len(p)
  <2>1. <<i>> \in Seq(S) /\ p \in Seq(S) /\ Len(<<i>>) = 1
    BY <1>1
  <2>. QED
    BY <2>1
<1>3. q[1] = i /\ \A k \in 2..Len(q) : q[k] = p[k - 1]
  BY <1>1, <1>2
<1>4. ASSUME NEW k \in 1..Len(q), NEW m \in 1..Len(q), q[k] = q[m] PROVE k = m
  <2>1. CASE k = 1 /\ m = 1
    BY <2>1
  <2>2. ASSUME NEW l \in 2..Len(q) PROVE q[l] # q[1]
    BY <1>1, <1>2, <1>3
  <2>3. CASE k # 1 /\ m # 1
    <3>1. k - 1 \in 1..Len(p) /\ m - 1 \in 1..Len(p) /\ p[k - 1] = p[m - 1]
      BY <1>1, <1>2, <1>3, <1>4, <2>3
    <3>. QED
      BY <3>1 DEF Path
  <2>. QED
    BY <1>1, <1>2, <1>4, <2>1, <2>2, <2>3
<1>5. q # <<>>
  BY <1>1, <1>2
<1> HIDE DEF q
<1>6. Path(q, i, S)
  BY <1>2, <1>3, <1>4, <1>5 DEF Path
<1>. QED
  BY <1>6 DEF q
-----------------------------------------------------------------------------
(* Both recursive functions go from a slot to the next, as long as there   *)
(* is one, and the next slot has a lower rank: there is such a function.   *)
Follows(f, next) == f = [i \in Index |-> IF next[i] # i THEN <<i>> \o f[next[i]] ELSE <<i>>]

LEMMA FollowingExists ==
  ASSUME NEW next \in [Index -> Index], NEW rank \in [Index -> Index],
         \A i \in Index : next[i] # i => rank[next[i]] < rank[i]
  PROVE  \E f : Follows(f, next)
<1> DEFINE Below(n) == {i \in Index : rank[i] < n}
           Step(f, i) == IF next[i] # i THEN <<i>> \o f[next[i]] ELSE <<i>>
           Solves(f, n) == \A i \in Below(n) : f[i] = Step(f, i)
           T == {n \in Nat : ~\E f : Solves(f, n)}
<1>1. Capacity + 1 \notin T
  <2> SUFFICES ASSUME Capacity + 1 \in T PROVE FALSE
    OBVIOUS
  <2>1. PICK n \in T : \A m \in T : n <= m
    BY Least
  <2>2. CASE n = 0
    <3>1. Below(n) = {}
      BY <2>2 DEF Index
    <3>2. \A f : Solves(f, n)
      BY <3>1
    <3>. QED
      BY <3>2
  <2>3. CASE n # 0
    <3>1. n - 1 \in Nat /\ \E f : Solves(f, n - 1)
      <4>1. n - 1 \in Nat /\ ~(n <= n - 1)
        BY <2>3
      <4>2. n - 1 \notin T
        BY <2>1, <4>1, Zenon
      <4>. QED
        BY <4>1, <4>2, Zenon
    <3>2. PICK f : Solves(f, n - 1)
      BY <3>1
    <3> DEFINE g == [i \in Index |-> IF rank[i] < n - 1 THEN f[i] ELSE Step(f, i)]
    <3>3. ASSUME NEW i \in Below(n) PROVE g[i] = Step(g, i)
      <4>1. g[i] = Step(f, i)
        BY <3>1, <3>2
      <4>2. next[i] # i => rank[next[i]] < n - 1 /\ next[i] \in Index
        <5>1. i \in Index /\ rank[i] < n
          BY <3>3
        <5>2. rank[i] \in Nat /\ next[i] \in Index /\ rank[next[i]] \in Nat
          <6>1. \A m \in Index : m \in Nat
            BY CapacityAssumption DEF Index
          <6>. QED
            BY <5>1, <6>1
        <5>3. n \in Nat
          OBVIOUS
        <5>. QED
          BY <5>1, <5>2, <5>3
      <4>3. next[i] # i => g[next[i]] = f[next[i]]
        BY <4>2
      <4> HIDE DEF g
      <4>. QED
        BY <4>1, <4>3
    <3>4. Solves(g, n)
      BY <3>3
    <3>. QED
      BY <3>4
  <2>. QED
    BY <2>2, <2>3
<1>2. PICK f : Solves(f, Capacity + 1)
  BY <1>1, CapacityAssumption
<1>3. Below(Capacity + 1) = Index
  <2>1. \A i \in Index : rank[i] \in Index
    OBVIOUS
  <2>2. \A m \in Index : m < Capacity + 1
    BY CapacityAssumption DEF Index
  <2>. QED
    BY <2>1, <2>2
<1> DEFINE g == [i \in Index |-> f[i]]
<1>4. g = [i \in Index |-> Step(g, i)]
  <2>1. \A i \in Index : Step(f, i) = Step(g, i)
    OBVIOUS
  <2>. QED
    BY <1>2, <1>3, <2>1
<1>5. Follows(g, next)
  BY <1>4, Zenon DEF Follows
<1>. QED
  BY <1>5, Zenon

(* The slots it goes through are those the ranks allow, each once.         *)
LEMMA FollowingIsPath ==
  ASSUME NEW next \in [Index -> Index], NEW rank \in [Index -> Index],
         \A i \in Index : next[i] # i => rank[next[i]] < rank[i],
         NEW S, NEW s \in Index \cap S, \A i \in Index \cap S : next[i] \in S,
         NEW f, Follows(f, next)
  PROVE  Path(f[s], s, Index \cap S)
<1> DEFINE Below(i) == {j \in Index \cap S : rank[j] <= rank[i]}
           Good(i) == Path(f[i], i, Below(i))
           T == {n \in Nat : \E i \in Index \cap S : rank[i] = n /\ ~Good(i)}
<1>1. T = {}
  <2> SUFFICES ASSUME T # {} PROVE FALSE
    OBVIOUS
  <2>1. PICK n \in T : \A m \in T : n <= m
    BY Least
  <2>2. PICK i \in Index \cap S : rank[i] = n /\ ~Good(i)
    OBVIOUS
  <2>3. i \in Below(i)
    BY DEF Index
  <2>4. CASE next[i] = i
    <3>1. f[i] = <<i>>
      BY <2>4 DEF Follows
    <3>. QED
      BY <2>2, <2>3, <3>1, OneSlot
  <2>5. CASE next[i] # i
    <3>1. f[i] = <<i>> \o f[next[i]]
      BY <2>5 DEF Follows
    <3>2. rank[next[i]] < rank[i] /\ next[i] \in Index \cap S /\ rank[next[i]] \in Nat
      BY <2>5 DEF Index
    <3>3. Good(next[i])
      <4>1. rank[next[i]] \notin T
        <5>1. ~(n <= rank[next[i]])
          <6>1. rank[i] = n
            BY <2>2
          <6>2. n \in Nat
            OBVIOUS
          <6>. QED
            BY <6>1, <6>2, <3>2
        <5>. QED
          BY <5>1, <2>1, Zenon
      <4>. QED
        BY <4>1, <3>2, Zenon
    <3>4. Below(next[i]) \subseteq Below(i) /\ i \in Below(i) \ Below(next[i])
      BY <2>3, <3>2 DEF Index
    <3>. QED
      BY <2>2, <3>1, <3>3, <3>4, OneMore
  <2>. QED
    BY <2>4, <2>5
<1>2. rank[s] \in Nat
  BY DEF Index
<1>3. Path(f[s], s, Below(s))
  BY <1>1, <1>2
<1>4. Below(s) \subseteq Index \cap S
  OBVIOUS
<1>. QED
  BY <1>3, <1>4 DEF Path
-----------------------------------------------------------------------------
(* The recursive functions of ClimbPath and SinkPath, as equations.        *)
Climbs(f, now, events, x) ==
  f = [i \in Index |-> IF i > 0 /\ Closer(now, x, events[PARENT(i)])
                       THEN <<i>> \o f[PARENT(i)]
                       ELSE <<i>>]

Sinks(f, q, now, x) ==
  f = [i \in Index |-> IF Largest(q, now, x, i) # i
                       THEN <<i>> \o f[Largest(q, now, x, i)]
                       ELSE <<i>>]

LEMMA Halves ==
  ASSUME NEW i \in Nat, i > 0
  PROVE  PARENT(i) \in Nat /\ PARENT(i) < i
  BY Z3 DEF PARENT

(* The recursive function of ClimbPath exists and solves its equation; it  *)
(* goes on to a slot before, or ends.                                      *)
LEMMA ClimbSolved ==
  ASSUME NEW now, NEW events, NEW x
  PROVE  \E f, next :
           /\ next \in [Index -> Index] /\ \A i \in Index : next[i] # i => next[i] < i
           /\ Follows(f, next) /\ Climbs(f, now, events, x)
           /\ \A idx \in Index : ClimbPath(now, events, x, idx) = f[idx]
<1> DEFINE Up(i) == i > 0 /\ Closer(now, x, events[PARENT(i)])
           next == [i \in Index |-> IF Up(i) THEN PARENT(i) ELSE i]
           rank == [i \in Index |-> i]
           c == CHOOSE f : f = [i \in Index |-> IF i > 0 /\ Closer(now, x, events[PARENT(i)])
                                                THEN <<i>> \o f[PARENT(i)]
                                                ELSE <<i>>]
<1>1. ASSUME NEW i \in Index, Up(i) PROVE PARENT(i) \in Index /\ PARENT(i) < i
  <2>1. i \in Nat /\ i > 0 /\ i <= Capacity /\ Capacity \in Nat
    BY <1>1, CapacityAssumption DEF Index
  <2>2. PARENT(i) \in Nat /\ PARENT(i) < i
    BY <2>1, Halves
  <2>. QED
    BY <2>1, <2>2 DEF Index
<1> HIDE DEF Up
<1>2. next \in [Index -> Index] /\ rank \in [Index -> Index]
  BY <1>1
<1>3. \A i \in Index : next[i] # i => next[i] < i /\ rank[next[i]] < rank[i]
  BY <1>1
<1>4. \A i \in Index : (next[i] # i) <=> Up(i)
  <2>1. \A i \in Index : i \in Nat
    BY CapacityAssumption DEF Index
  <2>2. ASSUME NEW i \in Index, Up(i) PROVE next[i] # i
    <3>1. next[i] = PARENT(i)
      BY <2>2
    <3>. QED
      BY <3>1, <1>1, <2>1, <2>2
  <2>. QED
    BY <2>2
<1>5. \A f : Follows(f, next) <=> Climbs(f, now, events, x)
  <2>1. ASSUME NEW f, NEW i \in Index
        PROVE  (IF next[i] # i THEN <<i>> \o f[next[i]] ELSE <<i>>) =
               (IF Up(i) THEN <<i>> \o f[PARENT(i)] ELSE <<i>>)
    BY <1>4
  <2> HIDE DEF next
  <2>. QED
    BY <2>1, Zenon DEF Follows, Climbs, Up
<1> HIDE DEF next, rank
<1>6. \E f : Climbs(f, now, events, x)
  <2>1. \E f : Follows(f, next)
    BY <1>2, <1>3, FollowingExists
  <2>. QED
    BY <1>5, <2>1, Zenon
<1>7. Climbs(c, now, events, x)
  BY <1>6, Zenon DEF Climbs
<1>8. \A idx \in Index : ClimbPath(now, events, x, idx) = c[idx]
  BY Zenon DEF ClimbPath
<1> HIDE DEF c
<1>9. Follows(c, next)
  BY <1>5, <1>7, Zenon
<1>. QED
  BY <1>2, <1>3, <1>7, <1>8, <1>9

(* event_prioritify climbs slots of the queue and does not come back.      *)
LEMMA ClimbIsPath ==
  ASSUME NEW now, NEW events, NEW x, NEW idx \in Index
  PROVE  Path(ClimbPath(now, events, x, idx), idx, 0..idx)
<1> DEFINE rank == [i \in Index |-> i]
<1>1. PICK f, next :
           /\ next \in [Index -> Index] /\ \A i \in Index : next[i] # i => next[i] < i
           /\ Follows(f, next)
           /\ ClimbPath(now, events, x, idx) = f[idx]
  BY ClimbSolved
<1>2. rank \in [Index -> Index] /\ \A i \in Index : next[i] # i => rank[next[i]] < rank[i]
  BY <1>1
<1>3. /\ idx \in Nat /\ Index \cap (0..idx) = 0..idx /\ idx \in Index \cap (0..idx)
      /\ \A i \in Index : i \in Nat
  BY CapacityAssumption DEF Index
<1>4. ASSUME NEW i \in Index \cap (0..idx) PROVE next[i] \in 0..idx
  <2>1. i \in Index /\ next[i] \in Index /\ i <= idx
    BY <1>1, <1>3
  <2>2. next[i] \in Nat /\ i \in Nat /\ (next[i] = i \/ next[i] < i)
    BY <1>1, <1>3, <2>1
  <2>. QED
    BY <1>3, <2>1, <2>2
<1> HIDE DEF rank
<1>5. Path(f[idx], idx, Index \cap (0..idx))
  BY <1>1, <1>2, <1>3, <1>4, FollowingIsPath
<1>. QED
  BY <1>1, <1>3, <1>5

(* One step of the climb.                                                  *)
LEMMA ClimbsOn ==
  ASSUME NEW now, NEW events, NEW x, NEW i \in Index
  PROVE  /\ i > 0 /\ Closer(now, x, events[PARENT(i)]) =>
              ClimbPath(now, events, x, i) = <<i>> \o ClimbPath(now, events, x, PARENT(i))
         /\ ~(i > 0 /\ Closer(now, x, events[PARENT(i)])) =>
              ClimbPath(now, events, x, i) = <<i>>
<1>1. PICK f, next :
           /\ next \in [Index -> Index] /\ \A j \in Index : next[j] # j => next[j] < j
           /\ Follows(f, next) /\ Climbs(f, now, events, x)
           /\ \A idx \in Index : ClimbPath(now, events, x, idx) = f[idx]
  BY ClimbSolved
<1>2. f[i] = IF i > 0 /\ Closer(now, x, events[PARENT(i)])
             THEN <<i>> \o f[PARENT(i)] ELSE <<i>>
  BY <1>1, Zenon DEF Climbs
<1>3. i > 0 => PARENT(i) \in Index
  <2>1. i \in Nat /\ i <= Capacity /\ Capacity \in Nat
    BY CapacityAssumption DEF Index
  <2>2. i > 0 => PARENT(i) \in Nat /\ PARENT(i) < i
    BY <2>1, Halves
  <2>. QED
    BY <2>1, <2>2 DEF Index
<1>. QED
  BY <1>1, <1>2, <1>3, Zenon

(* The recursive function of SinkPath exists and solves its equation; it   *)
(* goes on to a slot after, within the queue, or ends.                     *)
LEMMA SinkSolved ==
  ASSUME NEW q, q.size \in 1..(Capacity + 1), NEW now, NEW x
  PROVE  \E f, next :
           /\ next \in [Index -> Index] /\ \A i \in Index : next[i] # i => next[i] > i
           /\ \A i \in Index \cap (0..(q.size - 1)) : next[i] \in 0..(q.size - 1)
           /\ \A i \in Index : next[i] = Largest(q, now, x, i)
           /\ Follows(f, next) /\ Sinks(f, q, now, x)
           /\ SinkPath(q, now, x) = f[0]
<1> DEFINE S == 0..(q.size - 1)
           next == [i \in Index |-> Largest(q, now, x, i)]
           rank == [i \in Index |-> Capacity - i]
           c == CHOOSE f : f = [i \in Index |-> IF Largest(q, now, x, i) # i
                                                THEN <<i>> \o f[Largest(q, now, x, i)]
                                                ELSE <<i>>]
<1>1. ASSUME NEW i \in Index
      PROVE  /\ Largest(q, now, x, i) \in Index
             /\ Largest(q, now, x, i) # i => Largest(q, now, x, i) > i
             /\ i \in S => Largest(q, now, x, i) \in S
  <2>1. i \in Nat /\ i <= Capacity /\ Capacity \in Nat /\ q.size \in Nat /\ q.size <= Capacity + 1
    BY CapacityAssumption DEF Index
  <2>2. \/ Largest(q, now, x, i) = i
        \/ Largest(q, now, x, i) = LEFT(i) /\ LEFT(i) < q.size
        \/ Largest(q, now, x, i) = RIGHT(i) /\ RIGHT(i) < q.size
    BY Zenon DEF Largest
  <2>3. LEFT(i) \in Nat /\ LEFT(i) > i /\ RIGHT(i) \in Nat /\ RIGHT(i) > i
    BY <2>1 DEF LEFT, RIGHT
  <2> HIDE DEF S
  <2>4. Largest(q, now, x, i) \in Nat /\ (Largest(q, now, x, i) = i \/ (Largest(q, now, x, i) > i /\ Largest(q, now, x, i) < q.size))
    BY <2>1, <2>2, <2>3
  <2>. QED
    BY <2>1, <2>4 DEF Index, S
<1>2. next \in [Index -> Index] /\ rank \in [Index -> Index]
  <2>1. \A i \in Index : Capacity - i \in Index
    BY CapacityAssumption DEF Index
  <2>. QED
    BY <1>1, <2>1
<1>3. \A i \in Index : next[i] # i => next[i] > i /\ rank[next[i]] < rank[i]
  <2>1. \A i, j \in Index : i > j => Capacity - i < Capacity - j
    BY CapacityAssumption DEF Index
  <2>. QED
    BY <1>1, <2>1
<1>4. \A i \in Index : next[i] = Largest(q, now, x, i) /\ (i \in S => next[i] \in S)
  BY <1>1
<1>5. \A f : Follows(f, next) <=> Sinks(f, q, now, x)
  <2>1. ASSUME NEW f, NEW i \in Index
        PROVE  (IF next[i] # i THEN <<i>> \o f[next[i]] ELSE <<i>>) =
               (IF Largest(q, now, x, i) # i THEN <<i>> \o f[Largest(q, now, x, i)] ELSE <<i>>)
    BY Zenon
  <2> HIDE DEF next
  <2>. QED
    BY <2>1, Zenon DEF Follows, Sinks
<1> HIDE DEF next, rank
<1>6. \E f : Sinks(f, q, now, x)
  <2>1. \E f : Follows(f, next)
    BY <1>2, <1>3, FollowingExists
  <2>. QED
    BY <1>5, <2>1, Zenon
<1>7. Sinks(c, q, now, x)
  BY <1>6, Zenon DEF Sinks
<1>8. SinkPath(q, now, x) = c[0]
  BY Zenon DEF SinkPath
<1> HIDE DEF c
<1>9. Follows(c, next)
  BY <1>5, <1>7, Zenon
<1>10. \A i \in Index \cap S : next[i] \in S
  BY <1>4
<1>11. \A i \in Index : next[i] = Largest(q, now, x, i)
  BY <1>4
<1>12. \A i \in Index : next[i] # i => next[i] > i
  BY <1>3
<1>. QED
  BY <1>2, <1>7, <1>8, <1>9, <1>10, <1>11, <1>12, Zenon

(* event_heapify descends slots of the queue and does not come back.       *)
LEMMA SinkIsPath ==
  ASSUME NEW q, q.size \in 1..(Capacity + 1), NEW now, NEW x
  PROVE  Path(SinkPath(q, now, x), 0, Index \cap (0..(q.size - 1)))
<1> DEFINE S == 0..(q.size - 1)
           rank == [i \in Index |-> Capacity - i]
<1>1. PICK f, next :
           /\ next \in [Index -> Index] /\ \A i \in Index : next[i] # i => next[i] > i
           /\ \A i \in Index \cap S : next[i] \in S
           /\ Follows(f, next)
           /\ SinkPath(q, now, x) = f[0]
  BY SinkSolved
<1>2. rank \in [Index -> Index]
  BY CapacityAssumption DEF Index
<1>3. \A i \in Index : next[i] # i => rank[next[i]] < rank[i]
  <2>1. \A i, j \in Index : i > j => Capacity - i < Capacity - j
    BY CapacityAssumption DEF Index
  <2>. QED
    BY <1>1, <2>1
<1>4. 0 \in Index \cap S
  BY CapacityAssumption DEF Index
<1> HIDE DEF rank, S
<1>5. Path(f[0], 0, Index \cap S)
  BY <1>1, <1>2, <1>3, <1>4, FollowingIsPath
<1>. QED
  BY <1>1, <1>5 DEF S
-----------------------------------------------------------------------------
(* An array whose first slots m rearranges.                                *)
Rearranged(r, e, S, m) == /\ m \in Bijection(S, S)
                          /\ \A i \in S : r[i] = e[m[i]]

(* To move an event along a path is to rearrange what the slots hold once  *)
(* the first slot of the path has been given that event.                   *)
LEMMA AlongRearranges ==
  ASSUME NEW e, NEW S, S \subseteq DOMAIN e, NEW i \in S, NEW p, Path(p, i, S), NEW x
  PROVE  /\ \E m : Rearranged(Along(e, p, x), [e EXCEPT ![i] = x], S, m)
         /\ DOMAIN Along(e, p, x) = DOMAIN e
         /\ \A j \in DOMAIN e \ S : Along(e, p, x)[j] = e[j]
<1> DEFINE OnPath(j) == \E k \in DOMAIN p : p[k] = j
           Step(j) == CHOOSE k \in DOMAIN p : p[k] = j
           m == [j \in S |-> IF OnPath(j)
                             THEN IF Step(j) = Len(p) THEN p[1] ELSE p[Step(j) + 1]
                             ELSE j]
           a == Along(e, p, x)
<1>1. /\ DOMAIN p = 1..Len(p) /\ Len(p) \in Nat /\ Len(p) >= 1 /\ p[1] = i
      /\ \A k \in 1..Len(p) : p[k] \in S
      /\ \A k, l \in 1..Len(p) : p[k] = p[l] => k = l
  BY DEF Path
<1>2. \A j : OnPath(j) => Step(j) \in 1..Len(p) /\ p[Step(j)] = j
  BY <1>1, Zenon
<1>3. \A k \in 1..Len(p) : OnPath(p[k]) /\ Step(p[k]) = k
  <2>1. ASSUME NEW k \in 1..Len(p) PROVE OnPath(p[k])
    BY <1>1, Zenon
  <2>. QED
    BY <1>1, <1>2, <2>1, Zenon
<1>4. a = [j \in DOMAIN e |-> IF OnPath(j)
                              THEN IF Step(j) = Len(p) THEN x ELSE e[p[Step(j) + 1]]
                              ELSE e[j]]
  BY Zenon DEF Along
<1> HIDE DEF OnPath, Step, a
<1>5. ASSUME NEW j \in S PROVE m[j] \in S
  BY <1>1, <1>2
<1>6. ASSUME NEW j \in S PROVE a[j] = [e EXCEPT ![i] = x][m[j]]
  <2>1. CASE ~OnPath(j)
    <3>1. j # i
      BY <1>1, <1>3, <2>1
    <3>. QED
      BY <1>4, <2>1, <3>1
  <2>2. CASE OnPath(j) /\ Step(j) = Len(p)
    BY <1>1, <1>4, <2>2
  <2>3. CASE OnPath(j) /\ Step(j) # Len(p)
    <3>1. Step(j) + 1 \in 1..Len(p) /\ Step(j) + 1 # 1
      BY <1>1, <1>2, <2>3
    <3>2. p[Step(j) + 1] # i
      BY <1>1, <3>1
    <3>. QED
      BY <1>1, <1>4, <2>3, <3>1, <3>2
  <2>. QED
    BY <2>1, <2>2, <2>3
<1>7. ASSUME NEW j \in S, NEW k \in S, m[j] = m[k] PROVE j = k
  <2>1. ASSUME NEW l \in S, OnPath(l) PROVE OnPath(m[l])
    BY <1>1, <1>2, <1>3, <2>1
  <2>2. CASE ~OnPath(j) \/ ~OnPath(k)
    BY <1>7, <2>1, <2>2
  <2>3. CASE OnPath(j) /\ OnPath(k)
    <3>1. Step(j) \in 1..Len(p) /\ Step(k) \in 1..Len(p) /\ p[Step(j)] = j /\ p[Step(k)] = k
      BY <1>2, <2>3
    <3>2. ASSUME NEW l \in S, OnPath(l)
          PROVE  /\ Step(l) = Len(p) => m[l] = p[1]
                 /\ Step(l) # Len(p) => m[l] = p[Step(l) + 1] /\ Step(l) + 1 \in 2..Len(p)
      BY <1>1, <1>2, <3>2
    <3>3. Step(j) = Step(k)
      <4> HIDE DEF m
      <4>1. CASE Step(j) = Len(p) /\ Step(k) # Len(p)
        <5>1. p[1] = p[Step(k) + 1] /\ Step(k) + 1 \in 2..Len(p)
          BY <1>7, <2>3, <3>2, <4>1
        <5>. QED
          BY <1>1, <5>1
      <4>2. CASE Step(j) # Len(p) /\ Step(k) = Len(p)
        <5>1. p[1] = p[Step(j) + 1] /\ Step(j) + 1 \in 2..Len(p)
          BY <1>7, <2>3, <3>2, <4>2
        <5>. QED
          BY <1>1, <5>1
      <4>3. CASE Step(j) # Len(p) /\ Step(k) # Len(p)
        <5>1. p[Step(j) + 1] = p[Step(k) + 1] /\ Step(j) + 1 \in 2..Len(p) /\ Step(k) + 1 \in 2..Len(p)
          BY <1>7, <2>3, <3>2, <4>3
        <5>2. Step(j) + 1 = Step(k) + 1
          BY <1>1, <5>1
        <5>. QED
          BY <3>1, <5>2
      <4>. QED
        BY <4>1, <4>2, <4>3
    <3>. QED
      BY <3>1, <3>3
  <2>. QED
    BY <2>2, <2>3
<1>8. ASSUME NEW j \in S PROVE \E k \in S : m[k] = j
  <2>1. CASE ~OnPath(j)
    BY <2>1
  <2>2. CASE j = i
    <3>1. p[Len(p)] \in S /\ OnPath(p[Len(p)]) /\ Step(p[Len(p)]) = Len(p)
      BY <1>1, <1>3
    <3>. QED
      BY <1>1, <2>2, <3>1
  <2>3. CASE OnPath(j) /\ j # i
    <3>1. Step(j) \in 1..Len(p) /\ p[Step(j)] = j /\ Step(j) # 1
      BY <1>1, <1>2, <2>3
    <3>2. Step(j) - 1 \in 1..Len(p) /\ Step(j) - 1 # Len(p) /\ (Step(j) - 1) + 1 = Step(j)
      BY <1>1, <3>1
    <3> DEFINE k == p[Step(j) - 1]
    <3>3. k \in S /\ OnPath(k) /\ Step(k) = Step(j) - 1
      BY <1>1, <1>3, <3>2
    <3> HIDE DEF k
    <3>4. m[k] = j
      BY <3>1, <3>2, <3>3
    <3>. QED
      BY <3>3, <3>4
  <2>. QED
    BY <2>1, <2>2, <2>3
<1> HIDE DEF m
<1>9. m \in [S -> S]
  BY <1>5 DEF m
<1>10. m \in Bijection(S, S)
  BY <1>7, <1>8, <1>9, Fun_IsBij
<1>11. Rearranged(a, [e EXCEPT ![i] = x], S, m)
  BY <1>6, <1>10 DEF Rearranged
<1>12. DOMAIN a = DOMAIN e
  BY <1>4
<1>13. ASSUME NEW j \in DOMAIN e \ S PROVE a[j] = e[j]
  <2>1. ~OnPath(j)
    BY <1>1, <1>13 DEF OnPath
  <2>. QED
    BY <1>4, <2>1
<1>. QED
  BY <1>11, <1>12, <1>13 DEF a
-----------------------------------------------------------------------------
(* event_prioritify adds the event it is given to those the queue holds,   *)
(* in an order of its own, and writes no slot beyond the new last one.     *)
LEMMA PrioritifyRearranges ==
  ASSUME NEW q, q.events \in [Index -> Event], q.size \in Index, NEW now, NEW x \in Event,
         NEW r, r = event_prioritify(q, now, x)
  PROVE  /\ r.size = q.size + 1 /\ r.events \in [Index -> Event]
         /\ r = [size |-> r.size, events |-> r.events]
         /\ \E m \in Bijection(0..q.size, 0..q.size) : \A i \in 0..q.size :
              r.events[i] = IF m[i] = q.size THEN x ELSE q.events[m[i]]
         /\ \A i \in Index : i > q.size => r.events[i] = q.events[i]
<1> DEFINE S == 0..q.size
           p == ClimbPath(now, q.events, x, q.size)
           a == Along(q.events, p, x)
<1>1. Path(p, q.size, S)
  BY ClimbIsPath
<1>2. r.size = q.size + 1 /\ r.events = a /\ r = [size |-> r.size, events |-> r.events]
  BY DEF event_prioritify
<1>3. q.size \in S /\ S \subseteq Index /\ DOMAIN q.events = Index
  BY CapacityAssumption DEF Index
<1> HIDE DEF a, p, S
<1>4. /\ \E m : Rearranged(a, [q.events EXCEPT ![q.size] = x], S, m)
      /\ DOMAIN a = Index
      /\ \A i \in Index \ S : a[i] = q.events[i]
  BY <1>1, <1>3, AlongRearranges DEF a
<1>5. PICK m : Rearranged(a, [q.events EXCEPT ![q.size] = x], S, m)
  BY <1>4
<1>6. m \in Bijection(S, S) /\ \A i \in S : a[i] = [q.events EXCEPT ![q.size] = x][m[i]]
  BY <1>5 DEF Rearranged
<1>7. \A i \in S : m[i] \in S
  BY <1>6, Fun_BijectionProperties
<1>8. \A i \in S : a[i] = IF m[i] = q.size THEN x ELSE q.events[m[i]]
  BY <1>3, <1>6, <1>7
<1>9. \A i \in Index : a[i] \in Event
  BY <1>3, <1>4, <1>7, <1>8
<1>10. a \in [Index -> Event]
  <2>1. a = [i \in Index |-> a[i]]
    BY <1>4, Zenon DEF a, Along
  <2>. QED
    BY <1>9, <2>1
<1>11. \A i \in Index : i > q.size => i \notin S
  BY CapacityAssumption DEF Index, S
<1>. QED
  BY <1>2, <1>4, <1>6, <1>8, <1>10, <1>11 DEF S

LEMMA NullIsEvent == null_event \in Event
  BY WrapAssumption DEF null_event, Event, Word

(* Scheduler_dequeue takes out the first event and keeps the others, in an *)
(* order of its own; it empties the last slot and writes none beyond it.   *)
LEMMA DequeuedRearranges ==
  ASSUME NEW q, q.events \in [Index -> Event], q.size \in 1..(Capacity + 1), NEW now,
         NEW r, r = Dequeued(q, now)
  PROVE  /\ r.size = q.size - 1 /\ r.events \in [Index -> Event]
         /\ r = [size |-> r.size, events |-> r.events]
         /\ \E m \in Bijection(0..(q.size - 2), 1..(q.size - 1)) :
              \A i \in 0..(q.size - 2) : r.events[i] = q.events[m[i]]
         /\ r.events[q.size - 1] = null_event
         /\ \A i \in Index : i >= q.size => r.events[i] = q.events[i]
<1> DEFINE last == q.size - 1
           popped == [size   |-> last,
                      events |-> IF last = 0
                                 THEN [q.events EXCEPT ![0] = null_event]
                                 ELSE [q.events EXCEPT ![0] = q.events[last],
                                                       ![last] = null_event]]
<1>1. r = IF popped.size > 1 THEN event_heapify(popped, now) ELSE popped
  BY DEF Dequeued
<1>2. /\ last \in Nat /\ last \in Index /\ 0 \in Index /\ q.size = last + 1
      /\ \A i \in Index : i \in Nat
      /\ Capacity \in Nat /\ last <= Capacity
  BY CapacityAssumption DEF Index
<1>3. popped.size = last /\ popped.events \in [Index -> Event]
  BY <1>2, NullIsEvent
<1>4. /\ popped.events[last] = null_event
      /\ last # 0 => popped.events[0] = q.events[last]
      /\ \A i \in Index : i # 0 /\ i # last => popped.events[i] = q.events[i]
  BY <1>2
<1> DEFINE S == 0..(last - 1)
           f == [i \in S |-> IF i = 0 THEN last ELSE i]
<1>5. popped = [size |-> popped.size, events |-> popped.events]
  OBVIOUS
<1> HIDE DEF popped
<1>6. /\ \E m \in Bijection(S, S) : \A i \in S : r.events[i] = popped.events[m[i]]
      /\ r.size = last /\ DOMAIN r.events = Index
      /\ r.events = [i \in Index |-> r.events[i]]
      /\ \A i \in Index \ S : r.events[i] = popped.events[i]
      /\ r = [size |-> r.size, events |-> r.events]
  <2>1. CASE last > 1
    <3> DEFINE p == SinkPath(popped, now, popped.events[0])
               a == Along(popped.events, p, popped.events[0])
    <3>1. r = [popped EXCEPT !.events = a]
      BY <1>1, <1>3, <2>1 DEF event_heapify
    <3>2. r.size = last /\ r.events = a /\ r = [size |-> r.size, events |-> r.events]
      <4> HIDE DEF a
      <4>. QED
        BY <1>3, <1>5, <3>1
    <3>3. Index \cap (0..(popped.size - 1)) = S /\ 0 \in S /\ S \subseteq DOMAIN popped.events
      BY <1>2, <1>3, <2>1 DEF Index
    <3>4. popped.size \in 1..(Capacity + 1)
      BY <1>2, <1>3, <2>1
    <3>5. Path(p, 0, S)
      BY <3>3, <3>4, SinkIsPath
    <3>6. [popped.events EXCEPT ![0] = popped.events[0]] = popped.events
      BY <1>2, <1>3
    <3> HIDE DEF p, S
    <3>7. /\ \E m : Rearranged(a, popped.events, S, m)
          /\ DOMAIN a = Index /\ \A i \in Index \ S : a[i] = popped.events[i]
      <4>1. DOMAIN popped.events = Index
        BY <1>3
      <4> HIDE DEF a
      <4>. QED
        BY <3>3, <3>5, <3>6, <4>1, AlongRearranges DEF a
    <3>8. a = [i \in Index |-> a[i]]
      BY <3>7, Zenon DEF Along
    <3> HIDE DEF a
    <3>. QED
      BY <3>2, <3>7, <3>8 DEF Rearranged
  <2>2. CASE ~(last > 1)
    <3>1. r = popped
      BY <1>1, <1>3, <2>2
    <3> DEFINE id == [i \in S |-> i]
    <3>2. id \in Bijection(S, S)
      <4>1. id \in [S -> S] /\ (\A i, j \in S : id[i] = id[j] => i = j) /\ \A j \in S : \E i \in S : id[i] = j
        OBVIOUS
      <4> HIDE DEF id
      <4>. QED
        BY <4>1, Fun_IsBij
    <3>3. \A i \in S : r.events[i] = popped.events[id[i]]
      BY <3>1
    <3>. QED
      BY <1>3, <1>5, <3>1, <3>2, <3>3
  <2>. QED
    BY <2>1, <2>2
<1>7. PICK m \in Bijection(S, S) : \A i \in S : r.events[i] = popped.events[m[i]]
  BY <1>6
<1>8. \A i \in S : m[i] \in S
  <2> HIDE DEF S
  <2>. QED
    BY <1>7, Fun_BijectionProperties
<1>9. f \in Bijection(S, 1..last)
  <2>1. \A i \in S : i \in Nat /\ i < last
    BY <1>2
  <2>2. f \in [S -> 1..last]
    BY <1>2, <2>1
  <2>3. \A i, j \in S : f[i] = f[j] => i = j
    BY <1>2, <2>1
  <2>4. ASSUME NEW j \in 1..last PROVE \E i \in S : f[i] = j
    <3>1. CASE j = last
      <4>1. 0 \in S /\ f[0] = j
        BY <1>2, <3>1
      <4>. QED
        BY <4>1
    <3>2. CASE j # last
      <4>1. j \in S /\ f[j] = j
        BY <1>2, <3>2
      <4>. QED
        BY <4>1
    <3>. QED
      BY <3>1, <3>2
  <2> HIDE DEF f, S
  <2>. QED
    BY <2>2, <2>3, <2>4, Fun_IsBij
<1> DEFINE g == [i \in S |-> f[m[i]]]
<1>10. g \in Bijection(S, 1..last)
  BY <1>7, <1>9, Fun_BijTransitive
<1>11. ASSUME NEW i \in S PROVE popped.events[i] = q.events[f[i]]
  <2>1. i \in Nat /\ i < last /\ i \in Index
    BY <1>2 DEF Index
  <2>. QED
    BY <1>2, <1>4, <2>1
<1>12. \A i \in S : r.events[i] = q.events[g[i]]
  BY <1>7, <1>8, <1>11
<1>13. \A i \in Index : i >= last => i \notin S
  BY <1>2
<1>14. r.events[last] = null_event
  BY <1>2, <1>4, <1>6, <1>13
<1>15. ASSUME NEW i \in Index, i >= q.size PROVE r.events[i] = q.events[i]
  <2>1. i \notin S /\ i # 0 /\ i # last
    BY <1>2, <1>15
  <2>. QED
    BY <1>4, <1>6, <2>1
<1>16. \A i \in Index : r.events[i] \in Event
  <2>1. S \subseteq Index
    BY <1>2 DEF Index
  <2> HIDE DEF S
  <2>. QED
    BY <1>3, <1>6, <1>7, <1>8, <2>1
<1>17. r.events \in [Index -> Event]
  BY <1>6, <1>16
<1>18. S = 0..(q.size - 2) /\ last = q.size - 1
  BY <1>2
<1> HIDE DEF g, S, f, last
<1>. QED
  BY <1>6, <1>10, <1>12, <1>14, <1>15, <1>17, <1>18
-----------------------------------------------------------------------------
(* The slots of a queue that hold an event of client c, and how many they  *)
(* are, as far as the proofs tell: none, one, or more.                     *)
SlotsOf(q, c) == {i \in 0..(q.size - 1) : q.events[i].callback = c}

One(A) == \E i : A = {i}

AsMany(A, B) == (A = {} <=> B = {}) /\ (One(A) <=> One(B))

LEMMA Renamed ==
  ASSUME NEW S, NEW T, NEW m \in Bijection(S, T), NEW A, NEW B, A \subseteq S, B \subseteq T,
         \A i \in S : i \in A <=> m[i] \in B
  PROVE  AsMany(A, B)
<1>1. m \in [S -> T] /\ (\A i, j \in S : m[i] = m[j] => i = j) /\ \A j \in T : \E i \in S : m[i] = j
  BY Fun_BijectionProperties
<1>2. A = {} <=> B = {}
  BY <1>1
<1>3. ASSUME NEW i, A = {i} PROVE B = {m[i]}
  <2>1. i \in S /\ m[i] \in B
    BY <1>3
  <2>2. ASSUME NEW j \in B PROVE j = m[i]
    <3>1. PICK k \in S : m[k] = j
      BY <1>1
    <3>. QED
      BY <1>3, <3>1
  <2>. QED
    BY <2>1, <2>2
<1>4. ASSUME NEW j, B = {j} PROVE \E i : A = {i}
  <2>1. PICK i \in S : m[i] = j
    BY <1>1, <1>4
  <2>2. i \in A
    BY <1>4, <2>1
  <2>3. ASSUME NEW k \in A PROVE k = i
    BY <1>1, <1>4, <2>1
  <2>. QED
    BY <2>2, <2>3
<1>. QED
  BY <1>2, <1>3, <1>4 DEF AsMany, One

(* event_prioritify loses and duplicates no event.                         *)
LEMMA PrioritifyKeeps ==
  ASSUME NEW q, q.events \in [Index -> Event], q.size \in Index, NEW now, NEW x \in Event,
         NEW c
  PROVE  AsMany(SlotsOf(event_prioritify(q, now, x), c),
                SlotsOf(q, c) \cup (IF x.callback = c THEN {q.size} ELSE {}))
<1> DEFINE r == event_prioritify(q, now, x)
           S == 0..q.size
           A == SlotsOf(r, c)
           B == SlotsOf(q, c) \cup (IF x.callback = c THEN {q.size} ELSE {})
<1> HIDE DEF r
<1>1. /\ r.size = q.size + 1
      /\ \E m \in Bijection(S, S) : \A i \in S :
           r.events[i] = IF m[i] = q.size THEN x ELSE q.events[m[i]]
  BY PrioritifyRearranges DEF r
<1>2. PICK m \in Bijection(S, S) : \A i \in S :
           r.events[i] = IF m[i] = q.size THEN x ELSE q.events[m[i]]
  BY <1>1
<1>3. q.size \in Nat
  BY CapacityAssumption DEF Index
<1>4. S = 0..(r.size - 1) /\ q.size \in S /\ \A j \in S : j # q.size <=> j \in 0..(q.size - 1)
  BY <1>1, <1>3
<1>5. A = {i \in S : r.events[i].callback = c}
  BY <1>4 DEF SlotsOf
<1>6. \A j \in S : j \in B <=> IF j = q.size THEN x.callback = c ELSE q.events[j].callback = c
  BY <1>4 DEF SlotsOf
<1>7. B \subseteq S
  BY <1>3 DEF SlotsOf
<1> HIDE DEF S, A, B
<1>8. \A i \in S : m[i] \in S
  BY <1>2, Fun_BijectionProperties
<1>9. \A i \in S : i \in A <=> m[i] \in B
  BY <1>2, <1>5, <1>6, <1>8
<1>10. AsMany(A, B)
  BY <1>2, <1>5, <1>7, <1>9, Renamed
<1>. QED
  BY <1>10 DEF A, B, r

(* Scheduler_dequeue loses none but the first event, and duplicates none.  *)
LEMMA DequeuedKeeps ==
  ASSUME NEW q, q.events \in [Index -> Event], q.size \in 1..(Capacity + 1), NEW now, NEW c
  PROVE  AsMany(SlotsOf(Dequeued(q, now), c), SlotsOf(q, c) \ {0})
<1> DEFINE r == Dequeued(q, now)
           S == 0..(q.size - 2)
           T == 1..(q.size - 1)
           A == SlotsOf(r, c)
           B == SlotsOf(q, c) \ {0}
<1> HIDE DEF r
<1>1. /\ r.size = q.size - 1
      /\ \E m \in Bijection(S, T) : \A i \in S : r.events[i] = q.events[m[i]]
  BY DequeuedRearranges DEF r
<1>2. PICK m \in Bijection(S, T) : \A i \in S : r.events[i] = q.events[m[i]]
  BY <1>1
<1>3. q.size \in Nat /\ q.size >= 1
  BY CapacityAssumption
<1>4. S = 0..(r.size - 1) /\ T = (0..(q.size - 1)) \ {0}
  BY <1>1, <1>3
<1>5. A = {i \in S : r.events[i].callback = c} /\ B = {j \in T : q.events[j].callback = c}
  BY <1>4 DEF SlotsOf
<1> HIDE DEF S, T, A, B
<1>6. \A i \in S : m[i] \in T
  BY <1>2, Fun_BijectionProperties
<1>7. AsMany(A, B)
  BY <1>2, <1>5, <1>6, Renamed
<1>. QED
  BY <1>7 DEF A, B, r
-----------------------------------------------------------------------------
(* The counter that wraps: the value it has k ticks on does not show again *)
(* before that.                                                            *)
LEMMA CounterParts ==
  ASSUME NEW x \in Int
  PROVE  /\ x \div Wrap \in Int /\ x % Wrap \in Word
         /\ x = (x \div Wrap) * Wrap + (x % Wrap)
<1>1. Wrap \in Nat \ {0}
  BY WrapAssumption
<1>2. x % Wrap \in 0..(Wrap - 1) /\ x \div Wrap \in Int /\ x = (x \div Wrap) * Wrap + (x % Wrap)
  BY <1>1, Z3
<1>. QED
  BY <1>2 DEF Word

(* Two numbers with the same remainder, of which one is a word.            *)
LEMMA WordIsLeast ==
  ASSUME NEW x \in Nat, NEW k \in Word, NEW z \in Int, x = z * Wrap + k
  PROVE  k <= x /\ x % Wrap = k
<1>1. Wrap \in Nat \ {0} /\ k \in Nat /\ k < Wrap
  BY WrapAssumption DEF Word
<1>2. z >= 0
  <2>1. CASE z <= -1
    <3>1. z * Wrap <= -Wrap
      BY <1>1, <2>1, Z3
    <3>. QED
      BY <1>1, <3>1, <2>1
  <2>. QED
    BY <2>1
<1>3. z * Wrap \in Nat
  BY <1>1, <1>2, Z3
<1>4. (z * Wrap + k) % Wrap = k
  BY <1>1, <1>2, Z3
<1>. QED
  BY <1>1, <1>3, <1>4

LEMMA MatchIsAfter ==
  ASSUME NEW a \in Nat, NEW b \in Nat, a <= b, NEW k \in Word,
         b % Wrap = ((a % Wrap) + k) % Wrap
  PROVE  k <= b - a
<1> DEFINE x == a \div Wrap
           y == b \div Wrap
           r == a % Wrap
           s == b % Wrap
           z == (r + k) \div Wrap
<1>1. x \in Int /\ y \in Int /\ r \in Word /\ s \in Word /\ a = x * Wrap + r /\ b = y * Wrap + s
  BY CounterParts
<1>2. r + k \in Int /\ z \in Int /\ r + k = z * Wrap + s
  <2>1. r + k \in Int
    BY <1>1, WrapAssumption DEF Word
  <2>. QED
    BY <2>1, CounterParts
<1> HIDE DEF x, y, r, s, z
<1>3. y - x - z \in Int /\ r \in Int /\ s \in Int /\ k \in Int /\ Wrap \in Int
  BY <1>1, <1>2, WrapAssumption DEF Word
<1>4. (y - x - z) * Wrap = y * Wrap - x * Wrap - z * Wrap
  BY <1>1, <1>2, <1>3, Z3
<1>5. x * Wrap \in Int /\ y * Wrap \in Int /\ z * Wrap \in Int
  BY <1>1, <1>2, <1>3
<1>6. b - a = (y - x - z) * Wrap + k
  BY <1>1, <1>2, <1>3, <1>4, <1>5
<1>7. b - a \in Nat
  OBVIOUS
<1>. QED
  BY <1>3, <1>6, <1>7, WordIsLeast

LEMMA OneTurn ==
  ASSUME NEW x \in Word
  PROVE  x % Wrap = x /\ (x + Wrap) % Wrap = x /\ (x - Wrap) % Wrap = x
<1>1. Wrap \in Nat \ {0} /\ x \in Int /\ 0 <= x /\ x < Wrap
  BY WrapAssumption DEF Word
<1>2. x % Wrap = x
  BY <1>1, Z3
<1>3. (x + Wrap) % Wrap = x
  BY <1>1, Z3
<1>4. (x - Wrap) % Wrap = x
  BY <1>1, Z3
<1>. QED
  BY <1>2, <1>3, <1>4

LEMMA WholeTurns ==
  ASSUME NEW i \in Int, NEW z \in Int
  PROVE  (i - z * Wrap) % Wrap = i % Wrap
<1> DEFINE q == i \div Wrap
           s == i % Wrap
<1>1. q \in Int /\ s \in Word /\ i = q * Wrap + s
  BY CounterParts
<1> HIDE DEF q, s
<1>2. Wrap \in Nat \ {0} /\ s \in Int /\ 0 <= s /\ s < Wrap
  BY <1>1, WrapAssumption DEF Word
<1>3. i - z * Wrap = (q - z) * Wrap + s
  <2>1. (q - z) * Wrap = q * Wrap - z * Wrap
    BY <1>1, <1>2, Z3
  <2>2. q * Wrap \in Int /\ z * Wrap \in Int
    BY <1>1, <1>2
  <2>. QED
    BY <1>1, <1>2, <2>1, <2>2
<1>4. \A v \in Int : (v * Wrap + s) % Wrap = s
  BY <1>2, Z3
<1>5. q - z \in Int
  BY <1>1
<1>. QED
  BY <1>3, <1>4, <1>5 DEF s
-----------------------------------------------------------------------------
(* What moving an event along a path of a few slots does to each slot.     *)
LEMMA AlongAt ==
  ASSUME NEW e, NEW i, NEW p, Path(p, i, DOMAIN e), NEW x, NEW r, r = Along(e, p, x)
  PROVE  /\ \A k \in 1..Len(p) : r[p[k]] = IF k = Len(p) THEN x ELSE e[p[k + 1]]
         /\ \A j \in DOMAIN e : (\A k \in 1..Len(p) : p[k] # j) => r[j] = e[j]
<1> DEFINE OnPath(j) == \E k \in DOMAIN p : p[k] = j
           Step(j) == CHOOSE k \in DOMAIN p : p[k] = j
<1>0. /\ DOMAIN p = 1..Len(p) /\ Len(p) \in Nat /\ \A k \in 1..Len(p) : p[k] \in DOMAIN e
      /\ \A k, l \in 1..Len(p) : p[k] = p[l] => k = l
  BY DEF Path
<1>1. \A j : OnPath(j) => Step(j) \in 1..Len(p) /\ p[Step(j)] = j
  BY <1>0, Zenon
<1>2. \A k \in 1..Len(p) : OnPath(p[k])
  BY <1>0, Zenon
<1>3. \A k \in 1..Len(p) : Step(p[k]) = k
  BY <1>0, <1>1, <1>2, Zenon
<1>4. r = [j \in DOMAIN e |-> IF OnPath(j)
                              THEN IF Step(j) = Len(p) THEN x ELSE e[p[Step(j) + 1]]
                              ELSE e[j]]
  BY Zenon DEF Along
<1>5. \A j \in DOMAIN e : (\A k \in 1..Len(p) : p[k] # j) => ~OnPath(j)
  BY <1>0, Zenon
<1> HIDE DEF OnPath, Step
<1>. QED
  BY <1>0, <1>2, <1>3, <1>4, <1>5

LEMMA AlongOne ==
  ASSUME NEW e, NEW a \in DOMAIN e, NEW x, NEW r, r = Along(e, <<a>>, x)
  PROVE  r[a] = x /\ \A j \in DOMAIN e \ {a} : r[j] = e[j]
<1> DEFINE p == <<a>>
<1>1. Len(p) = 1 /\ DOMAIN p = 1..Len(p) /\ Len(p) \in Nat /\ p[1] = a /\ 1..1 = {1}
  OBVIOUS
<1>3. Path(p, a, DOMAIN e)
  BY <1>1 DEF Path
<1> HIDE DEF p
<1>2. r = Along(e, p, x)
  BY DEF p
<1>4. \A k \in 1..Len(p) : r[p[k]] = IF k = Len(p) THEN x ELSE e[p[k + 1]]
  BY <1>2, <1>3, AlongAt
<1>5. \A j \in DOMAIN e : (\A k \in 1..Len(p) : p[k] # j) => r[j] = e[j]
  BY <1>2, <1>3, AlongAt
<1>. QED
  BY <1>1, <1>4, <1>5

LEMMA AlongTwo ==
  ASSUME NEW e, NEW a \in DOMAIN e, NEW b \in DOMAIN e, a # b, NEW x,
         NEW r, r = Along(e, <<a, b>>, x)
  PROVE  r[a] = e[b] /\ r[b] = x /\ \A j \in DOMAIN e \ {a, b} : r[j] = e[j]
<1> DEFINE p == <<a, b>>
<1>1. Len(p) = 2 /\ DOMAIN p = 1..Len(p) /\ Len(p) \in Nat /\ p[1] = a /\ p[2] = b /\ 1..2 = {1, 2}
  OBVIOUS
<1>3. Path(p, a, DOMAIN e)
  BY <1>1 DEF Path
<1> HIDE DEF p
<1>2. r = Along(e, p, x)
  BY DEF p
<1>4. \A k \in 1..Len(p) : r[p[k]] = IF k = Len(p) THEN x ELSE e[p[k + 1]]
  BY <1>2, <1>3, AlongAt
<1>5. \A j \in DOMAIN e : (\A k \in 1..Len(p) : p[k] # j) => r[j] = e[j]
  BY <1>2, <1>3, AlongAt
<1>6. r[p[1]] = e[p[2]] /\ r[p[2]] = x
  BY <1>1, <1>4, <1>5
<1>7. \A j \in DOMAIN e : (\A k \in {1, 2} : p[k] # j) => r[j] = e[j]
  BY <1>1, <1>4, <1>5
<1>. QED
  BY <1>1, <1>6, <1>7

LEMMA AlongThree ==
  ASSUME NEW e, NEW a \in DOMAIN e, NEW b \in DOMAIN e, NEW c \in DOMAIN e,
         a # b, a # c, b # c, NEW x, NEW r, r = Along(e, <<a, b, c>>, x)
  PROVE  r[a] = e[b] /\ r[b] = e[c] /\ r[c] = x /\ \A j \in DOMAIN e \ {a, b, c} : r[j] = e[j]
<1> DEFINE p == <<a, b, c>>
<1>1. Len(p) = 3 /\ DOMAIN p = 1..Len(p) /\ Len(p) \in Nat /\ p[1] = a /\ p[2] = b /\ p[3] = c /\ 1..3 = {1, 2, 3}
  OBVIOUS
<1>3. Path(p, a, DOMAIN e)
  BY <1>1 DEF Path
<1> HIDE DEF p
<1>2. r = Along(e, p, x)
  BY DEF p
<1>4. \A k \in 1..Len(p) : r[p[k]] = IF k = Len(p) THEN x ELSE e[p[k + 1]]
  BY <1>2, <1>3, AlongAt
<1>5. \A j \in DOMAIN e : (\A k \in 1..Len(p) : p[k] # j) => r[j] = e[j]
  BY <1>2, <1>3, AlongAt
<1>6. r[p[1]] = e[p[2]] /\ r[p[2]] = e[p[3]] /\ r[p[3]] = x
  BY <1>1, <1>4, <1>5
<1>7. \A j \in DOMAIN e : (\A k \in {1, 2, 3} : p[k] # j) => r[j] = e[j]
  BY <1>1, <1>4, <1>5
<1>. QED
  BY <1>1, <1>6, <1>7

LEMMA AlongFour ==
  ASSUME NEW e, NEW a \in DOMAIN e, NEW b \in DOMAIN e, NEW c \in DOMAIN e, NEW d \in DOMAIN e,
         a # b, a # c, a # d, b # c, b # d, c # d, NEW x,
         NEW r, r = Along(e, <<a, b, c, d>>, x)
  PROVE  r[a] = e[b] /\ r[b] = e[c] /\ r[c] = e[d] /\ r[d] = x
         /\ \A j \in DOMAIN e \ {a, b, c, d} : r[j] = e[j]
<1> DEFINE p == <<a, b, c, d>>
<1>1. Len(p) = 4 /\ DOMAIN p = 1..Len(p) /\ Len(p) \in Nat /\ p[1] = a /\ p[2] = b /\ p[3] = c /\ p[4] = d
      /\ 1..4 = {1, 2, 3, 4}
  OBVIOUS
<1>3. Path(p, a, DOMAIN e)
  BY <1>1 DEF Path
<1> HIDE DEF p
<1>2. r = Along(e, p, x)
  BY DEF p
<1>4. \A k \in 1..Len(p) : r[p[k]] = IF k = Len(p) THEN x ELSE e[p[k + 1]]
  BY <1>2, <1>3, AlongAt
<1>5. \A j \in DOMAIN e : (\A k \in 1..Len(p) : p[k] # j) => r[j] = e[j]
  BY <1>2, <1>3, AlongAt
<1>6. r[p[1]] = e[p[2]] /\ r[p[2]] = e[p[3]] /\ r[p[3]] = e[p[4]] /\ r[p[4]] = x
  BY <1>1, <1>4, <1>5
<1>7. \A j \in DOMAIN e : (\A k \in {1, 2, 3, 4} : p[k] # j) => r[j] = e[j]
  BY <1>1, <1>4, <1>5
<1>. QED
  BY <1>1, <1>6, <1>7

LEMMA JoinedTo ==
  ASSUME NEW S, NEW a \in S, NEW p \in Seq(S), NEW r \in Seq(S), Len(r) = Len(p) + 1,
         r[1] = a, \A i \in 1..Len(p) : r[i + 1] = p[i]
  PROVE  <<a>> \o p = r
<1> DEFINE q == <<a>> \o p
<1>1. <<a>> \in Seq(S) /\ Len(<<a>>) = 1 /\ <<a>>[1] = a /\ Len(p) \in Nat
  OBVIOUS
<1>2. /\ q \in Seq(S) /\ Len(q) = 1 + Len(p)
      /\ \A i \in 1..(1 + Len(p)) : q[i] = IF i <= 1 THEN <<a>>[i] ELSE p[i - 1]
  BY <1>1, ConcatProperties
<1> HIDE DEF q
<1>3. ASSUME NEW i \in 1..Len(q) PROVE q[i] = r[i]
  <2>1. CASE i = 1
    BY <1>1, <1>2, <2>1
  <2>2. CASE i # 1
    <3>1. i - 1 \in 1..Len(p) /\ (i - 1) + 1 = i /\ ~(i <= 1) /\ i \in 1..(1 + Len(p))
      BY <1>1, <1>2, <2>2
    <3>2. r[i] = p[i - 1]
      BY <3>1
    <3>. QED
      BY <1>2, <3>1, <3>2
  <2>. QED
    BY <2>1, <2>2
<1>4. q = r
  BY <1>1, <1>2, <1>3, SeqEqual
<1>. QED
  BY <1>4 DEF q

LEMMA Joined ==
  ASSUME NEW a, NEW b, NEW c, NEW d
  PROVE  /\ <<a>> \o <<b>> = <<a, b>>
         /\ <<a>> \o <<b, c>> = <<a, b, c>>
         /\ <<a>> \o <<b, c, d>> = <<a, b, c, d>>
<1> DEFINE S == {a, b, c, d}
<1>1. /\ a \in S
      /\ <<b>> \in Seq(S) /\ Len(<<b>>) = 1 /\ <<a, b>> \in Seq(S) /\ Len(<<a, b>>) = 2
      /\ <<b, c>> \in Seq(S) /\ Len(<<b, c>>) = 2 /\ <<a, b, c>> \in Seq(S) /\ Len(<<a, b, c>>) = 3
      /\ <<b, c, d>> \in Seq(S) /\ Len(<<b, c, d>>) = 3
      /\ <<a, b, c, d>> \in Seq(S) /\ Len(<<a, b, c, d>>) = 4
  OBVIOUS
<1> HIDE DEF S
<1>2. /\ <<a, b>>[1] = a /\ <<a, b>>[2] = b /\ <<b>>[1] = b
      /\ <<a, b, c>>[1] = a /\ <<a, b, c>>[2] = b /\ <<a, b, c>>[3] = c
      /\ <<b, c>>[1] = b /\ <<b, c>>[2] = c
      /\ <<b, c, d>>[1] = b /\ <<b, c, d>>[2] = c /\ <<b, c, d>>[3] = d
      /\ <<a, b, c, d>>[1] = a /\ <<a, b, c, d>>[2] = b
      /\ <<a, b, c, d>>[3] = c /\ <<a, b, c, d>>[4] = d
  OBVIOUS
<1>3. <<a>> \o <<b>> = <<a, b>>
  <2> DEFINE p == <<b>>
             r == <<a, b>>
  <2>1. a \in S /\ p \in Seq(S) /\ r \in Seq(S) /\ Len(p) = 1 /\ Len(r) = Len(p) + 1 /\ r[1] = a
    BY <1>1, <1>2
  <2>2. \A i \in 1..1 : r[i + 1] = p[i]
    BY <1>2
  <2> HIDE DEF p, r
  <2>3. \A i \in 1..Len(p) : r[i + 1] = p[i]
    BY <2>1, <2>2
  <2>4. <<a>> \o p = r
    BY <2>1, <2>3, JoinedTo
  <2>. QED
    BY <2>4 DEF p, r
<1>4. <<a>> \o <<b, c>> = <<a, b, c>>
  <2> DEFINE p == <<b, c>>
             r == <<a, b, c>>
  <2>1. a \in S /\ p \in Seq(S) /\ r \in Seq(S) /\ Len(p) = 2 /\ Len(r) = Len(p) + 1 /\ r[1] = a
    BY <1>1, <1>2
  <2>2. \A i \in 1..2 : r[i + 1] = p[i]
    BY <1>2
  <2> HIDE DEF p, r
  <2>3. \A i \in 1..Len(p) : r[i + 1] = p[i]
    BY <2>1, <2>2
  <2>4. <<a>> \o p = r
    BY <2>1, <2>3, JoinedTo
  <2>. QED
    BY <2>4 DEF p, r
<1>5. <<a>> \o <<b, c, d>> = <<a, b, c, d>>
  <2> DEFINE p == <<b, c, d>>
             r == <<a, b, c, d>>
  <2>1. a \in S /\ p \in Seq(S) /\ r \in Seq(S) /\ Len(p) = 3 /\ Len(r) = Len(p) + 1 /\ r[1] = a
    BY <1>1, <1>2
  <2>2. \A i \in 1..3 : r[i + 1] = p[i]
    BY <1>2
  <2> HIDE DEF p, r
  <2>3. \A i \in 1..Len(p) : r[i + 1] = p[i]
    BY <2>1, <2>2
  <2>4. <<a>> \o p = r
    BY <2>1, <2>3, JoinedTo
  <2>. QED
    BY <2>4 DEF p, r
<1>. QED
  BY <1>3, <1>4, <1>5
-----------------------------------------------------------------------------
(* The order of up to five events, by what f says of each: what holds is   *)
(* less than a heap, since the climb and the descent disagree about which  *)
(* slot is the parent of which, and it is just enough for the head to be   *)
(* the closest.  With a sixth event it no longer is.                       *)
Order(e, n, f) == /\ n > 1 => f[e[0]] <= f[e[1]]
                  /\ n > 2 => f[e[0]] <= f[e[2]]
                  /\ n > 3 => f[e[1]] <= f[e[3]]
                  /\ n > 4 => f[e[0]] <= f[e[4]]

(* The comparison of these events agrees with f.                           *)
Agrees(v, A, f) == /\ \A a \in A : f[a] \in Int
                   /\ \A a, b \in A : Closer(v, a, b) <=> f[a] < f[b]

FirstSlots(e, n) == {e[i] : i \in 0..(n - 1)}

LEMMA HeadComesFirst ==
  ASSUME NEW e, NEW n \in 1..5, NEW f, \A a \in FirstSlots(e, n) : f[a] \in Int,
         Order(e, n, f), NEW i \in 0..(n - 1)
  PROVE  f[e[0]] <= f[e[i]]
<1>1. /\ f[e[0]] \in Int /\ (n > 1 => f[e[1]] \in Int) /\ (n > 2 => f[e[2]] \in Int)
      /\ (n > 3 => f[e[3]] \in Int) /\ (n > 4 => f[e[4]] \in Int)
  BY DEF FirstSlots
<1>2. i \in {0, 1, 2, 3, 4} /\ i < n
  OBVIOUS
<1>. QED
  BY <1>1, <1>2 DEF Order

LEMMA Parents == PARENT(1) = 0 /\ PARENT(2) = 1 /\ PARENT(3) = 1 /\ PARENT(4) = 2
  BY Z3 DEF PARENT

(* The climb of an event from each of the first slots.                     *)
LEMMA FewClimb ==
  ASSUME NEW v, NEW e, NEW x, NEW n \in Index, n <= 4,
         NEW f, Agrees(v, FirstSlots(e, n) \cup {x}, f)
  PROVE  /\ n = 0 => ClimbPath(v, e, x, n) = <<0>>
         /\ n = 1 => ClimbPath(v, e, x, n) = IF f[x] < f[e[0]] THEN <<1, 0>> ELSE <<1>>
         /\ n \in {2, 3} =>
              ClimbPath(v, e, x, n) = IF ~(f[x] < f[e[1]]) THEN <<n>>
                                      ELSE IF f[x] < f[e[0]] THEN <<n, 1, 0>> ELSE <<n, 1>>
         /\ n = 4 =>
              ClimbPath(v, e, x, n) = IF ~(f[x] < f[e[2]]) THEN <<4>>
                                      ELSE IF ~(f[x] < f[e[1]]) THEN <<4, 2>>
                                      ELSE IF f[x] < f[e[0]] THEN <<4, 2, 1, 0>> ELSE <<4, 2, 1>>
<1> DEFINE up(i) == ClimbPath(v, e, x, i)
<1>1. n \in Nat /\ n \in {0, 1, 2, 3, 4} /\ Capacity \in Nat /\ n <= Capacity
  BY CapacityAssumption DEF Index
<1>2. 0 \in Index /\ (n > 1 => 1 \in Index) /\ (n > 2 => 2 \in Index)
  BY <1>1 DEF Index
<1>3. \A i \in 0..(n - 1) : Closer(v, x, e[i]) <=> f[x] < f[e[i]]
  BY DEF Agrees, FirstSlots
<1>4. up(0) = <<0>>
  <2>1. ~(0 > 0 /\ Closer(v, x, e[PARENT(0)]))
    OBVIOUS
  <2>. QED
    BY <1>2, <2>1, ClimbsOn
<1>5. ASSUME 1 \in Index, n >= 1
      PROVE  up(1) = IF f[x] < f[e[0]] THEN <<1, 0>> ELSE <<1>>
  <2>1. Closer(v, x, e[PARENT(1)]) <=> f[x] < f[e[0]]
    BY <1>1, <1>3, <1>5, Parents
  <2>2. /\ f[x] < f[e[0]] => up(1) = <<1>> \o up(0)
        /\ ~(f[x] < f[e[0]]) => up(1) = <<1>>
    BY <1>5, <2>1, ClimbsOn, Parents
  <2> HIDE DEF up
  <2>. QED
    BY <1>4, <2>2, Joined
<1>6. ASSUME NEW i \in Index, i \in {2, 3}, n >= 2
      PROVE  up(i) = IF ~(f[x] < f[e[1]]) THEN <<i>>
                     ELSE IF f[x] < f[e[0]] THEN <<i, 1, 0>> ELSE <<i, 1>>
  <2>1. PARENT(i) = 1 /\ i > 0 /\ 1 \in Index
    BY <1>6, CapacityAssumption, Parents DEF Index
  <2>2. Closer(v, x, e[PARENT(i)]) <=> f[x] < f[e[1]]
    BY <1>1, <1>3, <1>6, <2>1
  <2>3. /\ f[x] < f[e[1]] => up(i) = <<i>> \o up(1)
        /\ ~(f[x] < f[e[1]]) => up(i) = <<i>>
    BY <2>1, <2>2, ClimbsOn
  <2>4. up(1) = IF f[x] < f[e[0]] THEN <<1, 0>> ELSE <<1>>
    BY <1>1, <1>5, <1>6, <2>1
  <2> HIDE DEF up
  <2>. QED
    BY <2>3, <2>4, Joined
<1>7. ASSUME n = 4
      PROVE  up(4) = IF ~(f[x] < f[e[2]]) THEN <<4>>
                     ELSE IF ~(f[x] < f[e[1]]) THEN <<4, 2>>
                     ELSE IF f[x] < f[e[0]] THEN <<4, 2, 1, 0>> ELSE <<4, 2, 1>>
  <2>1. PARENT(4) = 2 /\ 2 \in Index /\ 4 \in Index
    BY <1>1, <1>2, <1>7, Parents
  <2>2. Closer(v, x, e[PARENT(4)]) <=> f[x] < f[e[2]]
    BY <1>3, <1>7, <2>1
  <2>3. /\ f[x] < f[e[2]] => up(4) = <<4>> \o up(2)
        /\ ~(f[x] < f[e[2]]) => up(4) = <<4>>
    BY <2>1, <2>2, ClimbsOn
  <2>4. up(2) = IF ~(f[x] < f[e[1]]) THEN <<2>>
                ELSE IF f[x] < f[e[0]] THEN <<2, 1, 0>> ELSE <<2, 1>>
    BY <1>6, <1>7, <2>1
  <2>5. /\ <<4>> \o <<2>> = <<4, 2>>
        /\ <<4>> \o <<2, 1>> = <<4, 2, 1>>
        /\ <<4>> \o <<2, 1, 0>> = <<4, 2, 1, 0>>
    BY Joined
  <2> HIDE DEF up
  <2>. QED
    BY <2>3, <2>4, <2>5
<1> HIDE DEF up
<1>8. n = 0 => up(n) = <<0>>
  BY <1>4
<1>9. n = 1 => up(n) = IF f[x] < f[e[0]] THEN <<1, 0>> ELSE <<1>>
  BY <1>5
<1>10. n \in {2, 3} => up(n) = IF ~(f[x] < f[e[1]]) THEN <<n>>
                               ELSE IF f[x] < f[e[0]] THEN <<n, 1, 0>> ELSE <<n, 1>>
  BY <1>6
<1>11. n = 4 => up(n) = IF ~(f[x] < f[e[2]]) THEN <<4>>
                        ELSE IF ~(f[x] < f[e[1]]) THEN <<4, 2>>
                        ELSE IF f[x] < f[e[0]] THEN <<4, 2, 1, 0>> ELSE <<4, 2, 1>>
  BY <1>7
<1>. QED
  BY <1>8, <1>9, <1>10, <1>11 DEF up

(* An event that climbs leaves the order.                                  *)
LEMMA ClimbOrders ==
  ASSUME NEW q, q.events \in [Index -> Event], q.size \in Index, q.size <= 4,
         NEW v, NEW x, NEW f,
         Agrees(v, FirstSlots(q.events, q.size) \cup {x}, f), Order(q.events, q.size, f)
  PROVE  Order(event_prioritify(q, v, x).events, q.size + 1, f)
<1> DEFINE e == q.events
           n == q.size
           p == ClimbPath(v, e, x, n)
           r == Along(e, p, x)
           k == f[x]
<1>1. event_prioritify(q, v, x).events = r
  BY DEF event_prioritify
<1>2. /\ k \in Int /\ (n > 0 => f[e[0]] \in Int) /\ (n > 1 => f[e[1]] \in Int)
      /\ (n > 2 => f[e[2]] \in Int) /\ (n > 3 => f[e[3]] \in Int)
  <2>1. n \in Nat
    BY CapacityAssumption DEF Index
  <2>. QED
    BY <2>1 DEF Agrees, FirstSlots
<1>3. /\ DOMAIN e = Index /\ n \in {0, 1, 2, 3, 4} /\ 0 \in Index
      /\ (n > 0 => 1 \in Index) /\ (n > 1 => 2 \in Index)
      /\ (n > 2 => 3 \in Index) /\ (n > 3 => 4 \in Index)
  <2>1. n \in Nat /\ Capacity \in Nat /\ n <= Capacity /\ Capacity > 0
    BY CapacityAssumption DEF Index
  <2>. QED
    BY <2>1 DEF Index
<1>4. /\ n = 0 => p = <<0>>
      /\ n = 1 => p = IF k < f[e[0]] THEN <<1, 0>> ELSE <<1>>
      /\ n \in {2, 3} => p = IF ~(k < f[e[1]]) THEN <<n>>
                             ELSE IF k < f[e[0]] THEN <<n, 1, 0>> ELSE <<n, 1>>
      /\ n = 4 => p = IF ~(k < f[e[2]]) THEN <<4>>
                      ELSE IF ~(k < f[e[1]]) THEN <<4, 2>>
                      ELSE IF k < f[e[0]] THEN <<4, 2, 1, 0>> ELSE <<4, 2, 1>>
  BY FewClimb
<1> HIDE DEF p
<1>o. Order(e, n, f)
  OBVIOUS
<1>5. ASSUME NEW a \in Index, p = <<a>> PROVE r[a] = x /\ \A j \in Index \ {a} : r[j] = e[j]
  BY <1>3, <1>5, AlongOne
<1>6. ASSUME NEW a \in Index, NEW b \in Index, a # b, p = <<a, b>>
      PROVE  r[a] = e[b] /\ r[b] = x /\ \A j \in Index \ {a, b} : r[j] = e[j]
  BY <1>3, <1>6, AlongTwo
<1>7. ASSUME NEW a \in Index, NEW b \in Index, NEW c \in Index, a # b, a # c, b # c,
             p = <<a, b, c>>
      PROVE  r[a] = e[b] /\ r[b] = e[c] /\ r[c] = x /\ \A j \in Index \ {a, b, c} : r[j] = e[j]
  BY <1>3, <1>7, AlongThree
<1>8. ASSUME n = 4, p = <<4, 2, 1, 0>>
      PROVE  r[4] = e[2] /\ r[2] = e[1] /\ r[1] = e[0] /\ r[0] = x /\ r[3] = e[3]
  BY <1>3, <1>8, AlongFour
<1> SUFFICES Order(r, n + 1, f)
  BY <1>1
<1> HIDE DEF r, k, e, n
<1>9. CASE n = 0
  BY <1>9 DEF Order
<1>10. CASE n = 1
  <2>1. CASE k < f[e[0]]
    <3>1. r[1] = e[0] /\ r[0] = x
      BY <1>3, <1>4, <1>6, <1>10, <2>1
    <3>. QED
      BY <1>2, <1>10, <2>1, <3>1 DEF Order, k
  <2>2. CASE ~(k < f[e[0]])
    <3>1. r[1] = x /\ r[0] = e[0]
      BY <1>3, <1>4, <1>5, <1>10, <2>2
    <3>. QED
      BY <1>2, <1>10, <2>2, <3>1 DEF Order, k
  <2>. QED
    BY <2>1, <2>2
<1>11. CASE n \in {2, 3}
  <2>0. n \in Index /\ n # 0 /\ n # 1 /\ 1 \in Index /\ 0 \in Index
    BY <1>3, <1>11
  <2>1. CASE ~(k < f[e[1]])
    <3>1. r[n] = x /\ \A j \in Index \ {n} : r[j] = e[j]
      BY <1>4, <1>5, <1>11, <2>0, <2>1
    <3>2. r[0] = e[0] /\ r[1] = e[1] /\ (n = 3 => r[2] = e[2])
      BY <1>3, <1>11, <2>0, <3>1
    <3>. QED
      BY <1>2, <1>o, <1>11, <2>1, <3>1, <3>2 DEF Order, k
  <2>2. CASE k < f[e[1]] /\ k < f[e[0]]
    <3>1. r[n] = e[1] /\ r[1] = e[0] /\ r[0] = x /\ \A j \in Index \ {n, 1, 0} : r[j] = e[j]
      BY <1>4, <1>7, <1>11, <2>0, <2>2
    <3>2. n = 3 => r[2] = e[2]
      BY <1>3, <3>1
    <3>. QED
      BY <1>2, <1>o, <1>11, <2>2, <3>1, <3>2 DEF Order, k
  <2>3. CASE k < f[e[1]] /\ ~(k < f[e[0]])
    <3>1. r[n] = e[1] /\ r[1] = x /\ \A j \in Index \ {n, 1} : r[j] = e[j]
      BY <1>4, <1>6, <1>11, <2>0, <2>3
    <3>2. r[0] = e[0] /\ (n = 3 => r[2] = e[2])
      BY <1>3, <2>0, <3>1
    <3>. QED
      BY <1>2, <1>o, <1>11, <2>3, <3>1, <3>2 DEF Order, k
  <2>. QED
    BY <2>1, <2>2, <2>3
<1>12. CASE n = 4
  <2>0. {0, 1, 2, 3, 4} \subseteq Index
    BY <1>3, <1>12
  <2>1. CASE ~(k < f[e[2]])
    <3>1. r[4] = x /\ r[0] = e[0] /\ r[1] = e[1] /\ r[2] = e[2] /\ r[3] = e[3]
      BY <1>4, <1>5, <1>12, <2>0, <2>1
    <3>. QED
      BY <1>2, <1>o, <1>12, <2>1, <3>1 DEF Order, k
  <2>2. CASE k < f[e[2]] /\ ~(k < f[e[1]])
    <3>1. r[4] = e[2] /\ r[2] = x /\ r[0] = e[0] /\ r[1] = e[1] /\ r[3] = e[3]
      BY <1>4, <1>6, <1>12, <2>0, <2>2
    <3>. QED
      BY <1>2, <1>o, <1>12, <2>2, <3>1 DEF Order, k
  <2>3. CASE k < f[e[2]] /\ k < f[e[1]] /\ ~(k < f[e[0]])
    <3>1. r[4] = e[2] /\ r[2] = e[1] /\ r[1] = x /\ r[0] = e[0] /\ r[3] = e[3]
      BY <1>4, <1>7, <1>12, <2>0, <2>3
    <3>. QED
      BY <1>2, <1>o, <1>12, <2>3, <3>1 DEF Order, k
  <2>4. CASE k < f[e[2]] /\ k < f[e[1]] /\ k < f[e[0]]
    <3>1. r[4] = e[2] /\ r[2] = e[1] /\ r[1] = e[0] /\ r[0] = x /\ r[3] = e[3]
      BY <1>4, <1>8, <1>12, <2>4
    <3>. QED
      BY <1>2, <1>o, <1>12, <2>4, <3>1 DEF Order, k
  <2>. QED
    BY <2>1, <2>2, <2>3, <2>4
<1>. QED
  BY <1>3, <1>9, <1>10, <1>11, <1>12

(* The slots that an event sinks through, as an equation.                  *)
LEMMA SinksOn ==
  ASSUME NEW q, q.size \in 1..(Capacity + 1), NEW now, NEW x
  PROVE  \E g : /\ SinkPath(q, now, x) = g[0]
                /\ \A i \in Index : g[i] = IF Largest(q, now, x, i) # i
                                           THEN <<i>> \o g[Largest(q, now, x, i)]
                                           ELSE <<i>>
<1>1. PICK f, next : /\ next \in [Index -> Index]
                     /\ Sinks(f, q, now, x)
                     /\ SinkPath(q, now, x) = f[0]
  BY SinkSolved
<1>. QED
  BY <1>1 DEF Sinks

(* The descent of an event from the first of a few slots.                  *)
LEMMA FewSink ==
  ASSUME NEW q, q.size \in {2, 3, 4}, q.size <= Capacity + 1, NEW v, NEW x, NEW f,
         NEW A, Agrees(v, A, f), x \in A, \A i \in 1..(q.size - 1) : q.events[i] \in A
  PROVE  LET e == q.events
             n == q.size
             one == f[e[1]] < f[x] /\ ~(n > 2 /\ f[e[2]] < f[e[1]])
             two == n > 2 /\ f[e[2]] < f[x] /\ (f[e[1]] < f[x] => f[e[2]] < f[e[1]])
         IN  SinkPath(q, v, x) = IF two THEN <<0, 2>>
                                 ELSE IF ~one THEN <<0>>
                                 ELSE IF n = 4 /\ f[e[3]] < f[x] THEN <<0, 1, 3>> ELSE <<0, 1>>
<1> DEFINE e == q.events
           n == q.size
           one == f[e[1]] < f[x] /\ ~(n > 2 /\ f[e[2]] < f[e[1]])
           two == n > 2 /\ f[e[2]] < f[x] /\ (f[e[1]] < f[x] => f[e[2]] < f[e[1]])
           L(i) == Largest(q, v, x, i)
<1>1. /\ n \in Int /\ Capacity \in Nat /\ n <= Capacity + 1 /\ n >= 2
      /\ 0 \in Index /\ 1 \in Index /\ (n > 2 => 2 \in Index) /\ (n > 3 => 3 \in Index)
      /\ n \in 1..(Capacity + 1)
  BY CapacityAssumption DEF Index
<1>2. /\ \A i \in 1..(n - 1) : Closer(v, e[i], x) <=> f[e[i]] < f[x]
      /\ n > 2 => (Closer(v, e[2], e[1]) <=> f[e[2]] < f[e[1]])
  <2>1. \A a, b \in A : Closer(v, a, b) <=> f[a] < f[b]
    BY DEF Agrees
  <2>2. n > 2 => e[1] \in A /\ e[2] \in A
    BY <1>1
  <2>. QED
    BY <2>1, <2>2
<1>k. f[x] \in Int /\ f[e[1]] \in Int /\ (n > 2 => f[e[2]] \in Int)
  BY <1>1 DEF Agrees
<1>3. /\ LEFT(0) = 1 /\ RIGHT(0) = 2 /\ LEFT(1) = 3 /\ RIGHT(1) = 4
      /\ LEFT(2) = 5 /\ RIGHT(2) = 6 /\ LEFT(3) = 7 /\ RIGHT(3) = 8
  BY DEF LEFT, RIGHT
<1>4. L(0) = IF two THEN 2 ELSE IF one THEN 1 ELSE 0
  <2>1. 1 < n /\ (2 < n <=> n > 2)
    BY <1>1
  <2>2. Closer(v, e[1], x) <=> f[e[1]] < f[x]
    BY <1>1, <1>2
  <2>3. n > 2 => (Closer(v, e[2], x) <=> f[e[2]] < f[x])
    BY <1>1, <1>2
  <2> DEFINE larger == IF Closer(v, e[1], x) THEN 1 ELSE 0
             best == IF larger = 0 THEN x ELSE e[larger]
  <2>4. L(0) = IF 2 < n /\ Closer(v, e[2], best) THEN 2 ELSE larger
    BY <1>3, <2>1 DEF Largest
  <2>5. CASE Closer(v, e[1], x)
    <3>1. larger = 1 /\ best = e[1]
      BY <2>5
    <3> HIDE DEF larger, best
    <3>. QED
      BY <1>1, <1>2, <1>k, <2>1, <2>2, <2>3, <2>4, <2>5, <3>1
  <2>6. CASE ~Closer(v, e[1], x)
    <3>1. larger = 0 /\ best = x
      BY <2>6
    <3> HIDE DEF larger, best
    <3>. QED
      BY <1>1, <1>2, <1>k, <2>1, <2>2, <2>3, <2>4, <2>6, <3>1
  <2>. QED
    BY <2>5, <2>6
<1>5. L(1) = IF n = 4 /\ f[e[3]] < f[x] THEN 3 ELSE 1
  <2>1. ~(4 < n) /\ (3 < n <=> n = 4)
    BY <1>1
  <2>2. n = 4 => (Closer(v, e[3], x) <=> f[e[3]] < f[x])
    BY <1>2
  <2>3. L(1) = IF 3 < n /\ Closer(v, e[3], x) THEN 3 ELSE 1
    BY <1>3, <2>1 DEF Largest
  <2>. QED
    BY <2>1, <2>2, <2>3
<1>6. (n > 2 => L(2) = 2) /\ (n > 3 => L(3) = 3)
  <2>1. ~(5 < n) /\ ~(6 < n) /\ ~(7 < n) /\ ~(8 < n)
    BY <1>1
  <2>. QED
    BY <1>3, <2>1 DEF Largest
<1> HIDE DEF L, one, two
<1>7. PICK g : /\ SinkPath(q, v, x) = g[0]
               /\ \A i \in Index : g[i] = IF Largest(q, v, x, i) # i
                                          THEN <<i>> \o g[Largest(q, v, x, i)]
                                          ELSE <<i>>
  <2>1. q.size \in 1..(Capacity + 1)
    BY <1>1
  <2>. QED
    BY <2>1, SinksOn
<1>8. \A i \in Index : g[i] = IF L(i) # i THEN <<i>> \o g[L(i)] ELSE <<i>>
  BY <1>7 DEF L
<1>9. /\ n > 2 => g[2] = <<2>>
      /\ n > 3 => g[3] = <<3>>
  BY <1>1, <1>6, <1>8
<1>10. g[1] = IF n = 4 /\ f[e[3]] < f[x] THEN <<1, 3>> ELSE <<1>>
  <2>1. CASE n = 4 /\ f[e[3]] < f[x]
    <3>1. L(1) = 3
      BY <1>5, <2>1
    <3>0. g[1] = IF L(1) # 1 THEN <<1>> \o g[L(1)] ELSE <<1>>
      BY <1>1, <1>8
    <3>2. g[1] = <<1>> \o g[3]
      BY <3>0, <3>1
    <3>3. g[1] = <<1>> \o <<3>>
      BY <1>9, <2>1, <3>2
    <3>4. <<1>> \o <<3>> = <<1, 3>>
      BY Joined
    <3>. QED
      BY <2>1, <3>3, <3>4
  <2>2. CASE ~(n = 4 /\ f[e[3]] < f[x])
    <3>1. L(1) = 1
      BY <1>5, <2>2
    <3>. QED
      BY <1>1, <1>8, <2>2, <3>1
  <2>. QED
    BY <2>1, <2>2
<1>11. g[0] = IF two THEN <<0, 2>>
              ELSE IF ~one THEN <<0>>
              ELSE IF n = 4 /\ f[e[3]] < f[x] THEN <<0, 1, 3>> ELSE <<0, 1>>
  <2>1. CASE two
    <3>1. L(0) = 2 /\ n > 2
      BY <1>4, <2>1 DEF two
    <3>0. g[0] = IF L(0) # 0 THEN <<0>> \o g[L(0)] ELSE <<0>>
      BY <1>1, <1>8
    <3>2. g[0] = <<0>> \o g[2]
      BY <3>0, <3>1
    <3>3. g[0] = <<0>> \o <<2>>
      BY <1>9, <3>1, <3>2
    <3>4. <<0>> \o <<2>> = <<0, 2>>
      BY Joined
    <3>. QED
      BY <2>1, <3>3, <3>4
  <2>2. CASE ~two /\ one
    <3>1. L(0) = 1
      BY <1>4, <2>2
    <3>0. g[0] = IF L(0) # 0 THEN <<0>> \o g[L(0)] ELSE <<0>>
      BY <1>1, <1>8
    <3>2. g[0] = <<0>> \o g[1]
      BY <3>0, <3>1
    <3>3. <<0>> \o <<1>> = <<0, 1>> /\ <<0>> \o <<1, 3>> = <<0, 1, 3>>
      BY Joined
    <3>4. CASE n = 4 /\ f[e[3]] < f[x]
      BY <1>10, <2>2, <3>2, <3>3, <3>4
    <3>5. CASE ~(n = 4 /\ f[e[3]] < f[x])
      BY <1>10, <2>2, <3>2, <3>3, <3>5
    <3>. QED
      BY <3>4, <3>5
  <2>3. CASE ~two /\ ~one
    <3>1. L(0) = 0
      BY <1>4, <2>3
    <3>. QED
      BY <1>1, <1>8, <2>3, <3>1
  <2>. QED
    BY <2>1, <2>2, <2>3
<1>. QED
  BY <1>7, <1>11 DEF one, two

(* Taking out the head leaves the order.                                   *)
LEMMA SinkOrders ==
  ASSUME NEW q, q.events \in [Index -> Event], q.size \in 1..5, q.size <= Capacity + 1,
         NEW v, NEW f, Agrees(v, FirstSlots(q.events, q.size), f),
         Order(q.events, q.size, f)
  PROVE  Order(Dequeued(q, v).events, q.size - 1, f)
<1> DEFINE n == q.size - 1
           o == q.events
           x == o[n]
           c == [size   |-> n,
                 events |-> IF n = 0 THEN [o EXCEPT ![0] = null_event]
                            ELSE [o EXCEPT ![0] = x, ![n] = null_event]]
           e == c.events
           p == SinkPath(c, v, x)
           r == Along(e, p, x)
           A == FirstSlots(o, q.size)
           y == f[x]
<1>1. n \in {0, 1, 2, 3, 4} /\ n <= Capacity /\ Capacity \in Nat /\ n + 1 = q.size
  BY CapacityAssumption
<1>2. CASE n \in {0, 1}
  BY <1>2 DEF Order
<1>3. CASE n \in {2, 3, 4}
  <2>1. c.size = n /\ c.size > 1 /\ e = [o EXCEPT ![0] = x, ![n] = null_event]
    BY <1>3
  <2>2. 0 \in Index /\ 1 \in Index /\ (n > 2 => 2 \in Index) /\ (n > 3 => 3 \in Index) /\ n \in Index
    BY <1>1, <1>3 DEF Index
  <2>3. e[0] = x /\ e[1] = o[1] /\ (n > 2 => e[2] = o[2]) /\ (n > 3 => e[3] = o[3]) /\ DOMAIN e = Index
    BY <1>3, <2>1, <2>2
  <2>4. Dequeued(q, v).events = r
    <3>1. Dequeued(q, v) = event_heapify(c, v)
      BY <2>1 DEF Dequeued
    <3>2. event_heapify(c, v).events = Along(e, SinkPath(c, v, e[0]), e[0])
      BY DEF event_heapify
    <3>. QED
      BY <2>3, <3>1, <3>2
  <2>5. x \in A /\ \A i \in 1..(n - 1) : e[i] \in A
    <3>1. \A i \in 1..(n - 1) : o[i] \in A
      BY <1>1 DEF FirstSlots
    <3>2. x \in A
      BY <1>1 DEF FirstSlots
    <3>3. \A i \in 1..(n - 1) : i \in {1, 2, 3} /\ i < n
      BY <1>3
    <3> HIDE DEF A, e, x
    <3>. QED
      BY <2>3, <3>1, <3>2, <3>3, <1>3
  <2>6. /\ y \in Int /\ f[e[1]] \in Int /\ (n > 2 => f[e[2]] \in Int) /\ (n > 3 => f[e[3]] \in Int)
    <3>0. \A a \in A : f[a] \in Int
      BY DEF Agrees
    <3> HIDE DEF A, e, x, n
    <3>1. /\ e[1] \in A /\ (n > 2 => e[2] \in A) /\ (n > 3 => e[3] \in A)
      BY <1>3, <2>5
    <3>. QED
      BY <2>5, <3>0, <3>1 DEF y
  <2>7. n > 2 => f[e[1]] <= f[o[3]]
    BY <1>3, <2>3 DEF Order
  <2>8. n = 3 => o[3] = x
    OBVIOUS
  <2> DEFINE one == f[e[1]] < y /\ ~(n > 2 /\ f[e[2]] < f[e[1]])
             two == n > 2 /\ f[e[2]] < y /\ (f[e[1]] < y => f[e[2]] < f[e[1]])
  <2>9. p = IF two THEN <<0, 2>>
            ELSE IF ~one THEN <<0>>
            ELSE IF n = 4 /\ f[e[3]] < y THEN <<0, 1, 3>> ELSE <<0, 1>>
    <3>1. c.size \in {2, 3, 4} /\ c.size <= Capacity + 1 /\ c.size = n
      BY <1>1, <1>3, <2>1
    <3>2. x \in A /\ \A i \in 1..(c.size - 1) : c.events[i] \in A
      BY <2>1, <2>5
    <3>3. Agrees(v, A, f)
      OBVIOUS
    <3> HIDE DEF c, x, n, A
    <3>. QED
      BY <3>1, <3>2, <3>3, FewSink
  <2>10. p = <<0>> => r[0] = x /\ \A j \in Index \ {0} : r[j] = e[j]
    BY <2>2, <2>3, AlongOne
  <2>11. ASSUME NEW b \in Index \ {0}, p = <<0, b>>
         PROVE  r[0] = e[b] /\ r[b] = x /\ \A j \in Index \ {0, b} : r[j] = e[j]
    BY <2>2, <2>3, <2>11, AlongTwo
  <2>12. ASSUME n > 3, p = <<0, 1, 3>>
         PROVE  r[0] = e[1] /\ r[1] = e[3] /\ r[3] = x /\ r[2] = e[2]
    <3>1. {0, 1, 2, 3} \subseteq Index /\ DOMAIN e = Index
      BY <1>1, <2>2, <2>3, <2>12
    <3>2. r = Along(e, <<0, 1, 3>>, x)
      BY <2>12
    <3> HIDE DEF e, r, p, x
    <3>3. r[0] = e[1] /\ r[1] = e[3] /\ r[3] = x /\ \A j \in DOMAIN e \ {0, 1, 3} : r[j] = e[j]
      BY <3>1, <3>2, AlongThree
    <3>. QED
      BY <3>1, <3>3
  <2> SUFFICES Order(r, n, f)
    BY <2>4
  <2>n. n \in {2, 3, 4}
    BY <1>3
  <2> HIDE DEF r, p, e, c, A, n
  <2>13. CASE two
    <3>1. r[0] = e[2] /\ r[2] = x /\ r[1] = e[1] /\ (n > 3 => r[3] = e[3])
      BY <2>2, <2>9, <2>11, <2>13
    <3>. QED
      BY <2>n, <2>3, <2>6, <2>7, <2>13, <3>1 DEF Order
  <2>14. CASE ~two /\ ~one
    <3>1. r[0] = x /\ r[1] = e[1] /\ (n > 2 => r[2] = e[2]) /\ (n > 3 => r[3] = e[3])
      BY <2>2, <2>9, <2>10, <2>14
    <3>. QED
      BY <2>n, <2>3, <2>6, <2>7, <2>14, <3>1 DEF Order
  <2>15. CASE ~two /\ one /\ ~(n = 4 /\ f[e[3]] < y)
    <3>1. r[0] = e[1] /\ r[1] = x /\ (n > 2 => r[2] = e[2]) /\ (n > 3 => r[3] = e[3])
      BY <2>2, <2>9, <2>11, <2>15
    <3>. QED
      BY <2>n, <2>3, <2>6, <2>7, <2>15, <3>1 DEF Order
  <2>16. CASE ~two /\ one /\ n = 4 /\ f[e[3]] < y
    <3>1. r[0] = e[1] /\ r[1] = e[3] /\ r[3] = x /\ r[2] = e[2]
      BY <2>9, <2>12, <2>16
    <3>. QED
      BY <2>n, <2>3, <2>6, <2>7, <2>16, <3>1 DEF Order
  <2>. QED
    BY <2>13, <2>14, <2>15, <2>16
<1>. QED
  BY <1>1, <1>2, <1>3
=============================================================================
