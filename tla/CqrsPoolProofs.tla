---------------------------- MODULE CqrsPoolProofs ----------------------------
(***************************************************************************)
(* What holds of the read/write pools of lab 1-2 for every configuration   *)
(* and any number of requests.                                             *)
(***************************************************************************)
EXTENDS CqrsPool, FiniteSetTheorems, TLAPS

\* The pacing never runs ahead of the requests.
PaceInv ==
    /\ gaps <= offered
    /\ phase = "load" => offered = 0 /\ gaps = 0

\* The kind of request that an executor serves when there is a replica.
OwnKind(p) == IF p = "replica" THEN "read" ELSE "write"

\* With a replica every executor has only requests of its own kind.
OwnKindOnly ==
    config.lag > 0 =>
        \A p \in Pools :
            /\ \A i \in 1..Len(queue[p]) : queue[p][i] = OwnKind(p)
            /\ \A k \in Kinds : k # OwnKind(p) => running[p][k] = 0

LEMMA ConfigTyped ==
    ASSUME config \in load_config
    PROVE  /\ config.workers \in Nat /\ config.total \in Nat /\ config.lag \in Nat
           /\ config.read_percent \in 0..100
BY CqrsAssumption DEF load_config

\* The elements of a sequence after its head is taken, and after one arrives.
LEMMA TailOfQueue ==
    ASSUME NEW q \in Seq(Kinds), q # <<>>
    PROVE  /\ Tail(q) \in Seq(Kinds) /\ Head(q) \in Kinds /\ Head(q) = q[1]
           /\ Len(q) \in Nat \ {0} /\ Len(Tail(q)) = Len(q) - 1
           /\ \A i \in 1..Len(Tail(q)) : i + 1 \in 1..Len(q) /\ Tail(q)[i] = q[i + 1]
OBVIOUS

LEMMA AppendToQueue ==
    ASSUME NEW q \in Seq(Kinds), NEW k \in Kinds
    PROVE  /\ Append(q, k) \in Seq(Kinds) /\ Len(Append(q, k)) = Len(q) + 1
           /\ Len(q) \in Nat
           /\ \A i \in 1..Len(q) : Append(q, k)[i] = q[i]
           /\ Append(q, k)[Len(q) + 1] = k
OBVIOUS

-----------------------------------------------------------------------------
(* Types *)

LEMMA InitTypes == Init => TypeOK /\ PaceInv
BY DEF Init, TypeOK, PaceInv, NoneOf

LEMMA TypeStep == TypeOK /\ PaceInv /\ [Next]_vars => TypeOK' /\ PaceInv'
<1> SUFFICES ASSUME TypeOK, PaceInv, [Next]_vars PROVE TypeOK' /\ PaceInv'
  OBVIOUS
<1>a. /\ config.total \in Nat /\ arrivals \in Nat /\ gaps \in Nat /\ offered \in Nat
      /\ Len(requests) \in Nat
  BY ConfigTyped DEF TypeOK
<1>1. CASE Generate
  <2>1. offered' = 0 /\ gaps' = 0
    BY <1>1 DEF Generate, PaceInv
  <2>2. requests' \in Seq(Kinds)
    <3>1. \A s \in [1..config.total -> Kinds] : s \in Seq(Kinds)
      BY <1>a
    <3>2. requests' = requests \/ requests' \in [1..config.total -> Kinds]
      BY <1>1 DEF Generate, generate_requests
    <3> QED BY <3>1, <3>2 DEF TypeOK
  <2>3. arrivals' \in Nat
    BY <1>1, <1>a DEF Generate, generate_arrivals
  <2>4. phase' \in {"failed", "offer"}
    BY <1>1 DEF Generate
  <2>5. 0 \in 0..Len(requests') /\ 0 \in 0..arrivals'
    BY <2>2, <2>3
  <2> QED BY <1>1, <2>1, <2>2, <2>3, <2>4, <2>5 DEF Generate, TypeOK, PaceInv
<1>2. CASE Submit
  <2> DEFINE kind == requests[offered + 1]
             target == route_request(kind, config.lag > 0)
  <2>1. kind \in Kinds /\ target \in Pools
    BY <1>2, <1>a DEF Submit, TypeOK, route_request, Pools
  <2>2. queue' \in [Pools -> Seq(Kinds)]
    <3>1. Append(queue[target], kind) \in Seq(Kinds)
      BY <2>1, AppendToQueue DEF TypeOK
    <3>2. queue' = [queue EXCEPT ![target] = Append(queue[target], kind)]
      BY <1>2 DEF Submit
    <3> QED BY <3>1, <3>2, <2>1 DEF TypeOK
  <2>3. offered' = offered + 1 /\ offered' \in 0..Len(requests)
    BY <1>2, <1>a DEF Submit
  <2>4. gaps' \in 0..arrivals /\ gaps' <= offered'
    BY <1>2, <1>a, <2>3 DEF Submit, Pause, TypeOK, PaceInv
  <2> QED BY <1>2, <2>2, <2>3, <2>4 DEF Submit, TypeOK, PaceInv
<1>3. CASE AllOffered \/ Report
  BY <1>3 DEF AllOffered, Report, TypeOK, PaceInv
<1>4. ASSUME NEW k \in Kinds, Collect(k) PROVE TypeOK' /\ PaceInv'
  BY <1>4 DEF Collect, TypeOK, PaceInv
<1>5. ASSUME NEW p \in Pools, Take(p) PROVE TypeOK' /\ PaceInv'
  <2>1. queue[p] \in Seq(Kinds) /\ queue[p] # <<>>
    BY <1>5 DEF Take, TypeOK
  <2>2. Tail(queue[p]) \in Seq(Kinds) /\ Head(queue[p]) \in Kinds
    BY <2>1, TailOfQueue
  <2>3. queue' \in [Pools -> Seq(Kinds)]
    BY <1>5, <2>2 DEF Take, TypeOK
  <2>4. running' \in [Pools -> [Kinds -> Nat]]
    <3> DEFINE h == Head(queue[p])
    <3>1. running' = [running EXCEPT ![p] = [running[p] EXCEPT ![h] = running[p][h] + 1]]
      BY <1>5 DEF Take
    <3>2. running \in [Pools -> [Kinds -> Nat]] /\ h \in Kinds
      BY <2>2 DEF TypeOK
    <3> HIDE DEF h
    <3>3. [running[p] EXCEPT ![h] = running[p][h] + 1] \in [Kinds -> Nat]
      BY <3>2
    <3> QED BY <3>1, <3>2, <3>3
  <2> QED BY <1>5, <2>3, <2>4 DEF Take, TypeOK, PaceInv
<1>6. ASSUME NEW p \in Pools, NEW k \in Kinds, Finish(p, k) PROVE TypeOK' /\ PaceInv'
  <2>1. running' \in [Pools -> [Kinds -> Nat]] /\ finished' \in [Kinds -> Nat]
    BY <1>6 DEF Finish, TypeOK
  <2> QED BY <1>6, <2>1 DEF Finish, TypeOK, PaceInv
<1>7. CASE UNCHANGED vars
  BY <1>7 DEF vars, TypeOK, PaceInv
<1> QED BY <1>1, <1>2, <1>3, <1>4, <1>5, <1>6, <1>7 DEF Next, Main, Worker, Ended

\* The executors, the futures and the collector count natural numbers, and no
\* interval is slept that there is not, for any mix and any number of requests.
THEOREM TypeCorrect == Spec => []TypeOK
BY InitTypes, TypeStep, PTL DEF Spec

-----------------------------------------------------------------------------
(* Reads and writes *)

LEMMA KindStep == TypeOK /\ OwnKindOnly /\ [Next]_vars => OwnKindOnly'
<1> SUFFICES ASSUME TypeOK, OwnKindOnly, [Next]_vars, config.lag > 0
             PROVE  OwnKindOnly'
  BY DEF OwnKindOnly, Next, Main, Worker, Ended, Generate, Submit, AllOffered, Report,
         Collect, Take, Finish, vars
<1>a. \A p \in Pools :
        /\ queue[p] \in Seq(Kinds)
        /\ \A i \in 1..Len(queue[p]) : queue[p][i] = OwnKind(p)
        /\ \A k \in Kinds : k # OwnKind(p) => running[p][k] = 0
  BY DEF TypeOK, OwnKindOnly
<1>1. CASE Submit
  <2> DEFINE kind == requests[offered + 1]
             target == route_request(kind, config.lag > 0)
  <2>1. kind \in Kinds /\ target \in Pools /\ kind = OwnKind(target)
    BY <1>1 DEF Submit, TypeOK, route_request, Pools, Kinds, OwnKind
  <2>2. queue' = [queue EXCEPT ![target] = Append(queue[target], kind)]
        /\ UNCHANGED running
    BY <1>1 DEF Submit
  <2> HIDE DEF kind, target
  <2>3. \A i \in 1..Len(Append(queue[target], kind)) :
          Append(queue[target], kind)[i] = OwnKind(target)
    BY <1>a, <2>1, AppendToQueue
  <2>4. \A p \in Pools : \A i \in 1..Len(queue'[p]) : queue'[p][i] = OwnKind(p)
    BY <1>a, <2>1, <2>2, <2>3 DEF TypeOK
  <2> QED BY <1>a, <2>2, <2>4 DEF OwnKindOnly
<1>2. ASSUME NEW p \in Pools, Take(p) PROVE OwnKindOnly'
  <2>1. queue[p] \in Seq(Kinds) /\ queue[p] # <<>>
    BY <1>2, <1>a DEF Take
  <2>2. queue' = [queue EXCEPT ![p] = Tail(queue[p])]
        /\ running' = [running EXCEPT ![p][Head(queue[p])] = @ + 1]
    BY <1>2 DEF Take
  <2>3. Head(queue[p]) = OwnKind(p)
        /\ \A i \in 1..Len(Tail(queue[p])) : Tail(queue[p])[i] = OwnKind(p)
    BY <1>a, <2>1, TailOfQueue
  <2>4. \A r \in Pools : \A i \in 1..Len(queue'[r]) : queue'[r][i] = OwnKind(r)
    BY <1>a, <2>2, <2>3 DEF TypeOK
  <2>5. \A r \in Pools, k \in Kinds : k # OwnKind(r) => running'[r][k] = 0
    BY <1>a, <2>2, <2>3 DEF TypeOK
  <2> QED BY <2>4, <2>5 DEF OwnKindOnly
<1>3. ASSUME NEW p \in Pools, NEW k \in Kinds, Finish(p, k) PROVE OwnKindOnly'
  <2>1. k = OwnKind(p)
    BY <1>a, <1>3 DEF Finish
  <2>2. \A r \in Pools, j \in Kinds : j # OwnKind(r) => running'[r][j] = 0
    BY <1>a, <1>3, <2>1 DEF Finish, TypeOK
  <2> QED BY <1>a, <1>3, <2>2 DEF Finish, OwnKindOnly
<1>4. CASE UNCHANGED <<queue, running>>
  BY <1>a, <1>4 DEF OwnKindOnly
<1>5. Generate \/ AllOffered \/ Report \/ (\E k \in Kinds : Collect(k)) \/ UNCHANGED vars
        => UNCHANGED <<queue, running>>
  BY DEF Generate, AllOffered, Report, Collect, vars
<1> QED BY <1>1, <1>2, <1>3, <1>4, <1>5 DEF Next, Main, Worker, Ended

LEMMA InitKinds == Init => OwnKindOnly
BY DEF Init, OwnKindOnly, NoneOf

\* With a replica, reads and writes never wait for each other, for any number of
\* workers and requests.
THEOREM KindsIndependent == Spec => []IndependentKinds
<1>1. TypeOK /\ OwnKindOnly => IndependentKinds
  <2> SUFFICES ASSUME TypeOK, OwnKindOnly, config.lag > 0, NEW p \in Pools,
                      NEW i \in 1..config.total, NEW k \in Kinds,
                      i <= Len(queue[p]), k # queue[p][i]
               PROVE  /\ running[p][k] = 0
                      /\ \A j \in 1..Len(queue[p]) : queue[p][j] # k
    BY DEF IndependentKinds
  <2>1. queue[p] \in Seq(Kinds) /\ config.total \in Nat
    BY ConfigTyped DEF TypeOK
  <2>2. i \in 1..Len(queue[p])
    BY <2>1
  <2> QED BY <2>2 DEF OwnKindOnly
<1> QED BY <1>1, InitKinds, InitTypes, TypeStep, KindStep, PTL DEF Spec

-----------------------------------------------------------------------------
(* The report *)

\* How many requests of a kind there are among the first n of a sequence.
Among(q, n, k) == Cardinality({i \in 1..n : q[i] = k})

\* One if it is of that kind.
One(e, k) == IF e = k THEN 1 ELSE 0

\* The requests of a kind that an executor has.
InPool(p, k) == Among(queue[p], Len(queue[p]), k) + running[p][k]

\* Every request that was submitted is in one place: in a queue, with a thread,
\* done, or in the collector.  In the last phase only the collector is left.
LedgerInv ==
    /\ \A k \in Kinds : Among(requests, offered, k)
                          = InPool("primary", k) + InPool("replica", k)
                            + finished[k] + recorded[k]
    /\ phase = "done" => /\ \A p \in Pools : queue[p] = <<>> /\ running[p] = NoneOf
                         /\ finished = NoneOf

\* The main thread sleeps once for each request until the intervals are used up,
\* and leaves the first loop when it has submitted what was generated.
LoopInv ==
    /\ phase \in {"offer", "collect", "done"} =>
          /\ Len(requests) = config.total /\ arrivals = generate_arrivals
          /\ gaps = IF offered < arrivals THEN offered ELSE arrivals
    /\ phase \in {"collect", "done"} => offered = Len(requests)

\* Counting one more position.
LEMMA AmongMore ==
    ASSUME NEW q, NEW n \in Nat, NEW k
    PROVE  /\ Among(q, n, k) \in Nat
           /\ Among(q, 0, k) = 0
           /\ Among(q, n + 1, k) = Among(q, n, k) + One(q[n + 1], k)
<1> DEFINE S(m) == {i \in 1..m : q[i] = k}
<1>1. IsFiniteSet(S(n)) /\ Cardinality(S(n)) \in Nat
  <2>1. IsFiniteSet(1..n)
    BY FS_Interval
  <2>2. S(n) \in SUBSET (1..n)
    OBVIOUS
  <2> HIDE DEF S
  <2> QED BY <2>1, <2>2, FS_Subset, FS_CardinalityType
<1>2. S(0) = {}
  OBVIOUS
<1>3. CASE q[n + 1] = k
  <2>1. S(n + 1) = S(n) \cup {n + 1} /\ n + 1 \notin S(n)
    BY <1>3
  <2> HIDE DEF S
  <2>2. Cardinality(S(n + 1)) = Cardinality(S(n)) + 1
    BY <1>1, <2>1, FS_AddElement
  <2> USE DEF S
  <2> QED BY <1>1, <1>2, <1>3, <2>2, FS_EmptySet DEF Among, One
<1>4. CASE q[n + 1] # k
  <2>1. S(n + 1) = S(n)
    BY <1>4
  <2> QED BY <1>1, <1>2, <1>4, <2>1, FS_EmptySet DEF Among, One
<1> QED BY <1>3, <1>4

\* Only the positions that are counted matter.
LEMMA AmongSame ==
    ASSUME NEW q, NEW r, NEW n \in Nat, NEW k, \A i \in 1..n : q[i] = r[i]
    PROVE  Among(q, n, k) = Among(r, n, k)
<1>1. {i \in 1..n : q[i] = k} = {i \in 1..n : r[i] = k}
  OBVIOUS
<1> QED BY <1>1 DEF Among

\* A request that arrives in a queue, and one that leaves it.
LEMMA AmongAppend ==
    ASSUME NEW q \in Seq(Kinds), NEW e \in Kinds, NEW k \in Kinds
    PROVE  Among(Append(q, e), Len(Append(q, e)), k)
             = Among(q, Len(q), k) + One(e, k)
<1> DEFINE r == Append(q, e)
           n == Len(q)
<1>1. /\ n \in Nat /\ Len(r) = n + 1
      /\ \A i \in 1..n : r[i] = q[i]
      /\ r[n + 1] = e
  BY AppendToQueue
<1> HIDE DEF r, n
<1>2. Among(r, n, k) = Among(q, n, k)
  BY <1>1, AmongSame
<1>3. Among(r, n + 1, k) = Among(r, n, k) + One(r[n + 1], k)
  BY <1>1, AmongMore
<1>4. Among(r, Len(r), k) = Among(q, n, k) + One(e, k)
  BY <1>1, <1>2, <1>3
<1> QED BY <1>4 DEF r, n

LEMMA AmongTail ==
    ASSUME NEW q \in Seq(Kinds), q # <<>>, NEW k \in Kinds
    PROVE  Among(q, Len(q), k)
             = Among(Tail(q), Len(Tail(q)), k) + One(Head(q), k)
<1> DEFINE t == Tail(q)
           A == {i \in 1..Len(t) : t[i] = k}
           B == {i \in 2..Len(q) : q[i] = k}
           C == {i \in 1..Len(q) : q[i] = k}
<1>1. /\ Len(q) \in Nat \ {0} /\ Len(t) = Len(q) - 1 /\ Head(q) = q[1]
      /\ \A i \in 1..Len(t) : t[i] = q[i + 1]
  BY TailOfQueue
<1> HIDE DEF t
<1>2. IsFiniteSet(A) /\ Cardinality(A) = Among(t, Len(t), k)
  <2>1. Len(t) \in Int /\ 1 \in Int
    BY <1>1
  <2>3. IsFiniteSet(1..Len(t))
    BY <2>1, FS_Interval
  <2>4. A \in SUBSET (1..Len(t))
    OBVIOUS
  <2>2. Cardinality(A) = Among(t, Len(t), k)
    BY DEF Among
  <2> HIDE DEF A
  <2> QED BY <2>2, <2>3, <2>4, FS_Subset
<1>3. IsFiniteSet(B) /\ Cardinality(B) = Cardinality(A)
  <2> DEFINE f == [i \in A |-> i + 1]
  <2>1. f \in [A -> B]
    BY <1>1
  <2>2. \A i, j \in A : f[i] = f[j] => i = j
    BY <1>1
  <2>3. \A j \in B : \E i \in A : f[i] = j
    <3> SUFFICES ASSUME NEW j \in B PROVE \E i \in A : f[i] = j
      OBVIOUS
    <3>1. j - 1 \in A
      BY <1>1
    <3> QED BY <3>1
  <2> HIDE DEF f, A, B
  <2>4. f \in Bijection(A, B)
    BY <2>1, <2>2, <2>3 DEF Bijection, Injection, Surjection, IsInjective
  <2>5. ExistsBijection(A, B)
    BY <2>4 DEF ExistsBijection
  <2> QED BY <1>2, <2>5, FS_Bijection
<1>4. Cardinality(A) \in Nat
  BY <1>2, FS_CardinalityType
<1>5. Cardinality(C) = Among(q, Len(q), k)
  BY DEF Among
<1>6. CASE Head(q) = k
  <2>1. C = B \cup {1} /\ 1 \notin B
    BY <1>1, <1>6
  <2> HIDE DEF A, B, C
  <2>2. Cardinality(C) = Cardinality(B) + 1
    BY <1>3, <2>1, FS_AddElement
  <2> QED BY <1>2, <1>3, <1>5, <1>6, <2>2 DEF t, One
<1>7. CASE Head(q) # k
  <2>1. C = B
    BY <1>1, <1>7
  <2> HIDE DEF A, B, C
  <2> QED BY <1>2, <1>3, <1>4, <1>5, <1>7, <2>1 DEF t, One
<1> QED BY <1>6, <1>7

\* With two kinds, every position is counted once.
LEMMA AmongBoth ==
    ASSUME NEW q \in Seq(Kinds), NEW n \in Nat, n <= Len(q)
    PROVE  Among(q, n, "read") + Among(q, n, "write") = n
<1> DEFINE R == {i \in 1..n : q[i] = "read"}
           W == {i \in 1..n : q[i] = "write"}
<1>1. IsFiniteSet(1..n) /\ Cardinality(1..n) = n
  <2>1. 1 \in Int /\ n \in Int /\ 1 <= n + 1
    OBVIOUS
  <2>2. IsFiniteSet(1..n) /\ Cardinality(1..n) = IF 1 > n THEN 0 ELSE n - 1 + 1
    BY <2>1, FS_Interval
  <2> QED BY <2>2
<1>2. IsFiniteSet(R) /\ IsFiniteSet(W)
  <2>1. R \in SUBSET (1..n) /\ W \in SUBSET (1..n)
    OBVIOUS
  <2> HIDE DEF R, W
  <2> QED BY <1>1, <2>1, FS_Subset
<1>3. R \cup W = 1..n /\ R \cap W = {}
  BY DEF Kinds
<1>4. Cardinality(R) = Among(q, n, "read") /\ Cardinality(W) = Among(q, n, "write")
  BY DEF Among
<1>5. Cardinality(R) \in Nat /\ Cardinality(W) \in Nat
  BY <1>2, FS_CardinalityType
<1> HIDE DEF R, W
<1>6. Cardinality(R \cup W) = Cardinality(R) + Cardinality(W) - Cardinality(R \cap W)
  BY <1>2, FS_Union
<1>7. Cardinality(R \cap W) = 0
  BY <1>3, FS_EmptySet
<1>8. Cardinality(R \cup W) = n
  BY <1>1, <1>3
<1> QED BY <1>4, <1>5, <1>6, <1>7, <1>8

LEMMA InitLedger == Init => LoopInv /\ LedgerInv
<1> SUFFICES ASSUME Init PROVE LoopInv /\ LedgerInv
  OBVIOUS
<1>1. \A q, k : Among(q, 0, k) = 0
  BY AmongMore
<1>2. LoopInv
  BY DEF Init, LoopInv
<1>3. ASSUME NEW k \in Kinds
      PROVE  /\ InPool("primary", k) = 0 /\ InPool("replica", k) = 0
             /\ finished[k] = 0 /\ recorded[k] = 0
             /\ Among(requests, offered, k) = 0
  BY <1>1 DEF Init, InPool, NoneOf, Pools
<1> QED BY <1>2, <1>3 DEF LedgerInv, Init

LEMMA LoopStep == TypeOK /\ PaceInv /\ LoopInv /\ [Next]_vars => LoopInv'
<1> SUFFICES ASSUME TypeOK, PaceInv, LoopInv, [Next]_vars PROVE LoopInv'
  OBVIOUS
<1>a. /\ config.total \in Nat /\ arrivals \in Nat /\ gaps \in Nat /\ offered \in Nat
      /\ Len(requests) \in Nat /\ offered <= Len(requests)
  BY ConfigTyped DEF TypeOK
<1>1. CASE Generate
  <2>1. CASE phase' = "failed"
    BY <2>1 DEF LoopInv
  <2>2. CASE phase' = "offer"
    <3>1. /\ phase = "load" /\ requests' \in generate_requests
          /\ arrivals' = generate_arrivals
          /\ UNCHANGED <<config, offered, gaps>>
      BY <1>1, <2>2 DEF Generate
    <3>2. Len(requests') = config.total
      BY <3>1, <1>a DEF generate_requests
    <3>3. offered = 0 /\ gaps = 0
      BY <3>1 DEF PaceInv
    <3> QED BY <2>2, <3>1, <3>2, <3>3, <1>a DEF LoopInv, generate_arrivals
  <2> QED BY <1>1, <2>1, <2>2 DEF Generate
<1>2. CASE Submit
  BY <1>2, <1>a DEF Submit, LoopInv, Pause, generate_arrivals
<1>3. CASE AllOffered
  BY <1>3, <1>a DEF AllOffered, LoopInv, generate_arrivals
<1>4. CASE Report
  BY <1>4, <1>a DEF Report, LoopInv, generate_arrivals
<1>5. CASE UNCHANGED <<config, phase, requests, arrivals, offered, gaps>>
  BY <1>5 DEF LoopInv, generate_arrivals
<1>6. (\E k \in Kinds : Collect(k)) \/ (\E p \in Pools : Worker(p)) \/ UNCHANGED vars
        => UNCHANGED <<config, phase, requests, arrivals, offered, gaps>>
  BY DEF Collect, Worker, Take, Finish, vars
<1> QED BY <1>1, <1>2, <1>3, <1>4, <1>5, <1>6 DEF Next, Main, Ended

LEMMA LedgerStep == TypeOK /\ PaceInv /\ LedgerInv /\ [Next]_vars => LedgerInv'
<1> SUFFICES ASSUME TypeOK, PaceInv, LedgerInv, [Next]_vars PROVE LedgerInv'
  OBVIOUS
<1>a. /\ offered \in Nat /\ Len(requests) \in Nat /\ requests \in Seq(Kinds)
      /\ \A p \in Pools : queue[p] \in Seq(Kinds) /\ Len(queue[p]) \in Nat
  BY DEF TypeOK
<1>b. \A k \in Kinds :
        /\ Among(requests, offered, k) \in Nat
        /\ \A p \in Pools : Among(queue[p], Len(queue[p]), k) \in Nat
                            /\ running[p][k] \in Nat
        /\ finished[k] \in Nat /\ recorded[k] \in Nat
  BY <1>a, AmongMore DEF TypeOK
<1>c. \A k \in Kinds : Among(requests, offered, k)
                          = InPool("primary", k) + InPool("replica", k)
                            + finished[k] + recorded[k]
  BY DEF LedgerInv
<1>d. phase = "done" => /\ \A p \in Pools : queue[p] = <<>> /\ running[p] = NoneOf
                        /\ finished = NoneOf
  BY DEF LedgerInv
<1>e. "primary" \in Pools /\ "replica" \in Pools /\ \A p \in Pools : p = "primary" \/ p = "replica"
  BY DEF Pools
<1>f. \A e, k : One(e, k) \in Nat
  BY DEF One
<1>g. \A k \in Kinds : \A p \in Pools : InPool(p, k) \in Nat
  BY <1>b DEF InPool
<1>1. CASE Generate
  <2>1. phase = "load" /\ phase' \in {"failed", "offer"}
        /\ UNCHANGED <<offered, queue, running, finished, recorded>>
    BY <1>1 DEF Generate
  <2>2. offered = 0
    BY <2>1 DEF PaceInv
  <2>3. \A q, k : Among(q, 0, k) = 0
    BY AmongMore
  <2>4. \A k : Among(requests', offered', k) = Among(requests, offered, k)
    BY <2>1, <2>2, <2>3
  <2> QED BY <2>1, <2>4, <1>c DEF LedgerInv, InPool
<1>2. CASE Submit
  <2>1. PICK kind \in Kinds, target \in Pools :
          /\ kind = requests[offered + 1]
          /\ target = route_request(kind, config.lag > 0)
    BY <1>2, <1>a DEF Submit, TypeOK, route_request, Pools
  <2>2. /\ phase = "offer" /\ offered' = offered + 1
        /\ queue' = [queue EXCEPT ![target] = Append(queue[target], kind)]
        /\ UNCHANGED <<phase, requests, running, finished, recorded>>
    BY <1>2, <2>1 DEF Submit
  <2>3. \A k : Among(requests, offered + 1, k) = Among(requests, offered, k) + One(kind, k)
    BY <1>a, <2>1, AmongMore
  <2>4. ASSUME NEW k \in Kinds
        PROVE  Among(queue'[target], Len(queue'[target]), k)
                 = Among(queue[target], Len(queue[target]), k) + One(kind, k)
    <3>1. queue'[target] = Append(queue[target], kind)
      BY <2>1, <2>2 DEF TypeOK
    <3> QED BY <3>1, <2>1, <1>a, AmongAppend
  <2>5. \A p \in Pools : p # target => queue'[p] = queue[p]
    BY <2>1, <2>2 DEF TypeOK
  <2>6. ASSUME NEW k \in Kinds
        PROVE  InPool("primary", k)' + InPool("replica", k)'
                 = InPool("primary", k) + InPool("replica", k) + One(kind, k)
    <3>1. InPool(target, k)' = InPool(target, k) + One(kind, k)
      <4>1. InPool(target, k)' = Among(queue'[target], Len(queue'[target]), k)
                                 + running[target][k]
        BY <2>2 DEF InPool
      <4>2. InPool(target, k) = Among(queue[target], Len(queue[target]), k)
                                + running[target][k]
        BY DEF InPool
      <4>3. /\ Among(queue[target], Len(queue[target]), k) \in Nat
            /\ running[target][k] \in Nat /\ One(kind, k) \in Nat
        BY <1>b, <1>f, <2>1
      <4> QED BY <4>1, <4>2, <4>3, <2>4
    <3>2. \A p \in Pools : p # target => InPool(p, k)' = InPool(p, k)
      BY <2>2, <2>5 DEF InPool
    <3>3. CASE target = "primary"
      BY <3>1, <3>2, <3>3, <1>e, <1>f, <1>g
    <3>4. CASE target = "replica"
      BY <3>1, <3>2, <3>4, <1>e, <1>f, <1>g
    <3> QED BY <3>3, <3>4, <2>1, <1>e
  <2>7. \A k \in Kinds : InPool("primary", k) \in Nat /\ InPool("replica", k) \in Nat
    BY <1>e, <1>g
  <2>8. ASSUME NEW k \in Kinds
        PROVE  Among(requests', offered', k)
                          = InPool("primary", k)' + InPool("replica", k)'
                            + finished'[k] + recorded'[k]
    <3>1. Among(requests', offered', k) = Among(requests, offered, k) + One(kind, k)
      BY <2>2, <2>3
    <3>2. finished' = finished /\ recorded' = recorded
      BY <2>2
    <3>3. /\ InPool("primary", k) \in Nat /\ InPool("replica", k) \in Nat
          /\ finished[k] \in Nat /\ recorded[k] \in Nat /\ One(kind, k) \in Nat
      BY <2>7, <1>b, <1>f
    <3>4. InPool("primary", k)' + InPool("replica", k)'
            = InPool("primary", k) + InPool("replica", k) + One(kind, k)
      BY <2>6
    <3>5. Among(requests, offered, k) = InPool("primary", k) + InPool("replica", k)
                                        + finished[k] + recorded[k]
      BY <1>c
    <3> QED BY <3>1, <3>2, <3>3, <3>4, <3>5
  <2> QED BY <2>2, <2>8 DEF LedgerInv
<1>3. CASE AllOffered
  BY <1>3, <1>c DEF AllOffered, LedgerInv, InPool
<1>4. CASE Report
  BY <1>4, <1>c DEF Report, LedgerInv, InPool
<1>5. ASSUME NEW j \in Kinds, Collect(j) PROVE LedgerInv'
  <2>1. /\ phase = "collect" /\ finished[j] > 0
        /\ finished' = [finished EXCEPT ![j] = @ - 1]
        /\ recorded' = [recorded EXCEPT ![j] = @ + 1]
        /\ UNCHANGED <<phase, requests, offered, queue, running>>
    BY <1>5 DEF Collect
  <2>2. \A k \in Kinds : /\ finished'[k] = finished[k] - One(j, k)
                         /\ recorded'[k] = recorded[k] + One(j, k)
    BY <2>1, <1>b DEF TypeOK, One
  <2>5. \A k \in Kinds : InPool("primary", k)' = InPool("primary", k)
                         /\ InPool("replica", k)' = InPool("replica", k)
    BY <2>1 DEF InPool
  <2>6. ASSUME NEW k \in Kinds
        PROVE  Among(requests', offered', k)
                          = InPool("primary", k)' + InPool("replica", k)'
                            + finished'[k] + recorded'[k]
    <3>1. /\ InPool("primary", k) \in Nat /\ InPool("replica", k) \in Nat
          /\ finished[k] \in Nat /\ recorded[k] \in Nat /\ One(j, k) \in Nat
      BY <1>b, <1>e, <1>f, <1>g
    <3>2. /\ finished'[k] = finished[k] - One(j, k)
          /\ recorded'[k] = recorded[k] + One(j, k)
      BY <2>2
    <3> QED BY <3>1, <3>2, <2>1, <2>5, <1>c
  <2> QED BY <2>1, <2>6 DEF LedgerInv
<1>6. ASSUME NEW p \in Pools, Take(p) PROVE LedgerInv'
  <2> DEFINE h == Head(queue[p])
  <2>1. /\ queue[p] # <<>> /\ queue' = [queue EXCEPT ![p] = Tail(queue[p])]
        /\ running' = [running EXCEPT ![p][h] = @ + 1]
        /\ UNCHANGED <<phase, requests, offered, finished, recorded>>
    BY <1>6 DEF Take
  <2>2. queue[p] \in Seq(Kinds) /\ h \in Kinds
    BY <2>1, <1>a, TailOfQueue
  <2>3. \A k \in Kinds : Among(queue[p], Len(queue[p]), k)
                           = Among(Tail(queue[p]), Len(Tail(queue[p])), k) + One(h, k)
    BY <2>1, <2>2, AmongTail
  <2>4. queue'[p] = Tail(queue[p]) /\ \A r \in Pools : r # p => queue'[r] = queue[r]
    BY <2>1 DEF TypeOK
  <2> HIDE DEF h
  <2>5. \A k \in Kinds : running'[p][k] = running[p][k] + One(h, k)
    <3>1. running' = [running EXCEPT ![p] = [running[p] EXCEPT ![h] = running[p][h] + 1]]
          /\ running \in [Pools -> [Kinds -> Nat]]
      BY <2>1 DEF TypeOK
    <3>2. running'[p] = [running[p] EXCEPT ![h] = running[p][h] + 1]
          /\ running[p] \in [Kinds -> Nat]
      BY <3>1
    <3> QED BY <3>2, <2>2 DEF One
  <2>6. \A r \in Pools : r # p => running'[r] = running[r]
    BY <2>1 DEF TypeOK
  <2>7. \A k \in Kinds : Among(Tail(queue[p]), Len(Tail(queue[p])), k) \in Nat
    <3>1. Len(Tail(queue[p])) \in Nat
      BY <2>1, <2>2, TailOfQueue
    <3> QED BY <3>1, AmongMore
  <2>8. ASSUME NEW k \in Kinds, NEW r \in Pools PROVE InPool(r, k)' = InPool(r, k)
    <3>1. InPool(p, k)' = InPool(p, k)
      <4>1. InPool(p, k)' = Among(Tail(queue[p]), Len(Tail(queue[p])), k) + running'[p][k]
        BY <2>4 DEF InPool
      <4>2. InPool(p, k) = Among(queue[p], Len(queue[p]), k) + running[p][k]
        BY DEF InPool
      <4>3. /\ Among(Tail(queue[p]), Len(Tail(queue[p])), k) \in Nat
            /\ running[p][k] \in Nat /\ One(h, k) \in Nat
        BY <2>7, <1>b, <1>f
      <4> QED BY <4>1, <4>2, <4>3, <2>3, <2>5
    <3>2. CASE r # p
      BY <3>2, <2>4, <2>6 DEF InPool
    <3> QED BY <3>1, <3>2
  <2>9. \A k \in Kinds : Among(requests', offered', k)
                          = InPool("primary", k)' + InPool("replica", k)'
                            + finished'[k] + recorded'[k]
    BY <2>1, <2>8, <1>c, <1>e
  <2>10. phase # "done"
    BY <2>1, <1>d
  <2> QED BY <2>1, <2>9, <2>10 DEF LedgerInv
<1>7. ASSUME NEW p \in Pools, NEW j \in Kinds, Finish(p, j) PROVE LedgerInv'
  <2>1. /\ running[p][j] > 0
        /\ running' = [running EXCEPT ![p][j] = @ - 1]
        /\ finished' = [finished EXCEPT ![j] = @ + 1]
        /\ UNCHANGED <<phase, requests, offered, queue, recorded>>
    BY <1>7 DEF Finish
  <2>2. \A k \in Kinds : running'[p][k] = running[p][k] - One(j, k)
                         /\ finished'[k] = finished[k] + One(j, k)
    BY <2>1, <1>b DEF TypeOK, One
  <2>3. \A r \in Pools : r # p => running'[r] = running[r]
    BY <2>1 DEF TypeOK
  <2>4. ASSUME NEW k \in Kinds
        PROVE  InPool("primary", k)' + InPool("replica", k)' + finished'[k]
                 = InPool("primary", k) + InPool("replica", k) + finished[k]
    <3>1. InPool(p, k)' = InPool(p, k) - One(j, k)
      <4>1. InPool(p, k)' = Among(queue[p], Len(queue[p]), k) + running'[p][k]
        BY <2>1 DEF InPool
      <4>2. InPool(p, k) = Among(queue[p], Len(queue[p]), k) + running[p][k]
        BY DEF InPool
      <4>3. /\ Among(queue[p], Len(queue[p]), k) \in Nat
            /\ running[p][k] \in Nat /\ One(j, k) \in Nat
        BY <1>b, <1>f
      <4> QED BY <4>1, <4>2, <4>3, <2>2
    <3>2. \A r \in Pools : r # p => InPool(r, k)' = InPool(r, k)
      BY <2>1, <2>3 DEF InPool
    <3>3. finished'[k] = finished[k] + One(j, k)
      BY <2>2
    <3>4. finished[k] \in Nat /\ One(j, k) \in Nat
      BY <1>b, <1>f
    <3>5. CASE p = "primary"
      BY <3>1, <3>2, <3>3, <3>4, <3>5, <1>e, <1>g
    <3>6. CASE p = "replica"
      BY <3>1, <3>2, <3>3, <3>4, <3>6, <1>e, <1>g
    <3> QED BY <3>5, <3>6, <1>e
  <2>5. \A k \in Kinds : Among(requests', offered', k)
                          = InPool("primary", k)' + InPool("replica", k)'
                            + finished'[k] + recorded'[k]
    BY <2>1, <2>4, <1>c
  <2>6. phase # "done"
    <3>1. NoneOf[j] = 0
      BY DEF NoneOf
    <3> QED BY <2>1, <3>1, <1>d
  <2> QED BY <2>1, <2>5, <2>6 DEF LedgerInv
<1>8. CASE UNCHANGED vars
  BY <1>8, <1>c, <1>d DEF vars, LedgerInv, InPool
<1> QED BY <1>1, <1>2, <1>3, <1>4, <1>5, <1>6, <1>7, <1>8 DEF Next, Main, Worker, Ended

\* Whatever the two executors did first and whatever the order of the futures,
\* the report has every generated request once, as the kind it was generated as,
\* and the main thread has slept every interval it describes.
THEOREM ReportComplete == Spec => []ReportMatchesWorkload
<1>1. TypeOK /\ LoopInv /\ LedgerInv => ReportMatchesWorkload
  <2> SUFFICES ASSUME TypeOK, LoopInv, LedgerInv, phase = "done"
               PROVE  /\ \A k \in Kinds : recorded[k] = NumberOf(k)
                      /\ count = config.total
                      /\ gaps = arrivals
    BY DEF ReportMatchesWorkload
  <2>1. /\ requests \in Seq(Kinds) /\ Len(requests) = config.total
        /\ offered = Len(requests) /\ config.total \in Nat
    BY ConfigTyped DEF TypeOK, LoopInv
  <2>2. \A q, k : Among(q, 0, k) = 0
    BY AmongMore
  <2>3. ASSUME NEW k \in Kinds, NEW p \in Pools PROVE InPool(p, k) = 0
    <3>1. queue[p] = <<>> /\ running[p] = NoneOf
      BY DEF LedgerInv
    <3>2. Len(queue[p]) = 0 /\ running[p][k] = 0
      BY <3>1 DEF NoneOf
    <3> QED BY <3>2, <2>2 DEF InPool
  <2>4. ASSUME NEW k \in Kinds PROVE recorded[k] = Among(requests, Len(requests), k)
    <3>1. finished[k] = 0
      BY DEF LedgerInv, NoneOf
    <3>2. InPool("primary", k) = 0 /\ InPool("replica", k) = 0
      BY <2>3 DEF Pools
    <3>3. recorded[k] \in Nat
      BY DEF TypeOK
    <3>4. Among(requests, offered, k) = InPool("primary", k) + InPool("replica", k)
                                        + finished[k] + recorded[k]
      BY DEF LedgerInv
    <3> QED BY <3>1, <3>2, <3>3, <3>4, <2>1
  <2>5. \A k \in Kinds : recorded[k] = NumberOf(k)
    BY <2>4 DEF NumberOf, Among
  <2>6. Among(requests, Len(requests), "read") + Among(requests, Len(requests), "write")
          = Len(requests)
    BY <2>1, AmongBoth
  <2>7. count = config.total
    BY <2>1, <2>4, <2>6 DEF count, Kinds
  <2>8. gaps = arrivals
    BY <2>1 DEF LoopInv, generate_arrivals
  <2> QED BY <2>5, <2>7, <2>8
<1> QED BY <1>1, InitTypes, TypeStep, InitLedger, LoopStep, LedgerStep, PTL DEF Spec

-----------------------------------------------------------------------------
(* The two resources *)

LEMMA TimesMonotone ==
    ASSUME NEW a \in Nat, NEW b \in Nat, NEW c \in Nat, a <= b
    PROVE  c * a <= c * b /\ a * c <= b * c
OBVIOUS

LEMMA TimesCancels ==
    ASSUME NEW a \in Nat, NEW b \in Nat, NEW c \in Nat \ {0}, c * a <= c * b
    PROVE  a <= b
OBVIOUS

LEMMA TimesNat ==
    ASSUME NEW a \in Nat, NEW b \in Nat
    PROVE  a * b \in Nat /\ a + b \in Nat
OBVIOUS

\* The work of w writes and r reads, scaled by the configured share of writes,
\* and the work of the configured mix, scaled by w, have the same writes in them.
Work(io, r, S, w, T) == io * (r * S + w * T)

LEMMA WorkScales ==
    ASSUME NEW io \in Nat, NEW r \in Nat, NEW S \in Nat, NEW w \in Nat, NEW T \in Nat,
           NEW c \in Nat
    PROVE  /\ Work(io, r, S, w, T) \in Nat
           /\ c * Work(io, r, S, w, T) = io * ((r * c) * S + (w * c) * T)
<1>1. Work(io, r, S, w, T) \in Nat
  <2>1. r * S + w * T \in Nat
    BY TimesNat
  <2> QED BY <2>1, TimesNat DEF Work
<1>2. c * (io * (r * S + w * T)) = io * ((r * c) * S + (w * c) * T)
  OBVIOUS
<1> QED BY <1>1, <1>2 DEF Work

LEMMA WorkMonotone ==
    ASSUME NEW io \in Nat, NEW S \in Nat, NEW T \in Nat,
           NEW a \in Nat, NEW b \in Nat, NEW d \in Nat, a <= b
    PROVE  io * (a * S + d * T) <= io * (b * S + d * T)
<1>1. a * S <= b * S /\ a * S \in Nat /\ b * S \in Nat /\ d * T \in Nat
  BY TimesMonotone, TimesNat
<1> DEFINE x == a * S
           y == b * S
           z == d * T
<1> HIDE DEF x, y, z
<1>2. x + z \in Nat /\ y + z \in Nat /\ x + z <= y + z
  BY <1>1 DEF x, y, z
<1>3. io * (x + z) <= io * (y + z)
  BY <1>2, TimesMonotone
<1> QED BY <1>3 DEF x, y, z

\* At least as many writes as configured: the configured mix, scaled, is at
\* least as much work; at most as many: at most as much.
LEMMA WorkOfMix ==
    ASSUME NEW io \in Nat, NEW S \in Nat, NEW T \in Nat,
           NEW r \in Nat, NEW w \in Nat, NEW R \in Nat, NEW W \in Nat
    PROVE  /\ r * W <= w * R => W * Work(io, r, S, w, T) <= w * Work(io, R, S, W, T)
           /\ w * R <= r * W => w * Work(io, R, S, W, T) <= W * Work(io, r, S, w, T)
<1> DEFINE a == r * W
           b == w * R
           d == w * W
<1>1. a \in Nat /\ b \in Nat /\ d \in Nat
  BY TimesNat
<1>2. R * w = b /\ W * w = d
  OBVIOUS
<1>3. W * Work(io, r, S, w, T) = io * (a * S + d * T)
  BY WorkScales
<1>4. w * Work(io, R, S, W, T) = io * (b * S + d * T)
  <2>1. w * Work(io, R, S, W, T) = io * ((R * w) * S + (W * w) * T)
    BY WorkScales
  <2> QED BY <2>1, <1>2
<1> HIDE DEF a, b, d
<1>5. a <= b => io * (a * S + d * T) <= io * (b * S + d * T)
  BY <1>1, WorkMonotone
<1>6. b <= a => io * (b * S + d * T) <= io * (a * S + d * T)
  BY <1>1, WorkMonotone
<1>7. /\ a <= b => W * Work(io, r, S, w, T) <= w * Work(io, R, S, W, T)
      /\ b <= a => w * Work(io, R, S, W, T) <= W * Work(io, r, S, w, T)
  BY <1>3, <1>4, <1>5, <1>6
<1> QED BY <1>7 DEF a, b

\* Comparing the drawn share of writes with the configured one.
LEMMA DrawnShare ==
    ASSUME NEW r \in Nat, NEW w \in Nat, NEW R \in 0..100
    PROVE  /\ w * 100 >= (r + w) * (100 - R) <=> r * (100 - R) <= w * R
           /\ w * 100 <= (r + w) * (100 - R) <=> w * R <= r * (100 - R)
OBVIOUS

\* The runner paces for the resource that the collector then names, for every
\* number of threads, every service time and every mix, unless the mix came out
\* on the other side of the configured one.
THEOREM PacingNamesBottleneck == Spec => []BottleneckFollowsPacing
<1>1. TypeOK => BottleneckFollowsPacing
  <2> DEFINE r == recorded["read"]
             w == recorded["write"]
             R == config.read_percent
             W == 100 - config.read_percent
             io == config.io_workers
             c == config.workers
             S == ServiceTime
             T == WriteTime
  <2> SUFFICES ASSUME TypeOK, r + w > 0
               PROVE  /\ PacedByIO /\ w * 100 >= (r + w) * W =>
                           bottleneck_resource = "io_subsystem"
                      /\ bottleneck_resource = "io_subsystem" /\ w * 100 <= (r + w) * W =>
                           PacedByIO \/ io * (R * S + W * T) = c * T * W
    BY DEF BottleneckFollowsPacing, count
  <2>1. /\ r \in Nat /\ w \in Nat /\ R \in 0..100 /\ R \in Nat /\ W \in Nat
        /\ io \in Nat /\ c \in Nat /\ S \in Nat \ {0} /\ T \in Nat \ {0}
        /\ io > 0
    <3>1. r \in Nat /\ w \in Nat
      BY DEF TypeOK, Kinds
    <3>2. R \in 0..100 /\ c \in Nat
      BY ConfigTyped DEF TypeOK
    <3>3. io \in Nat \ {0} /\ S \in Nat \ {0} /\ T \in Nat \ {0}
      BY CqrsAssumption DEF TypeOK, load_config
    <3> HIDE DEF r, w, R, io, c, S, T
    <3>4. R \in Nat /\ W \in Nat
      BY <3>2 DEF R
    <3> QED BY <3>1, <3>2, <3>3, <3>4
  <2>2. PacedByIO <=> W > 0 /\ io * (R * S + W * T) < c * T * W
    BY DEF PacedByIO
  <2>3. bottleneck_resource = "io_subsystem" <=> w * T * c >= (r * S + w * T) * io
    BY DEF bottleneck_resource, count
  <2>4. /\ w * 100 >= (r + w) * W <=> r * W <= w * R
        /\ w * 100 <= (r + w) * W <=> w * R <= r * W
    BY <2>1, DrawnShare
  <2> HIDE DEF r, w, R, W, io, c, S, T
  <2> DEFINE drawn == Work(io, r, S, w, T)
             meant == Work(io, R, S, W, T)
  <2>5. /\ drawn \in Nat /\ meant \in Nat /\ w * (T * c) \in Nat /\ W * (T * c) \in Nat
        /\ T * c \in Nat
    BY <2>1, WorkScales, TimesNat
  <2>6. /\ drawn = (r * S + w * T) * io /\ meant = io * (R * S + W * T)
        /\ w * T * c = w * (T * c) /\ c * T * W = W * (T * c)
    BY <2>1 DEF Work
  <2>7. /\ r * W <= w * R => W * drawn <= w * meant
        /\ w * R <= r * W => w * meant <= W * drawn
    BY <2>1, WorkOfMix
  <2>8. W * (w * (T * c)) = w * (W * (T * c))
    BY <2>1, <2>5
  <2> HIDE DEF drawn, meant
  <2>9. ASSUME PacedByIO, r * W <= w * R PROVE drawn <= w * (T * c)
    <3>1. W \in Nat \ {0} /\ meant <= W * (T * c)
      BY <2>1, <2>2, <2>5, <2>6, <2>9
    <3>2. w * meant <= w * (W * (T * c))
      BY <3>1, <2>1, <2>5, TimesMonotone
    <3>3. W * drawn <= w * meant /\ W * drawn \in Nat /\ w * meant \in Nat
      BY <2>1, <2>5, <2>7, <2>9, TimesNat
    <3>4. W * drawn <= W * (w * (T * c))
      BY <3>2, <3>3, <2>8, <2>1, <2>5, TimesNat
    <3> QED BY <3>1, <3>4, <2>5, TimesCancels
  <2>10. ASSUME drawn <= w * (T * c), w * R <= r * W
         PROVE  W > 0 /\ meant <= W * (T * c)
    <3>1. w \in Nat \ {0}
      <4> SUFFICES ASSUME w = 0 PROVE FALSE
        BY <2>1
      <4>1. drawn <= 0
        BY <2>10, <2>5
      <4>2. r \in Nat \ {0} /\ io \in Nat \ {0}
        BY <2>1, r + w > 0
      <4>3. drawn = (r * S) * io
        BY <2>1, <2>6
      <4>4. r * S > 0 /\ r * S \in Nat
        BY <4>2, <2>1
      <4> QED BY <4>1, <4>2, <4>3, <4>4
    <3>2. W > 0
      <4> SUFFICES ASSUME W = 0 PROVE FALSE
        BY <2>1
      <4>1. R = 100
        BY <2>1 DEF R, W
      <4> QED BY <4>1, <3>1, <2>1, <2>10
    <3>3. w * meant <= W * drawn /\ w * meant \in Nat /\ W * drawn \in Nat
      BY <2>1, <2>5, <2>7, <2>10, TimesNat
    <3>4. W * drawn <= W * (w * (T * c))
      BY <2>1, <2>5, <2>10, TimesMonotone
    <3>5. w * meant <= w * (W * (T * c))
      BY <3>3, <3>4, <2>8, <2>1, <2>5, TimesNat
    <3> QED BY <3>1, <3>2, <3>5, <2>5, TimesCancels
  <2>11. PacedByIO /\ w * 100 >= (r + w) * W => bottleneck_resource = "io_subsystem"
    BY <2>3, <2>4, <2>5, <2>6, <2>9
  <2>12. bottleneck_resource = "io_subsystem" /\ w * 100 <= (r + w) * W =>
           PacedByIO \/ io * (R * S + W * T) = c * T * W
    <3> SUFFICES ASSUME bottleneck_resource = "io_subsystem", w * 100 <= (r + w) * W
                 PROVE  PacedByIO \/ meant = W * (T * c)
      BY <2>6
    <3>1. drawn <= w * (T * c) /\ w * R <= r * W
      BY <2>3, <2>4, <2>6
    <3>2. W > 0 /\ meant <= W * (T * c)
      BY <3>1, <2>10
    <3>3. meant < W * (T * c) => PacedByIO
      BY <3>2, <2>2, <2>6
    <3> QED BY <3>2, <3>3, <2>5
  <2> QED BY <2>11, <2>12
<1> QED BY <1>1, TypeCorrect, PTL

-----------------------------------------------------------------------------
(* Termination *)

\* How many steps the main thread has to take before it collects, at most, when a
\* request that it offers counts as four ...
Ahead ==
    CASE phase = "load"    -> 4 * config.total + 3
      [] phase = "offer"   -> 4 * (Len(requests) - offered) + 2
      [] phase = "collect" -> 1
      [] OTHER             -> 0

\* ... and what the requests have ahead of them that the executors hold, one step
\* fewer at every station.
Weight(q, r, f) == 3 * q + 2 * r + f

InQueues == Len(queue["primary"]) + Len(queue["replica"])
InThreads == running["primary"]["read"] + running["primary"]["write"]
             + running["replica"]["read"] + running["replica"]["write"]
Done == finished["read"] + finished["write"]
Held == Weight(InQueues, InThreads, Done)

\* A step brings the report nearer.
Advances ==
    /\ Ahead \in Nat /\ Ahead' \in Nat /\ Held \in Nat /\ Held' \in Nat
    /\ Ahead' + Held' < Ahead + Held

LEMMA Weights ==
    ASSUME NEW q \in Nat, NEW r \in Nat, NEW f \in Nat
    PROVE  /\ Weight(q, r, f) \in Nat
           /\ Weight(q + 1, r, f) = Weight(q, r, f) + 3
           /\ q > 0 => Weight(q - 1, r + 1, f) < Weight(q, r, f)
           /\ r > 0 => Weight(q, r - 1, f + 1) < Weight(q, r, f)
           /\ f > 0 => Weight(q, r, f - 1) < Weight(q, r, f)
BY DEF Weight

LEMMA LengthsAdd ==
    ASSUME NEW a \in Nat, NEW b \in Nat
    PROVE  /\ (a + 1) + b = (a + b) + 1 /\ a + (b + 1) = (a + b) + 1
           /\ (a - 1) + b = (a + b) - 1 /\ a + (b - 1) = (a + b) - 1
           /\ (a > 0 \/ b > 0) => a + b > 0
OBVIOUS

LEMMA LessAdds ==
    ASSUME NEW a \in Nat, NEW b \in Nat, NEW c \in Nat, NEW d \in Nat
    PROVE  /\ a < c /\ b = d => a + b < c + d
           /\ a = c /\ b < d => a + b < c + d
OBVIOUS

LEMMA HeldTyped ==
    ASSUME TypeOK
    PROVE  InQueues \in Nat /\ InThreads \in Nat /\ Done \in Nat /\ Held \in Nat
<1>1. \A p \in Pools : Len(queue[p]) \in Nat
  BY DEF TypeOK
<1>2. InQueues \in Nat /\ InThreads \in Nat /\ Done \in Nat
  BY <1>1 DEF TypeOK, Pools, Kinds, InQueues, InThreads, Done
<1> QED BY <1>2, Weights DEF Held

\* The workers move requests on; the main thread is left alone.
LEMMA WorkerAdvances ==
    ASSUME TypeOK, NEW p \in Pools, Worker(p)
    PROVE  Held' < Held /\ UNCHANGED <<config, phase, requests, offered>>
<1>a. InQueues \in Nat /\ InThreads \in Nat /\ Done \in Nat
  BY HeldTyped
<1>b. p = "primary" \/ p = "replica"
  BY DEF Pools
<1>c. /\ running["primary"]["read"] \in Nat /\ running["primary"]["write"] \in Nat
      /\ running["replica"]["read"] \in Nat /\ running["replica"]["write"] \in Nat
      /\ finished["read"] \in Nat /\ finished["write"] \in Nat
  BY DEF TypeOK, Pools, Kinds
<1>1. CASE Take(p)
  <2> DEFINE h == Head(queue[p])
             t == Tail(queue[p])
  <2>1. /\ queue[p] # <<>> /\ queue' = [queue EXCEPT ![p] = t]
        /\ running' = [running EXCEPT ![p][h] = @ + 1]
        /\ UNCHANGED <<config, phase, requests, offered, finished>>
    BY <1>1 DEF Take
  <2>2. queue[p] \in Seq(Kinds) /\ h \in Kinds /\ Len(t) = Len(queue[p]) - 1
        /\ Len(queue[p]) \in Nat \ {0}
    BY <2>1, TailOfQueue DEF TypeOK
  <2> HIDE DEF h, t
  <2>3. Len(queue["primary"]) \in Nat /\ Len(queue["replica"]) \in Nat
    BY DEF TypeOK, Pools
  <2>4. queue'[p] = t /\ \A r \in Pools : r # p => queue'[r] = queue[r]
    BY <2>1 DEF TypeOK
  <2>5. InQueues' = InQueues - 1 /\ InQueues > 0
    <3>1. CASE p = "primary"
      <4>1. /\ Len(queue'["primary"]) = Len(queue["primary"]) - 1
            /\ Len(queue'["replica"]) = Len(queue["replica"])
            /\ Len(queue["primary"]) > 0
        BY <2>2, <2>4, <3>1 DEF Pools
      <4> QED BY <2>3, <4>1, LengthsAdd DEF InQueues
    <3>2. CASE p = "replica"
      <4>1. /\ Len(queue'["replica"]) = Len(queue["replica"]) - 1
            /\ Len(queue'["primary"]) = Len(queue["primary"])
            /\ Len(queue["replica"]) > 0
        BY <2>2, <2>4, <3>2 DEF Pools
      <4> QED BY <2>3, <4>1, LengthsAdd DEF InQueues
    <3> QED BY <1>b, <3>1, <3>2
  <2>6. InThreads' = InThreads + 1
    <3>1. \A r \in Pools, k \in Kinds :
            running'[r][k] = running[r][k] + (IF r = p /\ k = h THEN 1 ELSE 0)
      <4>1. /\ running \in [Pools -> [Kinds -> Nat]]
            /\ running' = [running EXCEPT ![p] = [running[p] EXCEPT ![h] = running[p][h] + 1]]
        BY <2>1 DEF TypeOK
      <4>2. /\ \A r \in Pools : r # p => running'[r] = running[r]
            /\ running'[p] = [running[p] EXCEPT ![h] = running[p][h] + 1]
            /\ running[p] \in [Kinds -> Nat]
        BY <4>1
      <4>3. \A k \in Kinds : running'[p][k] = running[p][k] + (IF k = h THEN 1 ELSE 0)
        BY <2>2, <4>2
      <4>4. \A r \in Pools, k \in Kinds : running[r][k] \in Nat
        BY <4>1
      <4> QED BY <4>2, <4>3, <4>4
    <3>2. CASE p = "primary" /\ h = "read"
      BY <1>c, <3>1, <3>2 DEF InThreads, Pools, Kinds
    <3>3. CASE p = "primary" /\ h = "write"
      BY <1>c, <3>1, <3>3 DEF InThreads, Pools, Kinds
    <3>4. CASE p = "replica" /\ h = "read"
      BY <1>c, <3>1, <3>4 DEF InThreads, Pools, Kinds
    <3>5. CASE p = "replica" /\ h = "write"
      BY <1>c, <3>1, <3>5 DEF InThreads, Pools, Kinds
    <3> QED BY <1>b, <2>2, <3>2, <3>3, <3>4, <3>5 DEF Kinds
  <2>7. Done' = Done
    BY <2>1 DEF Done
  <2>8. Held' = Weight(InQueues - 1, InThreads + 1, Done)
    BY <2>5, <2>6, <2>7 DEF Held
  <2>9. Held' < Held
    BY <1>a, <2>5, <2>8, Weights DEF Held
  <2> QED BY <2>1, <2>9
<1>2. ASSUME NEW j \in Kinds, Finish(p, j)
      PROVE  Held' < Held /\ UNCHANGED <<config, phase, requests, offered>>
  <2>1. /\ running[p][j] > 0
        /\ running' = [running EXCEPT ![p][j] = @ - 1]
        /\ finished' = [finished EXCEPT ![j] = @ + 1]
        /\ UNCHANGED <<config, phase, requests, offered, queue>>
    BY <1>2 DEF Finish
  <2>2. \A r \in Pools, k \in Kinds :
          running'[r][k] = running[r][k] - (IF r = p /\ k = j THEN 1 ELSE 0)
    BY <2>1 DEF TypeOK
  <2>3. \A k \in Kinds : finished'[k] = finished[k] + (IF k = j THEN 1 ELSE 0)
    BY <2>1 DEF TypeOK
  <2>4. InThreads' = InThreads - 1 /\ InThreads > 0
    <3>1. CASE p = "primary" /\ j = "read"
      BY <1>c, <2>1, <2>2, <3>1 DEF InThreads, Pools, Kinds
    <3>2. CASE p = "primary" /\ j = "write"
      BY <1>c, <2>1, <2>2, <3>2 DEF InThreads, Pools, Kinds
    <3>3. CASE p = "replica" /\ j = "read"
      BY <1>c, <2>1, <2>2, <3>3 DEF InThreads, Pools, Kinds
    <3>4. CASE p = "replica" /\ j = "write"
      BY <1>c, <2>1, <2>2, <3>4 DEF InThreads, Pools, Kinds
    <3> QED BY <1>b, <3>1, <3>2, <3>3, <3>4 DEF Kinds
  <2>5. Done' = Done + 1
    BY <1>c, <2>3 DEF Done, Kinds
  <2>6. InQueues' = InQueues
    BY <2>1 DEF InQueues
  <2>7. Held' = Weight(InQueues, InThreads - 1, Done + 1)
    BY <2>4, <2>5, <2>6 DEF Held
  <2>8. Held' < Held
    BY <1>a, <2>4, <2>7, Weights DEF Held
  <2> QED BY <2>1, <2>8
<1> QED BY <1>1, <1>2 DEF Worker

\* Whatever the mix, the threads and their order, every step of the benchmark is
\* one of a number that is bounded by the configuration: no run of it goes on for
\* ever.
THEOREM StepsAreBounded == Spec => [][Advances]_vars
<1>1. TypeOK /\ TypeOK' /\ PaceInv' /\ LoopInv' /\ [Next]_vars => [Advances]_vars
  <2> SUFFICES ASSUME TypeOK, TypeOK', PaceInv', LoopInv', Next, ~UNCHANGED vars
               PROVE  Advances
    OBVIOUS
  <2>a. Held \in Nat /\ Held' \in Nat
    <3>1. TypeOK => Held \in Nat
      BY HeldTyped
    <3>2. Held' \in Nat
      <4>1. \A p \in Pools : Len(queue'[p]) \in Nat
        BY DEF TypeOK
      <4>2. InQueues' \in Nat /\ InThreads' \in Nat /\ Done' \in Nat
        <5>1. InQueues' \in Nat
          <6>1. Len(queue'["primary"]) \in Nat /\ Len(queue'["replica"]) \in Nat
            BY <4>1 DEF Pools
          <6>2. InQueues' = Len(queue'["primary"]) + Len(queue'["replica"])
            BY DEF InQueues
          <6> QED BY <6>1, <6>2, TimesNat
        <5>2. /\ running'["primary"]["read"] \in Nat /\ running'["primary"]["write"] \in Nat
              /\ running'["replica"]["read"] \in Nat /\ running'["replica"]["write"] \in Nat
              /\ finished'["read"] \in Nat /\ finished'["write"] \in Nat
          BY DEF TypeOK, Pools, Kinds
        <5>3. InThreads' \in Nat /\ Done' \in Nat
          BY <5>2 DEF InThreads, Done
        <5> QED BY <5>1, <5>3
      <4> QED BY <4>2, Weights DEF Held
    <3> QED BY <3>1, <3>2
  <2>b. /\ config.total \in Nat /\ offered \in Nat /\ Len(requests) \in Nat
        /\ offered <= Len(requests)
        /\ offered' \in Nat /\ Len(requests') \in Nat /\ offered' <= Len(requests')
    BY ConfigTyped DEF TypeOK
  <2>1. CASE Generate
    <3>1. phase = "load" /\ phase' \in {"failed", "offer"}
          /\ UNCHANGED <<config, offered, queue, running, finished>>
      BY <2>1 DEF Generate
    <3>2. Held' = Held
      BY <3>1 DEF Held, InQueues, InThreads, Done
    <3>3. Ahead = 4 * config.total + 3
      BY <3>1 DEF Ahead
    <3>4. Ahead' \in Nat /\ Ahead' < Ahead
      <4>1. CASE phase' = "failed"
        <5>1. Ahead' = 0
          BY <4>1 DEF Ahead
        <5> QED BY <2>b, <3>3, <5>1
      <4>2. CASE phase' = "offer"
        <5>1. Len(requests') = config.total
          BY <3>1, <4>2 DEF LoopInv
        <5>2. Ahead' = 4 * (config.total - offered) + 2
          BY <3>1, <4>2, <5>1 DEF Ahead
        <5> QED BY <2>b, <3>1, <3>3, <5>1, <5>2
      <4> QED BY <3>1, <4>1, <4>2
    <3>5. Ahead \in Nat
      BY <2>b, <3>3
    <3> QED BY <2>a, <3>2, <3>4, <3>5, LessAdds DEF Advances
  <2>2. CASE Submit
    <3>1. PICK kind \in Kinds, target \in Pools :
            /\ kind = requests[offered + 1]
            /\ target = route_request(kind, config.lag > 0)
      BY <2>2, <2>b DEF Submit, TypeOK, route_request, Pools
    <3>2. /\ phase = "offer" /\ phase' = "offer" /\ offered' = offered + 1
          /\ queue' = [queue EXCEPT ![target] = Append(queue[target], kind)]
          /\ UNCHANGED <<requests, running, finished>>
      BY <2>2, <3>1 DEF Submit
    <3>3. Len(queue["primary"]) \in Nat /\ Len(queue["replica"]) \in Nat
      BY DEF TypeOK, Pools
    <3>4. /\ Len(queue'[target]) = Len(queue[target]) + 1
          /\ \A r \in Pools : r # target => queue'[r] = queue[r]
      <4>1. queue[target] \in Seq(Kinds) /\ queue \in [Pools -> Seq(Kinds)]
        BY <3>1 DEF TypeOK
      <4>2. Len(Append(queue[target], kind)) = Len(queue[target]) + 1
        BY <4>1, <3>1, AppendToQueue
      <4> QED BY <3>2, <4>1, <4>2
    <3>5. InQueues' = InQueues + 1
      <4>1. CASE target = "primary"
        <5>1. /\ Len(queue'["primary"]) = Len(queue["primary"]) + 1
              /\ Len(queue'["replica"]) = Len(queue["replica"])
          BY <3>4, <4>1 DEF Pools
        <5> QED BY <3>3, <5>1, LengthsAdd DEF InQueues
      <4>2. CASE target = "replica"
        <5>1. /\ Len(queue'["replica"]) = Len(queue["replica"]) + 1
              /\ Len(queue'["primary"]) = Len(queue["primary"])
          BY <3>4, <4>2 DEF Pools
        <5> QED BY <3>3, <5>1, LengthsAdd DEF InQueues
      <4> QED BY <3>1, <4>1, <4>2 DEF Pools
    <3>6. Held' = Weight(InQueues + 1, InThreads, Done)
      BY <3>2, <3>5 DEF Held, InThreads, Done
    <3>7. Held' = Held + 3
      BY <3>6, HeldTyped, Weights DEF Held
    <3>8. /\ Ahead = 4 * (Len(requests) - offered) + 2
          /\ Ahead' = 4 * (Len(requests) - (offered + 1)) + 2
      BY <3>2 DEF Ahead
    <3>9. Ahead' = Ahead - 4 /\ Ahead \in Nat /\ Ahead' \in Nat
      BY <2>b, <3>2, <3>8
    <3> QED BY <2>a, <3>7, <3>9 DEF Advances
  <2>3. CASE AllOffered
    <3>1. /\ phase = "offer" /\ phase' = "collect" /\ offered = Len(requests)
          /\ UNCHANGED <<queue, running, finished>>
      BY <2>3 DEF AllOffered
    <3>2. Held' = Held
      BY <3>1 DEF Held, InQueues, InThreads, Done
    <3>3. Ahead = 4 * (Len(requests) - offered) + 2 /\ Ahead' = 1
      BY <3>1 DEF Ahead
    <3>4. Ahead = 2
      <4>1. Len(requests) - offered = 0
        BY <2>b, <3>1
      <4> QED BY <3>3, <4>1
    <3> QED BY <2>a, <3>2, <3>3, <3>4 DEF Advances
  <2>4. CASE Report
    <3>1. phase = "collect" /\ phase' = "done" /\ UNCHANGED <<queue, running, finished>>
      BY <2>4 DEF Report
    <3>2. Held' = Held
      BY <3>1 DEF Held, InQueues, InThreads, Done
    <3>3. Ahead = 1 /\ Ahead' = 0
      BY <3>1 DEF Ahead
    <3> QED BY <2>a, <3>2, <3>3 DEF Advances
  <2>5. ASSUME Held' < Held, UNCHANGED <<config, phase, requests, offered>>
        PROVE  Advances
    <3>1. Ahead' = Ahead
      BY <2>5 DEF Ahead
    <3>2. Ahead \in Nat
      <4>1. 4 * config.total + 3 \in Nat /\ 4 * (Len(requests) - offered) + 2 \in Nat
        BY <2>b
      <4> QED BY <4>1 DEF Ahead
    <3> QED BY <2>5, <2>a, <3>1, <3>2, LessAdds DEF Advances
  <2>6. ASSUME NEW j \in Kinds, Collect(j) PROVE Advances
    <3>1. /\ finished[j] > 0 /\ finished' = [finished EXCEPT ![j] = @ - 1]
          /\ UNCHANGED <<config, phase, requests, offered, queue, running>>
      BY <2>6 DEF Collect
    <3>2. \A k \in Kinds : finished'[k] = finished[k] - (IF k = j THEN 1 ELSE 0)
      BY <3>1 DEF TypeOK
    <3>3. Done' = Done - 1 /\ Done > 0
      <4>1. finished["read"] \in Nat /\ finished["write"] \in Nat
        BY DEF TypeOK, Kinds
      <4> QED BY <3>1, <3>2, <4>1 DEF Done, Kinds
    <3>4. Held' = Weight(InQueues, InThreads, Done - 1)
      BY <3>1, <3>3 DEF Held, InQueues, InThreads
    <3>5. Held' < Held
      BY <3>3, <3>4, HeldTyped, Weights DEF Held
    <3> QED BY <2>5, <3>1, <3>5
  <2>7. ASSUME NEW p \in Pools, Worker(p) PROVE Advances
    BY <2>5, <2>7, WorkerAdvances
  <2>8. ~Ended
    BY DEF Ended
  <2> QED BY <2>1, <2>2, <2>3, <2>4, <2>6, <2>7, <2>8 DEF Next, Main
<1> QED BY <1>1, InitTypes, TypeStep, InitLedger, LoopStep, PTL DEF Spec

=============================================================================
