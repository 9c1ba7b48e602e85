---------------------------- MODULE ModesProofs ----------------------------
(***************************************************************************)
(* Theorems about Modes, for any modes, slots, keys, locks, changes and    *)
(* bounds: the server follows services, and its channel obeys the lock.    *)
(*                                                                         *)
(* ModesInv says what will be, not what is.  Future is the server once it  *)
(* has received all that is under way to it; Reports(c) says that what is  *)
(* under way to services is the list of changes c, and perhaps a last PART.*)
(* While nothing crossed, the modes that services will have once they have *)
(* heard c are those of Future with the stack applied (Agrees).  Each step *)
(* of the code moves changes from one of these places to another: a change *)
(* of services goes on the stack (ChangeGoes), the stack into lines under  *)
(* way (FlushGoes), the first of what is under way into the server.        *)
(*                                                                         *)
(* LockInv looks at each simple mode, each slot and the key by itself (an  *)
(* aspect of the channel): either the server's end obeys the lock, or a    *)
(* report that breaks it is under way to services (Pending), which will    *)
(* answer it by check_modes().  That is why a lock holds even when changes *)
(* cross.                                                                  *)
(*                                                                         *)
(* Loops over lists are the folds of the library; what they compute is     *)
(* proved by induction over the set of lengths for which it holds.         *)
(***************************************************************************)
EXTENDS Modes, FiniteSetTheorems, WellFoundedInduction, TLAPS

LEMMA LeastNat ==
    ASSUME NEW T \in SUBSET Nat, T # {}
    PROVE  \E n \in T : \A m \in T : n <= m
  <1> DEFINE R == {ss \in Nat \X Nat : ss[1] < ss[2]}
  <1>1. IsWellFoundedOn(R, Nat)
    BY NatLessThanWellFounded DEF OpToRel
  <1>2. \E x \in T : \A y \in T : <<y, x>> \notin R
    <2> HIDE DEF R
    <2> QED BY <1>1, WFMin
  <1>3. \A x, y \in Nat : <<y, x>> \in R <=> y < x
    OBVIOUS
  <1> HIDE DEF R
  <1>4. PICK x \in T : \A y \in T : <<y, x>> \notin R
    BY <1>2
  <1>5. \A m \in T : ~(m < x)
    BY <1>3, <1>4
  <1> QED BY <1>5

LEMMA NatInductionSet ==
    ASSUME NEW S, 0 \in S, \A n \in Nat : n \in S => n + 1 \in S
    PROVE  Nat \subseteq S
  <1> SUFFICES ASSUME ~(Nat \subseteq S) PROVE FALSE
    OBVIOUS
  <1>1. PICK n \in Nat \ S : \A m \in Nat \ S : n <= m
    BY LeastNat
  <1>2. n # 0 /\ n - 1 \in Nat /\ n - 1 \in S
    BY <1>1
  <1> QED BY <1>1, <1>2

(* Loops over a list.  FoldLeft() is a recursion over the sets of positions:  *)
(* the function it picks exists, and its values at the first positions are    *)
(* what the loop goes through.                                                *)

MaxOf(S) == CHOOSE x \in S : \A y \in S : x >= y

LEMMA MaxIs ==
    ASSUME NEW n \in Nat, NEW s \in SUBSET (1 .. n), s # {}
    PROVE  MaxOf(s) \in s /\ \A y \in s : y <= MaxOf(s)
  <1> DEFINE T == {k \in Nat : n - k \in s}
  <1>1. T # {}
    <2>1. PICK y \in s : TRUE
      OBVIOUS
    <2>2. n - y \in Nat /\ n - (n - y) = y
      BY <2>1
    <2> QED BY <2>1, <2>2
  <1>2. PICK k \in T : \A m \in T : k <= m
    <2>1. T \subseteq Nat
      OBVIOUS
    <2> HIDE DEF T
    <2> QED BY <1>1, <2>1, LeastNat
  <1>3. n - k \in s /\ \A y \in s : n - k >= y
    <2>1. \A y \in s : n - y \in T
      OBVIOUS
    <2> QED BY <1>2, <2>1
  <1>4. MaxOf(s) \in s /\ \A y \in s : MaxOf(s) >= y
    BY <1>3, Zenon DEF MaxOf
  <1> QED BY <1>4

LEMMA MaxOfFirst == ASSUME NEW n \in Nat \ {0} PROVE MaxOf(1 .. n) = n /\ (1 .. n) \ {n} = 1 .. n - 1
  <1>1. MaxOf(1 .. n) \in 1 .. n /\ \A y \in 1 .. n : y <= MaxOf(1 .. n)
    <2>1. 1 .. n # {} /\ (1 .. n) \in SUBSET (1 .. n) /\ n \in Nat
      OBVIOUS
    <2> QED BY <2>1, MaxIs
  <1>2. n \in 1 .. n
    OBVIOUS
  <1>3. MaxOf(1 .. n) = n
    BY <1>1, <1>2
  <1>4. (1 .. n) \ {n} = 1 .. n - 1
    OBVIOUS
  <1> QED BY <1>3, <1>4

\* The recursive function of a loop over the first n elements of order.
Iterates(g, step, s0, order, n) ==
    g = [s \in SUBSET (1 .. n) |->
           IF s = {} THEN s0 ELSE step[<<g[s \ {MaxOf(s)}], order[MaxOf(s)]>>]]

Holds(order, n, U) == \A i \in 1 .. n : order[i] \in U
HasIterate(X, step, s0, order, n) == \E g \in [SUBSET (1 .. n) -> X] : Iterates(g, step, s0, order, n)

LEMMA IteratesExists ==
    ASSUME NEW X, NEW U, NEW step \in [X \X U -> X], NEW s0 \in X,
           NEW n \in Nat, NEW order, Holds(order, n, U)
    PROVE  HasIterate(X, step, s0, order, n)
  <1> DEFINE Q(m) == \E g \in [SUBSET (1 .. m) -> X] : Iterates(g, step, s0, order, m)
             S == {m \in Nat : m <= n => Q(m)}
  <1>1. 0 \in S
    <2> DEFINE g == [s \in SUBSET (1 .. 0) |-> s0]
    <2>1. \A s \in SUBSET (1 .. 0) : s = {}
      OBVIOUS
    <2>2. g = [s \in SUBSET (1 .. 0) |->
                 IF s = {} THEN s0 ELSE step[<<g[s \ {MaxOf(s)}], order[MaxOf(s)]>>]]
      BY <2>1, Zenon
    <2>3. g \in [SUBSET (1 .. 0) -> X]
      OBVIOUS
    <2>4. Iterates(g, step, s0, order, 0)
      BY <2>2, Zenon DEF Iterates
    <2> HIDE DEF g
    <2> QED BY <2>3, <2>4
  <1>2. ASSUME NEW m \in Nat, m \in S PROVE m + 1 \in S
    <2> HIDE DEF Q
    <2> SUFFICES ASSUME m + 1 <= n PROVE Q(m + 1)
      OBVIOUS
    <2>0. Q(m)
      BY <1>2
    <2>1. PICK g \in [SUBSET (1 .. m) -> X] : Iterates(g, step, s0, order, m)
      BY <2>0 DEF Q
    <2> DEFINE D == SUBSET (1 .. m + 1)
               V(f, s) == IF s = {} THEN s0 ELSE step[<<f[s \ {MaxOf(s)}], order[MaxOf(s)]>>]
               h == [s \in D |-> IF m + 1 \in s THEN step[<<g[s \ {m + 1}], order[m + 1]>>] ELSE g[s]]
    <2>2. \A s \in D : s \ {m + 1} \in SUBSET (1 .. m) /\ (m + 1 \notin s => s \in SUBSET (1 .. m))
      OBVIOUS
    <2>3. h \in [D -> X]
      <3>1. order[m + 1] \in U
        BY DEF Holds
      <3>2. \A s \in D : m + 1 \in s => step[<<g[s \ {m + 1}], order[m + 1]>>] \in X
        BY <2>2, <3>1
      <3>3. \A s \in D : m + 1 \notin s => g[s] \in X
        BY <2>2
      <3> HIDE DEF D
      <3> QED BY <3>2, <3>3
    <2>4. \A s \in SUBSET (1 .. m) : s \in D /\ h[s] = g[s]
      <3>1. \A s \in SUBSET (1 .. m) : s \in D /\ m + 1 \notin s
        OBVIOUS
      <3> HIDE DEF D
      <3> QED BY <3>1
    <2>5. \A s \in SUBSET (1 .. m) : g[s] = V(g, s)
      BY <2>1, Zenon DEF Iterates
    <2>6. ASSUME NEW s \in D PROVE h[s] = V(h, s)
      <3>1. CASE m + 1 \in s
        <4>1. MaxOf(s) = m + 1
          <5>1. s # {} /\ m + 1 \in Nat
            BY <3>1
          <5>2. MaxOf(s) \in s /\ \A y \in s : y <= MaxOf(s)
            BY <5>1, MaxIs
          <5>3. MaxOf(s) \in 1 .. m + 1
            BY <5>2
          <5> QED BY <5>2, <5>3, <3>1
        <4>2. h[s] = step[<<g[s \ {m + 1}], order[m + 1]>>]
          BY <3>1
        <4>3. h[s \ {m + 1}] = g[s \ {m + 1}]
          BY <2>2, <2>4
        <4>4. s # {}
          BY <3>1
        <4> HIDE DEF h
        <4>5. h[s] = step[<<h[s \ {MaxOf(s)}], order[MaxOf(s)]>>]
          BY <4>1, <4>2, <4>3, Zenon
        <4> QED BY <4>4, <4>5, Zenon
      <3>2. CASE m + 1 \notin s
        <4>1. s \in SUBSET (1 .. m)
          BY <2>2, <3>2
        <4>2. s \ {MaxOf(s)} \in SUBSET (1 .. m)
          BY <4>1
        <4>3. h[s] = g[s] /\ h[s \ {MaxOf(s)}] = g[s \ {MaxOf(s)}]
          BY <2>4, <4>1, <4>2
        <4>4. g[s] = V(g, s)
          BY <2>5, <4>1
        <4> HIDE DEF h
        <4>5. V(g, s) = V(h, s)
          BY <4>3, Zenon
        <4> QED BY <4>3, <4>4, <4>5, Zenon
      <3> QED BY <3>1, <3>2
    <2>7. h = [s \in D |-> V(h, s)]
      <3>1. h = [s \in D |-> h[s]]
        OBVIOUS
      <3> HIDE DEF h, D, V
      <3> QED BY <2>6, <3>1, Zenon
    <2>8. Iterates(h, step, s0, order, m + 1)
      <3> HIDE DEF h
      <3> QED BY <2>7, Zenon DEF Iterates
    <2> HIDE DEF h
    <2> QED BY <2>3, <2>8 DEF Q
  <1> HIDE DEF S, Q
  <1>3. Nat \subseteq S
    BY <1>1, <1>2, NatInductionSet
  <1>4. Q(n)
    BY <1>3 DEF S
  <1> QED BY <1>4 DEF Q, HasIterate

-----------------------------------------------------------------------------
(* Modes: what services and the server make of the modes of a channel. *)

LEMMA SetToSeqIs ==
    ASSUME NEW S, IsFiniteSet(S)
    PROVE  \E n \in Nat : /\ DOMAIN SetToSeq(S) = 1 .. n /\ \A i \in 1 .. n : SetToSeq(S)[i] \in S
                          /\ \A x \in S : \E i \in 1 .. n : SetToSeq(S)[i] = x
  <1> DEFINE n == Cardinality(S)
             Q(f) == f \in [1 .. n -> S] /\ \A i, j \in 1 .. n : f[i] = f[j] => i = j
             f == CHOOSE f \in [1 .. n -> S] : IsInjective(f)
  <1>1. n \in Nat /\ ExistsBijection(1 .. n, S)
    BY FS_CardinalityType
  <1>2. f = SetToSeq(S)
    BY DEF SetToSeq
  <1>3. \A g \in [1 .. n -> S] : IsInjective(g) <=> \A i, j \in 1 .. n : g[i] = g[j] => i = j
    BY DEF IsInjective
  <1>4. \E g \in [1 .. n -> S] : IsInjective(g)
    <2>1. PICK g : g \in Bijection(1 .. n, S)
      BY <1>1 DEF ExistsBijection
    <2>2. g \in [1 .. n -> S] /\ \A i, j \in 1 .. n : g[i] = g[j] => i = j
      BY <2>1 DEF Bijection, Injection, IsInjective
    <2> QED BY <2>2, <1>3
  <1>5. f \in [1 .. n -> S] /\ IsInjective(f)
    BY <1>4, Zenon
  <1> HIDE DEF f
  <1>6. f \in Injection(1 .. n, S)
    BY <1>3, <1>5 DEF Injection, IsInjective
  <1>7. Cardinality(1 .. n) = n
    <2> HIDE DEF n
    <2>1. Cardinality(1 .. n) = IF 1 > n THEN 0 ELSE n - 1 + 1
      BY <1>1, FS_Interval
    <2> QED BY <2>1, <1>1
  <1>8. f \in Surjection(1 .. n, S)
    <2>1. Cardinality(1 .. n) = Cardinality(S) <=> f \in Surjection(1 .. n, S)
      BY <1>6, FS_Injection
    <2> QED BY <2>1, <1>7
  <1>9. \A x \in S : \E i \in 1 .. n : f[i] = x
    BY <1>8 DEF Surjection
  <1> HIDE DEF n
  <1> QED BY <1>1, <1>2, <1>5, <1>9


ApplyTypes(X, U) == \A x \in X, u \in U : Apply(x, u) \in X

ApplyLoop(s0, n, order) ==
    \E f : /\ f[0] = s0 /\ \A m \in 1 .. n : f[m] = Apply(f[m - 1], order[m])
           /\ FoldLeft(Apply, s0, order) = f[n]

LEMMA ApplyPath ==
    ASSUME NEW X, NEW U, ApplyTypes(X, U),
           NEW s0 \in X, NEW n \in Nat, NEW order, DOMAIN order = 1 .. n, Holds(order, n, U)
    PROVE  ApplyLoop(s0, n, order)
  <1> DEFINE D == SUBSET (1 .. n)
             Q(g) == g = [s \in D |-> IF s = {} THEN s0
                                      ELSE Apply(g[s \ {MaxOf(s)}], order[MaxOf(s)])]
             h == CHOOSE g : Q(g)
             f == [m \in 0 .. n |-> h[1 .. m]]
  <1>1. FoldLeft(Apply, s0, order) = h[1 .. n]
    BY Zenon DEF FoldLeft, MapThenFoldSet, Max, MaxOf
  <1>2. \E g : Q(g)
    <2>1. PICK step \in [X \X U -> X] : \A x \in X, u \in U : step[<<x, u>>] = Apply(x, u)
      <3>0. \A x \in X, u \in U : Apply(x, u) \in X
        BY DEF ApplyTypes
      <3> DEFINE st == [p \in X \X U |-> Apply(p[1], p[2])]
      <3>1. st \in [X \X U -> X] /\ \A x \in X, u \in U : st[<<x, u>>] = Apply(x, u)
        BY <3>0
      <3> HIDE DEF st
      <3> QED BY <3>1
    <2>2. PICK g \in [SUBSET (1 .. n) -> X] : Iterates(g, step, s0, order, n)
      <3>1. HasIterate(X, step, s0, order, n)
        BY IteratesExists
      <3> QED BY <3>1 DEF HasIterate
    <2>3. \A s \in D : s # {} => g[s \ {MaxOf(s)}] \in X /\ order[MaxOf(s)] \in U
      <3>1. \A s \in D : s # {} => MaxOf(s) \in 1 .. n
        BY MaxIs
      <3>2. \A s \in D : s \ {MaxOf(s)} \in D
        OBVIOUS
      <3> QED BY <3>1, <3>2 DEF Holds
    <2>4. \A s \in D : s # {} => step[<<g[s \ {MaxOf(s)}], order[MaxOf(s)]>>]
                                     = Apply(g[s \ {MaxOf(s)}], order[MaxOf(s)])
      BY <2>1, <2>3
    <2>5. g = [s \in D |-> IF s = {} THEN s0 ELSE step[<<g[s \ {MaxOf(s)}], order[MaxOf(s)]>>]]
      BY <2>2, Zenon DEF Iterates
    <2> HIDE DEF D
    <2>6. \A s \in D : (IF s = {} THEN s0 ELSE step[<<g[s \ {MaxOf(s)}], order[MaxOf(s)]>>])
                 = (IF s = {} THEN s0 ELSE Apply(g[s \ {MaxOf(s)}], order[MaxOf(s)]))
      BY <2>4, Zenon
    <2>7. Q(g)
      BY <2>5, <2>6, Zenon
    <2> QED BY <2>7
  <1>3. Q(h)
    BY <1>2, Zenon
  <1> HIDE DEF h
  <1>4. \A s \in D : h[s] = IF s = {} THEN s0 ELSE Apply(h[s \ {MaxOf(s)}], order[MaxOf(s)])
    BY <1>3, Zenon
  <1>5. f[0] = s0
    <2>1. 1 .. 0 = {} /\ 0 \in 0 .. n /\ {} \in D
      OBVIOUS
    <2> HIDE DEF D
    <2> QED BY <2>1, <1>4
  <1>6. ASSUME NEW m \in 1 .. n PROVE f[m] = Apply(f[m - 1], order[m])
    <2>1. m \in 0 .. n /\ m - 1 \in 0 .. n /\ (1 .. m) \in D /\ m \in Nat \ {0}
      OBVIOUS
    <2>a. 1 .. m # {}
      <3>1. 1 \in 1 .. m
        BY <2>1
      <3> QED BY <3>1
    <2>2. MaxOf(1 .. m) = m /\ (1 .. m) \ {m} = 1 .. m - 1
      BY <2>1, MaxOfFirst
    <2>3. f[m] = h[1 .. m] /\ f[m - 1] = h[1 .. m - 1]
      BY <2>1
    <2> HIDE DEF D, f
    <2> QED BY <2>1, <2>a, <2>2, <2>3, <1>4, Zenon
  <1>7. f[n] = h[1 .. n]
    <2>1. n \in 0 .. n
      OBVIOUS
    <2> QED BY <2>1, Zenon
  <1> HIDE DEF f
  <1> QED BY <1>1, <1>5, <1>6, <1>7 DEF ApplyLoop


ReceiveTypes(X, U) == \A x \in X, u \in U : Receive(x, u) \in X

ReceiveLoop(s0, n, order) ==
    \E f : /\ f[0] = s0 /\ \A m \in 1 .. n : f[m] = Receive(f[m - 1], order[m])
           /\ FoldLeft(Receive, s0, order) = f[n]

LEMMA ReceivePath ==
    ASSUME NEW X, NEW U, ReceiveTypes(X, U),
           NEW s0 \in X, NEW n \in Nat, NEW order, DOMAIN order = 1 .. n, Holds(order, n, U)
    PROVE  ReceiveLoop(s0, n, order)
  <1> DEFINE D == SUBSET (1 .. n)
             Q(g) == g = [s \in D |-> IF s = {} THEN s0
                                      ELSE Receive(g[s \ {MaxOf(s)}], order[MaxOf(s)])]
             h == CHOOSE g : Q(g)
             f == [m \in 0 .. n |-> h[1 .. m]]
  <1>1. FoldLeft(Receive, s0, order) = h[1 .. n]
    BY Zenon DEF FoldLeft, MapThenFoldSet, Max, MaxOf
  <1>2. \E g : Q(g)
    <2>1. PICK step \in [X \X U -> X] : \A x \in X, u \in U : step[<<x, u>>] = Receive(x, u)
      <3>0. \A x \in X, u \in U : Receive(x, u) \in X
        BY DEF ReceiveTypes
      <3> DEFINE st == [p \in X \X U |-> Receive(p[1], p[2])]
      <3>1. st \in [X \X U -> X] /\ \A x \in X, u \in U : st[<<x, u>>] = Receive(x, u)
        BY <3>0
      <3> HIDE DEF st
      <3> QED BY <3>1
    <2>2. PICK g \in [SUBSET (1 .. n) -> X] : Iterates(g, step, s0, order, n)
      <3>1. HasIterate(X, step, s0, order, n)
        BY IteratesExists
      <3> QED BY <3>1 DEF HasIterate
    <2>3. \A s \in D : s # {} => g[s \ {MaxOf(s)}] \in X /\ order[MaxOf(s)] \in U
      <3>1. \A s \in D : s # {} => MaxOf(s) \in 1 .. n
        BY MaxIs
      <3>2. \A s \in D : s \ {MaxOf(s)} \in D
        OBVIOUS
      <3> QED BY <3>1, <3>2 DEF Holds
    <2>4. \A s \in D : s # {} => step[<<g[s \ {MaxOf(s)}], order[MaxOf(s)]>>]
                                     = Receive(g[s \ {MaxOf(s)}], order[MaxOf(s)])
      BY <2>1, <2>3
    <2>5. g = [s \in D |-> IF s = {} THEN s0 ELSE step[<<g[s \ {MaxOf(s)}], order[MaxOf(s)]>>]]
      BY <2>2, Zenon DEF Iterates
    <2> HIDE DEF D
    <2>6. \A s \in D : (IF s = {} THEN s0 ELSE step[<<g[s \ {MaxOf(s)}], order[MaxOf(s)]>>])
                 = (IF s = {} THEN s0 ELSE Receive(g[s \ {MaxOf(s)}], order[MaxOf(s)]))
      BY <2>4, Zenon
    <2>7. Q(g)
      BY <2>5, <2>6, Zenon
    <2> QED BY <2>7
  <1>3. Q(h)
    BY <1>2, Zenon
  <1> HIDE DEF h
  <1>4. \A s \in D : h[s] = IF s = {} THEN s0 ELSE Receive(h[s \ {MaxOf(s)}], order[MaxOf(s)])
    BY <1>3, Zenon
  <1>5. f[0] = s0
    <2>1. 1 .. 0 = {} /\ 0 \in 0 .. n /\ {} \in D
      OBVIOUS
    <2> HIDE DEF D
    <2> QED BY <2>1, <1>4
  <1>6. ASSUME NEW m \in 1 .. n PROVE f[m] = Receive(f[m - 1], order[m])
    <2>1. m \in 0 .. n /\ m - 1 \in 0 .. n /\ (1 .. m) \in D /\ m \in Nat \ {0}
      OBVIOUS
    <2>a. 1 .. m # {}
      <3>1. 1 \in 1 .. m
        BY <2>1
      <3> QED BY <3>1
    <2>2. MaxOf(1 .. m) = m /\ (1 .. m) \ {m} = 1 .. m - 1
      BY <2>1, MaxOfFirst
    <2>3. f[m] = h[1 .. m] /\ f[m - 1] = h[1 .. m - 1]
      BY <2>1
    <2> HIDE DEF D, f
    <2> QED BY <2>1, <2>a, <2>2, <2>3, <1>4, Zenon
  <1>7. f[n] = h[1 .. n]
    <2>1. n \in 0 .. n
      OBVIOUS
    <2> QED BY <2>1, Zenon
  <1> HIDE DEF f
  <1> QED BY <1>1, <1>5, <1>6, <1>7 DEF ReceiveLoop


ChangeTypes(X, U) == \A x \in X, u \in U : ModeChange(x, u) \in X

ChangeLoop(s0, n, order) ==
    \E f : /\ f[0] = s0 /\ \A m \in 1 .. n : f[m] = ModeChange(f[m - 1], order[m])
           /\ FoldLeft(ModeChange, s0, order) = f[n]

LEMMA ChangePath ==
    ASSUME NEW X, NEW U, ChangeTypes(X, U),
           NEW s0 \in X, NEW n \in Nat, NEW order, DOMAIN order = 1 .. n, Holds(order, n, U)
    PROVE  ChangeLoop(s0, n, order)
  <1> DEFINE D == SUBSET (1 .. n)
             Q(g) == g = [s \in D |-> IF s = {} THEN s0
                                      ELSE ModeChange(g[s \ {MaxOf(s)}], order[MaxOf(s)])]
             h == CHOOSE g : Q(g)
             f == [m \in 0 .. n |-> h[1 .. m]]
  <1>1. FoldLeft(ModeChange, s0, order) = h[1 .. n]
    BY Zenon DEF FoldLeft, MapThenFoldSet, Max, MaxOf
  <1>2. \E g : Q(g)
    <2>1. PICK step \in [X \X U -> X] : \A x \in X, u \in U : step[<<x, u>>] = ModeChange(x, u)
      <3>0. \A x \in X, u \in U : ModeChange(x, u) \in X
        BY DEF ChangeTypes
      <3> DEFINE st == [p \in X \X U |-> ModeChange(p[1], p[2])]
      <3>1. st \in [X \X U -> X] /\ \A x \in X, u \in U : st[<<x, u>>] = ModeChange(x, u)
        BY <3>0
      <3> HIDE DEF st
      <3> QED BY <3>1
    <2>2. PICK g \in [SUBSET (1 .. n) -> X] : Iterates(g, step, s0, order, n)
      <3>1. HasIterate(X, step, s0, order, n)
        BY IteratesExists
      <3> QED BY <3>1 DEF HasIterate
    <2>3. \A s \in D : s # {} => g[s \ {MaxOf(s)}] \in X /\ order[MaxOf(s)] \in U
      <3>1. \A s \in D : s # {} => MaxOf(s) \in 1 .. n
        BY MaxIs
      <3>2. \A s \in D : s \ {MaxOf(s)} \in D
        OBVIOUS
      <3> QED BY <3>1, <3>2 DEF Holds
    <2>4. \A s \in D : s # {} => step[<<g[s \ {MaxOf(s)}], order[MaxOf(s)]>>]
                                     = ModeChange(g[s \ {MaxOf(s)}], order[MaxOf(s)])
      BY <2>1, <2>3
    <2>5. g = [s \in D |-> IF s = {} THEN s0 ELSE step[<<g[s \ {MaxOf(s)}], order[MaxOf(s)]>>]]
      BY <2>2, Zenon DEF Iterates
    <2> HIDE DEF D
    <2>6. \A s \in D : (IF s = {} THEN s0 ELSE step[<<g[s \ {MaxOf(s)}], order[MaxOf(s)]>>])
                 = (IF s = {} THEN s0 ELSE ModeChange(g[s \ {MaxOf(s)}], order[MaxOf(s)]))
      BY <2>4, Zenon
    <2>7. Q(g)
      BY <2>5, <2>6, Zenon
    <2> QED BY <2>7
  <1>3. Q(h)
    BY <1>2, Zenon
  <1> HIDE DEF h
  <1>4. \A s \in D : h[s] = IF s = {} THEN s0 ELSE ModeChange(h[s \ {MaxOf(s)}], order[MaxOf(s)])
    BY <1>3, Zenon
  <1>5. f[0] = s0
    <2>1. 1 .. 0 = {} /\ 0 \in 0 .. n /\ {} \in D
      OBVIOUS
    <2> HIDE DEF D
    <2> QED BY <2>1, <1>4
  <1>6. ASSUME NEW m \in 1 .. n PROVE f[m] = ModeChange(f[m - 1], order[m])
    <2>1. m \in 0 .. n /\ m - 1 \in 0 .. n /\ (1 .. m) \in D /\ m \in Nat \ {0}
      OBVIOUS
    <2>a. 1 .. m # {}
      <3>1. 1 \in 1 .. m
        BY <2>1
      <3> QED BY <3>1
    <2>2. MaxOf(1 .. m) = m /\ (1 .. m) \ {m} = 1 .. m - 1
      BY <2>1, MaxOfFirst
    <2>3. f[m] = h[1 .. m] /\ f[m - 1] = h[1 .. m - 1]
      BY <2>1
    <2> HIDE DEF D, f
    <2> QED BY <2>1, <2>a, <2>2, <2>3, <1>4, Zenon
  <1>7. f[n] = h[1 .. n]
    <2>1. n \in 0 .. n
      OBVIOUS
    <2> QED BY <2>1, Zenon
  <1> HIDE DEF f
  <1> QED BY <1>1, <1>5, <1>6, <1>7 DEF ChangeLoop


-----------------------------------------------------------------------------
(* Changes. *)

LEMMA SimpleApplied ==
    ASSUME NEW m \in ModesOf, NEW on \in SUBSET SimpleModes, NEW off \in SUBSET SimpleModes
    PROVE  LET r == Apply(m, Simple(on, off))
           IN  /\ Simple(on, off) \in Changes /\ r \in ModesOf
               /\ r = [m EXCEPT !.modes = (@ \ off) \union on]
  <1>1. Simple(on, off) \in Changes
    BY DEF Changes, Simple
  <1>2. Apply(m, Simple(on, off)) = [m EXCEPT !.modes = (@ \ off) \union on]
    BY DEF Apply, Simple
  <1>3. [m EXCEPT !.modes = (@ \ off) \union on] \in ModesOf
    BY DEF ModesOf
  <1> QED BY <1>1, <1>2, <1>3

LEMMA SlotApplied ==
    ASSUME NEW m \in ModesOf, NEW x \in Slots, NEW v \in {None} \union Values
    PROVE  LET r == Apply(m, Slot(x, v))
           IN  /\ Slot(x, v) \in Changes /\ r \in ModesOf
               /\ r = [m EXCEPT !.slot[x] = v]
  <1>1. Slot(x, v) \in Changes
    BY DEF Changes, Slot
  <1>2. Apply(m, Slot(x, v)) = [m EXCEPT !.slot[x] = v]
    BY DEF Apply, Slot
  <1>3. [m EXCEPT !.slot[x] = v] \in ModesOf
    BY DEF ModesOf
  <1> QED BY <1>1, <1>2, <1>3

\* Keys and members of lists, the changes that are stacked as they come.
Params == {ch \in Changes : ch.kind = "key" \/ ch.kind = "list"}

LEMMA ParamApplied ==
    ASSUME NEW m \in ModesOf, NEW ch \in Params
    PROVE  LET r == Apply(m, ch)
           IN  /\ r \in ModesOf /\ r.modes = m.modes /\ r.slot = m.slot
               /\ r.key = IF ch.kind = "key" THEN ch.val ELSE m.key
               /\ r.list = IF ch.kind = "key" THEN m.list
                           ELSE IF ch.add THEN m.list \union {ch.val} ELSE m.list \ {ch.val}
  <1>1. CASE ch.kind = "key"
    <2>1. ch.val \in {None} \union Keys
      BY <1>1 DEF Params, Changes
    <2>2. Apply(m, ch) = [m EXCEPT !.key = ch.val]
      BY <1>1 DEF Apply
    <2> QED BY <1>1, <2>1, <2>2 DEF ModesOf
  <1>2. CASE ch.kind = "list"
    <2>1. ch.val \in Lists
      BY <1>2 DEF Params, Changes
    <2>2. Apply(m, ch) = [m EXCEPT !.list = IF ch.add THEN @ \union {ch.val} ELSE @ \ {ch.val}]
      BY <1>2 DEF Apply
    <2> QED BY <1>2, <2>1, <2>2 DEF ModesOf
  <1> QED BY <1>1, <1>2 DEF Params

\* The kinds of changes.
LEMMA ChangeKinds ==
    ASSUME NEW ch \in Changes
    PROVE  \/ /\ ch.kind = "simple" /\ ch = Simple(ch.on, ch.off)
              /\ ch.on \in SUBSET SimpleModes /\ ch.off \in SUBSET SimpleModes
           \/ /\ ch.kind = "slot" /\ ch = Slot(ch.slot, ch.val)
              /\ ch.slot \in Slots /\ ch.val \in {None} \union Values
           \/ ch.kind # "simple" /\ ch.kind # "slot" /\ ch \in Params
  BY DEF Changes, Simple, Slot, Params

LEMMA ApplyType == ASSUME NEW m \in ModesOf, NEW ch \in Changes PROVE Apply(m, ch) \in ModesOf
  <1>1. CASE ch.kind = "simple"
    <2>1. ch = Simple(ch.on, ch.off) /\ ch.on \in SUBSET SimpleModes /\ ch.off \in SUBSET SimpleModes
      BY <1>1, ChangeKinds
    <2>2. Apply(m, Simple(ch.on, ch.off)) \in ModesOf
      BY <2>1, SimpleApplied
    <2> QED BY <2>1, <2>2
  <1>2. CASE ch.kind = "slot"
    <2>1. ch = Slot(ch.slot, ch.val) /\ ch.slot \in Slots /\ ch.val \in {None} \union Values
      BY <1>2, ChangeKinds
    <2>2. Apply(m, Slot(ch.slot, ch.val)) \in ModesOf
      BY <2>1, SlotApplied
    <2> QED BY <2>1, <2>2
  <1>3. CASE ch.kind # "simple" /\ ch.kind # "slot"
    <2>1. ch \in Params
      BY <1>3, ChangeKinds
    <2> QED BY <2>1, ParamApplied
  <1> QED BY <1>1, <1>2, <1>3

-----------------------------------------------------------------------------
(* Changes made one after the other. *)

Applied(m, s) == FoldLeft(Apply, m, s)

LEMMA AppliedPath ==
    ASSUME NEW m \in ModesOf, NEW s \in Seq(Changes)
    PROVE  ApplyLoop(m, Len(s), s) /\ Len(s) \in Nat
  <1>1. ApplyTypes(ModesOf, Changes) /\ Holds(s, Len(s), Changes)
    BY ApplyType DEF ApplyTypes, Holds
  <1>2. DOMAIN s = 1 .. Len(s) /\ Len(s) \in Nat
    OBVIOUS
  <1> QED BY <1>1, <1>2, ApplyPath

LEMMA AppliedNone == ASSUME NEW m \in ModesOf PROVE Applied(m, <<>>) = m
  <1>1. ApplyLoop(m, 0, <<>>)
    <2>1. <<>> \in Seq(Changes) /\ Len(<<>>) = 0
      OBVIOUS
    <2> QED BY <2>1, AppliedPath
  <1> QED BY <1>1 DEF ApplyLoop, Applied

LEMMA AppliedNext ==
    ASSUME NEW m \in ModesOf, NEW s \in Seq(Changes), NEW ch \in Changes
    PROVE  Applied(m, Append(s, ch)) = Apply(Applied(m, s), ch) /\ Applied(m, s) \in ModesOf
  <1> DEFINE t == Append(s, ch)
             n == Len(s)
  <1>1. t \in Seq(Changes) /\ Len(t) = n + 1 /\ n \in Nat
        /\ (\A k \in 1 .. n : t[k] = s[k] /\ s[k] \in Changes) /\ t[n + 1] = ch
    OBVIOUS
  <1>2. PICK f : /\ f[0] = m /\ \A k \in 1 .. n : f[k] = Apply(f[k - 1], s[k])
                 /\ FoldLeft(Apply, m, s) = f[n]
    BY AppliedPath DEF ApplyLoop
  <1> HIDE DEF t
  <1>3. PICK g : /\ g[0] = m /\ \A k \in 1 .. n + 1 : g[k] = Apply(g[k - 1], t[k])
                 /\ FoldLeft(Apply, m, t) = g[n + 1]
    <2> HIDE DEF n
    <2>1. ApplyLoop(m, Len(t), t)
      BY <1>1, AppliedPath
    <2>2. ApplyLoop(m, n + 1, t)
      BY <2>1, <1>1
    <2> QED BY <2>2 DEF ApplyLoop
  <1> HIDE DEF n
  <1> DEFINE S == {k \in Nat : k <= n => f[k] = g[k] /\ f[k] \in ModesOf}
  <1>4. 0 \in S
    BY <1>2, <1>3
  <1>5. ASSUME NEW k \in Nat, k \in S PROVE k + 1 \in S
    <2> SUFFICES ASSUME k + 1 <= n PROVE f[k + 1] = g[k + 1] /\ f[k + 1] \in ModesOf
      OBVIOUS
    <2>1. f[k] = g[k] /\ f[k] \in ModesOf
      BY <1>1, <1>5
    <2>2. k + 1 \in 1 .. n /\ k + 1 \in 1 .. n + 1 /\ (k + 1) - 1 = k
      BY <1>1
    <2>3. f[k + 1] = Apply(f[k], s[k + 1]) /\ g[k + 1] = Apply(g[k], t[k + 1])
      BY <2>2, <1>2, <1>3
    <2>4. t[k + 1] = s[k + 1] /\ s[k + 1] \in Changes
      BY <2>2, <1>1
    <2> QED BY <2>1, <2>3, <2>4, ApplyType
  <1> HIDE DEF S
  <1>6. n \in S
    <2>1. Nat \subseteq S
      BY <1>4, <1>5, NatInductionSet
    <2> QED BY <2>1, <1>1
  <1>7. f[n] = g[n] /\ f[n] \in ModesOf
    BY <1>1, <1>6 DEF S
  <1>8. g[n + 1] = Apply(g[n], ch)
    <2>1. n + 1 \in 1 .. n + 1 /\ (n + 1) - 1 = n
      BY <1>1
    <2> QED BY <2>1, <1>1, <1>3
  <1> QED BY <1>2, <1>3, <1>7, <1>8 DEF Applied, t

\* A list is empty, or one that is shorter and its last element.
LEMMA LastOf ==
    ASSUME NEW S, NEW s \in Seq(S), NEW n \in Nat, Len(s) = n + 1
    PROVE  /\ SubSeq(s, 1, n) \in Seq(S) /\ Len(SubSeq(s, 1, n)) = n /\ s[n + 1] \in S
           /\ s = Append(SubSeq(s, 1, n), s[n + 1])
  OBVIOUS

LEMMA AppliedAll ==
    ASSUME NEW m \in ModesOf, NEW s \in Seq(Changes), NEW t \in Seq(Changes)
    PROVE  /\ s \o t \in Seq(Changes) /\ Applied(m, s) \in ModesOf
           /\ Applied(m, s \o t) = Applied(Applied(m, s), t)
  <1> DEFINE Q(u) == Applied(m, s \o u) = Applied(Applied(m, s), u)
             S == {k \in Nat : \A u \in Seq(Changes) : Len(u) = k => Q(u)}
  <1>1. Applied(m, s) \in ModesOf
    <2>1. CASE s = <<>>
      BY <2>1, AppliedNone
    <2>2. CASE s # <<>>
      <3>1. \E c \in Changes : TRUE
        <4>1. s[1] \in Changes
          BY <2>2
        <4> QED BY <4>1
      <3> QED BY <3>1, AppliedNext
    <2> QED BY <2>1, <2>2
  <1>2. 0 \in S
    <2>1. \A u \in Seq(Changes) : Len(u) = 0 => u = <<>> /\ s \o u = s
      OBVIOUS
    <2>2. \A u \in Seq(Changes) : Len(u) = 0 => Q(u)
      BY <2>1, <1>1, AppliedNone
    <2> HIDE DEF Q
    <2> QED BY <2>2
  <1>3. ASSUME NEW k \in Nat, k \in S PROVE k + 1 \in S
    <2> SUFFICES ASSUME NEW u \in Seq(Changes), Len(u) = k + 1 PROVE Q(u)
      OBVIOUS
    <2> DEFINE v == SubSeq(u, 1, k)
               c == u[k + 1]
    <2>1. v \in Seq(Changes) /\ Len(v) = k /\ c \in Changes /\ u = Append(v, c)
      BY LastOf
    <2>2. Q(v)
      BY <1>3, <2>1
    <2> HIDE DEF v, c
    <2>3. s \o v \in Seq(Changes) /\ s \o Append(v, c) = Append(s \o v, c)
      BY <2>1
    <2>4. Applied(m, s \o u) = Apply(Applied(m, s \o v), c)
      <3>1. Applied(m, Append(s \o v, c)) = Apply(Applied(m, s \o v), c)
        BY <2>1, <2>3, AppliedNext
      <3>2. s \o u = Append(s \o v, c)
        BY <2>1, <2>3
      <3> QED BY <3>1, <3>2
    <2>5. Applied(Applied(m, s), u) = Apply(Applied(Applied(m, s), v), c)
      BY <2>1, <1>1, AppliedNext
    <2> QED BY <2>2, <2>4, <2>5
  <1> HIDE DEF S, Q
  <1>4. Nat \subseteq S
    BY <1>2, <1>3, NatInductionSet
  <1>5. Q(t)
    <2>1. Len(t) \in Nat
      OBVIOUS
    <2>2. Len(t) \in S
      BY <2>1, <1>4
    <2> QED BY <2>2 DEF S
  <1>6. s \o t \in Seq(Changes)
    OBVIOUS
  <1> QED BY <1>1, <1>5, <1>6 DEF Q

LEMMA AppliedOne ==
    ASSUME NEW m \in ModesOf, NEW ch \in Changes
    PROVE  <<ch>> \in Seq(Changes) /\ Applied(m, <<ch>>) = Apply(m, ch)
  <1>1. <<>> \in Seq(Changes) /\ Append(<<>>, ch) = <<ch>> /\ <<ch>> \in Seq(Changes)
    OBVIOUS
  <1>2. Applied(m, Append(<<>>, ch)) = Apply(Applied(m, <<>>), ch)
    BY <1>1, AppliedNext
  <1> QED BY <1>1, <1>2, AppliedNone

\* What slots become when those of sl are set.
WithSlots(slot, sl) == [x \in Slots |-> IF sl[x] # Off THEN sl[x] ELSE slot[x]]

LEMMA SlotsApplied ==
    ASSUME NEW m \in ModesOf, NEW sl \in [Slots -> {None, Off} \union Values]
    PROVE  LET order == SetToSeq({x \in Slots : sl[x] # Off})
               line == [k \in DOMAIN order |-> Slot(order[k], sl[order[k]])]
           IN  /\ line \in Seq(Changes)
               /\ Applied(m, line) = [m EXCEPT !.slot = WithSlots(@, sl)]
               /\ Applied(m, line) \in ModesOf
  <1> DEFINE I == {x \in Slots : sl[x] # Off}
             order == SetToSeq(I)
             line == [k \in DOMAIN order |-> Slot(order[k], sl[order[k]])]
             r == [m EXCEPT !.slot = WithSlots(@, sl)]
  <1>1. IsFiniteSet(I)
    BY FS_Subset, ModesAssumption
  <1>2. PICK n \in Nat : /\ DOMAIN order = 1 .. n /\ \A i \in 1 .. n : order[i] \in I
                         /\ \A x \in I : \E i \in 1 .. n : order[i] = x
    BY <1>1, SetToSeqIs
  <1>3. \A x \in I : x \in Slots /\ sl[x] \in {None} \union Values
    OBVIOUS
  <1> HIDE DEF I, order
  <1>4. line \in Seq(Changes) /\ Len(line) = n
        /\ \A k \in 1 .. n : line[k] = Slot(order[k], sl[order[k]])
    <2>1. \A k \in 1 .. n : Slot(order[k], sl[order[k]]) \in Changes
      BY <1>2, <1>3, SlotApplied
    <2> QED BY <1>2, <2>1
  <1> HIDE DEF line
  <1>5. PICK f : /\ f[0] = m /\ \A k \in 1 .. n : f[k] = Apply(f[k - 1], line[k])
                 /\ FoldLeft(Apply, m, line) = f[n]
    <2>1. ApplyLoop(m, Len(line), line)
      BY <1>4, AppliedPath
    <2>2. ApplyLoop(m, n, line)
      BY <2>1, <1>4
    <2> QED BY <2>2 DEF ApplyLoop
  <1> DEFINE Set(k, x) == \E j \in 1 .. k : order[j] = x
             Q(k) == /\ f[k] \in ModesOf
                     /\ f[k].modes = m.modes /\ f[k].key = m.key /\ f[k].list = m.list
                     /\ \A x \in Slots : f[k].slot[x] = IF Set(k, x) THEN sl[x] ELSE m.slot[x]
             S == {k \in Nat : k <= n => Q(k)}
  <1>6. 0 \in S
    BY <1>5
  <1>7. ASSUME NEW k \in Nat, k \in S PROVE k + 1 \in S
    <2> SUFFICES ASSUME k + 1 <= n PROVE Q(k + 1)
      OBVIOUS
    <2>1. Q(k)
      BY <1>7
    <2>2. k + 1 \in 1 .. n /\ (k + 1) - 1 = k
      OBVIOUS
    <2>3. f[k + 1] = Apply(f[k], Slot(order[k + 1], sl[order[k + 1]]))
      BY <2>2, <1>4, <1>5
    <2>4. order[k + 1] \in Slots /\ sl[order[k + 1]] \in {None} \union Values
      BY <2>2, <1>2, <1>3
    <2>5. f[k + 1] = [f[k] EXCEPT !.slot[order[k + 1]] = sl[order[k + 1]]] /\ f[k + 1] \in ModesOf
      <3> DEFINE o == order[k + 1]
                 p == f[k]
      <3>1. p \in ModesOf /\ o \in Slots /\ sl[o] \in {None} \union Values
        BY <2>1, <2>4
      <3> HIDE DEF o, p
      <3>2. Apply(p, Slot(o, sl[o])) = [p EXCEPT !.slot[o] = sl[o]]
            /\ Apply(p, Slot(o, sl[o])) \in ModesOf
        BY <3>1, SlotApplied
      <3> QED BY <2>3, <3>2 DEF o, p
    <2>6. \A x : Set(k + 1, x) <=> Set(k, x) \/ order[k + 1] = x
      <3>1. \A j \in 1 .. k + 1 : j \in 1 .. k \/ j = k + 1
        OBVIOUS
      <3>2. \A j \in 1 .. k : j \in 1 .. k + 1
        OBVIOUS
      <3> QED BY <3>1, <3>2, <2>2
    <2>7. f[k].slot \in [Slots -> {None} \union Values]
      BY <2>1 DEF ModesOf
    <2>8. f[k + 1].modes = f[k].modes /\ f[k + 1].key = f[k].key /\ f[k + 1].list = f[k].list
          /\ f[k + 1].slot = [f[k].slot EXCEPT ![order[k + 1]] = sl[order[k + 1]]]
      BY <2>1, <2>5 DEF ModesOf
    <2> HIDE DEF Set
    <2>9. \A x \in Slots : f[k + 1].slot[x] = IF Set(k + 1, x) THEN sl[x] ELSE m.slot[x]
      BY <2>1, <2>4, <2>6, <2>7, <2>8
    <2> QED BY <2>1, <2>5, <2>8, <2>9
  <1> HIDE DEF S
  <1>8. Q(n)
    <2>1. Nat \subseteq S
      BY <1>6, <1>7, NatInductionSet
    <2> QED BY <2>1 DEF S
  <1>9. \A x \in Slots : Set(n, x) <=> sl[x] # Off
    BY <1>2 DEF I
  <1>10. f[n] = r
    <2> HIDE DEF Set
    <2>1. f[n].slot = WithSlots(m.slot, sl)
      <3>1. f[n].slot \in [Slots -> {None} \union Values]
        BY <1>8 DEF ModesOf
      <3>2. \A x \in Slots : f[n].slot[x] = IF sl[x] # Off THEN sl[x] ELSE m.slot[x]
        BY <1>8, <1>9
      <3> QED BY <3>1, <3>2 DEF WithSlots
    <2> QED BY <1>8, <2>1 DEF ModesOf
  <1> QED BY <1>4, <1>5, <1>8, <1>10 DEF Applied, line, order, I

\* What is stacked as it comes does not look at the other modes.
LEMMA ParamsApplied ==
    ASSUME NEW s \in Seq(Params), NEW m \in ModesOf, NEW l \in ModesOf
    PROVE  /\ s \in Seq(Changes) /\ Applied(m, s) \in ModesOf
           /\ Applied(m, s).modes = m.modes /\ Applied(m, s).slot = m.slot
           /\ m.key = l.key /\ m.list = l.list =>
                 Applied(m, s).key = Applied(l, s).key /\ Applied(m, s).list = Applied(l, s).list
  <1> DEFINE Q(t) == /\ Applied(m, t) \in ModesOf /\ Applied(l, t) \in ModesOf
                     /\ Applied(m, t).modes = m.modes /\ Applied(m, t).slot = m.slot
                     /\ m.key = l.key /\ m.list = l.list =>
                           Applied(m, t).key = Applied(l, t).key /\ Applied(m, t).list = Applied(l, t).list
             S == {k \in Nat : \A t \in Seq(Params) : Len(t) = k => Q(t)}
  <1>1. 0 \in S
    <2>1. \A t \in Seq(Params) : Len(t) = 0 => t = <<>>
      OBVIOUS
    <2>2. \A t \in Seq(Params) : Len(t) = 0 => Q(t)
      BY <2>1, AppliedNone
    <2> HIDE DEF Q
    <2> QED BY <2>2
  <1>2. \A t \in Seq(Params) : t \in Seq(Changes)
    BY DEF Params
  <1>3. ASSUME NEW k \in Nat, k \in S PROVE k + 1 \in S
    <2> SUFFICES ASSUME NEW t \in Seq(Params), Len(t) = k + 1 PROVE Q(t)
      OBVIOUS
    <2> DEFINE u == SubSeq(t, 1, k)
               c == t[k + 1]
    <2>1. u \in Seq(Params) /\ Len(u) = k /\ c \in Params /\ t = Append(u, c)
      BY LastOf
    <2>2. Q(u)
      BY <1>3, <2>1
    <2> HIDE DEF u, c
    <2>3. c \in Changes
      BY <2>1 DEF Params
    <2>4. Applied(m, t) = Apply(Applied(m, u), c) /\ Applied(l, t) = Apply(Applied(l, u), c)
      BY <1>2, <2>1, <2>3, AppliedNext
    <2> DEFINE p == Applied(m, u)
               q == Applied(l, u)
    <2>5. /\ p \in ModesOf /\ q \in ModesOf /\ p.modes = m.modes /\ p.slot = m.slot
          /\ m.key = l.key /\ m.list = l.list => p.key = q.key /\ p.list = q.list
      BY <2>2
    <2> HIDE DEF p, q
    <2>6. /\ Apply(p, c) \in ModesOf /\ Apply(q, c) \in ModesOf
          /\ Apply(p, c).modes = p.modes /\ Apply(p, c).slot = p.slot
          /\ p.key = q.key => Apply(p, c).key = Apply(q, c).key
          /\ p.list = q.list => Apply(p, c).list = Apply(q, c).list
      <3>1. /\ Apply(p, c) \in ModesOf /\ Apply(p, c).modes = p.modes /\ Apply(p, c).slot = p.slot
            /\ Apply(p, c).key = IF c.kind = "key" THEN c.val ELSE p.key
            /\ Apply(p, c).list = IF c.kind = "key" THEN p.list
                                    ELSE IF c.add THEN p.list \union {c.val} ELSE p.list \ {c.val}
        BY <2>1, <2>5, ParamApplied
      <3>2. /\ Apply(q, c) \in ModesOf
            /\ Apply(q, c).key = IF c.kind = "key" THEN c.val ELSE q.key
            /\ Apply(q, c).list = IF c.kind = "key" THEN q.list
                                    ELSE IF c.add THEN q.list \union {c.val} ELSE q.list \ {c.val}
        BY <2>1, <2>5, ParamApplied
      <3> QED BY <3>1, <3>2, Zenon
    <2>7. Applied(m, t) = Apply(p, c) /\ Applied(l, t) = Apply(q, c)
      BY <2>4 DEF p, q
    <2> QED BY <2>5, <2>6, <2>7
  <1> HIDE DEF S, Q
  <1>4. Q(s)
    <2>1. Nat \subseteq S
      BY <1>1, <1>3, NatInductionSet
    <2>2. Len(s) \in Nat
      OBVIOUS
    <2>3. Len(s) \in S
      BY <2>1, <2>2
    <2> QED BY <2>3 DEF S
  <1> QED BY <1>2, <1>4 DEF Q

-----------------------------------------------------------------------------
(* The stack: what the changes on it amount to. *)

Stacks == [source : {"chanserv", "bot"}, on : SUBSET SimpleModes, off : SUBSET SimpleModes,
           slot : [Slots -> {None, Off} \union Values], params : Seq(Params)]

Merged(m, st) ==
    [modes |-> (m.modes \ st.off) \union st.on, slot |-> WithSlots(m.slot, st.slot),
     key |-> Applied(m, st.params).key, list |-> Applied(m, st.params).list]

LEMMA SameModes ==
    ASSUME NEW m \in ModesOf, NEW l \in ModesOf,
           m.modes = l.modes, m.slot = l.slot, m.key = l.key, m.list = l.list
    PROVE  m = l
  BY DEF ModesOf

LEMMA MergedType ==
    ASSUME NEW m \in ModesOf, NEW st \in Stacks PROVE Merged(m, st) \in ModesOf
  <1>1. Applied(m, st.params) \in ModesOf
    BY ParamsApplied DEF Stacks
  <1>2. WithSlots(m.slot, st.slot) \in [Slots -> {None} \union Values]
    BY DEF WithSlots, Stacks, ModesOf
  <1> QED BY <1>1, <1>2 DEF Merged, ModesOf, Stacks

LEMMA LineApplied ==
    ASSUME NEW m \in ModesOf, NEW st \in Stacks
    PROVE  Line(st) \in Seq(Changes) /\ Applied(m, Line(st)) = Merged(m, st)
  <1> DEFINE order == SetToSeq({x \in Slots : st.slot[x] # Off})
             slots == [k \in DOMAIN order |-> Slot(order[k], st.slot[order[k]])]
             first == <<Simple(st.on, st.off)>>
             a == Applied(m, first)
             b == Applied(a, slots)
  <1>1. Line(st) = (first \o slots) \o st.params
    BY DEF Line
  <1>2. st.on \in SUBSET SimpleModes /\ st.off \in SUBSET SimpleModes
        /\ st.slot \in [Slots -> {None, Off} \union Values] /\ st.params \in Seq(Params)
    BY DEF Stacks
  <1>3. first \in Seq(Changes) /\ a = [m EXCEPT !.modes = (@ \ st.off) \union st.on] /\ a \in ModesOf
    <2> DEFINE c == Simple(st.on, st.off)
    <2>1. /\ c \in Changes /\ Apply(m, c) \in ModesOf
          /\ Apply(m, c) = [m EXCEPT !.modes = (@ \ st.off) \union st.on]
      BY <1>2, SimpleApplied
    <2> HIDE DEF c
    <2>2. <<c>> \in Seq(Changes) /\ Applied(m, <<c>>) = Apply(m, c)
      BY <2>1, AppliedOne
    <2> QED BY <2>1, <2>2 DEF c
  <1> HIDE DEF first, a
  <1>4. slots \in Seq(Changes) /\ b = [a EXCEPT !.slot = WithSlots(@, st.slot)] /\ b \in ModesOf
    BY <1>2, <1>3, SlotsApplied
  <1> HIDE DEF slots, b
  <1>5. st.params \in Seq(Changes)
    BY <1>2, ParamsApplied
  <1>6. first \o slots \in Seq(Changes) /\ Applied(m, first \o slots) = b
    <2>1. first \o slots \in Seq(Changes)
          /\ Applied(m, first \o slots) = Applied(Applied(m, first), slots)
      BY <1>3, <1>4, AppliedAll
    <2> QED BY <2>1 DEF a, b
  <1>7. Line(st) \in Seq(Changes) /\ Applied(m, Line(st)) = Applied(b, st.params)
    <2> DEFINE s == first \o slots
    <2>1. s \in Seq(Changes) /\ Applied(m, s) = b /\ Line(st) = s \o st.params
      BY <1>1, <1>6
    <2> HIDE DEF s
    <2>2. s \o st.params \in Seq(Changes)
          /\ Applied(m, s \o st.params) = Applied(Applied(m, s), st.params)
      BY <2>1, <1>5, AppliedAll
    <2> QED BY <2>1, <2>2
  <1>8. a.modes = (m.modes \ st.off) \union st.on /\ a.slot = m.slot /\ a.key = m.key /\ a.list = m.list
    BY <1>3 DEF ModesOf
  <1>9. b.modes = a.modes /\ b.slot = WithSlots(m.slot, st.slot) /\ b.key = m.key /\ b.list = m.list
    BY <1>3, <1>4, <1>8 DEF ModesOf
  <1>10. Applied(b, st.params) \in ModesOf
         /\ Applied(b, st.params).modes = b.modes /\ Applied(b, st.params).slot = b.slot
         /\ Applied(b, st.params).key = Applied(m, st.params).key
         /\ Applied(b, st.params).list = Applied(m, st.params).list
    BY <1>2, <1>4, <1>9, ParamsApplied
  <1>11. Applied(b, st.params) = Merged(m, st)
    <2> DEFINE p == Applied(b, st.params)
               q == Merged(m, st)
    <2>1. q \in ModesOf
      BY MergedType
    <2>2. p.modes = q.modes /\ p.slot = q.slot /\ p.key = q.key /\ p.list = q.list
      BY <1>8, <1>9, <1>10 DEF Merged
    <2> QED BY <2>1, <2>2, <1>10, SameModes
  <1> QED BY <1>7, <1>11

\* A list with a head.
LEMMA HeadOf ==
    ASSUME NEW S, NEW s \in Seq(S), s # <<>>
    PROVE  s = <<Head(s)>> \o Tail(s) /\ Head(s) \in S /\ Tail(s) \in Seq(S)
  OBVIOUS

LEMMA AppliedHead ==
    ASSUME NEW m \in ModesOf, NEW s \in Seq(Changes), s # <<>>
    PROVE  Applied(m, s) = Applied(Apply(m, Head(s)), Tail(s))
  <1> DEFINE h == Head(s)
             r == Tail(s)
  <1>1. h \in Changes /\ r \in Seq(Changes) /\ s = <<h>> \o r
    BY HeadOf
  <1> HIDE DEF h, r
  <1>2. <<h>> \in Seq(Changes) /\ Applied(m, <<h>>) = Apply(m, h)
    BY <1>1, AppliedOne
  <1>3. Applied(m, <<h>> \o r) = Applied(Applied(m, <<h>>), r)
    BY <1>1, <1>2, AppliedAll
  <1> QED BY <1>1, <1>2, <1>3 DEF h, r

-----------------------------------------------------------------------------
(* The server's end. *)

Lines == [modes : Seq(Changes)] \union [leave : {TRUE}]
Msgs == Lines \union [join : ModesOf]

\* A channel that is alive has users or services, or a permanent mode.
Servers ==
    {i \in [m : ModesOf, users : BOOLEAN, svc : BOOLEAN, alive : BOOLEAN] :
        i.alive <=> i.users \/ i.svc \/ i.m.modes \intersect PermModes # {}}

LEMMA ServerType ==
    ASSUME NEW i \in Servers
    PROVE  /\ i.m \in ModesOf /\ i.users \in BOOLEAN /\ i.svc \in BOOLEAN /\ i.alive \in BOOLEAN
           /\ i.alive <=> i.users \/ i.svc \/ i.m.modes \intersect PermModes # {}
  BY DEF Servers

LEMMA Lives ==
    ASSUME NEW m \in ModesOf, NEW users \in BOOLEAN, NEW svc \in BOOLEAN, NEW alive \in BOOLEAN
    PROVE  LET r == Live([m |-> m, users |-> users, svc |-> svc, alive |-> alive])
           IN  r \in Servers /\ r.m = m /\ r.users = users /\ r.svc = svc
  <1> DEFINE v == users \/ svc \/ m.modes \intersect PermModes # {}
             r == [m |-> m, users |-> users, svc |-> svc, alive |-> v]
  <1>1. Live([m |-> m, users |-> users, svc |-> svc, alive |-> alive]) = r
    BY DEF Live
  <1>2. r \in [m : ModesOf, users : BOOLEAN, svc : BOOLEAN, alive : BOOLEAN]
    <2>1. v \in BOOLEAN
      OBVIOUS
    <2> QED BY <2>1
  <1>3. r.m = m /\ r.users = users /\ r.svc = svc /\ (r.alive <=> v)
    OBVIOUS
  <1> QED BY <1>1, <1>2, <1>3 DEF Servers

LEMMA ModesReceived ==
    ASSUME NEW i \in Servers, NEW s \in Seq(Changes)
    PROVE  LET r == Receive(i, [modes |-> s])
           IN  /\ [modes |-> s] \in Lines /\ r \in Servers /\ r.users = i.users /\ r.svc = i.svc
               /\ i.alive => r.m = Applied(i.m, s)
               /\ ~i.alive => r = i
  <1> DEFINE r == Receive(i, [modes |-> s])
             a == Applied(i.m, s)
  <1>1. [modes |-> s] \in Lines
    BY DEF Lines
  <1>2. r = IF i.alive THEN Live([i EXCEPT !.m = a]) ELSE i
    BY DEF Receive, Applied
  <1>3. a \in ModesOf
    BY AppliedAll, ServerType
  <1> HIDE DEF a
  <1>4. [i EXCEPT !.m = a] = [m |-> a, users |-> i.users, svc |-> i.svc, alive |-> i.alive]
    BY DEF Servers
  <1> HIDE DEF r
  <1>5. CASE i.alive
    <2>1. r = Live([m |-> a, users |-> i.users, svc |-> i.svc, alive |-> i.alive])
      BY <1>2, <1>4, <1>5
    <2>2. r \in Servers /\ r.m = a /\ r.users = i.users /\ r.svc = i.svc
      BY <2>1, <1>3, ServerType, Lives
    <2> QED BY <1>1, <1>5, <2>2 DEF r, a
  <1>6. CASE ~i.alive
    BY <1>1, <1>2, <1>6 DEF r
  <1> QED BY <1>5, <1>6, ServerType

LEMMA JoinReceived ==
    ASSUME NEW i \in Servers, NEW m \in ModesOf
    PROVE  LET r == Receive(i, [join |-> m])
           IN  /\ [join |-> m] \in Msgs /\ r \in Servers /\ r.users = i.users /\ r.svc /\ r.alive
               /\ r.m.modes = IF i.alive THEN i.m.modes \union m.modes ELSE m.modes
  <1> DEFINE r == Receive(i, [join |-> m])
             b == [i.m EXCEPT !.modes = @ \union m.modes]
             a == IF i.alive THEN b ELSE m
  <1>1. [join |-> m] \in Msgs
    BY DEF Msgs
  <1>2. r = [i EXCEPT !.svc = TRUE, !.alive = TRUE, !.m = a]
    <2> DEFINE msg == [join |-> m]
    <2>1. /\ "modes" \notin DOMAIN msg /\ "leave" \notin DOMAIN msg
          /\ "join" \in DOMAIN msg /\ msg.join = m
      OBVIOUS
    <2> HIDE DEF msg
    <2>2. Receive(i, msg) = [i EXCEPT !.svc = TRUE, !.alive = TRUE, !.m = a]
      BY <2>1 DEF Receive
    <2> QED BY <2>2 DEF msg
  <1>3. b \in ModesOf /\ b.modes = i.m.modes \union m.modes
    BY ServerType DEF ModesOf
  <1> HIDE DEF b
  <1>4. a \in ModesOf /\ a.modes = IF i.alive THEN i.m.modes \union m.modes ELSE m.modes
    BY <1>3
  <1> HIDE DEF a, r
  <1>5. r = [m |-> a, users |-> i.users, svc |-> TRUE, alive |-> TRUE]
    BY <1>2 DEF Servers
  <1>6. r \in Servers
    BY <1>4, <1>5, ServerType DEF Servers
  <1> QED BY <1>1, <1>4, <1>5, <1>6 DEF r

LEMMA LeaveReceived ==
    ASSUME NEW i \in Servers
    PROVE  LET r == Receive(i, [leave |-> TRUE])
           IN  [leave |-> TRUE] \in Lines /\ r \in Servers /\ r.users = i.users /\ ~r.svc /\ r.m = i.m
  <1> DEFINE r == Receive(i, [leave |-> TRUE])
  <1>1. [leave |-> TRUE] \in Lines
    BY DEF Lines
  <1>2. r = Live([i EXCEPT !.svc = FALSE])
    BY DEF Receive
  <1> DEFINE no == FALSE
  <1>3. [i EXCEPT !.svc = no] = [m |-> i.m, users |-> i.users, svc |-> no, alive |-> i.alive]
    <2> HIDE DEF no
    <2> QED BY DEF Servers
  <1>4. no \in BOOLEAN /\ ~no /\ r = Live([i EXCEPT !.svc = no])
    BY <1>2
  <1> HIDE DEF r, no
  <1>5. r \in Servers /\ r.m = i.m /\ r.users = i.users /\ r.svc = no
    <2> DEFINE w == Live([m |-> i.m, users |-> i.users, svc |-> no, alive |-> i.alive])
    <2>1. w \in Servers /\ w.m = i.m /\ w.users = i.users /\ w.svc = no
      BY <1>4, ServerType, Lives
    <2>2. r = w
      BY <1>3, <1>4
    <2> QED BY <2>1, <2>2
  <1> QED BY <1>1, <1>4, <1>5 DEF r

\* The kinds of messages.
LEMMA MsgKinds ==
    ASSUME NEW msg \in Msgs
    PROVE  \/ \E s \in Seq(Changes) : msg = [modes |-> s]
           \/ \E m \in ModesOf : msg = [join |-> m]
           \/ msg = [leave |-> TRUE]
  BY DEF Msgs, Lines

LEMMA LineKinds ==
    ASSUME NEW msg \in Lines
    PROVE  (\E s \in Seq(Changes) : msg = [modes |-> s]) \/ msg = [leave |-> TRUE]
  BY DEF Lines

LEMMA ReceiveType ==
    ASSUME NEW i \in Servers, NEW msg \in Msgs
    PROVE  Receive(i, msg) \in Servers /\ Receive(i, msg).users = i.users
  <1>1. CASE \E s \in Seq(Changes) : msg = [modes |-> s]
    <2>1. PICK s \in Seq(Changes) : msg = [modes |-> s]
      BY <1>1
    <2> QED BY <2>1, ModesReceived
  <1>2. CASE \E m \in ModesOf : msg = [join |-> m]
    <2>1. PICK m \in ModesOf : msg = [join |-> m]
      BY <1>2
    <2> QED BY <2>1, JoinReceived
  <1>3. CASE msg = [leave |-> TRUE]
    BY <1>3, LeaveReceived
  <1> QED BY <1>1, <1>2, <1>3, MsgKinds

\* Messages received one after the other.

Sent(i, s) == FoldLeft(Receive, i, s)

LEMMA SentPath ==
    ASSUME NEW i \in Servers, NEW s \in Seq(Msgs)
    PROVE  ReceiveLoop(i, Len(s), s) /\ Len(s) \in Nat
  <1>1. ReceiveTypes(Servers, Msgs) /\ Holds(s, Len(s), Msgs)
    <2>1. ReceiveTypes(Servers, Msgs)
      BY ReceiveType, Zenon DEF ReceiveTypes
    <2>2. Holds(s, Len(s), Msgs)
      BY DEF Holds
    <2> QED BY <2>1, <2>2
  <1>2. DOMAIN s = 1 .. Len(s) /\ Len(s) \in Nat
    OBVIOUS
  <1> QED BY <1>1, <1>2, ReceivePath

LEMMA SentNone == ASSUME NEW i \in Servers PROVE Sent(i, <<>>) = i
  <1>1. ReceiveLoop(i, 0, <<>>)
    <2>1. <<>> \in Seq(Msgs) /\ Len(<<>>) = 0
      OBVIOUS
    <2> QED BY <2>1, SentPath
  <1> QED BY <1>1 DEF ReceiveLoop, Sent

LEMMA SentNext ==
    ASSUME NEW i \in Servers, NEW s \in Seq(Msgs), NEW msg \in Msgs
    PROVE  Sent(i, Append(s, msg)) = Receive(Sent(i, s), msg) /\ Sent(i, s) \in Servers
  <1> DEFINE t == Append(s, msg)
             n == Len(s)
  <1>1. t \in Seq(Msgs) /\ Len(t) = n + 1 /\ n \in Nat
        /\ (\A k \in 1 .. n : t[k] = s[k] /\ s[k] \in Msgs) /\ t[n + 1] = msg
    OBVIOUS
  <1>2. PICK f : /\ f[0] = i /\ \A k \in 1 .. n : f[k] = Receive(f[k - 1], s[k])
                 /\ FoldLeft(Receive, i, s) = f[n]
    BY SentPath DEF ReceiveLoop
  <1> HIDE DEF t
  <1>3. PICK g : /\ g[0] = i /\ \A k \in 1 .. n + 1 : g[k] = Receive(g[k - 1], t[k])
                 /\ FoldLeft(Receive, i, t) = g[n + 1]
    <2> HIDE DEF n
    <2>1. ReceiveLoop(i, Len(t), t)
      BY <1>1, SentPath
    <2>2. ReceiveLoop(i, n + 1, t)
      BY <2>1, <1>1
    <2> QED BY <2>2 DEF ReceiveLoop
  <1> HIDE DEF n
  <1> DEFINE S == {k \in Nat : k <= n => f[k] = g[k] /\ f[k] \in Servers}
  <1>4. 0 \in S
    BY <1>2, <1>3
  <1>5. ASSUME NEW k \in Nat, k \in S PROVE k + 1 \in S
    <2> SUFFICES ASSUME k + 1 <= n PROVE f[k + 1] = g[k + 1] /\ f[k + 1] \in Servers
      OBVIOUS
    <2>1. f[k] = g[k] /\ f[k] \in Servers
      BY <1>1, <1>5
    <2>2. k + 1 \in 1 .. n /\ k + 1 \in 1 .. n + 1 /\ (k + 1) - 1 = k
      BY <1>1
    <2>3. f[k + 1] = Receive(f[k], s[k + 1]) /\ g[k + 1] = Receive(g[k], t[k + 1])
      BY <2>2, <1>2, <1>3
    <2>4. t[k + 1] = s[k + 1] /\ s[k + 1] \in Msgs
      BY <2>2, <1>1
    <2> QED BY <2>1, <2>3, <2>4, ReceiveType
  <1> HIDE DEF S
  <1>6. n \in S
    <2>1. Nat \subseteq S
      BY <1>4, <1>5, NatInductionSet
    <2> QED BY <2>1, <1>1
  <1>7. f[n] = g[n] /\ f[n] \in Servers
    BY <1>1, <1>6 DEF S
  <1>8. g[n + 1] = Receive(g[n], msg)
    <2>1. n + 1 \in 1 .. n + 1 /\ (n + 1) - 1 = n
      BY <1>1
    <2> QED BY <2>1, <1>1, <1>3
  <1> QED BY <1>2, <1>3, <1>7, <1>8 DEF Sent, t

LEMMA SentAll ==
    ASSUME NEW i \in Servers, NEW s \in Seq(Msgs), NEW t \in Seq(Msgs)
    PROVE  /\ s \o t \in Seq(Msgs) /\ Sent(i, s) \in Servers
           /\ Sent(i, s \o t) = Sent(Sent(i, s), t)
  <1> DEFINE Q(u) == Sent(i, s \o u) = Sent(Sent(i, s), u)
             S == {k \in Nat : \A u \in Seq(Msgs) : Len(u) = k => Q(u)}
  <1>1. Sent(i, s) \in Servers
    <2>1. CASE s = <<>>
      BY <2>1, SentNone
    <2>2. CASE s # <<>>
      <3>1. \E c \in Msgs : TRUE
        <4>1. s[1] \in Msgs
          BY <2>2
        <4> QED BY <4>1
      <3> QED BY <3>1, SentNext
    <2> QED BY <2>1, <2>2
  <1>2. 0 \in S
    <2>1. \A u \in Seq(Msgs) : Len(u) = 0 => u = <<>> /\ s \o u = s
      OBVIOUS
    <2>2. \A u \in Seq(Msgs) : Len(u) = 0 => Q(u)
      BY <2>1, <1>1, SentNone
    <2> HIDE DEF Q
    <2> QED BY <2>2
  <1>3. ASSUME NEW k \in Nat, k \in S PROVE k + 1 \in S
    <2> SUFFICES ASSUME NEW u \in Seq(Msgs), Len(u) = k + 1 PROVE Q(u)
      OBVIOUS
    <2> DEFINE v == SubSeq(u, 1, k)
               c == u[k + 1]
    <2>1. v \in Seq(Msgs) /\ Len(v) = k /\ c \in Msgs /\ u = Append(v, c)
      BY LastOf
    <2>2. Q(v)
      BY <1>3, <2>1
    <2> HIDE DEF v, c
    <2>3. s \o v \in Seq(Msgs) /\ s \o Append(v, c) = Append(s \o v, c)
      BY <2>1
    <2>4. Sent(i, s \o u) = Receive(Sent(i, s \o v), c)
      <3>1. Sent(i, Append(s \o v, c)) = Receive(Sent(i, s \o v), c)
        BY <2>1, <2>3, SentNext
      <3>2. s \o u = Append(s \o v, c)
        BY <2>1, <2>3
      <3> QED BY <3>1, <3>2
    <2>5. Sent(Sent(i, s), u) = Receive(Sent(Sent(i, s), v), c)
      BY <2>1, <1>1, SentNext
    <2> QED BY <2>2, <2>4, <2>5
  <1> HIDE DEF S, Q
  <1>4. Nat \subseteq S
    BY <1>2, <1>3, NatInductionSet
  <1>5. Q(t)
    <2>1. Len(t) \in Nat
      OBVIOUS
    <2>2. Len(t) \in S
      BY <2>1, <1>4
    <2> QED BY <2>2 DEF S
  <1>6. s \o t \in Seq(Msgs)
    OBVIOUS
  <1> QED BY <1>1, <1>5, <1>6 DEF Q

LEMMA SentOne ==
    ASSUME NEW i \in Servers, NEW msg \in Msgs
    PROVE  <<msg>> \in Seq(Msgs) /\ Sent(i, <<msg>>) = Receive(i, msg)
  <1>1. <<>> \in Seq(Msgs) /\ Append(<<>>, msg) = <<msg>> /\ <<msg>> \in Seq(Msgs)
    OBVIOUS
  <1>2. Sent(i, Append(<<>>, msg)) = Receive(Sent(i, <<>>), msg)
    BY <1>1, SentNext
  <1> QED BY <1>1, <1>2, SentNone

LEMMA SentHead ==
    ASSUME NEW i \in Servers, NEW s \in Seq(Msgs), s # <<>>
    PROVE  Sent(i, s) = Sent(Receive(i, Head(s)), Tail(s))
  <1> DEFINE h == Head(s)
             r == Tail(s)
  <1>1. h \in Msgs /\ r \in Seq(Msgs) /\ s = <<h>> \o r
    BY HeadOf
  <1> HIDE DEF h, r
  <1>2. <<h>> \in Seq(Msgs) /\ Sent(i, <<h>>) = Receive(i, h)
    BY <1>1, SentOne
  <1>3. Sent(i, <<h>> \o r) = Sent(Sent(i, <<h>>), r)
    BY <1>1, <1>2, SentAll
  <1> QED BY <1>1, <1>2, <1>3 DEF h, r

-----------------------------------------------------------------------------
(* The stack as changes come to it and are sent. *)

LEMMA SameStacks ==
    ASSUME NEW st \in Stacks, NEW su \in Stacks, st.source = su.source,
           st.on = su.on, st.off = su.off, st.slot = su.slot, st.params = su.params
    PROVE  st = su
  BY DEF Stacks

LEMMA Cleared ==
    ASSUME NEW st \in Stacks
    PROVE  LET c == modestack_clear(st)
           IN  /\ c \in Stacks /\ Empty(c) /\ c.source = st.source
               /\ c.on = {} /\ c.off = {} /\ c.slot = Unused /\ c.params = <<>>
  <1> DEFINE Is(c, so) == /\ c \in Stacks /\ c.source = so
                          /\ c.on = {} /\ c.off = {} /\ c.slot = Unused /\ c.params = <<>>
             none == <<>>
  <1>1. Unused \in [Slots -> {None, Off} \union Values] /\ none \in Seq(Params)
    BY DEF Unused
  <1>2. ASSUME NEW su \in Stacks PROVE Is(modestack_clear(su), su.source)
    <2>1. modestack_clear(su) = [su EXCEPT !.on = {}, !.off = {}, !.slot = Unused, !.params = none]
      BY DEF modestack_clear
    <2> HIDE DEF none
    <2> DEFINE c == [su EXCEPT !.on = {}, !.off = {}, !.slot = Unused, !.params = none]
    <2>2. /\ c \in Stacks /\ c.source = su.source
          /\ c.on = {} /\ c.off = {} /\ c.slot = Unused /\ c.params = none
      BY <1>1 DEF Stacks
    <2> HIDE DEF c
    <2> QED BY <2>1, <2>2 DEF none, c
  <1> DEFINE d == modestack_clear(st)
             e == modestack_clear(d)
  <1>3. Is(d, st.source)
    BY <1>2
  <1> HIDE DEF d
  <1>4. Is(e, d.source)
    BY <1>2, <1>3
  <1> HIDE DEF e
  <1>5. e = d
    BY <1>3, <1>4, SameStacks
  <1> QED BY <1>3, <1>5 DEF d, e, Empty

LEMMA NothingMerged ==
    ASSUME NEW m \in ModesOf, NEW st \in Stacks, Empty(st)
    PROVE  Merged(m, st) = m /\ st.on = {} /\ st.off = {}
  <1>1. st.on = {} /\ st.off = {} /\ st.slot = Unused /\ st.params = <<>>
    <2>1. st = modestack_clear(st)
      BY DEF Empty
    <2> QED BY <2>1, Cleared
  <1>2. WithSlots(m.slot, Unused) = m.slot
    BY DEF WithSlots, Unused, ModesOf
  <1>3. Applied(m, <<>>) = m
    BY AppliedNone
  <1> DEFINE r == Merged(m, st)
  <1>4. r.modes = m.modes /\ r.slot = m.slot /\ r.key = m.key /\ r.list = m.list
    BY <1>1, <1>2, <1>3 DEF Merged
  <1>5. r \in ModesOf
    BY MergedType
  <1> HIDE DEF r
  <1>6. r = m
    BY <1>4, <1>5, SameModes
  <1> QED BY <1>1, <1>6 DEF r

\* Simple modes: opposite changes replace each other.
LEMMA SimpleMerged ==
    ASSUME NEW m \in ModesOf, NEW st \in Stacks,
           NEW on \in SUBSET SimpleModes, NEW off \in SUBSET SimpleModes
    PROVE  LET st2 == modestack_add_simple(st, Simple(on, off))
           IN  /\ st2 \in Stacks /\ st2.on = (st.on \ off) \union on
               /\ Merged(m, st2) = Apply(Merged(m, st), Simple(on, off))
  <1> DEFINE st2 == modestack_add_simple(st, Simple(on, off))
             p == Merged(m, st)
             q == Merged(m, st2)
             r == Apply(p, Simple(on, off))
  <1>1. st2 = [st EXCEPT !.on = (@ \ off) \union on, !.off = (@ \ on) \union off]
    BY DEF modestack_add_simple, Simple
  <1>2. /\ st2 \in Stacks /\ st2.on = (st.on \ off) \union on /\ st2.off = (st.off \ on) \union off
        /\ st2.slot = st.slot /\ st2.params = st.params
    BY <1>1 DEF Stacks
  <1> HIDE DEF st2
  <1>3. p \in ModesOf /\ q \in ModesOf
    BY <1>2, MergedType
  <1>4. p.modes = (m.modes \ st.off) \union st.on /\ q.modes = (m.modes \ st2.off) \union st2.on
        /\ p.slot = q.slot /\ p.key = q.key /\ p.list = q.list
    BY <1>2 DEF Merged
  <1> HIDE DEF p, q
  <1>5. r \in ModesOf /\ r = [p EXCEPT !.modes = (@ \ off) \union on]
    BY <1>3, SimpleApplied
  <1>6. r.modes = (p.modes \ off) \union on /\ r.slot = p.slot /\ r.key = p.key /\ r.list = p.list
    BY <1>3, <1>5 DEF ModesOf
  <1> HIDE DEF r
  <1>7. q.modes = r.modes
    BY <1>2, <1>4, <1>6
  <1>8. q = r
    BY <1>3, <1>4, <1>5, <1>6, <1>7, SameModes
  <1> QED BY <1>2, <1>8 DEF p, q, r, st2

\* A slot, stacked after what there was for it was dropped, and after the rest
\* has been sent or not.
Dropped(st, x) == [st EXCEPT !.slot[x] = Off]
Stacked(st, x, v) == [st EXCEPT !.slot[x] = v]

LEMMA SlotMerged ==
    ASSUME NEW m \in ModesOf, NEW st \in Stacks,
           NEW x \in Slots, NEW v \in {None} \union Values
    PROVE  /\ Dropped(st, x) \in Stacks
           /\ Stacked(Dropped(st, x), x, v) \in Stacks /\ Stacked(Dropped(st, x), x, v).on = st.on
           /\ Stacked(modestack_clear(Dropped(st, x)), x, v) \in Stacks
           /\ Stacked(modestack_clear(Dropped(st, x)), x, v).on = {}
           /\ Merged(m, Stacked(Dropped(st, x), x, v)) = Apply(Merged(m, st), Slot(x, v))
           /\ Merged(Merged(m, Dropped(st, x)), Stacked(modestack_clear(Dropped(st, x)), x, v))
                 = Apply(Merged(m, st), Slot(x, v))
  <1> DEFINE st0 == [st EXCEPT !.slot[x] = Off]
             st1 == [st0 EXCEPT !.slot[x] = v]
             st2 == [modestack_clear(st0) EXCEPT !.slot[x] = v]
             p == Merged(m, st)
             o == Merged(m, st0)
             q1 == Merged(m, st1)
             q2 == Merged(o, st2)
             r == Apply(p, Slot(x, v))
  <1>0. v # Off
    BY ModesAssumption
  <1>1. st.slot \in [Slots -> {None, Off} \union Values]
    BY DEF Stacks
  <1>2. st0 \in Stacks /\ st0.slot = [st.slot EXCEPT ![x] = Off] /\ st0.on = st.on /\ st0.off = st.off
        /\ st0.params = st.params
    BY DEF Stacks
  <1> HIDE DEF st0
  <1>3. st1 \in Stacks /\ st1.slot = [st0.slot EXCEPT ![x] = v] /\ st1.on = st.on /\ st1.off = st.off
        /\ st1.params = st.params
    BY <1>2 DEF Stacks
  <1>4. st2 \in Stacks /\ st2.slot = [Unused EXCEPT ![x] = v] /\ st2.on = {} /\ st2.off = {}
        /\ st2.params = <<>>
    <2> DEFINE c == modestack_clear(st0)
    <2>1. c \in Stacks /\ c.on = {} /\ c.off = {} /\ c.slot = Unused /\ c.params = <<>>
      BY <1>2, Cleared
    <2> HIDE DEF c
    <2>2. [c EXCEPT !.slot[x] = v] \in Stacks
          /\ [c EXCEPT !.slot[x] = v].slot = [c.slot EXCEPT ![x] = v]
          /\ [c EXCEPT !.slot[x] = v].on = c.on /\ [c EXCEPT !.slot[x] = v].off = c.off
          /\ [c EXCEPT !.slot[x] = v].params = c.params
      BY <2>1 DEF Stacks
    <2> QED BY <2>1, <2>2 DEF c
  <1> HIDE DEF st1, st2
  <1>5. p \in ModesOf /\ o \in ModesOf /\ q1 \in ModesOf
    BY <1>2, <1>3, MergedType
  <1> DEFINE mm == o
  <1>6. q2 \in ModesOf
    <2> HIDE DEF o
    <2> QED BY <1>4, <1>5, MergedType
  <1>7. /\ p.modes = (m.modes \ st.off) \union st.on /\ p.slot = WithSlots(m.slot, st.slot)
        /\ p.key = Applied(m, st.params).key /\ p.list = Applied(m, st.params).list
        /\ o.modes = p.modes /\ o.slot = WithSlots(m.slot, st0.slot) /\ o.key = p.key /\ o.list = p.list
        /\ q1.modes = p.modes /\ q1.slot = WithSlots(m.slot, st1.slot) /\ q1.key = p.key /\ q1.list = p.list
    BY <1>2, <1>3 DEF Merged
  <1> HIDE DEF o, p, q1
  <1>8. q2.modes = o.modes /\ q2.slot = WithSlots(o.slot, st2.slot) /\ q2.key = o.key /\ q2.list = o.list
    <2>1. Applied(o, <<>>) = o
      BY <1>5, AppliedNone
    <2> QED BY <2>1, <1>4 DEF Merged
  <1> HIDE DEF q2
  <1>9. r \in ModesOf /\ r = [p EXCEPT !.slot[x] = v]
    BY <1>5, SlotApplied
  <1>10. r.modes = p.modes /\ r.slot = [p.slot EXCEPT ![x] = v] /\ r.key = p.key /\ r.list = p.list
    BY <1>5, <1>9 DEF ModesOf
  <1> HIDE DEF r
  <1>11. m.slot \in [Slots -> {None} \union Values]
    BY DEF ModesOf
  <1>12. p.slot = [y \in Slots |-> IF st.slot[y] # Off THEN st.slot[y] ELSE m.slot[y]]
    BY <1>7 DEF WithSlots
  <1>13. \A y \in Slots : st1.slot[y] = IF y = x THEN v ELSE st.slot[y]
    BY <1>1, <1>2, <1>3
  <1>14. q1.slot = r.slot
    <2>1. q1.slot = [y \in Slots |-> IF st1.slot[y] # Off THEN st1.slot[y] ELSE m.slot[y]]
      BY <1>7 DEF WithSlots
    <2>2. r.slot = [y \in Slots |-> IF y = x THEN v ELSE p.slot[y]]
      BY <1>10, <1>12
    <2>3. \A y \in Slots : (IF st1.slot[y] # Off THEN st1.slot[y] ELSE m.slot[y])
                           = (IF y = x THEN v ELSE p.slot[y])
      BY <1>0, <1>12, <1>13
    <2> QED BY <2>1, <2>2, <2>3, Zenon
  <1>15. q2.slot = r.slot
    <2>1. \A y \in Slots : st2.slot[y] = IF y = x THEN v ELSE Off
      BY <1>4 DEF Unused
    <2>2. \A y \in Slots : o.slot[y] = IF y # x /\ st.slot[y] # Off THEN st.slot[y] ELSE m.slot[y]
      BY <1>1, <1>2, <1>7 DEF WithSlots
    <2>3. q2.slot = [y \in Slots |-> IF st2.slot[y] # Off THEN st2.slot[y] ELSE o.slot[y]]
      BY <1>8 DEF WithSlots
    <2>4. r.slot = [y \in Slots |-> IF y = x THEN v ELSE p.slot[y]]
      BY <1>10, <1>12
    <2>5. \A y \in Slots : (IF st2.slot[y] # Off THEN st2.slot[y] ELSE o.slot[y])
                           = (IF y = x THEN v ELSE p.slot[y])
      BY <1>0, <1>12, <2>1, <2>2
    <2> QED BY <2>3, <2>4, <2>5, Zenon
  <1>16. q1 = r
    <2>1. q1.modes = r.modes /\ q1.key = r.key /\ q1.list = r.list
      BY <1>7, <1>10
    <2> QED BY <1>5, <1>9, <1>14, <2>1, SameModes
  <1>17. q2 = r
    <2>1. q2.modes = r.modes /\ q2.key = r.key /\ q2.list = r.list
      BY <1>7, <1>8, <1>10
    <2> QED BY <1>6, <1>9, <1>15, <2>1, SameModes
  <1> QED BY <1>2, <1>3, <1>4, <1>16, <1>17 DEF p, o, q1, q2, r, st0, st1, st2, Dropped, Stacked

\* Keys and members of lists.
LEMMA ParamMerged ==
    ASSUME NEW m \in ModesOf, NEW st \in Stacks, NEW ch \in Params
    PROVE  LET st2 == [st EXCEPT !.params = Append(@, ch)]
           IN  /\ st2 \in Stacks /\ st2.on = st.on
               /\ Merged(m, st2) = Apply(Merged(m, st), ch)
  <1> DEFINE st2 == [st EXCEPT !.params = Append(@, ch)]
             p == Merged(m, st)
             q == Merged(m, st2)
             r == Apply(p, ch)
             a == Applied(m, st.params)
  <1>1. st2 \in Stacks /\ st2.on = st.on /\ st2.off = st.off /\ st2.slot = st.slot
        /\ st2.params = Append(st.params, ch)
    <2>1. Append(st.params, ch) \in Seq(Params)
      BY DEF Stacks
    <2> DEFINE l == Append(st.params, ch)
    <2>2. st2 = [st EXCEPT !.params = l]
      OBVIOUS
    <2> HIDE DEF l, st2
    <2>3. l \in Seq(Params)
      BY <2>1 DEF l
    <2>4. st2 \in Stacks /\ st2.on = st.on /\ st2.off = st.off /\ st2.slot = st.slot /\ st2.params = l
      BY <2>2, <2>3 DEF Stacks
    <2> QED BY <2>4 DEF l
  <1> HIDE DEF st2
  <1>2. p \in ModesOf /\ q \in ModesOf
    BY <1>1, MergedType
  <1>3. st.params \in Seq(Changes) /\ ch \in Changes
    BY ParamsApplied DEF Stacks, Params
  <1>4. a \in ModesOf /\ Applied(m, st2.params) = Apply(a, ch)
    BY <1>1, <1>3, AppliedNext
  <1>5. /\ p.modes = (m.modes \ st.off) \union st.on /\ q.modes = p.modes
        /\ p.slot = q.slot /\ p.key = a.key /\ p.list = a.list
        /\ q.key = Apply(a, ch).key /\ q.list = Apply(a, ch).list
    BY <1>1, <1>4 DEF Merged
  <1> HIDE DEF a, p, q
  <1>6. /\ Apply(a, ch).key = IF ch.kind = "key" THEN ch.val ELSE a.key
        /\ Apply(a, ch).list = IF ch.kind = "key" THEN a.list
                                 ELSE IF ch.add THEN a.list \union {ch.val} ELSE a.list \ {ch.val}
    BY <1>4, ParamApplied
  <1>7. /\ r \in ModesOf /\ r.modes = p.modes /\ r.slot = p.slot
        /\ r.key = IF ch.kind = "key" THEN ch.val ELSE p.key
        /\ r.list = IF ch.kind = "key" THEN p.list
                    ELSE IF ch.add THEN p.list \union {ch.val} ELSE p.list \ {ch.val}
    BY <1>2, ParamApplied
  <1> HIDE DEF r
  <1>8. q.modes = r.modes /\ q.slot = r.slot /\ q.key = r.key /\ q.list = r.list
    BY <1>5, <1>6, <1>7, Zenon
  <1>9. q = r
    BY <1>2, <1>7, <1>8, SameModes
  <1> QED BY <1>1, <1>9 DEF p, q, r, st2

-----------------------------------------------------------------------------
(* Handlers: what the server will make of the lines they send. *)

Handlers == [chan : ModesOf, stack : Stacks, out : Seq(Msgs), lost : BOOLEAN, bot : BOOLEAN]

LineHandlers == {s \in Handlers : s.out \in Seq(Lines)}

\* What the lines already sent make of the server i.
After(i, s) == Sent(i, s.out)

LEMMA AfterType == ASSUME NEW i \in Servers, NEW s \in Handlers PROVE After(i, s) \in Servers
  <1>1. s.out \in Seq(Msgs) /\ <<>> \in Seq(Msgs)
    BY DEF Handlers
  <1> QED BY <1>1, SentAll DEF After

LEMMA SentLine ==
    ASSUME NEW i \in Servers, NEW o \in Seq(Msgs), NEW msg \in Msgs
    PROVE  /\ Append(o, msg) \in Seq(Msgs) /\ (o \in Seq(Lines) /\ msg \in Lines => Append(o, msg) \in Seq(Lines))
           /\ Sent(i, Append(o, msg)) = Receive(Sent(i, o), msg) /\ Sent(i, o) \in Servers
  BY SentNext

\* Sending the stack.
Flushed(i, s, t) ==
    /\ t \in Handlers /\ t.chan = s.chan /\ t.bot = s.bot /\ (s.out \in Seq(Lines) => t.out \in Seq(Lines))
    /\ t.stack = modestack_clear(s.stack) /\ (s.lost => t.lost)
    /\ After(i, t).users = After(i, s).users /\ After(i, t).svc = After(i, s).svc
    /\ After(i, t).alive => After(i, s).alive
    /\ ~t.lost /\ After(i, s).alive => After(i, t).m = Merged(After(i, s).m, s.stack)

LEMMA FlushSends ==
    ASSUME NEW i \in Servers, NEW s \in Handlers
    PROVE  Flushed(i, s, modestack_flush(s))
  <1> DEFINE t == modestack_flush(s)
             F == After(i, s)
  <1>0. /\ s.chan \in ModesOf /\ s.stack \in Stacks /\ s.out \in Seq(Msgs)
        /\ s.lost \in BOOLEAN /\ s.bot \in BOOLEAN
    BY DEF Handlers
  <1>1. F \in Servers /\ F.m \in ModesOf
    BY AfterType, ServerType
  <1> HIDE DEF F
  <1>2. CASE Empty(s.stack)
    <2>1. t = s
      BY <1>2 DEF modestack_flush
    <2>2. t.stack = modestack_clear(s.stack)
      BY <1>2, <2>1 DEF Empty
    <2>3. Merged(F.m, s.stack) = F.m
      BY <1>0, <1>1, <1>2, NothingMerged
    <2> HIDE DEF t
    <2>4. Flushed(i, s, t)
      BY <2>1, <2>2, <2>3 DEF Flushed, F
    <2> QED BY <2>4 DEF t
  <1>3. CASE ~Empty(s.stack)
    <2> DEFINE line == [modes |-> Line(s.stack)]
               G == Receive(F, line)
               c == modestack_clear(s.stack)
    <2>1. Line(s.stack) \in Seq(Changes) /\ Applied(F.m, Line(s.stack)) = Merged(F.m, s.stack)
      BY <1>0, <1>1, LineApplied
    <2>2. /\ line \in Lines /\ G \in Servers /\ G.users = F.users /\ G.svc = F.svc
          /\ F.alive => G.m = Merged(F.m, s.stack)
          /\ ~F.alive => G = F
      BY <1>1, <2>1, ModesReceived
    <2>3. line \in Msgs
      BY <2>2 DEF Msgs
    <2>4. c \in Stacks
      BY <1>0, Cleared
    <2> HIDE DEF line, c, G
    <2>5. CASE s.stack.source = "chanserv" \/ s.bot
      <3>1. t = [s EXCEPT !.stack = c, !.out = Append(@, line), !.lost = @ \/ FALSE]
        BY <1>3, <2>5 DEF modestack_flush, c, line
      <3>2. Append(s.out, line) \in Seq(Msgs) /\ (s.out \in Seq(Lines) => Append(s.out, line) \in Seq(Lines))
            /\ Sent(i, Append(s.out, line)) = G
        BY <1>0, <2>2, <2>3, SentLine DEF G, F, After
      <3> DEFINE o == Append(s.out, line)
      <3>3. t = [s EXCEPT !.stack = c, !.out = o, !.lost = @ \/ FALSE]
        BY <3>1
      <3>4. o \in Seq(Msgs) /\ (s.out \in Seq(Lines) => o \in Seq(Lines)) /\ Sent(i, o) = G
        BY <3>2
      <3> HIDE DEF o, t
      <3>5. /\ t \in Handlers /\ t.chan = s.chan /\ t.bot = s.bot /\ t.out = o /\ t.stack = c
            /\ (t.lost <=> s.lost)
        BY <1>0, <2>4, <3>3, <3>4 DEF Handlers
      <3>6. After(i, t) = G
        BY <3>4, <3>5 DEF After
      <3>7. Flushed(i, s, t)
        BY <2>2, <3>4, <3>5, <3>6 DEF Flushed, F, c
      <3> QED BY <3>7 DEF t
    <2>6. CASE ~(s.stack.source = "chanserv" \/ s.bot)
      <3>1. t = [s EXCEPT !.stack = c, !.out = @, !.lost = @ \/ TRUE]
        BY <1>3, <2>6 DEF modestack_flush, c
      <3> HIDE DEF t
      <3>5. /\ t \in Handlers /\ t.chan = s.chan /\ t.bot = s.bot /\ t.out = s.out /\ t.stack = c
            /\ t.lost
        BY <1>0, <2>4, <3>1 DEF Handlers
      <3>6. After(i, t) = F
        BY <3>5 DEF After, F
      <3>7. Flushed(i, s, t)
        BY <3>5, <3>6 DEF Flushed, F, c
      <3> QED BY <3>7 DEF t
    <2> QED BY <2>5, <2>6
  <1> QED BY <1>2, <1>3

\* The server will have what services believe, the modes that are stacked to be
\* set are set, and services are in the channel only with a bot.
Fine(i, s) ==
    /\ s.stack.on \subseteq s.chan.modes
    /\ ~s.bot => ~After(i, s).svc
    /\ ~s.lost /\ After(i, s).alive => Merged(After(i, s).m, s.stack) = s.chan

\* What the server's modes will be once what is sent and stacked has arrived.
Ahead(i, s) == Merged(After(i, s).m, s.stack)

LEMMA AheadType == ASSUME NEW i \in Servers, NEW s \in Handlers PROVE Ahead(i, s) \in ModesOf
  <1>1. After(i, s).m \in ModesOf /\ s.stack \in Stacks
    BY AfterType, ServerType DEF Handlers
  <1> QED BY <1>1, MergedType DEF Ahead

\* A step of a handler that makes the changes q.
Goes(i, s, t, q) ==
    /\ t \in LineHandlers /\ t.bot = s.bot /\ (s.lost => t.lost) /\ q \in Seq(Changes)
    /\ t.chan = Applied(s.chan, q)
    /\ s.stack.on \subseteq s.chan.modes => t.stack.on \subseteq t.chan.modes
    /\ After(i, t).svc = After(i, s).svc
    /\ After(i, t).alive => After(i, s).alive
    /\ ~t.lost /\ After(i, t).alive => Ahead(i, t) = Applied(Ahead(i, s), q)

LEMMA FineGoes ==
    ASSUME NEW i, NEW s, NEW t, NEW q, Goes(i, s, t, q), Fine(i, s)
    PROVE  Fine(i, t)
  BY DEF Goes, Fine, Ahead

LEMMA Stays ==
    ASSUME NEW i \in Servers, NEW s \in LineHandlers
    PROVE  Goes(i, s, s, <<>>)
  <1>1. s \in Handlers /\ s.chan \in ModesOf /\ <<>> \in Seq(Changes)
    BY DEF LineHandlers, Handlers
  <1>2. Applied(s.chan, <<>>) = s.chan /\ Applied(Ahead(i, s), <<>>) = Ahead(i, s)
    BY <1>1, AppliedNone, AheadType
  <1> QED BY <1>1, <1>2 DEF Goes

LEMMA FlushGoes ==
    ASSUME NEW i \in Servers, NEW s \in LineHandlers
    PROVE  Goes(i, s, modestack_flush(s), <<>>)
  <1> DEFINE t == modestack_flush(s)
             F == After(i, s)
             G == After(i, t)
  <1>0. s \in Handlers /\ s.out \in Seq(Lines) /\ s.stack \in Stacks /\ s.chan \in ModesOf
        /\ <<>> \in Seq(Changes)
    BY DEF LineHandlers, Handlers
  <1>1. Flushed(i, s, t)
    BY <1>0, FlushSends
  <1> HIDE DEF t
  <1>2. /\ t \in LineHandlers /\ t.chan = s.chan /\ t.bot = s.bot /\ (s.lost => t.lost)
        /\ t.stack = modestack_clear(s.stack) /\ G.svc = F.svc /\ (G.alive => F.alive)
        /\ ~t.lost /\ F.alive => G.m = Merged(F.m, s.stack)
    BY <1>0, <1>1 DEF Flushed, LineHandlers
  <1>3. G \in Servers
    BY <1>2, AfterType DEF LineHandlers
  <1> HIDE DEF F, G
  <1>4. t.stack.on = {} /\ \A m \in ModesOf : Merged(m, t.stack) = m
    BY <1>0, <1>2, Cleared, NothingMerged
  <1>5. G.m \in ModesOf
    BY <1>3, ServerType
  <1>6. Applied(s.chan, <<>>) = s.chan /\ Applied(Ahead(i, s), <<>>) = Ahead(i, s)
    BY <1>0, AppliedNone, AheadType
  <1>7. ~t.lost /\ G.alive => Merged(G.m, t.stack) = Merged(F.m, s.stack)
    BY <1>2, <1>4, <1>5
  <1>8. Goes(i, s, t, <<>>)
    BY <1>0, <1>2, <1>4, <1>6, <1>7 DEF Goes, Ahead, F, G
  <1> QED BY <1>8 DEF t

LEMMA InitGoes ==
    ASSUME NEW i \in Servers, NEW s \in LineHandlers, NEW source \in {"chanserv", "bot"}
    PROVE  Goes(i, s, modestack_init(s, source), <<>>)
  <1> DEFINE u == IF s.stack.source # source THEN modestack_flush(s) ELSE s
             t == [u EXCEPT !.stack.source = source]
  <1>1. Goes(i, s, u, <<>>)
    BY Stays, FlushGoes
  <1>2. modestack_init(s, source) = t
    BY DEF modestack_init
  <1> HIDE DEF u
  <1>3. u \in LineHandlers /\ u \in Handlers /\ u.stack \in Stacks
    BY <1>1 DEF Goes, LineHandlers, Handlers
  <1> DEFINE st == [u.stack EXCEPT !.source = source]
  <1>4. /\ st \in Stacks /\ st.on = u.stack.on /\ st.off = u.stack.off /\ st.slot = u.stack.slot
        /\ st.params = u.stack.params
    BY <1>3 DEF Stacks
  <1>5. t = [u EXCEPT !.stack = st]
    OBVIOUS
  <1> HIDE DEF t, st
  <1>6. /\ t \in LineHandlers /\ t.chan = u.chan /\ t.bot = u.bot /\ t.lost = u.lost /\ t.out = u.out
        /\ t.stack = st
    BY <1>3, <1>4, <1>5 DEF LineHandlers, Handlers
  <1>7. \A m : Merged(m, st) = Merged(m, u.stack)
    BY <1>4 DEF Merged
  <1>8. After(i, t) = After(i, u)
    BY <1>6 DEF After
  <1>9. Ahead(i, t) = Ahead(i, u)
    BY <1>6, <1>7, <1>8 DEF Ahead
  <1>10. Goes(i, s, t, <<>>)
    BY <1>1, <1>4, <1>6, <1>8, <1>9 DEF Goes
  <1> QED BY <1>2, <1>10

\* One step after the other.
LEMMA GoesOn ==
    ASSUME NEW i \in Servers, NEW s \in LineHandlers, NEW t, NEW u, NEW p, NEW q,
           Goes(i, s, t, p), Goes(i, t, u, q)
    PROVE  Goes(i, s, u, p \o q)
  <1>1. p \in Seq(Changes) /\ q \in Seq(Changes) /\ s.chan \in ModesOf /\ Ahead(i, s) \in ModesOf
    BY AheadType DEF Goes, LineHandlers, Handlers
  <1>2. /\ p \o q \in Seq(Changes)
        /\ Applied(s.chan, p \o q) = Applied(Applied(s.chan, p), q)
        /\ Applied(Ahead(i, s), p \o q) = Applied(Applied(Ahead(i, s), p), q)
    BY <1>1, AppliedAll
  <1> QED BY <1>2 DEF Goes

\* A change that is stacked with the rest, or after the rest was sent.
LEMMA StackedGoes ==
    ASSUME NEW i \in Servers, NEW s \in LineHandlers, NEW v \in LineHandlers, NEW st \in Stacks,
           NEW ch \in Changes, NEW m,
           m = Apply(s.chan, ch),
           v.bot = s.bot, s.lost => v.lost, After(i, v).svc = After(i, s).svc,
           After(i, v).alive => After(i, s).alive,
           s.stack.on \subseteq s.chan.modes => st.on \subseteq m.modes,
           ~v.lost /\ After(i, v).alive => Merged(After(i, v).m, st) = Apply(Ahead(i, s), ch)
    PROVE  Goes(i, s, [v EXCEPT !.stack = st, !.chan = m], <<ch>>)
  <1> DEFINE t == [v EXCEPT !.stack = st, !.chan = m]
  <1>0. s \in Handlers /\ s.chan \in ModesOf /\ m \in ModesOf
    BY ApplyType DEF LineHandlers, Handlers
  <1>1. /\ t \in LineHandlers /\ t.chan = m /\ t.stack = st /\ t.bot = v.bot /\ t.lost = v.lost /\ t.out = v.out
    BY <1>0 DEF LineHandlers, Handlers
  <1> HIDE DEF t
  <1>2. After(i, t) = After(i, v)
    BY <1>1 DEF After
  <1>3. <<ch>> \in Seq(Changes) /\ Applied(s.chan, <<ch>>) = m
    BY <1>0, AppliedOne
  <1>4. Applied(Ahead(i, s), <<ch>>) = Apply(Ahead(i, s), ch)
    BY <1>0, AheadType, AppliedOne
  <1>5. ~t.lost /\ After(i, t).alive => Ahead(i, t) = Applied(Ahead(i, s), <<ch>>)
    BY <1>1, <1>2, <1>4 DEF Ahead
  <1>6. Goes(i, s, t, <<ch>>)
    BY <1>1, <1>2, <1>3, <1>5 DEF Goes
  <1> QED BY <1>6 DEF t

LEMMA SimpleGoes ==
    ASSUME NEW i \in Servers, NEW t \in LineHandlers,
           NEW on \in SUBSET SimpleModes, NEW off \in SUBSET SimpleModes
    PROVE  LET ch == Simple(on, off)
           IN  Goes(i, t, [[t EXCEPT !.stack = modestack_add_simple(@, ch)] EXCEPT !.chan = Apply(@, ch)], <<ch>>)
  <1> DEFINE ch == Simple(on, off)
             st == modestack_add_simple(t.stack, ch)
             m == Apply(t.chan, ch)
             F == After(i, t)
  <1>1. t.stack \in Stacks /\ t.chan \in ModesOf /\ F.m \in ModesOf
    BY AfterType, ServerType DEF LineHandlers, Handlers
  <1>2. m \in ModesOf /\ m.modes = (t.chan.modes \ off) \union on
    <2> DEFINE p == t.chan
    <2>1. p \in ModesOf
      BY <1>1
    <2> HIDE DEF p
    <2>2. Apply(p, ch) \in ModesOf /\ Apply(p, ch) = [p EXCEPT !.modes = (@ \ off) \union on]
      BY <2>1, SimpleApplied
    <2> HIDE DEF ch
    <2>3. Apply(p, ch).modes = (p.modes \ off) \union on
      BY <2>1, <2>2 DEF ModesOf
    <2> QED BY <2>2, <2>3 DEF p
  <1>3. st \in Stacks /\ st.on = (t.stack.on \ off) \union on
        /\ Merged(F.m, st) = Apply(Merged(F.m, t.stack), ch)
    <2> DEFINE p == F.m
               su == t.stack
    <2>1. p \in ModesOf /\ su \in Stacks
      BY <1>1
    <2> HIDE DEF p, su
    <2>2. modestack_add_simple(su, ch) \in Stacks /\ modestack_add_simple(su, ch).on = (su.on \ off) \union on
          /\ Merged(p, modestack_add_simple(su, ch)) = Apply(Merged(p, su), ch)
      BY <2>1, SimpleMerged
    <2> QED BY <2>2 DEF p, su
  <1>4. t.stack.on \subseteq t.chan.modes => st.on \subseteq m.modes
    BY <1>2, <1>3
  <1>5. ch \in Changes
    BY <1>1, SimpleApplied
  <1>6. [[t EXCEPT !.stack = modestack_add_simple(@, ch)] EXCEPT !.chan = Apply(@, ch)]
        = [t EXCEPT !.stack = st, !.chan = m]
    BY DEF LineHandlers, Handlers
  <1>a. m = Apply(t.chan, ch) /\ Merged(F.m, st) = Apply(Ahead(i, t), ch)
    BY <1>3 DEF Ahead
  <1> HIDE DEF st, m, ch
  <1>7. Goes(i, t, [t EXCEPT !.stack = st, !.chan = m], <<ch>>)
    BY <1>3, <1>4, <1>5, <1>a, StackedGoes DEF F
  <1> QED BY <1>6, <1>7 DEF ch

LEMMA SlotGoes ==
    ASSUME NEW i \in Servers, NEW t \in LineHandlers,
           NEW x \in Slots, NEW w \in {None} \union Values
    PROVE  LET ch == Slot(x, w)
           IN  Goes(i, t, [modestack_add_slot(t, ch) EXCEPT !.chan = Apply(@, ch)], <<ch>>)
  <1> DEFINE ch == Slot(x, w)
             st0 == [t.stack EXCEPT !.slot[x] = Off]
             st1 == [st0 EXCEPT !.slot[x] = w]
             st2 == [modestack_clear(st0) EXCEPT !.slot[x] = w]
             u == [t EXCEPT !.stack = st0]
             m == Apply(t.chan, ch)
             F == After(i, t)
             full == paramcount(u.stack) >= MAXMODES
             v == IF full THEN modestack_flush(u) ELSE u
  <1>1. t \in Handlers /\ t.stack \in Stacks /\ t.chan \in ModesOf /\ F \in Servers /\ F.m \in ModesOf
    BY AfterType, ServerType DEF LineHandlers, Handlers
  <1>2. m \in ModesOf /\ m.modes = t.chan.modes /\ ch \in Changes
    <2>1. /\ Slot(x, w) \in Changes /\ Apply(t.chan, Slot(x, w)) \in ModesOf
          /\ Apply(t.chan, Slot(x, w)) = [t.chan EXCEPT !.slot[x] = w]
      BY <1>1, SlotApplied
    <2>2. [t.chan EXCEPT !.slot[x] = w].modes = t.chan.modes
      BY <1>1 DEF ModesOf
    <2> QED BY <2>1, <2>2
  <1>3. /\ st0 \in Stacks /\ st1 \in Stacks /\ st2 \in Stacks /\ st1.on = t.stack.on /\ st2.on = {}
        /\ Merged(F.m, st1) = Apply(Merged(F.m, t.stack), ch)
        /\ Merged(Merged(F.m, st0), st2) = Apply(Merged(F.m, t.stack), ch)
    <2>1. st0 = Dropped(t.stack, x) /\ st1 = Stacked(st0, x, w) /\ st2 = Stacked(modestack_clear(st0), x, w)
      BY DEF Dropped, Stacked
    <2> HIDE DEF st0, st1, st2, F
    <2> QED BY <1>1, <2>1, SlotMerged
  <1>4. modestack_add_slot(t, ch) = [v EXCEPT !.stack.slot[x] = w]
    <2>1. ch.slot = x /\ ch.val = w
      BY DEF Slot
    <2>2. [t EXCEPT !.stack.slot[ch.slot] = Off] = u
      BY <2>1, <1>1 DEF Handlers
    <2> HIDE DEF u, ch
    <2> QED BY <2>1, <2>2 DEF modestack_add_slot
  <1> HIDE DEF st0
  <1>5. /\ u \in LineHandlers /\ u \in Handlers /\ u.chan = t.chan /\ u.stack = st0 /\ u.bot = t.bot
        /\ u.lost = t.lost /\ u.out = t.out
    BY <1>1, <1>3 DEF LineHandlers, Handlers
  <1>6. After(i, u) = F
    BY <1>5 DEF After
  <1> HIDE DEF u, F, m, ch
  <1>7. CASE full
    <2>1. v = modestack_flush(u)
      BY <1>7
    <2> HIDE DEF v, full
    <2>2. Flushed(i, u, v)
      BY <1>5, <2>1, FlushSends
    <2>3. /\ v \in LineHandlers /\ v.bot = t.bot /\ v.chan = t.chan /\ (t.lost => v.lost)
          /\ After(i, v).svc = F.svc /\ (After(i, v).alive => F.alive)
          /\ ~v.lost /\ F.alive => After(i, v).m = Merged(F.m, st0)
      BY <1>5, <1>6, <2>2 DEF Flushed, LineHandlers
    <2>4. v.stack = modestack_clear(st0)
      BY <1>5, <2>2 DEF Flushed
    <2>5. [v EXCEPT !.stack.slot[x] = w] = [v EXCEPT !.stack = st2]
      BY <2>3, <2>4 DEF LineHandlers, Handlers
    <2> HIDE DEF st2
    <2>6. [[v EXCEPT !.stack = st2] EXCEPT !.chan = m] = [v EXCEPT !.stack = st2, !.chan = m]
          /\ [v EXCEPT !.stack = st2].chan = t.chan
      BY <2>3 DEF LineHandlers, Handlers
    <2>7. ~v.lost /\ After(i, v).alive => Merged(After(i, v).m, st2) = Apply(Ahead(i, t), ch)
      BY <1>3, <2>3 DEF F, Ahead
    <2>8. Goes(i, t, [v EXCEPT !.stack = st2, !.chan = m], <<ch>>)
      <3>1. m = Apply(t.chan, ch)
        BY DEF m
      <3> QED BY <1>2, <1>3, <2>3, <2>7, <3>1, StackedGoes DEF F
    <2> DEFINE y == modestack_add_slot(t, ch)
    <2>9. y = [v EXCEPT !.stack = st2]
      BY <1>4, <2>5
    <2>10. y.chan = t.chan
      BY <2>6, <2>9
    <2>11. [y EXCEPT !.chan = Apply(@, ch)] = [y EXCEPT !.chan = m]
      BY <2>10 DEF m
    <2> HIDE DEF y
    <2>12. [y EXCEPT !.chan = m] = [v EXCEPT !.stack = st2, !.chan = m]
      BY <2>6, <2>9
    <2>13. Goes(i, t, [y EXCEPT !.chan = Apply(@, ch)], <<ch>>)
      BY <2>8, <2>10, <2>11, <2>12
    <2> QED BY <2>13 DEF y, ch
  <1>8. CASE ~full
    <2>1. v = u
      BY <1>8
    <2> HIDE DEF v, full
    <2>5. [u EXCEPT !.stack.slot[x] = w] = [u EXCEPT !.stack = st1]
      BY <1>5 DEF LineHandlers, Handlers
    <2> HIDE DEF st1
    <2>6. [[u EXCEPT !.stack = st1] EXCEPT !.chan = m] = [u EXCEPT !.stack = st1, !.chan = m]
          /\ [u EXCEPT !.stack = st1].chan = t.chan
      BY <1>5 DEF LineHandlers, Handlers
    <2>7. Merged(After(i, u).m, st1) = Apply(Ahead(i, t), ch)
      BY <1>3, <1>6 DEF F, Ahead
    <2>8. Goes(i, t, [u EXCEPT !.stack = st1, !.chan = m], <<ch>>)
      <3>1. m = Apply(t.chan, ch)
        BY DEF m
      <3> QED BY <1>2, <1>3, <1>5, <1>6, <2>7, <3>1, StackedGoes DEF F
    <2> DEFINE y == modestack_add_slot(t, ch)
    <2>9. y = [u EXCEPT !.stack = st1]
      BY <1>4, <2>1, <2>5
    <2>10. y.chan = t.chan
      BY <2>6, <2>9
    <2>11. [y EXCEPT !.chan = Apply(@, ch)] = [y EXCEPT !.chan = m]
      BY <2>10 DEF m
    <2> HIDE DEF y
    <2>12. [y EXCEPT !.chan = m] = [u EXCEPT !.stack = st1, !.chan = m]
      BY <2>6, <2>9
    <2>13. Goes(i, t, [y EXCEPT !.chan = Apply(@, ch)], <<ch>>)
      BY <2>8, <2>10, <2>11, <2>12
    <2> QED BY <2>13 DEF y, ch
  <1> QED BY <1>7, <1>8

LEMMA ParamGoes ==
    ASSUME NEW i \in Servers, NEW t \in LineHandlers, NEW ch \in Params
    PROVE  Goes(i, t, [modestack_add_param(t, ch) EXCEPT !.chan = Apply(@, ch)], <<ch>>)
  <1> DEFINE full == \/ paramcount(t.stack) >= MAXMODES
                     \/ ch.kind = "key" /\ \E k \in DOMAIN t.stack.params : t.stack.params[k].kind = "key"
             v == IF full THEN modestack_flush(t) ELSE t
             st == [v.stack EXCEPT !.params = Append(@, ch)]
             m == Apply(v.chan, ch)
  <1>1. Goes(i, t, v, <<>>)
    BY Stays, FlushGoes
  <1>0. t.chan \in ModesOf /\ v.chan = t.chan
    <2>1. t.chan \in ModesOf
      BY DEF LineHandlers, Handlers
    <2> HIDE DEF v
    <2> QED BY <1>1, <2>1, AppliedNone DEF Goes
  <1>2. modestack_add_param(t, ch) = [v EXCEPT !.stack.params = Append(@, ch)]
    BY DEF modestack_add_param
  <1> HIDE DEF v
  <1>3. v \in LineHandlers /\ v.stack \in Stacks /\ v.chan \in ModesOf /\ After(i, v).m \in ModesOf
    BY <1>1, AfterType, ServerType DEF Goes, LineHandlers, Handlers
  <1>4. /\ st \in Stacks /\ st.on = v.stack.on
        /\ Merged(After(i, v).m, st) = Apply(Merged(After(i, v).m, v.stack), ch)
    BY <1>3, ParamMerged
  <1>5. [v EXCEPT !.stack.params = Append(@, ch)] = [v EXCEPT !.stack = st]
    BY <1>3 DEF LineHandlers, Handlers
  <1> HIDE DEF st
  <1>6. m \in ModesOf /\ m.modes = v.chan.modes
    BY <1>3, ParamApplied
  <1>7. Merged(After(i, v).m, st) = Apply(Ahead(i, v), ch) /\ m = Apply(v.chan, ch) /\ ch \in Changes
    BY <1>4 DEF Ahead, Params
  <1> HIDE DEF m
  <1>8. Goes(i, v, [v EXCEPT !.stack = st, !.chan = m], <<ch>>)
    BY <1>3, <1>4, <1>6, <1>7, StackedGoes
  <1>9. Goes(i, t, [v EXCEPT !.stack = st, !.chan = m], <<ch>>)
    <2>1. Goes(i, t, [v EXCEPT !.stack = st, !.chan = m], <<>> \o <<ch>>)
      BY <1>1, <1>8, GoesOn
    <2> QED BY <2>1
  <1>10. [[v EXCEPT !.stack = st] EXCEPT !.chan = m] = [v EXCEPT !.stack = st, !.chan = m]
         /\ [v EXCEPT !.stack = st].chan = t.chan
    BY <1>0, <1>3 DEF LineHandlers, Handlers
  <1> DEFINE y == modestack_add_param(t, ch)
  <1>11. y = [v EXCEPT !.stack = st]
    BY <1>2, <1>5
  <1>12. y.chan = t.chan
    BY <1>10, <1>11
  <1>13. [y EXCEPT !.chan = Apply(@, ch)] = [y EXCEPT !.chan = m]
    BY <1>0, <1>12 DEF m
  <1> HIDE DEF y
  <1>14. [y EXCEPT !.chan = m] = [v EXCEPT !.stack = st, !.chan = m]
    BY <1>10, <1>11
  <1>15. Goes(i, t, [y EXCEPT !.chan = Apply(@, ch)], <<ch>>)
    BY <1>9, <1>12, <1>13, <1>14
  <1> QED BY <1>15 DEF y

LEMMA ChangeGoes ==
    ASSUME NEW i \in Servers, NEW s \in LineHandlers, NEW ch \in Changes
    PROVE  Goes(i, s, ModeChange(s, ch), <<ch>>)
  <1> DEFINE source == IF s.bot THEN "bot" ELSE "chanserv"
             t == modestack_init(s, source)
  <1>1. Goes(i, s, t, <<>>)
    <2>1. source \in {"chanserv", "bot"}
      OBVIOUS
    <2> HIDE DEF source
    <2> QED BY <2>1, InitGoes
  <1>a. ASSUME NEW u, Goes(i, t, u, <<ch>>) PROVE Goes(i, s, u, <<ch>>)
    <2> HIDE DEF t
    <2>1. Goes(i, s, u, <<>> \o <<ch>>)
      BY <1>1, <1>a, GoesOn
    <2> QED BY <2>1
  <1>2. ModeChange(s, ch) =
           [(IF ch.kind = "simple"
             THEN IF ch.on \union ch.off = {} THEN s
                  ELSE [t EXCEPT !.stack = modestack_add_simple(@, ch)]
             ELSE IF ch.kind = "slot" THEN modestack_add_slot(t, ch)
             ELSE modestack_add_param(t, ch)) EXCEPT !.chan = Apply(@, ch)]
    BY DEF ModeChange
  <1> HIDE DEF t
  <1>3. t \in LineHandlers
    BY <1>1 DEF Goes
  <1>4. CASE ch.kind = "simple"
    <2>1. ch = Simple(ch.on, ch.off) /\ ch.on \in SUBSET SimpleModes /\ ch.off \in SUBSET SimpleModes
      BY <1>4, ChangeKinds DEF Params
    <2>2. CASE ch.on \union ch.off = {}
      <3>1. ModeChange(s, ch) = [s EXCEPT !.chan = Apply(@, ch)]
        BY <1>2, <1>4, <2>2
      <3>2. s.chan \in ModesOf /\ s \in Handlers
        BY DEF LineHandlers, Handlers
      <3>3. Apply(s.chan, ch) = s.chan
        <4> DEFINE p == s.chan
        <4>1. p \in ModesOf /\ ch.on = {} /\ ch.off = {}
          BY <2>2, <3>2
        <4> HIDE DEF p
        <4>2. Apply(p, Simple({}, {})) = [p EXCEPT !.modes = (@ \ {}) \union {}]
          BY <4>1, SimpleApplied
        <4>3. [p EXCEPT !.modes = (@ \ {}) \union {}] = p
          BY <4>1 DEF ModesOf
        <4>4. ch = Simple({}, {})
          BY <2>1, <4>1
        <4> QED BY <4>2, <4>3, <4>4 DEF p
      <3>4. [s EXCEPT !.chan = Apply(@, ch)] = s
        BY <3>2, <3>3 DEF Handlers
      <3>5. Goes(i, s, s, <<ch>>)
        <4> DEFINE W == Ahead(i, s)
        <4>1. W \in ModesOf
          BY <3>2, AheadType
        <4> HIDE DEF W
        <4>2. Apply(W, ch) = W
          <5>1. Apply(W, Simple({}, {})) = [W EXCEPT !.modes = (@ \ {}) \union {}]
            BY <4>1, SimpleApplied
          <5>2. [W EXCEPT !.modes = (@ \ {}) \union {}] = W
            BY <4>1 DEF ModesOf
          <5> QED BY <2>1, <2>2, <5>1, <5>2
        <4>3. <<ch>> \in Seq(Changes) /\ Applied(W, <<ch>>) = W /\ Applied(s.chan, <<ch>>) = s.chan
          BY <3>2, <3>3, <4>1, <4>2, AppliedOne
        <4> QED BY <4>3 DEF Goes, W
      <3> QED BY <3>1, <3>4, <3>5
    <2>3. CASE ch.on \union ch.off # {}
      <3>1. ModeChange(s, ch)
            = [[t EXCEPT !.stack = modestack_add_simple(@, ch)] EXCEPT !.chan = Apply(@, ch)]
        BY <1>2, <1>4, <2>3
      <3> DEFINE on == ch.on
                 off == ch.off
      <3>2. on \in SUBSET SimpleModes /\ off \in SUBSET SimpleModes /\ ch = Simple(on, off)
        BY <2>1
      <3> HIDE DEF on, off
      <3>3. Goes(i, t, [[t EXCEPT !.stack = modestack_add_simple(@, Simple(on, off))]
                           EXCEPT !.chan = Apply(@, Simple(on, off))], <<Simple(on, off)>>)
        BY Zenon, <1>3, <3>2, SimpleGoes
      <3>4. Goes(i, t, ModeChange(s, ch), <<ch>>)
        BY <3>1, <3>2, <3>3
      <3> QED BY <1>a, <3>4
    <2> QED BY <2>2, <2>3
  <1>5. CASE ch.kind = "slot"
    <2>1. ch = Slot(ch.slot, ch.val) /\ ch.slot \in Slots /\ ch.val \in {None} \union Values
      BY <1>5, ChangeKinds DEF Params
    <2>2. ModeChange(s, ch) = [modestack_add_slot(t, ch) EXCEPT !.chan = Apply(@, ch)]
      BY <1>2, <1>5
    <2> DEFINE x == ch.slot
               w == ch.val
    <2>3. x \in Slots /\ w \in {None} \union Values /\ ch = Slot(x, w)
      BY <2>1
    <2> HIDE DEF x, w
    <2>4. Goes(i, t, [modestack_add_slot(t, Slot(x, w)) EXCEPT !.chan = Apply(@, Slot(x, w))], <<Slot(x, w)>>)
      BY <1>3, <2>3, SlotGoes
    <2>5. Goes(i, t, ModeChange(s, ch), <<ch>>)
      BY <2>2, <2>3, <2>4
    <2> QED BY <1>a, <2>5
  <1>6. CASE ch.kind # "simple" /\ ch.kind # "slot"
    <2>1. ch \in Params
      BY <1>6, ChangeKinds
    <2>2. ModeChange(s, ch) = [modestack_add_param(t, ch) EXCEPT !.chan = Apply(@, ch)]
      BY <1>2, <1>6
    <2>3. Goes(i, t, ModeChange(s, ch), <<ch>>)
      BY <1>3, <2>1, <2>2, ParamGoes
    <2> QED BY <1>a, <2>3
  <1> QED BY <1>4, <1>5, <1>6

\* A list up to a place in it.
LEMMA FirstOf ==
    ASSUME NEW S, NEW s \in Seq(S), NEW k \in Nat, k + 1 <= Len(s)
    PROVE  /\ SubSeq(s, 1, k) \in Seq(S) /\ s[k + 1] \in S
           /\ SubSeq(s, 1, k + 1) = SubSeq(s, 1, k) \o <<s[k + 1]>>
  OBVIOUS

LEMMA ChangesGo ==
    ASSUME NEW i \in Servers, NEW s \in LineHandlers, NEW order \in Seq(Changes)
    PROVE  Goes(i, s, FoldLeft(ModeChange, s, order), order)
  <1> DEFINE n == Len(order)
  <1>1. ChangeTypes(LineHandlers, Changes)
    <2>1. ASSUME NEW t \in LineHandlers, NEW ch \in Changes PROVE ModeChange(t, ch) \in LineHandlers
      BY ChangeGoes DEF Goes
    <2> QED BY <2>1 DEF ChangeTypes
  <1>3. n \in Nat /\ DOMAIN order = 1 .. n /\ \A k \in 1 .. n : order[k] \in Changes
    OBVIOUS
  <1>3a. SubSeq(order, 1, 0) = <<>> /\ SubSeq(order, 1, n) = order
    OBVIOUS
  <1> HIDE DEF n
  <1>4. PICK f : /\ f[0] = s /\ \A k \in 1 .. n : f[k] = ModeChange(f[k - 1], order[k])
                 /\ FoldLeft(ModeChange, s, order) = f[n]
    <2>1. ChangeLoop(s, n, order)
      BY <1>1, <1>3, ChangePath DEF Holds
    <2> QED BY <2>1 DEF ChangeLoop
  <1> DEFINE S == {k \in Nat : k <= n => Goes(i, s, f[k], SubSeq(order, 1, k))}
  <1>5. 0 \in S
    <2>1. Goes(i, s, f[0], SubSeq(order, 1, 0))
      BY <1>3a, <1>4, Stays
    <2> QED BY <2>1
  <1>6. ASSUME NEW k \in Nat, k \in S PROVE k + 1 \in S
    <2> SUFFICES ASSUME k + 1 <= n PROVE Goes(i, s, f[k + 1], SubSeq(order, 1, k + 1))
      OBVIOUS
    <2>1. Goes(i, s, f[k], SubSeq(order, 1, k)) /\ k + 1 \in 1 .. n /\ (k + 1) - 1 = k
      BY <1>3, <1>6
    <2> DEFINE ch == order[k + 1]
               p == SubSeq(order, 1, k)
    <2>2. f[k + 1] = ModeChange(f[k], ch) /\ ch \in Changes
      BY <1>3, <1>4, <2>1
    <2>3. SubSeq(order, 1, k + 1) = p \o <<ch>>
      BY FirstOf DEF n
    <2> HIDE DEF ch, p
    <2>4. Goes(i, s, f[k], p) /\ f[k] \in LineHandlers
      BY <2>1 DEF Goes, p
    <2>5. Goes(i, f[k], ModeChange(f[k], ch), <<ch>>)
      BY <2>2, <2>4, ChangeGoes
    <2>6. Goes(i, s, ModeChange(f[k], ch), p \o <<ch>>)
      BY <2>4, <2>5, GoesOn
    <2> QED BY <2>2, <2>3, <2>6
  <1> HIDE DEF S
  <1>7. Goes(i, s, f[n], order)
    <2>1. Nat \subseteq S
      BY <1>5, <1>6, NatInductionSet
    <2>2. Goes(i, s, f[n], SubSeq(order, 1, n))
      BY <1>3, <2>1 DEF S
    <2> QED BY <1>3a, <2>2
  <1> QED BY <1>4, <1>7

LockType(lock) ==
    /\ lock.on \subseteq SimpleModes /\ lock.off \subseteq SimpleModes \ lock.on
    /\ \A x \in Slots : lock.slot[x] \in {None, Off} \union Values
    /\ lock.key \in {None, Off} \union Keys

\* The slots and the key a lock changes, and what to.
Wrong(m, lock) == SlotsToSet(m, lock) \union SlotsToClear(m, lock)
Right(v) == IF v = Off THEN None ELSE v
LockSlots(m, lock) == [x \in Slots |-> IF x \in Wrong(m, lock) THEN Right(lock.slot[x]) ELSE Off]

\* What the changes of a lock to the key make of the modes p.
KeysDone(p, m, lock) ==
    LET s == KeyChanges(m, lock)
    IN  /\ s \in Seq(Changes) /\ Applied(p, s) \in ModesOf
        /\ Applied(p, s).modes = p.modes /\ Applied(p, s).slot = p.slot
        /\ s = <<>> <=> lock.key = None \/ m.key = Right(lock.key)
        /\ Applied(p, s).key = IF s = <<>> THEN p.key ELSE Right(lock.key)

LEMMA KeysApplied ==
    ASSUME NEW p \in ModesOf, NEW m \in ModesOf, NEW lock, LockType(lock)
    PROVE  KeysDone(p, m, lock)
  <1> DEFINE s == KeyChanges(m, lock)
  <1>1. \A v \in {None} \union Keys : Key(v) \in Params /\ Key(v).kind = "key" /\ Key(v).val = v
    BY DEF Key, Changes, Params
  <1>2. \A q \in ModesOf, v \in {None} \union Keys :
           LET r == Apply(q, Key(v))
           IN  r \in ModesOf /\ r.modes = q.modes /\ r.slot = q.slot /\ r.list = q.list /\ r.key = v
    <2> SUFFICES ASSUME NEW q \in ModesOf, NEW v \in {None} \union Keys
                 PROVE  LET r == Apply(q, Key(v))
                        IN  r \in ModesOf /\ r.modes = q.modes /\ r.slot = q.slot /\ r.list = q.list /\ r.key = v
      OBVIOUS
    <2> DEFINE ch == Key(v)
    <2>1. ch \in Params /\ ch.kind = "key" /\ ch.val = v
      BY <1>1
    <2> HIDE DEF ch
    <2>2. LET r == Apply(q, ch)
          IN  r \in ModesOf /\ r.modes = q.modes /\ r.slot = q.slot /\ r.list = q.list /\ r.key = v
      BY <2>1, ParamApplied
    <2> QED BY <2>2 DEF ch
  <1>3. \A q \in ModesOf, v \in {None} \union Keys :
           <<Key(v)>> \in Seq(Changes) /\ Applied(q, <<Key(v)>>) = Apply(q, Key(v))
    <2>1. \A v \in {None} \union Keys : Key(v) \in Changes
      BY <1>1 DEF Params
    <2> QED BY <2>1, AppliedOne
  <1>4. CASE lock.key = None \/ m.key = lock.key
    <2>1. ~(lock.key \in Keys \ {m.key}) /\ lock.key # Off
      BY <1>4, ModesAssumption DEF ModesOf
    <2>2. s = <<>> /\ Right(lock.key) = lock.key
      BY <1>4, <2>1 DEF KeyChanges, Right
    <2> HIDE DEF KeysDone, s
    <2>3. <<>> \in Seq(Changes) /\ Applied(p, s) = p
      BY <2>2, AppliedNone
    <2> QED BY <1>4, <2>2, <2>3 DEF KeysDone, s
  <1>5. CASE ~(lock.key = None \/ m.key = lock.key) /\ lock.key = Off
    <2>1. ~(lock.key \in Keys \ {m.key}) /\ Right(lock.key) = None /\ lock.key # None
      BY <1>5, ModesAssumption DEF Right
    <2>2. s = IF m.key = None THEN <<>> ELSE <<Key(None)>>
      BY <1>5, <2>1 DEF KeyChanges
    <2> HIDE DEF KeysDone, s
    <2>3. CASE m.key = None
      <3>1. s = <<>>
        BY <2>2, <2>3
      <3>2. <<>> \in Seq(Changes) /\ Applied(p, s) = p
        BY <3>1, AppliedNone
      <3> QED BY <2>1, <2>3, <3>1, <3>2 DEF KeysDone, s
    <2>4. CASE m.key # None
      <3>1. s = <<Key(None)>> /\ s # <<>>
        BY <2>2, <2>4
      <3>2. Applied(p, s) = Apply(p, Key(None)) /\ s \in Seq(Changes)
        BY <1>3, <3>1
      <3>3. LET r == Apply(p, Key(None))
            IN  r \in ModesOf /\ r.modes = p.modes /\ r.slot = p.slot /\ r.list = p.list /\ r.key = None
        BY <1>2
      <3> QED BY <2>1, <2>4, <3>1, <3>2, <3>3 DEF KeysDone, s
    <2> QED BY <2>3, <2>4
  <1>6. CASE ~(lock.key = None \/ m.key = lock.key) /\ lock.key # Off
    <2>1. lock.key \in Keys \ {m.key} /\ Right(lock.key) = lock.key /\ lock.key # None
      BY <1>6 DEF LockType, Right
    <2>2. s = IF m.key = None THEN <<Key(lock.key)>> ELSE <<Key(None), Key(lock.key)>>
      BY <1>6, <2>1 DEF KeyChanges
    <2> HIDE DEF KeysDone, s
    <2> DEFINE v == lock.key
    <2>3. v \in {None} \union Keys
      BY <2>1
    <2>a. s = IF m.key = None THEN <<Key(v)>> ELSE <<Key(None), Key(v)>>
      BY <2>2
    <2> HIDE DEF v
    <2>4. CASE m.key = None
      <3>1. s = <<Key(v)>> /\ s # <<>>
        BY <2>a, <2>4
      <3>2. Applied(p, s) = Apply(p, Key(v)) /\ s \in Seq(Changes)
        BY <1>3, <2>3, <3>1
      <3>3. LET r == Apply(p, Key(v))
            IN  r \in ModesOf /\ r.modes = p.modes /\ r.slot = p.slot /\ r.list = p.list /\ r.key = v
        BY <1>2, <2>3
      <3> QED BY <1>6, <2>1, <3>1, <3>2, <3>3 DEF KeysDone, v, s
    <2>5. CASE m.key # None
      <3>1. s = <<Key(None)>> \o <<Key(v)>> /\ s # <<>>
        BY <2>a, <2>5
      <3> DEFINE q == Apply(p, Key(None))
      <3>2. q \in ModesOf /\ q.modes = p.modes /\ q.slot = p.slot /\ q.list = p.list
            /\ Applied(p, <<Key(None)>>) = q
        BY <1>2, <1>3
      <3> HIDE DEF q
      <3>3. LET r == Apply(q, Key(v))
            IN  r \in ModesOf /\ r.modes = q.modes /\ r.slot = q.slot /\ r.list = q.list /\ r.key = v
        BY <1>2, <2>3, <3>2
      <3>4. s \in Seq(Changes) /\ Applied(p, s) = Apply(q, Key(v))
        <4> DEFINE k1 == <<Key(None)>>
                   k2 == <<Key(v)>>
        <4>1. k1 \in Seq(Changes) /\ k2 \in Seq(Changes) /\ s = k1 \o k2 /\ Applied(p, k1) = q
          BY <1>3, <2>3, <3>1, <3>2
        <4>2. Applied(q, k2) = Apply(q, Key(v))
          BY <1>3, <2>3, <3>2
        <4> HIDE DEF k1, k2
        <4>3. k1 \o k2 \in Seq(Changes) /\ Applied(p, k1 \o k2) = Applied(Applied(p, k1), k2)
          BY <4>1, AppliedAll
        <4> QED BY <4>1, <4>2, <4>3
      <3> QED BY <1>6, <2>1, <3>1, <3>2, <3>3, <3>4 DEF KeysDone, v, s
    <2> QED BY <2>4, <2>5
  <1> QED BY <1>4, <1>5, <1>6

\* What one change to simple modes makes of the modes q.
SimpleDone(q, u, w) ==
    LET t == <<Simple(u, w)>>
    IN  /\ t \in Seq(Changes) /\ Applied(q, t) \in ModesOf
        /\ Applied(q, t).modes = (q.modes \ w) \union u /\ Applied(q, t).slot = q.slot
        /\ Applied(q, t).key = q.key

LEMMA OneSimple ==
    ASSUME NEW q \in ModesOf, NEW u \in SUBSET SimpleModes, NEW w \in SUBSET SimpleModes
    PROVE  SimpleDone(q, u, w)
  <1> DEFINE ch == Simple(u, w)
  <1>1. ch \in Changes /\ Apply(q, ch) \in ModesOf
        /\ Apply(q, ch) = [q EXCEPT !.modes = (@ \ w) \union u]
    BY SimpleApplied
  <1> HIDE DEF ch
  <1>2. <<ch>> \in Seq(Changes) /\ Applied(q, <<ch>>) = Apply(q, ch)
    BY <1>1, AppliedOne
  <1>3. /\ Apply(q, ch).modes = (q.modes \ w) \union u /\ Apply(q, ch).slot = q.slot
        /\ Apply(q, ch).key = q.key
    BY <1>1 DEF ModesOf
  <1> QED BY <1>1, <1>2, <1>3 DEF SimpleDone, ch

\* What check_modes makes of the modes p, having seen the modes m.
LockDone(p, m, lock) ==
    LET s == LockChanges(m, lock)
        r == Applied(p, s)
    IN  /\ s \in Seq(Changes) /\ r \in ModesOf
        /\ r.modes = (p.modes \union (lock.on \ m.modes)) \ (lock.off \intersect m.modes)
        /\ r.slot = WithSlots(p.slot, LockSlots(m, lock))
        /\ r.key = IF lock.key = None \/ m.key = Right(lock.key) THEN p.key ELSE Right(lock.key)

LEMMA LockApplied ==
    ASSUME NEW p \in ModesOf, NEW m \in ModesOf, NEW lock, LockType(lock)
    PROVE  LockDone(p, m, lock)
  <1> DEFINE on == lock.on \ m.modes
             off == lock.off \intersect m.modes
             a == <<Simple(on, {})>>
             b == KeyChanges(m, lock)
             c == <<Simple({}, off)>>
             sl == LockSlots(m, lock)
             slots == SetToSeq({x \in Slots : sl[x] # Off})
             d == [k \in DOMAIN slots |-> Slot(slots[k], sl[slots[k]])]
             p1 == Applied(p, a)
             p2 == Applied(p1, b)
             p3 == Applied(p2, c)
             p4 == Applied(p3, d)
  <1>1. on \in SUBSET SimpleModes /\ off \in SUBSET SimpleModes
    BY DEF LockType
  <1> HIDE DEF on, off
  <1>3. /\ a \in Seq(Changes) /\ p1 \in ModesOf /\ p1.modes = p.modes \union on /\ p1.slot = p.slot
        /\ p1.key = p.key
    <2>1. {} \in SUBSET SimpleModes
      OBVIOUS
    <2>2. SimpleDone(p, on, {})
      BY <1>1, <2>1, OneSimple
    <2> QED BY <2>2 DEF SimpleDone
  <1> HIDE DEF a, p1
  <1>4. /\ b \in Seq(Changes) /\ p2 \in ModesOf /\ p2.modes = p1.modes /\ p2.slot = p1.slot
        /\ p2.key = IF lock.key = None \/ m.key = Right(lock.key) THEN p1.key ELSE Right(lock.key)
    <2>1. KeysDone(p1, m, lock)
      BY <1>3, KeysApplied
    <2> QED BY <1>3, <2>1 DEF KeysDone
  <1> HIDE DEF b, p2
  <1>5. /\ c \in Seq(Changes) /\ p3 \in ModesOf /\ p3.modes = p2.modes \ off /\ p3.slot = p2.slot
        /\ p3.key = p2.key
    <2>1. {} \in SUBSET SimpleModes
      OBVIOUS
    <2>2. SimpleDone(p2, {}, off)
      BY <1>1, <1>4, <2>1, OneSimple
    <2> QED BY <2>2 DEF SimpleDone
  <1> HIDE DEF c, p3
  <1>6. sl \in [Slots -> {None, Off} \union Values]
        /\ \A x \in Slots : sl[x] # Off <=> x \in Wrong(m, lock)
    <2>1. \A x \in Wrong(m, lock) : Right(lock.slot[x]) \in {None} \union Values
      BY DEF Wrong, Right, SlotsToSet, SlotsToClear
    <2>2. \A v \in {None} \union Values : v # Off
      BY ModesAssumption
    <2> QED BY <2>1, <2>2 DEF LockSlots
  <1>7. d \in Seq(Changes) /\ p4 = [p3 EXCEPT !.slot = WithSlots(@, sl)] /\ p4 \in ModesOf
    <2> HIDE DEF sl
    <2> QED BY <1>5, <1>6, SlotsApplied
  <1>8. LockChanges(m, lock) = ((a \o b) \o c) \o d
    <2> DEFINE I == Wrong(m, lock)
               order == SetToSeq(I)
               e == [k \in DOMAIN order |->
                       Slot(order[k], IF lock.slot[order[k]] = Off THEN None ELSE lock.slot[order[k]])]
    <2>1. LockChanges(m, lock) = ((a \o b) \o c) \o e
      BY Zenon DEF LockChanges, Wrong, a, b, c, on, off
    <2>2. {x \in Slots : sl[x] # Off} = I /\ I \subseteq Slots
      <3>1. I \subseteq Slots
        BY DEF Wrong, SlotsToSet, SlotsToClear
      <3> HIDE DEF sl, I
      <3> QED BY <1>6, <3>1 DEF I
    <2>3. slots = order
      BY <2>2
    <2>4. IsFiniteSet(I)
      BY <2>2, FS_Subset, ModesAssumption
    <2>5. \A x \in I : sl[x] = IF lock.slot[x] = Off THEN None ELSE lock.slot[x]
      BY <2>2 DEF LockSlots, Right
    <2> HIDE DEF I, sl
    <2>6. PICK n \in Nat : DOMAIN order = 1 .. n /\ \A k \in 1 .. n : order[k] \in I
      BY <2>4, SetToSeqIs
    <2> HIDE DEF order, slots
    <2>7. \A k \in DOMAIN order : order[k] \in I
      BY <2>6
    <2>8. \A k \in DOMAIN order :
             sl[order[k]] = IF lock.slot[order[k]] = Off THEN None ELSE lock.slot[order[k]]
      BY <2>5, <2>7
    <2>9. d = e
      BY <2>3, <2>8
    <2> QED BY <2>1, <2>9
  <1> HIDE DEF d, p4, sl
  <1>9. /\ ((a \o b) \o c) \o d \in Seq(Changes)
        /\ Applied(p, ((a \o b) \o c) \o d) = p4
    <2>1. a \o b \in Seq(Changes) /\ Applied(p, a \o b) = p2
      BY <1>3, <1>4, AppliedAll DEF p1, p2
    <2> DEFINE ab == a \o b
    <2> HIDE DEF ab
    <2>2. ab \o c \in Seq(Changes) /\ Applied(p, ab \o c) = p3
      <3>1. ab \in Seq(Changes) /\ Applied(p, ab) = p2
        BY <2>1 DEF ab
      <3> QED BY <3>1, <1>5, AppliedAll DEF p3
    <2> DEFINE abc == ab \o c
    <2> HIDE DEF abc
    <2>3. abc \o d \in Seq(Changes) /\ Applied(p, abc \o d) = p4
      <3>1. abc \in Seq(Changes) /\ Applied(p, abc) = p3
        BY <2>2 DEF abc
      <3> QED BY <3>1, <1>7, AppliedAll DEF p4
    <2> QED BY <2>3 DEF ab, abc
  <1>10. p4.modes = p3.modes /\ p4.slot = WithSlots(p3.slot, sl) /\ p4.key = p3.key
    BY <1>5, <1>7 DEF ModesOf
  <1>11. p4.modes = (p.modes \union (lock.on \ m.modes)) \ (lock.off \intersect m.modes)
    BY <1>3, <1>4, <1>5, <1>10 DEF on, off
  <1>12. p4.slot = WithSlots(p.slot, LockSlots(m, lock))
    BY <1>3, <1>4, <1>5, <1>10 DEF sl
  <1>13. p4.key = IF lock.key = None \/ m.key = Right(lock.key) THEN p.key ELSE Right(lock.key)
    BY <1>3, <1>4, <1>5, <1>10
  <1> QED BY <1>7, <1>8, <1>9, <1>11, <1>12, <1>13 DEF LockDone

LEMMA CheckGoes ==
    ASSUME NEW i \in Servers, NEW s \in LineHandlers, NEW lock, LockType(lock)
    PROVE  Goes(i, s, check_modes(s, lock), LockChanges(s.chan, lock))
  <1> DEFINE q == LockChanges(s.chan, lock)
  <1>1. s.chan \in ModesOf
    BY DEF LineHandlers, Handlers
  <1>2. q \in Seq(Changes)
    BY <1>1, LockApplied DEF LockDone
  <1>3. check_modes(s, lock) = FoldLeft(ModeChange, s, q)
    BY Zenon DEF check_modes
  <1> HIDE DEF q
  <1>4. Goes(i, s, check_modes(s, lock), q)
    BY <1>2, <1>3, ChangesGo
  <1> QED BY <1>4 DEF q

-----------------------------------------------------------------------------
(* What messages leave alone, and the end of a channel. *)

LEMMA SentUsers ==
    ASSUME NEW i \in Servers, NEW s \in Seq(Msgs)
    PROVE  Sent(i, s).users = i.users
  <1> DEFINE S == {k \in Nat : \A t \in Seq(Msgs) : Len(t) = k => Sent(i, t).users = i.users}
  <1>1. 0 \in S
    <2>1. \A t \in Seq(Msgs) : Len(t) = 0 => t = <<>>
      OBVIOUS
    <2> QED BY <2>1, SentNone
  <1>2. ASSUME NEW k \in Nat, k \in S PROVE k + 1 \in S
    <2> SUFFICES ASSUME NEW t \in Seq(Msgs), Len(t) = k + 1 PROVE Sent(i, t).users = i.users
      OBVIOUS
    <2> DEFINE u == SubSeq(t, 1, k)
               msg == t[k + 1]
    <2>1. u \in Seq(Msgs) /\ Len(u) = k /\ msg \in Msgs /\ t = Append(u, msg)
      BY LastOf
    <2>2. Sent(i, u).users = i.users
      BY <1>2, <2>1
    <2> HIDE DEF u, msg
    <2>3. Sent(i, t) = Receive(Sent(i, u), msg) /\ Sent(i, u) \in Servers
      BY <2>1, SentNext
    <2> QED BY <2>1, <2>2, <2>3, ReceiveType
  <1> HIDE DEF S
  <1>3. Nat \subseteq S
    BY <1>1, <1>2, NatInductionSet
  <1>4. Len(s) \in Nat
    OBVIOUS
  <1>5. Len(s) \in S
    BY <1>3, <1>4
  <1> QED BY <1>5 DEF S

\* The server j is the server i once its users have left.
Left(i, j) == i.users /\ ~j.users /\ j.svc = i.svc /\ (j.alive => j.m = i.m)

LEMMA LeftReceived ==
    ASSUME NEW i \in Servers, NEW j \in Servers, NEW msg \in Lines, Left(i, j)
    PROVE  Left(Receive(i, msg), Receive(j, msg))
  <1>0. i.users /\ ~j.users /\ j.svc = i.svc /\ (j.alive => j.m = i.m) /\ i.alive
    BY ServerType DEF Left
  <1>1. ASSUME NEW s \in Seq(Changes), msg = [modes |-> s]
        PROVE  Left(Receive(i, msg), Receive(j, msg))
    <2> DEFINE p == Receive(i, [modes |-> s])
               q == Receive(j, [modes |-> s])
    <2>1. p.users = i.users /\ p.svc = i.svc /\ (i.alive => p.m = Applied(i.m, s))
      BY ModesReceived
    <2>2. q.users = j.users /\ q.svc = j.svc /\ (j.alive => q.m = Applied(j.m, s)) /\ (~j.alive => q = j)
      BY ModesReceived
    <2> HIDE DEF p, q
    <2>3. Left(p, q)
      BY <1>0, <2>1, <2>2 DEF Left
    <2> QED BY <1>1, <2>3 DEF p, q
  <1>2. ASSUME msg = [leave |-> TRUE] PROVE Left(Receive(i, msg), Receive(j, msg))
    <2> DEFINE p == Receive(i, [leave |-> TRUE])
               q == Receive(j, [leave |-> TRUE])
    <2>1. p \in Servers /\ p.users = i.users /\ ~p.svc /\ p.m = i.m
      BY LeaveReceived
    <2>2. q \in Servers /\ q.users = j.users /\ ~q.svc /\ q.m = j.m
      BY LeaveReceived
    <2> HIDE DEF p, q
    <2>3. p.svc = FALSE /\ q.svc = FALSE
      BY <2>1, <2>2, ServerType
    <2>4. q.alive => q.m.modes \intersect PermModes # {}
      BY <1>0, <2>2, ServerType
    <2>5. q.alive => j.alive
      BY <2>2, <2>4, ServerType
    <2>6. Left(p, q)
      BY <1>0, <2>1, <2>2, <2>3, <2>5 DEF Left
    <2> QED BY <1>2, <2>6 DEF p, q
  <1>3. CASE \E s \in Seq(Changes) : msg = [modes |-> s]
    <2>1. PICK s \in Seq(Changes) : msg = [modes |-> s]
      BY <1>3
    <2> QED BY <1>1, <2>1
  <1> QED BY <1>2, <1>3, LineKinds

LEMMA LeftSent ==
    ASSUME NEW i \in Servers, NEW j \in Servers, NEW s \in Seq(Lines), Left(i, j)
    PROVE  Left(Sent(i, s), Sent(j, s))
  <1> DEFINE Q(t) == Left(Sent(i, t), Sent(j, t))
             S == {k \in Nat : \A t \in Seq(Lines) : Len(t) = k => Q(t)}
  <1>1. 0 \in S
    <2>1. \A t \in Seq(Lines) : Len(t) = 0 => t = <<>>
      OBVIOUS
    <2>2. Q(<<>>)
      BY SentNone
    <2> HIDE DEF Q
    <2> QED BY <2>1, <2>2
  <1>2. ASSUME NEW k \in Nat, k \in S PROVE k + 1 \in S
    <2> SUFFICES ASSUME NEW t \in Seq(Lines), Len(t) = k + 1 PROVE Q(t)
      OBVIOUS
    <2> DEFINE u == SubSeq(t, 1, k)
               msg == t[k + 1]
    <2>1. u \in Seq(Lines) /\ Len(u) = k /\ msg \in Lines /\ t = Append(u, msg)
      BY LastOf
    <2>2. Q(u)
      BY <1>2, <2>1
    <2> HIDE DEF u, msg
    <2>3. u \in Seq(Msgs) /\ msg \in Msgs
      BY <2>1 DEF Msgs
    <2>4. Sent(i, t) = Receive(Sent(i, u), msg) /\ Sent(i, u) \in Servers
          /\ Sent(j, t) = Receive(Sent(j, u), msg) /\ Sent(j, u) \in Servers
      BY <2>1, <2>3, SentNext
    <2> DEFINE p == Sent(i, u)
               q == Sent(j, u)
    <2>5. p \in Servers /\ q \in Servers /\ Left(p, q)
      BY <2>2, <2>4
    <2> HIDE DEF p, q
    <2>6. Left(Receive(p, msg), Receive(q, msg))
      BY <2>1, <2>5, LeftReceived
    <2> QED BY <2>4, <2>6 DEF p, q
  <1> HIDE DEF S, Q
  <1>3. Nat \subseteq S
    BY <1>1, <1>2, NatInductionSet
  <1>4. Len(s) \in Nat
    OBVIOUS
  <1>5. Len(s) \in S
    BY <1>3, <1>4
  <1> QED BY <1>5 DEF S, Q

\* A channel without users, services or a permanent mode is let go of.
Ends(i, s, t) ==
    /\ t \in Handlers /\ t.bot = s.bot /\ (s.lost => t.lost) /\ Empty(t.stack)
    /\ ~After(i, s).svc => ~After(i, t).svc
    /\ Fine(i, s) /\ ~After(i, s).svc /\ ~i.users /\ s.chan.modes \intersect PermModes = {} =>
          (~t.lost => ~After(i, t).alive)

LEMMA FinalizeEnds ==
    ASSUME NEW i \in Servers, NEW s \in Handlers
    PROVE  Ends(i, s, modestack_finalize_channel(s))
  <1> DEFINE t == modestack_finalize_channel(s)
             F == After(i, s)
  <1>0. s.stack \in Stacks /\ s.chan \in ModesOf /\ s.out \in Seq(Msgs)
    BY DEF Handlers
  <1>1. F \in Servers /\ F.users = i.users /\ F.m \in ModesOf
    BY <1>0, AfterType, SentUsers, ServerType DEF After
  <1> HIDE DEF F
  <1> DEFINE Dying == Fine(i, s) /\ ~F.svc /\ ~i.users /\ s.chan.modes \intersect PermModes = {}
  <1>2. CASE s.stack.off \intersect PermModes = {}
    <2> DEFINE c == modestack_clear(s.stack)
    <2>1. t = [s EXCEPT !.stack = c]
      BY <1>2 DEF modestack_finalize_channel
    <2>2. c \in Stacks /\ Empty(c)
      BY <1>0, Cleared
    <2> HIDE DEF c, t
    <2>3. t \in Handlers /\ t.stack = c /\ t.out = s.out /\ t.lost = s.lost /\ t.bot = s.bot
      BY <2>1, <2>2 DEF Handlers
    <2>4. After(i, t) = F
      BY <2>3 DEF After, F
    <2>5. ASSUME Dying, ~t.lost, F.alive PROVE FALSE
      <3>1. F.m.modes \intersect PermModes # {}
        BY <2>5, <1>1, ServerType
      <3>2. Merged(F.m, s.stack) = s.chan
        BY <2>3, <2>5 DEF Fine, F
      <3>3. s.chan.modes = (F.m.modes \ s.stack.off) \union s.stack.on
        BY <3>2 DEF Merged
      <3> QED BY <3>1, <3>3, <1>2, <2>5
    <2>6. Ends(i, s, t)
      BY <2>2, <2>3, <2>4, <2>5 DEF Ends, F
    <2> QED BY <2>6 DEF t
  <1>3. CASE s.stack.off \intersect PermModes # {}
    <2> DEFINE join == [join |-> s.chan]
               s1 == [s EXCEPT !.out = Append(@, join)]
               t1 == modestack_flush(s1)
               leave == [leave |-> TRUE]
               F1 == Receive(F, join)
               G == After(i, t1)
               H == Receive(G, leave)
    <2>1. t = [t1 EXCEPT !.out = Append(@, leave)]
      BY <1>3 DEF modestack_finalize_channel
    <2>2. /\ join \in Msgs /\ F1 \in Servers /\ F1.users = F.users /\ F1.svc /\ F1.alive
          /\ F1.m.modes = IF F.alive THEN F.m.modes \union s.chan.modes ELSE s.chan.modes
      <3> DEFINE p == s.chan
      <3>1. p \in ModesOf
        BY <1>0
      <3> HIDE DEF p
      <3>2. /\ [join |-> p] \in Msgs /\ Receive(F, [join |-> p]) \in Servers
            /\ Receive(F, [join |-> p]).users = F.users
            /\ Receive(F, [join |-> p]).svc /\ Receive(F, [join |-> p]).alive
            /\ Receive(F, [join |-> p]).m.modes
                  = IF F.alive THEN F.m.modes \union p.modes ELSE p.modes
        BY <1>1, <3>1, JoinReceived
      <3> QED BY <3>2 DEF p
    <2> HIDE DEF t, join, F1, leave
    <2>3. /\ s1 \in Handlers /\ s1.stack = s.stack /\ s1.bot = s.bot /\ s1.lost = s.lost
          /\ s1.out = Append(s.out, join)
      <3>1. Append(s.out, join) \in Seq(Msgs)
        BY <1>0, <2>2
      <3> QED BY <3>1 DEF Handlers
    <2> HIDE DEF s1
    <2>4. After(i, s1) = F1
      BY <1>0, <2>2, <2>3, SentLine DEF After, F, F1
    <2>5. Flushed(i, s1, t1)
      BY <2>3, FlushSends
    <2> HIDE DEF t1
    <2>6. /\ t1 \in Handlers /\ t1.bot = s.bot /\ (s.lost => t1.lost) /\ t1.stack = modestack_clear(s.stack)
          /\ G.users = i.users
          /\ ~t1.lost => G.m = Merged(F1.m, s.stack)
      BY <1>1, <2>2, <2>3, <2>4, <2>5 DEF Flushed
    <2>7. G \in Servers
      BY <2>6, AfterType
    <2> HIDE DEF G
    <2>8. leave \in Msgs /\ H \in Servers /\ H.users = i.users /\ ~H.svc /\ H.m = G.m
      BY <2>6, <2>7, LeaveReceived DEF Msgs, leave
    <2>9. t1.out \in Seq(Msgs)
      BY <2>6 DEF Handlers
    <2>10. /\ t \in Handlers /\ t.stack = t1.stack /\ t.bot = t1.bot /\ t.lost = t1.lost
           /\ t.out = Append(t1.out, leave)
      <3>1. Append(t1.out, leave) \in Seq(Msgs)
        BY <2>8, <2>9
      <3> QED BY <2>1, <2>6, <3>1 DEF Handlers
    <2>11. After(i, t) = H
      BY <2>8, <2>9, <2>10, SentLine DEF After, H, G
    <2> HIDE DEF H
    <2>12. Empty(t.stack)
      BY <1>0, <2>6, <2>10, Cleared
    <2>13. ASSUME Dying, ~t.lost, H.alive PROVE FALSE
      <3>1. H.m.modes \intersect PermModes # {}
        BY <2>8, <2>13, ServerType
      <3>2. H.m.modes = (F1.m.modes \ s.stack.off) \union s.stack.on
        BY <2>6, <2>8, <2>10, <2>13 DEF Merged
      <3>3. s.stack.on \subseteq s.chan.modes
        BY <2>13 DEF Fine
      <3>4. CASE F.alive
        <4>1. Merged(F.m, s.stack) = s.chan
          BY <2>6, <2>10, <2>13, <3>4 DEF Fine, F
        <4>2. s.chan.modes = (F.m.modes \ s.stack.off) \union s.stack.on
          BY <4>1 DEF Merged
        <4> QED BY <2>2, <2>13, <3>1, <3>2, <3>3, <3>4, <4>2
      <3>5. CASE ~F.alive
        BY <2>2, <2>13, <3>1, <3>2, <3>3, <3>5
      <3> QED BY <3>4, <3>5
    <2>14. Ends(i, s, t)
      BY <2>6, <2>8, <2>10, <2>11, <2>12, <2>13 DEF Ends, F
    <2> QED BY <2>14 DEF t
  <1> QED BY <1>2, <1>3

-----------------------------------------------------------------------------
(* The server follows services. *)

ModesTypeOK ==
    /\ chan \in ModesOf \union {None} /\ mlock \in {NoLock} \union Locks /\ stack \in Stacks
    /\ bot \in BOOLEAN /\ lost \in BOOLEAN /\ crossed \in BOOLEAN
    /\ toIrcd \in Seq(Msgs) /\ (chan # None => toIrcd \in Seq(Lines))
    /\ ircd \in Servers
    /\ chan = None => ~ircd.users /\ Empty(stack) /\ toUs = <<>>

\* The server as it will be.
Future == Sent(ircd, toIrcd)

Part == [kind |-> "part"]

\* The reports under way are the changes c, and perhaps the last PART.
Reports(c) == toUs = c \/ (~ircd.users /\ toUs = Append(c, Part))

\* Services that wait for the changes c agree with the server i.
Agrees(i, s, c) ==
    /\ c # <<>> => Empty(s.stack)
    /\ s.stack.on \subseteq s.chan.modes
    /\ ~s.bot => ~After(i, s).svc
    /\ ~s.lost /\ After(i, s).alive => Applied(s.chan, c) = Merged(After(i, s).m, s.stack)

Handled == [chan |-> chan, stack |-> stack, out |-> <<>>, lost |-> lost, bot |-> bot]

Waits(c) ==
    /\ Reports(c)
    /\ ~crossed /\ chan # None => Agrees(Future, Handled, c)
    /\ ~crossed /\ ~bot => ~Future.svc
    /\ ~crossed /\ ~lost /\ chan = None => ~Future.alive

ModesInv == ModesTypeOK /\ \E c \in Seq(Changes) : Waits(c)

LEMMA FutureType ==
    ASSUME ModesTypeOK
    PROVE  /\ Future \in Servers /\ Future.users = ircd.users /\ Future.m \in ModesOf
           /\ chan # None => Handled \in LineHandlers /\ Handler = Handled
           /\ After(Future, Handled) = Future
  <1>1. Future \in Servers /\ Future.users = ircd.users
    <2>1. ircd \in Servers /\ toIrcd \in Seq(Msgs) /\ <<>> \in Seq(Msgs)
      BY DEF ModesTypeOK
    <2> QED BY <2>1, SentAll, SentUsers DEF Future
  <1>2. Future.m \in ModesOf
    BY <1>1, ServerType
  <1>3. chan # None => Handled \in LineHandlers
    <2>1. <<>> \in Seq(Msgs) /\ <<>> \in Seq(Lines)
      OBVIOUS
    <2> QED BY <2>1 DEF ModesTypeOK, Handled, LineHandlers, Handlers
  <1>4. Handler = Handled
    BY DEF Handler, Handled
  <1>5. After(Future, Handled) = Future
    <2>1. Handled.out = <<>>
      BY DEF Handled
    <2> QED BY <2>1, <1>1, SentNone DEF After
  <1> QED BY <1>1, <1>2, <1>3, <1>4, <1>5

LEMMA FineAgrees ==
    ASSUME NEW i \in Servers, NEW s \in Handlers
    PROVE  Fine(i, s) <=> Agrees(i, s, <<>>)
  <1>1. Applied(s.chan, <<>>) = s.chan
    BY AppliedNone DEF Handlers
  <1> QED BY <1>1 DEF Fine, Agrees

\* What a handler leaves behind.
LEMMA Settled ==
    ASSUME ModesTypeOK, NEW t \in Handlers, Finish(t), ircd' = ircd
    PROVE  /\ chan' = t.chan /\ stack' = t.stack /\ lost' = t.lost
           /\ stack' \in Stacks /\ lost' \in BOOLEAN /\ chan' \in ModesOf
           /\ toIrcd' \in Seq(Msgs) /\ (toIrcd \in Seq(Lines) /\ t \in LineHandlers => toIrcd' \in Seq(Lines))
           /\ Future' = After(Future, t)
  <1>1. chan' = t.chan /\ stack' = t.stack /\ lost' = t.lost /\ toIrcd' = toIrcd \o t.out
    BY DEF Finish
  <1>2. t.chan \in ModesOf /\ t.stack \in Stacks /\ t.out \in Seq(Msgs) /\ t.lost \in BOOLEAN
    BY DEF Handlers
  <1>3. ircd \in Servers /\ toIrcd \in Seq(Msgs)
    BY DEF ModesTypeOK
  <1>4. toIrcd' \in Seq(Msgs) /\ (toIrcd \in Seq(Lines) /\ t \in LineHandlers => toIrcd' \in Seq(Lines))
    BY <1>1, <1>2, <1>3 DEF LineHandlers
  <1>5. Sent(ircd, toIrcd \o t.out) = Sent(Sent(ircd, toIrcd), t.out)
    BY <1>2, <1>3, SentAll
  <1> QED BY <1>1, <1>2, <1>4, <1>5 DEF Future, After

\* A handler that keeps the channel, and what services wait for then.
LEMMA HandlerKeeps ==
    ASSUME ModesTypeOK, chan # None,
           NEW t \in LineHandlers, Finish(t), t.bot = bot, bot' = bot, ircd' = ircd,
           mlock' \in {NoLock} \union Locks, crossed' \in BOOLEAN,
           NEW c \in Seq(Changes), Reports(c)',
           ~crossed' => Agrees(Future, t, c)
    PROVE  ModesInv'
  <1>1. t \in Handlers
    BY DEF LineHandlers
  <1>2. /\ chan' = t.chan /\ stack' = t.stack /\ lost' = t.lost
        /\ stack' \in Stacks /\ lost' \in BOOLEAN /\ chan' \in ModesOf
        /\ toIrcd' \in Seq(Msgs) /\ toIrcd' \in Seq(Lines)
        /\ Future' = After(Future, t)
    BY <1>1, Settled DEF ModesTypeOK
  <1>3. chan' # None
    BY <1>2, ModesAssumption
  <1>4. ModesTypeOK'
    BY <1>2, <1>3 DEF ModesTypeOK
  <1>5. Handled' = [chan |-> t.chan, stack |-> t.stack, out |-> <<>>, lost |-> t.lost, bot |-> t.bot]
    BY <1>2 DEF Handled
  <1>6. After(Future', Handled') = After(Future, t)
    <2>1. Handled'.out = <<>> /\ Future' \in Servers
      BY <1>1, <1>2, <1>5, FutureType, AfterType
    <2> QED BY <1>2, <2>1, SentNone DEF After
  <1>7. ASSUME ~crossed' PROVE Agrees(Future, Handled, c)' /\ (~bot' => ~Future'.svc)
    <2>1. Agrees(Future, t, c)
      BY <1>7
    <2> DEFINE h == Handled'
               i == Future'
    <2>2. /\ h.chan = t.chan /\ h.stack = t.stack /\ h.lost = t.lost /\ h.bot = t.bot
          /\ After(i, h) = After(Future, t) /\ i = After(Future, t)
      BY <1>2, <1>5, <1>6
    <2> HIDE DEF h, i
    <2>3. Agrees(i, h, c) /\ (~h.bot => ~i.svc)
      BY <2>1, <2>2 DEF Agrees
    <2>4. h.bot = bot'
      BY <1>5 DEF h
    <2> QED BY <2>3, <2>4 DEF h, i, Agrees
  <1>8. Waits(c)'
    BY <1>3, <1>7 DEF Waits
  <1> QED BY <1>4, <1>8 DEF ModesInv

\* A list with something at its end is not empty.
LEMMA AppendFilled == ASSUME NEW T, NEW s \in Seq(T), NEW e PROVE Append(s, e) # <<>>
  <1>1. s \in Seq(T \union {e}) /\ e \in T \union {e}
    OBVIOUS
  <1>2. Len(Append(s, e)) = Len(s) + 1 /\ Len(s) \in Nat
    BY <1>1
  <1> QED BY <1>2

\* Reports: what their head tells.
LEMMA HeadReported ==
    ASSUME NEW c \in Seq(Changes), Reports(c), toUs # <<>>
    PROVE  \/ /\ Head(toUs).kind # "part" /\ c # <<>> /\ Head(toUs) = Head(c)
              /\ Head(c) \in Changes /\ Tail(c) \in Seq(Changes)
              /\ Tail(toUs) = Tail(c) \/ (~ircd.users /\ Tail(toUs) = Append(Tail(c), Part))
              /\ Tail(toUs) = <<>> => Tail(c) = <<>>
           \/ /\ Head(toUs).kind = "part" /\ c = <<>> /\ Tail(toUs) = <<>> /\ ~ircd.users
  <1>1. \A ch \in Changes : ch.kind # "part"
    BY DEF Changes
  <1>2. Part.kind = "part"
    BY DEF Part
  <1>3. CASE c # <<>>
    <2>1. Head(c) \in Changes /\ Tail(c) \in Seq(Changes)
      BY <1>3
    <2>2. Head(Append(c, Part)) = Head(c) /\ Tail(Append(c, Part)) = Append(Tail(c), Part)
      BY <1>3
    <2>3. Append(Tail(c), Part) # <<>>
      BY <2>1, AppendFilled
    <2>4. CASE toUs = c
      BY <1>1, <1>3, <2>1, <2>4
    <2>5. CASE ~ircd.users /\ toUs = Append(c, Part)
      BY <1>1, <1>3, <2>1, <2>2, <2>3, <2>5
    <2> QED BY <2>4, <2>5 DEF Reports
  <1>4. CASE c = <<>>
    <2>1. ~ircd.users /\ toUs = Append(<<>>, Part)
      BY <1>4 DEF Reports
    <2>2. Head(Append(<<>>, Part)) = Part /\ Tail(Append(<<>>, Part)) = <<>>
      OBVIOUS
    <2> QED BY <1>2, <1>4, <2>1, <2>2
  <1> QED BY <1>3, <1>4

LEMMA NothingReported ==
    ASSUME NEW c \in Seq(Changes), Reports(c), toUs = <<>>
    PROVE  c = <<>>
  <1>1. Len(Append(c, Part)) = Len(c) + 1 /\ Len(c) \in Nat
    OBVIOUS
  <1>2. Append(c, Part) # <<>>
    BY <1>1
  <1> QED BY <1>2 DEF Reports

LEMMA OursKeeps ==
    ASSUME ModesInv, NEW ch \in OurChanges, channel_mode_ours(ch)
    PROVE  ModesInv'
  <1> DEFINE t == ModeChange(Handler, ch)
  <1>1. /\ chan # None /\ Finish(t) /\ crossed' = (crossed \/ toUs # <<>>)
        /\ mlock' = mlock /\ bot' = bot /\ toUs' = toUs /\ ircd' = ircd
    BY DEF channel_mode_ours
  <1>2. PICK c \in Seq(Changes) : Waits(c)
    BY DEF ModesInv
  <1>3. ModesTypeOK /\ Reports(c)
    BY <1>2 DEF ModesInv, Waits
  <1>4. /\ Handled \in LineHandlers /\ Future \in Servers /\ Handler = Handled /\ ch \in Changes
        /\ Handled \in Handlers
    BY <1>1, <1>3, FutureType, ModesAssumption DEF LineHandlers
  <1>5. Goes(Future, Handled, t, <<ch>>)
    BY <1>4, ChangeGoes
  <1> HIDE DEF t
  <1>6. t \in LineHandlers /\ t.bot = bot /\ t \in Handlers
    BY <1>5 DEF Goes, Handled, LineHandlers
  <1>7. ASSUME ~crossed' PROVE Agrees(Future, t, c)
    <2>1. ~crossed /\ toUs = <<>>
      BY <1>1, <1>7
    <2>2. c = <<>>
      BY <1>3, <2>1, NothingReported
    <2>3. Agrees(Future, Handled, <<>>)
      BY <1>1, <1>2, <2>1, <2>2 DEF Waits
    <2>4. Fine(Future, t)
      BY <1>4, <1>5, <2>3, FineAgrees, FineGoes
    <2> QED BY <1>4, <1>6, <2>2, <2>4, FineAgrees
  <1>8. Reports(c)'
    BY <1>1, <1>3 DEF Reports
  <1>9. mlock' \in {NoLock} \union Locks /\ crossed' \in BOOLEAN
    BY <1>1, <1>3 DEF ModesTypeOK
  <1> QED BY <1>1, <1>3, <1>6, <1>7, <1>8, <1>9, HandlerKeeps

\* Services without the channel have nothing left to say.
LEMMA NoChannelKeeps ==
    ASSUME ModesInv, chan = None, UNCHANGED <<chan, stack, bot, toIrcd, toUs, ircd, lost, crossed>>,
           mlock' \in {NoLock} \union Locks
    PROVE  ModesInv'
  <1>1. ModesTypeOK'
    BY DEF ModesInv, ModesTypeOK
  <1>2. Future' = Future
    BY DEF Future
  <1>3. (~crossed /\ ~bot => ~Future.svc) /\ (~crossed /\ ~lost => ~Future.alive)
    BY DEF ModesInv, Waits
  <1>4. PICK c \in Seq(Changes) : Waits(c)
    BY DEF ModesInv
  <1>5. Reports(c)'
    BY <1>4 DEF Waits, Reports
  <1>6. Waits(c)'
    BY <1>2, <1>3, <1>5 DEF Waits
  <1> QED BY <1>1, <1>6 DEF ModesInv

LEMMA LocksAre ==
    ASSUME NEW lock \in {NoLock} \union Locks
    PROVE  LockType(lock)
  <1>1. CASE lock = NoLock
    BY <1>1 DEF NoLock, LockType
  <1>2. CASE lock \in Locks
    BY <1>2, ModesAssumption DEF LockType
  <1> QED BY <1>1, <1>2

LEMMA TheirsKeeps ==
    ASSUME ModesInv, channel_mode
    PROVE  ModesInv'
  <1>1. /\ toUs # <<>> /\ Head(toUs).kind # "part" /\ toUs' = Tail(toUs)
        /\ mlock' = mlock /\ bot' = bot /\ ircd' = ircd
    BY DEF channel_mode
  <1>2. PICK c \in Seq(Changes) : Waits(c)
    BY DEF ModesInv
  <1>3. ModesTypeOK /\ Reports(c) /\ mlock' \in {NoLock} \union Locks
    BY <1>1, <1>2 DEF ModesInv, Waits, ModesTypeOK
  <1> DEFINE h == Head(c)
             r == Tail(c)
  <1>4. /\ c # <<>> /\ Head(toUs) = h /\ h \in Changes /\ r \in Seq(Changes)
        /\ toUs' = r \/ (~ircd.users /\ toUs' = Append(r, Part))
        /\ toUs' = <<>> => r = <<>>
    BY <1>1, <1>3, HeadReported
  <1> HIDE DEF h, r
  <1>5. Reports(r)'
    BY <1>1, <1>4 DEF Reports
  <1>7. chan # None
    BY <1>1, <1>3 DEF ModesTypeOK
  <1>8. QED
    <2>1. Handled \in LineHandlers /\ Handled \in Handlers /\ Handler = Handled /\ Future \in Servers
          /\ After(Future, Handled) = Future /\ chan \in ModesOf /\ stack \in Stacks
      BY <1>3, <1>7, FutureType DEF LineHandlers, ModesTypeOK
    <2> DEFINE m == Apply(chan, h)
               s == [Handled EXCEPT !.chan = m]
               t == IF [s.chan EXCEPT !.list = chan.list] # chan THEN check_modes(s, mlock) ELSE s
    <2>2. m \in ModesOf
      BY <1>4, <2>1, ApplyType
    <2>3. Finish(t) /\ crossed' = (crossed \/ (t # s /\ toUs' # <<>>))
      <3>1. [Handler EXCEPT !.chan = Apply(@, Head(toUs))] = s
        BY <1>4, <2>1 DEF Handled
      <3> HIDE DEF s, m
      <3> QED BY <1>7, <3>1 DEF channel_mode
    <2> HIDE DEF m
    <2>4. /\ s \in LineHandlers /\ s \in Handlers /\ s.chan = m /\ s.stack = stack /\ s.lost = lost /\ s.bot = bot
          /\ s.out = <<>>
      BY <2>1, <2>2 DEF Handled, LineHandlers, Handlers
    <2> HIDE DEF s
    <2>5. \E q \in Seq(Changes) : Goes(Future, s, t, q)
      <3>1. Goes(Future, s, s, <<>>)
        BY <2>1, <2>4, Stays
      <3>2. LockType(mlock)
        BY <1>3, LocksAre DEF ModesTypeOK
      <3>3. Goes(Future, s, check_modes(s, mlock), LockChanges(s.chan, mlock))
        BY <2>1, <2>4, <3>2, CheckGoes
      <3>4. \A u, q : Goes(Future, s, u, q) => q \in Seq(Changes)
        BY DEF Goes
      <3> QED BY <3>1, <3>3, <3>4
    <2> HIDE DEF t
    <2>6. t \in LineHandlers /\ t \in Handlers /\ t.bot = bot
      BY <2>4, <2>5 DEF Goes, LineHandlers
    <2>7. After(Future, s) = Future
      BY <2>1, <2>4, SentNone DEF After
    <2>8. ASSUME ~crossed' PROVE Agrees(Future, t, r)
      <3>1. ~crossed /\ (t = s \/ r = <<>>)
        BY <1>4, <2>3, <2>8
      <3>2. Agrees(Future, Handled, c)
        BY <1>2, <1>7, <3>1 DEF Waits
      <3>3. /\ Empty(stack) /\ (~bot => ~Future.svc)
            /\ ~lost /\ Future.alive => Applied(chan, c) = Merged(Future.m, stack)
        BY <1>4, <2>1, <3>2 DEF Agrees, Handled
      <3>4. Applied(chan, c) = Applied(m, r)
        BY <1>4, <2>1, AppliedHead DEF h, r, m
      <3>5. stack.on = {}
        BY <2>1, <2>2, <3>3, NothingMerged
      <3>6. Agrees(Future, s, r)
        BY <2>4, <2>7, <3>3, <3>4, <3>5 DEF Agrees
      <3>7. CASE t = s
        BY <3>6, <3>7
      <3>8. CASE r = <<>>
        <4>1. Fine(Future, s)
          BY <2>1, <2>4, <3>6, <3>8, FineAgrees
        <4>2. Fine(Future, t)
          BY <2>5, <4>1, FineGoes
        <4> QED BY <2>1, <2>6, <3>8, <4>2, FineAgrees
      <3> QED BY <3>1, <3>7, <3>8
    <2>9. crossed' \in BOOLEAN
      BY <1>3, <2>3 DEF ModesTypeOK
    <2> QED BY <1>1, <1>3, <1>4, <1>5, <1>7, <2>3, <2>6, <2>8, <2>9, HandlerKeeps

LEMMA MlockKeeps ==
    ASSUME ModesInv, NEW lock \in Locks, cs_cmd_set_mlock(lock)
    PROVE  ModesInv'
  <1>1. mlock' = lock /\ bot' = bot /\ toUs' = toUs /\ ircd' = ircd
    BY DEF cs_cmd_set_mlock
  <1>2. PICK c \in Seq(Changes) : Waits(c)
    BY DEF ModesInv
  <1>3. ModesTypeOK /\ Reports(c) /\ mlock' \in {NoLock} \union Locks
    BY <1>1, <1>2 DEF ModesInv, Waits
  <1>4. Reports(c)'
    BY <1>1, <1>3 DEF Reports
  <1>5. CASE chan = None
    <2>1. UNCHANGED <<chan, stack, bot, toIrcd, toUs, ircd, lost, crossed>>
      BY <1>5 DEF cs_cmd_set_mlock
    <2> QED BY <1>3, <1>5, <2>1, NoChannelKeeps
  <1>6. CASE chan # None
    <2> DEFINE t == check_modes(Handled, lock)
    <2>1. Handled \in LineHandlers /\ Handled \in Handlers /\ Handler = Handled /\ Future \in Servers
      BY <1>3, <1>6, FutureType DEF LineHandlers
    <2>2. Finish(t) /\ crossed' = (crossed \/ (t # Handled /\ toUs # <<>>))
      BY <1>6, <2>1 DEF cs_cmd_set_mlock
    <2>3. LockType(lock)
      BY LocksAre
    <2>4. Goes(Future, Handled, t, LockChanges(Handled.chan, lock))
      BY <2>1, <2>3, CheckGoes
    <2> HIDE DEF t
    <2>5. t \in LineHandlers /\ t \in Handlers /\ t.bot = bot
      BY <2>4 DEF Goes, LineHandlers, Handled
    <2>6. ASSUME ~crossed' PROVE Agrees(Future, t, c)
      <3>1. ~crossed /\ (t = Handled \/ toUs = <<>>)
        BY <2>2, <2>6
      <3>2. Agrees(Future, Handled, c)
        BY <1>2, <1>6, <3>1 DEF Waits
      <3>3. CASE t = Handled
        BY <3>2, <3>3
      <3>4. CASE toUs = <<>>
        <4>1. c = <<>>
          BY <1>3, <3>4, NothingReported
        <4>2. Fine(Future, Handled)
          BY <2>1, <3>2, <4>1, FineAgrees
        <4>3. Fine(Future, t)
          BY <2>4, <4>2, FineGoes
        <4> QED BY <2>1, <2>5, <4>1, <4>3, FineAgrees
      <3> QED BY <3>1, <3>3, <3>4
    <2>7. crossed' \in BOOLEAN
      BY <1>3, <2>2 DEF ModesTypeOK
    <2> QED BY <1>1, <1>3, <1>4, <1>6, <2>2, <2>5, <2>6, <2>7, HandlerKeeps
  <1> QED BY <1>5, <1>6

LEMMA FlushKeeps ==
    ASSUME ModesInv, modestack_flush_callback
    PROVE  ModesInv'
  <1> DEFINE t == modestack_flush(Handled)
  <1>1. /\ ~Empty(stack) /\ mlock' = mlock /\ bot' = bot /\ toUs' = toUs /\ ircd' = ircd
        /\ crossed' = crossed
    BY DEF modestack_flush_callback
  <1>2. PICK c \in Seq(Changes) : Waits(c)
    BY DEF ModesInv
  <1>3. ModesTypeOK /\ Reports(c) /\ mlock' \in {NoLock} \union Locks /\ crossed' \in BOOLEAN
    BY <1>1, <1>2 DEF ModesInv, Waits, ModesTypeOK
  <1>4. chan # None
    BY <1>1, <1>3 DEF ModesTypeOK
  <1>5. Handled \in LineHandlers /\ Handled \in Handlers /\ Handler = Handled /\ Future \in Servers
    BY <1>3, <1>4, FutureType DEF LineHandlers
  <1>6. Finish(t)
    BY <1>5 DEF modestack_flush_callback
  <1>7. Goes(Future, Handled, t, <<>>)
    BY <1>5, FlushGoes
  <1> HIDE DEF t
  <1>8. t \in LineHandlers /\ t \in Handlers /\ t.bot = bot
    BY <1>7 DEF Goes, LineHandlers, Handled
  <1>9. Reports(c)'
    BY <1>1, <1>3 DEF Reports
  <1>10. ASSUME ~crossed' PROVE Agrees(Future, t, c)
    <2>1. Agrees(Future, Handled, c)
      BY <1>1, <1>2, <1>4, <1>10 DEF Waits
    <2>2. c = <<>>
      BY <1>1, <2>1 DEF Agrees, Handled
    <2>3. Fine(Future, t)
      BY <1>5, <1>7, <2>1, <2>2, FineAgrees, FineGoes
    <2> QED BY <1>5, <1>8, <2>2, <2>3, FineAgrees
  <1> QED BY <1>1, <1>3, <1>4, <1>6, <1>8, <1>9, <1>10, HandlerKeeps

\* A bot that leaves the channel.
LEMMA LeaveSent ==
    ASSUME NEW i \in Servers
    PROVE  /\ <<[leave |-> TRUE]>> \in Seq(Lines) /\ <<[leave |-> TRUE]>> \in Seq(Msgs)
           /\ Sent(i, <<[leave |-> TRUE]>>) \in Servers /\ ~Sent(i, <<[leave |-> TRUE]>>).svc
           /\ Sent(i, <<[leave |-> TRUE]>>).m = i.m
           /\ Sent(i, <<[leave |-> TRUE]>>).alive => i.alive
  <1> DEFINE msg == [leave |-> TRUE]
             j == Receive(i, msg)
  <1>1. msg \in Lines /\ j \in Servers /\ j.users = i.users /\ ~j.svc /\ j.m = i.m
    BY LeaveReceived
  <1>2. msg \in Msgs
    BY <1>1 DEF Msgs
  <1> HIDE DEF msg, j
  <1>3. Sent(i, <<msg>>) = j
    BY <1>2, SentOne DEF j
  <1>4. <<msg>> \in Seq(Lines) /\ <<msg>> \in Seq(Msgs)
    BY <1>1, <1>2
  <1>5. j.alive => i.alive
    BY <1>1, ServerType
  <1> QED BY <1>1, <1>3, <1>4, <1>5 DEF msg

LEMMA PartKeeps ==
    ASSUME ModesInv, chanuser_delete
    PROVE  ModesInv'
  <1> DEFINE o == IF bot THEN <<[leave |-> TRUE]>> ELSE <<>>
             s == [Handled EXCEPT !.out = o]
             F == After(Future, s)
  <1>1. /\ toUs # <<>> /\ Head(toUs).kind = "part" /\ toUs' = Tail(toUs)
        /\ mlock' = mlock /\ bot' = bot /\ ircd' = ircd /\ crossed' = crossed
    BY DEF chanuser_delete
  <1>2. PICK c \in Seq(Changes) : Waits(c)
    BY DEF ModesInv
  <1>3. ModesTypeOK /\ Reports(c) /\ mlock' \in {NoLock} \union Locks /\ crossed' \in BOOLEAN
    BY <1>1, <1>2 DEF ModesInv, Waits, ModesTypeOK
  <1>4. c = <<>> /\ toUs' = <<>> /\ ~ircd.users /\ chan # None
    BY <1>1, <1>3, HeadReported DEF ModesTypeOK
  <1>5. /\ Handled \in LineHandlers /\ Handled \in Handlers /\ Handler = Handled
        /\ Future \in Servers /\ Future.users = ircd.users /\ After(Future, Handled) = Future
        /\ chan \in ModesOf /\ stack \in Stacks
    BY <1>3, <1>4, FutureType DEF LineHandlers, ModesTypeOK
  <1>6. Reports(<<>>)'
    BY <1>4 DEF Reports
  <1>7. /\ o \in Seq(Lines) /\ o \in Seq(Msgs) /\ F = Sent(Future, o) /\ F \in Servers
        /\ F.m = Future.m /\ (F.alive => Future.alive) /\ (bot => ~F.svc) /\ (~bot => F = Future)
    <2>1. CASE bot
      BY <1>5, <2>1, LeaveSent DEF After, Handled
    <2>2. CASE ~bot
      <3>1. o = <<>> /\ <<>> \in Seq(Lines) /\ <<>> \in Seq(Msgs)
        BY <2>2
      <3>2. F = Sent(Future, <<>>)
        BY <3>1 DEF After, Handled
      <3> QED BY <1>5, <2>2, <3>1, <3>2, SentNone
    <2> QED BY <2>1, <2>2
  <1> HIDE DEF o
  <1>8. /\ s \in LineHandlers /\ s \in Handlers /\ s.chan = chan /\ s.stack = stack /\ s.lost = lost
        /\ s.bot = bot /\ s.out = o
    BY <1>5, <1>7 DEF Handled, LineHandlers, Handlers
  <1>9. Finish(IF chan.modes \intersect PermModes # {} THEN s
                 ELSE [modestack_finalize_channel(s) EXCEPT !.chan = None])
    <2>1. [Handler EXCEPT !.out = IF bot THEN <<[leave |-> TRUE]>> ELSE <<>>] = s
      BY <1>5 DEF o
    <2> HIDE DEF s
    <2> QED BY <2>1 DEF chanuser_delete
  <1> HIDE DEF s, F
  <1>10. ASSUME ~crossed PROVE ~F.svc /\ Agrees(Future, s, <<>>)
    <2>1. Agrees(Future, Handled, <<>>) /\ (~bot => ~Future.svc)
      BY <1>2, <1>4, <1>10 DEF Waits
    <2>2. ~F.svc
      BY <1>7, <2>1
    <2>3. /\ stack.on \subseteq chan.modes
          /\ ~lost /\ Future.alive => Applied(chan, <<>>) = Merged(Future.m, stack)
      BY <1>5, <2>1 DEF Agrees, Handled
    <2> QED BY <1>7, <1>8, <2>2, <2>3 DEF Agrees, F
  <1>11. CASE chan.modes \intersect PermModes # {}
    <2>1. Finish(s)
      BY <1>9, <1>11
    <2>2. <<>> \in Seq(Changes)
      OBVIOUS
    <2> QED BY <1>1, <1>3, <1>4, <1>6, <1>8, <1>10, <2>1, <2>2, HandlerKeeps
  <1>12. CASE chan.modes \intersect PermModes = {}
    <2> DEFINE t == modestack_finalize_channel(s)
               u == [t EXCEPT !.chan = None]
    <2>1. Ends(Future, s, t)
      BY <1>5, <1>8, FinalizeEnds
    <2>2. Finish(u)
      BY <1>9, <1>12
    <2> HIDE DEF t
    <2>3. /\ t \in Handlers /\ t.bot = bot /\ (lost => t.lost) /\ Empty(t.stack)
          /\ ~F.svc => ~After(Future, t).svc
          /\ Fine(Future, s) /\ ~F.svc => (~t.lost => ~After(Future, t).alive)
      BY <1>4, <1>5, <1>8, <1>12, <2>1 DEF Ends, F
    <2>4. u.chan = None /\ u.stack = t.stack /\ u.lost = t.lost /\ u.out = t.out
          /\ t.stack \in Stacks /\ t.lost \in BOOLEAN /\ t.out \in Seq(Msgs)
      BY <2>3 DEF Handlers
    <2> HIDE DEF u
    <2>5. /\ chan' = None /\ stack' = t.stack /\ lost' = t.lost /\ toIrcd' = toIrcd \o t.out
      BY <2>2, <2>4 DEF Finish
    <2>6. ircd \in Servers /\ toIrcd \in Seq(Msgs)
      BY <1>3 DEF ModesTypeOK
    <2>7. toIrcd' \in Seq(Msgs) /\ Future' = After(Future, t)
      BY <1>1, <2>4, <2>5, <2>6, SentAll DEF Future, After
    <2>8. ModesTypeOK'
      BY <1>1, <1>3, <1>4, <2>3, <2>4, <2>5, <2>7 DEF ModesTypeOK
    <2>9. ASSUME ~crossed PROVE ~Future'.svc /\ (~lost' => ~Future'.alive)
      <3>1. Fine(Future, s) /\ ~F.svc
        BY <1>5, <1>8, <1>10, <2>9, FineAgrees
      <3> QED BY <2>3, <2>5, <2>7, <3>1
    <2>10. Waits(<<>>)'
      BY <1>1, <1>6, <2>5, <2>9 DEF Waits
    <2>11. <<>> \in Seq(Changes)
      OBVIOUS
    <2> QED BY <2>8, <2>10, <2>11 DEF ModesInv
  <1> QED BY <1>11, <1>12

LEMMA DeleteKeeps ==
    ASSUME ModesInv, bs_cmd_delete
    PROVE  ModesInv'
  <1> DEFINE o == <<[leave |-> TRUE]>>
             F == Sent(Future, o)
  <1>1. /\ bot /\ bot' = FALSE /\ mlock' = mlock /\ toUs' = toUs /\ ircd' = ircd /\ crossed' = crossed
    BY DEF bs_cmd_delete
  <1>2. PICK c \in Seq(Changes) : Waits(c)
    BY DEF ModesInv
  <1>3. ModesTypeOK /\ Reports(c)
    BY <1>2 DEF ModesInv, Waits
  <1>4. Future \in Servers /\ Handler = Handled
        /\ ircd \in Servers /\ toIrcd \in Seq(Msgs) /\ (chan # None => toIrcd \in Seq(Lines))
        /\ After(Future, Handled) = Future
    BY <1>3, FutureType DEF ModesTypeOK, Handler, Handled
  <1>5. /\ o \in Seq(Lines) /\ o \in Seq(Msgs) /\ F \in Servers /\ ~F.svc /\ F.m = Future.m
        /\ F.alive => Future.alive
    BY <1>4, LeaveSent
  <1>6. chan' = chan /\ stack' = stack /\ lost' = lost /\ toIrcd' = toIrcd \o o
    <2>1. Finish([Handled EXCEPT !.out = o])
      BY <1>4 DEF bs_cmd_delete
    <2> HIDE DEF o
    <2> QED BY <2>1 DEF Finish, Handled
  <1> HIDE DEF o, F
  <1>7. Future' = F
    BY <1>1, <1>4, <1>5, <1>6, SentAll DEF Future, F
  <1>8. toIrcd' \in Seq(Msgs) /\ (chan' # None => toIrcd' \in Seq(Lines))
    BY <1>4, <1>5, <1>6
  <1>9. ModesTypeOK'
    BY <1>1, <1>3, <1>6, <1>8 DEF ModesTypeOK
  <1>10. Reports(c)'
    BY <1>1, <1>3 DEF Reports
  <1>11. Handled' = [chan |-> chan, stack |-> stack, out |-> <<>>, lost |-> lost, bot |-> bot']
    BY <1>6 DEF Handled
  <1>12. After(Future', Handled') = F
    <2>1. Handled'.out = <<>>
      BY <1>11
    <2> QED BY <1>5, <1>7, <2>1, SentNone DEF After
  <1>13. ASSUME ~crossed, chan # None PROVE Agrees(Future, Handled, c)'
    <2>1. Agrees(Future, Handled, c)
      BY <1>2, <1>13 DEF Waits
    <2>2. /\ c # <<>> => Empty(stack)
          /\ stack.on \subseteq chan.modes
          /\ ~lost /\ Future.alive => Applied(chan, c) = Merged(Future.m, stack)
      BY <1>4, <2>1 DEF Agrees, Handled
    <2> DEFINE h == Handled'
               i == Future'
    <2>3. h.chan = chan /\ h.stack = stack /\ h.lost = lost /\ After(i, h) = F
      BY <1>11, <1>12
    <2> HIDE DEF h, i
    <2>4. Agrees(i, h, c)
      BY <1>5, <2>2, <2>3 DEF Agrees
    <2> QED BY <2>4 DEF h, i, Agrees
  <1>14. Waits(c)'
    BY <1>1, <1>2, <1>5, <1>6, <1>7, <1>10, <1>13 DEF Waits
  <1> QED BY <1>9, <1>14 DEF ModesInv

\* The server's own steps.
LEMMA RemoteModeKeeps ==
    ASSUME ModesInv, NEW ch \in TheirChanges, RemoteMode(ch)
    PROVE  ModesInv'
  <1>1. /\ ircd.users /\ ircd' = [ircd EXCEPT !.m = Apply(@, ch)] /\ toUs' = Append(toUs, ch)
        /\ crossed' = (crossed \/ toIrcd # <<>> \/ ~Empty(stack))
        /\ UNCHANGED <<chan, mlock, stack, bot, toIrcd, lost>>
    BY DEF RemoteMode
  <1>2. PICK c \in Seq(Changes) : Waits(c)
    BY DEF ModesInv
  <1> DEFINE d == Append(c, ch)
             m == Apply(ircd.m, ch)
  <1>3. /\ ModesTypeOK /\ Reports(c) /\ chan # None /\ ch \in Changes /\ d \in Seq(Changes)
        /\ ircd \in Servers
    BY <1>1, <1>2, ModesAssumption DEF ModesInv, Waits, ModesTypeOK
  <1>4. ircd.m \in ModesOf /\ ircd.alive /\ m \in ModesOf
    BY <1>1, <1>3, ServerType, ApplyType
  <1>5. ircd' \in Servers /\ ircd'.users /\ ircd'.m = m /\ ircd'.svc = ircd.svc /\ ircd'.alive
    <2>1. ircd' = [ircd EXCEPT !.m = m]
      BY <1>1
    <2> HIDE DEF m
    <2> QED BY <2>1, <1>1, <1>3, <1>4 DEF Servers
  <1> HIDE DEF m
  <1>6. toUs' = d
    BY <1>1, <1>3 DEF Reports
  <1>7. Reports(d)'
    BY <1>6 DEF Reports
  <1>8. ModesTypeOK'
    BY <1>1, <1>3, <1>5 DEF ModesTypeOK
  <1>9. Handled' = Handled
    BY <1>1 DEF Handled
  <1>10. ASSUME ~crossed' PROVE Agrees(Future, Handled, d)' /\ (~bot' => ~Future'.svc)
    <2>1. ~crossed /\ toIrcd = <<>> /\ Empty(stack)
      BY <1>1, <1>10
    <2>2. Future = ircd /\ Future' = ircd'
      BY <1>1, <1>3, <1>5, <2>1, SentNone DEF Future
    <2>3. Agrees(Future, Handled, c) /\ (~bot => ~Future.svc)
      BY <1>2, <1>3, <2>1 DEF Waits
    <2>4. After(Future, Handled) = ircd /\ After(Future', Handled') = ircd'
      <3>1. Handled.out = <<>>
        BY DEF Handled
      <3> QED BY <1>3, <1>5, <1>9, <2>2, <3>1, SentNone DEF After
    <2>5. /\ stack.on \subseteq chan.modes
          /\ ~lost => Applied(chan, c) = Merged(ircd.m, stack)
      BY <1>4, <2>3, <2>4 DEF Agrees, Handled
    <2>6. chan \in ModesOf /\ stack \in Stacks
      BY <1>3 DEF ModesTypeOK
    <2>7. Merged(ircd.m, stack) = ircd.m /\ Merged(m, stack) = m
      BY <1>4, <2>1, <2>6, NothingMerged
    <2>8. Applied(chan, d) = Apply(Applied(chan, c), ch)
      BY <1>3, <2>6, AppliedNext
    <2>9. ~lost => Applied(chan, d) = Merged(m, stack)
      BY <2>5, <2>7, <2>8 DEF m
    <2> DEFINE h == Handled'
               i == Future'
    <2>10. /\ h.chan = chan /\ h.stack = stack /\ h.lost = lost /\ h.bot = bot
           /\ After(i, h).m = m /\ After(i, h).svc = ircd.svc
      BY <1>5, <1>9, <2>4 DEF Handled
    <2>11. ~bot => ~ircd.svc
      BY <2>2, <2>3
    <2> HIDE DEF h, i, d
    <2>12. Agrees(i, h, d)
      BY <2>1, <2>5, <2>9, <2>10, <2>11 DEF Agrees
    <2>13. ~bot' => ~Future'.svc
      BY <1>1, <1>5, <2>2, <2>11
    <2> QED BY <2>12, <2>13 DEF h, i, Agrees
  <1>11. Waits(d)'
    BY <1>1, <1>3, <1>7, <1>10 DEF Waits
  <1> QED BY <1>3, <1>8, <1>11 DEF ModesInv

LEMMA RemotePartKeeps ==
    ASSUME ModesInv, RemotePart
    PROVE  ModesInv'
  <1>1. /\ ircd.users /\ ircd' = Live([ircd EXCEPT !.users = FALSE])
        /\ toUs' = Append(toUs, Part)
        /\ UNCHANGED <<chan, mlock, stack, bot, toIrcd, lost, crossed>>
    BY DEF RemotePart, Part
  <1>2. PICK c \in Seq(Changes) : Waits(c)
    BY DEF ModesInv
  <1>3. /\ ModesTypeOK /\ Reports(c) /\ chan # None /\ ircd \in Servers /\ toIrcd \in Seq(Lines)
    BY <1>1, <1>2 DEF ModesInv, Waits, ModesTypeOK
  <1>4. ircd' \in Servers /\ ~ircd'.users /\ Left(ircd, ircd')
    <2> DEFINE no == FALSE
               r == [m |-> ircd.m, users |-> no, svc |-> ircd.svc, alive |-> ircd.alive]
    <2>1. no \in BOOLEAN /\ ~no
      OBVIOUS
    <2> HIDE DEF no
    <2>2. [ircd EXCEPT !.users = no] = r
      BY <1>3 DEF Servers
    <2>3. ircd' = Live(r)
      BY <1>1, <2>2 DEF no
    <2>4. Live(r) \in Servers /\ Live(r).m = ircd.m /\ Live(r).users = no /\ Live(r).svc = ircd.svc
      BY <1>3, <2>1, ServerType, Lives
    <2> HIDE DEF r
    <2> QED BY <1>1, <2>1, <2>3, <2>4 DEF Left
  <1>5. Left(Future, Future')
    BY <1>1, <1>3, <1>4, LeftSent DEF Future
  <1>6. toUs = c
    BY <1>1, <1>3 DEF Reports
  <1>7. Reports(c)'
    BY <1>1, <1>4, <1>6 DEF Reports
  <1>8. ModesTypeOK'
    BY <1>1, <1>3, <1>4 DEF ModesTypeOK
  <1>9. Handled' = Handled /\ Handled.out = <<>>
    BY <1>1 DEF Handled
  <1>10. Future \in Servers /\ Future' \in Servers /\ Future.alive
    <2>1. toIrcd \in Seq(Msgs) /\ <<>> \in Seq(Msgs)
      BY <1>3 DEF ModesTypeOK
    <2>2. Future \in Servers /\ Future' \in Servers
      BY <1>1, <1>3, <1>4, <2>1, SentAll DEF Future
    <2> QED BY <2>2, <1>5, ServerType DEF Left
  <1>11. After(Future, Handled) = Future /\ After(Future', Handled') = Future'
    BY <1>9, <1>10, SentNone DEF After
  <1>12. ASSUME ~crossed PROVE Agrees(Future, Handled, c)' /\ (~bot' => ~Future'.svc)
    <2>1. Agrees(Future, Handled, c) /\ (~bot => ~Future.svc)
      BY <1>2, <1>3, <1>12 DEF Waits
    <2> DEFINE h == Handled'
               i == Future'
               f == Future
    <2>2. Agrees(f, Handled, c) /\ Left(f, i) /\ After(f, Handled) = f /\ After(i, h) = i
          /\ h = Handled /\ f.alive
      BY <1>5, <1>9, <1>10, <1>11, <2>1
    <2> HIDE DEF h, i, f
    <2>3. Agrees(i, h, c)
      BY <2>2 DEF Agrees, Left
    <2>4. ~bot' => ~Future'.svc
      BY <1>1, <1>5, <2>1 DEF Left
    <2> QED BY <2>3, <2>4 DEF h, i, Agrees
  <1>13. Waits(c)'
    BY <1>1, <1>3, <1>7, <1>12 DEF Waits
  <1> QED BY <1>8, <1>13 DEF ModesInv

LEMMA RemoteReceiveKeeps ==
    ASSUME ModesInv, RemoteReceive
    PROVE  ModesInv'
  <1>1. /\ toIrcd # <<>> /\ toIrcd' = Tail(toIrcd) /\ ircd' = Receive(ircd, Head(toIrcd))
        /\ UNCHANGED <<chan, mlock, stack, bot, toUs, lost, crossed>>
    BY DEF RemoteReceive
  <1>2. PICK c \in Seq(Changes) : Waits(c)
    BY DEF ModesInv
  <1>3. ModesTypeOK /\ ircd \in Servers /\ toIrcd \in Seq(Msgs) /\ (chan # None => toIrcd \in Seq(Lines))
    BY DEF ModesInv, ModesTypeOK
  <1>4. toIrcd' \in Seq(Msgs) /\ (chan # None => toIrcd' \in Seq(Lines)) /\ Head(toIrcd) \in Msgs
    BY <1>1, <1>3
  <1>5. ircd' \in Servers /\ ircd'.users = ircd.users
    BY <1>1, <1>3, <1>4, ReceiveType
  <1>6. Future' = Future
    BY <1>1, <1>3, SentHead DEF Future
  <1>7. ModesTypeOK'
    BY <1>1, <1>3, <1>4, <1>5 DEF ModesTypeOK
  <1>8. Handled' = Handled
    BY <1>1 DEF Handled
  <1>9. Reports(c)'
    BY <1>1, <1>2, <1>5 DEF Waits, Reports
  <1>10. Waits(c)'
    <2>1. Agrees(Future, Handled, c) => Agrees(Future', Handled', c)
      BY <1>6, <1>8
    <2> QED BY <1>1, <1>2, <1>6, <1>9, <2>1 DEF Waits, Agrees
  <1> QED BY <1>7, <1>10 DEF ModesInv

LEMMA ModesStart == ASSUME Init PROVE ModesInv
  <1>1. NoModes \in ModesOf
    BY DEF NoModes, ModesOf
  <1>2. chan \in ModesOf /\ chan = NoModes /\ chan # None
    BY <1>1, ModesAssumption DEF Init
  <1> DEFINE st == [source |-> "chanserv", on |-> {}, off |-> {}, slot |-> Unused, params |-> <<>>]
  <1>3. stack \in Stacks /\ Empty(stack)
    <2>1. st \in Stacks
      <3>1. Unused \in [Slots -> {None, Off} \union Values] /\ <<>> \in Seq(Params)
        BY DEF Unused
      <3> QED BY <3>1 DEF Stacks
    <2>2. stack = modestack_clear(st)
      BY DEF Init
    <2> HIDE DEF st
    <2> QED BY <2>1, <2>2, Cleared
  <1>4. ircd \in Servers /\ ircd.m = NoModes /\ ircd.users /\ ircd.svc /\ ircd.alive
    <2>1. ircd = [m |-> NoModes, users |-> TRUE, svc |-> TRUE, alive |-> TRUE]
      BY DEF Init
    <2> QED BY <1>1, <2>1 DEF Servers
  <1>5. bot = TRUE /\ lost = FALSE /\ crossed = FALSE /\ toIrcd = <<>> /\ toUs = <<>> /\ mlock = NoLock
    BY DEF Init
  <1>6. <<>> \in Seq(Msgs) /\ <<>> \in Seq(Lines) /\ <<>> \in Seq(Changes)
    OBVIOUS
  <1>7. ModesTypeOK
    BY <1>2, <1>3, <1>4, <1>5, <1>6 DEF ModesTypeOK
  <1>8. Future = ircd /\ After(Future, Handled) = ircd
    <2>1. Handled.out = <<>>
      BY DEF Handled
    <2> QED BY <1>4, <1>5, <2>1, SentNone DEF Future, After
  <1>9. Agrees(Future, Handled, <<>>)
    <2>1. stack.on = {} /\ Merged(ircd.m, stack) = NoModes
      BY <1>1, <1>3, <1>4, NothingMerged
    <2>2. Applied(chan, <<>>) = NoModes
      BY <1>2, AppliedNone
    <2> QED BY <1>4, <1>5, <1>8, <2>1, <2>2 DEF Agrees, Handled
  <1>10. Waits(<<>>)
    BY <1>2, <1>5, <1>9 DEF Waits, Reports
  <1> QED BY <1>6, <1>7, <1>10 DEF ModesInv

LEMMA FollowsFromInv == ASSUME ModesInv PROVE ServerFollows
  <1>1. PICK c \in Seq(Changes) : Waits(c)
    BY DEF ModesInv
  <1>2. ModesTypeOK /\ Reports(c)
    BY <1>1 DEF ModesInv, Waits
  <1>3. ModesAgree
    <2> SUFFICES ASSUME ~lost, ~crossed, chan # None, toUs = <<>>, ircd.users
                 PROVE  FoldLeft(Apply, FoldLeft(Receive, ircd, toIrcd).m, Line(stack)) = chan
      BY DEF ModesAgree
    <2>1. c = <<>>
      BY <1>2, NothingReported
    <2>2. Agrees(Future, Handled, <<>>)
      BY <1>1, <2>1 DEF Waits
    <2>3. Future \in Servers /\ Future.users /\ Future.m \in ModesOf /\ After(Future, Handled) = Future
      BY <1>2, FutureType
    <2>4. Future.alive
      BY <2>3, ServerType
    <2>5. chan \in ModesOf /\ stack \in Stacks
      BY <1>2 DEF ModesTypeOK
    <2>6. Applied(chan, <<>>) = Merged(Future.m, stack)
      BY <2>2, <2>3, <2>4 DEF Agrees, Handled
    <2>7. chan = Merged(Future.m, stack)
      BY <2>5, <2>6, AppliedNone
    <2>8. Applied(Future.m, Line(stack)) = Merged(Future.m, stack)
      BY <2>3, <2>5, LineApplied
    <2> QED BY <2>7, <2>8 DEF Applied, Future, Sent
  <1>4. DestroyedChannelsDie
    <2> SUFFICES ASSUME toIrcd = <<>>, ~lost, ~crossed, chan = None PROVE ~ircd.alive
      BY DEF DestroyedChannelsDie, Quiet
    <2>1. ~Future.alive
      BY <1>1 DEF Waits
    <2>2. Future = ircd
      BY <1>2, SentNone DEF Future, ModesTypeOK
    <2> QED BY <2>1, <2>2
  <1> QED BY <1>3, <1>4 DEF ServerFollows

LEMMA ModesAlways == Spec => []ModesInv
  <1>1. Init => ModesInv
    BY ModesStart
  <1>2. ModesInv /\ [Next]_vars => ModesInv'
    <2> SUFFICES ASSUME ModesInv, [Next]_vars PROVE ModesInv'
      OBVIOUS
    <2>1. CASE \E ch \in OurChanges : channel_mode_ours(ch)
      BY <2>1, OursKeeps
    <2>2. CASE \E ch \in TheirChanges : RemoteMode(ch)
      BY <2>2, RemoteModeKeeps
    <2>3. CASE \E lock \in Locks : cs_cmd_set_mlock(lock)
      BY <2>3, MlockKeeps
    <2>4. CASE UNCHANGED vars
      <3>1. /\ chan' = chan /\ mlock' = mlock /\ stack' = stack /\ bot' = bot /\ toIrcd' = toIrcd
            /\ toUs' = toUs /\ ircd' = ircd /\ lost' = lost /\ crossed' = crossed
        BY <2>4 DEF vars
      <3>2. ModesTypeOK'
        BY <3>1 DEF ModesInv, ModesTypeOK
      <3>3. PICK c \in Seq(Changes) : Waits(c)
        BY DEF ModesInv
      <3>4. Future' = Future /\ Handled' = Handled
        BY <3>1 DEF Future, Handled
      <3>5. Waits(c)'
        <4>1. Agrees(Future, Handled, c) => Agrees(Future', Handled', c)
          BY <3>4
        <4> QED BY <3>1, <3>3, <3>4, <4>1 DEF Waits, Agrees, Reports
      <3> QED BY <3>2, <3>5 DEF ModesInv
    <2> QED BY <2>1, <2>2, <2>3, <2>4, TheirsKeeps, FlushKeeps, PartKeeps, DeleteKeeps,
               RemotePartKeeps, RemoteReceiveKeeps DEF Next
  <1> QED BY <1>1, <1>2, PTL DEF Spec

\* The server follows services: what services believe of a channel's modes is
\* what the server will have once all that is sent and stacked has arrived, and
\* a channel that services destroyed dies at the server too, for any changes,
\* locks, modes and links, while no changes cross and none are lost.
THEOREM ServerAlwaysFollows == Spec => []ServerFollows
  <1>1. Spec => []ModesInv
    BY ModesAlways
  <1>2. ModesInv => ServerFollows
    BY FollowsFromInv
  <1> QED BY <1>1, <1>2, PTL

-----------------------------------------------------------------------------
(* Mode locks: what a lock says of each aspect of a channel. *)

Aspects == [kind : {"mode"}, of : SimpleModes] \union [kind : {"slot"}, of : Slots]
           \union [kind : {"key"}, of : {None}]

Value(m, a) ==
    IF a.kind = "mode" THEN IF a.of \in m.modes THEN "on" ELSE "off"
    ELSE IF a.kind = "slot" THEN m.slot[a.of]
    ELSE m.key

\* A change to an aspect, and what it makes of it.
Touches(ch, a) ==
    \/ a.kind = "mode" /\ ch.kind = "simple" /\ a.of \in ch.on \union ch.off
    \/ a.kind = "slot" /\ ch.kind = "slot" /\ ch.slot = a.of
    \/ a.kind = "key" /\ ch.kind = "key"

To(ch, a) == IF a.kind = "mode" THEN IF a.of \in ch.on THEN "on" ELSE "off" ELSE ch.val

Obeys(lock, a, v) ==
    /\ a.kind = "mode" => (a.of \in lock.on => v = "on") /\ (a.of \in lock.off => v = "off")
    /\ a.kind = "slot" => lock.slot[a.of] = None \/ v = Right(lock.slot[a.of])
    /\ a.kind = "key" => lock.key = None \/ v = Right(lock.key)

LEMMA AspectKinds ==
    ASSUME NEW a \in Aspects
    PROVE  \/ a.kind = "mode" /\ a.of \in SimpleModes
           \/ a.kind = "slot" /\ a.of \in Slots
           \/ a.kind = "key"
  BY DEF Aspects

LEMMA ValueApplied ==
    ASSUME NEW m \in ModesOf, NEW ch \in Changes, NEW a \in Aspects
    PROVE  Value(Apply(m, ch), a) = IF Touches(ch, a) THEN To(ch, a) ELSE Value(m, a)
  <1>1. CASE ch.kind = "simple"
    <2>1. /\ ch = Simple(ch.on, ch.off) /\ ch.on \in SUBSET SimpleModes /\ ch.off \in SUBSET SimpleModes
      BY <1>1, ChangeKinds DEF Params
    <2> DEFINE on == ch.on
               off == ch.off
    <2>2. ch = Simple(on, off) /\ on \in SUBSET SimpleModes /\ off \in SUBSET SimpleModes
      BY <2>1
    <2> HIDE DEF on, off
    <2>3. Apply(m, Simple(on, off)) = [m EXCEPT !.modes = (@ \ off) \union on]
      BY <2>2, SimpleApplied
    <2>4. /\ Apply(m, ch).modes = (m.modes \ off) \union on /\ Apply(m, ch).slot = m.slot
          /\ Apply(m, ch).key = m.key
      BY <2>2, <2>3 DEF ModesOf
    <2> QED BY <1>1, <2>4, AspectKinds DEF Value, Touches, To, on, off
  <1>2. CASE ch.kind = "slot"
    <2>1. ch = Slot(ch.slot, ch.val) /\ ch.slot \in Slots /\ ch.val \in {None} \union Values
      BY <1>2, ChangeKinds DEF Params
    <2> DEFINE x == ch.slot
               w == ch.val
    <2>2. ch = Slot(x, w) /\ x \in Slots /\ w \in {None} \union Values
      BY <2>1
    <2> HIDE DEF x, w
    <2>3. Apply(m, Slot(x, w)) = [m EXCEPT !.slot[x] = w]
      BY <2>2, SlotApplied
    <2>4. /\ Apply(m, ch).slot = [m.slot EXCEPT ![x] = w] /\ Apply(m, ch).modes = m.modes
          /\ Apply(m, ch).key = m.key /\ m.slot \in [Slots -> {None} \union Values]
      BY <2>2, <2>3 DEF ModesOf
    <2> QED BY <1>2, <2>2, <2>4, AspectKinds DEF Value, Touches, To, x, w
  <1>3. CASE ch.kind # "simple" /\ ch.kind # "slot"
    <2>1. ch \in Params
      BY <1>3, ChangeKinds
    <2>2. /\ Apply(m, ch).modes = m.modes /\ Apply(m, ch).slot = m.slot
          /\ Apply(m, ch).key = IF ch.kind = "key" THEN ch.val ELSE m.key
      BY <2>1, ParamApplied
    <2> QED BY <1>3, <2>2, AspectKinds DEF Value, Touches, To
  <1> QED BY <1>1, <1>2, <1>3

LEMMA LockedIs ==
    ASSUME NEW m \in ModesOf, NEW lock, LockType(lock)
    PROVE  Locked(m, lock) <=> \A a \in Aspects : Obeys(lock, a, Value(m, a))
  <1> DEFINE Md(x) == [kind |-> "mode", of |-> x]
             Sl(x) == [kind |-> "slot", of |-> x]
             Ky == [kind |-> "key", of |-> None]
  <1>1. KeyChanges(m, lock) = <<>> <=> lock.key = None \/ m.key = Right(lock.key)
    BY KeysApplied DEF KeysDone
  <1>2. Ky \in Aspects /\ (Obeys(lock, Ky, Value(m, Ky)) <=> lock.key = None \/ m.key = Right(lock.key))
    BY DEF Aspects, Obeys, Value
  <1>3. \A x \in SimpleModes :
           /\ Md(x) \in Aspects
           /\ Obeys(lock, Md(x), Value(m, Md(x))) <=> (x \in lock.on => x \in m.modes) /\ (x \in lock.off => x \notin m.modes)
    BY DEF Aspects, Obeys, Value
  <1>4. \A x \in Slots :
           /\ Sl(x) \in Aspects
           /\ Obeys(lock, Sl(x), Value(m, Sl(x))) <=> lock.slot[x] = None \/ m.slot[x] = Right(lock.slot[x])
    BY DEF Aspects, Obeys, Value
  <1>5. \A x \in Slots : (x \in SlotsToSet(m, lock) \/ x \in SlotsToClear(m, lock))
                            <=> ~(lock.slot[x] = None \/ m.slot[x] = Right(lock.slot[x]))
    <2> SUFFICES ASSUME NEW x \in Slots
                 PROVE  (x \in SlotsToSet(m, lock) \/ x \in SlotsToClear(m, lock))
                            <=> ~(lock.slot[x] = None \/ m.slot[x] = Right(lock.slot[x]))
      OBVIOUS
    <2>1. lock.slot[x] \in {None, Off} \union Values /\ None \notin Values /\ Off \notin Values /\ None # Off
      BY ModesAssumption DEF LockType
    <2>2. x \in SlotsToSet(m, lock) <=> lock.slot[x] \in Values /\ m.slot[x] # lock.slot[x]
      BY DEF SlotsToSet
    <2>3. x \in SlotsToClear(m, lock) <=> lock.slot[x] = Off /\ m.slot[x] # None
      BY DEF SlotsToClear
    <2> QED BY <2>1, <2>2, <2>3 DEF Right
  <1>6. SlotsToSet(m, lock) \subseteq Slots /\ SlotsToClear(m, lock) \subseteq Slots
    BY DEF SlotsToSet, SlotsToClear
  <1>7. lock.on \subseteq SimpleModes /\ lock.off \subseteq SimpleModes
    BY DEF LockType
  <1>8. Locked(m, lock) <=>
           /\ lock.on \subseteq m.modes /\ lock.off \intersect m.modes = {}
           /\ SlotsToSet(m, lock) = {} /\ SlotsToClear(m, lock) = {}
           /\ KeyChanges(m, lock) = <<>>
    BY DEF Locked
  <1>9. ASSUME Locked(m, lock), NEW a \in Aspects PROVE Obeys(lock, a, Value(m, a))
    <2>1. CASE a.kind = "mode"
      BY <1>7, <1>8, <1>9, <2>1 DEF Obeys, Value
    <2>2. CASE a.kind = "slot"
      <3>1. a.of \in Slots
        BY <2>2, AspectKinds
      <3>2. lock.slot[a.of] = None \/ m.slot[a.of] = Right(lock.slot[a.of])
        BY <1>5, <1>8, <1>9, <3>1
      <3> QED BY <2>2, <3>2 DEF Obeys, Value
    <2>3. CASE a.kind = "key"
      BY <1>1, <1>8, <1>9, <2>3 DEF Obeys, Value
    <2> QED BY <2>1, <2>2, <2>3, AspectKinds
  <1>10. ASSUME \A a \in Aspects : Obeys(lock, a, Value(m, a)) PROVE Locked(m, lock)
    <2> HIDE DEF Md, Sl, Ky
    <2>1. lock.on \subseteq m.modes /\ lock.off \intersect m.modes = {}
      BY <1>3, <1>7, <1>10
    <2>2. SlotsToSet(m, lock) = {} /\ SlotsToClear(m, lock) = {}
      <3>1. \A x \in Slots : lock.slot[x] = None \/ m.slot[x] = Right(lock.slot[x])
        BY <1>4, <1>10
      <3> QED BY <1>5, <1>6, <3>1
    <2>3. KeyChanges(m, lock) = <<>>
      BY <1>1, <1>2, <1>10
    <2> QED BY <1>8, <2>1, <2>2, <2>3
  <1> QED BY <1>9, <1>10

\* What check_modes sees wrong with the modes m it puts right in any modes p,
\* and nothing else.
LEMMA LockFixes ==
    ASSUME NEW p \in ModesOf, NEW m \in ModesOf, NEW lock, LockType(lock),
           NEW a \in Aspects
    PROVE  LET r == Applied(p, LockChanges(m, lock))
           IN  IF Obeys(lock, a, Value(m, a)) THEN Value(r, a) = Value(p, a)
               ELSE Obeys(lock, a, Value(r, a))
  <1> DEFINE r == Applied(p, LockChanges(m, lock))
  <1>1. /\ r.modes = (p.modes \union (lock.on \ m.modes)) \ (lock.off \intersect m.modes)
        /\ r.slot = WithSlots(p.slot, LockSlots(m, lock))
        /\ r.key = IF lock.key = None \/ m.key = Right(lock.key) THEN p.key ELSE Right(lock.key)
    <2>1. LockDone(p, m, lock)
      BY LockApplied
    <2> QED BY <2>1 DEF LockDone
  <1> HIDE DEF r
  <1>2. CASE a.kind = "mode"
    <2>1. lock.off \intersect lock.on = {}
      BY DEF LockType
    <2> QED BY <1>1, <1>2, <2>1 DEF Obeys, Value, r
  <1>3. CASE a.kind = "slot"
    <2> DEFINE x == a.of
    <2>1. x \in Slots
      BY <1>3, AspectKinds
    <2>2. lock.slot[x] \in {None, Off} \union Values /\ None \notin Values /\ Off \notin Values /\ None # Off
      BY <2>1, ModesAssumption DEF LockType
    <2>3. x \in Wrong(m, lock) <=> ~(lock.slot[x] = None \/ m.slot[x] = Right(lock.slot[x]))
      BY <2>1, <2>2 DEF Wrong, SlotsToSet, SlotsToClear, Right
    <2>4. r.slot[x] = IF LockSlots(m, lock)[x] # Off THEN LockSlots(m, lock)[x] ELSE p.slot[x]
      BY <1>1, <2>1 DEF WithSlots
    <2>5. LockSlots(m, lock)[x] = IF x \in Wrong(m, lock) THEN Right(lock.slot[x]) ELSE Off
      BY <2>1 DEF LockSlots
    <2>6. Right(lock.slot[x]) # Off
      BY <2>2 DEF Right
    <2>7. IF lock.slot[x] = None \/ m.slot[x] = Right(lock.slot[x]) THEN r.slot[x] = p.slot[x]
          ELSE r.slot[x] = Right(lock.slot[x])
      BY <2>3, <2>4, <2>5, <2>6
    <2> QED BY <1>3, <2>7 DEF Obeys, Value, r
  <1>4. CASE a.kind = "key"
    BY <1>1, <1>4 DEF Obeys, Value, r
  <1> QED BY <1>2, <1>3, <1>4, AspectKinds

\* One of the changes c breaks the lock.
Pending(c, lock, a) == \E k \in 1 .. Len(c) : Touches(c[k], a) /\ ~Obeys(lock, a, To(c[k], a))

LEMMA PendingViolates ==
    ASSUME NEW m \in ModesOf, NEW c \in Seq(Changes), NEW lock, NEW a \in Aspects,
           Obeys(lock, a, Value(m, a)), ~Obeys(lock, a, Value(Applied(m, c), a))
    PROVE  Pending(c, lock, a)
  <1> DEFINE Q(t) == Obeys(lock, a, Value(Applied(m, t), a)) \/ Pending(t, lock, a)
             S == {k \in Nat : \A t \in Seq(Changes) : Len(t) = k => Q(t)}
  <1>1. 0 \in S
    <2>1. \A t \in Seq(Changes) : Len(t) = 0 => t = <<>>
      OBVIOUS
    <2>2. Q(<<>>)
      BY AppliedNone
    <2> HIDE DEF Q
    <2> QED BY <2>1, <2>2
  <1>2. ASSUME NEW k \in Nat, k \in S PROVE k + 1 \in S
    <2> SUFFICES ASSUME NEW t \in Seq(Changes), Len(t) = k + 1 PROVE Q(t)
      OBVIOUS
    <2> DEFINE u == SubSeq(t, 1, k)
               ch == t[k + 1]
    <2>1. u \in Seq(Changes) /\ Len(u) = k /\ ch \in Changes /\ t = Append(u, ch)
      BY LastOf
    <2>2. Q(u)
      BY <1>2, <2>1
    <2>3. \A j \in 1 .. k : u[j] = t[j] /\ j \in 1 .. Len(t)
      OBVIOUS
    <2>4. Pending(u, lock, a) => Pending(t, lock, a)
      BY <2>1, <2>3 DEF Pending
    <2>5. k + 1 \in 1 .. Len(t)
      OBVIOUS
    <2> HIDE DEF u
    <2>6. Touches(ch, a) /\ ~Obeys(lock, a, To(ch, a)) => Pending(t, lock, a)
      BY <2>5 DEF Pending
    <2> HIDE DEF ch
    <2>7. Applied(m, t) = Apply(Applied(m, u), ch) /\ Applied(m, u) \in ModesOf
      BY <2>1, AppliedNext
    <2>8. Value(Applied(m, t), a) = IF Touches(ch, a) THEN To(ch, a) ELSE Value(Applied(m, u), a)
      BY <2>1, <2>7, ValueApplied
    <2> QED BY <2>2, <2>4, <2>6, <2>8
  <1> HIDE DEF S, Q
  <1>3. Nat \subseteq S
    BY <1>1, <1>2, NatInductionSet
  <1>4. Len(c) \in Nat
    OBVIOUS
  <1>5. Len(c) \in S
    BY <1>3, <1>4
  <1> QED BY <1>5 DEF S, Q

LEMMA PendingTail ==
    ASSUME NEW c \in Seq(Changes), c # <<>>, NEW lock, NEW a, Pending(c, lock, a)
    PROVE  Pending(Tail(c), lock, a) \/ (Touches(Head(c), a) /\ ~Obeys(lock, a, To(Head(c), a)))
  <1>1. PICK k \in 1 .. Len(c) : Touches(c[k], a) /\ ~Obeys(lock, a, To(c[k], a))
    BY DEF Pending
  <1>2. CASE k = 1
    <2>1. c[1] = Head(c)
      OBVIOUS
    <2> QED BY <1>1, <1>2, <2>1
  <1>3. CASE k # 1
    <2>1. k - 1 \in 1 .. Len(Tail(c)) /\ Tail(c)[k - 1] = c[k]
      BY <1>3
    <2> QED BY <1>1, <2>1 DEF Pending
  <1> QED BY <1>2, <1>3

LEMMA PendingMore ==
    ASSUME NEW c \in Seq(Changes), NEW ch \in Changes, NEW lock, NEW a
    PROVE  /\ Pending(c, lock, a) => Pending(Append(c, ch), lock, a)
           /\ Touches(ch, a) /\ ~Obeys(lock, a, To(ch, a)) => Pending(Append(c, ch), lock, a)
  <1>1. \A k \in 1 .. Len(c) : k \in 1 .. Len(Append(c, ch)) /\ Append(c, ch)[k] = c[k]
    OBVIOUS
  <1>2. Len(c) + 1 \in 1 .. Len(Append(c, ch)) /\ Append(c, ch)[Len(c) + 1] = ch
    OBVIOUS
  <1> DEFINE d == Append(c, ch)
  <1>3. (\A k \in 1 .. Len(c) : k \in 1 .. Len(d) /\ d[k] = c[k]) /\ Len(c) + 1 \in 1 .. Len(d) /\ d[Len(c) + 1] = ch
    BY <1>1, <1>2
  <1> HIDE DEF d
  <1>4. /\ Pending(c, lock, a) => Pending(d, lock, a)
        /\ Touches(ch, a) /\ ~Obeys(lock, a, To(ch, a)) => Pending(d, lock, a)
    BY <1>3 DEF Pending
  <1> QED BY <1>4 DEF d

\* The modes w obey the lock but for what the changes c break.
Obedient(lock, w, c) == \A a \in Aspects : Obeys(lock, a, Value(w, a)) \/ Pending(c, lock, a)

LEMMA OursObedient ==
    ASSUME NEW m \in ModesOf, NEW w \in ModesOf, NEW ch \in Changes,
           NEW lock, LockType(lock), NEW c, Obedient(lock, w, c), Locked(Apply(m, ch), lock)
    PROVE  Obedient(lock, Applied(w, <<ch>>), c)
  <1>1. Applied(w, <<ch>>) = Apply(w, ch) /\ Apply(m, ch) \in ModesOf
    BY AppliedOne, ApplyType
  <1>2. ASSUME NEW a \in Aspects
        PROVE  Obeys(lock, a, Value(Apply(w, ch), a)) \/ Pending(c, lock, a)
    <2>1. Obeys(lock, a, Value(Apply(m, ch), a))
      BY <1>1, LockedIs
    <2>2. /\ Value(Apply(m, ch), a) = IF Touches(ch, a) THEN To(ch, a) ELSE Value(m, a)
          /\ Value(Apply(w, ch), a) = IF Touches(ch, a) THEN To(ch, a) ELSE Value(w, a)
      BY ValueApplied
    <2>3. Obeys(lock, a, Value(w, a)) \/ Pending(c, lock, a)
      BY DEF Obedient
    <2> QED BY <2>1, <2>2, <2>3
  <1> QED BY <1>1, <1>2 DEF Obedient

\* Modes that check_modes has put right obey the lock.
LEMMA LockedChecked ==
    ASSUME NEW m \in ModesOf, NEW lock, LockType(lock)
    PROVE  Locked(Applied(m, LockChanges(m, lock)), lock)
  <1> DEFINE r == Applied(m, LockChanges(m, lock))
  <1>1. r \in ModesOf
    <2>1. LockDone(m, m, lock)
      BY LockApplied
    <2> QED BY <2>1 DEF LockDone
  <1>2. \A a \in Aspects : Obeys(lock, a, Value(r, a))
    BY LockFixes
  <1> HIDE DEF r
  <1>3. Locked(r, lock)
    BY <1>1, <1>2, LockedIs
  <1> QED BY <1>3 DEF r

\* A lock is set when services and the server agree but for the changes c.
LEMMA SetObedient ==
    ASSUME NEW m \in ModesOf, NEW c \in Seq(Changes), NEW lock, LockType(lock)
    PROVE  Obedient(lock, Applied(Applied(m, c), LockChanges(m, lock)), c)
  <1> DEFINE w == Applied(m, c)
             r == Applied(w, LockChanges(m, lock))
  <1>1. w \in ModesOf
    <2>1. <<>> \in Seq(Changes)
      OBVIOUS
    <2> QED BY <2>1, AppliedAll
  <1>2. ASSUME NEW a \in Aspects PROVE Obeys(lock, a, Value(r, a)) \/ Pending(c, lock, a)
    <2>1. Obeys(lock, a, Value(m, a)) /\ ~Obeys(lock, a, Value(w, a)) => Pending(c, lock, a)
      BY PendingViolates
    <2> HIDE DEF w
    <2>2. IF Obeys(lock, a, Value(m, a)) THEN Value(r, a) = Value(w, a)
          ELSE Obeys(lock, a, Value(r, a))
      BY <1>1, LockFixes
    <2> QED BY <2>1, <2>2
  <1> HIDE DEF r
  <1>3. Obedient(lock, r, c)
    BY <1>2 DEF Obedient
  <1> QED BY <1>3 DEF r

\* A change of the server's arrives, and is checked against the lock if it
\* changed more than a list.
LEMMA TheirsObedient ==
    ASSUME NEW m \in ModesOf, NEW w \in ModesOf, NEW lock, LockType(lock),
           NEW c \in Seq(Changes), c # <<>>, Locked(m, lock)
    PROVE  LET s == Apply(m, Head(c))
           IN  /\ Obedient(lock, w, c) => Obedient(lock, Applied(w, LockChanges(s, lock)), Tail(c))
               /\ [s EXCEPT !.list = m.list] = m =>
                     Locked(s, lock) /\ (Obedient(lock, w, c) => Obedient(lock, w, Tail(c)))
  <1> DEFINE h == Head(c)
             s == Apply(m, h)
  <1>1. h \in Changes
    OBVIOUS
  <1> HIDE DEF h
  <1>2. s \in ModesOf /\ \A a \in Aspects : Value(s, a) = IF Touches(h, a) THEN To(h, a) ELSE Value(m, a)
    BY <1>1, ApplyType, ValueApplied
  <1> HIDE DEF s
  <1>3. \A a \in Aspects : Pending(c, lock, a) => Pending(Tail(c), lock, a) \/ ~Obeys(lock, a, Value(s, a))
    <2>1. \A a \in Aspects : Pending(c, lock, a) =>
             Pending(Tail(c), lock, a) \/ (Touches(h, a) /\ ~Obeys(lock, a, To(h, a)))
      BY PendingTail DEF h
    <2> QED BY <1>2, <2>1
  <1>4. ASSUME Obedient(lock, w, c) PROVE Obedient(lock, Applied(w, LockChanges(s, lock)), Tail(c))
    <2> DEFINE r == Applied(w, LockChanges(s, lock))
    <2>1. \A a \in Aspects : IF Obeys(lock, a, Value(s, a)) THEN Value(r, a) = Value(w, a)
                             ELSE Obeys(lock, a, Value(r, a))
      BY <1>2, LockFixes
    <2> HIDE DEF r
    <2>2. Obedient(lock, r, Tail(c))
      BY <1>3, <1>4, <2>1 DEF Obedient
    <2> QED BY <2>2 DEF r
  <1>5. ASSUME [s EXCEPT !.list = m.list] = m
        PROVE  Locked(s, lock) /\ (Obedient(lock, w, c) => Obedient(lock, w, Tail(c)))
    <2>1. s.modes = m.modes /\ s.slot = m.slot /\ s.key = m.key
      BY <1>2, <1>5 DEF ModesOf
    <2>2. \A a \in Aspects : Value(s, a) = Value(m, a)
      BY <2>1 DEF Value
    <2>3. \A a \in Aspects : Obeys(lock, a, Value(s, a))
      BY <2>2, LockedIs
    <2>4. Locked(s, lock)
      BY <1>2, <2>3, LockedIs
    <2> QED BY <1>3, <2>3, <2>4 DEF Obedient
  <1> QED BY <1>4, <1>5 DEF s, h

\* The modes n are the modes m, but for what the change ch touches.
Drifts(m, n, ch) ==
    \A a \in Aspects : Value(n, a) = Value(m, a) \/ (Touches(ch, a) /\ Value(n, a) = To(ch, a))

LEMMA DriftApplied ==
    ASSUME NEW m \in ModesOf, NEW n \in ModesOf, NEW ch, Drifts(m, n, ch), NEW d \in Changes
    PROVE  Drifts(Apply(m, d), Apply(n, d), ch)
  <1>1. \A a \in Aspects :
           /\ Value(Apply(m, d), a) = IF Touches(d, a) THEN To(d, a) ELSE Value(m, a)
           /\ Value(Apply(n, d), a) = IF Touches(d, a) THEN To(d, a) ELSE Value(n, a)
    BY ValueApplied
  <1> QED BY <1>1 DEF Drifts

LEMMA DriftLine ==
    ASSUME NEW m \in ModesOf, NEW n \in ModesOf, NEW ch, Drifts(m, n, ch), NEW s \in Seq(Changes)
    PROVE  Drifts(Applied(m, s), Applied(n, s), ch)
  <1> DEFINE Q(t) == Drifts(Applied(m, t), Applied(n, t), ch)
             S == {k \in Nat : \A t \in Seq(Changes) : Len(t) = k => Q(t)}
  <1>1. 0 \in S
    <2>1. \A t \in Seq(Changes) : Len(t) = 0 => t = <<>>
      OBVIOUS
    <2>2. Q(<<>>)
      BY AppliedNone
    <2> HIDE DEF Q
    <2> QED BY <2>1, <2>2
  <1>2. ASSUME NEW k \in Nat, k \in S PROVE k + 1 \in S
    <2> SUFFICES ASSUME NEW t \in Seq(Changes), Len(t) = k + 1 PROVE Q(t)
      OBVIOUS
    <2> DEFINE u == SubSeq(t, 1, k)
               d == t[k + 1]
    <2>1. u \in Seq(Changes) /\ Len(u) = k /\ d \in Changes /\ t = Append(u, d)
      BY LastOf
    <2>2. Q(u)
      BY <1>2, <2>1
    <2> HIDE DEF u, d
    <2>3. /\ Applied(m, t) = Apply(Applied(m, u), d) /\ Applied(m, u) \in ModesOf
          /\ Applied(n, t) = Apply(Applied(n, u), d) /\ Applied(n, u) \in ModesOf
      BY <2>1, AppliedNext
    <2> DEFINE p == Applied(m, u)
               q == Applied(n, u)
    <2>4. p \in ModesOf /\ q \in ModesOf /\ Drifts(p, q, ch)
      BY <2>2, <2>3
    <2> HIDE DEF p, q
    <2>5. Drifts(Apply(p, d), Apply(q, d), ch)
      BY <2>1, <2>4, DriftApplied
    <2> QED BY <2>3, <2>5 DEF p, q
  <1> HIDE DEF S, Q
  <1>3. Nat \subseteq S
    BY <1>1, <1>2, NatInductionSet
  <1>4. Len(s) \in Nat
    OBVIOUS
  <1>5. Len(s) \in S
    BY <1>3, <1>4
  <1> QED BY <1>5 DEF S, Q

LEMMA DriftMerged ==
    ASSUME NEW m \in ModesOf, NEW n \in ModesOf, NEW ch, Drifts(m, n, ch),
           NEW st \in Stacks
    PROVE  Drifts(Merged(m, st), Merged(n, st), ch)
  <1>1. /\ Line(st) \in Seq(Changes) /\ Applied(m, Line(st)) = Merged(m, st)
        /\ Applied(n, Line(st)) = Merged(n, st)
    BY LineApplied
  <1>2. Drifts(Applied(m, Line(st)), Applied(n, Line(st)), ch)
    BY <1>1, DriftLine
  <1> QED BY <1>1, <1>2

\* A server whose users have changed a mode, and as it was before.
Drifted(i, j, ch) == i.users /\ j.users /\ Drifts(i.m, j.m, ch)

LEMMA DriftReceived ==
    ASSUME NEW i \in Servers, NEW j \in Servers, NEW ch, Drifted(i, j, ch), NEW msg \in Lines
    PROVE  Drifted(Receive(i, msg), Receive(j, msg), ch)
  <1>0. i.users /\ j.users /\ i.alive /\ j.alive /\ Drifts(i.m, j.m, ch) /\ i.m \in ModesOf /\ j.m \in ModesOf
    BY ServerType DEF Drifted
  <1>1. ASSUME NEW s \in Seq(Changes), msg = [modes |-> s]
        PROVE  Drifted(Receive(i, msg), Receive(j, msg), ch)
    <2> DEFINE p == Receive(i, [modes |-> s])
               q == Receive(j, [modes |-> s])
    <2>1. p.users = i.users /\ (i.alive => p.m = Applied(i.m, s))
      BY ModesReceived
    <2>2. q.users = j.users /\ (j.alive => q.m = Applied(j.m, s))
      BY ModesReceived
    <2> HIDE DEF p, q
    <2>3. Drifts(Applied(i.m, s), Applied(j.m, s), ch)
      BY <1>0, DriftLine
    <2>4. Drifted(p, q, ch)
      BY <1>0, <2>1, <2>2, <2>3 DEF Drifted
    <2> QED BY <1>1, <2>4 DEF p, q
  <1>2. ASSUME msg = [leave |-> TRUE] PROVE Drifted(Receive(i, msg), Receive(j, msg), ch)
    <2> DEFINE p == Receive(i, [leave |-> TRUE])
               q == Receive(j, [leave |-> TRUE])
    <2>1. p.users = i.users /\ p.m = i.m
      BY LeaveReceived
    <2>2. q.users = j.users /\ q.m = j.m
      BY LeaveReceived
    <2> HIDE DEF p, q
    <2>3. Drifted(p, q, ch)
      BY <1>0, <2>1, <2>2 DEF Drifted
    <2> QED BY <1>2, <2>3 DEF p, q
  <1>3. CASE \E s \in Seq(Changes) : msg = [modes |-> s]
    <2>1. PICK s \in Seq(Changes) : msg = [modes |-> s]
      BY <1>3
    <2> QED BY <1>1, <2>1
  <1> QED BY <1>2, <1>3, LineKinds

LEMMA DriftSent ==
    ASSUME NEW i \in Servers, NEW j \in Servers, NEW ch, Drifted(i, j, ch), NEW s \in Seq(Lines)
    PROVE  Drifted(Sent(i, s), Sent(j, s), ch)
  <1> DEFINE Q(t) == Drifted(Sent(i, t), Sent(j, t), ch)
             S == {k \in Nat : \A t \in Seq(Lines) : Len(t) = k => Q(t)}
  <1>1. 0 \in S
    <2>1. \A t \in Seq(Lines) : Len(t) = 0 => t = <<>>
      OBVIOUS
    <2>2. Q(<<>>)
      BY SentNone
    <2> HIDE DEF Q
    <2> QED BY <2>1, <2>2
  <1>2. ASSUME NEW k \in Nat, k \in S PROVE k + 1 \in S
    <2> SUFFICES ASSUME NEW t \in Seq(Lines), Len(t) = k + 1 PROVE Q(t)
      OBVIOUS
    <2> DEFINE u == SubSeq(t, 1, k)
               msg == t[k + 1]
    <2>1. u \in Seq(Lines) /\ Len(u) = k /\ msg \in Lines /\ t = Append(u, msg)
      BY LastOf
    <2>2. Q(u)
      BY <1>2, <2>1
    <2> HIDE DEF u, msg
    <2>3. u \in Seq(Msgs) /\ msg \in Msgs
      BY <2>1 DEF Msgs
    <2>4. Sent(i, t) = Receive(Sent(i, u), msg) /\ Sent(i, u) \in Servers
          /\ Sent(j, t) = Receive(Sent(j, u), msg) /\ Sent(j, u) \in Servers
      BY <2>1, <2>3, SentNext
    <2> DEFINE p == Sent(i, u)
               q == Sent(j, u)
    <2>5. p \in Servers /\ q \in Servers /\ Drifted(p, q, ch)
      BY <2>2, <2>4
    <2> HIDE DEF p, q
    <2>6. Drifted(Receive(p, msg), Receive(q, msg), ch)
      BY <2>1, <2>5, DriftReceived
    <2> QED BY <2>4, <2>6 DEF p, q
  <1> HIDE DEF S, Q
  <1>3. Nat \subseteq S
    BY <1>1, <1>2, NatInductionSet
  <1>4. Len(s) \in Nat
    OBVIOUS
  <1>5. Len(s) \in S
    BY <1>3, <1>4
  <1> QED BY <1>5 DEF S, Q

\* A change of the server's users breaks the lock only where it is reported.
LEMMA DriftObedient ==
    ASSUME NEW m, NEW n, NEW ch \in Changes, Drifts(m, n, ch),
           NEW lock, NEW c \in Seq(Changes), Obedient(lock, m, c)
    PROVE  Obedient(lock, n, Append(c, ch))
  <1> SUFFICES ASSUME NEW a \in Aspects
               PROVE  Obeys(lock, a, Value(n, a)) \/ Pending(Append(c, ch), lock, a)
    BY DEF Obedient
  <1>1. Obeys(lock, a, Value(m, a)) \/ Pending(c, lock, a)
    BY DEF Obedient
  <1>2. Value(n, a) = Value(m, a) \/ (Touches(ch, a) /\ Value(n, a) = To(ch, a))
    BY DEF Drifts
  <1>3. /\ Pending(c, lock, a) => Pending(Append(c, ch), lock, a)
        /\ Touches(ch, a) /\ ~Obeys(lock, a, To(ch, a)) => Pending(Append(c, ch), lock, a)
    BY PendingMore
  <1> QED BY <1>1, <1>2, <1>3

-----------------------------------------------------------------------------
(* The server's channel obeys the lock. *)

\* What the server will have obeys the lock, but for what the reports under way
\* break.
Obeyed(c) ==
    sound /\ ~lost /\ chan # None /\ Future.alive => Obedient(mlock, Ahead(Future, Handled), c)

LockInv ==
    /\ chan # None => Locked(chan, mlock)
    /\ \E c \in Seq(Changes) : Reports(c) /\ Obeyed(c)

LEMMA SameReports ==
    ASSUME NEW c \in Seq(Changes), NEW d \in Seq(Changes), Reports(c), Reports(d)
    PROVE  c = d
  <1>1. Part \notin Changes
    BY DEF Part, Changes
  <1>2. \A u \in Seq(Changes) : Len(Append(u, Part)) = Len(u) + 1 /\ Append(u, Part)[Len(u) + 1] = Part
    OBVIOUS
  <1>3. \A u, v \in Seq(Changes) : u # Append(v, Part)
    <2> SUFFICES ASSUME NEW u \in Seq(Changes), NEW v \in Seq(Changes), u = Append(v, Part) PROVE FALSE
      OBVIOUS
    <2>1. Len(u) = Len(v) + 1 /\ u[Len(v) + 1] = Part /\ Len(v) \in Nat
      BY <1>2
    <2>2. u[Len(v) + 1] \in Changes
      BY <2>1
    <2> QED BY <1>1, <2>1, <2>2
  <1>4. \A u, v \in Seq(Changes) : Append(u, Part) = Append(v, Part) => u = v
    <2>1. \A u \in Seq(Changes) : SubSeq(Append(u, Part), 1, Len(Append(u, Part)) - 1) = u
      OBVIOUS
    <2> HIDE DEF Part
    <2> QED BY <2>1, Zenon
  <1> QED BY <1>3, <1>4 DEF Reports

\* What a handler leaves behind, seen from the server.
LEMMA AheadLeft ==
    ASSUME ModesTypeOK, NEW t \in Handlers, Finish(t), ircd' = ircd
    PROVE  /\ chan' = t.chan /\ lost' = t.lost /\ Future' = After(Future, t)
           /\ Ahead(Future', Handled') = Ahead(Future, t)
  <1>1. /\ chan' = t.chan /\ stack' = t.stack /\ lost' = t.lost /\ Future' = After(Future, t)
    BY Settled
  <1>2. Handled'.out = <<>> /\ Handled'.stack = t.stack
    BY <1>1 DEF Handled
  <1>3. Future' \in Servers
    BY <1>1, FutureType, AfterType
  <1>4. After(Future', Handled') = Future'
    BY <1>2, <1>3, SentNone DEF After
  <1> QED BY <1>1, <1>2, <1>4 DEF Ahead

\* A handler that makes the changes q and keeps the channel.
LEMMA HandlerLocks ==
    ASSUME ModesTypeOK, chan # None, NEW s \in LineHandlers, NEW t, NEW q, Goes(Future, s, t, q),
           Finish(t), ircd' = ircd, s.lost = lost, After(Future, s).alive => Future.alive,
           NEW c \in Seq(Changes), Reports(c)',
           Locked(t.chan, mlock'),
           sound' /\ ~lost /\ Future.alive => Obedient(mlock', Applied(Ahead(Future, s), q), c)
    PROVE  LockInv'
  <1>1. t \in Handlers /\ (lost => t.lost) /\ (After(Future, t).alive => After(Future, s).alive)
        /\ (~t.lost /\ After(Future, t).alive => Ahead(Future, t) = Applied(Ahead(Future, s), q))
    BY DEF Goes, LineHandlers
  <1>2. /\ chan' = t.chan /\ lost' = t.lost /\ Future' = After(Future, t)
        /\ Ahead(Future', Handled') = Ahead(Future, t)
    BY <1>1, AheadLeft
  <1>3. ASSUME sound', ~lost', Future'.alive PROVE Obedient(mlock', Ahead(Future', Handled'), c)
    <2>1. ~t.lost /\ After(Future, t).alive
      BY <1>2, <1>3
    <2>2. Ahead(Future', Handled') = Applied(Ahead(Future, s), q)
      BY <1>1, <1>2, <2>1
    <2>3. Obedient(mlock', Applied(Ahead(Future, s), q), c)
      BY <1>1, <1>3, <2>1
    <2> QED BY <2>2, <2>3
  <1>4. Obeyed(c)'
    BY <1>3 DEF Obeyed
  <1>5. chan' # None => Locked(chan', mlock')
    BY <1>2
  <1> QED BY <1>4, <1>5 DEF LockInv

LEMMA OursLocks ==
    ASSUME ModesInv, LockInv, NEW ch \in OurChanges, channel_mode_ours(ch)
    PROVE  LockInv'
  <1> DEFINE t == ModeChange(Handler, ch)
  <1>1. /\ chan # None /\ Finish(t) /\ Locked(Apply(chan, ch), mlock)
        /\ mlock' = mlock /\ toUs' = toUs /\ ircd' = ircd /\ sound' = sound
    BY DEF channel_mode_ours
  <1>2. PICK c \in Seq(Changes) : Reports(c) /\ Obeyed(c)
    BY DEF LockInv
  <1>3. ModesTypeOK /\ LockType(mlock)
    BY LocksAre DEF ModesInv, ModesTypeOK
  <1>4. /\ Handled \in LineHandlers /\ Future \in Servers /\ Handler = Handled /\ ch \in Changes
        /\ Handled \in Handlers /\ chan \in ModesOf /\ After(Future, Handled) = Future
    BY <1>1, <1>3, FutureType, ModesAssumption DEF LineHandlers, ModesTypeOK
  <1>5. Goes(Future, Handled, t, <<ch>>)
    BY <1>4, ChangeGoes
  <1> HIDE DEF t
  <1>6. Handled.lost = lost /\ Handled.chan = chan
    BY DEF Handled
  <1>7. t.chan = Apply(chan, ch)
    BY <1>4, <1>5, <1>6, AppliedOne DEF Goes
  <1>8. Reports(c)'
    BY <1>1, <1>2 DEF Reports
  <1> DEFINE w == Ahead(Future, Handled)
  <1>9. w \in ModesOf
    BY <1>4, AheadType
  <1>10. ASSUME sound', ~lost, Future.alive PROVE Obedient(mlock', Applied(w, <<ch>>), c)
    <2>1. Obedient(mlock, w, c)
      BY <1>1, <1>2, <1>10 DEF Obeyed
    <2> HIDE DEF w
    <2>2. Obedient(mlock, Applied(w, <<ch>>), c)
      BY <1>1, <1>3, <1>4, <1>9, <2>1, OursObedient
    <2> QED BY <1>1, <2>2
  <1> QED BY <1>1, <1>3, <1>4, <1>5, <1>6, <1>7, <1>8, <1>10, HandlerLocks

LEMMA TheirsLocks ==
    ASSUME ModesInv, LockInv, channel_mode
    PROVE  LockInv'
  <1>1. /\ toUs # <<>> /\ Head(toUs).kind # "part" /\ toUs' = Tail(toUs)
        /\ mlock' = mlock /\ ircd' = ircd /\ sound' = sound
    BY DEF channel_mode
  <1>2. PICK c \in Seq(Changes) : Reports(c) /\ Obeyed(c)
    BY DEF LockInv
  <1>3. ModesTypeOK /\ LockType(mlock)
    BY LocksAre DEF ModesInv, ModesTypeOK
  <1> DEFINE h == Head(c)
             r == Tail(c)
  <1>4. /\ c # <<>> /\ Head(toUs) = h /\ h \in Changes /\ r \in Seq(Changes)
        /\ toUs' = r \/ (~ircd.users /\ toUs' = Append(r, Part))
    BY <1>1, <1>2, HeadReported
  <1>5. Reports(r)'
    BY <1>1, <1>4 DEF Reports
  <1>6. chan # None /\ Locked(chan, mlock)
    BY <1>1, <1>3 DEF ModesTypeOK, LockInv
  <1>7. Handled \in LineHandlers /\ Handled \in Handlers /\ Handler = Handled /\ Future \in Servers
        /\ After(Future, Handled) = Future /\ chan \in ModesOf
    BY <1>3, <1>6, FutureType DEF LineHandlers, ModesTypeOK
  <1> DEFINE m == Apply(chan, h)
             s == [Handled EXCEPT !.chan = m]
             w == Ahead(Future, Handled)
             plain == [m EXCEPT !.list = chan.list] = chan
             t == IF plain THEN s ELSE check_modes(s, mlock)
  <1>8. m \in ModesOf
    <2> HIDE DEF h
    <2> QED BY <1>4, <1>7, ApplyType
  <1>9. w \in ModesOf
    BY <1>7, AheadType
  <1>10. /\ Obedient(mlock, w, c) => Obedient(mlock, Applied(w, LockChanges(m, mlock)), r)
         /\ plain => Locked(m, mlock) /\ (Obedient(mlock, w, c) => Obedient(mlock, w, r))
    <2> HIDE DEF w
    <2> QED BY <1>3, <1>4, <1>6, <1>7, <1>9, TheirsObedient
  <1>11. Finish(t)
    <2>1. [Handler EXCEPT !.chan = Apply(@, Head(toUs))] = s
      BY <1>4, <1>7 DEF Handled
    <2>2. s.chan = m
      BY DEF Handled
    <2> HIDE DEF s, m
    <2>3. Finish(IF [s.chan EXCEPT !.list = chan.list] # chan THEN check_modes(s, mlock) ELSE s)
      BY <1>6, <2>1 DEF channel_mode
    <2> QED BY <2>2, <2>3
  <1> HIDE DEF m, h, r
  <1>12. /\ s \in LineHandlers /\ s \in Handlers /\ s.chan = m /\ s.lost = lost /\ s.stack = stack /\ s.out = <<>>
    BY <1>7, <1>8 DEF Handled, LineHandlers, Handlers
  <1> HIDE DEF s
  <1>13. After(Future, s) = Future /\ Ahead(Future, s) = w
    <2>1. After(Future, s) = Future
      BY <1>7, <1>12, SentNone DEF After
    <2>2. Handled.stack = stack
      BY DEF Handled
    <2> QED BY <1>7, <1>12, <2>1, <2>2 DEF Ahead
  <1>14. sound' /\ ~lost /\ Future.alive => Obedient(mlock, w, c)
    BY <1>1, <1>2, <1>6 DEF Obeyed
  <1> HIDE DEF w
  <1>15. CASE plain
    <2>1. t = s
      BY <1>15
    <2>2. Goes(Future, s, s, <<>>)
      BY <1>7, <1>12, Stays
    <2>3. sound' /\ ~lost /\ Future.alive => Obedient(mlock', Applied(w, <<>>), r)
      BY <1>1, <1>9, <1>10, <1>14, <1>15, AppliedNone
    <2>4. Locked(s.chan, mlock')
      BY <1>1, <1>10, <1>12, <1>15
    <2> HIDE DEF t, plain
    <2>5. Finish(s)
      BY <1>11, <2>1
    <2> QED BY <1>1, <1>3, <1>4, <1>5, <1>6, <1>12, <1>13, <2>2, <2>3, <2>4, <2>5, HandlerLocks
  <1>16. CASE ~plain
    <2> DEFINE u == check_modes(s, mlock)
               q == LockChanges(m, mlock)
    <2>1. t = u
      BY <1>16
    <2>2. Goes(Future, s, u, q)
      BY <1>3, <1>7, <1>12, CheckGoes
    <2> HIDE DEF u, t, plain
    <2>3. sound' /\ ~lost /\ Future.alive => Obedient(mlock', Applied(w, q), r)
      BY <1>1, <1>10, <1>14
    <2>4. Locked(u.chan, mlock')
      <3>1. u.chan = Applied(m, q)
        BY <1>12, <2>2 DEF Goes
      <3> QED BY <1>1, <1>3, <1>8, <3>1, LockedChecked
    <2> HIDE DEF q
    <2>5. Finish(u)
      BY <1>11, <2>1
    <2> QED BY <1>1, <1>3, <1>4, <1>5, <1>6, <1>12, <1>13, <2>2, <2>3, <2>4, <2>5, HandlerLocks
  <1> QED BY <1>15, <1>16

LEMMA MlockLocks ==
    ASSUME ModesInv, LockInv, NEW lock \in Locks, cs_cmd_set_mlock(lock)
    PROVE  LockInv'
  <1>1. mlock' = lock /\ toUs' = toUs /\ ircd' = ircd /\ sound' = ~crossed
    BY DEF cs_cmd_set_mlock
  <1>2. PICK c \in Seq(Changes) : Waits(c)
    BY DEF ModesInv
  <1>3. ModesTypeOK /\ Reports(c) /\ LockType(lock)
    BY <1>2, LocksAre DEF ModesInv, Waits
  <1>4. Reports(c)'
    BY <1>1, <1>3 DEF Reports
  <1>5. CASE chan = None
    <2>1. chan' = None
      BY <1>5 DEF cs_cmd_set_mlock
    <2> QED BY <1>4, <2>1 DEF LockInv, Obeyed
  <1>6. CASE chan # None
    <2> DEFINE t == check_modes(Handled, lock)
               q == LockChanges(chan, lock)
               w == Ahead(Future, Handled)
    <2>1. Handled \in LineHandlers /\ Handled \in Handlers /\ Handler = Handled /\ Future \in Servers
          /\ chan \in ModesOf /\ After(Future, Handled) = Future
      BY <1>3, <1>6, FutureType DEF LineHandlers, ModesTypeOK
    <2>2. Finish(t)
      BY <1>6, <2>1 DEF cs_cmd_set_mlock
    <2>3. Handled.lost = lost /\ Handled.chan = chan /\ Handled.stack = stack
      BY DEF Handled
    <2>4. Goes(Future, Handled, t, q)
      BY <1>3, <2>1, <2>3, CheckGoes
    <2> HIDE DEF t
    <2>5. ASSUME sound', ~lost, Future.alive PROVE Obedient(mlock', Applied(w, q), c)
      <3>1. Agrees(Future, Handled, c)
        BY <1>1, <1>2, <1>6, <2>5 DEF Waits
      <3>2. Applied(chan, c) = w
        BY <2>1, <2>3, <2>5, <3>1 DEF Agrees, Ahead
      <3> HIDE DEF w
      <3>3. Obedient(lock, Applied(Applied(chan, c), q), c)
        BY <1>3, <2>1, SetObedient
      <3> QED BY <1>1, <3>2, <3>3
    <2>6. Locked(t.chan, mlock')
      <3>1. t.chan = Applied(chan, q)
        BY <2>3, <2>4 DEF Goes
      <3> QED BY <1>1, <1>3, <2>1, <3>1, LockedChecked
    <2> HIDE DEF q
    <2> QED BY <1>1, <1>3, <1>4, <1>6, <2>1, <2>2, <2>3, <2>4, <2>5, <2>6, HandlerLocks
  <1> QED BY <1>5, <1>6

LEMMA FlushLocks ==
    ASSUME ModesInv, LockInv, modestack_flush_callback
    PROVE  LockInv'
  <1> DEFINE t == modestack_flush(Handled)
             w == Ahead(Future, Handled)
  <1>1. /\ ~Empty(stack) /\ mlock' = mlock /\ toUs' = toUs /\ ircd' = ircd /\ sound' = sound
    BY DEF modestack_flush_callback
  <1>2. PICK c \in Seq(Changes) : Reports(c) /\ Obeyed(c)
    BY DEF LockInv
  <1>3. ModesTypeOK
    BY DEF ModesInv
  <1>4. chan # None /\ Locked(chan, mlock)
    BY <1>1, <1>3 DEF ModesTypeOK, LockInv
  <1>5. Handled \in LineHandlers /\ Handled \in Handlers /\ Handler = Handled /\ Future \in Servers
        /\ chan \in ModesOf /\ After(Future, Handled) = Future
    BY <1>3, <1>4, FutureType DEF LineHandlers, ModesTypeOK
  <1>6. Finish(t)
    BY <1>5 DEF modestack_flush_callback
  <1>7. Goes(Future, Handled, t, <<>>)
    BY <1>5, FlushGoes
  <1> HIDE DEF t
  <1>8. Handled.lost = lost /\ Handled.chan = chan
    BY DEF Handled
  <1>9. t.chan = chan
    BY <1>5, <1>7, <1>8, AppliedNone DEF Goes
  <1>10. Reports(c)'
    BY <1>1, <1>2 DEF Reports
  <1>11. Applied(w, <<>>) = w
    BY <1>5, AheadType, AppliedNone
  <1>12. sound' /\ ~lost /\ Future.alive => Obedient(mlock', Applied(w, <<>>), c)
    <2>1. sound /\ ~lost /\ Future.alive => Obedient(mlock, w, c)
      BY <1>2, <1>4 DEF Obeyed
    <2> HIDE DEF w
    <2> QED BY <1>1, <1>11, <2>1
  <1>13. Locked(t.chan, mlock')
    BY <1>1, <1>4, <1>9
  <1> QED BY <1>1, <1>3, <1>4, <1>5, <1>6, <1>7, <1>8, <1>10, <1>12, <1>13, HandlerLocks

\* Steps that leave the stack and what services believe alone, and bring the
\* server to the same modes if it lives.
LEMMA SameAhead ==
    ASSUME ModesTypeOK, ModesTypeOK', LockInv, chan' = chan \/ chan' = None, mlock' = mlock,
           stack' = stack, lost => lost', sound' = sound,
           NEW c \in Seq(Changes), Reports(c), Reports(c)',
           Future'.alive => Future.alive /\ Future'.m = Future.m
    PROVE  LockInv'
  <1>1. PICK d \in Seq(Changes) : Reports(d) /\ Obeyed(d)
    BY DEF LockInv
  <1>2. Obeyed(c)
    BY <1>1, SameReports
  <1>3. Future \in Servers /\ Future' \in Servers
    <2>1. Future \in Servers
      BY FutureType
    <2>2. Future' \in Servers
      <3>1. ircd' \in Servers /\ toIrcd' \in Seq(Msgs) /\ <<>> \in Seq(Msgs)
        BY DEF ModesTypeOK
      <3> QED BY <3>1, SentAll DEF Future
    <2> QED BY <2>1, <2>2
  <1>4. After(Future, Handled) = Future /\ After(Future', Handled') = Future'
        /\ Handled.stack = stack /\ Handled'.stack = stack
    <2>1. Handled.out = <<>> /\ Handled'.out = <<>> /\ Handled.stack = stack /\ Handled'.stack = stack
      BY DEF Handled
    <2> QED BY <1>3, <2>1, SentNone DEF After
  <1>5. ASSUME sound', ~lost', chan' # None, Future'.alive
        PROVE  Obedient(mlock', Ahead(Future', Handled'), c)
    <2>1. Obedient(mlock, Ahead(Future, Handled), c)
      BY <1>2, <1>5 DEF Obeyed
    <2>2. Ahead(Future', Handled') = Ahead(Future, Handled)
      BY <1>4, <1>5 DEF Ahead
    <2> QED BY <2>1, <2>2
  <1>6. Obeyed(c)'
    BY <1>5 DEF Obeyed
  <1>7. chan' # None => Locked(chan', mlock')
    BY DEF LockInv
  <1> QED BY <1>6, <1>7 DEF LockInv

LEMMA PartLocks ==
    ASSUME ModesInv, ModesInv', LockInv, chanuser_delete
    PROVE  LockInv'
  <1> DEFINE o == IF bot THEN <<[leave |-> TRUE]>> ELSE <<>>
             s == [Handled EXCEPT !.out = o]
             v == IF chan.modes \intersect PermModes # {} THEN s
                  ELSE [modestack_finalize_channel(s) EXCEPT !.chan = None]
  <1>1. /\ toUs # <<>> /\ Head(toUs).kind = "part" /\ toUs' = Tail(toUs)
        /\ mlock' = mlock /\ ircd' = ircd /\ sound' = sound
    BY DEF chanuser_delete
  <1>2. PICK c \in Seq(Changes) : Reports(c) /\ Obeyed(c)
    BY DEF LockInv
  <1>3. ModesTypeOK /\ ModesTypeOK'
    BY DEF ModesInv
  <1>4. c = <<>> /\ toUs' = <<>> /\ chan # None
    BY <1>1, <1>2, <1>3, HeadReported DEF ModesTypeOK
  <1>5. Reports(c)'
    BY <1>4 DEF Reports
  <1>6. Future \in Servers /\ Handler = Handled
    BY <1>3, <1>4, FutureType
  <1>7. Finish(v)
    <2>1. [Handler EXCEPT !.out = IF bot THEN <<[leave |-> TRUE]>> ELSE <<>>] = s
      BY <1>6 DEF o
    <2> HIDE DEF s
    <2> QED BY <2>1 DEF chanuser_delete
  <1>8. CASE chan.modes \intersect PermModes # {}
    <2>1. Finish(s)
      BY <1>7, <1>8
    <2>2. s.chan = chan /\ s.stack = stack /\ s.lost = lost /\ s.out = o
      BY DEF Handled
    <2> HIDE DEF s
    <2>3. chan' = chan /\ stack' = stack /\ lost' = lost /\ toIrcd' = toIrcd \o o
      BY <2>1, <2>2 DEF Finish
    <2>4. o \in Seq(Msgs) /\ Sent(Future, o).m = Future.m /\ (Sent(Future, o).alive => Future.alive)
      <3>1. CASE bot
        BY <1>6, <3>1, LeaveSent
      <3>2. CASE ~bot
        <4>1. o = <<>> /\ <<>> \in Seq(Msgs)
          BY <3>2
        <4> QED BY <1>6, <4>1, SentNone
      <3> QED BY <3>1, <3>2
    <2> HIDE DEF o
    <2>5. Future' = Sent(Future, o)
      <3>1. ircd \in Servers /\ toIrcd \in Seq(Msgs)
        BY <1>3 DEF ModesTypeOK
      <3> QED BY <1>1, <2>3, <2>4, <3>1, SentAll DEF Future
    <2> QED BY <1>1, <1>2, <1>3, <1>5, <2>3, <2>4, <2>5, SameAhead
  <1>9. CASE chan.modes \intersect PermModes = {}
    <2>1. v = [modestack_finalize_channel(s) EXCEPT !.chan = None]
      BY <1>9
    <2>2. modestack_finalize_channel(s) \in Handlers
      <3>1. o \in Seq(Msgs)
        <4>1. <<>> \in Seq(Msgs)
          OBVIOUS
        <4> QED BY <1>6, <4>1, LeaveSent
      <3> HIDE DEF o
      <3>2. s \in Handlers
        <4>1. Handled \in Handlers
          BY <1>3, <1>4, FutureType DEF LineHandlers
        <4> QED BY <3>1, <4>1 DEF Handlers
      <3> HIDE DEF s
      <3> QED BY <1>6, <3>2, FinalizeEnds DEF Ends
    <2> HIDE DEF s
    <2>3. v.chan = None
      BY <2>1, <2>2 DEF Handlers
    <2> HIDE DEF v
    <2>4. chan' = None
      BY <1>7, <2>3 DEF Finish
    <2> QED BY <1>5, <2>4 DEF LockInv, Obeyed
  <1> QED BY <1>8, <1>9

LEMMA DeleteLocks ==
    ASSUME ModesInv, ModesInv', LockInv, bs_cmd_delete
    PROVE  LockInv'
  <1> DEFINE o == <<[leave |-> TRUE]>>
  <1>1. mlock' = mlock /\ toUs' = toUs /\ ircd' = ircd /\ sound' = sound
    BY DEF bs_cmd_delete
  <1>2. PICK c \in Seq(Changes) : Reports(c) /\ Obeyed(c)
    BY DEF LockInv
  <1>3. ModesTypeOK /\ ModesTypeOK'
    BY DEF ModesInv
  <1>4. Reports(c)'
    BY <1>1, <1>2 DEF Reports
  <1>5. Future \in Servers /\ Handler = Handled /\ ircd \in Servers /\ toIrcd \in Seq(Msgs)
    BY <1>3, FutureType DEF ModesTypeOK, Handler, Handled
  <1>6. o \in Seq(Msgs) /\ Sent(Future, o).m = Future.m /\ (Sent(Future, o).alive => Future.alive)
    BY <1>5, LeaveSent
  <1>7. chan' = chan /\ stack' = stack /\ lost' = lost /\ toIrcd' = toIrcd \o o
    <2>1. Finish([Handled EXCEPT !.out = o])
      BY <1>5 DEF bs_cmd_delete
    <2> HIDE DEF o
    <2> QED BY <2>1 DEF Finish, Handled
  <1> HIDE DEF o
  <1>8. Future' = Sent(Future, o)
    BY <1>1, <1>5, <1>6, <1>7, SentAll DEF Future
  <1> QED BY <1>1, <1>2, <1>3, <1>4, <1>6, <1>7, <1>8, SameAhead

LEMMA RemoteModeLocks ==
    ASSUME ModesInv, ModesInv', LockInv, NEW ch \in TheirChanges, RemoteMode(ch)
    PROVE  LockInv'
  <1>1. /\ ircd.users /\ ircd' = [ircd EXCEPT !.m = Apply(@, ch)] /\ toUs' = Append(toUs, ch)
        /\ UNCHANGED <<chan, mlock, stack, bot, toIrcd, lost, sound>>
    BY DEF RemoteMode
  <1>2. PICK c \in Seq(Changes) : Reports(c) /\ Obeyed(c)
    BY DEF LockInv
  <1> DEFINE d == Append(c, ch)
             m == Apply(ircd.m, ch)
  <1>3. /\ ModesTypeOK /\ ModesTypeOK' /\ chan # None /\ ch \in Changes /\ d \in Seq(Changes)
        /\ ircd \in Servers /\ ircd' \in Servers /\ toIrcd \in Seq(Lines) /\ toIrcd \in Seq(Msgs)
        /\ stack \in Stacks
    BY <1>1, <1>2, ModesAssumption DEF ModesInv, ModesTypeOK
  <1>4. Reports(d)'
    <2>1. toUs' = d
      BY <1>1, <1>2 DEF Reports
    <2> QED BY <2>1 DEF Reports
  <1>5. ircd.m \in ModesOf /\ m \in ModesOf
    BY <1>3, ServerType, ApplyType
  <1>6. ircd'.users /\ ircd'.m = m
    <2>1. ircd' = [ircd EXCEPT !.m = m]
      BY <1>1
    <2> HIDE DEF m
    <2> QED BY <2>1, <1>1, <1>3 DEF Servers
  <1>7. Drifted(ircd, ircd', ch)
    <2>1. Drifts(ircd.m, m, ch)
      BY <1>3, <1>5, ValueApplied DEF Drifts
    <2> QED BY <1>1, <1>6, <2>1 DEF Drifted
  <1>8. Drifted(Future, Future', ch)
    BY <1>1, <1>3, <1>7, DriftSent DEF Future
  <1>9. Future \in Servers /\ Future' \in Servers /\ Future.m \in ModesOf /\ Future'.m \in ModesOf
        /\ Future.alive
    <2>1. <<>> \in Seq(Msgs)
      OBVIOUS
    <2>2. Future \in Servers /\ Future' \in Servers
      BY <1>1, <1>3, <2>1, SentAll DEF Future
    <2> QED BY <1>8, <2>2, ServerType DEF Drifted
  <1>10. /\ Ahead(Future, Handled) = Merged(Future.m, stack)
         /\ Ahead(Future', Handled') = Merged(Future'.m, stack)
    <2>1. Handled.out = <<>> /\ Handled'.out = <<>> /\ Handled.stack = stack /\ Handled'.stack = stack
      BY <1>1 DEF Handled
    <2>2. After(Future, Handled) = Future /\ After(Future', Handled') = Future'
      BY <1>9, <2>1, SentNone DEF After
    <2> QED BY <2>1, <2>2 DEF Ahead
  <1>11. Drifts(Ahead(Future, Handled), Ahead(Future', Handled'), ch)
    <2> DEFINE p == Future.m
               q == Future'.m
    <2>1. p \in ModesOf /\ q \in ModesOf /\ Drifts(p, q, ch)
      BY <1>8, <1>9 DEF Drifted
    <2> HIDE DEF p, q
    <2>2. Drifts(Merged(p, stack), Merged(q, stack), ch)
      BY <1>3, <2>1, DriftMerged
    <2> QED BY <1>10, <2>2 DEF p, q
  <1> HIDE DEF m
  <1>12. ASSUME sound', ~lost' PROVE Obedient(mlock', Ahead(Future', Handled'), d)
    <2>1. Obedient(mlock, Ahead(Future, Handled), c)
      BY <1>1, <1>2, <1>3, <1>9, <1>12 DEF Obeyed
    <2> DEFINE p == Ahead(Future, Handled)
               q == Ahead(Future', Handled')
    <2>2. Obedient(mlock, p, c) /\ Drifts(p, q, ch)
      BY <1>11, <2>1
    <2> HIDE DEF p, q
    <2>3. Obedient(mlock, q, d)
      BY <1>3, <2>2, DriftObedient
    <2> QED BY <1>1, <2>3 DEF q
  <1> HIDE DEF d
  <1>13. Obeyed(d)'
    BY <1>12 DEF Obeyed
  <1>14. chan' # None => Locked(chan', mlock')
    BY <1>1 DEF LockInv
  <1> QED BY <1>3, <1>4, <1>13, <1>14 DEF LockInv

LEMMA RemotePartLocks ==
    ASSUME ModesInv, ModesInv', LockInv, RemotePart
    PROVE  LockInv'
  <1>1. /\ ircd.users /\ ircd' = Live([ircd EXCEPT !.users = FALSE])
        /\ toUs' = Append(toUs, Part)
        /\ UNCHANGED <<chan, mlock, stack, toIrcd, lost, sound>>
    BY DEF RemotePart, Part
  <1>2. PICK c \in Seq(Changes) : Reports(c) /\ Obeyed(c)
    BY DEF LockInv
  <1>3. /\ ModesTypeOK /\ ModesTypeOK' /\ chan # None /\ ircd \in Servers /\ ircd' \in Servers
        /\ toIrcd \in Seq(Lines)
    BY <1>1 DEF ModesInv, ModesTypeOK
  <1>4. ~ircd'.users /\ Left(ircd, ircd')
    <2> DEFINE no == FALSE
               r == [m |-> ircd.m, users |-> no, svc |-> ircd.svc, alive |-> ircd.alive]
    <2>1. no \in BOOLEAN /\ ~no
      OBVIOUS
    <2> HIDE DEF no
    <2>2. [ircd EXCEPT !.users = no] = r
      BY <1>3 DEF Servers
    <2>3. ircd' = Live(r)
      BY <1>1, <2>2 DEF no
    <2>4. Live(r) \in Servers /\ Live(r).m = ircd.m /\ Live(r).users = no /\ Live(r).svc = ircd.svc
      BY <1>3, <2>1, ServerType, Lives
    <2> HIDE DEF r
    <2> QED BY <1>1, <2>1, <2>3, <2>4 DEF Left
  <1>5. Left(Future, Future')
    BY <1>1, <1>3, <1>4, LeftSent DEF Future
  <1>6. Reports(c)'
    <2>1. toUs = c
      BY <1>1, <1>2 DEF Reports
    <2> QED BY <1>1, <1>4, <2>1 DEF Reports
  <1>7. Future'.alive => Future.alive /\ Future'.m = Future.m
    <2>1. Future \in Servers
      BY <1>3, FutureType
    <2> QED BY <1>5, <2>1, ServerType DEF Left
  <1> QED BY <1>1, <1>2, <1>3, <1>6, <1>7, SameAhead

LEMMA RemoteReceiveLocks ==
    ASSUME ModesInv, ModesInv', LockInv, RemoteReceive
    PROVE  LockInv'
  <1>1. /\ toIrcd # <<>> /\ toIrcd' = Tail(toIrcd) /\ ircd' = Receive(ircd, Head(toIrcd))
        /\ UNCHANGED <<chan, mlock, stack, toUs, lost, sound>>
    BY DEF RemoteReceive
  <1>2. PICK c \in Seq(Changes) : Reports(c) /\ Obeyed(c)
    BY DEF LockInv
  <1>3. ModesTypeOK /\ ModesTypeOK' /\ ircd \in Servers /\ toIrcd \in Seq(Msgs)
    BY DEF ModesInv, ModesTypeOK
  <1>4. Head(toIrcd) \in Msgs
    BY <1>1, <1>3
  <1>5. ircd'.users = ircd.users
    BY <1>1, <1>3, <1>4, ReceiveType
  <1>6. Future' = Future
    BY <1>1, <1>3, SentHead DEF Future
  <1>7. Reports(c)'
    BY <1>1, <1>2, <1>5 DEF Reports
  <1> QED BY <1>1, <1>2, <1>3, <1>6, <1>7, SameAhead

LEMMA LockStart == ASSUME Init PROVE LockInv
  <1>1. mlock = NoLock /\ chan = NoModes /\ toUs = <<>>
    BY DEF Init
  <1>2. \A a \in Aspects : \A v : Obeys(NoLock, a, v)
    BY AspectKinds DEF Obeys, NoLock
  <1>3. LockType(NoLock) /\ NoModes \in ModesOf
    BY LocksAre DEF NoModes, ModesOf
  <1>4. Locked(chan, mlock)
    BY <1>1, <1>2, <1>3, LockedIs
  <1>5. Obeyed(<<>>)
    BY <1>1, <1>2 DEF Obeyed, Obedient
  <1>6. <<>> \in Seq(Changes) /\ Reports(<<>>)
    BY <1>1 DEF Reports
  <1> QED BY <1>4, <1>5, <1>6 DEF LockInv

LEMMA HoldsFromInv == ASSUME ModesInv, LockInv PROVE MlockHolds
  <1> SUFFICES ASSUME toIrcd = <<>>, toUs = <<>>, Empty(stack), ~lost, sound, chan # None, ircd.alive
               PROVE  Locked(ircd.m, mlock)
    BY DEF MlockHolds, Quiet
  <1>1. PICK c \in Seq(Changes) : Reports(c) /\ Obeyed(c)
    BY DEF LockInv
  <1>2. ModesTypeOK /\ LockType(mlock) /\ ircd \in Servers /\ stack \in Stacks
    BY LocksAre DEF ModesInv, ModesTypeOK
  <1>3. c = <<>>
    BY <1>1, NothingReported
  <1>4. Future = ircd /\ After(Future, Handled) = ircd /\ ircd.m \in ModesOf /\ Handled.stack = stack
    BY <1>2, SentNone, FutureType, ServerType DEF Future, Handled
  <1>5. Ahead(Future, Handled) = ircd.m
    BY <1>2, <1>4, NothingMerged DEF Ahead
  <1>6. Obedient(mlock, ircd.m, <<>>)
    BY <1>1, <1>3, <1>4, <1>5 DEF Obeyed
  <1>7. \A a : ~Pending(<<>>, mlock, a)
    BY DEF Pending
  <1>8. \A a \in Aspects : Obeys(mlock, a, Value(ircd.m, a))
    BY <1>6, <1>7 DEF Obedient
  <1> QED BY <1>2, <1>4, <1>8, LockedIs

\* Once all that was sent has arrived, the server's channel obeys the mode lock,
\* whatever changes crossed on the way, for any changes, locks and modes, unless
\* changes were lost or had crossed when the lock was set.
THEOREM LocksAlwaysHold == Spec => []MlockHolds
  <1>1. Init => LockInv
    BY LockStart
  <1>2. ModesInv /\ ModesInv' /\ LockInv /\ [Next]_vars => LockInv'
    <2> SUFFICES ASSUME ModesInv, ModesInv', LockInv, [Next]_vars PROVE LockInv'
      OBVIOUS
    <2>1. CASE \E ch \in OurChanges : channel_mode_ours(ch)
      BY <2>1, OursLocks
    <2>2. CASE \E ch \in TheirChanges : RemoteMode(ch)
      BY <2>2, RemoteModeLocks
    <2>3. CASE \E lock \in Locks : cs_cmd_set_mlock(lock)
      BY <2>3, MlockLocks
    <2>4. CASE UNCHANGED vars
      <3>1. /\ chan' = chan /\ mlock' = mlock /\ stack' = stack /\ toIrcd' = toIrcd
            /\ toUs' = toUs /\ ircd' = ircd /\ lost' = lost /\ sound' = sound
        BY <2>4 DEF vars
      <3>2. PICK c \in Seq(Changes) : Reports(c) /\ Obeyed(c)
        BY DEF LockInv
      <3>3. Reports(c)' /\ Future' = Future
        BY <3>1, <3>2 DEF Reports, Future
      <3> QED BY <3>1, <3>2, <3>3, SameAhead DEF ModesInv
    <2> QED BY <2>1, <2>2, <2>3, <2>4, TheirsLocks, FlushLocks, PartLocks, DeleteLocks,
               RemotePartLocks, RemoteReceiveLocks DEF Next
  <1>3. ModesInv /\ LockInv => MlockHolds
    BY HoldsFromInv
  <1>4. Spec => []ModesInv
    BY ModesAlways
  <1> QED BY <1>1, <1>2, <1>3, <1>4, PTL DEF Spec
=============================================================================
