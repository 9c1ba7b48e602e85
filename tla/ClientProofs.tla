---------------------------- MODULE ClientProofs ----------------------------
(***************************************************************************)
(* What holds of the parts of services that watch the clients of others:   *)
(* the protection of nicknames, the scanners of new clients and the count  *)
(* of clones, for any clients, nicknames, hosts, addresses, blacklists,    *)
(* grace periods and limits.  The three share no state.                    *)
(***************************************************************************)
EXTENDS Enforce, Dnsbl, SequenceTheorems, FiniteSetTheorems, TLAPS

CONSTANTS IP, Masks, Ranges, Immune, Limits, DefaultAllowed, Increase, Counts, Window,
          Durations, Permanent, MaxExempts

VARIABLES hostlist, exempts, clones_allowed, kline, online, loggedin, klinesent, lastkill

C == INSTANCE Clones

-----------------------------------------------------------------------------
(* Enforcement: the list stays sorted and its one timer never misses an    *)
(* entry.                                                                  *)

\* The part of the type invariant that the list and the timer need.
ListType ==
    /\ now \in Nat \ {0}
    /\ enforcetime \in [Accounts -> Nat]
    /\ enforce_list \in Seq(Entry)
    /\ enforce_next \in Nat
    /\ timers \subseteq Nat
    /\ held \in [Clients -> Nicks \union {None}]

ListInv == ListType /\ SortedList /\ TimerCoversList

-----------------------------------------------------------------------------
(* Insertion *)

\* The entries of a list with es inserted after position p.
LEMMA InsertShape ==
    ASSUME NEW l \in Seq(Entry), NEW es \in Seq(Entry), NEW p \in 0..Len(l)
    PROVE  /\ InsertAt(l, es, p) \in Seq(Entry)
           /\ DOMAIN InsertAt(l, es, p) = 1..(Len(l) + Len(es))
           /\ \A i \in 1..p : InsertAt(l, es, p)[i] = l[i]
           /\ \A i \in (p + 1)..(p + Len(es)) : InsertAt(l, es, p)[i] = es[i - p]
           /\ \A i \in (p + Len(es) + 1)..(Len(l) + Len(es)) :
                 InsertAt(l, es, p)[i] = l[i - Len(es)]
  <1> DEFINE n == Len(l)
             k == Len(es)
             a == SubSeq(l, 1, p)
             b == SubSeq(l, p + 1, n)
             c == a \o es
             m == InsertAt(l, es, p)
  <1>1. n \in Nat /\ k \in Nat /\ p \in 0..n
    BY LenProperties
  <1>2. \A i \in 1..n : l[i] \in Entry
    BY LenProperties
  <1>3. a \in Seq(Entry) /\ Len(a) = p /\ \A i \in 1..p : a[i] = l[i]
    BY <1>1, <1>2, SubSeqProperties
  <1>4. \A i \in (p + 1)..n : l[i] \in Entry
    BY <1>1, <1>2
  <1>5. /\ b \in Seq(Entry) /\ Len(b) = IF p + 1 <= n THEN n - (p + 1) + 1 ELSE 0
        /\ \A i \in 1..(n - (p + 1) + 1) : b[i] = l[(p + 1) + i - 1]
    BY <1>1, <1>4, SubSeqProperties
  <1>6. m = c \o b
    BY DEF InsertAt
  <1> HIDE DEF a, b
  <1>7. Len(b) = n - p /\ \A i \in 1..(n - p) : b[i] = l[p + i]
    <2>1. n - (p + 1) + 1 = n - p /\ \A i \in 1..(n - p) : (p + 1) + i - 1 = p + i
      BY <1>1
    <2> QED BY <1>1, <1>5, <2>1
  <1>8. /\ c \in Seq(Entry) /\ Len(c) = Len(a) + Len(es)
        /\ \A i \in 1..(Len(a) + Len(es)) : c[i] =
              IF i <= Len(a) THEN a[i] ELSE es[i - Len(a)]
    BY <1>3, ConcatProperties, Zenon
  <1>n. Len(es) = k
    OBVIOUS
  <1> HIDE DEF c, n, k, m
  <1>9. /\ m \in Seq(Entry) /\ Len(m) = Len(c) + Len(b)
        /\ \A i \in 1..(Len(c) + Len(b)) : m[i] =
              IF i <= Len(c) THEN c[i] ELSE b[i - Len(c)]
    <2>a. c \in Seq(Entry) /\ b \in Seq(Entry)
      BY <1>5, <1>8
    <2>1. /\ c \o b \in Seq(Entry) /\ Len(c \o b) = Len(c) + Len(b)
          /\ \A i \in 1..(Len(c) + Len(b)) : (c \o b)[i] =
                IF i <= Len(c) THEN c[i] ELSE b[i - Len(c)]
      BY <2>a, ConcatProperties, Zenon
    <2> QED BY <2>1, <1>6, Zenon
  <1>10. DOMAIN m = 1..(n + k) /\ Len(c) = p + k /\ Len(c) + Len(b) = n + k
    <2>1. Len(c) = p + k /\ Len(c) + Len(b) = n + k
      BY <1>1, <1>3, <1>7, <1>8, <1>n
    <2> QED BY <2>1, <1>9, LenProperties
  <1>11. ASSUME NEW i \in 1..p PROVE m[i] = l[i]
    <2>1. i \in 1..(p + k) /\ i \in 1..(n + k) /\ i <= p /\ i <= p + k
      BY <1>1
    <2> QED BY <2>1, <1>3, <1>8, <1>9, <1>10, <1>n
  <1>12. ASSUME NEW i \in (p + 1)..(p + k) PROVE m[i] = es[i - p]
    <2>1. i \in 1..(p + k) /\ i \in 1..(n + k) /\ ~(i <= p) /\ i <= p + k
      BY <1>1
    <2> QED BY <2>1, <1>3, <1>8, <1>9, <1>10, <1>n
  <1>13. ASSUME NEW i \in (p + k + 1)..(n + k) PROVE m[i] = l[i - k]
    <2>1. /\ i \in 1..(n + k) /\ ~(i <= p + k) /\ i - (p + k) \in 1..(n - p)
          /\ p + (i - (p + k)) = i - k
      BY <1>1
    <2> QED BY <2>1, <1>7, <1>9, <1>10
  <1> QED BY <1>9, <1>10, <1>11, <1>12, <1>13 DEF n, k, m

-----------------------------------------------------------------------------
(* The list and its timer *)

\* check_enforce() keeps the list sorted and the timer early enough.
LEMMA EnqueueInv ==
    ASSUME ListInv, NEW k \in Nat, NEW cs \in [1..k -> Clients],
           NEW on, \A i \in 1..k : on[cs[i]] \in Nicks,
           NEW t \in Nat \ {0}, Enqueue(cs, on, t)
    PROVE  /\ enforce_list' \in Seq(Entry) /\ enforce_next' \in Nat
           /\ timers' \subseteq Nat
           /\ SortedList' /\ TimerCoversList'
  <1>0. SUFFICES ASSUME NEW l, l = enforce_list, NEW m, m = enforce_list',
                      NEW es,
                      es = [i \in 1..k |-> [nick |-> on[cs[i]],
                                            host |-> Host[cs[i]],
                                            timelimit |-> t]]
               PROVE  /\ enforce_list' \in Seq(Entry) /\ enforce_next' \in Nat
                      /\ timers' \subseteq Nat
                      /\ SortedList' /\ TimerCoversList'
    OBVIOUS
  <1>1. Len(cs) = k
    BY SMT
  <1>2. PICK p \in InsertPoints(l, t) :
           m = InsertAt(l, es, p)
    BY <1>0, <1>1 DEF Enqueue
  <1>3. l \in Seq(Entry) /\ Len(l) \in Nat /\ DOMAIN l = 1..Len(l)
        /\ \A i \in 1..Len(l) : l[i] \in Entry
    BY <1>0, LenProperties, ZenonT(60) DEF ListInv, ListType, Entry
  <1>4. p \in 0..Len(l) /\ (p = 0 \/ l[p].timelimit <= t)
        /\ \A i \in (p + 1)..Len(l) : l[i].timelimit > t
    BY DEF InsertPoints
  <1>5. es \in Seq(Entry) /\ Len(es) = k /\ \A i \in 1..k : es[i].timelimit = t
    <2> DEFINE f == [i \in 1..k |-> [nick |-> on[cs[i]], host |-> Host[cs[i]],
                                     timelimit |-> t]]
    <2>a. \A i \in 1..k : Host[cs[i]] \in Hosts
      BY EnforceAssumption
    <2>b. \A i \in 1..k : f[i] \in Entry /\ f[i].timelimit = t
      BY <2>a, SMTT(30) DEF Entry
    <2>c. f = [i \in 1..k |-> f[i]]
      BY Zenon
    <2> HIDE DEF f
    <2>d. f \in Seq(Entry) /\ Len(f) = k
      BY <2>b, <2>c
    <2>1. f \in Seq(Entry) /\ Len(f) = k /\ \A i \in 1..k : f[i].timelimit = t
      BY <2>b, <2>d
    <2> QED BY <2>1, <1>0, Zenon DEF f
  <1>a. k = Len(es)
    BY <1>5
  <1>b. m = InsertAt(l, es, p)
    BY <1>2
  <1>6. /\ m \in Seq(Entry)
        /\ DOMAIN m = 1..(Len(l) + k)
        /\ \A i \in 1..p : m[i] = l[i]
        /\ \A i \in (p + 1)..(p + k) : m[i] = es[i - p]
        /\ \A i \in (p + k + 1)..(Len(l) + k) : m[i] = l[i - k]
    <2>1. l \in Seq(Entry) /\ es \in Seq(Entry) /\ p \in 0..Len(l)
      BY <1>3, <1>4, <1>5
    <2>2. /\ InsertAt(l, es, p) \in Seq(Entry)
          /\ DOMAIN InsertAt(l, es, p) = 1..(Len(l) + Len(es))
          /\ \A i \in 1..p : InsertAt(l, es, p)[i] = l[i]
          /\ \A i \in (p + 1)..(p + Len(es)) : InsertAt(l, es, p)[i] = es[i - p]
          /\ \A i \in (p + Len(es) + 1)..(Len(l) + Len(es)) :
                InsertAt(l, es, p)[i] = l[i - Len(es)]
      BY <2>1, InsertShape, SMTT(60)
    <2> QED BY <2>2, <1>a, <1>b
  <1> DEFINE n == Len(l)
             L == [i \in 1..n |-> l[i].timelimit]
             M == [i \in 1..(n + k) |-> m[i].timelimit]
  <1>7. \A i \in 1..(n + k) : m[i] \in Entry
    BY <1>6, LenProperties
  <1>8. L \in [1..n -> Nat] /\ M \in [1..(n + k) -> Nat]
    BY <1>3, <1>7 DEF Entry
  <1>9. \A i, j \in 1..n : i < j => L[i] <= L[j]
    BY <1>0, <1>3 DEF ListInv, SortedList
  <1>10. /\ p = 0 \/ L[p] <= t
         /\ \A i \in (p + 1)..n : L[i] > t
    BY <1>3, <1>4
  <1>11. /\ \A i \in 1..p : M[i] = L[i]
         /\ \A i \in (p + 1)..(p + k) : M[i] = t
         /\ \A i \in (p + k + 1)..(n + k) : M[i] = L[i - k]
    <2>1. \A i \in 1..p : i \in 1..n /\ i \in 1..(n + k)
      BY <1>3, <1>4
    <2>2. \A i \in (p + 1)..(p + k) : i \in 1..(n + k) /\ i - p \in 1..k
      BY <1>3, <1>4
    <2>3. \A i \in (p + k + 1)..(n + k) : i \in 1..(n + k) /\ i - k \in 1..n
      BY <1>3, <1>4
    <2> QED BY <2>1, <2>2, <2>3, <1>5, <1>6
  <1>12. n \in Nat /\ p \in 0..n
    BY <1>3, <1>4
  <1> HIDE DEF n, L, M
  <1>c. \A i \in 1..p : L[i] <= t
    <2> TAKE i \in 1..p
    <2>1. p \in 1..n /\ i \in 1..n
      BY <1>12
    <2>2. i = p \/ L[i] <= L[p]
      BY <2>1, <1>9
    <2> QED BY <2>1, <2>2, <1>8, <1>10
  <1>d. \A i \in (p + k + 1)..(n + k) : i - k \in (p + 1)..n /\ i - k \in 1..n
    BY <1>12
  <1>13. ASSUME NEW i \in 1..(n + k), NEW j \in 1..(n + k), i < j
         PROVE  M[i] <= M[j]
    <2>1. CASE j \in 1..p
      BY <2>1, <1>9, <1>11, <1>12, <1>13
    <2>2. CASE j \in (p + 1)..(p + k)
      BY <2>2, <1>c, <1>11, <1>12, <1>13
    <2>3. CASE j \in (p + k + 1)..(n + k)
      <3>1. M[j] = L[j - k] /\ L[j - k] > t /\ j - k \in 1..n /\ L[j - k] \in Nat
        BY <2>3, <1>d, <1>8, <1>10, <1>11
      <3>2. CASE i \in 1..p
        <4>1. i \in 1..n /\ L[i] \in Nat /\ M[i] = L[i] /\ L[i] <= t
          BY <3>2, <1>c, <1>8, <1>11, <1>12
        <4> QED BY <3>1, <4>1
      <3>3. CASE i \in (p + 1)..(p + k)
        BY <3>1, <3>3, <1>11
      <3>4. CASE i \in (p + k + 1)..(n + k)
        <4>1. M[i] = L[i - k] /\ i - k \in 1..n /\ i - k < j - k
          BY <3>4, <1>d, <1>11, <1>12, <1>13
        <4> QED BY <3>1, <4>1, <1>9
      <3> QED BY <3>2, <3>3, <3>4, <1>12
    <2> QED BY <2>1, <2>2, <2>3, <1>12
  <1>14. SortedList'
    BY <1>0, <1>6, <1>13 DEF SortedList, M, n
  <1>15. \A i \in 1..(n + k) : M[i] = t \/ \E j \in 1..n : M[i] = L[j]
    <2> TAKE i \in 1..(n + k)
    <2>1. CASE i \in 1..p
      BY <2>1, <1>11, <1>12
    <2>2. CASE i \in (p + 1)..(p + k)
      BY <2>2, <1>11
    <2>3. CASE i \in (p + k + 1)..(n + k)
      BY <2>3, <1>11, <1>12
    <2> QED BY <2>1, <2>2, <2>3, <1>12
  <1>16. /\ timers = IF enforce_next = 0 THEN {} ELSE {enforce_next}
         /\ \A i \in 1..n : enforce_next # 0 /\ enforce_next <= L[i]
         /\ enforce_next \in Nat
    BY <1>0, <1>3 DEF ListInv, ListType, TimerCoversList, L, n
  <1>17. /\ enforce_next' # 0 /\ enforce_next' \in Nat /\ enforce_next' <= t
         /\ enforce_next # 0 => enforce_next' <= enforce_next
         /\ timers' = {enforce_next'}
    <2>1. CASE enforce_next = 0 \/ enforce_next > t
      BY <2>1, <1>16 DEF Enqueue
    <2>2. CASE ~(enforce_next = 0 \/ enforce_next > t)
      BY <2>2, <1>16 DEF Enqueue
    <2> QED BY <2>1, <2>2
  <1>18. \A i \in 1..(n + k) : enforce_next' <= M[i]
    <2> TAKE i \in 1..(n + k)
    <2>1. CASE M[i] = t
      BY <2>1, <1>17
    <2>2. ASSUME NEW j \in 1..n, M[i] = L[j] PROVE enforce_next' <= M[i]
      BY <2>2, <1>8, <1>16, <1>17
    <2> QED BY <2>1, <2>2, <1>15
  <1>19. TimerCoversList'
    BY <1>0, <1>6, <1>17, <1>18 DEF TimerCoversList, M, n
  <1> QED BY <1>0, <1>6, <1>14, <1>17, <1>19

\* check_enforce() of any set of clients in any order.
LEMMA CheckEnforceInv ==
    ASSUME ListInv, NEW S \in SUBSET Clients, NEW on,
           \A c \in S : on[c] \in Nicks,
           NEW a \in Accounts, CheckEnforce(S, on, a)
    PROVE  /\ enforce_list' \in Seq(Entry) /\ enforce_next' \in Nat
           /\ timers' \subseteq Nat
           /\ SortedList' /\ TimerCoversList'
  <1>1. CASE UNCHANGED listVars
    BY <1>1 DEF ListInv, ListType, SortedList, TimerCoversList, listVars
  <1>2. ASSUME NEW R \in SUBSET S, NEW cs \in Orders(R),
               Enqueue(cs, on, now + enforcetime[a])
        PROVE  /\ enforce_list' \in Seq(Entry) /\ enforce_next' \in Nat
               /\ timers' \subseteq Nat
               /\ SortedList' /\ TimerCoversList'
    <2>1. Cardinality(R) \in Nat
      BY EnforceAssumption, FS_Subset, FS_CardinalityType
    <2>2. cs \in [1..Cardinality(R) -> R]
      BY DEF Orders
    <2>3. cs \in [1..Cardinality(R) -> Clients]
      BY <2>2
    <2>4. \A i \in 1..Cardinality(R) : on[cs[i]] \in Nicks
      BY <2>2
    <2>5. now + enforcetime[a] \in Nat \ {0}
      BY DEF ListInv, ListType
    <2> QED BY <1>2, <2>1, <2>3, <2>4, <2>5, EnqueueInv
  <1> QED BY <1>1, <1>2 DEF CheckEnforce

\* The loops of RELEASE and REGAIN keep the list sorted and only make the timer
\* earlier than it need be.
LEMMA ForgetInv ==
    ASSUME ListInv, NEW n, NEW h, Forget(n, h)
    PROVE  /\ enforce_list' \in Seq(Entry) /\ enforce_next' \in Nat
           /\ timers' \subseteq Nat
           /\ SortedList' /\ TimerCoversList'
  <1> DEFINE K == {i \in DOMAIN enforce_list :
                     ~(enforce_list[i].nick = n /\ enforce_list[i].host = h)}
  <1>1. PICK f \in Enumerations(K) :
           enforce_list' = [i \in 1..Cardinality(K) |-> enforce_list[f[i]]]
    BY DEF Forget
  <1>2. /\ Len(enforce_list) \in Nat /\ DOMAIN enforce_list = 1..Len(enforce_list)
        /\ \A i \in DOMAIN enforce_list : enforce_list[i] \in Entry
    BY LenProperties DEF ListInv, ListType
  <1>3. Cardinality(K) \in Nat
    <2>1. IsFiniteSet(1..Len(enforce_list))
      BY <1>2, FS_Interval
    <2> QED BY <1>2, <2>1, FS_Subset, FS_CardinalityType
  <1>4. /\ f \in [1..Cardinality(K) -> K] /\ K \subseteq DOMAIN enforce_list
        /\ \A i, j \in 1..Cardinality(K) : i < j => f[i] < f[j]
    BY DEF Enumerations
  <1> HIDE DEF K
  <1>5. \A i \in 1..Cardinality(K) :
           f[i] \in DOMAIN enforce_list /\ enforce_list[f[i]] \in Entry
    BY <1>2, <1>4
  <1>6. /\ enforce_list' \in Seq(Entry)
        /\ DOMAIN enforce_list' = 1..Cardinality(K)
        /\ \A i \in 1..Cardinality(K) : enforce_list'[i] = enforce_list[f[i]]
    BY <1>1, <1>3, <1>5
  <1>7. SortedList'
    BY <1>4, <1>5, <1>6 DEF ListInv, SortedList
  <1>8. UNCHANGED <<enforce_next, timers>>
    BY DEF Forget
  <1>9. TimerCoversList'
    BY <1>5, <1>6, <1>8 DEF ListInv, TimerCoversList
  <1> QED BY <1>6, <1>7, <1>8, <1>9 DEF ListInv, ListType

\* enforce_timeout_check() arms the timer for the first entry it leaves, and
\* leaves none that is due.
LEMMA TimeoutCheckInv ==
    ASSUME ListInv, TimeoutCheck
    PROVE  /\ enforce_list' \in Seq(Entry) /\ enforce_next' \in Nat
           /\ timers' \subseteq Nat
           /\ SortedList' /\ TimerCoversList'
           /\ \A i \in DOMAIN enforce_list' : enforce_list'[i].timelimit > now
  <1>0. SUFFICES ASSUME NEW l, l = enforce_list, NEW m, m = enforce_list',
                        NEW n, n = Len(l)
                 PROVE  /\ enforce_list' \in Seq(Entry) /\ enforce_next' \in Nat
                        /\ timers' \subseteq Nat
                        /\ SortedList' /\ TimerCoversList'
                        /\ \A i \in DOMAIN enforce_list' :
                              enforce_list'[i].timelimit > now
    OBVIOUS
  <1>1. l \in Seq(Entry) /\ DOMAIN l = 1..n
    BY <1>0, LenProperties DEF ListInv, ListType
  <1>a. n \in Nat /\ now \in Nat \ {0}
    BY <1>0, <1>1, LenProperties DEF ListInv, ListType
  <1>b. \A i \in 1..n : l[i] \in Entry
    BY <1>0, <1>1, LenProperties
  <1>2. PICK k \in StopPoints(l, now) :
          /\ m = SubSeq(l, k + 1, n)
          /\ enforce_next' = IF k = n THEN 0 ELSE l[k + 1].timelimit
          /\ timers' = {t \in timers : t > now} \union ({enforce_next'} \ {0})
    BY <1>0 DEF TimeoutCheck
  <1>3. k \in 0..n /\ (k = n \/ l[k + 1].timelimit > now)
    BY <1>0 DEF StopPoints
  <1>5. /\ m \in Seq(Entry) /\ DOMAIN m = 1..(n - k)
        /\ \A i \in 1..(n - k) : m[i] = l[k + i]
    <2>1. \A i \in (k + 1)..n : l[i] \in Entry
      BY <1>a, <1>b, <1>3
    <2>2. k + 1 \in Int /\ n \in Int
      BY <1>a, <1>3
    <2>3. /\ SubSeq(l, k + 1, n) \in Seq(Entry)
          /\ Len(SubSeq(l, k + 1, n)) = IF k + 1 <= n THEN n - (k + 1) + 1 ELSE 0
          /\ \A i \in 1..(n - (k + 1) + 1) : SubSeq(l, k + 1, n)[i] = l[(k + 1) + i - 1]
      BY <2>1, <2>2, SubSeqProperties
    <2>4. m = SubSeq(l, k + 1, n)
      BY <1>2
    <2>5. n - (k + 1) + 1 = n - k /\ \A i \in 1..(n - k) : (k + 1) + i - 1 = k + i
      BY <1>a, <1>3
    <2>6. (IF k + 1 <= n THEN n - (k + 1) + 1 ELSE 0) = n - k
      BY <1>a, <1>3
    <2>7. m \in Seq(Entry) /\ Len(m) = n - k
      BY <2>3, <2>4, <2>6
    <2>8. DOMAIN m = 1..(n - k)
      BY <2>7, LenProperties
    <2> QED BY <2>3, <2>4, <2>5, <2>7, <2>8
  <1>6. \A i \in 1..(n - k) : k + i \in 1..n /\ k + 1 \in 1..n
    BY <1>a, <1>3
  <1>7. \A i, j \in 1..n : i < j => l[i].timelimit <= l[j].timelimit
    BY <1>0, <1>1 DEF ListInv, SortedList
  <1>8. \A i \in 1..n : l[i].timelimit \in Nat
    BY <1>b DEF Entry
  <1>9. ASSUME NEW i \in 1..(n - k)
        PROVE  /\ k # n /\ l[k + 1].timelimit > now
               /\ l[k + 1].timelimit <= m[i].timelimit
    <2>1. k # n /\ l[k + 1].timelimit > now
      BY <1>a, <1>3
    <2>2. k + 1 = k + i \/ k + 1 < k + i
      BY <1>a, <1>3
    <2>3. k + 1 = k + i \/ l[k + 1].timelimit <= l[k + i].timelimit
      BY <2>2, <1>6, <1>7
    <2> QED BY <2>1, <2>3, <1>5, <1>6, <1>8
  <1>10. SortedList'
    <2>1. ASSUME NEW i \in 1..(n - k), NEW j \in 1..(n - k), i < j
          PROVE  m[i].timelimit <= m[j].timelimit
      <3>1. k + i < k + j
        BY <2>1, <1>a, <1>3
      <3> QED BY <3>1, <1>5, <1>6, <1>7
    <2> QED BY <2>1, <1>0, <1>5 DEF SortedList
  <1>11. \A i \in DOMAIN enforce_list' : enforce_list'[i].timelimit > now
    <2>1. \A i \in 1..(n - k) : m[i].timelimit > now /\ m[i].timelimit \in Nat
      BY <1>a, <1>5, <1>6, <1>8, <1>9
    <2> QED BY <2>1, <1>0, <1>5
  <1>12. timers = {} \/ timers = {enforce_next}
    BY DEF ListInv, TimerCoversList
  <1>13. {t \in timers : t > now} = {}
    <2>1. PICK t \in timers : t <= now
      BY DEF TimeoutCheck
    <2> QED BY <2>1, <1>a, <1>12 DEF ListInv, ListType
  <1>14. enforce_next' \in Nat
    <2>1. CASE k = n
      BY <2>1, <1>2
    <2>2. CASE k # n
      <3>1. k + 1 \in 1..n
        BY <2>2, <1>a, <1>3
      <3> QED BY <2>2, <3>1, <1>2, <1>8
    <2> QED BY <2>1, <2>2
  <1>c. timers' = {enforce_next'} \ {0}
    BY <1>2, <1>13
  <1>15. TimerCoversList'
    <2>1. ASSUME NEW i \in 1..(n - k)
          PROVE  enforce_next' # 0 /\ enforce_next' <= m[i].timelimit
      <3>1. enforce_next' = l[k + 1].timelimit
        BY <1>2, <1>9
      <3> QED BY <3>1, <1>a, <1>9
    <2> QED BY <2>1, <1>0, <1>5, <1>c DEF TimerCoversList
  <1> QED BY <1>0, <1>5, <1>10, <1>11, <1>14, <1>15, <1>c

-----------------------------------------------------------------------------
(* The specification *)

\* The list starts empty and the timer unarmed.
LEMMA ListInit == EnforceInit => ListInv
  <1> SUFFICES ASSUME EnforceInit PROVE ListInv
    OBVIOUS
  <1>1. enforce_list \in Seq(Entry) /\ DOMAIN enforce_list = {}
    <2>1. <<>> \in Seq(Entry) /\ DOMAIN <<>> = {}
      BY EmptySeq
    <2> QED BY <2>1 DEF EnforceInit
  <1>2. enforcetime \in [Accounts -> Nat]
    BY EnforceAssumption DEF EnforceInit
  <1>3. held \in [Clients -> Nicks \union {None}]
    BY DEF EnforceInit
  <1>4. now \in Nat \ {0} /\ enforce_next = 0 /\ timers = {}
    BY DEF EnforceInit
  <1> QED BY <1>1, <1>2, <1>3, <1>4 DEF ListInv, ListType, SortedList, TimerCoversList

\* A step that leaves the list and the timer alone.
LEMMA ListUnchanged ==
    ASSUME ListInv, UNCHANGED listVars
    PROVE  /\ enforce_list' \in Seq(Entry) /\ enforce_next' \in Nat
           /\ timers' \subseteq Nat
           /\ SortedList' /\ TimerCoversList'
  BY DEF ListInv, ListType, SortedList, TimerCoversList, listVars

\* nickserv_handle_nickchange() is check_enforce() of one client or nothing.
LEMMA NickchangeInv ==
    ASSUME ListInv, NEW c \in Clients, NEW n \in Nicks, HandleNickchange(c, n)
    PROVE  /\ enforce_list' \in Seq(Entry) /\ enforce_next' \in Nat
           /\ timers' \subseteq Nat
           /\ SortedList' /\ TimerCoversList'
  <1>1. CASE UNCHANGED listVars
    BY <1>1, ListUnchanged
  <1>2. CASE CheckEnforce({c}, [d \in {c} |-> n], Owner[n])
    <2> DEFINE on == [d \in {c} |-> n]
    <2>1. \A d \in {c} : on[d] \in Nicks
      OBVIOUS
    <2>2. Owner[n] \in Accounts /\ {c} \in SUBSET Clients
      BY EnforceAssumption
    <2> HIDE DEF on
    <2>3. CheckEnforce({c}, on, Owner[n])
      BY <1>2 DEF on
    <2> QED BY <2>1, <2>2, <2>3, CheckEnforceInv
  <1> QED BY <1>1, <1>2 DEF HandleNickchange

\* SET ENFORCE ON and ACCESS DEL check clients on the nicknames they have.
LEMMA RecheckInv ==
    ASSUME ListInv, NEW S \in SUBSET Clients, NEW a \in Accounts,
           \A c \in S : held[c] # None, CheckEnforce(S, held, a)
    PROVE  /\ enforce_list' \in Seq(Entry) /\ enforce_next' \in Nat
           /\ timers' \subseteq Nat
           /\ SortedList' /\ TimerCoversList'
  <1>1. \A c \in S : held[c] \in Nicks
    BY DEF ListInv, ListType
  <1> QED BY <1>1, CheckEnforceInv

\* Every step keeps the list sorted and covered by the timer.
LEMMA ListNext == ListInv /\ [EnforceNext]_enforceVars => ListInv'
  <1> SUFFICES ASSUME ListInv, [EnforceNext]_enforceVars PROVE ListInv'
    OBVIOUS
  <1> DEFINE ListRight == /\ enforce_list' \in Seq(Entry) /\ enforce_next' \in Nat
                       /\ timers' \subseteq Nat
                       /\ SortedList' /\ TimerCoversList'
             Others == /\ now' \in Nat \ {0}
                       /\ enforcetime' \in [Accounts -> Nat]
                       /\ held' \in [Clients -> Nicks \union {None}]
  <1>u. ASSUME UNCHANGED <<now, enforcetime, held>> PROVE Others
    BY <1>u DEF ListInv, ListType
  <1>h. ASSUME UNCHANGED <<now, enforcetime>>,
               held' = held \/ (\E c \in Clients, n \in Nicks \union {None} :
                                   held' = [held EXCEPT ![c] = n])
        PROVE  Others
    BY <1>h DEF ListInv, ListType
  <1>q. ASSUME ListRight, Others PROVE ListInv'
    BY <1>q DEF ListInv, ListType
  <1>1. ASSUME NEW c \in Clients, NEW n \in Nicks, TakeNick(c, n) PROVE ListInv'
    <2>1. ListRight
      BY <1>1, NickchangeInv DEF TakeNick
    <2>2. Others
      BY <1>1, <1>h DEF TakeNick
    <2> QED BY <2>1, <2>2, <1>q
  <1>e. ASSUME NEW c \in Clients, NEW n \in Nicks, Evict(n, c)
        PROVE  held' = held \/ (\E d \in Clients, m \in Nicks \union {None} :
                                   held' = [held EXCEPT ![d] = m])
    BY <1>e DEF Evict
  <1>2. ASSUME NEW c \in Clients, NEW n \in Nicks, Release(c, n) PROVE ListInv'
    <2>1. ListRight
      BY <1>2, ForgetInv DEF Release
    <2>2. Others
      BY <1>2, <1>e, <1>h DEF Release
    <2> QED BY <2>1, <2>2, <1>q
  <1>3. ASSUME NEW c \in Clients, NEW n \in Nicks, Regain(c, n) PROVE ListInv'
    <2>1. ListRight
      BY <1>3, ForgetInv DEF Regain
    <2>2. Others
      BY <1>3, <1>e, <1>h DEF Regain
    <2> QED BY <2>1, <2>2, <1>q
  <1>4. ASSUME NEW c \in Clients, Recheck(c) PROVE ListInv'
    <2>1. held[c] \in Nicks /\ HandleNickchange(c, held[c])
      BY <1>4 DEF Recheck, ListInv, ListType
    <2>2. ListRight
      BY <2>1, NickchangeInv
    <2>3. Others
      BY <1>4, <1>u DEF Recheck, userVars
    <2> QED BY <2>2, <2>3, <1>q
  <1>5. ASSUME NEW c \in Clients, LeaveNick(c) PROVE ListInv'
    <2>1. ListRight
      BY <1>5, ListUnchanged DEF LeaveNick
    <2>2. Others
      BY <1>5, <1>h DEF LeaveNick
    <2> QED BY <2>1, <2>2, <1>q
  <1>6. ASSUME NEW a \in Accounts, SetEnforceOn(a) PROVE ListInv'
    <2>1. /\ Strangers(a, access[a]) \in SUBSET Clients
          /\ \A c \in Strangers(a, access[a]) : held[c] # None
      BY DEF Strangers
    <2>2. ListRight
      BY <1>6, <2>1, RecheckInv DEF SetEnforceOn
    <2>3. Others
      BY <1>6, <1>u DEF SetEnforceOn
    <2> QED BY <2>2, <2>3, <1>q
  <1>7. ASSUME NEW a \in Accounts, NEW h \in Hosts, AccessDel(a, h) PROVE ListInv'
    <2> DEFINE lost == {c \in Strangers(a, access[a] \ {h}) : Host[c] = h}
    <2>1. lost \in SUBSET Clients /\ \A c \in lost : held[c] # None
      BY DEF Strangers
    <2>a. UNCHANGED listVars \/ CheckEnforce(lost, held, a)
      BY <1>7 DEF AccessDel
    <2> HIDE DEF lost
    <2>2. ListRight
      BY <2>a, <2>1, RecheckInv, ListUnchanged
    <2>3. Others
      BY <1>7, <1>u DEF AccessDel
    <2> QED BY <2>2, <2>3, <1>q
  <1>8. ASSUME NEW a \in Accounts, NEW d \in Delays, SetEnforceTime(a, d)
        PROVE  ListInv'
    <2>1. ListRight
      BY <1>8, ListUnchanged DEF SetEnforceTime
    <2>2. Others
      BY <1>8, EnforceAssumption DEF SetEnforceTime, ListInv, ListType
    <2> QED BY <2>1, <2>2, <1>q
  <1>9. CASE Tick
    <2>1. ListRight
      BY <1>9, ListUnchanged DEF Tick
    <2>2. Others
      BY <1>9 DEF Tick, userVars, ListInv, ListType
    <2> QED BY <2>1, <2>2, <1>q
  <1>10. CASE TimeoutCheck
    <2>1. ListRight
      BY <1>10, TimeoutCheckInv
    <2>2. Others
      BY <1>10, <1>u DEF TimeoutCheck, userVars
    <2> QED BY <2>1, <2>2, <1>q
  <1>11. ASSUME UNCHANGED listVars, UNCHANGED <<now, enforcetime, held>>
         PROVE  ListInv'
    <2>1. ListRight
      BY <1>11, ListUnchanged
    <2> QED BY <2>1, <1>u, <1>q, <1>11
  <1>12. CASE \/ \E c \in Clients : Logout(c)
              \/ \E c \in Clients, a \in Accounts : Identify(c, a)
              \/ \E a \in Accounts : SetEnforceOff(a)
              \/ \E a \in Accounts, h \in Hosts : AccessAdd(a, h)
              \/ RemoveEnforcers
              \/ UNCHANGED enforceVars
    <2>1. UNCHANGED listVars /\ UNCHANGED <<now, enforcetime, held>>
      BY <1>12 DEF Logout, Identify, SetEnforceOff, AccessAdd, RemoveEnforcers,
                   enforceVars, userVars
    <2> QED BY <2>1, <1>11
  <1> HIDE DEF ListRight, Others
  <1> QED BY <1>1, <1>2, <1>3, <1>4, <1>5, <1>6, <1>7, <1>8, <1>9, <1>10, <1>12
          DEF EnforceNext

\* EnforceTypeOK, with what the types of the list need.
TypeInv == EnforceTypeOK /\ ListInv

\* What each client, account and nickname is recorded as keeps its type.
LEMMA TypeNext == TypeInv /\ [EnforceNext]_enforceVars => TypeInv'
  <1> SUFFICES ASSUME TypeInv, [EnforceNext]_enforceVars PROVE TypeInv'
    OBVIOUS
  <1>1. ListInv'
    BY ListNext DEF TypeInv
  <1>t. EnforceTypeOK
    BY DEF TypeInv
  <1>2. /\ now' \in Nat \ {0} /\ held' \in [Clients -> Nicks \union {None}]
        /\ enforce_list' \in Seq(Entry) /\ enforce_next' \in Nat
        /\ timers' \subseteq Nat
    BY <1>1 DEF ListInv, ListType
  <1> DEFINE Rest == /\ myuser' \in [Clients -> Accounts \union {None}]
                     /\ access' \in [Accounts -> SUBSET Hosts]
                     /\ protected' \subseteq Accounts
                     /\ enforcetime' \in [Accounts -> Delays]
                     /\ doenforce' \subseteq Clients
                     /\ enforcers' \subseteq Nicks
  <1>3. ASSUME NEW c \in Clients, NEW n \in Nicks, TakeNick(c, n) PROVE Rest
    BY <1>3, <1>t DEF EnforceTypeOK, TakeNick, actVars
  <1>4. ASSUME NEW c \in Clients, NEW n \in Nicks, Evict(n, c)
        PROVE  doenforce' \subseteq Clients /\ enforcers' \subseteq Nicks
    BY <1>4, <1>t DEF EnforceTypeOK, Evict
  <1>5. ASSUME NEW c \in Clients, NEW n \in Nicks
        PROVE  LoggedOut(n, c) \in [Clients -> Accounts \union {None}]
    BY <1>t DEF EnforceTypeOK, LoggedOut
  <1>6. ASSUME NEW c \in Clients, NEW n \in Nicks, Release(c, n) PROVE Rest
    BY <1>6, <1>4, <1>5, <1>t DEF EnforceTypeOK, Release
  <1>7. ASSUME NEW c \in Clients, NEW n \in Nicks, Regain(c, n) PROVE Rest
    <2>1. Owner[n] \in Accounts
      BY EnforceAssumption
    <2>2. myuser' \in [Clients -> Accounts \union {None}]
      BY <2>1, <1>7, <1>5 DEF Regain
    <2> QED BY <1>7, <1>4, <2>2, <1>t DEF EnforceTypeOK, Regain
  <1>8. ASSUME NEW c \in Clients, Recheck(c) \/ LeaveNick(c) \/ Logout(c)
        PROVE  Rest
    BY <1>8, <1>t DEF EnforceTypeOK, Recheck, LeaveNick, Logout, userVars, actVars
  <1>9. ASSUME NEW c \in Clients, NEW a \in Accounts, Identify(c, a) PROVE Rest
    BY <1>9, <1>t DEF EnforceTypeOK, Identify, actVars
  <1>10. ASSUME NEW a \in Accounts, SetEnforceOn(a) \/ SetEnforceOff(a)
         PROVE  Rest
    BY <1>10, <1>t DEF EnforceTypeOK, SetEnforceOn, SetEnforceOff, actVars
  <1>11. ASSUME NEW a \in Accounts, NEW d \in Delays, SetEnforceTime(a, d)
         PROVE  Rest
    BY <1>11, <1>t DEF EnforceTypeOK, SetEnforceTime, actVars
  <1>12. ASSUME NEW a \in Accounts, NEW h \in Hosts,
                AccessAdd(a, h) \/ AccessDel(a, h)
         PROVE  Rest
    BY <1>12, <1>t DEF EnforceTypeOK, AccessAdd, AccessDel, actVars
  <1>a. ASSUME TimeoutCheck PROVE Rest
    <2>1. PICK k \in StopPoints(enforce_list, now) :
             doenforce' = doenforce \union Victims(k)
      BY <1>a DEF TimeoutCheck
    <2>2. Victims(k) \subseteq Clients
      BY DEF Victims
    <2>3. doenforce' \subseteq Clients
      BY <2>1, <2>2, <1>t DEF EnforceTypeOK
    <2> QED BY <1>a, <2>3, <1>t DEF EnforceTypeOK, TimeoutCheck, userVars
  <1>13. ASSUME Tick \/ RemoveEnforcers \/ UNCHANGED enforceVars PROVE Rest
    BY <1>13, <1>t DEF EnforceTypeOK, Tick, RemoveEnforcers, userVars, listVars,
                       actVars, enforceVars
  <1>14. Rest
    <2> HIDE DEF Rest
    <2> QED BY <1>3, <1>6, <1>7, <1>8, <1>9, <1>10, <1>11, <1>12, <1>a,
                <1>13 DEF EnforceNext
  <1> QED BY <1>1, <1>2, <1>14 DEF TypeInv, EnforceTypeOK

\* Every variable keeps its type: an entry always names a registered nickname.
THEOREM EntriesTyped == EnforceSpec => []EnforceTypeOK
  <1>1. EnforceInit => TypeInv
    <2> SUFFICES ASSUME EnforceInit PROVE TypeInv
      OBVIOUS
    <2>1. ListInv
      BY ListInit
    <2> QED BY <2>1, EnforceAssumption DEF EnforceInit, TypeInv, EnforceTypeOK, ListInv, ListType
  <1>2. TypeInv => EnforceTypeOK
    BY DEF TypeInv
  <1> QED BY <1>1, <1>2, TypeNext, PTL DEF EnforceSpec

\* The assumption of enforce_timeout_check(), enforce.c:503: the list is sorted.
THEOREM ListSorted == EnforceSpec => []SortedList
  <1>1. ListInv => SortedList
    BY DEF ListInv
  <1> QED BY ListInit, ListNext, <1>1, PTL DEF EnforceSpec

\* The timer armed by check_enforce() is never later than an entry.
THEOREM TimerEarlyEnough == EnforceSpec => []TimerCoversList
  <1>1. ListInv => TimerCoversList
    BY DEF ListInv
  <1> QED BY ListInit, ListNext, <1>1, PTL DEF EnforceSpec

\* The list is sorted and the timer is early enough for it.
THEOREM DeadlinesAlwaysKept == EnforceSpec => []DeadlinesKept
  <1> QED BY ListSorted, TimerEarlyEnough, PTL DEF DeadlinesKept

\* enforce_timeout_check() leaves no entry that is due.
THEOREM NothingDueStays == EnforceSpec => CheckVisitsAllDue
  <1>1. ListInv /\ [EnforceNext]_enforceVars =>
          [TimeoutCheck => \A i \in DOMAIN enforce_list' :
                              enforce_list'[i].timelimit > now]_enforceVars
    BY TimeoutCheckInv
  <1> QED BY ListInit, ListNext, <1>1, PTL DEF EnforceSpec, CheckVisitsAllDue

-----------------------------------------------------------------------------
(* Injections between finite sets. *)

LEMMA InjectionExists ==
    ASSUME NEW A, NEW B, IsFiniteSet(A), IsFiniteSet(B), Cardinality(A) <= Cardinality(B)
    PROVE  \E p \in [A -> B] : IsInjective(p)
  <1> DEFINE a == Cardinality(A)
             b == Cardinality(B)
  <1>1. a \in Nat /\ b \in Nat /\ ExistsBijection(1 .. a, A) /\ ExistsBijection(1 .. b, B)
    BY FS_CardinalityType
  <1>2. PICK f : f \in [1 .. a -> A] /\ IsInjective(f) /\ \A t \in A : \E s \in 1 .. a : f[s] = t
    BY <1>1 DEF ExistsBijection, Bijection, Injection, Surjection
  <1>3. PICK g : g \in [1 .. b -> B] /\ IsInjective(g)
    BY <1>1 DEF ExistsBijection, Bijection, Injection
  <1>4. 1 .. a \subseteq 1 .. b
    BY <1>1
  <1> DEFINE at(t) == CHOOSE s \in 1 .. a : f[s] = t
             p == [t \in A |-> g[at(t)]]
  <1>5. \A t \in A : at(t) \in 1 .. a /\ f[at(t)] = t
    BY <1>2
  <1> HIDE DEF at, a, b
  <1>6. p \in [A -> B]
    BY <1>3, <1>4, <1>5
  <1>7. ASSUME NEW s \in A, NEW t \in A, p[s] = p[t] PROVE s = t
    <2>1. g[at(s)] = g[at(t)]
      BY <1>7
    <2>2. at(s) = at(t)
      BY <2>1, <1>3, <1>4, <1>5 DEF IsInjective
    <2> QED BY <2>2, <1>5
  <1>8. IsInjective(p)
    BY <1>7 DEF IsInjective
  <1> QED BY <1>6, <1>8

-----------------------------------------------------------------------------
(* The lookups *)

\* Requests have time and tries left.
Waiting == \A r \in requests : r.left > 0 /\ r.timeout > 0

\* A request asks for the address of the client its lookup is about, in the
\* lookup's blacklist.
AskedFor ==
    \A r \in requests :
       r.queryname = <<user[blc[r.query].u].ip, blc[r.query].blacklist>>

\* The types of what a lookup consists of.
LookupTypes ==
    /\ queries \in [Users -> SUBSET (1 .. MaxLookups)]
    /\ DOMAIN blc \subseteq 1 .. MaxLookups /\ blc \in [DOMAIN blc -> Lookup]
    /\ requests \subseteq Request

UserType == user \in [Users -> Client \union {Off}]

Lookups == UserType /\ LookupTypes /\ Waiting /\ LookupsTracked /\ AskedFor

OptionTypes == blacklists \subseteq Zones /\ action \in Actions /\ exempt \subseteq IPs

Inv ==
    /\ Lookups
    /\ OptionTypes
    /\ net \subseteq [id : Ids, name : Name]
    /\ KlinedAreListed

LEMMA OffIsNoClient == \A c \in Client : c # Off
  <1> SUFFICES ASSUME NEW c \in Client, c = Off PROVE FALSE
    OBVIOUS
  <1>1. DOMAIN c = {"ip", "klined"}
    BY DEF Client
  <1>2. DOMAIN Off = {"ip"}
    BY DEF Off
  <1> QED BY <1>1, <1>2

\* The clients of the lookups L in the next state are who they were.
SameClients(L) ==
    \A q \in L : user'[blc[q].u] # Off /\ user'[blc[q].u].ip = user[blc[q].u].ip

\* Lookups end together with their requests.
LEMMA Freeing ==
    ASSUME Lookups, UserType', NEW qs, FreeLookups(qs),
           requests' = {r \in requests : r.query \notin qs},
           SameClients(DOMAIN blc \ qs)
    PROVE  Lookups'
  <1> DEFINE D == DOMAIN blc \ qs
  <1>1. DOMAIN blc' = D /\ \A q \in D : blc'[q] = blc[q]
    BY DEF FreeLookups, Restrict
  <1>2. LookupTypes'
    <2>1. queries' \in [Users -> SUBSET (1 .. MaxLookups)]
      BY DEF FreeLookups, Lookups, LookupTypes
    <2>2. DOMAIN blc' \subseteq 1 .. MaxLookups /\ blc' \in [DOMAIN blc' -> Lookup]
      BY DEF FreeLookups, Restrict, Lookups, LookupTypes
    <2>3. requests' \subseteq Request
      BY DEF Lookups, LookupTypes
    <2> QED BY <2>1, <2>2, <2>3 DEF LookupTypes
  <1>3. Waiting'
    BY DEF Lookups, Waiting
  <1>4. LookupsTracked'
    <2>1. {r.query : r \in requests'} = DOMAIN blc'
      BY <1>1 DEF Lookups, LookupsTracked
    <2>2. \A r, s \in requests' : r.query = s.query \/ r.id = s.id => r = s
      BY DEF Lookups, LookupsTracked
    <2>3. ASSUME NEW u \in Users PROVE queries'[u] = {q \in DOMAIN blc' : blc'[q].u = u}
      <3>1. queries'[u] = queries[u] \ qs
        BY DEF FreeLookups
      <3> QED BY <3>1, <1>1 DEF Lookups, LookupsTracked
    <2>4. ASSUME NEW q \in DOMAIN blc' PROVE blc'[q].u \in Online'
      <3>1. blc'[q] = blc[q] /\ blc[q].u \in Users /\ user'[blc[q].u] # Off
        BY <1>1 DEF SameClients, Lookups, LookupTypes, Lookup
      <3> QED BY <3>1 DEF Online
    <2> QED BY <2>1, <2>2, <2>3, <2>4 DEF LookupsTracked
  <1>5. AskedFor'
    <2> SUFFICES ASSUME NEW r \in requests'
                 PROVE r.queryname = <<user'[blc'[r.query].u].ip, blc'[r.query].blacklist>>
      BY DEF AskedFor
    <2>1. r \in requests /\ r.query \in D
      BY DEF Lookups, LookupsTracked
    <2>2. r.queryname = <<user[blc[r.query].u].ip, blc[r.query].blacklist>>
      BY <2>1 DEF Lookups, AskedFor
    <2> QED BY <2>1, <2>2, <1>1 DEF SameClients
  <1> QED BY <1>2, <1>3, <1>4, <1>5 DEF Lookups

\* The lookups that lookup_blacklists() starts: where each is allocated, and
\* the id of its request.
Started(c, ip, ptr, id) ==
    /\ IsInjective(ptr) /\ IsInjective(id)
    /\ DOMAIN blc' = DOMAIN blc \union Range(ptr)
    /\ blc' = [q \in DOMAIN blc' |-> blc'[q]]
    /\ \A q \in DOMAIN blc : blc'[q] = blc[q]
    /\ \A bl \in blacklists : blc'[ptr[bl]] = [blacklist |-> bl, u |-> c]
    /\ queries' = [queries EXCEPT ![c] = @ \union Range(ptr)]
    /\ requests' = requests \union {make_request(ptr[bl], <<ip, bl>>, id[bl]) : bl \in blacklists}

LEMMA LookupsStarted ==
    ASSUME DnsblAssumption, DOMAIN blc \subseteq 1 .. MaxLookups, blacklists \subseteq Zones,
           NEW c \in Users, NEW ip \in IPv4, blacklists # {}, lookup_blacklists(c, ip)
    PROVE  \E ptr \in [blacklists -> (1 .. MaxLookups) \ DOMAIN blc],
              id \in [blacklists -> Ids \ UsedIds] : Started(c, ip, ptr, id)
  <1> DEFINE free == (1 .. MaxLookups) \ DOMAIN blc
             chosen == CHOOSE p \in [blacklists -> free] : IsInjective(p)
  <1>1. /\ Cardinality(free) >= Cardinality(blacklists)
        /\ queries' = [queries EXCEPT ![c] = @ \union Range(chosen)]
        /\ blc' = [q \in DOMAIN blc \union Range(chosen) |->
                     IF q \in DOMAIN blc THEN blc[q]
                     ELSE initiate_blacklist_dnsquery(CHOOSE bl \in blacklists : chosen[bl] = q, c)]
        /\ \E id \in [blacklists -> Ids \ UsedIds] :
              /\ IsInjective(id)
              /\ requests' = requests \union
                   {make_request(chosen[bl], <<ip, bl>>, id[bl]) : bl \in blacklists}
    BY DEF lookup_blacklists
  <1>2. chosen \in [blacklists -> free] /\ IsInjective(chosen)
    <2>1. IsFiniteSet(blacklists)
      BY FS_Subset DEF DnsblAssumption
    <2>2. IsFiniteSet(1 .. MaxLookups)
      BY FS_Interval DEF DnsblAssumption
    <2>3. IsFiniteSet(free)
      BY <2>2, FS_Subset
    <2>4. Cardinality(free) \in Nat /\ Cardinality(blacklists) \in Nat
      BY <2>1, <2>3, FS_CardinalityType
    <2>5. Cardinality(blacklists) <= Cardinality(free)
      BY <2>4, <1>1
    <2> QED BY <2>1, <2>3, <2>5, InjectionExists
  <1> HIDE DEF free, chosen
  <1>3. PICK ptr : ptr = chosen
    OBVIOUS
  <1>4. PICK id \in [blacklists -> Ids \ UsedIds] :
           /\ IsInjective(id)
           /\ requests' = requests \union
                {make_request(ptr[bl], <<ip, bl>>, id[bl]) : bl \in blacklists}
    BY <1>1, <1>3
  <1>5. ptr \in [blacklists -> free] /\ IsInjective(ptr)
    BY <1>2, <1>3
  <1>6. blc' = [q \in DOMAIN blc \union Range(ptr) |->
                  IF q \in DOMAIN blc THEN blc[q]
                  ELSE initiate_blacklist_dnsquery(CHOOSE bl \in blacklists : ptr[bl] = q, c)]
    BY <1>1, <1>3
  <1>7. ASSUME NEW bl \in blacklists PROVE blc'[ptr[bl]] = [blacklist |-> bl, u |-> c]
    <2>1. ptr[bl] \in Range(ptr) /\ ptr[bl] \notin DOMAIN blc
      BY <1>5 DEF Range, free
    <2>2. (CHOOSE b \in blacklists : ptr[b] = ptr[bl]) = bl
      BY <1>5 DEF IsInjective
    <2> QED BY <2>1, <2>2, <1>6 DEF initiate_blacklist_dnsquery
  <1>8. /\ DOMAIN blc' = DOMAIN blc \union Range(ptr)
        /\ blc' = [q \in DOMAIN blc' |-> blc'[q]]
        /\ \A q \in DOMAIN blc : blc'[q] = blc[q]
    BY <1>6
  <1>9. queries' = [queries EXCEPT ![c] = @ \union Range(ptr)]
    BY <1>1, <1>3
  <1> QED BY <1>4, <1>5, <1>7, <1>8, <1>9 DEF Started, free

\* Lookups start together with their requests.
LEMMA Starting ==
    ASSUME DnsblAssumption, Lookups, blacklists \subseteq Zones, UserType',
           NEW c \in Users, NEW ip \in IPs, lookup_blacklists(c, ip),
           SameClients(DOMAIN blc), user'[c] # Off, user'[c].ip = ip
    PROVE  Lookups'
  <1>1. CASE ip \notin IPv4 \/ blacklists = {}
    <2>1. UNCHANGED <<queries, blc, requests>>
      BY <1>1 DEF lookup_blacklists
    <2>2. LookupTypes' /\ Waiting'
      BY <2>1 DEF Lookups, LookupTypes, Waiting
    <2>3. LookupsTracked'
      BY <2>1 DEF Lookups, LookupsTracked, LookupTypes, Lookup, SameClients, Online
    <2>4. AskedFor'
      BY <2>1 DEF Lookups, LookupsTracked, AskedFor, SameClients
    <2> QED BY <2>2, <2>3, <2>4 DEF Lookups
  <1>2. CASE ~(ip \notin IPv4 \/ blacklists = {})
    <2>1. PICK ptr \in [blacklists -> (1 .. MaxLookups) \ DOMAIN blc],
               id \in [blacklists -> Ids \ UsedIds] : Started(c, ip, ptr, id)
      BY <1>2, LookupsStarted DEF Lookups, LookupTypes
    <2> DEFINE new == Range(ptr)
               req(bl) == make_request(ptr[bl], <<ip, bl>>, id[bl])
    <2>2. new = {ptr[bl] : bl \in blacklists}
      BY DEF Range
    <2>3. \A bl \in blacklists : ptr[bl] \in 1 .. MaxLookups /\ ptr[bl] \notin DOMAIN blc
      OBVIOUS
    <2>4. \A bl \in blacklists : id[bl] \in Ids /\ id[bl] \notin UsedIds
      OBVIOUS
    <2>5. /\ DOMAIN blc' = DOMAIN blc \union new
          /\ blc' = [q \in DOMAIN blc' |-> blc'[q]]
          /\ \A q \in DOMAIN blc : blc'[q] = blc[q]
          /\ \A bl \in blacklists : blc'[ptr[bl]] = [blacklist |-> bl, u |-> c]
          /\ queries' = [queries EXCEPT ![c] = @ \union new]
          /\ requests' = requests \union {req(bl) : bl \in blacklists}
      BY <2>1 DEF Started
    <2> HIDE DEF new
    <2>n. \A bl \in blacklists : blc'[ptr[bl]] = [blacklist |-> bl, u |-> c]
      BY <2>1 DEF Started
    <2>6. ASSUME NEW bl \in blacklists PROVE blc'[ptr[bl]].u = c /\ blc'[ptr[bl]].blacklist = bl
      <3>1. blc'[ptr[bl]] = [blacklist |-> bl, u |-> c]
        BY <2>n
      <3> QED BY <3>1
    <2>7. ASSUME NEW bl \in blacklists
          PROVE  /\ req(bl) \in Request /\ req(bl).query = ptr[bl] /\ req(bl).id = id[bl]
                 /\ req(bl).queryname = <<ip, bl>> /\ req(bl).left > 0 /\ req(bl).timeout > 0
      <3>1. req(bl) = [query |-> ptr[bl], queryname |-> <<ip, bl>>, id |-> id[bl],
                       retries |-> Retries, timeout |-> FirstTimeout, left |-> FirstTimeout]
        BY DEF make_request
      <3>2. <<ip, bl>> \in Name /\ Retries \in 1 .. Retries /\ FirstTimeout \in Nat /\ FirstTimeout > 0
        BY DEF Name, DnsblAssumption
      <3> QED BY <3>1, <3>2, <2>3, <2>4 DEF Request
    <2> HIDE DEF req
    <2>11. LookupTypes'
      <3>1. queries' \in [Users -> SUBSET (1 .. MaxLookups)]
        BY <2>2, <2>3, <2>5 DEF Lookups, LookupTypes
      <3>2. DOMAIN blc' \subseteq 1 .. MaxLookups
        BY <2>2, <2>3, <2>5 DEF Lookups, LookupTypes
      <3>3. ASSUME NEW q \in DOMAIN blc' PROVE blc'[q] \in Lookup
        <4>1. CASE q \in DOMAIN blc
          BY <4>1, <2>5 DEF Lookups, LookupTypes
        <4>2. ASSUME NEW bl \in blacklists, q = ptr[bl] PROVE blc'[q] \in Lookup
          <5>1. blc'[ptr[bl]] = [blacklist |-> bl, u |-> c]
            BY <2>n
          <5> QED BY <5>1, <4>2 DEF Lookup
        <4> QED BY <4>1, <4>2, <2>2, <2>5
      <3>4. requests' \subseteq Request
        BY <2>5, <2>7 DEF Lookups, LookupTypes
      <3> QED BY <3>1, <3>2, <3>3, <3>4, <2>5 DEF LookupTypes
    <2>12. Waiting'
      BY <2>5, <2>7 DEF Lookups, Waiting
    <2>13. LookupsTracked'
      <3>1. {r.query : r \in requests'} = DOMAIN blc'
        <4>1. {r.query : r \in requests} = DOMAIN blc
          BY DEF Lookups, LookupsTracked
        <4> QED BY <4>1, <2>2, <2>5, <2>7
      <3>2. ASSUME NEW r \in requests', NEW s \in requests', r.query = s.query \/ r.id = s.id
            PROVE  r = s
        <4>1. CASE r \in requests /\ s \in requests
          BY <3>2, <4>1 DEF Lookups, LookupsTracked
        <4>2. ASSUME NEW x \in requests, NEW bl \in blacklists
              PROVE  x.query # req(bl).query /\ x.id # req(bl).id
          <5>1. x.query \in DOMAIN blc /\ x.id \in UsedIds
            BY DEF Lookups, LookupsTracked, UsedIds
          <5> QED BY <5>1, <2>3, <2>4, <2>7
        <4>3. ASSUME NEW x \in blacklists, NEW y \in blacklists,
                     req(x).query = req(y).query \/ req(x).id = req(y).id
              PROVE  x = y
          <5>1. ptr[x] = ptr[y] \/ id[x] = id[y]
            BY <4>3, <2>7
          <5> QED BY <5>1, <2>1 DEF IsInjective, Started
        <4> QED BY <3>2, <4>1, <4>2, <4>3, <2>5
      <3>3. ASSUME NEW v \in Users PROVE queries'[v] = {q \in DOMAIN blc' : blc'[q].u = v}
        <4>1. queries[v] = {q \in DOMAIN blc : blc[q].u = v}
          BY DEF Lookups, LookupsTracked
        <4>2. queries'[v] = IF v = c THEN queries[v] \union new ELSE queries[v]
          BY <2>5 DEF Lookups, LookupTypes
        <4>3. \A q \in new : blc'[q].u = c
          BY <2>2, <2>6
        <4> QED BY <4>1, <4>2, <4>3, <2>5
      <3>4. ASSUME NEW q \in DOMAIN blc' PROVE blc'[q].u \in Online'
        <4>1. CASE q \in DOMAIN blc
          BY <4>1, <2>5 DEF SameClients, Online, Lookups, LookupTypes, Lookup
        <4>2. CASE q \in new
          BY <4>2, <2>2, <2>6 DEF Online
        <4> QED BY <4>1, <4>2, <2>5
      <3> QED BY <3>1, <3>2, <3>3, <3>4 DEF LookupsTracked
    <2>14. ASSUME NEW r \in requests'
           PROVE  r.queryname = <<user'[blc'[r.query].u].ip, blc'[r.query].blacklist>>
      <3>1. CASE r \in requests
        <4>1. r.query \in DOMAIN blc
          BY <3>1 DEF Lookups, LookupsTracked
        <4> QED BY <3>1, <4>1, <2>5 DEF Lookups, AskedFor, SameClients
      <3>2. ASSUME NEW bl \in blacklists, r = req(bl)
            PROVE  r.queryname = <<user'[blc'[r.query].u].ip, blc'[r.query].blacklist>>
        BY <3>2, <2>6, <2>7
      <3> QED BY <3>1, <3>2, <2>5
    <2> QED BY <2>11, <2>12, <2>13, <2>14 DEF Lookups, AskedFor
  <1> QED BY <1>1, <1>2

\* A pass of the resolver's timer: what is left of the requests after it.
LEMMA Passing ==
    ASSUME DnsblAssumption, Lookups, timeout_query_list
    PROVE  Lookups'
  <1> DEFINE due == {r \in requests : r.left = 1}
             expired == {r \in due : r.retries = 1}
             again == due \ expired
             left == requests \ expired
             qs == {r.query : r \in expired}
  <1>1. PICK id \in [again -> Ids], order \in [due -> 1 .. Cardinality(due)] :
           /\ IsInjective(order)
           /\ \A r \in again : \A s \in requests :
                 IF s \in due /\ order[s] < order[r]
                 THEN s \in again => id[r] # id[s]
                 ELSE id[r] # s.id
           /\ requests' = {[r EXCEPT !.left = @ - 1] : r \in requests \ due}
                          \union {resend_query(r, id[r]) : r \in again}
    BY DEF timeout_query_list
  <1>2. FreeLookups(qs) /\ user' = user
    BY DEF timeout_query_list
  <1>f. Cardinality(due) \in Nat
    <2>1. IsFiniteSet(1 .. MaxLookups)
      BY FS_Interval DEF DnsblAssumption
    <2> DEFINE f == [r \in requests |-> r.query]
    <2>2. f \in Injection(requests, 1 .. MaxLookups)
      BY DEF Injection, IsInjective, Lookups, LookupsTracked, LookupTypes, Request
    <2>3. IsFiniteSet(requests)
      BY <2>1, <2>2, FS_Injection
    <2>4. IsFiniteSet(due)
      BY <2>3, FS_Subset
    <2> QED BY <2>4, FS_CardinalityType
  <1> DEFINE nxt(r) == IF r \in due THEN resend_query(r, id[r]) ELSE [r EXCEPT !.left = @ - 1]
  <1>3. requests' = {nxt(r) : r \in left}
    BY <1>1
  <1>4. ASSUME NEW r \in left
        PROVE  /\ nxt(r) \in Request /\ nxt(r).left > 0 /\ nxt(r).timeout > 0
               /\ nxt(r).query = r.query /\ nxt(r).queryname = r.queryname
               /\ nxt(r).id = IF r \in due THEN id[r] ELSE r.id
    <2>1. r \in Request /\ r.left > 0 /\ r.timeout > 0
      BY DEF Lookups, LookupTypes, Waiting
    <2>2. CASE r \in due
      <3>1. r \in again /\ id[r] \in Ids /\ r.retries # 1
        BY <2>2
      <3>2. r.retries - 1 \in 1 .. Retries
        BY <2>1, <3>1 DEF Request, DnsblAssumption
      <3>3. nxt(r) = [r EXCEPT !.retries = @ - 1, !.timeout = 2 * @, !.left = 2 * r.timeout, !.id = id[r]]
        BY <2>2 DEF resend_query
      <3>4. 2 * r.timeout \in Nat /\ 2 * r.timeout > 0
        BY <2>1 DEF Request
      <3> HIDE DEF nxt
      <3> QED BY <2>1, <2>2, <3>1, <3>2, <3>3, <3>4 DEF Request
    <2>3. CASE r \notin due
      <3>1. nxt(r) = [r EXCEPT !.left = r.left - 1] /\ r.left # 1
        BY <2>3
      <3>2. r.left - 1 \in Nat /\ r.left - 1 > 0
        BY <2>1, <3>1 DEF Request
      <3> HIDE DEF nxt
      <3> QED BY <2>1, <2>3, <3>1, <3>2 DEF Request
    <2> QED BY <2>2, <2>3
  <1> HIDE DEF nxt
  <1>5. \A r, s \in requests : r.query = s.query \/ r.id = s.id => r = s
    BY DEF Lookups, LookupsTracked
  <1>6. \A r \in requests : r \in left <=> r.query \notin qs
    BY <1>5
  <1>7. DOMAIN blc' = DOMAIN blc \ qs /\ \A q \in DOMAIN blc \ qs : blc'[q] = blc[q]
    BY <1>2 DEF FreeLookups, Restrict
  <1>8. LookupTypes' /\ UserType'
    <2>1. queries' \in [Users -> SUBSET (1 .. MaxLookups)]
      BY <1>2 DEF FreeLookups, Lookups, LookupTypes
    <2>2. DOMAIN blc' \subseteq 1 .. MaxLookups /\ blc' \in [DOMAIN blc' -> Lookup]
      BY <1>2 DEF FreeLookups, Restrict, Lookups, LookupTypes
    <2>3. requests' \subseteq Request
      BY <1>3, <1>4
    <2> QED BY <2>1, <2>2, <2>3, <1>2 DEF LookupTypes, Lookups, UserType
  <1>9. Waiting'
    BY <1>3, <1>4 DEF Waiting
  <1>10. LookupsTracked'
    <2>1. {r.query : r \in requests'} = DOMAIN blc'
      <3>1. {r.query : r \in requests'} = {r.query : r \in left}
        BY <1>3, <1>4
      <3>2. {r.query : r \in requests} = DOMAIN blc
        BY DEF Lookups, LookupsTracked
      <3>3. \A q : q \in {r.query : r \in left} <=> \E r \in requests : r \in left /\ q = r.query
        OBVIOUS
      <3> HIDE DEF left, qs
      <3>4. \A q : q \in {r.query : r \in left} <=> q \in DOMAIN blc /\ q \notin qs
        BY <3>2, <3>3, <1>6
      <3> QED BY <3>1, <3>4, <1>7
    <2>2. ASSUME NEW r \in left, NEW s \in left,
                 nxt(r).query = nxt(s).query \/ nxt(r).id = nxt(s).id
          PROVE  r = s
      <3>1. CASE nxt(r).query = nxt(s).query
        BY <3>1, <1>4, <1>5
      <3>2. CASE nxt(r).id = nxt(s).id
        <4>1. CASE r \notin due /\ s \notin due
          BY <3>2, <4>1, <1>4, <1>5
        <4>2. ASSUME NEW x \in left, NEW y \in left, x \in due, y \notin due
              PROVE  nxt(x).id # nxt(y).id
          <5>1. x \in again /\ y \in requests
            BY <4>2
          <5>2. id[x] # y.id
            BY <5>1, <4>2, <1>1
          <5> QED BY <5>2, <4>2, <1>4
        <4>3. ASSUME r \in due, s \in due, r # s PROVE FALSE
          <5>1. r \in again /\ s \in again
            BY <4>3
          <5>2. order[r] \in Int /\ order[s] \in Int /\ order[r] # order[s]
            BY <4>3, <1>1, <1>f DEF IsInjective
          <5>3. CASE order[s] < order[r]
            BY <5>1, <5>3, <4>3, <3>2, <1>1, <1>4
          <5>4. CASE order[r] < order[s]
            BY <5>1, <5>4, <4>3, <3>2, <1>1, <1>4
          <5> QED BY <5>2, <5>3, <5>4
        <4> QED BY <3>2, <4>1, <4>2, <4>3
      <3> QED BY <2>2, <3>1, <3>2
    <2>3. \A r, s \in requests' : r.query = s.query \/ r.id = s.id => r = s
      BY <2>2, <1>3
    <2>4. ASSUME NEW u \in Users PROVE queries'[u] = {q \in DOMAIN blc' : blc'[q].u = u}
      <3>1. queries'[u] = queries[u] \ qs
        BY <1>2 DEF FreeLookups
      <3> QED BY <3>1, <1>7 DEF Lookups, LookupsTracked
    <2>5. \A q \in DOMAIN blc' : blc'[q].u \in Online'
      BY <1>2, <1>7 DEF Online, Lookups, LookupsTracked
    <2> QED BY <2>1, <2>3, <2>4, <2>5 DEF LookupsTracked
  <1>11. AskedFor'
    <2> SUFFICES ASSUME NEW r \in left
                 PROVE  nxt(r).queryname = <<user'[blc'[nxt(r).query].u].ip, blc'[nxt(r).query].blacklist>>
      BY <1>3 DEF AskedFor
    <2>1. r.query \in DOMAIN blc \ qs
      BY <1>6 DEF Lookups, LookupsTracked
    <2>2. r.queryname = <<user[blc[r.query].u].ip, blc[r.query].blacklist>>
      BY DEF Lookups, AskedFor
    <2> QED BY <2>1, <2>2, <1>2, <1>4, <1>7
  <1> QED BY <1>8, <1>9, <1>10, <1>11 DEF Lookups

\* An answer ends one lookup and, if the client is listed, all of its others.
LEMMA Answered ==
    ASSUME Lookups, KlinedAreListed, NEW r \in requests, NEW listed \in BOOLEAN,
           listed => r.queryname \in Listed, blacklist_dns_callback(r, listed)
    PROVE  Lookups' /\ KlinedAreListed'
  <1> DEFINE c == blc[r.query].u
             aborted == IF listed THEN queries[c] \ {r.query} ELSE {}
             qs == {r.query} \union aborted
  <1>1. /\ FreeLookups(qs)
        /\ requests' = {s \in requests \ {r} : s.query \notin aborted}
        /\ IF listed THEN dnsbl_hit(c) ELSE UNCHANGED user
    BY DEF blacklist_dns_callback, delete_resolver_queries, rem_request
  <1>2. requests' = {s \in requests : s.query \notin qs}
    <2>1. \A s \in requests : s.query = r.query => s = r
      BY DEF Lookups, LookupsTracked
    <2> HIDE DEF aborted
    <2> QED BY <2>1, <1>1
  <1>3. /\ r.query \in DOMAIN blc /\ c \in Users /\ user[c] # Off /\ blc[r.query].blacklist \in Zones
        /\ r.queryname = <<user[c].ip, blc[r.query].blacklist>>
    BY DEF Lookups, LookupsTracked, AskedFor, LookupTypes, Lookup, Online
  <1> HIDE DEF c
  <1>4. user \in [Users -> Client \union {Off}] /\ user[c] \in Client
    BY <1>3 DEF Lookups, UserType
  <1>5. \/ user' = user
        \/ listed /\ user' = [user EXCEPT ![c] = [user[c] EXCEPT !.klined = TRUE]]
    BY <1>1, <1>3, <1>4 DEF dnsbl_hit
  <1>6. ASSUME NEW v \in Users
        PROVE  \/ user'[v] = user[v]
               \/ listed /\ v = c /\ user'[v] = [user[c] EXCEPT !.klined = TRUE]
    BY <1>4, <1>5
  <1>7. [user[c] EXCEPT !.klined = TRUE] \in Client /\ [user[c] EXCEPT !.klined = TRUE].ip = user[c].ip
    BY <1>4 DEF Client
  <1>8. UserType'
    BY <1>4, <1>5, <1>7 DEF UserType
  <1>9. \A v \in Users : user'[v] # Off => user'[v].ip = user[v].ip
    BY <1>6, <1>7
  <1>10. \A v \in Users : user[v] # Off => user'[v] # Off
    <2>1. [user[c] EXCEPT !.klined = TRUE] # Off
      BY <1>7, OffIsNoClient
    <2> QED BY <2>1, <1>6
  <1>11. SameClients(DOMAIN blc \ qs)
    BY <1>9, <1>10 DEF SameClients, Lookups, LookupsTracked, Online
  <1>12. Lookups'
    BY <1>1, <1>2, <1>8, <1>11, Freeing
  <1>13. KlinedAreListed'
    <2> SUFFICES ASSUME NEW v \in Users, user'[v] # Off, user'[v].klined
                 PROVE  \E z \in Zones : <<user'[v].ip, z>> \in Listed
      BY DEF KlinedAreListed, Online
    <2>1. CASE user'[v] = user[v]
      BY <2>1 DEF KlinedAreListed, Online
    <2>2. CASE listed /\ v = c
      BY <2>2, <1>3, <1>9
    <2> QED BY <2>1, <2>2, <1>6
  <1> QED BY <1>12, <1>13

-----------------------------------------------------------------------------
(* The invariant *)

LEMMA InvInit ==
    ASSUME DnsblAssumption, Init
    PROVE  Inv
  <1>1. Lookups
    BY DEF Init, Lookups, UserType, LookupTypes, Waiting, LookupsTracked, AskedFor
  <1>2. KlinedAreListed
    BY DEF Init, KlinedAreListed, Online
  <1> QED BY <1>1, <1>2 DEF Init, Inv, OptionTypes

\* What the actions that only send and lose queries, or set options, leave.
LEMMA Untouched ==
    ASSUME Lookups, UNCHANGED <<clientVars, requests>>
    PROVE  Lookups'
  BY DEF Lookups, UserType, LookupTypes, Waiting, LookupsTracked, AskedFor, clientVars, Online

LEMMA UserAddKeeps ==
    ASSUME DnsblAssumption, Inv, NEW c \in Users, NEW ip \in IPs, NEW internal \in BOOLEAN,
           UserAdd(c, ip, internal)
    PROVE  Lookups' /\ KlinedAreListed'
  <1>1. /\ user[c] = Off
        /\ user' = [user EXCEPT ![c] = [ip |-> ip, klined |-> FALSE]]
        /\ UNCHANGED <<queries, blc, requests>> \/ lookup_blacklists(c, ip)
    BY DEF UserAdd
  <1>2. user \in [Users -> Client \union {Off}]
    BY DEF Inv, Lookups, UserType
  <1>3. user'[c] = [ip |-> ip, klined |-> FALSE] /\ \A v \in Users \ {c} : user'[v] = user[v]
    BY <1>1, <1>2
  <1>4. user'[c] \in Client /\ user'[c].ip = ip /\ user'[c].klined = FALSE
    BY <1>3 DEF Client
  <1>5. user'[c] # Off
    BY <1>4, OffIsNoClient
  <1>6. UserType'
    BY <1>1, <1>2, <1>3, <1>4 DEF UserType
  <1>7. \A q \in DOMAIN blc : blc[q].u \in Users \ {c}
    BY <1>1 DEF Inv, Lookups, LookupsTracked, Online
  <1>8. SameClients(DOMAIN blc)
    BY <1>3, <1>7 DEF SameClients, Inv, Lookups, LookupsTracked, Online
  <1>9. CASE UNCHANGED <<queries, blc, requests>>
    <2>1. LookupTypes' /\ Waiting'
      BY <1>9 DEF Inv, Lookups, LookupTypes, Waiting
    <2>2. LookupsTracked'
      BY <1>3, <1>7, <1>8, <1>9 DEF Inv, Lookups, LookupsTracked, SameClients, Online
    <2>3. AskedFor'
      BY <1>8, <1>9 DEF Inv, Lookups, LookupsTracked, AskedFor, SameClients
    <2> QED BY <1>3, <1>4, <1>6, <2>1, <2>2, <2>3 DEF Inv, Lookups, KlinedAreListed, Online
  <1>10. CASE lookup_blacklists(c, ip)
    <2>1. Lookups'
      BY <1>4, <1>5, <1>6, <1>8, <1>10, Starting DEF Inv, OptionTypes
    <2> QED BY <2>1, <1>3, <1>4 DEF Inv, KlinedAreListed, Online
  <1> QED BY <1>1, <1>9, <1>10

LEMMA UserDeleteKeeps ==
    ASSUME Inv, NEW c \in Users, UserDelete(c)
    PROVE  Lookups' /\ KlinedAreListed'
  <1>1. /\ FreeLookups(queries[c])
        /\ requests' = {r \in requests : r.query \notin queries[c]}
        /\ user' = [user EXCEPT ![c] = Off]
    BY DEF UserDelete, abort_blacklist_queries, delete_resolver_queries
  <1>2. \A v \in Users \ {c} : user'[v] = user[v]
    BY <1>1 DEF Inv, Lookups, UserType
  <1>3. user'[c] = Off /\ UserType'
    BY <1>1 DEF Inv, Lookups, UserType
  <1>4. SameClients(DOMAIN blc \ queries[c])
    BY <1>2 DEF SameClients, Inv, Lookups, LookupsTracked, Online
  <1>5. Lookups'
    BY <1>1, <1>3, <1>4, Freeing DEF Inv
  <1> QED BY <1>2, <1>3, <1>5 DEF Inv, KlinedAreListed, Online

LEMMA ScanKeeps ==
    ASSUME DnsblAssumption, Inv, NEW c \in Users, ps_cmd_dnsblscan(c)
    PROVE  Lookups' /\ KlinedAreListed'
  <1>1. user[c] # Off /\ user' = user /\ lookup_blacklists(c, user[c].ip)
    BY DEF ps_cmd_dnsblscan, Online
  <1>2. user[c].ip \in IPs
    BY <1>1 DEF Inv, Lookups, UserType, Client
  <1>3. SameClients(DOMAIN blc) /\ UserType'
    BY <1>1 DEF SameClients, Inv, Lookups, LookupsTracked, Online, UserType
  <1>4. Lookups'
    BY <1>1, <1>2, <1>3, Starting DEF Inv, OptionTypes
  <1> QED BY <1>1, <1>4 DEF Inv, KlinedAreListed, Online

LEMMA AnswerKeeps ==
    ASSUME Inv, NEW m \in net, NEW listed \in BOOLEAN, res_read_single_reply(m, listed)
    PROVE  Lookups' /\ KlinedAreListed'
  <1>1. PICK r \in requests : check_question(r, m) /\ blacklist_dns_callback(r, listed)
    BY DEF res_read_single_reply
  <1>2. listed => r.queryname \in Listed
    BY <1>1 DEF res_read_single_reply, check_question
  <1> QED BY <1>1, <1>2, Answered DEF Inv

LEMMA PassKeeps ==
    ASSUME DnsblAssumption, Inv, timeout_query_list
    PROVE  Lookups' /\ KlinedAreListed'
  <1>1. Lookups'
    BY Passing DEF Inv
  <1> QED BY <1>1 DEF Inv, KlinedAreListed, Online, timeout_query_list

\* The queries on the network.
LEMMA QueriesSent ==
    ASSUME DnsblAssumption, Inv, Lookups', [Next]_vars
    PROVE  net' \subseteq [id : Ids, name : Name]
  <1> DEFINE Message == [id : Ids, name : Name]
  <1>0. net \subseteq Message
    BY DEF Inv
  <1>1. ASSUME NEW messages \in SUBSET Message, send_res_msg(messages) PROVE net' \subseteq Message
    BY <1>0, <1>1 DEF send_res_msg
  <1>2. ASSUME NEW c \in Users, NEW ip \in IPs, lookup_blacklists(c, ip) PROVE net' \subseteq Message
    <2>1. CASE ip \notin IPv4 \/ blacklists = {}
      BY <1>0, <1>2, <2>1 DEF lookup_blacklists
    <2>2. CASE ~(ip \notin IPv4 \/ blacklists = {})
      <3>1. PICK id \in [blacklists -> Ids \ UsedIds] :
               send_res_msg({[id |-> id[bl], name |-> <<ip, bl>>] : bl \in blacklists})
        BY <1>2, <2>2 DEF lookup_blacklists
      <3>2. {[id |-> id[bl], name |-> <<ip, bl>>] : bl \in blacklists} \subseteq Message
        BY DEF Inv, OptionTypes, Name
      <3> HIDE DEF Message
      <3> QED BY <3>1, <3>2, <1>1
    <2> QED BY <2>1, <2>2
  <1>3. ASSUME timeout_query_list PROVE net' \subseteq Message
    <2> DEFINE due == {r \in requests : r.left = 1}
               again == due \ {r \in due : r.retries = 1}
    <2>1. PICK id \in [again -> Ids] :
             send_res_msg({[id |-> id[r], name |-> r.queryname] : r \in again})
      BY <1>3 DEF timeout_query_list
    <2>2. {[id |-> id[r], name |-> r.queryname] : r \in again} \subseteq Message
      BY DEF Inv, Lookups, LookupTypes, Request
    <2> HIDE DEF Message
    <2> QED BY <2>1, <2>2, <1>1
  <1> HIDE DEF Message
  <1>4. ASSUME NEW c \in Users, NEW ip \in IPs, NEW internal \in BOOLEAN, UserAdd(c, ip, internal)
        PROVE  net' \subseteq Message
    <2>1. UNCHANGED net \/ lookup_blacklists(c, ip)
      BY <1>4 DEF UserAdd
    <2> QED BY <2>1, <1>0, <1>2
  <1>5. ASSUME NEW c \in Users, ps_cmd_dnsblscan(c) PROVE net' \subseteq Message
    <2>1. lookup_blacklists(c, user[c].ip) /\ user[c] # Off
      BY <1>5 DEF ps_cmd_dnsblscan, Online
    <2>2. user[c].ip \in IPs
      BY <2>1 DEF Inv, Lookups, UserType, Client
    <2> QED BY <2>1, <2>2, <1>2
  <1>6. ASSUME NEW m \in net, NEW listed \in BOOLEAN, Lost(m) \/ res_read_single_reply(m, listed)
        PROVE  net' \subseteq Message
    BY <1>0, <1>6 DEF Lost, res_read_single_reply
  <1>7. ASSUME UNCHANGED net PROVE net' \subseteq Message
    BY <1>0, <1>7
  <1>8. QED
    <2>1. ASSUME NEW c \in Users, UserDelete(c) PROVE UNCHANGED net
      BY <2>1 DEF UserDelete
    <2>2. ASSUME NEW ip \in ExemptIPs, ps_cmd_dnsblexempt(ip) PROVE UNCHANGED net
      BY <2>2 DEF ps_cmd_dnsblexempt, resVars
    <2>3. ASSUME NEW a \in Actions, os_cmd_set_dnsblaction(a) PROVE UNCHANGED net
      BY <2>3 DEF os_cmd_set_dnsblaction, resVars
    <2>4. ASSUME NEW zones \in SUBSET Zones, dnsbl_config_handler(zones) PROVE UNCHANGED net
      BY <2>4 DEF dnsbl_config_handler, resVars
    <2>5. UNCHANGED vars => UNCHANGED net
      BY DEF vars, resVars
    <2>6. ASSUME NEW m \in net, Lost(m) PROVE net' \subseteq Message
      BY <2>6, <1>6
    <2> QED BY <1>3, <1>4, <1>5, <1>6, <1>7, <2>1, <2>2, <2>3, <2>4, <2>5, <2>6 DEF Next, Message

LEMMA InvNext ==
    ASSUME DnsblAssumption, Inv, [Next]_vars
    PROVE  Inv'
  <1>1. Lookups' /\ KlinedAreListed'
    <2>1. ASSUME UNCHANGED <<clientVars, requests>> PROVE Lookups' /\ KlinedAreListed'
      BY <2>1, Untouched DEF Inv, KlinedAreListed, Online, clientVars
    <2>2. ASSUME NEW ip \in ExemptIPs, ps_cmd_dnsblexempt(ip) PROVE UNCHANGED <<clientVars, requests>>
      BY <2>2 DEF ps_cmd_dnsblexempt, resVars
    <2>3. ASSUME NEW a \in Actions, os_cmd_set_dnsblaction(a) PROVE UNCHANGED <<clientVars, requests>>
      BY <2>3 DEF os_cmd_set_dnsblaction, resVars
    <2>4. ASSUME NEW zones \in SUBSET Zones, dnsbl_config_handler(zones)
          PROVE  UNCHANGED <<clientVars, requests>>
      BY <2>4 DEF dnsbl_config_handler, resVars
    <2>5. ASSUME NEW m \in net, Lost(m) PROVE UNCHANGED <<clientVars, requests>>
      BY <2>5 DEF Lost
    <2>6. UNCHANGED vars => UNCHANGED <<clientVars, requests>>
      BY DEF vars, resVars
    <2> QED BY <2>1, <2>2, <2>3, <2>4, <2>5, <2>6,
               UserAddKeeps, UserDeleteKeeps, ScanKeeps, AnswerKeeps, PassKeeps DEF Next
  <1>2. net' \subseteq [id : Ids, name : Name]
    BY <1>1, QueriesSent
  <1>3. OptionTypes'
    <2>1. UNCHANGED <<blacklists, operVars>> => OptionTypes'
      BY DEF Inv, OptionTypes, operVars
    <2>2. ASSUME NEW ip \in ExemptIPs, ps_cmd_dnsblexempt(ip) PROVE OptionTypes'
      BY <2>2 DEF ps_cmd_dnsblexempt, Inv, OptionTypes, DnsblAssumption
    <2>3. ASSUME NEW a \in Actions, os_cmd_set_dnsblaction(a) PROVE OptionTypes'
      BY <2>3 DEF os_cmd_set_dnsblaction, Inv, OptionTypes
    <2>4. ASSUME NEW zones \in SUBSET Zones, dnsbl_config_handler(zones) PROVE OptionTypes'
      BY <2>4 DEF dnsbl_config_handler, Inv, OptionTypes, operVars
    <2>5. ASSUME NEW c \in Users, NEW ip \in IPs, NEW internal \in BOOLEAN, UserAdd(c, ip, internal)
          PROVE  OptionTypes'
      BY <2>1, <2>5 DEF UserAdd
    <2>6. ASSUME NEW c \in Users, UserDelete(c) \/ ps_cmd_dnsblscan(c) PROVE OptionTypes'
      BY <2>1, <2>6 DEF UserDelete, ps_cmd_dnsblscan
    <2>7. ASSUME NEW m \in net, NEW listed \in BOOLEAN, res_read_single_reply(m, listed)
          PROVE  OptionTypes'
      BY <2>1, <2>7 DEF res_read_single_reply
    <2>8. ASSUME NEW m \in net, Lost(m) PROVE OptionTypes'
      BY <2>1, <2>8 DEF Lost
    <2>9. timeout_query_list \/ UNCHANGED vars => OptionTypes'
      BY <2>1 DEF timeout_query_list, vars
    <2> QED BY <2>2, <2>3, <2>4, <2>5, <2>6, <2>7, <2>8, <2>9 DEF Next
  <1> QED BY <1>1, <1>2, <1>3 DEF Inv

-----------------------------------------------------------------------------
\* Every variable has its type (res.c, dnsbl.c).
THEOREM TypeCorrect == Spec => []TypeOK
  <1>1. Init => Inv
    BY InvInit, DnsblAssumption
  <1>2. Inv /\ [Next]_vars => Inv'
    BY InvNext, DnsblAssumption
  <1>3. Inv => TypeOK
    BY DEF Inv, TypeOK, Lookups, UserType, LookupTypes, OptionTypes
  <1> QED BY <1>1, <1>2, <1>3, PTL DEF Spec

\* Resolver and scanner agree on the lookups under way, whatever the order of
\* answers, timeouts, scans and quits: no callback meets a client or a lookup
\* that is gone (res.c:176, 808-854, dnsbl.c:545).
THEOREM AlwaysTracked == Spec => []LookupsTracked
  <1>1. Init => Inv
    BY InvInit, DnsblAssumption
  <1>2. Inv /\ [Next]_vars => Inv'
    BY InvNext, DnsblAssumption
  <1>3. Inv => LookupsTracked
    BY DEF Inv, Lookups
  <1> QED BY <1>1, <1>2, <1>3, PTL DEF Spec

\* No client is k-lined for the address of another, although ids are reused
\* and answers come late or twice (res.c:578, dnsbl.c:515).
THEOREM OnlyListedKlined == Spec => []KlinedAreListed
  <1>1. Init => Inv
    BY InvInit, DnsblAssumption
  <1>2. Inv /\ [Next]_vars => Inv'
    BY InvNext, DnsblAssumption
  <1>3. Inv => KlinedAreListed
    BY DEF Inv
  <1> QED BY <1>1, <1>2, <1>3, PTL DEF Spec

-----------------------------------------------------------------------------
(* Clones *)

CloneTypes ==
    /\ online \subseteq Clients
    /\ hostlist \in [IPs -> [clients : SUBSET Clients, gracekills : Nat, period : 0 .. Window + 1]]
    /\ lastkill \in [IPs -> Nat]
    /\ kline \in [enabled : BOOLEAN, grace : Counts \union {0}]

\* While the period of an address runs, the kill that began it is recent.
PeriodRecent == \A ip \in IPs : hostlist[ip].period > 0 => lastkill[ip] + hostlist[ip].period <= Window + 1

CloneInv == CloneTypes /\ C!HostsExact /\ PeriodRecent

LEMMA CloneInit ==
    ASSUME C!ClonesAssumption, C!Init
    PROVE  CloneInv
  <1>1. Window + 1 \in Nat /\ IPs = IPs
    BY DEF C!ClonesAssumption
  <1>2. hostlist = [ip \in IPs |-> [clients |-> {}, gracekills |-> 0, period |-> 0]]
    BY DEF C!Init, C!NoHost
  <1>3. CloneTypes
    BY <1>1, <1>2 DEF CloneTypes, C!Init
  <1>4. C!HostsExact
    BY <1>2 DEF C!HostsExact, C!Init
  <1>5. PeriodRecent
    BY <1>2 DEF PeriodRecent
  <1> QED BY <1>3, <1>4, <1>5 DEF CloneInv

\* A client comes and stays, with a k-line or without.
LEMMA IntroduceKeeps ==
    ASSUME C!ClonesAssumption, CloneInv, NEW c \in Clients, C!Introduce(c)
    PROVE  CloneInv'
  <1>1. /\ online' = online \union {c} /\ UNCHANGED <<kline, lastkill>>
        /\ hostlist' = [hostlist EXCEPT ![IP[c]].clients = hostlist[IP[c]].clients \union {c}]
    BY DEF C!Introduce, C!Joined
  <1>2. IP[c] \in IPs /\ Window \in Nat
    BY DEF C!ClonesAssumption
  <1>3. ASSUME NEW ip \in IPs
        PROVE  /\ hostlist'[ip].clients = IF ip = IP[c] THEN hostlist[ip].clients \union {c} ELSE hostlist[ip].clients
               /\ hostlist'[ip].period = hostlist[ip].period
               /\ hostlist'[ip] \in [clients : SUBSET Clients, gracekills : Nat, period : 0 .. Window + 1]
    <2>1. hostlist[ip] \in [clients : SUBSET Clients, gracekills : Nat, period : 0 .. Window + 1]
      BY DEF CloneInv, CloneTypes
    <2>2. hostlist'[ip] = IF ip = IP[c] THEN [hostlist[ip] EXCEPT !.clients = hostlist[IP[c]].clients \union {c}]
                          ELSE hostlist[ip]
      BY <1>1, <1>2 DEF CloneInv, CloneTypes
    <2> QED BY <2>1, <2>2
  <1>4. CloneTypes'
    BY <1>1, <1>3 DEF CloneInv, CloneTypes
  <1>5. C!HostsExact'
    BY <1>1, <1>3 DEF CloneInv, C!HostsExact
  <1>6. PeriodRecent'
    BY <1>1, <1>3 DEF CloneInv, PeriodRecent
  <1> QED BY <1>4, <1>5, <1>6 DEF CloneInv

\* A client that is killed while it comes is not counted, its kill is.
LEMMA KillKeeps ==
    ASSUME C!ClonesAssumption, CloneInv, NEW c \in Clients, C!Kill(c)
    PROVE  CloneInv'
  <1> DEFINE HostRec == [clients : SUBSET Clients, gracekills : Nat, period : 0 .. Window + 1]
             he == hostlist[IP[c]]
             joined == [he EXCEPT !.clients = he.clients \union {c}]
             counted == C!Counted(joined)
             left == C!clones_userquit(counted, c)
  <1>1. /\ hostlist' = [hostlist EXCEPT ![IP[c]] = left]
        /\ lastkill' = [lastkill EXCEPT ![IP[c]] = 0]
        /\ c \notin online /\ UNCHANGED <<kline, online>>
    BY DEF C!Kill, C!Joined
  <1>2. IP[c] \in IPs /\ Window \in Nat
    BY DEF C!ClonesAssumption
  <1>3. he \in HostRec /\ he.clients = {u \in online : IP[u] = IP[c]}
    BY <1>2 DEF CloneInv, CloneTypes, C!HostsExact
  <1>4. joined \in HostRec /\ joined.clients = he.clients \union {c}
    BY <1>3
  <1> HIDE DEF joined
  <1>5. counted \in HostRec /\ counted.clients = he.clients \union {c}
    <2>1. CASE joined.period = 0
      <3> DEFINE w == Window + 1
      <3>1. counted = [joined EXCEPT !.period = w, !.gracekills = 1]
        BY <2>1 DEF C!Counted
      <3>2. w \in 0 .. Window + 1
        BY <1>2
      <3> HIDE DEF counted, w
      <3> QED BY <3>1, <3>2, <1>4
    <2>2. CASE joined.period # 0
      <3> DEFINE n == IF joined.gracekills \in Counts THEN joined.gracekills + 1 ELSE joined.gracekills
      <3>1. counted = [joined EXCEPT !.gracekills = n]
        BY <2>2 DEF C!Counted
      <3>2. n \in Nat
        BY <1>4
      <3> HIDE DEF counted, n
      <3> QED BY <3>1, <3>2, <1>4
    <2> QED BY <2>1, <2>2
  <1> HIDE DEF counted
  <1>6. left \in HostRec /\ left.clients = he.clients
    <2>1. c \notin he.clients
      BY <1>1, <1>3
    <2>2. CASE counted.clients \subseteq {c}
      <3>1. left = [clients |-> {}, gracekills |-> 0, period |-> 0]
        BY <2>2 DEF C!clones_userquit, C!NoHost
      <3>2. he.clients = {}
        BY <2>1, <2>2, <1>5
      <3> HIDE DEF left
      <3> QED BY <3>1, <3>2, <1>2
    <2>3. CASE ~(counted.clients \subseteq {c})
      <3>1. left = [counted EXCEPT !.clients = counted.clients \ {c}]
        BY <2>3 DEF C!clones_userquit
      <3> HIDE DEF left
      <3> QED BY <3>1, <2>1, <1>5
    <2> QED BY <2>2, <2>3
  <1> HIDE DEF left
  <1>7. \A ip \in IPs : hostlist'[ip] = IF ip = IP[c] THEN left ELSE hostlist[ip]
    BY <1>1 DEF CloneInv, CloneTypes
  <1>8. \A ip \in IPs : lastkill'[ip] = IF ip = IP[c] THEN 0 ELSE lastkill[ip]
    BY <1>1 DEF CloneInv, CloneTypes
  <1>9. CloneTypes'
    BY <1>1, <1>6 DEF CloneInv, CloneTypes
  <1>10. C!HostsExact'
    BY <1>1, <1>2, <1>6, <1>7 DEF CloneInv, C!HostsExact
  <1>11. PeriodRecent'
    <2> SUFFICES ASSUME NEW ip \in IPs, hostlist'[ip].period > 0
                 PROVE  lastkill'[ip] + hostlist'[ip].period <= Window + 1
      BY <1>1 DEF PeriodRecent
    <2>1. CASE ip = IP[c]
      BY <2>1, <1>2, <1>6, <1>7, <1>8
    <2>2. CASE ip # IP[c]
      BY <2>2, <1>7, <1>8 DEF CloneInv, PeriodRecent
    <2> QED BY <2>1, <2>2
  <1> QED BY <1>9, <1>10, <1>11 DEF CloneInv

LEMMA CloneQuitKeeps ==
    ASSUME C!ClonesAssumption, CloneInv, NEW c \in Clients, C!UserDelete(c)
    PROVE  CloneInv'
  <1> DEFINE HostRec == [clients : SUBSET Clients, gracekills : Nat, period : 0 .. Window + 1]
             he == hostlist[IP[c]]
             left == C!clones_userquit(he, c)
  <1>1. /\ hostlist' = [hostlist EXCEPT ![IP[c]] = left]
        /\ online' = online \ {c} /\ UNCHANGED <<kline, lastkill>>
    BY DEF C!UserDelete
  <1>2. IP[c] \in IPs /\ Window \in Nat
    BY DEF C!ClonesAssumption
  <1>3. he \in HostRec /\ he.clients = {u \in online : IP[u] = IP[c]}
    BY <1>2 DEF CloneInv, CloneTypes, C!HostsExact
  <1>4. left \in HostRec /\ left.clients = he.clients \ {c} /\ left.period \in {0, he.period}
    <2>1. CASE he.clients \subseteq {c}
      <3>1. left = [clients |-> {}, gracekills |-> 0, period |-> 0]
        BY <2>1 DEF C!clones_userquit, C!NoHost
      <3> HIDE DEF left
      <3> QED BY <3>1, <2>1, <1>2
    <2>2. CASE ~(he.clients \subseteq {c})
      <3>1. left = [he EXCEPT !.clients = he.clients \ {c}]
        BY <2>2 DEF C!clones_userquit
      <3> HIDE DEF left
      <3> QED BY <3>1, <1>3
    <2> QED BY <2>1, <2>2
  <1> HIDE DEF left
  <1>5. \A ip \in IPs : hostlist'[ip] = IF ip = IP[c] THEN left ELSE hostlist[ip]
    BY <1>1 DEF CloneInv, CloneTypes
  <1>6. CloneTypes'
    BY <1>1, <1>4 DEF CloneInv, CloneTypes
  <1>7. C!HostsExact'
    BY <1>1, <1>3, <1>4, <1>5 DEF CloneInv, C!HostsExact
  <1>8. PeriodRecent'
    BY <1>1, <1>4, <1>5 DEF CloneInv, PeriodRecent
  <1> QED BY <1>6, <1>7, <1>8 DEF CloneInv

LEMMA TickKeeps ==
    ASSUME C!ClonesAssumption, CloneInv, C!Tick
    PROVE  CloneInv'
  <1> DEFINE HostRec == [clients : SUBSET Clients, gracekills : Nat, period : 0 .. Window + 1]
  <1>1. /\ hostlist' = [ip \in IPs |-> [hostlist[ip] EXCEPT !.period = IF @ > 0 THEN @ - 1 ELSE 0]]
        /\ lastkill' = [ip \in IPs |-> IF lastkill[ip] > Window THEN lastkill[ip] ELSE lastkill[ip] + 1]
        /\ UNCHANGED <<kline, online>>
    BY DEF C!Tick
  <1>2. Window \in Nat
    BY DEF C!ClonesAssumption
  <1>3. ASSUME NEW ip \in IPs
        PROVE  /\ hostlist'[ip] \in HostRec /\ hostlist'[ip].clients = hostlist[ip].clients
               /\ hostlist'[ip].period = IF hostlist[ip].period > 0 THEN hostlist[ip].period - 1 ELSE 0
               /\ lastkill'[ip] \in Nat
               /\ lastkill'[ip] = IF lastkill[ip] > Window THEN lastkill[ip] ELSE lastkill[ip] + 1
    <2>1. hostlist[ip] \in HostRec /\ lastkill[ip] \in Nat
      BY DEF CloneInv, CloneTypes
    <2>2. hostlist'[ip] = [hostlist[ip] EXCEPT !.period = IF @ > 0 THEN @ - 1 ELSE 0]
      BY <1>1
    <2>3. (IF hostlist[ip].period > 0 THEN hostlist[ip].period - 1 ELSE 0) \in 0 .. Window + 1
      BY <2>1, <1>2
    <2> QED BY <2>1, <2>2, <2>3, <1>1
  <1>4. CloneTypes'
    BY <1>1, <1>3 DEF CloneInv, CloneTypes
  <1>5. C!HostsExact'
    BY <1>1, <1>3 DEF CloneInv, C!HostsExact
  <1>6. PeriodRecent'
    <2> SUFFICES ASSUME NEW ip \in IPs, hostlist'[ip].period > 0
                 PROVE  lastkill'[ip] + hostlist'[ip].period <= Window + 1
      BY <1>1 DEF PeriodRecent
    <2>1. hostlist[ip].period \in 0 .. Window + 1 /\ lastkill[ip] \in Nat
      BY DEF CloneInv, CloneTypes
    <2>2. hostlist[ip].period > 0 => lastkill[ip] + hostlist[ip].period <= Window + 1
      BY DEF CloneInv, PeriodRecent
    <2> QED BY <2>1, <2>2, <1>2, <1>3
  <1> QED BY <1>4, <1>5, <1>6 DEF CloneInv

LEMMA CloneNext ==
    ASSUME C!ClonesAssumption, CloneInv, [C!Next]_C!vars
    PROVE  CloneInv'
  <1>1. ASSUME UNCHANGED <<hostlist, online, lastkill>>,
               kline' \in [enabled : BOOLEAN, grace : Counts \union {0}]
        PROVE  CloneInv'
    BY <1>1 DEF CloneInv, CloneTypes, C!HostsExact, PeriodRecent
  <1>2. UNCHANGED <<hostlist, online, lastkill, kline>> => CloneInv'
    BY <1>1 DEF CloneInv, CloneTypes
  <1>3. ASSUME NEW c \in Clients, C!Stay(c) \/ C!Kline(c) PROVE CloneInv'
    BY <1>3, IntroduceKeeps DEF C!Stay, C!Kline
  <1>4. ASSUME NEW c \in Clients, NEW login \in BOOLEAN, C!SetLogin(c, login) PROVE CloneInv'
    BY <1>2, <1>4 DEF C!SetLogin
  <1>5. ASSUME NEW enabled \in BOOLEAN, NEW n \in Counts, C!os_cmd_clones_kline(enabled, n)
        PROVE  CloneInv'
    <2>1. kline' \in [enabled : BOOLEAN, grace : Counts \union {0}]
      BY <1>5 DEF C!os_cmd_clones_kline, CloneInv, CloneTypes
    <2> QED BY <2>1, <1>1, <1>5 DEF C!os_cmd_clones_kline
  <1>6. ASSUME NEW list, C!SetExempts(list) PROVE CloneInv'
    BY <1>2, <1>6 DEF C!SetExempts
  <1>7. ASSUME NEW m \in Masks, NEW n \in Limits, NEW left \in C!Ends, C!os_cmd_clones_addexempt(m, n, left)
        PROVE  CloneInv'
    BY <1>6, <1>7 DEF C!os_cmd_clones_addexempt
  <1>8. ASSUME NEW m \in Masks, C!os_cmd_clones_delexempt(m) PROVE CloneInv'
    BY <1>6, <1>8 DEF C!os_cmd_clones_delexempt
  <1>9. ASSUME NEW m, NEW ce, C!Changed(m, ce) PROVE CloneInv'
    BY <1>6, <1>9 DEF C!Changed
  <1>10. ASSUME NEW n \in Limits, C!SetDefault(n) PROVE CloneInv'
    BY <1>2, <1>10 DEF C!SetDefault
  <1>11. C!Sweep => CloneInv'
    BY <1>6 DEF C!Sweep
  <1>12. C!Rehash => CloneInv'
    BY <1>2 DEF C!Rehash
  <1>13. UNCHANGED C!vars => CloneInv'
    BY <1>2 DEF C!vars
  <1>14. ASSUME NEW m \in Masks, NEW what \in {"ALLOWED", "WARN"}, NEW n \in Limits,
                C!os_cmd_clones_setexempt(m, what, n)
         PROVE  CloneInv'
    BY <1>9, <1>14 DEF C!os_cmd_clones_setexempt
  <1>15. ASSUME NEW m \in Masks, NEW left \in C!Ends, C!SetDuration(m, left) PROVE CloneInv'
    BY <1>9, <1>15 DEF C!SetDuration
  <1> QED BY <1>3, <1>4, <1>5, <1>7, <1>8, <1>10, <1>11, <1>12, <1>13, <1>14, <1>15,
             KillKeeps, CloneQuitKeeps, TickKeeps DEF C!Next

\* CLONES counts for each address the clients there are, whoever was killed
\* while being introduced (clones.c:858-1000).
THEOREM ClonesExact == ASSUME C!ClonesAssumption PROVE C!Spec => []C!HostsExact
  <1>1. C!Init => CloneInv
    BY CloneInit
  <1>2. CloneInv /\ [C!Next]_C!vars => CloneInv'
    BY CloneNext
  <1>3. CloneInv => C!HostsExact
    BY DEF CloneInv
  <1> QED BY <1>1, <1>2, <1>3, PTL DEF C!Spec

\* With a count, CLONES KLINE sets a k-line only after a kill within the period
\* (clones.c:960-1000).
THEOREM GraceAlwaysGiven == ASSUME C!ClonesAssumption PROVE C!Spec => C!GraceGiven
  <1>1. C!Init => CloneInv
    BY CloneInit
  <1>2. CloneInv /\ [C!Next]_C!vars => CloneInv'
    BY CloneNext
  <1>3. ASSUME CloneInv, NEW c \in Clients, C!Kline(c), kline.grace > 0
        PROVE  lastkill[IP[c]] <= Window
    <2>1. IP[c] \in IPs /\ Window \in Nat
      BY DEF C!ClonesAssumption
    <2>2. hostlist[IP[c]].period # 0
      BY <1>3 DEF C!Kline, C!Grace
    <2>3. hostlist[IP[c]].period \in 0 .. Window + 1 /\ lastkill[IP[c]] \in Nat
      BY <1>3, <2>1 DEF CloneInv, CloneTypes
    <2> QED BY <1>3, <2>1, <2>2, <2>3 DEF CloneInv, PeriodRecent
  <1>4. CloneInv /\ [C!Next]_C!vars =>
           [\A u \in Clients : C!Kline(u) /\ kline.grace > 0 => lastkill[IP[u]] <= Window]_C!vars
    BY <1>3
  <1> QED BY <1>1, <1>2, <1>4, PTL DEF C!Spec, C!GraceGiven, C!vars
=============================================================================
